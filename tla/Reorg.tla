-------------------------------- MODULE Reorg --------------------------------
(***************************************************************************)
(* What the analyzer does about reorganisations of the chain once it       *)
(* follows the head (pkg/analyzer/reorg.go, chain_cache.go and the deletes *)
(* of pkg/db): HandleReorg walks down from the cached head and replaces    *)
(* what changed; AdvanceFinalized compares what is cached with what is     *)
(* now final, repairs it, and evicts it.                                   *)
(*                                                                         *)
(* The chain is external: each slot holds a block of some fork or none,    *)
(* and a reorg gives every slot above the common ancestor to a new fork.   *)
(* A block is named by its fork, Missed where the slot has none (a zero    *)
(* root, Proposed = false); a state by the fork its last slot is on.  The  *)
(* rows of the database hold the names of what they were computed from.    *)
(*                                                                         *)
(* The regular flow (HistoricalPipeline has its steps) is one action here: *)
(* the block of a new head slot is cached and written, and with the last   *)
(* slot of an epoch its state too.  Every announced reorg starts a walk of *)
(* its own, and walks and passes run side by side; a slot of a walk, from  *)
(* its download to its rows, is one step, and so is an epoch of a pass.    *)
(* The context is not cancelled and downloads succeed; deletes and the     *)
(* request for a state root may fail.                                      *)
(***************************************************************************)
EXTENDS Integers, FiniteSets, FiniteSetsExt

CONSTANTS
    SlotsPerEpoch,
    MaxEpoch,       \* bound: the last epoch of the chain
    MaxForks,       \* bound: forks, the first one included
    MaxDepth,       \* bound: slots from the ancestor of a reorg to the head
    MaxMissed,      \* bound: empty slots, of the few in a row that Sparse looks at
    MaxGaps,        \* bound: slots that some fork leaves empty
    LastTrouble,    \* bound: the last slot that may be empty or see a reorg
    MaxPasses,      \* passes of AdvanceFinalized at a time
    Failing,        \* bound: the epochs for which one call of a pass or walk may fail
    KeepEpochs      \* epochs before the finalized one that are left alone

ASSUME ReorgAssumption ==
    /\ SlotsPerEpoch \in Nat \ {0}
    /\ MaxEpoch \in Nat /\ MaxEpoch >= 5
    /\ MaxForks \in Nat \ {0}
    /\ MaxDepth \in Nat /\ MaxMissed \in Nat /\ MaxGaps \in Nat
    /\ LastTrouble \in Nat
    /\ MaxPasses \in Nat \ {0}
    /\ Failing \subseteq Nat
    /\ KeepEpochs \in Nat

EpochOf(s) == s \div SlotsPerEpoch

FirstSlot(e) == e * SlotsPerEpoch

LastSlot(e) == (e + 1) * SlotsPerEpoch - 1

SlotsOf(e) == FirstSlot(e)..LastSlot(e)

Epochs == 0..MaxEpoch

Slots == 0..LastSlot(MaxEpoch)

\* The epoch of s.initSlot.
InitEpoch == 0

Missed == 0

Forks == 1..MaxForks

\* Not in the cache, or not in the table.
None == -1

NoState == [root |-> None, blocks |-> <<>>]

NoRow == {}

VARIABLES
    canon,      \* external: the block of each slot up to the head
    root,       \* external: the fork of each slot up to the head
    fork,       \* external: the fork of the head
    head,       \* external: the slot of the head
    gaps,       \* external: the slots that some fork has no block in
    fin,        \* external: the finalized epoch
    blocks,     \* BlockHistory
    states,     \* StateHistory
    rows,       \* the tables
    passes,     \* running calls of AdvanceFinalized
    handlers,   \* running calls of HandleReorg
    lost,       \* a reorg was not announced
    failed,     \* epochs whose state root or whose deletes failed
    checked     \* the finalized slots that were checked lie before this epoch

vars == <<canon, root, fork, head, gaps, fin, blocks, states, rows, passes,
          handlers, lost, failed, checked>>

chain == <<canon, root, fork, head, gaps>>

cache == <<blocks, states>>

history == <<lost, failed, checked>>

-----------------------------------------------------------------------------
(* The cache and the tables.                                               *)

Cached(e, st) == st[e].root # None

\* DownloadState: the state of the chain, with the cached blocks of its epoch.
Downloaded(e, bs) ==
    [root |-> root[LastSlot(e)], blocks |-> [s \in SlotsOf(e) |-> bs[s]]]

\* AddNewState waits for the blocks of the epoch.
BlocksThere(e, bs) == \A s \in SlotsOf(e) : bs[s] # None

\* The states that ProcessStateTransitionMetrics(e) reads.
Dependencies(e) == {d \in {e - 2, e - 1, e} : d >= InitEpoch}

\* The deletes of DeleteStateMetrics.
Deletes == 6

\* Faulty form of DeleteStateMetrics: only the rows that are named after e.
DeleteStateMetricsOwn(r, e, n) ==
    [r EXCEPT !.epoch = [x \in Epochs |-> IF x = e THEN NoRow ELSE @[x]],
              !.duties = [x \in Epochs |-> IF x = e THEN NoRow ELSE @[x]],
              !.rewards = [x \in Epochs |-> IF x = e THEN NoRow ELSE @[x]]]

\* The first n deletes of DeleteStateMetrics, which returns at the first that
\* fails: of the rows computed from the state of e, those of the tables epoch,
\* duties and rewards, in this order.
DeleteStateMetrics(r, e, n) ==
    [r EXCEPT !.epoch = [x \in Epochs |->
                  IF x \in {e - 1, e} /\ n >= x - e + 2 THEN NoRow ELSE @[x]],
              !.duties = [x \in Epochs |-> IF x = e /\ n >= 3 THEN NoRow ELSE @[x]],
              !.rewards = [x \in Epochs |->
                  IF x \in e..(e + 2) /\ n >= Deletes - (x - e) THEN NoRow ELSE @[x]]]

\* ProcessStateTransitionMetrics(e), which writes when it has three states.  An
\* insert removes nothing.  The tables that DeleteStateMetrics leaves alone
\* (status, slashings, deposits, requests, block rewards, pools) are one here.
ProcessStateTransition(r, e, st) ==
    IF e - 2 < InitEpoch
    THEN r
    ELSE LET from == <<st[e - 2].root, st[e - 1].root, st[e].root>>
         IN  [r EXCEPT !.epoch[e - 1] = @ \union {<<from[2], from[3]>>},
                       !.duties[e] = @ \union {<<from[3]>>},
                       !.rewards[e] = @ \union {from},
                       !.others[e] = @ \union {from}]

\* Faulty form of Rewritten: what was written anew is deleted.
RewrittenFirst(r, e, st) ==
    /\ rows' = DeleteStateMetrics(ProcessStateTransition(r, e, st), e, Deletes)
    /\ UNCHANGED failed

\* The metrics of e are deleted and processed again; the error that a delete
\* returns is dropped.
Rewritten(r, e, st) ==
    \E n \in 0..Deletes :
        /\ n < Deletes => e \in Failing \ failed
        /\ failed' = IF n < Deletes THEN failed \union {e} ELSE failed
        /\ rows' = ProcessStateTransition(DeleteStateMetrics(r, e, n), e, st)

\* Faulty form of CleanUpTo: the loop over the slots of an epoch runs over its end.
CleanUpToPastEnd(limit) ==
    LET old == {e \in Epochs : Cached(e, states) /\ e < limit}
    IN  /\ states' = [e \in Epochs |-> IF e \in old THEN NoState ELSE states[e]]
        /\ blocks' = [s \in Slots |-> IF \E e \in old : s \in FirstSlot(e)..FirstSlot(e + 1)
                                     THEN None ELSE blocks[s]]

\* CleanUpTo the first slot of an epoch.
CleanUpTo(limit) ==
    LET old == {e \in Epochs : Cached(e, states) /\ e < limit}
    IN  /\ states' = [e \in Epochs |-> IF e \in old THEN NoState ELSE states[e]]
        /\ blocks' = [s \in Slots |-> IF EpochOf(s) \in old THEN None ELSE blocks[s]]

-----------------------------------------------------------------------------
(* The chain and the regular flow.                                         *)

\* Slots without a block are few: in all, and among as many in a row as a walk
\* may pass, for all the forks together.
Sparse(S) ==
    /\ Cardinality(S) <= MaxGaps
    /\ \A s \in Slots :
          Cardinality(S \intersect (s..(s + MaxDepth + MaxMissed))) <= MaxMissed

\* The head moves on by a slot, with or without a block, and the regular flow
\* downloads and processes it.
Follow(block) ==
    LET s == head + 1
        e == EpochOf(s)
        bs == [blocks EXCEPT ![s] = block]
        st == [states EXCEPT ![e] = [root |-> fork, blocks |-> [t \in SlotsOf(e) |-> bs[t]]]]
    IN  /\ s \in Slots
        /\ block \in {fork, Missed}
        /\ block = Missed => s <= LastTrouble
        /\ gaps' = IF block = Missed THEN gaps \union {s} ELSE gaps
        /\ Sparse(gaps')
        /\ head' = s
        /\ canon' = [canon EXCEPT ![s] = block]
        /\ root' = [root EXCEPT ![s] = fork]
        /\ blocks' = bs
        /\ LET written == [rows EXCEPT !.block[s] = block] IN
           IF s = LastSlot(e)
           THEN /\ BlocksThere(e, bs)
                /\ \A d \in Dependencies(e) : Cached(d, st)
                /\ states' = st
                /\ rows' = ProcessStateTransition(written, e, st)
           ELSE /\ rows' = written
                /\ UNCHANGED states
        /\ UNCHANGED <<fork, fin, passes, handlers, history>>

\* The slots above the ancestor go to a new fork; those in missed are empty.
\* The node announces it, with the slot of the new head and the number of
\* slots from the ancestor to it, or the announcement is lost.  HandleReorg
\* starts at the head that the cache has, beside the walks that are under way.
ChainReorg(ancestor, missed) ==
    /\ fork < MaxForks /\ head <= LastTrouble
    /\ canon[ancestor] # Missed
    /\ head - ancestor <= MaxDepth
    /\ fork' = fork + 1
    /\ canon' = [s \in Slots |-> IF s \in (ancestor + 1)..head
                                THEN IF s \in missed THEN Missed ELSE fork'
                                ELSE canon[s]]
    /\ root' = [s \in Slots |-> IF s \in (ancestor + 1)..head THEN fork' ELSE root[s]]
    /\ gaps' = gaps \union missed
    /\ Sparse(gaps')
    /\ \/ /\ handlers' = handlers \union
               {[of |-> fork', slot |-> head, depth |-> head - ancestor,
                 i |-> head, reorgedSlots |-> 0, since |-> fin]}
          /\ UNCHANGED lost
       \/ /\ lost' = TRUE
          /\ UNCHANGED handlers
    /\ UNCHANGED <<head, fin, cache, rows, passes, failed, checked>>

\* Faulty form of Finalize: nothing is kept below the finalized epoch.
FinalizeKeepsNone(f) ==
    /\ Cardinality(passes) < MaxPasses
    /\ \A h \in handlers : f <= h.since + 1
    /\ fin' = f
    /\ passes' = passes \union
          {[limit |-> f, todo |-> {e \in Epochs : Cached(e, states) /\ e < f},
            changed |-> {}, at |-> "blocks"]}
    /\ UNCHANGED <<chain, cache, rows, handlers, history>>

\* A finalized checkpoint, two epochs behind the head, starts AdvanceFinalized.
\* Checkpoints whose event was dropped are passed over.  A walk of HandleReorg
\* is taken to last for less than two epochs.
Finalize(f) ==
    /\ Cardinality(passes) < MaxPasses
    /\ \A h \in handlers : f <= h.since + 1
    /\ fin' = f
    /\ passes' = passes \union
          {[limit |-> f - KeepEpochs,
            todo |-> {e \in Epochs : Cached(e, states) /\ e < f - KeepEpochs},
            changed |-> {}, at |-> "blocks"]}
    /\ UNCHANGED <<chain, cache, rows, handlers, history>>

-----------------------------------------------------------------------------
(* AdvanceFinalized: for each cached epoch before the limit, in ascending  *)
(* order, first the blocks and then the state.                             *)

Moved(p, q) == passes' = (passes \ {p}) \union {q}

\* A block that is not the final one is deleted from the tables and processed
\* again; ProcessBlock takes it from the cache.  The state is given the
\* cached blocks anew.
VerifyBlocks(p) ==
    /\ p.todo # {} /\ p.at = "blocks"
    /\ LET e == Min(p.todo)
           wrong == {s \in SlotsOf(e) : blocks[s] # canon[s]}
       IN  /\ BlocksThere(e, blocks)
           /\ rows' = [rows EXCEPT !.block = [s \in Slots |-> IF s \in wrong THEN blocks[s] ELSE @[s]]]
           /\ IF wrong = {}
              THEN /\ Moved(p, [p EXCEPT !.at = "state"])
                   /\ UNCHANGED states
              ELSE /\ Cached(e, states)
                   /\ states' = [states EXCEPT ![e].blocks = [s \in SlotsOf(e) |-> blocks[s]]]
                   /\ Moved(p, [p EXCEPT !.at = "state", !.changed = @ \union {e}])
    /\ UNCHANGED <<chain, fin, blocks, handlers, history>>

Done(p) == [p EXCEPT !.at = "blocks", !.todo = @ \ {Min(@)}]

RootChanged(e) == states[e].root # root[LastSlot(e)]

\* The state is wrong, or a block of one of the three epochs was.
NeedsReprocess(p, e) == RootChanged(e) \/ Dependencies(e) \intersect p.changed # {}

VerifyStateSame(p) ==
    /\ p.todo # {} /\ p.at = "state"
    /\ LET e == Min(p.todo) IN Cached(e, states) /\ ~NeedsReprocess(p, e)
    /\ Moved(p, Done(p))
    /\ UNCHANGED <<chain, fin, cache, rows, handlers, history>>

\* The request for the state root fails, and the epoch is passed over.
VerifyStateSkipped(p) ==
    /\ p.todo # {} /\ p.at = "state"
    /\ Cached(Min(p.todo), states) /\ Min(p.todo) \in Failing \ failed
    /\ failed' = failed \union {Min(p.todo)}
    /\ Moved(p, Done(p))
    /\ UNCHANGED <<chain, fin, cache, rows, handlers, lost, checked>>

\* Faulty form of EnsureDependencyStates: what was evicted stays evicted.
EnsureDependencyStatesNot(e, st) == [states |-> st, blocks |-> blocks]

\* ensureDependencyStates: the states that reprocessing needs and that were
\* evicted are downloaded again, after the blocks they need.
EnsureDependencyStates(e, st) ==
    LET missing == {d \in Dependencies(e) : ~Cached(d, st)}
        bs == [s \in Slots |-> IF EpochOf(s) \in missing /\ blocks[s] = None
                              THEN canon[s] ELSE blocks[s]]
    IN  [states |-> [d \in Epochs |-> IF d \in missing THEN Downloaded(d, bs) ELSE st[d]],
         blocks |-> bs]

\* A wrong state is deleted from the cache and downloaded again.
Replaced(e) ==
    IF RootChanged(e) THEN [states EXCEPT ![e] = Downloaded(e, blocks)] ELSE states

Reprocess(p) ==
    /\ p.todo # {} /\ p.at = "state"
    /\ LET e == Min(p.todo)
           ready == EnsureDependencyStates(e, Replaced(e))
       IN  /\ Cached(e, states) /\ NeedsReprocess(p, e)
           /\ BlocksThere(e, blocks)
           /\ \A d \in Dependencies(e) : Cached(d, ready.states)
           /\ states' = ready.states
           /\ blocks' = ready.blocks
           /\ Rewritten(rows, e, ready.states)
    /\ Moved(p, Done(p))
    /\ UNCHANGED <<chain, fin, handlers, lost, checked>>

PassEnd(p) ==
    /\ p.todo = {}
    /\ CleanUpTo(p.limit)
    /\ passes' = passes \ {p}
    /\ checked' = Max({checked, p.limit})
    /\ UNCHANGED <<chain, fin, rows, handlers, lost, failed>>

AdvanceFinalized(p) ==
    \/ VerifyBlocks(p) \/ VerifyStateSame(p) \/ VerifyStateSkipped(p)
    \/ Reprocess(p) \/ PassEnd(p)

-----------------------------------------------------------------------------
(* HandleReorg: one slot of the walk.                                      *)

\* Faulty form of ReplaceBlock: the block is processed again as it is cached.
ReplaceBlockNot(i) == blocks

\* DownloadBlock of a slot that is cached.
ReplaceBlock(i) == [blocks EXCEPT ![i] = canon[i]]

\* The blocks below the slot of the reorg are counted, and the walk ends at
\* the one after as many as the reorg is deep.
Walked(h) ==
    LET n == IF h.i < h.slot /\ blocks[h.i] # Missed THEN h.reorgedSlots + 1 ELSE h.reorgedSlots
    IN  IF n <= h.depth THEN {[h EXCEPT !.i = @ - 1, !.reorgedSlots = n]} ELSE {}

\* Rows of a slot whose block changed; the old block becomes an orphan.
BlockRewritten(i, bs) ==
    IF bs[i] = blocks[i]
    THEN rows
    ELSE [rows EXCEPT !.block[i] = bs[i],
                      !.orphans = IF blocks[i] = Missed THEN @ ELSE @ \union {<<i, blocks[i]>>}]

HandleReorg(h) ==
    LET i == h.i
        e == EpochOf(i)
        bs == ReplaceBlock(i)
        st == [states EXCEPT ![e] = Downloaded(e, bs)]
    IN  /\ i \in Slots
        /\ blocks[i] # None
        /\ blocks' = bs
        /\ IF i = LastSlot(e)
           THEN /\ Cached(e, states) /\ BlocksThere(e, bs)
                /\ states' = st
                /\ IF RootChanged(e)
                   THEN /\ \A d \in Dependencies(e) : Cached(d, st)
                        /\ Rewritten(BlockRewritten(i, bs), e, st)
                   ELSE /\ rows' = BlockRewritten(i, bs)
                        /\ UNCHANGED failed
           ELSE /\ rows' = BlockRewritten(i, bs)
                /\ UNCHANGED <<states, failed>>
        /\ handlers' = (handlers \ {h}) \union Walked(h)
        /\ UNCHANGED <<chain, fin, passes, lost, checked>>

-----------------------------------------------------------------------------
\* The analyzer starts four epochs below the finalized one, and has filled and
\* processed the epochs up to the head, two of them from the finalized one on.
Init ==
    LET filled == 0..LastSlot(InitEpoch + 5)
        st == [e \in Epochs |-> IF SlotsOf(e) \subseteq filled
                               THEN [root |-> 1, blocks |-> [s \in SlotsOf(e) |-> 1]]
                               ELSE NoState]
        computed(first, row) ==
            [e \in Epochs |-> IF e \in first..(first + 3) THEN {row} ELSE NoRow]
    IN  /\ canon = [s \in Slots |-> IF s \in filled THEN 1 ELSE None]
        /\ root = canon
        /\ fork = 1
        /\ head = LastSlot(InitEpoch + 5)
        /\ gaps = {}
        /\ fin = InitEpoch + 4
        /\ blocks = canon
        /\ states = st
        /\ rows = [block |-> canon, orphans |-> {},
                   epoch |-> computed(InitEpoch + 1, <<1, 1>>),
                   duties |-> computed(InitEpoch + 2, <<1>>),
                   rewards |-> computed(InitEpoch + 2, <<1, 1, 1>>),
                   others |-> computed(InitEpoch + 2, <<1, 1, 1>>)]
        /\ passes = {} /\ handlers = {}
        /\ lost = FALSE /\ failed = {} /\ checked = InitEpoch

Next ==
    \/ \E b \in {fork, Missed} : Follow(b)
    \/ \E a \in FirstSlot(fin)..(head - 1) :
          \E missed \in SUBSET ((a + 1)..(head - 1)) : ChainReorg(a, missed)
    \/ \E f \in (fin + 1)..(EpochOf(head) - 2) : Finalize(f)
    \/ \E p \in passes : AdvanceFinalized(p)
    \/ \E h \in handlers : HandleReorg(h)

Spec == Init /\ [][Next]_vars

-----------------------------------------------------------------------------
Block == Forks \union {Missed, None}

TypeOK ==
    /\ canon \in [Slots -> Block]
    /\ root \in [Slots -> Forks \union {None}]
    /\ fork \in Forks
    /\ gaps \subseteq Slots
    /\ head \in Slots \union {-1}
    /\ fin \in Nat
    /\ blocks \in [Slots -> Block]
    /\ \A e \in Epochs : states[e] = NoState \/
            /\ states[e].root \in Forks
            /\ states[e].blocks \in [SlotsOf(e) -> Forks \union {Missed}]
    /\ rows.block \in [Slots -> Block]
    /\ \A p \in passes : p.limit \in Nat /\ p.todo \subseteq 0..(p.limit - 1)
    /\ \A h \in handlers : h.i \in Slots /\ h.reorgedSlots \in 0..h.depth
    /\ lost \in BOOLEAN

\* A state in the cache has the blocks of its epoch with it: neither the check
\* of a final epoch nor the walk of a reorg waits for a block that was evicted.
StatesHaveBlocks == \A e \in Epochs : Cached(e, states) => BlocksThere(e, blocks)

\* In the tables that DeleteStateMetrics cleans, no row of a checked epoch was
\* computed from a state of another fork, unless a request for the root of one
\* of its states, or a delete for one of them, has failed.
NoStaleRow ==
    \A e \in (InitEpoch + 2)..(checked - 1) :
        LET final(d) == root[LastSlot(d)] IN
        Dependencies(e) \intersect failed = {} =>
            /\ rows.rewards[e] \subseteq {<<final(e - 2), final(e - 1), final(e)>>}
            /\ rows.duties[e] \subseteq {<<final(e)>>}
            /\ rows.epoch[e - 1] \subseteq {<<final(e - 1), final(e)>>}

\* And no repair leaves a hole: the duties of a checked epoch, and its rows in
\* the tables that nothing is deleted from, were computed from its final state,
\* unless the request for its root, or a delete for it, has failed.
FinalStateWritten ==
    \A e \in ((InitEpoch + 2)..(checked - 1)) \ failed :
        LET final == root[LastSlot(e)] IN
        /\ <<final>> \in rows.duties[e]
        /\ \E from \in rows.others[e] : from[3] = final

\* When every reorg was announced and none is being handled, the blocks in the
\* cache and in the table are those of the chain, and no orphan is of the chain:
\* each walk goes deep enough, beside others and however the cache has changed.
ReorgRepaired ==
    handlers = {} /\ ~lost =>
        /\ \A s \in 0..head : rows.block[s] = canon[s] /\ blocks[s] \in {canon[s], None}
        /\ \A o \in rows.orphans : canon[o[1]] # o[2]

\* AdvanceFinalized never waits for what an earlier pass has evicted, which
\* "would cause Wait to block forever": the epoch it is at is cached, and the
\* states that reprocessing reads are or will be.
PassNotBlocked ==
    \A p \in passes : p.todo # {} =>
        LET e == Min(p.todo) IN
        /\ Cached(e, states) /\ BlocksThere(e, blocks)
        /\ \A d \in Dependencies(e) : Cached(d, EnsureDependencyStates(e, Replaced(e)).states)

\* HandleReorg never waits for what AdvanceFinalized has evicted: its walk ends
\* above, and so do the states that reprocessing reads, as long as no reorg has
\* gone unannounced.
WalkNotBlocked ==
    \A h \in handlers :
        /\ h.i \in Slots /\ blocks[h.i] # None
        /\ h.i = LastSlot(EpochOf(h.i)) =>
              /\ BlocksThere(EpochOf(h.i), blocks)
              /\ RootChanged(EpochOf(h.i)) /\ ~lost =>
                    \A d \in Dependencies(EpochOf(h.i)) : Cached(d, states)

\* What AdvanceFinalized says of a block whose root is not the final one:
\* "block root for block (slot=%d) incorrect, redownload".  After the pass the
\* table has the final block.
FinalBlocksWritten ==
    \A s \in 0..(FirstSlot(checked) - 1) : rows.block[s] = canon[s]
=============================================================================
