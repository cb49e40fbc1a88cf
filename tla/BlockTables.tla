----------------------------- MODULE BlockTables -----------------------------
(***************************************************************************)
(* What the analyzer writes of the blocks of one epoch: ProcessBlock and   *)
(* ProcessETH1Data (pkg/analyzer/process_block.go), the row of the block   *)
(* rewards (processBlockRewards), the requests to the nodes that they make *)
(* (pkg/clientapi) and the tables (pkg/db), while HandleReorg replaces     *)
(* blocks that the chain has dropped.                                      *)
(*                                                                         *)
(* A block is a fork and an execution block number.  Its transactions are  *)
(* one of its own and one that any block of that number has; it has one    *)
(* withdrawal, which is indexed by the number.  The cache holds OBJECTS:   *)
(* DownloadBlock always makes a new one, and the states keep the objects   *)
(* they were built from.  An object is named by its slot and the count of  *)
(* downloads of the slot.                                                  *)
(*                                                                         *)
(* A processer registers at once (HistoricalPipeline has the late ones),   *)
(* a download answers with the chain of the moment its block is stored,    *)
(* and every reorg is announced (Reorg has the others).                    *)
(***************************************************************************)
EXTENDS Integers, FiniteSets

CONSTANTS
    LastSlot,   \* the slots of the epoch are 1..LastSlot
    FuluFrom,   \* first slot of the Fulu fork
    MaxFaults   \* bound: requests and writes that fail

ASSUME BlockAssumption ==
    /\ LastSlot \in Nat \ {0}
    /\ FuluFrom \in Nat
    /\ MaxFaults \in Nat

Slots == 1..LastSlot

\* A slot without a block: no root, number and hash zero.
Missed == [fork |-> 0, num |-> 0]

\* Not in the table, or not in the cache.
None == [fork |-> -1, num |-> -1]

Gens == 1..2

Objects == Slots \X Gens

VARIABLES
    canon,      \* external: the block of each slot
    fork,       \* external: the fork of the chain; bound: there are two
    reorg,      \* HandleReorg: where its walk is and where it ends
    started,    \* slots whose download and processer were started
    gen,        \* BlockHistory: the object of each slot, 0 when there is none
    heap,       \* the objects
    pc,         \* the processers: the slots' own, and HandleReorg's at 0
    at,         \* the object each of them works on
    blobs,      \* its answer of the blobs endpoint
    state,      \* StateHistory: the objects of the epoch's state, and its root
    bundle,     \* the epoch's own transition has counted the rewards
    rewards,    \* the next transition: its state, and the slots it has done
    db,         \* the tables
    faults,     \* requests and writes that failed
    dirty,      \* history: slots of which a delete failed
    panicked

vars == <<canon, fork, reorg, started, gen, heap, pc, at, blobs, state, bundle, rewards, db,
          faults, dirty, panicked>>

chain == <<canon, fork>>

cache == <<started, gen, state>>

transitions == <<bundle, rewards>>

procs == <<pc, at, blobs>>

-----------------------------------------------------------------------------
(* What the nodes answer.                                                  *)

\* Hashes of the transactions of block b at slot s.
Txs(b, s) == IF b = Missed THEN {} ELSE {<<b.fork, s>>, <<0, b.num>>}

\* The first fork has two blobs in a block, the second one.
BlobCount(b) == IF b = Missed THEN 0 ELSE 3 - b.fork

\* The chain of fork f with blocks at the slots of set p, as canon is up to slot a.
Chain(f, p, a) ==
    [s \in Slots |->
        IF s <= a THEN canon[s]
        ELSE IF s \notin p THEN Missed
        ELSE [fork |-> f, num |-> Cardinality({t \in 1..a : canon[t] # Missed})
                                  + Cardinality({t \in p : a < t /\ t <= s})]]

\* requestBlockReceipts: by the hash, and when that fails by the number, which
\* may be another block's; a missed slot has neither and asks for number zero.
Receipts(b, s) ==
    IF b = Missed \/ canon[s] = b THEN Txs(b, s)
    ELSE UNION {Txs(canon[t], t) : t \in {t \in Slots : canon[t].num = b.num}}

\* GetBlockReceipts with its retries, and ParseTransactionsFromBlock, which
\* keeps the transactions of the block that have a receipt.
GetBlockReceipts(b, s) == Txs(b, s) \intersect Receipts(b, s)

\* A call that may fail: an answer, and the count of failures after it.
Fails == {n \in {faults, faults + 1} : n <= MaxFaults}

Failed(n) == n > faults

-----------------------------------------------------------------------------
(* The tables.  A row with the key of another one replaces it.             *)

\* The row of a block, whose key is the slot; a missed one has a row too.
BlocksInput(s, b) == [slot |-> s, block |-> b]

PersistBlocks(d, s, b) ==
    LET row == BlocksInput(s, b) IN [d EXCEPT !.blocks[row.slot] = row.block]

\* PersistWithdrawals: the key is the index of the withdrawal.
PersistWithdrawals(d, s, b) ==
    IF b = Missed THEN d ELSE [d EXCEPT !.withdrawals[b.num] = [slot |-> s, block |-> b]]

\* PersistTransactions: the key is the slot, the number and the hash.
PersistTransactions(d, s, b, txs) ==
    [d EXCEPT !.transactions = @ \union {[slot |-> s, num |-> b.num, hash |-> t] : t \in txs}]

\* Tables from which nothing is ever deleted.
Kept(d, table, s, b) ==
    IF b = Missed THEN d ELSE [d EXCEPT !.kept = @ \union {<<table, s, b>>}]

PersistETH1Deposits(d, s, b) == Kept(d, "eth1_deposits", s, b)

PersistBLSToExecutionChanges(d, s, b) == Kept(d, "bls_changes", s, b)

PersistDeposits(d, s, b) == Kept(d, "deposits", s, b)

\* PersistBlobSidecars: the key is the slot and the index.
PersistBlobSidecars(d, s, rows) ==
    [d EXCEPT !.blobs = {r \in @ : r.slot # s \/ \A q \in rows : q.index # r.index} \union rows]

\* PersistOrphans.
PersistOrphans(d, s, b) == [d EXCEPT !.orphans = @ \union {<<s, b>>}]

\* DeleteBlockMetrics: four deletes, the first n of which succeed.
DeleteBlockMetrics(d, s, n) ==
    [d EXCEPT !.blocks[s] = IF n >= 1 THEN None ELSE @,
              !.transactions = IF n >= 2 THEN {r \in @ : r.slot # s} ELSE @,
              !.withdrawals = IF n >= 3 THEN [i \in Slots |-> IF @[i].slot = s THEN [slot |-> 0, block |-> None] ELSE @[i]] ELSE @,
              !.blobs = IF n >= 4 THEN {r \in @ : r.slot # s} ELSE @]

-----------------------------------------------------------------------------
(* ProcessBlock.  Processer p works on the object at[p].                   *)

Obj(p) == heap[at[p]]

SlotOf(p) == at[p][1]

\* The page of a slot is in processerBook.
Active(s) == \E p \in DOMAIN pc : pc[p] # "idle" /\ SlotOf(p) = s

\* BlockHistory.Wait, and the first two tables, whose errors are only logged.
WriteBlock(p) ==
    /\ ~panicked /\ pc[p] = "block" /\ gen[SlotOf(p)] # 0
    /\ LET s == SlotOf(p)
           b == heap[s, gen[s]].block
       IN  \E n \in Fails : \E lost \in (IF Failed(n) THEN {"blocks", "withdrawals"} ELSE {"none"}) :
              /\ faults' = n
              /\ db' = CASE lost = "blocks" -> PersistWithdrawals(db, s, b)
                         [] lost = "withdrawals" -> PersistBlocks(db, s, b)
                         [] OTHER -> PersistWithdrawals(PersistBlocks(db, s, b), s, b)
              /\ at' = [at EXCEPT ![p] = <<s, gen[s]>>]
              /\ heap' = [heap EXCEPT ![<<s, gen[s]>>].processed = TRUE]
    /\ pc' = [pc EXCEPT ![p] = "receipts"]
    /\ UNCHANGED <<chain, reorg, cache, blobs, transitions, dirty, panicked>>

\* ProcessETH1Data: without receipts neither transactions nor blobs are written.
NoReceipts(p) ==
    /\ ~panicked /\ pc[p] = "receipts"
    /\ faults < MaxFaults /\ faults' = faults + 1
    /\ heap' = [heap EXCEPT ![at[p]].fails = @ + 1]
    /\ pc' = [pc EXCEPT ![p] = "rest"]
    /\ UNCHANGED <<chain, reorg, cache, at, blobs, transitions, db, dirty, panicked>>

\* processTransactions and processETH1Deposits: the object gets its transactions,
\* and when a write fails the rest of the execution data is skipped.  A missed
\* slot has no version, so no blobs are asked for.
ProcessTransactions(p) ==
    /\ ~panicked /\ pc[p] = "receipts"
    /\ LET s == SlotOf(p)
           b == Obj(p).block
           txs == GetBlockReceipts(b, s)
           d == PersistTransactions(db, s, b, txs)
       IN  \E n \in (IF txs = {} THEN {faults} ELSE Fails) :
              /\ faults' = n
              /\ heap' = [heap EXCEPT ![at[p]].txs = txs]
              /\ db' \in IF Failed(n) THEN {db, d} ELSE {PersistETH1Deposits(d, s, b)}
              /\ pc' = [pc EXCEPT ![p] = IF Failed(n) \/ b = Missed THEN "rest" ELSE "blobs"]
    /\ UNCHANGED <<chain, reorg, cache, at, blobs, transitions, dirty, panicked>>

\* The rows of the blobs of block b with the commitments of block c; GetTxHash
\* finds the transaction of a blob by its hash, which the commitment gives.
BlobRows(s, b, c, txs) ==
    {[slot |-> s, index |-> i, blob |-> b, commitment |-> c, tx |-> <<c.fork, s>> \in txs]
        : i \in 1..BlobCount(b)}

\* RequestBlobSidecars: the blobs of whatever block is at the slot.
BlobSidecars(p) ==
    /\ ~panicked /\ pc[p] = "blobs" /\ SlotOf(p) < FuluFrom
    /\ \E n \in Fails :
          /\ faults' = n
          /\ db' = IF Failed(n) THEN db
                   ELSE PersistBlobSidecars(db, SlotOf(p),
                            BlobRows(SlotOf(p), canon[SlotOf(p)], canon[SlotOf(p)], Obj(p).txs))
    /\ pc' = [pc EXCEPT ![p] = "rest"]
    /\ UNCHANGED <<chain, reorg, cache, heap, at, blobs, transitions, dirty, panicked>>

\* RequestFuluBlobs: the blobs first.
FuluBlobs(p) ==
    /\ ~panicked /\ pc[p] = "blobs" /\ SlotOf(p) >= FuluFrom
    /\ blobs' = [blobs EXCEPT ![p] = canon[SlotOf(p)]]
    /\ pc' = [pc EXCEPT ![p] = "commitments"]
    /\ UNCHANGED <<chain, reorg, cache, heap, at, transitions, db, faults, dirty, panicked>>

\* requestKZGCommitmentFromSignedBlock: then the commitments, by the slot again.
\* A blob without a commitment is an index out of range.
FuluCommitments(p) ==
    /\ ~panicked /\ pc[p] = "commitments"
    /\ LET s == SlotOf(p) IN
       \E n \in Fails :
          /\ faults' = n
          /\ panicked' = (~Failed(n) /\ BlobCount(canon[s]) < BlobCount(blobs[p]))
          /\ db' = IF Failed(n) \/ panicked' THEN db
                   ELSE PersistBlobSidecars(db, s, BlobRows(s, blobs[p], canon[s], Obj(p).txs))
    /\ pc' = [pc EXCEPT ![p] = "rest"]
    /\ UNCHANGED <<chain, reorg, cache, heap, at, blobs, transitions, dirty>>

\* processBLSToExecutionChanges, processDeposits, and the page is given back.
WriteRest(p) ==
    /\ ~panicked /\ pc[p] = "rest"
    /\ LET b == Obj(p).block IN
       db' = PersistDeposits(PersistBLSToExecutionChanges(db, SlotOf(p), b), SlotOf(p), b)
    /\ pc' = [pc EXCEPT ![p] = "idle"]
    /\ UNCHANGED <<chain, reorg, cache, heap, at, blobs, transitions, faults, dirty, panicked>>

-----------------------------------------------------------------------------
(* The regular flow.                                                       *)

\* runDownloadBlocks starts the goroutines of a slot.
StartSlot(s) ==
    /\ ~panicked /\ s \notin started /\ \A t \in 1..(s - 1) : t \in started
    /\ started' = started \union {s}
    /\ pc' = [pc EXCEPT ![s] = "block"]
    /\ UNCHANGED <<chain, reorg, gen, heap, at, blobs, state, transitions, db, faults, dirty, panicked>>

NewObject(b) == [block |-> b, txs |-> {}, manual |-> 0, fails |-> 0, processed |-> FALSE]

\* DownloadBlock and AddNewBlock.
DownloadBlock(s) ==
    /\ ~panicked /\ s \in started /\ gen[s] = 0
    /\ gen' = [gen EXCEPT ![s] = 1]
    /\ heap' = [heap EXCEPT ![<<s, 1>>] = NewObject(canon[s])]
    /\ UNCHANGED <<chain, reorg, started, procs, state, transitions, db, faults, dirty, panicked>>

\* AddNewState: the state of the epoch with the objects that are cached.
StateOf(g) == [gens |-> g, root |-> canon]

DownloadState ==
    /\ ~panicked /\ state.gens = <<>>
    /\ \A s \in Slots : gen[s] # 0
    /\ state' = StateOf(gen)
    /\ UNCHANGED <<chain, reorg, started, gen, heap, procs, transitions, db, faults, dirty, panicked>>

\* ProcessAttestations and ProcessSyncAggregates add to block.ManualReward.
Counted(h, g) ==
    [o \in Objects |-> IF g[o[1]] = o[2] /\ h[o].block # Missed
                       THEN [h[o] EXCEPT !.manual = @ + 1] ELSE h[o]]

\* StateMetricsByForkVersion in the transition to this epoch.
CountRewards ==
    /\ ~panicked /\ ~bundle /\ state.gens # <<>>
    /\ bundle' = TRUE
    /\ heap' = Counted(heap, state.gens)
    /\ UNCHANGED <<chain, reorg, cache, procs, rewards, db, faults, dirty, panicked>>

\* The transition to the next epoch waits for this one's, and takes the state.
StartRewards ==
    /\ ~panicked /\ bundle /\ rewards.gens = <<>>
    /\ rewards' = [rewards EXCEPT !.gens = state.gens]
    /\ UNCHANGED <<chain, reorg, cache, heap, procs, bundle, db, faults, dirty, panicked>>

\* Faulty form of RecoverBlockReceipts: no second request.
RecoverBlockReceiptsNot(o) == {[obj |-> heap[o], faults |-> faults]}

\* recoverBlockReceipts: a second request when the object has no transactions.
RecoverBlockReceipts(o) ==
    LET b == heap[o].block IN
    IF heap[o].txs # {} \/ Txs(b, o[1]) = {}
    THEN {[obj |-> heap[o], faults |-> faults]}
    ELSE {[obj |-> IF Failed(n) THEN [heap[o] EXCEPT !.fails = @ + 1]
                   ELSE [heap[o] EXCEPT !.txs = GetBlockReceipts(b, o[1])],
           faults |-> n] : n \in Fails}

\* getSingleBlockRewards: the fees and the rewards that the object has.
RewardRow(s, o) ==
    [slot |-> s, block |-> o.block, fees |-> o.txs, manual |-> o.manual, object |-> o]

\* PersistBlockRewards: the rows of an epoch are written together.
PersistBlockRewards(d, rows) == [d EXCEPT !.rewards = rows]

\* processBlockRewards, a slot at a time: wait for its processer, then the row.
BlockReward(s) ==
    /\ ~panicked /\ rewards.gens # <<>> /\ s = Cardinality(rewards.done) + 1
    /\ ~Active(s)
    /\ LET o == <<s, rewards.gens[s]>> IN
       \E r \in RecoverBlockReceipts(o) :
          LET rows == rewards.done \union {RewardRow(s, r.obj)}
          IN  /\ heap' = [heap EXCEPT ![o] = r.obj]
              /\ faults' = r.faults
              /\ rewards' = [rewards EXCEPT !.done = rows]
              /\ db' = IF s = LastSlot THEN PersistBlockRewards(db, rows) ELSE db
    /\ UNCHANGED <<chain, reorg, cache, procs, bundle, dirty, panicked>>

-----------------------------------------------------------------------------
(* HandleReorg.                                                            *)

Idle == [i |-> 0, end |-> 0, step |-> "idle"]

\* The chain drops what is above slot a; the walk starts at the cached head,
\* maybe of the next epoch, and covers at least the slots that changed.
ChainReorg(a, p) ==
    /\ ~panicked /\ fork = 1 /\ fork' = 2
    /\ canon' = Chain(2, p, a)
    /\ \E i \in {s \in Slots : gen[s] # 0 /\ \A t \in Slots : gen[t] # 0 => t <= s} :
       \E end \in 1..(a + 1) :
          reorg' = IF end <= i THEN [i |-> i, end |-> end, step |-> "slot"] ELSE Idle
    /\ UNCHANGED <<cache, heap, procs, transitions, db, faults, dirty, panicked>>

\* One slot down, or the end of the walk.
NextSlot == IF reorg.i = reorg.end THEN Idle ELSE [reorg EXCEPT !.i = @ - 1, !.step = "slot"]

\* The last slot of the epoch has its state looked at as well.
Walked == IF reorg.i = LastSlot THEN [reorg EXCEPT !.step = "state"] ELSE NextSlot

\* Faulty form of SlotDone: the processer of the slot is not waited for.
SlotDoneNow(s) == TRUE

\* processerBook.WaitUntilInactive.
SlotDone(s) == ~Active(s)

\* A slot of the walk, once its block is cached: it is downloaded again, and if
\* it is another one its rows are deleted and ProcessBlock is called.
ReplaceBlock ==
    /\ ~panicked /\ reorg.step = "slot"
    /\ gen[reorg.i] # 0 /\ SlotDone(reorg.i)
    /\ LET s == reorg.i
           old == heap[s, gen[s]].block
           new == canon[s]
           d == IF old = Missed THEN db ELSE PersistOrphans(db, s, old)
       IN  /\ gen' = [gen EXCEPT ![s] = 2]
           /\ heap' = [heap EXCEPT ![<<s, 2>>] = NewObject(new)]
           /\ IF old = new
              THEN /\ reorg' = Walked
                   /\ UNCHANGED <<pc, at, db, faults, dirty>>
              ELSE \E n \in Fails : \E done \in (IF Failed(n) THEN 0..3 ELSE {4}) :
                      /\ faults' = n
                      /\ db' = DeleteBlockMetrics(d, s, done)
                      /\ dirty' = IF done < 4 THEN dirty \union {s} ELSE dirty
                      /\ pc' = [pc EXCEPT ![0] = "block"]
                      /\ at' = [at EXCEPT ![0] = <<s, 2>>]
                      /\ reorg' = [reorg EXCEPT !.step = "process"]
    /\ UNCHANGED <<chain, started, blobs, state, transitions, panicked>>

\* ProcessBlock returns.
BlockReplaced ==
    /\ ~panicked /\ reorg.step = "process" /\ pc[0] = "idle"
    /\ reorg' = Walked
    /\ UNCHANGED <<chain, cache, heap, procs, transitions, db, faults, dirty, panicked>>

\* At the last slot the state is downloaded again; another root, and the
\* transition is processed again.
ReplaceState ==
    /\ ~panicked /\ reorg.step = "state" /\ state.gens # <<>>
    /\ state' = StateOf(gen)
    /\ heap' = IF state.root = canon THEN heap ELSE Counted(heap, gen)
    /\ reorg' = NextSlot
    /\ UNCHANGED <<chain, started, gen, procs, transitions, db, faults, dirty, panicked>>

-----------------------------------------------------------------------------
Init ==
    /\ \E p \in SUBSET Slots :
          canon = [s \in Slots |-> IF s \in p THEN [fork |-> 1, num |-> Cardinality({t \in p : t <= s})] ELSE Missed]
    /\ fork = 1
    /\ reorg = Idle
    /\ started = {}
    /\ gen = [s \in Slots |-> 0]
    /\ heap = [o \in Objects |-> NewObject(None)]
    /\ pc = [p \in Slots \union {0} |-> "idle"]
    /\ at = [p \in Slots \union {0} |-> <<IF p = 0 THEN 1 ELSE p, 1>>]
    /\ blobs = [p \in Slots \union {0} |-> None]
    /\ state = [gens |-> <<>>, root |-> canon]
    /\ bundle = FALSE
    /\ rewards = [gens |-> <<>>, done |-> {}]
    /\ db = [blocks |-> [s \in Slots |-> None], transactions |-> {},
             withdrawals |-> [i \in Slots |-> [slot |-> 0, block |-> None]],
             blobs |-> {}, kept |-> {}, orphans |-> {}, rewards |-> {}]
    /\ faults = 0
    /\ dirty = {}
    /\ panicked = FALSE

Next ==
    \/ \E a \in 0..LastSlot, p \in SUBSET Slots : ChainReorg(a, p)
    \/ \E s \in Slots : StartSlot(s)
    \/ \E s \in Slots : DownloadBlock(s)
    \/ DownloadState
    \/ CountRewards
    \/ StartRewards
    \/ \E s \in Slots : BlockReward(s)
    \/ ReplaceBlock
    \/ BlockReplaced
    \/ ReplaceState
    \/ \E p \in Slots \union {0} : WriteBlock(p)
    \/ \E p \in Slots \union {0} : NoReceipts(p)
    \/ \E p \in Slots \union {0} : ProcessTransactions(p)
    \/ \E p \in Slots \union {0} : BlobSidecars(p)
    \/ \E p \in Slots \union {0} : FuluBlobs(p)
    \/ \E p \in Slots \union {0} : FuluCommitments(p)
    \/ \E p \in Slots \union {0} : WriteRest(p)

Spec == Init /\ [][Next]_vars

-----------------------------------------------------------------------------
\* Nobody is writing rows of blocks.
Quiet == reorg = Idle /\ ~panicked /\ \A p \in DOMAIN pc : pc[p] = "idle"

\* When HandleReorg and the processers are done, the four tables that
\* DeleteBlockMetrics cleans hold rows of the blocks of the chain only, no blob
\* has the commitment or lacks the transaction of its block, and without faults
\* the rows are complete: what a processer of the dropped block wrote, whenever
\* it did, is gone.  Withdrawals may be incomplete: one that moved to another
\* slot has the key of its old row, which may be written last and then deleted.
RowsOfChain ==
    Quiet => \A s \in started \ dirty :
        LET b == canon[s]
            txs == {[slot |-> s, num |-> b.num, hash |-> t] : t \in Txs(b, s)}
            own == {r \in db.transactions : r.slot = s}
            blobRows == {r \in db.blobs : r.slot = s}
        IN  /\ db.blocks[s] \in {b, None}
            /\ own \subseteq txs
            /\ blobRows \subseteq BlobRows(s, b, b, Txs(b, s))
            /\ \A i \in Slots : db.withdrawals[i].slot = s => db.withdrawals[i].block = b
            /\ <<s, b>> \notin db.orphans
            /\ faults = 0 =>
                  /\ db.blocks[s] = b /\ own = txs
                  /\ blobRows = BlobRows(s, b, b, Txs(b, s))

\* The row of the rewards of a block of the chain has all its fees, unless the
\* receipts could not be had twice, or once for a block that HandleReorg has
\* downloaded again and found the same: a failure while the block was processed
\* is made good before the fees are added up.
FeesRecovered ==
    \A r \in db.rewards :
        r.block = canon[r.slot] /\ r.fees # Txs(r.block, r.slot)
            => r.object.fails >= (IF r.object.processed THEN 2 ELSE 1)

\* What ProcessStateTransitionMetrics says of the rewards of a block: the next
\* epoch "reads from those same shared block objects".
CountedOnce ==
    \A r \in db.rewards : r.block = canon[r.slot] /\ r.block # Missed => r.manual = 1
=============================================================================
