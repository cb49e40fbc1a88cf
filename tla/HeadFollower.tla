----------------------------- MODULE HeadFollower -----------------------------
(***************************************************************************)
(* The "finalized" mode of the chain analyzer: runHead fills the database  *)
(* up to the head (runHistorical), waits for the last downloads of that,   *)
(* subscribes to the events of the beacon node (pkg/events) and from then  *)
(* on starts the slots that the head events tell of.                       *)
(*                                                                         *)
(* The node's API lags behind its events: a block or a state that was      *)
(* announced may not be there when it is asked for, which the client meets *)
(* with retries and by asking for the state of an epoch by the root that   *)
(* came with the event.  Slots in Empty have no block.                     *)
(*                                                                         *)
(* A turn of the loop that sends a slot, with its test for a free page, is *)
(* one action: HistoricalPipeline has its steps, the processers of epochs, *)
(* failing downloads and the cancelled context, which are left out here.   *)
(* What HandleReorg and AdvanceFinalized do is in Reorg; of the latter     *)
(* only the eviction matters here.                                         *)
(***************************************************************************)
EXTENDS Integers, Sequences, FiniteSets

CONSTANTS
    SlotsPerEpoch,
    InitSlot,       \* where fillToHead starts
    HeadSlot,       \* the head when fillToHead asked for it
    FinalizedSlot,  \* the finalized slot at that time
    LastSlotOfRun,  \* bound: the chain ends here
    Empty,          \* slots without a block
    HeadCap,        \* buffer of HeadChan
    RateLimit,      \* buffer of downloadTaskChan
    MaxPages,       \* pages of processerBook
    KeepEpochs,     \* epochs that the cleaning keeps
    MaxRetries,     \* attempts of a block request
    Lag,            \* bound: attempts by which the API lags behind an event
    MaxAhead,       \* bound: slots that the node is ahead of runHead
    MaxRepeats      \* bound: head events for a slot that is not new, reorgs

ASSUME HeadAssumption ==
    /\ SlotsPerEpoch \in Nat /\ SlotsPerEpoch >= 2
    /\ InitSlot \in Nat /\ InitSlot % SlotsPerEpoch = 0
    /\ HeadSlot \in Nat /\ FinalizedSlot \in Nat /\ LastSlotOfRun \in Nat
    /\ InitSlot <= HeadSlot /\ HeadSlot <= LastSlotOfRun
    /\ KeepEpochs \in Nat /\ KeepEpochs >= 3
    /\ FinalizedSlot >= KeepEpochs * SlotsPerEpoch
    /\ FinalizedSlot + 2 * SlotsPerEpoch <= HeadSlot
    /\ HeadCap \in Nat \ {0} /\ RateLimit \in Nat \ {0} /\ MaxPages \in Nat \ {0}
    /\ MaxRetries \in Nat /\ Lag \in Nat /\ Lag < MaxRetries
    /\ MaxAhead \in Nat /\ MaxRepeats \in Nat
    /\ HeadSlot \notin Empty

EpochOf(s) == s \div SlotsPerEpoch

FirstSlot(e) == e * SlotsPerEpoch

LastSlot(e) == (e + 1) * SlotsPerEpoch - 1

SlotsOf(e) == FirstSlot(e)..LastSlot(e)

Slots == InitSlot..LastSlotOfRun

Epochs == {e \in EpochOf(InitSlot)..EpochOf(LastSlotOfRun) : LastSlot(e) <= LastSlotOfRun}

VARIABLES
    announced,  \* external: the highest slot the node has told of
    served,     \* external: the API knows the chain up to this slot
    repeats,    \* external: repeated head events and reorgs so far
    headChan,   \* HeadChan: slots of head events
    sending,    \* handlers that are blocked at their send
    phase,      \* where runHead stands
    next,       \* nextSlotDownload
    at,         \* the slot it waits for, or the slot of the event at hand
    tasks,      \* downloadTaskChan
    fed,        \* the next slot the downloader has not been given
    blocks,     \* keys of BlockHistory
    dl,         \* the download of each slot
    attempts,   \* of the block request under way
    missing,    \* slots that were cached as missing
    roots,      \* keys of epochBoundaryStateRoots
    st,         \* the download of the state of each epoch
    pc,         \* the processers
    told        \* history: slots that were sent for their own head event

vars == <<announced, served, repeats, headChan, sending, phase, next, at, tasks,
          fed, blocks, dl, attempts, missing, roots, st, pc, told>>

node == <<announced, served, repeats>>

loop == <<phase, next, at>>

cache == <<blocks, dl, attempts, missing, st>>

-----------------------------------------------------------------------------
(* The node and the event handlers.                                        *)

\* HandleHeadEvent: the event is dropped when the channel is full.
HandleHeadEvent(s) ==
    headChan' = IF Len(headChan) < HeadCap THEN Append(headChan, s) ELSE headChan

Subscribed == phase \in {"select", "dispatch"}

\* The node has a new head, some slots on.  Were it two epochs ahead of runHead
\* its finalized checkpoint would evict states that the next downloads wait for.
NewHead(s) ==
    /\ Subscribed
    /\ s > announced /\ s \notin Empty
    /\ s < next + MaxAhead
    /\ announced' = s
    /\ HandleHeadEvent(s)
    /\ UNCHANGED <<served, repeats, sending, loop, tasks, fed, cache, roots, pc, told>>

\* A head event for a slot that is not new: the chain changed its head.
HeadAgain(s) ==
    /\ Subscribed
    /\ repeats < MaxRepeats
    /\ s <= announced /\ s > HeadSlot /\ s \notin Empty
    /\ repeats' = repeats + 1
    /\ HandleHeadEvent(s)
    /\ UNCHANGED <<announced, served, sending, loop, tasks, fed, cache, roots, pc, told>>

\* HandleReorgEvent: the handler waits until runHead takes the event.
ReorgEvent ==
    /\ Subscribed
    /\ repeats < MaxRepeats /\ "reorg" \notin sending
    /\ repeats' = repeats + 1
    /\ sending' = sending \union {"reorg"}
    /\ UNCHANGED <<announced, served, headChan, loop, tasks, fed, cache, roots, pc, told>>

\* HandleBlobSidecarEvent: so does this one.
BlobSidecarEvent ==
    /\ Subscribed
    /\ repeats < MaxRepeats /\ "blob" \notin sending
    /\ repeats' = repeats + 1
    /\ sending' = sending \union {"blob"}
    /\ UNCHANGED <<announced, served, headChan, loop, tasks, fed, cache, roots, pc, told>>

\* canonical_head is updated.
Serve ==
    /\ served < announced
    /\ served' = announced
    /\ UNCHANGED <<announced, repeats, headChan, sending, loop, tasks, fed, cache, roots, pc, told>>

-----------------------------------------------------------------------------
(* The processers.                                                         *)

NumFreePages == MaxPages - Cardinality({s \in Slots : pc[s] \in {"asleep", "served"}})

\* ProcessBlock with its page: BlockHistory.Wait has the block, or sleeps.
Lookup(s) == IF s \in blocks THEN "served" ELSE "asleep"

\* Acquire: a page, or a place in the line.  The goroutines get there in the
\* order they are started.
Acquire(s) == [pc EXCEPT ![s] = IF NumFreePages > 0 THEN Lookup(s) ELSE "queued"]

\* FreePage: the first in the line gets the page.
FreePage(s) ==
    [t \in Slots |->
        IF t = s THEN "done"
        ELSE IF pc[t] = "queued" /\ \A q \in Slots : pc[q] = "queued" => t <= q
        THEN Lookup(t) ELSE pc[t]]

\* The rest of ProcessBlock.
ProcessBlock(s) ==
    /\ pc[s] = "served"
    /\ pc' = FreePage(s)
    /\ UNCHANGED <<node, headChan, sending, loop, tasks, fed, cache, roots, told>>

-----------------------------------------------------------------------------
(* runHead.                                                                *)

\* CleanUpTo the slot that lies epochs epochs before s.
CleanUpTo(s, epochs) ==
    LET old == {e \in Epochs : st[e] = "cached" /\ FirstSlot(e) < s - epochs * SlotsPerEpoch}
    IN  /\ st' = [e \in Epochs |-> IF e \in old THEN "evicted" ELSE st[e]]
        /\ blocks' = {b \in blocks : EpochOf(b) \notin old}
        /\ UNCHANGED <<dl, attempts, missing>>

\* The slot that the cleaning of runHistorical starts from: its own one, or
\* the finalized one when it has passed that.
CleanFrom == IF next >= FinalizedSlot THEN FinalizedSlot ELSE next

Send ==
    /\ Len(tasks) < RateLimit
    /\ tasks' = Append(tasks, next)
    /\ next' = next + 1

\* A turn of runHistorical, the one that fillToHead calls.
FillToHead ==
    /\ phase = "fill"
    /\ next <= HeadSlot
    /\ NumFreePages > 0
    /\ IF next % SlotsPerEpoch = 0 THEN CleanUpTo(CleanFrom, KeepEpochs) ELSE UNCHANGED cache
    /\ Send
    /\ UNCHANGED <<node, headChan, sending, phase, at, fed, roots, pc, told>>

\* Faulty form of WaitFrom: everything that was sent is waited for.
WaitFromInit == InitSlot

\* Only the last epochs before the head can still be in flight.
WaitFrom ==
    LET back == KeepEpochs * SlotsPerEpoch
        from == IF HeadSlot > back THEN HeadSlot - back ELSE HeadSlot
    IN  IF from < InitSlot THEN InitSlot ELSE from

Filled ==
    /\ phase = "fill"
    /\ next > HeadSlot
    /\ phase' = "wait"
    /\ at' = WaitFrom
    /\ UNCHANGED <<node, headChan, sending, next, tasks, fed, cache, roots, pc, told>>

\* BlockHistory.Wait returns for one slot after the other; then the events are
\* subscribed to.
WaitForBlock ==
    /\ phase = "wait"
    /\ at \in blocks
    /\ IF at = HeadSlot
       THEN phase' = "select" /\ UNCHANGED at
       ELSE at' = at + 1 /\ UNCHANGED phase
    /\ UNCHANGED <<node, headChan, sending, next, tasks, fed, cache, roots, pc, told>>

\* Faulty form of TakeHeadEvent: the root is not kept.
TakeHeadEventNoRoot ==
    /\ phase = "select"
    /\ headChan # <<>>
    /\ headChan' = Tail(headChan)
    /\ at' = Head(headChan)
    /\ told' = IF next <= Head(headChan) THEN told \union {Head(headChan)} ELSE told
    /\ phase' = "dispatch"
    /\ UNCHANGED <<node, sending, next, tasks, fed, cache, roots, pc>>

\* A head event: its row is written; the last slot of an epoch leaves its
\* state root.
TakeHeadEvent ==
    /\ phase = "select"
    /\ headChan # <<>>
    /\ headChan' = Tail(headChan)
    /\ at' = Head(headChan)
    /\ told' = IF next <= Head(headChan) THEN told \union {Head(headChan)} ELSE told
    /\ roots' = IF Head(headChan) = LastSlot(EpochOf(Head(headChan)))
                THEN roots \union {Head(headChan)} ELSE roots
    /\ phase' = "dispatch"
    /\ UNCHANGED <<node, sending, next, tasks, fed, cache, pc>>

\* Faulty form of Dispatch: only the slot of the event is sent.
DispatchNewest ==
    /\ phase = "dispatch"
    /\ next <= at
    /\ NumFreePages > 0
    /\ Len(tasks) < RateLimit
    /\ tasks' = Append(tasks, at)
    /\ next' = at + 1
    /\ UNCHANGED <<node, headChan, sending, phase, at, fed, cache, roots, pc, told>>

\* Faulty form of MoreToSend: the loop ends before the slot of the event.
LessToSend == next < at

MoreToSend == next <= at

\* Every slot up to the one of the event is sent, when there is a free page.
\* The loop looks neither at stop nor at the context.
Dispatch ==
    /\ phase = "dispatch"
    /\ MoreToSend
    /\ NumFreePages > 0
    /\ Send
    /\ UNCHANGED <<node, headChan, sending, phase, at, fed, cache, roots, pc, told>>

Dispatched ==
    /\ phase = "dispatch"
    /\ ~MoreToSend
    /\ phase' = "select"
    /\ UNCHANGED <<node, headChan, sending, next, at, tasks, fed, cache, roots, pc, told>>

\* A finalized checkpoint comes through only while runHead is at its select;
\* AdvanceFinalized then evicts what is two epochs older.
TakeFinalized(e) ==
    /\ phase = "select"
    /\ FirstSlot(e) >= FinalizedSlot /\ FirstSlot(e + 2) <= announced
    /\ CleanUpTo(FirstSlot(e), 2)
    /\ UNCHANGED <<node, headChan, sending, loop, tasks, fed, roots, pc, told>>

\* A reorg, for which HandleReorg is started.
TakeReorg ==
    /\ phase = "select"
    /\ "reorg" \in sending
    /\ sending' = sending \ {"reorg"}
    /\ UNCHANGED <<node, headChan, loop, tasks, fed, cache, roots, pc, told>>

\* A blob sidecar, whose row is written.
TakeBlobSidecar ==
    /\ phase = "select"
    /\ "blob" \in sending
    /\ sending' = sending \ {"blob"}
    /\ UNCHANGED <<node, headChan, loop, tasks, fed, cache, roots, pc, told>>

-----------------------------------------------------------------------------
(* The downloader and the downloads.                                       *)

\* takeEpochBoundaryStateRoot: DownloadState takes the root that the head event
\* left, if there is one.
RequestState(s) == IF s \in roots THEN "byRoot" ELSE "bySlot"

\* A slot for the downloader: the download and the processer of its block are
\* started, with the last slot of an epoch the download of its state.
TakeTask ==
    /\ tasks # <<>>
    /\ tasks' = Tail(tasks)
    /\ fed' = Head(tasks) + 1
    /\ LET s == Head(tasks)
           e == EpochOf(s)
       IN  /\ dl' = [dl EXCEPT ![s] = "spawned"]
           /\ pc' = Acquire(s)
           /\ IF s = LastSlot(e)
              THEN /\ st' = [st EXCEPT ![e] = RequestState(s)]
                   /\ roots' = roots \ {s}
              ELSE UNCHANGED <<st, roots>>
    /\ UNCHANGED <<node, headChan, sending, loop, blocks, attempts, missing, told>>

\* WaitForPrevState.
GateOpen(s) ==
    LET e == EpochOf(s) - 2
    IN  s >= 2 * SlotsPerEpoch /\ LastSlot(e) >= InitSlot =>
            st[e] = "cached"

\* blocksBook has one page, which goes to the first that asks for it.
RequestBlock(s) ==
    /\ dl[s] = "spawned"
    /\ GateOpen(s)
    /\ \A t \in Slots : dl[t] # "request" /\ (dl[t] = "spawned" => s <= t)
    /\ dl' = [dl EXCEPT ![s] = "request"]
    /\ attempts' = 0
    /\ UNCHANGED <<node, headChan, sending, loop, tasks, fed, blocks, missing, roots, st, pc, told>>

AddNewBlock(s) ==
    /\ blocks' = blocks \union {s}
    /\ dl' = [dl EXCEPT ![s] = "done"]
    /\ pc' = [pc EXCEPT ![s] = IF @ = "asleep" THEN "served" ELSE @]

\* Faulty form of BlockNotFound: the first 404 is believed.
BlockNotFoundAtOnce(s) ==
    /\ dl[s] = "request"
    /\ s \in Empty \/ (s > served /\ attempts < Lag)
    /\ AddNewBlock(s)
    /\ missing' = missing \union {s}
    /\ UNCHANGED <<node, headChan, sending, loop, tasks, fed, attempts, roots, st, told>>

\* A 404: the block is asked for again, and at the last attempt taken for a
\* missed one.
BlockNotFound(s) ==
    /\ dl[s] = "request"
    /\ s \in Empty \/ (s > served /\ attempts < Lag)
    /\ IF attempts < MaxRetries - 1
       THEN /\ attempts' = attempts + 1
            /\ UNCHANGED <<blocks, dl, missing, pc>>
       ELSE /\ AddNewBlock(s)
            /\ missing' = missing \union {s}
            /\ UNCHANGED attempts
    /\ UNCHANGED <<node, headChan, sending, loop, tasks, fed, roots, st, told>>

BlockArrives(s) ==
    /\ dl[s] = "request"
    /\ s \notin Empty /\ s <= served
    /\ AddNewBlock(s)
    /\ UNCHANGED <<node, headChan, sending, loop, tasks, fed, attempts, missing, roots, st, told>>

\* requestBeaconStateWithID: the retries end when the node serves the state.
StateServed(e) == LastSlot(e) <= served

\* The state is there, and so are the blocks of its epoch.
AddNewState(e) ==
    /\ st[e] \in {"byRoot", "bySlot"}
    /\ StateServed(e)
    /\ SlotsOf(e) \subseteq blocks
    /\ st' = [st EXCEPT ![e] = "cached"]
    /\ UNCHANGED <<node, headChan, sending, loop, tasks, fed, blocks, dl, attempts, missing, roots, pc, told>>

-----------------------------------------------------------------------------
\* fillToHead has asked for the finalized slot and the head, and downloaded
\* the block of the head.
Init ==
    /\ announced = HeadSlot /\ served = HeadSlot /\ repeats = 0
    /\ headChan = <<>> /\ sending = {}
    /\ phase = "fill" /\ next = InitSlot /\ at = InitSlot
    /\ tasks = <<>> /\ fed = InitSlot
    /\ blocks = {HeadSlot}
    /\ dl = [s \in Slots |-> "none"]
    /\ told = {}
    /\ attempts = 0 /\ missing = {}
    /\ roots = {}
    /\ st = [e \in Epochs |-> "none"]
    /\ pc = [s \in Slots |-> "none"]

RunHead ==
    \/ FillToHead \/ Filled \/ WaitForBlock \/ TakeHeadEvent \/ Dispatch \/ Dispatched
    \/ TakeReorg \/ TakeBlobSidecar

Work ==
    \/ TakeTask
    \/ \E s \in Slots : RequestBlock(s) \/ BlockNotFound(s) \/ BlockArrives(s) \/ ProcessBlock(s)
    \/ \E e \in Epochs : AddNewState(e)

Node ==
    \/ \E s \in Slots : NewHead(s) \/ HeadAgain(s)
    \/ ReorgEvent \/ BlobSidecarEvent
    \/ \E e \in Epochs : TakeFinalized(e)

Next == RunHead \/ Work \/ Serve \/ Node

Spec == Init /\ [][Next]_vars

\* The goroutines run, and the node gets to serve what it announced.  A select
\* takes any of its ready cases; with the bounded number of events it need not
\* be fair among them.
Fairness == WF_vars(RunHead) /\ WF_vars(Work) /\ WF_vars(Serve)

FairSpec == Spec /\ Fairness

-----------------------------------------------------------------------------
TypeOK ==
    /\ announced \in Slots /\ served \in Slots /\ repeats \in 0..MaxRepeats
    /\ sending \subseteq {"reorg", "blob"}
    /\ headChan \in Seq(Slots) /\ Len(headChan) <= HeadCap
    /\ tasks \in Seq(Slots) /\ Len(tasks) <= RateLimit
    /\ phase \in {"fill", "wait", "select", "dispatch"}
    /\ next \in InitSlot..(LastSlotOfRun + 1) /\ fed \in InitSlot..next /\ at \in Slots
    /\ blocks \subseteq Slots /\ missing \subseteq Slots /\ roots \subseteq Slots
    /\ dl \in [Slots -> {"none", "spawned", "request", "done"}]
    /\ st \in [Epochs -> {"none", "byRoot", "bySlot", "cached", "evicted"}]
    /\ pc \in [Slots -> {"none", "queued", "asleep", "served", "done"}]

Feed == INSTANCE SlotFeed WITH First <- InitSlot, known <- announced

\* Dropped head events, events for old slots and the switch from filling to
\* following: the downloader is still given every slot once, in order, and
\* none before the node told of it.
SlotsInTurn == Feed!Spec

\* A block that the node announces before it serves it is not written down as
\* missed ("Retry on 404: with Lighthouse v8.1.0+ the Head SSE event can fire
\* before the block is queryable via the API").
NoBlockTakenForMissed == missing \subseteq Empty

\* The wait between filling and following is never for a block that was evicted
\* ("Waiting from initSlot would deadlock on evicted blocks (#253)"), and when
\* it is over no download of the filling is left ("skipping via Available()
\* would miss in-flight downloads (#248)").
SwitchSound ==
    /\ phase = "wait" /\ dl[at] = "done" => at \in blocks
    /\ Subscribed => \A s \in InitSlot..(HeadSlot - 1) : dl[s] = "done"

\* The state of an epoch whose last slot was sent for its own head event is
\* asked for by the root in the event, not by the slot, which the node may
\* not know yet.
StateByRoot ==
    \A e \in Epochs : LastSlot(e) \in told => st[e] # "bySlot"

\* A head event that got into the channel brings the analysis to its slot,
\* whatever was dropped before, and no handler waits at its send for ever.
EventsServed ==
    /\ \A s \in {s \in Slots \ Empty : s > HeadSlot} :
          (\E i \in 1..Len(headChan) : headChan[i] = s) ~>
              (\A t \in InitSlot..s : pc[t] = "done")
    /\ \A h \in {"reorg", "blob"} : h \in sending ~> h \notin sending
=============================================================================
