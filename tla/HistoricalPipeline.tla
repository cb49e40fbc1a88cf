-------------------------- MODULE HistoricalPipeline --------------------------
(***************************************************************************)
(* The historical mode of the chain analyzer (pkg/analyzer): runHistorical *)
(* sends the slots of a range to the downloader routine; for each slot the *)
(* downloader starts a goroutine that downloads the block and one that     *)
(* processes it, and at the end of an epoch one pair more for the state.   *)
(* The goroutines meet only through the processers' book (RoutineBook),    *)
(* the two maps of the chain cache (AgnosticMap), the API client's books   *)
(* and the flags stop and ctx.  The books hand their tokens out first come *)
(* first served; a processer shows in its book from the Set after that on. *)
(* The maps are taken by what AgnosticMap establishes: a Set that finds the *)
(* channel of a cancelled Wait never gives its mutex back.                 *)
(*                                                                         *)
(* The range lies below the finalized slot (the other branch of            *)
(* runHistorical, AdvanceFinalized, is not part of this module), and the   *)
(* epoch metrics are on.                                                   *)
(***************************************************************************)
EXTENDS Integers, Sequences, FiniteSets

CONSTANTS
    SlotsPerEpoch,
    InitSlot, FinalSlot,    \* after the rounding of NewChainAnalyzer
    RateLimit,              \* buffer of downloadTaskChan
    MaxPages,               \* pages of processerBook
    KeepEpochs,             \* epochs that CleanUpTo keeps
    Faults,                 \* what may go wrong
    Prompt                  \* a goroutine gets to the next point where it
                            \* may wait before another one looks at the book
                            \* or the downloader takes its next step

ASSUME PipelineAssumption ==
    /\ SlotsPerEpoch \in Nat \ {0, 1}
    /\ InitSlot \in Nat /\ InitSlot % SlotsPerEpoch = 0
    /\ FinalSlot \in Nat /\ FinalSlot % SlotsPerEpoch = 0
    /\ InitSlot < FinalSlot
    /\ RateLimit \in Nat \ {0}
    /\ MaxPages \in Nat \ {0}
    /\ KeepEpochs \in Nat \ {0}
    /\ Faults \subseteq {"block", "state", "metrics", "close", "fatal"}
    /\ Prompt \in BOOLEAN

EpochOf(s) == s \div SlotsPerEpoch

FirstSlot(e) == e * SlotsPerEpoch

LastSlot(e) == (e + 1) * SlotsPerEpoch - 1

InitEpoch == EpochOf(InitSlot)

Slots == InitSlot..FinalSlot

\* The epochs whose last slot is in the range: those whose state is used.
Epochs == InitEpoch..(EpochOf(FinalSlot) - 1)

SlotsOf(e) == FirstSlot(e)..LastSlot(e)

\* A processer, which is also its key in the book.
Block(s) == <<"slot=", s>>

Transition(e) == <<"epoch=", e>>

Jobs == {Block(s) : s \in Slots} \union {Transition(e) : e \in Epochs}

VARIABLES
    next,       \* i of runHistorical
    disp,       \* where runHistorical stands
    taken,      \* the next slot the downloader receives: downloadTaskChan
                \* holds taken..next-1
    dl,         \* runDownloadBlocks: "running", at one of the conditions of
                \* its end, or "done"
    main,       \* Run: "running" or "finished"; "exited" after a log.Fatalf
    stop,
    ctxDone,
    blockReqs,  \* blocksBook, of one page: the request under way, then the
                \* ones that wait in Acquire
    stateReqs,  \* statesBook, likewise
    blk,        \* the block of each slot, from its goroutine to the cache
    st,         \* the state of each epoch
    pc,         \* where each processer stands
    queue,      \* processers that wait in Acquire
    stale,      \* keys of the maps under which a cancelled Wait left its channel
    stuck       \* maps whose mutex is never given back

vars == <<next, disp, taken, dl, main, stop, ctxDone, blockReqs, stateReqs,
          blk, st, pc, queue, stale, stuck>>

flow == <<next, disp, taken, dl, main>>

flags == <<stop, ctxDone>>

requests == <<blockReqs, stateReqs>>

locks == <<stale, stuck>>

-----------------------------------------------------------------------------
(* The book of processers.                                                 *)

\* From its receive in Acquire to FreePage a processer has a token.  In between,
\* "granted", it has the token and has yet to set its page.
HasToken(j) == pc[j] \notin {"none", "fresh", "queued", "done", "aborted"}

Tokens == MaxPages - Cardinality({j \in Jobs : HasToken(j)})

\* Its page is in the book.
Active(j) == HasToken(j) /\ pc[j] # "granted"

ActivePages == Cardinality({j \in Jobs : Active(j)})

NumFreePages == MaxPages - ActivePages

\* CheckPageActive, also for an epoch the range does not have.
PageActive(j) == j \in Jobs /\ Active(j)

Registered == \A j \in Jobs : pc[j] # "granted"

\* WaitUntilInactive looks for the first time a second after it is called, and
\* WaitForPrevState at an epoch that was started long before.
Inactive(j) == ~PageActive(j) /\ (Prompt => Registered)

\* What a processer does once Acquire returns.
Entry(j) == IF j[1] = "slot=" THEN "lookup" ELSE "barrier"

\* Acquire: receive a token or wait in line.
Acquire(j) ==
    /\ pc[j] = "fresh"
    /\ IF Tokens > 0
       THEN /\ pc' = [pc EXCEPT ![j] = "granted"]
            /\ UNCHANGED queue
       ELSE /\ pc' = [pc EXCEPT ![j] = "queued"]
            /\ queue' = Append(queue, j)
    /\ UNCHANGED <<flow, flags, requests, blk, st, locks>>

\* FreePage: the page is deleted and its token goes to the first in line.
FreePage(j, end) ==
    IF queue = <<>>
    THEN /\ pc' = [pc EXCEPT ![j] = end]
         /\ UNCHANGED queue
    ELSE /\ pc' = [pc EXCEPT ![j] = end, ![Head(queue)] = "granted"]
         /\ queue' = Tail(queue)

Goto(j, step) ==
    /\ pc' = [pc EXCEPT ![j] = step]
    /\ UNCHANGED queue

\* The Set of Acquire.
SetPage(j) ==
    /\ pc[j] = "granted"
    /\ Goto(j, Entry(j))
    /\ UNCHANGED <<flow, flags, requests, blk, st, locks>>

-----------------------------------------------------------------------------
(* runHistorical.                                                          *)

\* The finalized block is requested through the blocks' book like the others;
\* its slot lies above the range.
FinalizedSlot == FinalSlot + 1

\* Faulty form of CleanUpTo: two epochs less are kept.
CleanUpToTooFar(maxSlot) ==
    LET old == {e \in Epochs : st[e] = "cached" /\ FirstSlot(e - 2) < maxSlot}
    IN  /\ st' = [e \in Epochs |-> IF e \in old THEN "evicted" ELSE st[e]]
        /\ blk' = [s \in Slots |-> IF EpochOf(s) \in old /\ blk[s] = "cached"
                                  THEN "evicted" ELSE blk[s]]

\* CleanUpTo(maxSlot) evicts the cached states of the epochs that start before
\* maxSlot, and their blocks with them.
CleanUpTo(maxSlot) ==
    LET old == {e \in Epochs : st[e] = "cached" /\ FirstSlot(e) < maxSlot}
    IN  /\ st' = [e \in Epochs |-> IF e \in old THEN "evicted" ELSE st[e]]
        /\ blk' = [s \in Slots |-> IF EpochOf(s) \in old /\ blk[s] = "cached"
                                  THEN "evicted" ELSE blk[s]]

MustClean == next > KeepEpochs * SlotsPerEpoch

\* One turn of the loop up to the request for the finalized block, or to the
\* send.  With no free page the loop waits.
DispatchCheck ==
    /\ disp = "check"
    /\ next <= FinalSlot
    /\ ~stop
    /\ NumFreePages > 0 /\ (Prompt => Registered)
    /\ IF next % SlotsPerEpoch = 0
       THEN /\ disp' = "finalized"
            /\ blockReqs' = Append(blockReqs, FinalizedSlot)
       ELSE /\ disp' = "send"
            /\ UNCHANGED blockReqs
    /\ UNCHANGED <<next, taken, dl, main, flags, stateReqs, blk, st, pc, queue, locks>>

\* The finalized block is there: clean, which needs both mutexes.
DispatchClean ==
    /\ disp = "finalized"
    /\ blockReqs # <<>> /\ Head(blockReqs) = FinalizedSlot
    /\ blockReqs' = Tail(blockReqs)
    /\ \/ /\ ~MustClean
          /\ disp' = "send"
          /\ UNCHANGED <<st, blk>>
       \/ /\ MustClean /\ stuck = {}
          /\ disp' = "send"
          /\ CleanUpTo(next - KeepEpochs * SlotsPerEpoch)
       \/ /\ MustClean /\ stuck # {}
          /\ disp' = "hung"
          /\ UNCHANGED <<st, blk>>
    /\ UNCHANGED <<next, taken, dl, main, flags, stateReqs, pc, queue, locks>>

DispatchSend ==
    /\ disp = "send"
    /\ next - taken < RateLimit
    /\ next' = next + 1
    /\ disp' = "check"
    /\ UNCHANGED <<taken, dl, main, flags, requests, blk, st, pc, queue, locks>>

\* The loop is over, stop was seen, or ctx was done at the send.
DispatchEnd ==
    /\ \/ disp = "check" /\ (next > FinalSlot \/ stop)
       \/ disp = "send" /\ ctxDone
    /\ disp' = "done"
    /\ UNCHANGED <<next, taken, dl, main, flags, requests, blk, st, pc, queue, locks>>

\* The finalized block is not there: log.Fatalf.
DispatchFatal ==
    /\ "fatal" \in Faults
    /\ disp = "finalized"
    /\ blockReqs # <<>> /\ Head(blockReqs) = FinalizedSlot
    /\ main' = "exited"
    /\ UNCHANGED <<next, disp, taken, dl, flags, requests, blk, st, pc, queue, locks>>

-----------------------------------------------------------------------------
(* runDownloadBlocks, Run and Close.                                       *)

\* Every goroutine that was started has called Acquire, and every one that
\* has a token has set its page and looked for its block.
Settled ==
    /\ \A j \in Jobs : pc[j] \notin {"fresh", "granted"} /\ (pc[j] = "lookup" => "block" \in stuck)
    /\ \A e \in Epochs : st[e] # "spawned"

TakeTask(s) ==
    /\ dl = "running"
    /\ s = taken /\ taken < next
    /\ Prompt => Settled
    /\ taken' = taken + 1
    /\ blk' = [blk EXCEPT ![s] = "gate"]
    /\ LET e == EpochOf(s) IN
       IF s = LastSlot(e)
       THEN /\ pc' = [pc EXCEPT ![Block(s)] = "fresh", ![Transition(e)] = "fresh"]
            /\ st' = [st EXCEPT ![e] = "spawned"]
       ELSE /\ pc' = [pc EXCEPT ![Block(s)] = "fresh"]
            /\ UNCHANGED st
    /\ UNCHANGED <<next, disp, dl, main, flags, requests, queue, locks>>

\* One condition of the ticker's check is read; at the first that does not hold
\* the routine goes back to its select.
EndCheck(at, condition, then) ==
    /\ dl = at
    /\ Prompt => Settled
    /\ dl' = IF condition THEN then ELSE "running"
    /\ UNCHANGED <<next, disp, taken, main, flags, requests, blk, st, pc, queue, locks>>

\* Faulty form of DownloaderEnd: the processers are not looked at.
DownloaderEndEarly ==
    \/ stop /\ EndCheck("running", stop, "chan")
    \/ EndCheck("chan", taken = next, "blocks")
    \/ EndCheck("blocks", blockReqs = <<>>, "states")
    \/ EndCheck("states", stateReqs = <<>>, "done")

\* stop, the channel, the books of ActiveReqNum (txBook belongs to the
\* processers) and ActivePages, one after the other.
DownloaderEnd ==
    \/ stop /\ EndCheck("running", stop, "chan")
    \/ EndCheck("chan", taken = next, "blocks")
    \/ EndCheck("blocks", blockReqs = <<>>, "states")
    \/ EndCheck("states", stateReqs = <<>>, "pages")
    \/ EndCheck("pages", ActivePages = 0, "done")

\* Run, after wgMainRoutine.Wait and after wgDownload.Wait.
RunStop ==
    /\ disp = "done" /\ ~stop
    /\ stop' = TRUE
    /\ UNCHANGED <<flow, ctxDone, requests, blk, st, pc, queue, locks>>

RunFinish ==
    /\ disp = "done" /\ dl = "done" /\ main = "running"
    /\ main' = "finished"
    /\ stop' = TRUE /\ ctxDone' = TRUE
    /\ UNCHANGED <<next, disp, taken, dl, requests, blk, st, pc, queue, locks>>

Close ==
    /\ "close" \in Faults
    /\ main = "running" /\ ~ctxDone
    /\ stop' = TRUE /\ ctxDone' = TRUE
    /\ UNCHANGED <<flow, requests, blk, st, pc, queue, locks>>

-----------------------------------------------------------------------------
(* The goroutines that download.                                           *)

\* Faulty form of GateOpen: the state of the slot's own epoch is waited for.
GateOpenOwn(s) ==
    LET e == EpochOf(s)
    IN  s >= 2 * SlotsPerEpoch /\ LastSlot(e) >= InitSlot =>
            "state" \notin stuck /\ st[e] = "cached" /\ Inactive(Transition(e))

\* WaitForPrevState: the state two epochs before is there and processed, or
\* is not part of the range.
GateOpen(s) ==
    LET e == EpochOf(s) - 2
    IN  s >= 2 * SlotsPerEpoch /\ LastSlot(e) >= InitSlot =>
            "state" \notin stuck /\ st[e] = "cached" /\ Inactive(Transition(e))

\* A cancelled WaitForPrevState returns too, and the download goes ahead.
RequestBlock(s) ==
    /\ blk[s] = "gate"
    /\ GateOpen(s) \/ ctxDone
    /\ blk' = [blk EXCEPT ![s] = "requested"]
    /\ blockReqs' = Append(blockReqs, s)
    /\ UNCHANGED <<flow, flags, stateReqs, st, pc, queue, locks>>

\* The answer to the request at hand; the client has its own context, so
\* ctxDone does not matter.  AddNewBlock stores the block and serves the
\* waiters, the processer among them; where one of the channels has nobody
\* behind it the mutex is lost, after or before the processer was served.  The
\* page of the request is given back a moment before: only DownloaderEnd could
\* tell, and the processer of the block holds that off.
BlockArrives(s) ==
    /\ blockReqs # <<>> /\ Head(blockReqs) = s
    /\ blockReqs' = Tail(blockReqs)
    /\ \/ /\ "block" \in stuck
          /\ blk' = [blk EXCEPT ![s] = "stuck"]
          /\ UNCHANGED <<pc, stuck>>
       \/ /\ "block" \notin stuck
          /\ blk' = [blk EXCEPT ![s] = "cached"]
          /\ pc' = [pc EXCEPT ![Block(s)] = IF @ = "asleep" THEN "persist" ELSE @]
          /\ stuck' = IF <<"block", s>> \in stale THEN {"block"} \union stuck ELSE stuck
       \/ /\ "block" \notin stuck /\ <<"block", s>> \in stale
          /\ blk' = [blk EXCEPT ![s] = "cached"]
          /\ stuck' = {"block"} \union stuck
          /\ UNCHANGED pc
    /\ UNCHANGED <<flow, flags, stateReqs, st, queue, stale>>

BlockFails(s) ==
    /\ "block" \in Faults
    /\ blockReqs # <<>> /\ Head(blockReqs) = s
    /\ blockReqs' = Tail(blockReqs)
    /\ blk' = [blk EXCEPT ![s] = "failed"]
    /\ stop' = TRUE /\ ctxDone' = TRUE
    /\ UNCHANGED <<flow, stateReqs, st, pc, queue, locks>>

RequestState(e) ==
    /\ st[e] = "spawned"
    /\ st' = [st EXCEPT ![e] = "requested"]
    /\ stateReqs' = Append(stateReqs, e)
    /\ UNCHANGED <<flow, flags, blockReqs, blk, pc, queue, locks>>

StateArrives(e) ==
    /\ stateReqs # <<>> /\ Head(stateReqs) = e
    /\ stateReqs' = Tail(stateReqs)
    /\ st' = [st EXCEPT ![e] = "assembling"]
    /\ UNCHANGED <<flow, flags, blockReqs, blk, pc, queue, locks>>

StateFails(e) ==
    /\ "state" \in Faults
    /\ stateReqs # <<>> /\ Head(stateReqs) = e
    /\ stateReqs' = Tail(stateReqs)
    /\ st' = [st EXCEPT ![e] = "failed"]
    /\ stop' = TRUE /\ ctxDone' = TRUE
    /\ UNCHANGED <<flow, blockReqs, blk, pc, queue, locks>>

Missing(e) == {s \in SlotsOf(e) : blk[s] # "cached"}

\* AddNewState waits for the blocks of its epoch, one after the other, and
\* stores the state.
AddNewState(e) ==
    /\ st[e] = "assembling"
    /\ Missing(e) = {} /\ "block" \notin stuck
    /\ IF "state" \in stuck
       THEN /\ st' = [st EXCEPT ![e] = "stuck"]
            /\ UNCHANGED stuck
       ELSE /\ st' = [st EXCEPT ![e] = "cached"]
            /\ stuck' = IF <<"state", e>> \in stale THEN stuck \union {"state"} ELSE stuck
    /\ UNCHANGED <<flow, flags, requests, blk, pc, queue, stale>>

\* It sleeps on the first block it misses, and leaves its channel there.
AddNewStateCancelled(e) ==
    /\ ctxDone
    /\ st[e] = "assembling"
    /\ Missing(e) # {}
    /\ st' = [st EXCEPT ![e] = "aborted"]
    /\ \E s \in Missing(e) :
          /\ \A r \in Missing(e) : s <= r
          /\ stale' = stale \union {<<"block", s>>}
    /\ UNCHANGED <<flow, flags, requests, blk, pc, queue, stuck>>

-----------------------------------------------------------------------------
(* ProcessBlock.                                                           *)

BlockLookup(s) ==
    /\ pc[Block(s)] = "lookup"
    /\ "block" \notin stuck
    /\ Goto(Block(s), IF blk[s] = "cached" THEN "persist" ELSE "asleep")
    /\ UNCHANGED <<flow, flags, requests, blk, st, locks>>

BlockCancelled(s) ==
    /\ ctxDone
    /\ pc[Block(s)] = "asleep"
    /\ FreePage(Block(s), "aborted")
    /\ stale' = stale \union {<<"block", s>>}
    /\ UNCHANGED <<flow, flags, requests, blk, st, stuck>>

PersistBlock(s) ==
    /\ pc[Block(s)] = "persist"
    /\ FreePage(Block(s), "done")
    /\ UNCHANGED <<flow, flags, requests, blk, st, locks>>

-----------------------------------------------------------------------------
(* ProcessStateTransitionMetrics.                                          *)

\* Faulty form of EpochBarrier: it waits for the epoch before the previous.
EpochBarrierShort(e) ==
    /\ pc[Transition(e)] = "barrier"
    /\ Inactive(Transition(e - 2))
    /\ "state" \notin stuck
    /\ Goto(Transition(e), "prev")
    /\ UNCHANGED <<flow, flags, requests, blk, st, locks>>

\* Wait until the previous epoch is not being processed, then call Wait for
\* the first state.
EpochBarrier(e) ==
    /\ pc[Transition(e)] = "barrier"
    /\ Inactive(Transition(e - 1))
    /\ "state" \notin stuck
    /\ Goto(Transition(e), "prev")
    /\ UNCHANGED <<flow, flags, requests, blk, st, locks>>

\* The epoch whose state the processer is waiting for, and what follows.
Wanted(e) ==
    CASE pc[Transition(e)] = "prev" -> e - 2
      [] pc[Transition(e)] = "current" -> e - 1
      [] pc[Transition(e)] = "next" -> e

Reading(e) == pc[Transition(e)] \in {"prev", "current", "next"}

\* A state below the range is never downloaded, and not waited for.  The next
\* call of Wait needs the mutex.
StateReceived(e) ==
    /\ Reading(e)
    /\ Wanted(e) >= InitEpoch => st[Wanted(e)] = "cached"
    /\ pc[Transition(e)] # "next" => "state" \notin stuck
    /\ Goto(Transition(e), CASE pc[Transition(e)] = "prev" -> "current"
                              [] pc[Transition(e)] = "current" -> "next"
                              [] pc[Transition(e)] = "next" -> "metrics")
    /\ UNCHANGED <<flow, flags, requests, blk, st, locks>>

\* Faulty form of StateCancelled: the page is not given back.
StateCancelledHolding(e) ==
    /\ ctxDone
    /\ Reading(e)
    /\ Wanted(e) >= InitEpoch /\ st[Wanted(e)] # "cached"
    /\ stale' = stale \union {<<"state", Wanted(e)>>}
    /\ UNCHANGED <<flow, flags, requests, blk, st, pc, queue, stuck>>

StateCancelled(e) ==
    /\ ctxDone
    /\ Reading(e)
    /\ Wanted(e) >= InitEpoch /\ st[Wanted(e)] # "cached"
    /\ FreePage(Transition(e), "aborted")
    /\ stale' = stale \union {<<"state", Wanted(e)>>}
    /\ UNCHANGED <<flow, flags, requests, blk, st, stuck>>

\* StateMetricsByForkVersion refuses the states.
MetricsFail(e) ==
    /\ "metrics" \in Faults
    /\ pc[Transition(e)] = "metrics"
    /\ FreePage(Transition(e), "aborted")
    /\ stop' = TRUE /\ ctxDone' = TRUE
    /\ UNCHANGED <<flow, requests, blk, st, locks>>

\* The three states are there, none of them empty.
Complete(e) == e - 2 >= InitEpoch

\* One of its writes ends in a log.Fatalf.
MetricsFatal(e) ==
    /\ "fatal" \in Faults
    /\ pc[Transition(e)] = "metrics" /\ Complete(e)
    /\ main' = "exited"
    /\ UNCHANGED <<next, disp, taken, dl, flags, requests, blk, st, pc, queue, locks>>

\* Faulty form of ProcessMetrics: it does not wait for the blocks' processers.
ProcessMetricsAtOnce(e) ==
    /\ pc[Transition(e)] = "metrics"
    /\ FreePage(Transition(e), "done")
    /\ UNCHANGED <<flow, flags, requests, blk, st, locks>>

\* Everything is computed and written; processBlockRewards waits for the
\* processers of the previous epoch's blocks.
ProcessMetrics(e) ==
    /\ pc[Transition(e)] = "metrics"
    /\ Complete(e) => \A s \in SlotsOf(e - 1) : Inactive(Block(s))
    /\ FreePage(Transition(e), "done")
    /\ UNCHANGED <<flow, flags, requests, blk, st, locks>>

-----------------------------------------------------------------------------
Init ==
    /\ next = InitSlot /\ taken = InitSlot
    /\ disp = "check" /\ dl = "running" /\ main = "running"
    /\ stop = FALSE /\ ctxDone = FALSE
    /\ blockReqs = <<>> /\ stateReqs = <<>>
    /\ blk = [s \in Slots |-> "none"]
    /\ st = [e \in Epochs |-> "none"]
    /\ pc = [j \in Jobs |-> "none"]
    /\ queue = <<>>
    /\ stale = {} /\ stuck = {}

Dispatcher == DispatchCheck \/ DispatchClean \/ DispatchSend \/ DispatchEnd

Run == RunStop \/ RunFinish

DownloadBlock(s) == RequestBlock(s) \/ BlockArrives(s)

DownloadState(e) ==
    RequestState(e) \/ StateArrives(e) \/ AddNewState(e) \/ AddNewStateCancelled(e)

ProcessBlock(s) ==
    \/ Acquire(Block(s)) \/ SetPage(Block(s)) \/ BlockLookup(s) \/ BlockCancelled(s)
    \/ PersistBlock(s)

ProcessTransition(e) ==
    \/ Acquire(Transition(e)) \/ SetPage(Transition(e)) \/ EpochBarrier(e)
    \/ StateReceived(e) \/ StateCancelled(e) \/ ProcessMetrics(e)

Fault ==
    \/ Close \/ DispatchFatal
    \/ \E s \in Slots : BlockFails(s)
    \/ \E e \in Epochs : StateFails(e) \/ MetricsFail(e) \/ MetricsFatal(e)

\* The process has come to its end.
Exited == main # "running" /\ UNCHANGED vars

\* A step of one of the analyzer's goroutines, or an answer to one.
Progress ==
    \/ Dispatcher \/ Run
    \/ \E s \in Slots : TakeTask(s) \/ DownloadBlock(s) \/ ProcessBlock(s)
    \/ \E e \in Epochs : DownloadState(e) \/ ProcessTransition(e)

\* A log.Fatalf stops all of them.
Next ==
    \/ main # "exited" /\ (Progress \/ DownloaderEnd \/ Fault)
    \/ Exited

Spec == Init /\ [][Next]_vars

\* The scheduler runs some goroutine whenever one can run, the beacon node
\* answers, the downloader's ticker goes on, and its select does not pass a task
\* over for ever.  Only the ticker's check is done more than once.
Fairness ==
    /\ WF_vars(main # "exited" /\ Progress)
    /\ WF_vars(main # "exited" /\ DownloaderEnd)
    /\ SF_vars(main # "exited" /\ \E s \in Slots : TakeTask(s))

FairSpec == Spec /\ Fairness

-----------------------------------------------------------------------------
TypeOK ==
    /\ next \in InitSlot..(FinalSlot + 1)
    /\ taken \in InitSlot..next
    /\ disp \in {"check", "finalized", "send", "hung", "done"}
    /\ dl \in {"running", "chan", "blocks", "states", "pages", "done"}
    /\ main \in {"running", "finished", "exited"}
    /\ stop \in BOOLEAN /\ ctxDone \in BOOLEAN
    /\ blockReqs \in Seq(Slots \union {FinalizedSlot})
    /\ stateReqs \in Seq(Epochs)
    /\ blk \in [Slots -> {"none", "gate", "requested", "cached", "evicted", "failed", "stuck"}]
    /\ st \in [Epochs -> {"none", "spawned", "requested", "assembling", "cached",
                         "evicted", "failed", "aborted", "stuck"}]
    /\ pc \in [Jobs -> {"none", "fresh", "queued", "granted", "lookup", "asleep",
                       "persist", "barrier", "prev", "current", "next", "metrics",
                       "done", "aborted"}]
    /\ queue \in Seq(Jobs)
    /\ stale \subseteq ({"block"} \X Slots) \union ({"state"} \X Epochs)
    /\ stuck \subseteq {"block", "state"}

\* CleanUpTo never evicts what is still to be read: a processer that has yet
\* to find its block or its states, or a download that waits for the state two
\* epochs before, would sleep on the evicted key for ever ("need 3 at least
\* for epoch metrics, magic number, 2 extra if processer takes long").
NeededNotEvicted ==
    /\ \A s \in Slots : pc[Block(s)] \in {"none", "fresh", "queued", "granted", "lookup"} =>
            blk[s] # "evicted"
    /\ \A s \in Slots : EpochOf(s) - 2 \in Epochs /\ blk[s] \in {"none", "gate"} =>
            st[EpochOf(s) - 2] # "evicted"
    /\ \A e \in Epochs : pc[Transition(e)] \notin {"metrics", "done", "aborted"} =>
            \A k \in {e - 2, e - 1, e} \intersect Epochs : st[k] # "evicted"

\* No epoch is past its barrier before the epoch before it is through: it
\* would read blocks whose ManualReward is still being summed up.
EpochsInTurn ==
    \A e \in Epochs : e - 1 \in Epochs /\ (Reading(e) \/ pc[Transition(e)] = "metrics") =>
        pc[Transition(e - 1)] \in {"done", "aborted"}

\* The rewards of an epoch's blocks are computed after the processer of each
\* of them has finished: no fees are written from a block whose transactions
\* are not yet appended.
RewardsAfterBlocks ==
    \A e \in Epochs : Complete(e) /\ pc[Transition(e)] = "done" =>
        \A s \in SlotsOf(e - 1) : pc[Block(s)] = "done"

\* "Once all slots have been analyzed, the tool finishes the execution": it
\* does not finish before.
AllAnalyzed ==
    main = "finished" => \A j \in Jobs : pc[j] = "done"

\* ... and it does finish, or a log.Fatalf ends it: no circle of processers
\* waiting for pages, pages for blocks, blocks for states and states for
\* processers.
Finishes == <>(main # "running")

\* Close "Wait[s] for services to stop before returning", and a failed download
\* or failed metrics cancel everything likewise: whatever each goroutine was
\* doing, all of them come to their end, and the run with them, unless the
\* mutex of a map was lost before.
CloseReturns == ctxDone ~> (main # "running" \/ stuck # {})
=============================================================================
