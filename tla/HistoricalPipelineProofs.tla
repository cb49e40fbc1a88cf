----------------------- MODULE HistoricalPipelineProofs -----------------------
(***************************************************************************)
(* The historical run for every range, book, buffer and cache: epochs go   *)
(* in turn and rewards come after their blocks, nothing is left out, and   *)
(* with the sizes the code has nothing that is still needed is evicted.    *)
(***************************************************************************)
EXTENDS HistoricalPipeline, FiniteSetTheorems, SequenceTheorems, TLAPS

-----------------------------------------------------------------------------
(* Slots, epochs and jobs.                                                 *)

LEMMA Parameters ==
    /\ SlotsPerEpoch \in Nat /\ SlotsPerEpoch > 0
    /\ InitSlot \in Nat /\ FinalSlot \in Nat /\ InitSlot < FinalSlot
    /\ RateLimit \in Nat /\ RateLimit > 0
    /\ MaxPages \in Nat /\ MaxPages > 0
    /\ KeepEpochs \in Nat /\ KeepEpochs > 0
BY PipelineAssumption

LEMMA EpochAround ==
    ASSUME NEW s \in Nat
    PROVE  /\ EpochOf(s) \in Nat
           /\ FirstSlot(EpochOf(s)) <= s /\ s < FirstSlot(EpochOf(s)) + SlotsPerEpoch
<1> DEFINE e == s \div SlotsPerEpoch
<1>1. e \in Nat /\ s = SlotsPerEpoch * e + (s % SlotsPerEpoch)
      /\ 0 <= s % SlotsPerEpoch /\ s % SlotsPerEpoch < SlotsPerEpoch /\ s % SlotsPerEpoch \in Int
  BY Parameters, Z3
<1>2. SlotsPerEpoch * e = e * SlotsPerEpoch /\ e * SlotsPerEpoch \in Nat
  BY <1>1, Parameters, Z3
<1> QED
  BY <1>1, <1>2, Parameters DEF EpochOf, FirstSlot

LEMMA FirstSlots ==
    ASSUME NEW e \in Int
    PROVE  /\ FirstSlot(e) \in Int
           /\ FirstSlot(e + 1) = FirstSlot(e) + SlotsPerEpoch
           /\ LastSlot(e) = FirstSlot(e) + SlotsPerEpoch - 1
           /\ LastSlot(e) \in Int
BY Parameters DEF FirstSlot, LastSlot

\* Later epochs lie at least an epoch higher.
LEMMA EpochsApart ==
    ASSUME NEW d \in Int, NEW e \in Int, d < e
    PROVE  FirstSlot(d) + SlotsPerEpoch <= FirstSlot(e)
<1> DEFINE k == e - d - 1
<1>1. k \in Nat /\ e = (d + 1) + k
  OBVIOUS
<1>2. k * SlotsPerEpoch \in Nat
  <2> HIDE DEF k
  <2> QED
    BY <1>1, Parameters
<1>3. e * SlotsPerEpoch = d * SlotsPerEpoch + SlotsPerEpoch + k * SlotsPerEpoch
  <2> HIDE DEF k
  <2> QED
    BY <1>1, Parameters
<1> HIDE DEF k
<1> QED
  BY <1>2, <1>3, Parameters DEF FirstSlot

LEMMA EpochUnique ==
    ASSUME NEW s \in Nat, NEW e \in Int, FirstSlot(e) <= s, s < FirstSlot(e) + SlotsPerEpoch
    PROVE  EpochOf(s) = e
<1> DEFINE h == EpochOf(s)
<1>1. h \in Nat /\ FirstSlot(h) <= s /\ s < FirstSlot(h) + SlotsPerEpoch
  BY EpochAround
<1>2. FirstSlot(h) \in Int /\ FirstSlot(e) \in Int
  BY <1>1, FirstSlots
<1> HIDE DEF h
<1>3. ~(h < e)
  <2> SUFFICES ASSUME h < e PROVE FALSE
    OBVIOUS
  <2>1. FirstSlot(h) + SlotsPerEpoch <= FirstSlot(e)
    BY <1>1, EpochsApart
  <2> QED
    BY <1>1, <1>2, <2>1, Parameters
<1>4. ~(e < h)
  <2> SUFFICES ASSUME e < h PROVE FALSE
    OBVIOUS
  <2>1. FirstSlot(e) + SlotsPerEpoch <= FirstSlot(h)
    BY <1>1, EpochsApart
  <2> QED
    BY <1>1, <1>2, <2>1, Parameters
<1> QED
  BY <1>1, <1>3, <1>4 DEF h

LEMMA MultipleOfEpoch ==
    ASSUME NEW s \in Nat, s % SlotsPerEpoch = 0
    PROVE  FirstSlot(EpochOf(s)) = s
<1> DEFINE e == s \div SlotsPerEpoch
<1>1. e \in Nat /\ s = SlotsPerEpoch * e
  BY Parameters, Z3
<1>2. SlotsPerEpoch * e = e * SlotsPerEpoch
  BY <1>1, Parameters, Z3
<1> QED
  BY <1>1, <1>2 DEF EpochOf, FirstSlot

LEMMA EpochsInRange ==
    /\ InitEpoch \in Nat /\ FirstSlot(InitEpoch) = InitSlot
    /\ EpochOf(FinalSlot) \in Nat /\ FirstSlot(EpochOf(FinalSlot)) = FinalSlot
    /\ \A e \in Epochs :
        /\ e \in Nat /\ e >= InitEpoch /\ e < EpochOf(FinalSlot)
        /\ FirstSlot(e) \in Int /\ FirstSlot(e) >= InitSlot
        /\ LastSlot(e) = FirstSlot(e) + SlotsPerEpoch - 1 /\ LastSlot(e) < FinalSlot
        /\ LastSlot(e) \in Slots
<1>1. InitEpoch \in Nat /\ EpochOf(FinalSlot) \in Nat
  BY Parameters, EpochAround DEF InitEpoch
<1>2. FirstSlot(InitEpoch) = InitSlot /\ FirstSlot(EpochOf(FinalSlot)) = FinalSlot
  BY PipelineAssumption, MultipleOfEpoch DEF InitEpoch
<1>3. ASSUME NEW e \in Epochs
      PROVE  /\ e \in Nat /\ e >= InitEpoch /\ e < EpochOf(FinalSlot)
             /\ FirstSlot(e) \in Int /\ FirstSlot(e) >= InitSlot
             /\ LastSlot(e) = FirstSlot(e) + SlotsPerEpoch - 1 /\ LastSlot(e) < FinalSlot
             /\ LastSlot(e) \in Slots
  <2>1. e \in Nat /\ e >= InitEpoch /\ e < EpochOf(FinalSlot)
    BY <1>1 DEF Epochs
  <2>2. /\ FirstSlot(e) \in Int
        /\ LastSlot(e) = FirstSlot(e) + SlotsPerEpoch - 1
    BY <2>1, FirstSlots
  <2>3. FirstSlot(e) >= InitSlot
    BY <1>1, <1>2, <2>1, <2>2, EpochsApart, Parameters
  <2>4. FirstSlot(e) + SlotsPerEpoch <= FinalSlot
    BY <1>1, <1>2, <2>1, EpochsApart
  <2> QED
    BY <2>1, <2>2, <2>3, <2>4, Parameters DEF Slots
<1> QED
  BY <1>1, <1>2, <1>3

\* The slot a job is started with.
Pos(j) == IF j[1] = "slot=" THEN j[2] ELSE LastSlot(j[2])

LEMMA Positions ==
    /\ \A s \in Slots : s \in Nat /\ s <= FinalSlot
                        /\ Block(s) \in Jobs /\ Pos(Block(s)) = s /\ Entry(Block(s)) = "lookup"
    /\ \A e \in Epochs : /\ Transition(e) \in Jobs /\ Pos(Transition(e)) = LastSlot(e)
                         /\ Entry(Transition(e)) = "barrier"
    /\ \A j \in Jobs : \/ \E s \in Slots : j = Block(s)
                       \/ \E e \in Epochs : j = Transition(e)
    /\ \A j \in Jobs : Pos(j) \in Slots /\ Pos(j) \in Nat /\ Entry(j) \in {"lookup", "barrier"}
    /\ \A s \in Slots, e \in Epochs : Block(s) # Transition(e)
<1>1. \A s \in Slots : s \in Nat /\ s <= FinalSlot
  BY Parameters DEF Slots
<1>2. \A s \in Slots : Block(s) \in Jobs /\ Pos(Block(s)) = s /\ Entry(Block(s)) = "lookup"
  BY DEF Jobs, Block, Pos, Entry
<1>3. \A e \in Epochs : /\ Transition(e) \in Jobs /\ Pos(Transition(e)) = LastSlot(e)
                        /\ Entry(Transition(e)) = "barrier"
  BY DEF Jobs, Transition, Pos, Entry
<1>4. \A j \in Jobs : (\E s \in Slots : j = Block(s)) \/ (\E e \in Epochs : j = Transition(e))
  BY DEF Jobs
<1>5. \A s \in Slots, e \in Epochs : Block(s) # Transition(e)
  BY DEF Block, Transition
<1>6. \A j \in Jobs : Pos(j) \in Slots /\ Entry(j) \in {"lookup", "barrier"}
  BY <1>2, <1>3, <1>4, EpochsInRange
<1> QED
  BY <1>1, <1>2, <1>3, <1>4, <1>5, <1>6

LEMMA JobsFinite == IsFiniteSet(Jobs)
<1> DEFINE B == {Block(s) : s \in Slots}
           T == {Transition(e) : e \in Epochs}
<1>1. IsFiniteSet(B)
  <2>1. [s \in Slots |-> Block(s)] \in Surjection(Slots, B)
    BY DEF Surjection
  <2>2. IsFiniteSet(Slots)
    BY FS_Interval, Parameters DEF Slots
  <2> QED
    BY <2>1, <2>2, FS_Surjection
<1>2. IsFiniteSet(T)
  <2>1. [e \in Epochs |-> Transition(e)] \in Surjection(Epochs, T)
    BY DEF Surjection
  <2>2. IsFiniteSet(Epochs)
    BY FS_Interval, EpochsInRange DEF Epochs
  <2> QED
    BY <2>1, <2>2, FS_Surjection
<1> QED
  BY <1>1, <1>2, FS_Union DEF Jobs

\* The tokens that processers have.
Held == Cardinality({j \in Jobs : HasToken(j)})

LEMMA TokensFinite ==
    /\ IsFiniteSet({j \in Jobs : HasToken(j)})
    /\ Held \in Nat /\ Tokens \in Int
    /\ Tokens > 0 <=> Held < MaxPages
<1>1. IsFiniteSet({j \in Jobs : HasToken(j)})
  BY JobsFinite, FS_Subset
<1>2. Held \in Nat
  BY <1>1, FS_CardinalityType DEF Held
<1> QED
  BY <1>1, <1>2, Parameters DEF Tokens, Held

\* With no processer between its token and its page the book shows them all.
LEMMA AllShown ==
    ASSUME Registered
    PROVE  /\ NumFreePages = Tokens /\ ActivePages = Held
           /\ \A j \in Jobs : ~PageActive(j) => ~HasToken(j)
<1>1. \A j \in Jobs : Active(j) <=> HasToken(j)
  BY DEF Registered, Active
<1>2. {j \in Jobs : Active(j)} = {j \in Jobs : HasToken(j)}
  BY <1>1
<1> QED
  BY <1>1, <1>2 DEF NumFreePages, Tokens, ActivePages, Held, PageActive
-----------------------------------------------------------------------------
(* Types.                                                                  *)

Labels ==
    {"none", "fresh", "queued", "granted", "lookup", "asleep", "persist", "barrier", "prev",
     "current", "next", "metrics", "done", "aborted"}

LEMMA FreePageType ==
    ASSUME pc \in [Jobs -> Labels], queue \in Seq(Jobs),
           NEW j \in Jobs, NEW end \in {"done", "aborted"}, FreePage(j, end)
    PROVE  pc' \in [Jobs -> Labels] /\ queue' \in Seq(Jobs)
<1>1. CASE queue = <<>>
  BY <1>1 DEF FreePage, Labels
<1>2. CASE queue # <<>>
  <2>1. Head(queue) \in Jobs /\ Tail(queue) \in Seq(Jobs)
    BY <1>2, HeadTailProperties
  <2> QED
    BY <1>2, <2>1 DEF FreePage, Labels
<1> QED
  BY <1>1, <1>2

LEMMA TypeOKLabels == TypeOK => pc \in [Jobs -> Labels]
BY DEF TypeOK, Labels

\* What is about to be sent is in the range.
SendInRange == disp \in {"finalized", "send"} => next <= FinalSlot

LEMMA SendStep == SendInRange /\ [Next]_vars => SendInRange'
<1> SUFFICES ASSUME SendInRange, [Next]_vars PROVE SendInRange'
  OBVIOUS
<1>1. CASE Dispatcher
  BY <1>1 DEF Dispatcher, DispatchCheck, DispatchClean, DispatchSend, DispatchEnd, SendInRange
<1>2. CASE UNCHANGED <<next, disp>>
  BY <1>2 DEF SendInRange
<1>3. Dispatcher \/ UNCHANGED <<next, disp>>
  BY DEF Next, Progress, Run, DownloadBlock, ProcessBlock, DownloadState,
         ProcessTransition, Fault, Exited, vars, flow, TakeTask, DownloaderEnd, RunStop,
         RunFinish, Close, RequestBlock, BlockArrives, BlockFails, RequestState, StateArrives,
         StateFails, AddNewState, AddNewStateCancelled, Acquire, BlockLookup, BlockCancelled,
         PersistBlock, EpochBarrier, StateReceived, StateCancelled, MetricsFail, ProcessMetrics,
         EndCheck, SetPage, DispatchFatal, MetricsFatal
<1> QED
  BY <1>1, <1>2, <1>3

LEMMA TypeStep == TypeOK /\ SendInRange /\ [Next]_vars => TypeOK'
<1> SUFFICES ASSUME TypeOK, SendInRange, [Next]_vars PROVE TypeOK'
  OBVIOUS
<1> USE DEF TypeOK, flow, flags, requests, locks
<1>0. InitSlot \in Nat /\ FinalSlot \in Nat /\ next \in Nat /\ taken \in Nat
  BY Parameters
<1>1. CASE DispatchCheck
  <2>1. blockReqs' \in Seq(Slots \union {FinalizedSlot})
    <3>1. Append(blockReqs, FinalizedSlot) \in Seq(Slots \union {FinalizedSlot})
      BY AppendProperties
    <3> QED
      BY <1>1, <3>1 DEF DispatchCheck
  <2> QED
    BY <1>1, <2>1 DEF DispatchCheck
<1>2. CASE DispatchClean
  <2>1. blockReqs' \in Seq(Slots \union {FinalizedSlot})
    BY <1>2, HeadTailProperties DEF DispatchClean
  <2>2. st' \in [Epochs -> {"none", "spawned", "requested", "assembling", "cached",
                         "evicted", "failed", "aborted", "stuck"}]
    BY <1>2 DEF DispatchClean, CleanUpTo
  <2>3. blk' \in [Slots -> {"none", "gate", "requested", "cached", "evicted", "failed", "stuck"}]
    BY <1>2 DEF DispatchClean, CleanUpTo
  <2> QED
    BY <1>2, <2>1, <2>2, <2>3 DEF DispatchClean
<1>3. CASE DispatchSend
  <2>1. next' = next + 1 /\ taken' = taken /\ next + 1 <= FinalSlot + 1
    BY <1>0, <1>3, Parameters DEF DispatchSend, SendInRange
  <2> QED
    BY <1>0, <1>3, <2>1 DEF DispatchSend
<1>4. CASE DispatchEnd
  BY <1>4 DEF DispatchEnd
<1>5. ASSUME NEW s \in Slots, TakeTask(s) PROVE TypeOK'
  <2>1. taken' = taken + 1 /\ next' = next /\ taken < next
    BY <1>5 DEF TakeTask
  <2>2. pc' \in [Jobs -> Labels]
    BY <1>5, TypeOKLabels DEF TakeTask, Labels
  <2>3. st' \in [Epochs -> {"none", "spawned", "requested", "assembling", "cached",
                         "evicted", "failed", "aborted", "stuck"}]
    BY <1>5 DEF TakeTask
  <2> QED
    BY <1>0, <1>5, <2>1, <2>2, <2>3 DEF TakeTask, Labels
<1>6. CASE DownloaderEnd
  BY <1>6 DEF DownloaderEnd, EndCheck
<1>7. CASE RunStop
  BY <1>7 DEF RunStop
<1>8. CASE RunFinish
  BY <1>8 DEF RunFinish
<1>9. CASE Close
  BY <1>9 DEF Close
<1>10. ASSUME NEW s \in Slots, RequestBlock(s) PROVE TypeOK'
  BY <1>10 DEF RequestBlock
<1>11. ASSUME NEW s \in Slots, BlockArrives(s) PROVE TypeOK'
  <2>1. blockReqs' \in Seq(Slots \union {FinalizedSlot})
    BY <1>11, HeadTailProperties DEF BlockArrives
  <2>2. blk' \in [Slots -> {"none", "gate", "requested", "cached", "evicted", "failed", "stuck"}]
    BY <1>11 DEF BlockArrives
  <2>3. pc' \in [Jobs -> {"none", "fresh", "queued", "granted", "lookup", "asleep",
                         "persist", "barrier", "prev", "current", "next", "metrics",
                         "done", "aborted"}]
    BY <1>11 DEF BlockArrives
  <2>4. stuck' \subseteq {"block", "state"}
    BY <1>11 DEF BlockArrives
  <2>5. UNCHANGED <<flow, flags, stateReqs, st, queue, stale>>
    BY <1>11 DEF BlockArrives
  <2> QED
    BY <2>1, <2>2, <2>3, <2>4, <2>5
<1>12. ASSUME NEW s \in Slots, BlockFails(s) PROVE TypeOK'
  <2>1. blockReqs' \in Seq(Slots \union {FinalizedSlot})
    BY <1>12, HeadTailProperties DEF BlockFails
  <2> QED
    BY <1>12, <2>1 DEF BlockFails
<1>13. ASSUME NEW e \in Epochs, RequestState(e) PROVE TypeOK'
  BY <1>13 DEF RequestState
<1>14. ASSUME NEW e \in Epochs, StateArrives(e) PROVE TypeOK'
  <2>1. stateReqs' \in Seq(Epochs)
    BY <1>14, HeadTailProperties DEF StateArrives
  <2> QED
    BY <1>14, <2>1 DEF StateArrives
<1>15. ASSUME NEW e \in Epochs, StateFails(e) PROVE TypeOK'
  <2>1. stateReqs' \in Seq(Epochs)
    BY <1>15, HeadTailProperties DEF StateFails
  <2> QED
    BY <1>15, <2>1 DEF StateFails
<1>16. ASSUME NEW e \in Epochs, AddNewState(e) PROVE TypeOK'
  BY <1>16 DEF AddNewState
<1>17. ASSUME NEW e \in Epochs, AddNewStateCancelled(e) PROVE TypeOK'
  <2>1. Missing(e) \subseteq Slots
    <3>1. \A s \in SlotsOf(e) : s \in Slots
      BY EpochsInRange, Parameters DEF SlotsOf, Slots
    <3> QED
      BY <3>1 DEF Missing
  <2> QED
    BY <1>17, <2>1 DEF AddNewStateCancelled
<1>18. ASSUME NEW j \in Jobs, Acquire(j) PROVE TypeOK'
  <2>2. pc' \in [Jobs -> Labels]
    BY <1>18 DEF Acquire, Labels
  <2>3. queue' \in Seq(Jobs)
    <3>1. Append(queue, j) \in Seq(Jobs)
      BY AppendProperties
    <3> QED
      BY <1>18, <3>1 DEF Acquire
  <2> QED
    BY <1>18, <2>2, <2>3 DEF Acquire, Labels
<1>19. ASSUME NEW s \in Slots, BlockLookup(s) PROVE TypeOK'
  BY <1>19 DEF BlockLookup, Goto
<1>20. ASSUME NEW s \in Slots, BlockCancelled(s) PROVE TypeOK'
  <2>1. pc' \in [Jobs -> Labels] /\ queue' \in Seq(Jobs)
    BY <1>20, FreePageType, TypeOKLabels, Positions DEF BlockCancelled
  <2> QED
    BY <1>20, <2>1 DEF BlockCancelled, Labels
<1>21. ASSUME NEW s \in Slots, PersistBlock(s) PROVE TypeOK'
  <2>1. pc' \in [Jobs -> Labels] /\ queue' \in Seq(Jobs)
    BY <1>21, FreePageType, TypeOKLabels, Positions DEF PersistBlock
  <2> QED
    BY <1>21, <2>1 DEF PersistBlock, Labels
<1>22. ASSUME NEW e \in Epochs, EpochBarrier(e) PROVE TypeOK'
  BY <1>22 DEF EpochBarrier, Goto
<1>23. ASSUME NEW e \in Epochs, StateReceived(e) PROVE TypeOK'
  BY <1>23 DEF StateReceived, Goto, Reading
<1>24. ASSUME NEW e \in Epochs, StateCancelled(e) PROVE TypeOK'
  <2>1. pc' \in [Jobs -> Labels] /\ queue' \in Seq(Jobs)
    BY <1>24, FreePageType, TypeOKLabels, Positions DEF StateCancelled
  <2>2. Wanted(e) \in Epochs
    <3>1. e \in Nat /\ InitEpoch \in Nat
      BY EpochsInRange
    <3>2. Wanted(e) \in {e - 2, e - 1, e}
      BY <1>24 DEF StateCancelled, Reading, Wanted
    <3> QED
      BY <1>24, <3>1, <3>2, EpochsInRange DEF StateCancelled, Epochs
  <2> QED
    BY <1>24, <2>1, <2>2 DEF StateCancelled, Labels
<1>25. ASSUME NEW e \in Epochs, MetricsFail(e) PROVE TypeOK'
  <2>1. pc' \in [Jobs -> Labels] /\ queue' \in Seq(Jobs)
    BY <1>25, FreePageType, TypeOKLabels, Positions DEF MetricsFail
  <2> QED
    BY <1>25, <2>1 DEF MetricsFail, Labels
<1>26. ASSUME NEW e \in Epochs, ProcessMetrics(e) PROVE TypeOK'
  <2>1. pc' \in [Jobs -> Labels] /\ queue' \in Seq(Jobs)
    BY <1>26, FreePageType, TypeOKLabels, Positions DEF ProcessMetrics
  <2> QED
    BY <1>26, <2>1 DEF ProcessMetrics, Labels
<1>27. CASE UNCHANGED vars
  BY <1>27 DEF vars
<1>28. ASSUME NEW j \in Jobs, SetPage(j) PROVE TypeOK'
  <2>1. Entry(j) \in Labels
    BY Positions DEF Labels
  <2>2. pc' \in [Jobs -> Labels]
    BY <1>28, <2>1 DEF SetPage, Goto, Labels
  <2> QED
    BY <1>28, <2>2 DEF SetPage, Goto, Labels
<1>29. CASE DispatchFatal
  BY <1>29 DEF DispatchFatal
<1>30. ASSUME NEW e \in Epochs, MetricsFatal(e) PROVE TypeOK'
  BY <1>30 DEF MetricsFatal
<1> QED
  BY <1>1, <1>2, <1>3, <1>4, <1>5, <1>6, <1>7, <1>8, <1>9, <1>10, <1>11, <1>12, <1>13,
     <1>14, <1>15, <1>16, <1>17, <1>18, <1>19, <1>20, <1>21, <1>22, <1>23, <1>24, <1>25,
     <1>26, <1>27, <1>28, <1>29, <1>30, Positions
  DEF Next, Progress, Dispatcher, Run, DownloadBlock, ProcessBlock, DownloadState,
      ProcessTransition, Fault, Exited

LEMMA TypeInit == Init => TypeOK /\ SendInRange
<1> SUFFICES ASSUME Init PROVE TypeOK /\ SendInRange
  OBVIOUS
<1>1. next \in InitSlot..(FinalSlot + 1) /\ taken \in InitSlot..next
  BY Parameters DEF Init
<1>2. blockReqs = <<>> /\ stateReqs = <<>> /\ queue = <<>>
  BY DEF Init
<1>3. /\ blockReqs \in Seq(Slots \union {FinalizedSlot})
      /\ stateReqs \in Seq(Epochs) /\ queue \in Seq(Jobs)
  BY <1>2, EmptySeq
<1> QED
  BY <1>1, <1>3 DEF Init, TypeOK, SendInRange

\* Type correctness, for every range and with every fault.
THEOREM TypeCorrect == Spec => []TypeOK
<1>1. TypeOK /\ SendInRange /\ [Next]_vars => (TypeOK /\ SendInRange)'
  BY TypeStep, SendStep
<1> QED
  BY <1>1, TypeInit, PTL DEF Spec
-----------------------------------------------------------------------------
(* What a step does to the processers.                                     *)

TokenLabels ==
    {"granted", "lookup", "asleep", "persist", "barrier", "prev", "current", "next", "metrics"}

\* A processer that has its token goes on.
Moves(j, step) ==
    /\ HasToken(j) /\ step \in TokenLabels \ {"granted"}
    /\ pc' = [pc EXCEPT ![j] = step]
    /\ UNCHANGED <<queue, taken, next>>
    /\ \/ SetPage(j) /\ step = Entry(j)
       \/ /\ step \notin {"lookup", "barrier"}
          /\ \E s \in Slots : j = Block(s) /\ (BlockLookup(s) \/ BlockArrives(s))
       \/ /\ step \notin {"lookup", "barrier"}
          /\ \E e \in Epochs : j = Transition(e) /\ (EpochBarrier(e) \/ StateReceived(e))

\* It gives the page back.
Ends(j, end) ==
    /\ HasToken(j) /\ end \in {"done", "aborted"}
    /\ FreePage(j, end)
    /\ UNCHANGED <<taken, next>>
    /\ \/ end = "done" /\ \E s \in Slots : j = Block(s) /\ PersistBlock(s)
       \/ end = "done" /\ \E e \in Epochs : j = Transition(e) /\ ProcessMetrics(e)
       \/ end = "aborted" /\ (ctxDone \/ "metrics" \in Faults)

\* The steps that concern no processer.
Elsewhere == UNCHANGED <<pc, queue, taken>>

LEMMA StepKinds ==
    ASSUME TypeOK, [Next]_vars
    PROVE  \/ \E s \in Slots : TakeTask(s)
           \/ \E j \in Jobs : Acquire(j)
           \/ \E j \in Jobs, step \in TokenLabels : Moves(j, step)
           \/ \E j \in Jobs, end \in {"done", "aborted"} : Ends(j, end)
           \/ Elsewhere
<1> DEFINE Kinds == \/ \E j \in Jobs, step \in TokenLabels : Moves(j, step)
                    \/ \E j \in Jobs, end \in {"done", "aborted"} : Ends(j, end)
                    \/ Elsewhere
<1> USE DEF flow, flags, requests, locks
<1>1. ASSUME \/ Dispatcher \/ DownloaderEnd \/ Run \/ Close \/ Exited \/ UNCHANGED vars
             \/ DispatchFatal \/ \E e \in Epochs : MetricsFatal(e)
      PROVE  Elsewhere
  BY <1>1 DEF Dispatcher, DispatchCheck, DispatchClean, DispatchSend, DispatchEnd,
              DownloaderEnd, EndCheck, DispatchFatal, MetricsFatal, Run, RunStop, RunFinish,
              Close, Exited, vars, Elsewhere
<1>2. ASSUME NEW s \in Slots, RequestBlock(s) \/ BlockFails(s) PROVE Elsewhere
  BY <1>2 DEF RequestBlock, BlockFails, Elsewhere
<1>3. ASSUME NEW e \in Epochs,
             \/ RequestState(e) \/ StateArrives(e) \/ StateFails(e)
             \/ AddNewState(e) \/ AddNewStateCancelled(e)
      PROVE  Elsewhere
  BY <1>3 DEF RequestState, StateArrives, StateFails, AddNewState, AddNewStateCancelled,
              Elsewhere
<1>4. ASSUME NEW s \in Slots, BlockArrives(s) PROVE Kinds
  <2>1. Block(s) \in Jobs
    BY Positions
  <2>2. CASE pc[Block(s)] = "asleep"
    <3>1. HasToken(Block(s))
      BY <2>2 DEF HasToken
    <3>2. UNCHANGED <<queue, taken, next>>
      BY <1>4 DEF BlockArrives
    <3>3. pc' = [pc EXCEPT ![Block(s)] = "persist"] \/ pc' = pc
      BY <1>4, <2>2 DEF BlockArrives
    <3>4. pc' = [pc EXCEPT ![Block(s)] = "persist"] => Moves(Block(s), "persist")
      BY <1>4, <3>1, <3>2 DEF Moves, TokenLabels
    <3>5. pc' = pc => Elsewhere
      BY <3>2 DEF Elsewhere
    <3> QED
      BY <2>1, <3>3, <3>4, <3>5 DEF TokenLabels
  <2>3. CASE pc[Block(s)] # "asleep"
    <3>1. pc' = pc
      BY <1>4, <2>1, <2>3 DEF BlockArrives, TypeOK
    <3> QED
      BY <1>4, <3>1 DEF BlockArrives, Elsewhere
  <2> QED
    BY <2>2, <2>3
<1>5. ASSUME NEW s \in Slots, BlockLookup(s) PROVE Kinds
  <2>1. Block(s) \in Jobs /\ HasToken(Block(s))
    BY <1>5, Positions DEF BlockLookup, HasToken
  <2>2. \E step \in TokenLabels : Moves(Block(s), step)
    BY <1>5, <2>1 DEF BlockLookup, Goto, Moves, TokenLabels
  <2> QED
    BY <2>1, <2>2
<1>6. ASSUME NEW s \in Slots, BlockCancelled(s) PROVE Kinds
  <2>1. Block(s) \in Jobs /\ HasToken(Block(s))
    BY <1>6, Positions DEF BlockCancelled, HasToken
  <2>2. Ends(Block(s), "aborted")
    BY <1>6, <2>1 DEF BlockCancelled, Ends
  <2> QED
    BY <2>1, <2>2
<1>7. ASSUME NEW s \in Slots, PersistBlock(s) PROVE Kinds
  <2>1. Block(s) \in Jobs /\ HasToken(Block(s))
    BY <1>7, Positions DEF PersistBlock, HasToken
  <2>2. Ends(Block(s), "done")
    BY <1>7, <2>1 DEF PersistBlock, Ends
  <2> QED
    BY <2>1, <2>2
<1>8. ASSUME NEW e \in Epochs, EpochBarrier(e) \/ StateReceived(e) PROVE Kinds
  <2>1. Transition(e) \in Jobs /\ HasToken(Transition(e))
    BY <1>8, Positions DEF EpochBarrier, StateReceived, Reading, HasToken
  <2>2. \E step \in TokenLabels : Moves(Transition(e), step)
    <3>1. CASE EpochBarrier(e)
      BY <2>1, <3>1 DEF EpochBarrier, Goto, Moves, TokenLabels
    <3>2. CASE StateReceived(e)
      <4>1. pc[Transition(e)] \in {"prev", "current", "next"}
        BY <3>2 DEF StateReceived, Reading
      <4> QED
        BY <2>1, <3>2, <4>1 DEF StateReceived, Goto, Moves, TokenLabels
    <3> QED
      BY <1>8, <3>1, <3>2
  <2> QED
    BY <2>1, <2>2
<1>9. ASSUME NEW e \in Epochs, StateCancelled(e) \/ MetricsFail(e) PROVE Kinds
  <2>1. Transition(e) \in Jobs /\ HasToken(Transition(e))
    BY <1>9, Positions DEF StateCancelled, MetricsFail, Reading, HasToken
  <2>2. Ends(Transition(e), "aborted")
    BY <1>9, <2>1 DEF StateCancelled, MetricsFail, Ends
  <2> QED
    BY <2>1, <2>2
<1>10. ASSUME NEW e \in Epochs, ProcessMetrics(e) PROVE Kinds
  <2>1. Transition(e) \in Jobs /\ HasToken(Transition(e))
    BY <1>10, Positions DEF ProcessMetrics, HasToken
  <2>2. Ends(Transition(e), "done")
    BY <1>10, <2>1 DEF ProcessMetrics, Ends
  <2> QED
    BY <2>1, <2>2
<1>12. ASSUME NEW j \in Jobs, SetPage(j) PROVE Kinds
  <2>1. HasToken(j) /\ Entry(j) \in TokenLabels \ {"granted"}
    BY <1>12, Positions DEF SetPage, HasToken, TokenLabels
  <2>2. Moves(j, Entry(j))
    BY <1>12, <2>1 DEF SetPage, Goto, Moves
  <2> QED
    BY <2>1, <2>2
<1> HIDE DEF Kinds
<1>11. \/ Kinds \/ Elsewhere
       \/ (\E s \in Slots : TakeTask(s)) \/ (\E j \in Jobs : Acquire(j))
  <2> DEFINE Goal == \/ Kinds \/ Elsewhere
                     \/ (\E s \in Slots : TakeTask(s)) \/ (\E j \in Jobs : Acquire(j))
  <2>1. ASSUME NEW s \in Slots, DownloadBlock(s) \/ ProcessBlock(s) PROVE Goal
    BY <1>2, <1>4, <1>5, <1>6, <1>7, <1>12, <2>1, Positions DEF DownloadBlock, ProcessBlock
  <2>2. ASSUME NEW e \in Epochs, DownloadState(e) \/ ProcessTransition(e) PROVE Goal
    BY <1>3, <1>8, <1>9, <1>10, <1>12, <2>2, Positions DEF DownloadState, ProcessTransition
  <2>3. ASSUME Fault PROVE Goal
    BY <1>1, <1>2, <1>3, <1>9, <2>3 DEF Fault
  <2>4. ASSUME DownloaderEnd PROVE Goal
    BY <1>1, <2>4
  <2>5. ASSUME Dispatcher \/ Run \/ Exited \/ UNCHANGED vars PROVE Goal
    BY <1>1, <2>5
  <2>7. ASSUME NEW s \in Slots, TakeTask(s) PROVE Goal
    BY <2>7
  <2> HIDE DEF Goal
  <2>6. Goal
    BY <2>1, <2>2, <2>3, <2>4, <2>5, <2>7 DEF Next, Progress
  <2> QED
    BY <2>6 DEF Goal
<1> QED
  BY <1>11 DEF Kinds

-----------------------------------------------------------------------------
(* The order of the processers.                                            *)

\* It has not got its page yet.
Waiting(j) == pc[j] \in {"none", "fresh", "queued"}

\* Pages are given out in the order of the slots: no processer waits for one
\* while one with a higher slot has, or has had, its own.
InOrder ==
    /\ \A j \in Jobs : pc[j] = "none" <=> Pos(j) >= taken
    /\ \A j \in Jobs : pc[j] = "fresh" => Pos(j) = taken - 1
    /\ \A j, k \in Jobs : Waiting(j) /\ ~Waiting(k) => Pos(k) <= Pos(j)

\* The queue holds exactly those that wait in Acquire, in that order too, and
\* is empty as long as pages are free.
QueueInOrder ==
    /\ \A i \in 1..Len(queue) : pc[queue[i]] = "queued"
    /\ \A j \in Jobs : pc[j] = "queued" => \E i \in 1..Len(queue) : queue[i] = j
    /\ \A i, k \in 1..Len(queue) : i < k =>
           queue[i] # queue[k] /\ Pos(queue[i]) <= Pos(queue[k])
    /\ queue # <<>> => Held >= MaxPages

LEMMA QueueMembers ==
    ASSUME TypeOK
    PROVE  /\ Len(queue) \in Nat
           /\ \A i \in 1..Len(queue) : queue[i] \in Jobs /\ Pos(queue[i]) \in Nat
           /\ queue # <<>> => Len(queue) >= 1 /\ Head(queue) = queue[1]
BY Positions, LenProperties, ElementOfSeq, EmptySeq DEF TypeOK

\* What FreePage does when some processer waits.
LEMMA HandOver ==
    ASSUME TypeOK, QueueInOrder, NEW j \in Jobs, NEW end \in {"done", "aborted"}, Ends(j, end),
           queue # <<>>
    PROVE  LET h == Head(queue) IN
           /\ h \in Jobs /\ h = queue[1] /\ pc[h] = "queued" /\ h # j
           /\ pc' = [pc EXCEPT ![j] = end, ![h] = "granted"]
           /\ queue' = Tail(queue) /\ Len(queue') = Len(queue) - 1
           /\ \A i \in 1..Len(queue') : queue'[i] = queue[i + 1]
           /\ \A i \in 1..Len(queue) : i # 1 => queue[i] = queue'[i - 1]
<1> DEFINE h == Head(queue)
<1>1. h \in Jobs /\ h = queue[1] /\ Len(queue) \in Nat /\ Len(queue) >= 1
  BY QueueMembers
<1>2. pc[h] = "queued" /\ h # j
  BY <1>1 DEF QueueInOrder, Ends, HasToken
<1>4. pc' = [pc EXCEPT ![j] = end, ![h] = "granted"] /\ queue' = Tail(queue)
  BY DEF Ends, FreePage
<1>5. Len(queue') = Len(queue) - 1 /\ \A i \in 1..Len(queue') : queue'[i] = queue[i + 1]
  BY <1>4, HeadTailProperties DEF TypeOK
<1>6. \A i \in 1..Len(queue) : i # 1 => queue[i] = queue'[i - 1]
  <2> SUFFICES ASSUME NEW i \in 1..Len(queue), i # 1 PROVE queue[i] = queue'[i - 1]
    OBVIOUS
  <2>1. i - 1 \in 1..Len(queue') /\ (i - 1) + 1 = i
    BY <1>1, <1>5
  <2> QED
    BY <1>5, <2>1
<1> QED
  BY <1>1, <1>2, <1>4, <1>5, <1>6

\* The jobs that a slot starts are those of its position.
LEMMA TaskJobs ==
    ASSUME TypeOK, NEW s \in Slots, TakeTask(s)
    PROVE  /\ \A j \in Jobs : pc'[j] = IF Pos(j) = s THEN "fresh" ELSE pc[j]
           /\ DOMAIN pc' = Jobs
           /\ s = taken /\ taken' = taken + 1 /\ queue' = queue
<1> DEFINE e == EpochOf(s)
<1>1. s \in Nat /\ pc \in [Jobs -> Labels]
  BY Positions, TypeOKLabels
<1>2. \A d \in Epochs : LastSlot(d) = s => d = e
  <2> SUFFICES ASSUME NEW d \in Epochs, LastSlot(d) = s PROVE d = e
    OBVIOUS
  <2>1. /\ d \in Nat /\ FirstSlot(d) \in Int
        /\ LastSlot(d) = FirstSlot(d) + SlotsPerEpoch - 1
    BY EpochsInRange
  <2>2. FirstSlot(d) <= s /\ s < FirstSlot(d) + SlotsPerEpoch
    BY <1>1, <2>1, Parameters
  <2> QED
    BY <1>1, <2>1, <2>2, EpochUnique
<1>3. /\ DOMAIN pc' = Jobs
      /\ \A j \in Jobs : pc'[j] = IF j = Block(s) \/ (s = LastSlot(e) /\ j = Transition(e))
                                  THEN "fresh" ELSE pc[j]
  BY <1>1 DEF TakeTask
<1>4. \A j \in Jobs : Pos(j) = s <=> j = Block(s) \/ (s = LastSlot(e) /\ j = Transition(e))
  <2> SUFFICES ASSUME NEW j \in Jobs
               PROVE  Pos(j) = s <=> j = Block(s) \/ (s = LastSlot(e) /\ j = Transition(e))
    OBVIOUS
  <2>1. CASE \E r \in Slots : j = Block(r)
    <3>1. PICK r \in Slots : j = Block(r)
      BY <2>1
    <3>2. Pos(j) = r
      BY <3>1, Positions
    <3>3. j # Transition(e) /\ (Block(r) = Block(s) <=> r = s)
      BY <3>1 DEF Block, Transition
    <3> QED
      BY <3>1, <3>2, <3>3
  <2>2. CASE \E d \in Epochs : j = Transition(d)
    <3>1. PICK d \in Epochs : j = Transition(d)
      BY <2>2
    <3>2. Pos(j) = LastSlot(d)
      BY <3>1, Positions
    <3>3. j # Block(s) /\ (Transition(d) = Transition(e) <=> d = e)
      BY <3>1 DEF Block, Transition
    <3> QED
      BY <1>2, <3>1, <3>2, <3>3
  <2> QED
    BY <2>1, <2>2, Positions
<1>5. s = taken /\ taken' = taken + 1 /\ queue' = queue
  BY DEF TakeTask
<1> HIDE DEF e
<1> QED
  BY <1>3, <1>4, <1>5

LEMMA HeldCount ==
    ASSUME NEW S, S = {j \in Jobs : HasToken(j)},
           NEW T, T = {j \in Jobs : HasToken(j)'}
    PROVE  /\ S = T => Held' = Held
           /\ \A j \in S, h \in Jobs \ S : T = (S \ {j}) \union {h} => Held' = Held
<1>1. Held = Cardinality(S) /\ Held' = Cardinality(T)
  BY DEF Held
<1>2. ASSUME NEW j \in S, NEW h \in Jobs \ S, T = (S \ {j}) \union {h}
      PROVE  Cardinality(T) = Cardinality(S)
  <2>1. IsFiniteSet(S) /\ Cardinality(S) \in Nat
    BY TokensFinite, FS_CardinalityType
  <2>2. IsFiniteSet(S \ {j}) /\ Cardinality(S \ {j}) = Cardinality(S) - 1
    BY <2>1, FS_RemoveElement
  <2>3. Cardinality(T) = Cardinality(S \ {j}) + 1
    BY <1>2, <2>2, FS_AddElement
  <2> QED
    BY <2>1, <2>2, <2>3
<1> QED
  BY <1>1, <1>2

LEMMA QueueStep ==
    ASSUME TypeOK, InOrder, QueueInOrder, Prompt = TRUE, [Next]_vars
    PROVE  QueueInOrder'
<1> DEFINE S == {j \in Jobs : HasToken(j)}
           T == {j \in Jobs : HasToken(j)'}
<1>0. pc \in [Jobs -> Labels] /\ queue \in Seq(Jobs) /\ taken \in Nat
  BY TypeOKLabels, Parameters DEF TypeOK
<1>1. ASSUME NEW s \in Slots, TakeTask(s) PROVE QueueInOrder'
  <2>1. /\ \A j \in Jobs : pc'[j] = IF Pos(j) = s THEN "fresh" ELSE pc[j]
        /\ s = taken /\ queue' = queue
    BY <1>1, TaskJobs
  <2>2. \A j \in Jobs : Pos(j) = s => pc[j] = "none"
    BY <1>0, <2>1 DEF InOrder
  <2>3. S = T
    BY <2>1, <2>2 DEF HasToken
  <2>4. Held' = Held
    BY <2>3, HeldCount
  <2>5. \A j \in Jobs : pc'[j] = "queued" <=> pc[j] = "queued"
    BY <2>1, <2>2
  <2> QED
    BY <2>1, <2>4, <2>5, QueueMembers DEF QueueInOrder
<1>2. ASSUME NEW j \in Jobs, Acquire(j) PROVE QueueInOrder'
  <2>1. CASE Tokens > 0
    <3>1. queue = <<>> /\ queue' = <<>>
      BY <1>2, <2>1, TokensFinite, Parameters DEF Acquire, QueueInOrder
    <3>2. pc' = [pc EXCEPT ![j] = "granted"]
      BY <1>2, <2>1 DEF Acquire
    <3>3. \A k \in Jobs : pc'[k] # "queued"
      <4>1. \A k \in Jobs : pc[k] # "queued"
        BY <3>1, EmptySeq DEF QueueInOrder
      <4> QED
        BY <1>0, <3>2, <4>1
    <3>4. Len(queue') = 0
      BY <3>1, EmptySeq
    <3> QED
      BY <3>1, <3>3, <3>4 DEF QueueInOrder
  <2>2. CASE ~(Tokens > 0)
    <3>1. pc[j] = "fresh" /\ pc' = [pc EXCEPT ![j] = "queued"] /\ queue' = Append(queue, j)
      BY <1>2, <2>2 DEF Acquire
    <3> DEFINE n == Len(queue)
    <3>2. /\ n \in Nat /\ Len(queue') = n + 1
          /\ \A i \in 1..n : queue'[i] = queue[i]
          /\ queue'[n + 1] = j
      BY <1>0, <3>1, AppendProperties, LenProperties
    <3>3. Held' = Held
      <4>1. S = T
        BY <1>0, <3>1 DEF HasToken
      <4> QED
        BY <4>1, HeldCount
    <3>4. Held >= MaxPages
      BY <2>2, TokensFinite, Parameters
    <3>5. \A i \in 1..n : /\ queue[i] \in Jobs /\ pc[queue[i]] = "queued"
                          /\ queue[i] # j /\ Pos(queue[i]) <= Pos(j)
      <4> SUFFICES ASSUME NEW i \in 1..n
                   PROVE  /\ queue[i] \in Jobs /\ pc[queue[i]] = "queued"
                          /\ queue[i] # j /\ Pos(queue[i]) <= Pos(j)
        OBVIOUS
      <4>1. queue[i] \in Jobs /\ pc[queue[i]] = "queued" /\ queue[i] # j
        BY <3>1, QueueMembers DEF QueueInOrder
      <4>2. Pos(queue[i]) < taken /\ Pos(j) = taken - 1
        BY <1>0, <3>1, <4>1, Positions DEF InOrder
      <4> QED
        BY <1>0, <4>1, <4>2, Positions
    <3>6. \A i \in 1..(n + 1) : i \in 1..n \/ i = n + 1
      BY <3>2
    <3> HIDE DEF n
    <3>7. \A i \in 1..(n + 1) : pc'[queue'[i]] = "queued"
      BY <1>0, <3>1, <3>2, <3>5, <3>6
    <3>8. \A k \in Jobs : pc'[k] = "queued" => \E i \in 1..(n + 1) : queue'[i] = k
      <4> SUFFICES ASSUME NEW k \in Jobs, pc'[k] = "queued"
                   PROVE  \E i \in 1..(n + 1) : queue'[i] = k
        OBVIOUS
      <4>1. CASE k = j
        BY <3>2, <4>1
      <4>2. CASE k # j
        <5>1. pc[k] = "queued"
          BY <1>0, <3>1, <4>2
        <5>2. PICK i \in 1..n : queue[i] = k
          BY <5>1 DEF QueueInOrder, n
        <5> QED
          BY <3>2, <5>2
      <4> QED
        BY <4>1, <4>2
    <3>9. \A i, k \in 1..(n + 1) : i < k =>
              queue'[i] # queue'[k] /\ Pos(queue'[i]) <= Pos(queue'[k])
      <4> SUFFICES ASSUME NEW i \in 1..(n + 1), NEW k \in 1..(n + 1), i < k
                   PROVE  queue'[i] # queue'[k] /\ Pos(queue'[i]) <= Pos(queue'[k])
        OBVIOUS
      <4>1. i \in 1..n
        BY <3>2
      <4>2. CASE k = n + 1
        BY <3>2, <3>5, <4>1, <4>2
      <4>3. CASE k \in 1..n
        <5>1. queue[i] # queue[k] /\ Pos(queue[i]) <= Pos(queue[k])
          BY <4>1, <4>3 DEF QueueInOrder, n
        <5> QED
          BY <3>2, <4>1, <4>3, <5>1
      <4> QED
        BY <3>6, <4>2, <4>3
    <3> QED
      BY <3>2, <3>3, <3>4, <3>7, <3>8, <3>9 DEF QueueInOrder
  <2> QED
    BY <2>1, <2>2
<1>3. ASSUME NEW j \in Jobs, NEW step \in TokenLabels, Moves(j, step) PROVE QueueInOrder'
  <2>1. pc' = [pc EXCEPT ![j] = step] /\ queue' = queue /\ pc[j] # "queued" /\ step # "queued"
    BY <1>3 DEF Moves, HasToken, TokenLabels
  <2>2. Held' = Held
    <3>1. S = T
      BY <1>0, <1>3, <2>1 DEF Moves, HasToken, TokenLabels
    <3> QED
      BY <3>1, HeldCount
  <2>3. \A k \in Jobs : pc'[k] = "queued" <=> pc[k] = "queued"
    BY <1>0, <2>1
  <2> QED
    BY <2>1, <2>2, <2>3, QueueMembers DEF QueueInOrder
<1>4. ASSUME NEW j \in Jobs, NEW end \in {"done", "aborted"}, Ends(j, end) PROVE QueueInOrder'
  <2>1. CASE queue = <<>>
    <3>1. pc' = [pc EXCEPT ![j] = end] /\ queue' = <<>>
      BY <1>4, <2>1 DEF Ends, FreePage
    <3>2. \A k \in Jobs : pc'[k] # "queued"
      <4>1. \A k \in Jobs : pc[k] # "queued"
        BY <2>1, EmptySeq DEF QueueInOrder
      <4> QED
        BY <1>0, <3>1, <4>1
    <3>3. Len(queue') = 0
      BY <3>1, EmptySeq
    <3> QED
      BY <3>1, <3>2, <3>3 DEF QueueInOrder
  <2>2. CASE queue # <<>>
    <3> DEFINE h == Head(queue)
               n == Len(queue)
    <3>1. /\ h \in Jobs /\ h = queue[1] /\ pc[h] = "queued" /\ h # j
          /\ pc' = [pc EXCEPT ![j] = end, ![h] = "granted"]
          /\ Len(queue') = n - 1
          /\ \A i \in 1..Len(queue') : queue'[i] = queue[i + 1]
          /\ \A i \in 1..n : i # 1 => queue[i] = queue'[i - 1]
      BY <1>4, <2>2, HandOver
    <3>2. n \in Nat /\ n >= 1
      BY <2>2, QueueMembers
    <3> HIDE DEF h, n
    <3>3. Held' = Held
      <4>1. j \in S /\ h \in Jobs \ S
        BY <1>4, <3>1 DEF Ends, HasToken
      <4>2. T = (S \ {j}) \union {h}
        BY <1>0, <1>4, <3>1 DEF HasToken, TokenLabels
      <4> QED
        BY <4>1, <4>2, HeldCount
    <3>4. Held >= MaxPages
      BY <2>2 DEF QueueInOrder
    <3>5. \A i \in 1..(n - 1) : i \in 1..n /\ i + 1 \in 1..n /\ queue'[i] = queue[i + 1]
      BY <3>1, <3>2
    <3>6. \A i \in 1..(n - 1) : pc'[queue'[i]] = "queued"
      <4> SUFFICES ASSUME NEW i \in 1..(n - 1) PROVE pc'[queue'[i]] = "queued"
        OBVIOUS
      <4>1. queue'[i] = queue[i + 1] /\ i + 1 \in 1..n /\ 1 \in 1..n /\ 1 < i + 1
        BY <3>2, <3>5
      <4>2. queue[i + 1] \in Jobs /\ pc[queue[i + 1]] = "queued" /\ queue[1] # queue[i + 1]
        BY <4>1, QueueMembers DEF QueueInOrder, n
      <4>3. queue[i + 1] # j
        BY <1>4, <4>2 DEF Ends, HasToken
      <4> QED
        BY <1>0, <3>1, <4>1, <4>2, <4>3
    <3>7. \A k \in Jobs : pc'[k] = "queued" => \E i \in 1..(n - 1) : queue'[i] = k
      <4> SUFFICES ASSUME NEW k \in Jobs, pc'[k] = "queued"
                   PROVE  \E i \in 1..(n - 1) : queue'[i] = k
        OBVIOUS
      <4>1. pc[k] = "queued" /\ k # h
        BY <1>0, <3>1 DEF TokenLabels
      <4>2. PICK i \in 1..n : queue[i] = k
        BY <4>1 DEF QueueInOrder, n
      <4>3. i # 1
        BY <3>1, <4>1, <4>2
      <4>4. i - 1 \in 1..(n - 1) /\ queue'[i - 1] = k
        BY <3>1, <3>2, <4>2, <4>3
      <4> QED
        BY <4>4
    <3>8. \A i, k \in 1..(n - 1) : i < k =>
              queue'[i] # queue'[k] /\ Pos(queue'[i]) <= Pos(queue'[k])
      <4> SUFFICES ASSUME NEW i \in 1..(n - 1), NEW k \in 1..(n - 1), i < k
                   PROVE  queue'[i] # queue'[k] /\ Pos(queue'[i]) <= Pos(queue'[k])
        OBVIOUS
      <4>1. /\ i + 1 \in 1..n /\ k + 1 \in 1..n /\ i + 1 < k + 1
            /\ queue'[i] = queue[i + 1] /\ queue'[k] = queue[k + 1]
        BY <3>2, <3>5
      <4> QED
        BY <4>1 DEF QueueInOrder, n
    <3> QED
      BY <3>1, <3>3, <3>4, <3>6, <3>7, <3>8 DEF QueueInOrder
  <2> QED
    BY <2>1, <2>2
<1>5. CASE Elsewhere
  BY <1>5 DEF Elsewhere, QueueInOrder, Held, HasToken
<1> QED
  BY <1>1, <1>2, <1>3, <1>4, <1>5, StepKinds

LEMMA OrderStep ==
    ASSUME TypeOK, InOrder, QueueInOrder, Prompt = TRUE, [Next]_vars
    PROVE  InOrder'
<1>0. pc \in [Jobs -> Labels] /\ taken \in Nat /\ \A j \in Jobs : Pos(j) \in Nat
  BY TypeOKLabels, Parameters, Positions DEF TypeOK
\* One processer more gets its page, and none that waits stands before it.
<1>a. ASSUME NEW h \in Jobs, pc[h] \in {"fresh", "queued"}, ~Waiting(h)', taken' = taken,
             \A k \in Jobs : k # h => (Waiting(k)' <=> Waiting(k)) /\ (pc'[k] \in {"none", "fresh"}
                                          => pc'[k] = pc[k]) /\ (pc[k] = "none" => pc'[k] = "none"),
             \A k \in Jobs : k # h /\ Waiting(k) => Pos(h) <= Pos(k)
      PROVE  InOrder'
  <2>1. \A j \in Jobs : pc'[j] = "none" <=> Pos(j) >= taken'
    BY <1>a DEF InOrder, Waiting
  <2>2. \A j \in Jobs : pc'[j] = "fresh" => Pos(j) = taken' - 1
    BY <1>a DEF InOrder, Waiting
  <2>3. ASSUME NEW j \in Jobs, NEW k \in Jobs, Waiting(j)', ~Waiting(k)'
        PROVE  Pos(k) <= Pos(j)
    <3>1. j # h /\ Waiting(j)
      BY <1>a, <2>3
    <3>2. CASE k = h
      BY <1>a, <3>1, <3>2
    <3>3. CASE k # h
      BY <1>a, <2>3, <3>1, <3>3 DEF InOrder
    <3> QED
      BY <3>2, <3>3
  <2> QED
    BY <2>1, <2>2, <2>3 DEF InOrder
<1>1. ASSUME NEW s \in Slots, TakeTask(s) PROVE InOrder'
  <2>1. /\ \A j \in Jobs : pc'[j] = IF Pos(j) = s THEN "fresh" ELSE pc[j]
        /\ s = taken /\ taken' = taken + 1
    BY <1>1, TaskJobs
  <2>2. \A j \in Jobs : pc[j] # "fresh"
    BY <1>1 DEF TakeTask, Settled
  <2>3. \A j \in Jobs : pc'[j] = "none" <=> Pos(j) >= taken'
    BY <1>0, <2>1 DEF InOrder
  <2>4. \A j \in Jobs : pc'[j] = "fresh" => Pos(j) = taken' - 1
    BY <1>0, <2>1, <2>2 DEF InOrder
  <2>5. \A j \in Jobs : Waiting(j)' <=> Waiting(j)
    BY <1>0, <2>1 DEF InOrder, Waiting
  <2> QED
    BY <2>3, <2>4, <2>5 DEF InOrder
<1>2. ASSUME NEW j \in Jobs, Acquire(j) PROVE InOrder'
  <2>0. taken' = taken /\ pc[j] = "fresh"
    BY <1>2 DEF Acquire, flow
  <2>1. CASE Tokens > 0
    <3>1. pc' = [pc EXCEPT ![j] = "granted"]
      BY <1>2, <2>1 DEF Acquire
    <3>2. queue = <<>>
      BY <2>1, TokensFinite, Parameters DEF QueueInOrder
    <3>3. \A k \in Jobs : pc[k] # "queued"
      BY <3>2, EmptySeq DEF QueueInOrder
    <3>4. \A k \in Jobs : k # j /\ Waiting(k) => Pos(j) <= Pos(k)
      BY <1>0, <2>0, <3>3 DEF InOrder, Waiting
    <3>5. ~Waiting(j)' /\ \A k \in Jobs : k # j => pc'[k] = pc[k]
      BY <1>0, <3>1 DEF Waiting, TokenLabels
    <3> QED
      BY <1>a, <2>0, <3>4, <3>5 DEF Waiting
  <2>2. CASE ~(Tokens > 0)
    <3>1. pc' = [pc EXCEPT ![j] = "queued"]
      BY <1>2, <2>2 DEF Acquire
    <3> QED
      BY <1>0, <2>0, <3>1 DEF InOrder, Waiting
  <2> QED
    BY <2>1, <2>2
<1>3. ASSUME NEW j \in Jobs, NEW step \in TokenLabels, Moves(j, step) PROVE InOrder'
  <2>1. pc' = [pc EXCEPT ![j] = step] /\ taken' = taken /\ ~Waiting(j)
        /\ step \notin {"none", "fresh", "queued"}
    BY <1>3 DEF Moves, HasToken, TokenLabels, Waiting
  <2> QED
    BY <1>0, <2>1 DEF InOrder, Waiting
<1>4. ASSUME NEW j \in Jobs, NEW end \in {"done", "aborted"}, Ends(j, end) PROVE InOrder'
  <2>0. taken' = taken /\ ~Waiting(j)
    BY <1>4 DEF Ends, HasToken, Waiting
  <2>1. CASE queue = <<>>
    <3>1. pc' = [pc EXCEPT ![j] = end]
      BY <1>4, <2>1 DEF Ends, FreePage
    <3> QED
      BY <1>0, <2>0, <3>1 DEF InOrder, Waiting
  <2>2. CASE queue # <<>>
    <3>1. PICK h \in Jobs :
            /\ h = queue[1] /\ pc[h] = "queued" /\ h # j
            /\ pc' = [pc EXCEPT ![j] = end, ![h] = "granted"]
      BY <1>4, <2>2, HandOver
    <3>2. Len(queue) \in Nat /\ 1 \in 1..Len(queue)
      BY <2>2, QueueMembers
    <3>3. ASSUME NEW k \in Jobs, k # h, Waiting(k) PROVE Pos(h) <= Pos(k)
      <4>1. Pos(h) < taken
        BY <1>0, <3>1 DEF InOrder
      <4>2. CASE pc[k] = "none"
        BY <1>0, <3>1, <3>3, <4>1, <4>2 DEF InOrder
      <4>3. CASE pc[k] = "fresh"
        BY <1>0, <3>1, <3>3, <4>1, <4>3 DEF InOrder
      <4>4. CASE pc[k] = "queued"
        <5>1. PICK i \in 1..Len(queue) : queue[i] = k
          BY <4>4 DEF QueueInOrder
        <5>2. 1 < i
          BY <3>1, <3>2, <3>3, <5>1
        <5> QED
          BY <3>1, <3>2, <5>1, <5>2 DEF QueueInOrder
      <4> QED
        BY <3>3, <4>2, <4>3, <4>4 DEF Waiting
    <3>4. pc'[h] = "granted" /\ pc'[j] = end /\ \A k \in Jobs : k # h /\ k # j => pc'[k] = pc[k]
      BY <1>0, <1>4, <3>1
    <3>5. ~Waiting(h)' /\ ~Waiting(j)'
      BY <1>4, <3>1, <3>4 DEF Waiting, TokenLabels
    <3>6. \A k \in Jobs : k # h => (Waiting(k)' <=> Waiting(k))
              /\ (pc'[k] \in {"none", "fresh"} => pc'[k] = pc[k])
              /\ (pc[k] = "none" => pc'[k] = "none")
      BY <1>4, <2>0, <3>4, <3>5 DEF Waiting
    <3>7. pc[h] \in {"fresh", "queued"} /\ taken' = taken /\ h \in Jobs
      BY <2>0, <3>1
    <3> QED
      BY <1>a, <3>3, <3>5, <3>6, <3>7
  <2> QED
    BY <2>1, <2>2
<1>5. CASE Elsewhere
  BY <1>5 DEF Elsewhere, InOrder, Waiting
<1> QED
  BY <1>1, <1>2, <1>3, <1>4, <1>5, StepKinds
-----------------------------------------------------------------------------
(* Epochs in turn.                                                         *)

\* A job that has finished stays finished, as it did.
LEMMA FinishedStays ==
    ASSUME TypeOK, InOrder, QueueInOrder, Prompt = TRUE, [Next]_vars,
           NEW j \in Jobs, pc[j] \in {"done", "aborted"}
    PROVE  pc'[j] = pc[j]
<1>0. pc \in [Jobs -> Labels] /\ taken \in Nat /\ \A k \in Jobs : Pos(k) \in Nat
  BY TypeOKLabels, Parameters, Positions DEF TypeOK
<1>1. ASSUME NEW s \in Slots, TakeTask(s) PROVE pc'[j] = pc[j]
  BY <1>0, <1>1, TaskJobs DEF InOrder
<1>2. ASSUME NEW k \in Jobs, Acquire(k) PROVE pc'[j] = pc[j]
  BY <1>0, <1>2 DEF Acquire
<1>3. ASSUME NEW k \in Jobs, NEW step \in TokenLabels, Moves(k, step) PROVE pc'[j] = pc[j]
  BY <1>0, <1>3 DEF Moves, HasToken
<1>4. ASSUME NEW k \in Jobs, NEW end \in {"done", "aborted"}, Ends(k, end) PROVE pc'[j] = pc[j]
  <2>1. j # k
    BY <1>4 DEF Ends, HasToken
  <2>2. CASE queue = <<>>
    BY <1>0, <1>4, <2>1, <2>2 DEF Ends, FreePage
  <2>3. CASE queue # <<>>
    <3>1. PICK h \in Jobs : pc[h] = "queued" /\ pc' = [pc EXCEPT ![k] = end, ![h] = "granted"]
      BY <1>4, <2>3, HandOver
    <3> QED
      BY <1>0, <2>1, <3>1
  <2> QED
    BY <2>2, <2>3
<1>5. CASE Elsewhere
  BY <1>5 DEF Elsewhere
<1> QED
  BY <1>1, <1>2, <1>3, <1>4, <1>5, StepKinds

\* How a processer comes past the barrier, and to its end.
LEMMA HowItGoesOn ==
    ASSUME TypeOK, InOrder, QueueInOrder, Prompt = TRUE, [Next]_vars,
           NEW e \in Epochs, pc'[Transition(e)] # pc[Transition(e)]
    PROVE  /\ Reading(e)' \/ pc'[Transition(e)] = "metrics" => EpochBarrier(e) \/ StateReceived(e)
           /\ pc'[Transition(e)] = "done" => ProcessMetrics(e)
           /\ pc'[Transition(e)] = "aborted" => ctxDone \/ "metrics" \in Faults
<1> DEFINE j == Transition(e)
<1>0. pc \in [Jobs -> Labels] /\ j \in Jobs
  BY TypeOKLabels, Positions
<1>1. ASSUME NEW s \in Slots, TakeTask(s) PROVE pc'[j] = "fresh"
  BY <1>0, <1>1, TaskJobs
<1>2. ASSUME NEW k \in Jobs, Acquire(k) PROVE pc'[j] \in {"queued", "granted"}
  BY <1>0, <1>2, Positions DEF Acquire
<1>3. ASSUME NEW k \in Jobs, NEW step \in TokenLabels, Moves(k, step)
      PROVE  /\ pc'[j] \in TokenLabels
             /\ pc'[j] = "barrier" \/ EpochBarrier(e) \/ StateReceived(e)
  <2>1. k = j /\ pc'[j] = step
    BY <1>0, <1>3 DEF Moves
  <2>2. \A s \in Slots : k # Block(s)
    BY <2>1, Positions
  <2>3. \A d \in Epochs : Transition(d) = k => d = e
    BY <2>1 DEF Transition
  <2> QED
    BY <1>3, <2>1, <2>2, <2>3, Positions DEF Moves
<1>4. ASSUME NEW k \in Jobs, NEW end \in {"done", "aborted"}, Ends(k, end)
      PROVE  \/ pc'[j] = "granted"
             \/ pc'[j] = "done" /\ ProcessMetrics(e)
             \/ pc'[j] = "aborted" /\ (ctxDone \/ "metrics" \in Faults)
  <2>1. pc'[j] = "granted" \/ (k = j /\ pc'[j] = end)
    <3>1. CASE queue = <<>>
      BY <1>0, <1>4, <3>1 DEF Ends, FreePage
    <3>2. CASE queue # <<>>
      <4>1. PICK h \in Jobs : h # k /\ pc' = [pc EXCEPT ![k] = end, ![h] = "granted"]
        BY <1>4, <3>2, HandOver
      <4> QED
        BY <1>0, <4>1, Positions
    <3> QED
      BY <3>1, <3>2
  <2>2. \A d \in Epochs : Transition(d) = j => d = e
    BY DEF Transition
  <2>3. \A s \in Slots : j # Block(s)
    BY Positions
  <2> QED
    BY <1>4, <2>1, <2>2, <2>3 DEF Ends
<1>5. CASE Elsewhere
  BY <1>5 DEF Elsewhere
<1> QED
  BY <1>1, <1>2, <1>3, <1>4, <1>5, StepKinds DEF Reading, TokenLabels

LEMMA InTurnStep ==
    ASSUME TypeOK, InOrder, QueueInOrder, Prompt = TRUE, EpochsInTurn, [Next]_vars
    PROVE  EpochsInTurn'
<1> SUFFICES ASSUME NEW e \in Epochs, e - 1 \in Epochs,
                    Reading(e)' \/ pc'[Transition(e)] = "metrics"
             PROVE  pc'[Transition(e - 1)] \in {"done", "aborted"}
  BY DEF EpochsInTurn
<1>0. Transition(e) \in Jobs /\ Transition(e - 1) \in Jobs
  BY Positions
<1>1. pc[Transition(e - 1)] \in {"done", "aborted"}
  <2>1. CASE Reading(e) \/ pc[Transition(e)] = "metrics"
    BY <2>1 DEF EpochsInTurn
  <2>2. CASE ~(Reading(e) \/ pc[Transition(e)] = "metrics")
    <3>1. pc'[Transition(e)] # pc[Transition(e)]
      BY <2>2 DEF Reading
    <3>2. EpochBarrier(e)
      BY <2>2, <3>1, HowItGoesOn DEF StateReceived
    <3>3. pc[Transition(e)] = "barrier" /\ ~HasToken(Transition(e - 1))
      BY <1>0, <3>2, AllShown DEF EpochBarrier, Inactive
    <3>4. ~Waiting(Transition(e - 1))
      <4> SUFFICES ASSUME Waiting(Transition(e - 1)) PROVE FALSE
        OBVIOUS
      <4>1. LastSlot(e) <= LastSlot(e - 1)
        BY <1>0, <3>3, Positions DEF InOrder, Waiting
      <4>2. /\ LastSlot(e) = FirstSlot(e) + SlotsPerEpoch - 1
            /\ LastSlot(e - 1) = FirstSlot(e - 1) + SlotsPerEpoch - 1
            /\ FirstSlot(e) \in Int /\ FirstSlot(e - 1) \in Int
            /\ e \in Int /\ e - 1 \in Int
        BY EpochsInRange
      <4>3. FirstSlot(e - 1) + SlotsPerEpoch <= FirstSlot(e)
        BY <4>2, EpochsApart
      <4> QED
        BY <4>1, <4>2, <4>3, Parameters
    <3> QED
      BY <1>0, <3>3, <3>4 DEF HasToken, Waiting
  <2> QED
    BY <2>1, <2>2
<1> QED
  BY <1>0, <1>1, FinishedStays

\* When the downloader gives up waiting no processer is under way.
Quiet == dl = "done" => \A j \in Jobs : pc[j] \in {"none", "done", "aborted"}

LEMMA QuietStep ==
    ASSUME TypeOK, InOrder, QueueInOrder, Prompt = TRUE, Quiet, [Next]_vars
    PROVE  Quiet'
<1>0. pc \in [Jobs -> Labels]
  BY TypeOKLabels
<1>1. CASE dl = "done"
  <2>1. \A j \in Jobs : pc[j] \in {"none", "done", "aborted"}
    BY <1>1 DEF Quiet
  <2>2. pc' = pc
    <3>1. \A s \in Slots : ~TakeTask(s)
      BY <1>1 DEF TakeTask
    <3>2. \A j \in Jobs : ~Acquire(j)
      BY <2>1 DEF Acquire
    <3>3. \A j \in Jobs : ~HasToken(j)
      BY <2>1 DEF HasToken
    <3> QED
      BY <3>1, <3>2, <3>3, StepKinds DEF Moves, Ends, Elsewhere
  <2> QED
    BY <2>1, <2>2 DEF Quiet
<1>2. CASE dl # "done" /\ dl' = "done"
  <2>1. dl = "pages" /\ Settled /\ ActivePages = 0 /\ pc' = pc
    BY <1>2
    DEF Next, Progress, Dispatcher, DispatchCheck, DispatchClean, DispatchSend, DispatchEnd,
        Run, DownloadBlock, ProcessBlock, DownloadState, flow,
        ProcessTransition, Fault, Exited, vars, TakeTask, DownloaderEnd, EndCheck, RunStop,
        RunFinish, Close, RequestBlock, BlockArrives, BlockFails, RequestState, StateArrives,
        StateFails, AddNewState, AddNewStateCancelled, Acquire, SetPage, BlockLookup,
        BlockCancelled, PersistBlock, EpochBarrier, StateReceived, StateCancelled, MetricsFail,
        ProcessMetrics, DispatchFatal, MetricsFatal
  <2>2. \A j \in Jobs : pc[j] \notin {"fresh", "granted"}
    BY <2>1 DEF Settled
  <2>3. Held = 0 /\ \A j \in Jobs : ~HasToken(j)
    <3>1. Held = 0
      BY <2>1, <2>2, AllShown DEF Registered
    <3> QED
      BY <3>1, TokensFinite, FS_EmptySet DEF Held
  <2>4. \A j \in Jobs : pc[j] # "queued"
    <3>1. queue = <<>>
      BY <2>3, Parameters DEF QueueInOrder
    <3> QED
      BY <3>1, EmptySeq DEF QueueInOrder
  <2> QED
    BY <1>0, <2>1, <2>2, <2>3, <2>4 DEF Quiet, HasToken, Labels
<1> QED
  BY <1>1, <1>2 DEF Quiet

PipelineInv ==
    /\ TypeOK /\ SendInRange /\ InOrder /\ QueueInOrder
    /\ EpochsInTurn /\ Quiet

LEMMA PipelineInvInit == Init => PipelineInv
<1> SUFFICES ASSUME Init PROVE PipelineInv
  OBVIOUS
<1>1. TypeOK /\ SendInRange
  BY TypeInit
<1>2. InOrder
  <2>1. \A j \in Jobs : pc[j] = "none"
    BY DEF Init
  <2>2. \A j \in Jobs : Pos(j) >= taken
    BY Positions, Parameters DEF Init, Slots
  <2> QED
    BY <2>1, <2>2 DEF InOrder, Waiting
<1>3. QueueInOrder
  <2>1. queue = <<>> /\ Len(queue) = 0 /\ \A j \in Jobs : pc[j] = "none"
    BY EmptySeq DEF Init
  <2> QED
    BY <2>1 DEF QueueInOrder
<1>4. EpochsInTurn /\ Quiet
  <2>1. dl = "running" /\ \A e \in Epochs : pc[Transition(e)] = "none"
    BY Positions DEF Init
  <2> QED
    BY <2>1 DEF EpochsInTurn, Quiet, Reading
<1> QED
  BY <1>1, <1>2, <1>3, <1>4 DEF PipelineInv

LEMMA PipelineInvStep ==
    Prompt = TRUE /\ PipelineInv /\ [Next]_vars => PipelineInv'
BY TypeStep, SendStep, OrderStep, QueueStep, InTurnStep, QuietStep DEF PipelineInv

\* Whatever fails or is cancelled, no epoch is past its barrier before the epoch
\* before it is through (the first loop of ProcessStateTransitionMetrics), as
\* long as goroutines are prompt: they come to their Acquire before the
\* downloader goes on, and to their Set before another one looks at the book.
THEOREM EpochsComeInTurn ==
    ASSUME Prompt = TRUE
    PROVE  Spec => []EpochsInTurn
<1>1. PipelineInv /\ [Next]_vars => PipelineInv'
  BY PipelineInvStep
<1>2. PipelineInv => EpochsInTurn
  BY DEF PipelineInv
<1> QED
  BY PipelineInvInit, <1>1, <1>2, PTL DEF Spec
-----------------------------------------------------------------------------
(* Nothing is cancelled; a log.Fatalf may end the process at any time.     *)

\* Nothing is cancelled before the run is over, and the run is over when all of
\* it has been sent and taken.
FaultFree ==
    /\ \A j \in Jobs : pc[j] # "aborted"
    /\ stop => disp = "done"
    /\ ctxDone => dl = "done"
    /\ disp = "done" => next = FinalSlot + 1
    /\ dl # "running" => stop
    /\ dl \in {"blocks", "states", "pages", "done"} => taken = next
    /\ main = "finished" => dl = "done" /\ disp = "done"

LEMMA ControlKinds ==
    ASSUME Faults \subseteq {"fatal"}, [Next]_vars
    PROVE  \/ Dispatcher \/ (\E s \in Slots : TakeTask(s)) \/ DownloaderEnd
           \/ RunStop \/ RunFinish
           \/ /\ UNCHANGED <<next, disp, taken, dl, stop, ctxDone>>
              /\ UNCHANGED main \/ main' = "exited"
BY DEF Next, Progress, Run, DownloadBlock, ProcessBlock, DownloadState, flow, flags,
       ProcessTransition, Fault, Exited, vars,
       Close, RequestBlock, BlockArrives, BlockFails, RequestState, StateArrives,
       StateFails, AddNewState, AddNewStateCancelled, Acquire, BlockLookup, BlockCancelled,
       PersistBlock, EpochBarrier, StateReceived, StateCancelled, MetricsFail, ProcessMetrics,
       SetPage, DispatchFatal, MetricsFatal

\* A processer comes to its end in a step of its own.
LEMMA HowItEnds ==
    ASSUME TypeOK, InOrder, QueueInOrder, Prompt = TRUE, [Next]_vars,
           NEW j \in Jobs, pc'[j] # pc[j], pc'[j] \in {"done", "aborted"}
    PROVE  Ends(j, pc'[j])
<1>0. pc \in [Jobs -> Labels]
  BY TypeOKLabels
<1>1. ASSUME NEW s \in Slots, TakeTask(s) PROVE pc'[j] = "fresh"
  BY <1>0, <1>1, TaskJobs
<1>2. ASSUME NEW k \in Jobs, Acquire(k) PROVE pc'[j] \notin {"done", "aborted"}
  BY <1>0, <1>2, Positions DEF Acquire
<1>3. ASSUME NEW k \in Jobs, NEW step \in TokenLabels, Moves(k, step)
      PROVE  pc'[j] \notin {"done", "aborted"}
  BY <1>0, <1>3 DEF Moves, TokenLabels
<1>4. ASSUME NEW k \in Jobs, NEW end \in {"done", "aborted"}, Ends(k, end)
      PROVE  k = j /\ pc'[j] = end
  <2>1. CASE queue = <<>>
    BY <1>0, <1>4, <2>1 DEF Ends, FreePage
  <2>2. CASE queue # <<>>
    <3>1. PICK h \in Jobs : h # k /\ pc' = [pc EXCEPT ![k] = end, ![h] = "granted"]
      BY <1>4, <2>2, HandOver
    <3> QED
      BY <1>0, <3>1, Positions
  <2> QED
    BY <2>1, <2>2
<1>5. CASE Elsewhere
  BY <1>5 DEF Elsewhere
<1> QED
  BY <1>1, <1>2, <1>3, <1>4, <1>5, StepKinds

LEMMA FaultFreeStep ==
    ASSUME Prompt = TRUE, Faults \subseteq {"fatal"}, PipelineInv, FaultFree, [Next]_vars
    PROVE  FaultFree'
<1>1. \A j \in Jobs : pc'[j] # "aborted"
  <2> SUFFICES ASSUME NEW j \in Jobs, pc'[j] = "aborted" PROVE FALSE
    OBVIOUS
  <2>1. Ends(j, "aborted")
    BY HowItEnds DEF PipelineInv, FaultFree
  <2>2. ctxDone /\ HasToken(j)
    BY <2>1 DEF Ends
  <2>3. pc[j] \in {"none", "done", "aborted"}
    BY <2>2 DEF FaultFree, PipelineInv, Quiet
  <2> QED
    BY <2>2, <2>3 DEF HasToken
<1>2. /\ next \in Nat /\ next <= FinalSlot + 1 /\ FinalSlot \in Nat
      /\ disp \in {"check", "finalized", "send", "hung", "done"}
      /\ main \in {"running", "finished", "exited"}
  BY Parameters DEF PipelineInv, TypeOK
<1>3. CASE Dispatcher
  BY <1>1, <1>2, <1>3 DEF Dispatcher, DispatchCheck, DispatchClean, DispatchSend, DispatchEnd,
                     flow, flags, FaultFree
<1>4. ASSUME NEW s \in Slots, TakeTask(s) PROVE FaultFree'
  BY <1>1, <1>4 DEF TakeTask, flags, FaultFree
<1>5. CASE DownloaderEnd
  BY <1>1, <1>5 DEF DownloaderEnd, EndCheck, flags, FaultFree
<1>6. CASE RunStop
  BY <1>1, <1>6 DEF RunStop, flow, FaultFree
<1>7. CASE RunFinish
  BY <1>1, <1>7 DEF RunFinish, FaultFree
<1>8. CASE /\ UNCHANGED <<next, disp, taken, dl, stop, ctxDone>>
           /\ UNCHANGED main \/ main' = "exited"
  BY <1>1, <1>8 DEF FaultFree
<1> QED
  BY <1>3, <1>4, <1>5, <1>6, <1>7, <1>8, ControlKinds

LEMMA RewardsStep ==
    ASSUME Prompt = TRUE, Faults \subseteq {"fatal"}, PipelineInv, FaultFree,
           RewardsAfterBlocks, [Next]_vars
    PROVE  RewardsAfterBlocks'
<1> SUFFICES ASSUME NEW e \in Epochs, Complete(e), pc'[Transition(e)] = "done",
                    NEW s \in SlotsOf(e - 1)
             PROVE  pc'[Block(s)] = "done"
  BY DEF RewardsAfterBlocks, Complete
<1> USE DEF PipelineInv
<1>1. /\ e \in Nat /\ e - 1 \in Epochs /\ e - 1 \in Int
  BY EpochsInRange DEF Complete, Epochs
<1>2. /\ LastSlot(e) = FirstSlot(e) + SlotsPerEpoch - 1 /\ FirstSlot(e) \in Int
      /\ FirstSlot(e - 1) + SlotsPerEpoch <= FirstSlot(e)
      /\ FirstSlot(e - 1) >= InitSlot /\ FirstSlot(e - 1) \in Int
      /\ LastSlot(e - 1) = FirstSlot(e - 1) + SlotsPerEpoch - 1
      /\ LastSlot(e) < FinalSlot
  <2>1. FirstSlot(e - 1) + SlotsPerEpoch <= FirstSlot(e)
    BY <1>1, EpochsApart
  <2> QED
    BY <1>1, <2>1, EpochsInRange
<1>3. s \in Slots /\ s < LastSlot(e)
  BY <1>2, Parameters DEF SlotsOf, Slots
<1>4. Block(s) \in Jobs /\ Transition(e) \in Jobs
      /\ Pos(Block(s)) = s /\ Pos(Transition(e)) = LastSlot(e) /\ s \in Nat
  BY <1>3, Positions
<1>5. pc[Block(s)] = "done"
  <2>1. CASE pc[Transition(e)] = "done"
    BY <2>1 DEF RewardsAfterBlocks
  <2>2. CASE pc[Transition(e)] # "done"
    <3>1. ProcessMetrics(e)
      BY <2>2, HowItGoesOn
    <3>2. ~HasToken(Block(s)) /\ pc[Transition(e)] = "metrics"
      BY <1>4, <3>1, AllShown DEF ProcessMetrics, Inactive
    <3>3. ~Waiting(Block(s))
      <4>1. ~Waiting(Transition(e))
        BY <3>2 DEF Waiting
      <4>2. Waiting(Block(s)) => LastSlot(e) <= s
        BY <1>4, <4>1 DEF InOrder
      <4>3. LastSlot(e) \in Int
        BY <1>2, Parameters
      <4> QED
        BY <1>3, <1>4, <4>2, <4>3
    <3> QED
      BY <1>4, <3>2, <3>3 DEF HasToken, Waiting, FaultFree
  <2> QED
    BY <2>1, <2>2
<1> QED
  BY <1>4, <1>5, FinishedStays

\* By then all of them have run.
LEMMA AllThrough ==
    ASSUME Prompt = TRUE, PipelineInv, FaultFree, dl = "done", NEW j \in Jobs
    PROVE  pc[j] = "done"
<1>1. taken = FinalSlot + 1
  BY DEF FaultFree
<1>2. pc[j] \in {"none", "done", "aborted"} /\ pc[j] # "aborted"
  BY DEF PipelineInv, Quiet, FaultFree
<1>3. Pos(j) \in Nat /\ Pos(j) <= FinalSlot
  BY Positions
<1>4. pc[j] # "none"
  BY <1>1, <1>3, Parameters DEF PipelineInv, InOrder
<1> QED
  BY <1>2, <1>4

LEMMA AllInv ==
    ASSUME Prompt = TRUE, PipelineInv, FaultFree
    PROVE  AllAnalyzed
BY AllThrough DEF AllAnalyzed, FaultFree

LEMMA FaultFreeInit == Init => FaultFree /\ RewardsAfterBlocks
<1> SUFFICES ASSUME Init PROVE FaultFree /\ RewardsAfterBlocks
  OBVIOUS
<1>1. \A j \in Jobs : pc[j] = "none"
  BY DEF Init
<1>2. \A e \in Epochs : pc[Transition(e)] = "none"
  BY <1>1, Positions
<1> QED
  BY <1>1, <1>2 DEF Init, FaultFree, RewardsAfterBlocks

\* The rewards of an epoch's blocks are computed after each of their processers
\* has finished (processBlockRewards), also in a run that a log.Fatalf ends.
THEOREM RewardsComeAfterBlocks ==
    ASSUME Prompt = TRUE, Faults \subseteq {"fatal"}
    PROVE  Spec => []RewardsAfterBlocks
<1>1. Init => PipelineInv /\ FaultFree /\ RewardsAfterBlocks
  BY PipelineInvInit, FaultFreeInit
<1>2. PipelineInv /\ FaultFree /\ RewardsAfterBlocks /\ [Next]_vars
          => (PipelineInv /\ FaultFree /\ RewardsAfterBlocks)'
  BY PipelineInvStep, FaultFreeStep, RewardsStep
<1> QED
  BY <1>1, <1>2, PTL DEF Spec

\* The tool does not finish before all slots have been analyzed, although the
\* conditions of its end are read one after the other.
THEOREM AllAreAnalyzed ==
    ASSUME Prompt = TRUE, Faults \subseteq {"fatal"}
    PROVE  Spec => []AllAnalyzed
<1>1. Init => PipelineInv /\ FaultFree
  BY PipelineInvInit, FaultFreeInit
<1>2. PipelineInv /\ FaultFree /\ [Next]_vars => (PipelineInv /\ FaultFree)'
  BY PipelineInvStep, FaultFreeStep
<1>3. PipelineInv /\ FaultFree => AllAnalyzed
  BY AllInv
<1> QED
  BY <1>1, <1>2, <1>3, PTL DEF Spec
-----------------------------------------------------------------------------
(* The requests.                                                           *)

\* What is in line has been requested, and stands there once.
InLine(q, D, f) ==
    /\ \A i \in 1..Len(q) : q[i] \in D => f[q[i]] = "requested"
    /\ \A i, k \in 1..Len(q) : i < k /\ q[i] \in D => q[i] # q[k]

LEMMA LineAppend ==
    ASSUME NEW S, NEW q \in Seq(S), NEW x \in S, NEW D, NEW f, NEW g,
           InLine(q, D, f),
           x \in D => f[x] # "requested" /\ g[x] = "requested",
           \A y \in D : f[y] = "requested" => g[y] = "requested"
    PROVE  InLine(Append(q, x), D, g)
<1> DEFINE r == Append(q, x)
           n == Len(q)
<1>1. n \in Nat /\ Len(r) = n + 1 /\ (\A i \in 1..n : r[i] = q[i]) /\ r[n + 1] = x
  BY AppendProperties, LenProperties
<1> HIDE DEF r
<1>2. \A i \in 1..n : r[i] \in D => f[r[i]] = "requested"
  BY <1>1 DEF InLine
<1>3. ASSUME NEW i \in 1..(n + 1), r[i] \in D PROVE g[r[i]] = "requested"
  <2>1. CASE i \in 1..n
    BY <1>2, <1>3, <2>1
  <2>2. CASE i = n + 1
    BY <1>1, <1>3, <2>2
  <2> QED
    BY <1>1, <2>1, <2>2
<1>4. ASSUME NEW i \in 1..(n + 1), NEW k \in 1..(n + 1), i < k, r[i] \in D PROVE r[i] # r[k]
  <2>1. i \in 1..n
    BY <1>1, <1>4
  <2>2. CASE k \in 1..n
    BY <1>1, <1>4, <2>1, <2>2 DEF InLine
  <2>3. CASE k = n + 1
    BY <1>1, <1>2, <1>4, <2>1, <2>3
  <2> QED
    BY <1>1, <2>2, <2>3
<1> HIDE DEF n
<1>5. InLine(r, D, g)
  BY <1>1, <1>3, <1>4 DEF InLine
<1> QED
  BY <1>5 DEF r

LEMMA LineTail ==
    ASSUME NEW S, NEW q \in Seq(S), q # <<>>, NEW D, NEW f, NEW g,
           InLine(q, D, f),
           \A y \in D : y # Head(q) /\ f[y] = "requested" => g[y] = "requested"
    PROVE  InLine(Tail(q), D, g)
<1> DEFINE r == Tail(q)
           n == Len(q)
<1>1. /\ n \in Nat /\ n >= 1 /\ Len(r) = n - 1 /\ Head(q) = q[1]
      /\ \A i \in 1..(n - 1) : r[i] = q[i + 1]
  BY HeadTailProperties, LenProperties, EmptySeq
<1> HIDE DEF r
<1>2. ASSUME NEW i \in 1..(n - 1), r[i] \in D
      PROVE  g[r[i]] = "requested" /\ i + 1 \in 1..n /\ r[i] = q[i + 1]
  <2>1. i + 1 \in 1..n /\ 1 \in 1..n /\ 1 < i + 1 /\ r[i] = q[i + 1]
    BY <1>1
  <2>2. f[r[i]] = "requested"
    BY <1>2, <2>1 DEF InLine
  <2>3. q[1] # q[i + 1]
    <3> SUFFICES ASSUME q[1] = q[i + 1] PROVE FALSE
      OBVIOUS
    <3> QED
      BY <1>2, <2>1 DEF InLine
  <2> QED
    BY <1>1, <1>2, <2>1, <2>2, <2>3
<1>3. ASSUME NEW i \in 1..(n - 1), NEW k \in 1..(n - 1), i < k, r[i] \in D PROVE r[i] # r[k]
  <2>1. i + 1 \in 1..n /\ k + 1 \in 1..n /\ i + 1 < k + 1 /\ r[i] = q[i + 1] /\ r[k] = q[k + 1]
    BY <1>1, <1>3
  <2> QED
    BY <1>3, <2>1 DEF InLine
<1> HIDE DEF n
<1>4. InLine(r, D, g)
  BY <1>1, <1>2, <1>3 DEF InLine
<1> QED
  BY <1>4 DEF r

LEMMA LineSame ==
    ASSUME NEW q, NEW D, NEW f, NEW g, InLine(q, D, f),
           \A y \in D : f[y] = "requested" => g[y] = "requested"
    PROVE  InLine(q, D, g)
BY DEF InLine

LEMMA LineHead ==
    ASSUME NEW S, NEW q \in Seq(S), q # <<>>, NEW D, NEW f, InLine(q, D, f), Head(q) \in D
    PROVE  f[Head(q)] = "requested"
<1>1. 1 \in 1..Len(q) /\ Head(q) = q[1]
  BY LenProperties, EmptySeq
<1> QED
  BY <1>1 DEF InLine

\* Both books of the API client.
RequestsInLine == InLine(blockReqs, Slots, blk) /\ InLine(stateReqs, Epochs, st)

\* The life of a block and of a state up to the cache.
Cached(x) == x \in {"cached", "evicted"}

LivesInOrder ==
    /\ \A s \in Slots : blk[s] # "none" <=> s < taken
    /\ \A e \in Epochs : pc[Transition(e)] = "none" => st[e] = "none"
    /\ \A e \in Epochs : Cached(st[e]) => \A s \in SlotsOf(e) : Cached(blk[s])
    /\ stale = {} /\ stuck = {}

\* What has been read.
ReadInOrder ==
    /\ \A s \in Slots : pc[Block(s)] \in {"persist", "done"} => Cached(blk[s])
    /\ \A e \in Epochs : pc[Transition(e)] \in {"metrics", "done"} => Cached(st[e])
    /\ \A e, d \in Epochs :
           (Reading(e) \/ pc[Transition(e)] \in {"metrics", "done"}) /\ d < e =>
               pc[Transition(d)] = "done"

\* The steps that touch the cache.
CacheSteps ==
    \/ DispatchClean
    \/ \E s \in Slots : TakeTask(s) \/ RequestBlock(s) \/ BlockArrives(s)
    \/ \E e \in Epochs : RequestState(e) \/ StateArrives(e) \/ AddNewState(e)
    \/ /\ UNCHANGED <<blk, st, taken, stateReqs, stale, stuck>>
       /\ UNCHANGED blockReqs \/ blockReqs' = Append(blockReqs, FinalizedSlot)

LEMMA CacheKinds ==
    ASSUME Faults \subseteq {"fatal"}, PipelineInv, FaultFree, ReadInOrder, [Next]_vars
    PROVE  CacheSteps
<1> USE DEF flow, flags, requests, locks
<1>1. ctxDone => \A j \in Jobs : pc[j] \in {"none", "done"}
  BY DEF PipelineInv, FaultFree, Quiet
<1>2. ASSUME NEW s \in Slots, BlockCancelled(s) PROVE FALSE
  BY <1>1, <1>2, Positions DEF BlockCancelled
<1>3. ASSUME NEW e \in Epochs, StateCancelled(e) PROVE FALSE
  BY <1>1, <1>3, Positions DEF StateCancelled, Reading
<1>4. ASSUME NEW e \in Epochs, AddNewStateCancelled(e) PROVE FALSE
  <2>1. ctxDone /\ st[e] = "assembling" /\ pc[Transition(e)] # "done"
    BY <1>4 DEF AddNewStateCancelled, ReadInOrder, Cached
  <2>2. pc[Transition(e)] = "none"
    BY <1>1, <2>1, Positions
  <2>3. LastSlot(e) >= taken /\ taken = next /\ next = FinalSlot + 1
    BY <2>1, <2>2, Positions DEF FaultFree, PipelineInv, InOrder
  <2> QED
    BY <2>3, EpochsInRange, Parameters
<1>5. ASSUME NEW s \in Slots, DownloadBlock(s) \/ ProcessBlock(s) PROVE CacheSteps
  <2>1. CASE DownloadBlock(s)
    BY <2>1 DEF DownloadBlock, CacheSteps
  <2>2. CASE Acquire(Block(s)) \/ SetPage(Block(s)) \/ BlockLookup(s) \/ PersistBlock(s)
    BY <2>2 DEF Acquire, SetPage, BlockLookup, PersistBlock, CacheSteps
  <2> QED
    BY <1>2, <1>5, <2>1, <2>2 DEF ProcessBlock
<1>6. ASSUME NEW e \in Epochs, DownloadState(e) \/ ProcessTransition(e) PROVE CacheSteps
  <2>1. CASE RequestState(e) \/ StateArrives(e) \/ AddNewState(e)
    BY <2>1 DEF CacheSteps
  <2>2. CASE \/ Acquire(Transition(e)) \/ SetPage(Transition(e)) \/ EpochBarrier(e)
             \/ StateReceived(e) \/ ProcessMetrics(e)
    BY <2>2 DEF Acquire, SetPage, EpochBarrier, StateReceived, ProcessMetrics, CacheSteps
  <2> QED
    BY <1>3, <1>4, <1>6, <2>1, <2>2 DEF DownloadState, ProcessTransition
<1>7. CASE Dispatcher
  BY <1>7 DEF Dispatcher, DispatchCheck, DispatchSend, DispatchEnd, CacheSteps
<1>8. CASE DownloaderEnd \/ \E s \in Slots : TakeTask(s)
  BY <1>8 DEF DownloaderEnd, EndCheck, CacheSteps
<1>9. CASE Run \/ Exited \/ UNCHANGED vars
  BY <1>9 DEF Run, RunStop, RunFinish, Exited, vars, CacheSteps
<1>10. CASE Fault
  BY <1>10
  DEF Fault, Close, BlockFails, StateFails, MetricsFail, DispatchFatal, MetricsFatal, CacheSteps
<1> QED
  BY <1>5, <1>6, <1>7, <1>8, <1>9, <1>10 DEF Next, Progress

\* The epochs that a clean evicts.
Evicted(e) ==
    e \in Epochs /\ st[e] = "cached" /\ FirstSlot(e) < next - KeepEpochs * SlotsPerEpoch

LEMMA Lives ==
    ASSUME PipelineInv, RequestsInLine, LivesInOrder, CacheSteps
    PROVE  /\ \A s \in Slots : blk'[s] # blk[s] =>
                 \/ TakeTask(s) /\ blk[s] = "none" /\ blk'[s] = "gate"
                 \/ RequestBlock(s) /\ blk[s] = "gate" /\ blk'[s] = "requested"
                 \/ BlockArrives(s) /\ blk[s] = "requested" /\ blk'[s] = "cached"
                 \/ /\ DispatchClean /\ MustClean /\ Evicted(EpochOf(s))
                    /\ blk[s] = "cached" /\ blk'[s] = "evicted"
           /\ \A e \in Epochs : st'[e] # st[e] =>
                 \/ TakeTask(LastSlot(e)) /\ st[e] = "none" /\ st'[e] = "spawned"
                 \/ RequestState(e) /\ st[e] = "spawned" /\ st'[e] = "requested"
                 \/ StateArrives(e) /\ st[e] = "requested" /\ st'[e] = "assembling"
                 \/ AddNewState(e) /\ st[e] = "assembling" /\ st'[e] = "cached"
                 \/ /\ DispatchClean /\ MustClean /\ Evicted(e)
                    /\ st[e] = "cached" /\ st'[e] = "evicted"
           /\ stale' = {} /\ stuck' = {}
           /\ taken' = taken \/ \E s \in Slots : TakeTask(s)
<1> DEFINE BlockLives(s) ==
              \/ TakeTask(s) /\ blk[s] = "none" /\ blk'[s] = "gate"
              \/ RequestBlock(s) /\ blk[s] = "gate" /\ blk'[s] = "requested"
              \/ BlockArrives(s) /\ blk[s] = "requested" /\ blk'[s] = "cached"
              \/ /\ DispatchClean /\ MustClean /\ Evicted(EpochOf(s))
                 /\ blk[s] = "cached" /\ blk'[s] = "evicted"
           StateLives(e) ==
              \/ TakeTask(LastSlot(e)) /\ st[e] = "none" /\ st'[e] = "spawned"
              \/ RequestState(e) /\ st[e] = "spawned" /\ st'[e] = "requested"
              \/ StateArrives(e) /\ st[e] = "requested" /\ st'[e] = "assembling"
              \/ AddNewState(e) /\ st[e] = "assembling" /\ st'[e] = "cached"
              \/ /\ DispatchClean /\ MustClean /\ Evicted(e)
                 /\ st[e] = "cached" /\ st'[e] = "evicted"
           Goal == /\ \A s \in Slots : blk'[s] # blk[s] => BlockLives(s)
                   /\ \A e \in Epochs : st'[e] # st[e] => StateLives(e)
                   /\ stale' = {} /\ stuck' = {}
                   /\ taken' = taken \/ \E s \in Slots : TakeTask(s)
<1>0. /\ DOMAIN blk = Slots /\ DOMAIN st = Epochs
      /\ stale = {} /\ stuck = {}
      /\ blockReqs \in Seq(Slots \union {FinalizedSlot}) /\ stateReqs \in Seq(Epochs)
  BY DEF PipelineInv, TypeOK, LivesInOrder
<1> USE DEF flow, flags, requests, locks
<1>1. ASSUME DispatchClean PROVE Goal
  <2>1. UNCHANGED <<stale, stuck, taken>>
    BY <1>1 DEF DispatchClean
  <2>2. CASE UNCHANGED <<st, blk>>
    BY <1>0, <2>1, <2>2
  <2>3. CASE MustClean /\ CleanUpTo(next - KeepEpochs * SlotsPerEpoch)
    <3>1. \A e \in Epochs : st'[e] # st[e] =>
              Evicted(e) /\ st[e] = "cached" /\ st'[e] = "evicted"
      BY <2>3 DEF CleanUpTo, Evicted
    <3>2. \A s \in Slots : blk'[s] # blk[s] =>
              Evicted(EpochOf(s)) /\ blk[s] = "cached" /\ blk'[s] = "evicted"
      BY <2>3 DEF CleanUpTo, Evicted
    <3> QED
      BY <1>0, <1>1, <2>1, <2>3, <3>1, <3>2
  <2> QED
    BY <1>1, <2>2, <2>3 DEF DispatchClean
<1>2. ASSUME NEW s \in Slots, TakeTask(s) PROVE Goal
  <2>1. s = taken /\ blk[s] = "none" /\ s \in Nat /\ UNCHANGED <<stale, stuck>>
    BY <1>2, Positions DEF TakeTask, LivesInOrder
  <2>2. \A r \in Slots : blk'[r] # blk[r] => r = s /\ blk'[r] = "gate"
    BY <1>0, <1>2 DEF TakeTask
  <2>3. ASSUME NEW e \in Epochs, st'[e] # st[e] PROVE StateLives(e)
    <3>1. e = EpochOf(s) /\ s = LastSlot(e) /\ st'[e] = "spawned"
      BY <1>0, <1>2, <2>3 DEF TakeTask
    <3>2. pc[Transition(e)] = "none"
      <4>1. Transition(e) \in Jobs /\ Pos(Transition(e)) = taken /\ taken >= taken
        <5>1. taken \in Nat /\ LastSlot(e) = taken
          BY <2>1, <3>1
        <5>2. Transition(e) \in Jobs /\ Pos(Transition(e)) = LastSlot(e)
          BY Positions
        <5> QED
          BY <5>1, <5>2
      <4> QED
        BY <4>1 DEF PipelineInv, InOrder
    <3> QED
      BY <1>2, <3>1, <3>2 DEF LivesInOrder
  <2> QED
    BY <1>0, <1>2, <2>1, <2>2, <2>3
<1>3. ASSUME NEW s \in Slots, RequestBlock(s) PROVE Goal
  BY <1>0, <1>3 DEF RequestBlock
<1>4. ASSUME NEW s \in Slots, BlockArrives(s) PROVE Goal
  <2>1. blk[s] = "requested"
    BY <1>0, <1>4, LineHead DEF BlockArrives, RequestsInLine
  <2>2. UNCHANGED <<stale, stuck, taken, st>> /\ blk' = [blk EXCEPT ![s] = "cached"]
    BY <1>0, <1>4 DEF BlockArrives
  <2> QED
    BY <1>0, <1>4, <2>1, <2>2
<1>5. ASSUME NEW e \in Epochs, RequestState(e) PROVE Goal
  BY <1>0, <1>5 DEF RequestState
<1>6. ASSUME NEW e \in Epochs, StateArrives(e) PROVE Goal
  <2>1. st[e] = "requested"
    BY <1>0, <1>6, LineHead DEF StateArrives, RequestsInLine
  <2> QED
    BY <1>0, <1>6, <2>1 DEF StateArrives
<1>7. ASSUME NEW e \in Epochs, AddNewState(e) PROVE Goal
  <2>1. UNCHANGED <<stale, stuck, taken, blk>> /\ st' = [st EXCEPT ![e] = "cached"]
    BY <1>0, <1>7 DEF AddNewState
  <2>2. st[e] = "assembling"
    BY <1>7 DEF AddNewState
  <2> QED
    BY <1>0, <1>7, <2>1, <2>2
<1>8. ASSUME UNCHANGED <<blk, st, taken, stateReqs, stale, stuck>> PROVE Goal
  BY <1>0, <1>8
<1> HIDE DEF Goal
<1>9. Goal
  BY <1>1, <1>2, <1>3, <1>4, <1>5, <1>6, <1>7, <1>8 DEF CacheSteps
<1> QED
  BY <1>9 DEF Goal

LEMMA CachedStays ==
    ASSUME PipelineInv, RequestsInLine, LivesInOrder, CacheSteps
    PROVE  /\ \A s \in Slots : Cached(blk[s]) => Cached(blk'[s])
           /\ \A e \in Epochs : Cached(st[e]) => Cached(st'[e])
BY Lives DEF Cached

LEMMA RequestsStep ==
    ASSUME PipelineInv, RequestsInLine, LivesInOrder, CacheSteps
    PROVE  RequestsInLine'
<1> DEFINE Blocks == Slots \union {FinalizedSlot}
<1>0. /\ blockReqs \in Seq(Blocks) /\ stateReqs \in Seq(Epochs)
      /\ InLine(blockReqs, Slots, blk) /\ InLine(stateReqs, Epochs, st)
      /\ FinalizedSlot \notin Slots
      /\ DOMAIN blk = Slots /\ DOMAIN st = Epochs
  BY Parameters DEF PipelineInv, TypeOK, RequestsInLine, FinalizedSlot, Slots
<1>1. ASSUME \A e \in Epochs : st[e] = "requested" => st'[e] = "requested", stateReqs' = stateReqs
      PROVE  InLine(stateReqs', Epochs, st')
  BY <1>0, <1>1, LineSame
<1>2. ASSUME \A s \in Slots : blk[s] = "requested" => blk'[s] = "requested", blockReqs' = blockReqs
      PROVE  InLine(blockReqs', Slots, blk')
  BY <1>0, <1>2, LineSame
<1> USE DEF flow, flags, requests, locks
<1>3. CASE DispatchClean
  <2>1. /\ blockReqs # <<>> /\ Head(blockReqs) = FinalizedSlot
        /\ blockReqs' = Tail(blockReqs) /\ stateReqs' = stateReqs
    BY <1>3 DEF DispatchClean
  <2>2. \A s \in Slots : blk[s] = "requested" => blk'[s] = "requested"
    BY <1>3 DEF DispatchClean, CleanUpTo
  <2>3. \A e \in Epochs : st[e] = "requested" => st'[e] = "requested"
    BY <1>3 DEF DispatchClean, CleanUpTo
  <2>4. InLine(Tail(blockReqs), Slots, blk')
    BY <1>0, <2>1, <2>2, LineTail
  <2> QED
    BY <1>1, <2>1, <2>3, <2>4 DEF RequestsInLine
<1>4. ASSUME NEW s \in Slots, TakeTask(s) PROVE RequestsInLine'
  <2>1. \A r \in Slots : blk[r] = "requested" => blk'[r] = "requested"
    BY <1>4, Lives, Positions DEF TakeTask, LivesInOrder
  <2>2. \A e \in Epochs : st[e] = "requested" => st'[e] = "requested"
    <3>1. ASSUME NEW e \in Epochs, st[e] = "requested", st'[e] # st[e] PROVE FALSE
      <4>1. \/ RequestState(e) /\ st[e] = "spawned"
            \/ StateArrives(e)
            \/ AddNewState(e) /\ st[e] = "assembling"
            \/ DispatchClean /\ st[e] = "cached"
            \/ st[e] = "none"
        BY <3>1, Lives
      <4>2. taken' = taken + 1 /\ taken \in Nat
        BY <1>4, Parameters DEF TakeTask, PipelineInv, TypeOK
      <4>3. StateArrives(e) => taken' = taken
        BY DEF StateArrives
      <4> QED
        BY <3>1, <4>1, <4>2, <4>3
    <3> QED
      BY <3>1
  <2> QED
    BY <1>1, <1>2, <1>4, <2>1, <2>2 DEF TakeTask, RequestsInLine
<1>5. ASSUME NEW s \in Slots, RequestBlock(s) PROVE RequestsInLine'
  <2>1. /\ blk[s] = "gate" /\ blk' = [blk EXCEPT ![s] = "requested"]
        /\ blockReqs' = Append(blockReqs, s) /\ UNCHANGED <<st, stateReqs>>
    BY <1>5 DEF RequestBlock
  <2>2. InLine(Append(blockReqs, s), Slots, blk')
    <3>1. s \in Blocks /\ blk[s] # "requested" /\ blk'[s] = "requested"
          /\ \A r \in Slots : blk[r] = "requested" => blk'[r] = "requested"
      BY <1>0, <2>1
    <3> QED
      BY <1>0, <3>1, LineAppend
  <2> QED
    BY <1>1, <2>1, <2>2 DEF RequestsInLine
<1>6. ASSUME NEW s \in Slots, BlockArrives(s) PROVE RequestsInLine'
  <2>1. /\ blockReqs # <<>> /\ Head(blockReqs) = s
        /\ blockReqs' = Tail(blockReqs) /\ UNCHANGED <<st, stateReqs>>
        /\ \A r \in Slots : r # s => blk'[r] = blk[r]
    BY <1>0, <1>6 DEF BlockArrives
  <2>2. InLine(Tail(blockReqs), Slots, blk')
    BY <1>0, <2>1, LineTail
  <2> QED
    BY <1>1, <2>1, <2>2 DEF RequestsInLine
<1>7. ASSUME NEW e \in Epochs, RequestState(e) PROVE RequestsInLine'
  <2>1. /\ st[e] = "spawned" /\ st' = [st EXCEPT ![e] = "requested"]
        /\ stateReqs' = Append(stateReqs, e) /\ UNCHANGED <<blk, blockReqs>>
    BY <1>7 DEF RequestState
  <2>2. InLine(Append(stateReqs, e), Epochs, st')
    <3>1. st[e] # "requested" /\ st'[e] = "requested"
          /\ \A d \in Epochs : st[d] = "requested" => st'[d] = "requested"
      BY <1>0, <2>1
    <3> QED
      BY <1>0, <3>1, LineAppend
  <2> QED
    BY <1>2, <2>1, <2>2 DEF RequestsInLine
<1>8. ASSUME NEW e \in Epochs, StateArrives(e) PROVE RequestsInLine'
  <2>1. /\ stateReqs # <<>> /\ Head(stateReqs) = e
        /\ stateReqs' = Tail(stateReqs) /\ UNCHANGED <<blk, blockReqs>>
        /\ \A d \in Epochs : d # e => st'[d] = st[d]
    BY <1>0, <1>8 DEF StateArrives
  <2>2. InLine(Tail(stateReqs), Epochs, st')
    BY <1>0, <2>1, LineTail
  <2> QED
    BY <1>2, <2>1, <2>2 DEF RequestsInLine
<1>9. ASSUME NEW e \in Epochs, AddNewState(e) PROVE RequestsInLine'
  <2>1. UNCHANGED <<blk, blockReqs, stateReqs>>
        /\ \A d \in Epochs : st[d] = "requested" => st'[d] = "requested"
    BY <1>0, <1>9 DEF AddNewState
  <2> QED
    BY <1>1, <1>2, <2>1 DEF RequestsInLine
<1>10. CASE /\ UNCHANGED <<blk, st, taken, stateReqs, stale, stuck>>
            /\ UNCHANGED blockReqs \/ blockReqs' = Append(blockReqs, FinalizedSlot)
  <2>1. InLine(Append(blockReqs, FinalizedSlot), Slots, blk)
    BY <1>0, LineAppend
  <2> QED
    BY <1>1, <1>2, <1>10, <2>1 DEF RequestsInLine
<1> QED
  BY <1>3, <1>4, <1>5, <1>6, <1>7, <1>8, <1>9, <1>10 DEF CacheSteps

LEMMA LivesStep ==
    ASSUME Prompt = TRUE, PipelineInv, RequestsInLine, LivesInOrder, CacheSteps, [Next]_vars
    PROVE  LivesInOrder'
<1>0. taken \in Nat /\ \A s \in Slots : s \in Nat
  BY Parameters, Positions DEF PipelineInv, TypeOK
<1>1. \A s \in Slots : blk'[s] # "none" <=> s < taken'
  <2>1. CASE \E r \in Slots : TakeTask(r)
    <3>1. PICK r \in Slots : TakeTask(r)
      BY <2>1
    <3>2. r = taken /\ taken' = taken + 1 /\ blk' = [blk EXCEPT ![r] = "gate"]
      BY <3>1 DEF TakeTask
    <3> QED
      BY <1>0, <3>2 DEF LivesInOrder, PipelineInv, TypeOK
  <2>2. CASE ~\E r \in Slots : TakeTask(r)
    <3>1. taken' = taken
      BY <2>2, Lives
    <3>2. \A s \in Slots : blk'[s] = "none" <=> blk[s] = "none"
      BY <2>2, Lives
    <3> QED
      BY <3>1, <3>2 DEF LivesInOrder
  <2> QED
    BY <2>1, <2>2
<1>2. ASSUME NEW e \in Epochs, pc'[Transition(e)] = "none" PROVE st'[e] = "none"
  <2>1. Transition(e) \in Jobs /\ Pos(Transition(e)) = LastSlot(e) /\ LastSlot(e) \in Nat
    BY Positions
  <2>2. LastSlot(e) >= taken'
    BY <1>2, <2>1, PipelineInvStep DEF PipelineInv, InOrder
  <2>3. taken' = taken \/ taken' = taken + 1
    BY Lives DEF TakeTask
  <2>4. ~TakeTask(LastSlot(e)) /\ pc[Transition(e)] = "none"
    BY <1>0, <2>1, <2>2, <2>3 DEF PipelineInv, InOrder, TakeTask
  <2> QED
    BY <2>4, Lives DEF LivesInOrder
<1>3. ASSUME NEW e \in Epochs, Cached(st'[e]), NEW s \in SlotsOf(e) PROVE Cached(blk'[s])
  <2>1. s \in Slots
    <3>1. /\ FirstSlot(e) \in Int /\ FirstSlot(e) >= InitSlot
          /\ LastSlot(e) \in Int /\ LastSlot(e) < FinalSlot
      BY EpochsInRange, Parameters
    <3> QED
      BY <3>1, Parameters DEF SlotsOf, Slots
  <2>2. Cached(blk[s])
    <3>1. CASE Cached(st[e])
      BY <1>3, <3>1 DEF LivesInOrder
    <3>2. CASE ~Cached(st[e])
      <4>1. AddNewState(e)
        BY <1>3, <3>2, Lives DEF Cached
      <4> QED
        BY <1>3, <4>1 DEF AddNewState, Missing, Cached
    <3> QED
      BY <3>1, <3>2
  <2> QED
    BY <2>1, <2>2, CachedStays
<1>4. stale' = {} /\ stuck' = {}
  BY Lives
<1> QED
  BY <1>1, <1>2, <1>3, <1>4 DEF LivesInOrder

\* How a processer comes to have its block.
LEMMA HowBlockReads ==
    ASSUME Prompt = TRUE, PipelineInv, [Next]_vars, NEW s \in Slots,
           pc'[Block(s)] # pc[Block(s)]
    PROVE  /\ pc'[Block(s)] = "persist" => BlockLookup(s) \/ BlockArrives(s)
           /\ pc'[Block(s)] = "done" => PersistBlock(s)
<1> DEFINE j == Block(s)
<1>0. pc \in [Jobs -> Labels] /\ j \in Jobs /\ TypeOK /\ InOrder /\ QueueInOrder
  BY TypeOKLabels, Positions DEF PipelineInv
<1>1. ASSUME NEW r \in Slots, TakeTask(r) PROVE pc'[j] = "fresh"
  BY <1>0, <1>1, TaskJobs
<1>2. ASSUME NEW k \in Jobs, Acquire(k) PROVE pc'[j] \in {"queued", "granted"}
  BY <1>0, <1>2, Positions DEF Acquire
<1>3. ASSUME NEW k \in Jobs, NEW step \in TokenLabels, Moves(k, step)
      PROVE  /\ pc'[j] # "done"
             /\ pc'[j] = "lookup" \/ BlockLookup(s) \/ BlockArrives(s)
  <2>1. k = j /\ pc'[j] = step
    BY <1>0, <1>3 DEF Moves
  <2>2. \A e \in Epochs : k # Transition(e)
    BY <2>1, Positions
  <2>3. \A r \in Slots : Block(r) = k => r = s
    BY <2>1 DEF Block
  <2> QED
    BY <1>3, <2>1, <2>2, <2>3, Positions DEF Moves, TokenLabels
<1>4. ASSUME NEW k \in Jobs, NEW end \in {"done", "aborted"}, Ends(k, end)
      PROVE  pc'[j] # "persist" /\ (pc'[j] = "done" => PersistBlock(s))
  <2>1. pc'[j] = "granted" \/ (k = j /\ pc'[j] = end)
    <3>1. CASE queue = <<>>
      BY <1>0, <1>4, <3>1 DEF Ends, FreePage
    <3>2. CASE queue # <<>>
      <4>1. PICK h \in Jobs : h # k /\ pc' = [pc EXCEPT ![k] = end, ![h] = "granted"]
        BY <1>0, <1>4, <3>2, HandOver
      <4> QED
        BY <1>0, <4>1, Positions
    <3> QED
      BY <3>1, <3>2
  <2>2. \A r \in Slots : Block(r) = j => r = s
    BY DEF Block
  <2>3. \A e \in Epochs : j # Transition(e)
    BY Positions
  <2> QED
    BY <1>4, <2>1, <2>2, <2>3 DEF Ends
<1>5. ~Elsewhere
  BY DEF Elsewhere
<1> QED
  BY <1>0, <1>1, <1>2, <1>3, <1>4, <1>5, StepKinds

LEMMA ReadStep ==
    ASSUME Prompt = TRUE, Faults \subseteq {"fatal"}, PipelineInv, FaultFree,
           RequestsInLine, LivesInOrder, ReadInOrder, [Next]_vars
    PROVE  ReadInOrder'
<1>0. /\ TypeOK /\ InOrder /\ QueueInOrder /\ CacheSteps /\ stuck = {}
      /\ DOMAIN blk = Slots
  BY CacheKinds DEF PipelineInv, LivesInOrder, TypeOK
<1>1. ASSUME NEW s \in Slots, pc'[Block(s)] \in {"persist", "done"} PROVE Cached(blk'[s])
  <2>1. CASE pc[Block(s)] \in {"persist", "done"}
    BY <1>0, <2>1, CachedStays DEF ReadInOrder
  <2>2. CASE pc[Block(s)] \notin {"persist", "done"}
    <3>1. BlockLookup(s) \/ BlockArrives(s) \/ PersistBlock(s)
      BY <1>1, <2>2, HowBlockReads
    <3>2. CASE BlockLookup(s)
      <4>1. pc'[Block(s)] # "asleep" /\ Block(s) \in Jobs
        BY <1>1, Positions
      <4>2. blk[s] = "cached"
        BY <1>0, <3>2, <4>1 DEF BlockLookup, Goto, TypeOK
      <4> QED
        BY <3>2, <4>2 DEF BlockLookup, Cached
    <3>3. CASE BlockArrives(s)
      BY <1>0, <3>3 DEF BlockArrives, Cached
    <3>4. ~PersistBlock(s)
      BY <2>2 DEF PersistBlock
    <3> QED
      BY <3>1, <3>2, <3>3, <3>4
  <2> QED
    BY <2>1, <2>2
<1>2. ASSUME NEW e \in Epochs, pc'[Transition(e)] \in {"metrics", "done"} PROVE Cached(st'[e])
  <2>1. Cached(st[e])
    <3>1. CASE pc[Transition(e)] \in {"metrics", "done"}
      BY <3>1 DEF ReadInOrder
    <3>2. CASE pc[Transition(e)] \notin {"metrics", "done"}
      <4>1. Transition(e) \in Jobs /\ e >= InitEpoch
        BY Positions, EpochsInRange
      <4>2. ~ProcessMetrics(e)
        BY <3>2 DEF ProcessMetrics
      <4>3. pc'[Transition(e)] = "metrics" /\ (EpochBarrier(e) \/ StateReceived(e))
        BY <1>0, <1>2, <3>2, <4>2, HowItGoesOn
      <4>4. ~EpochBarrier(e)
        BY <1>0, <4>1, <4>3 DEF EpochBarrier, Goto, TypeOK
      <4>5. pc[Transition(e)] = "next"
        BY <1>0, <4>1, <4>3, <4>4 DEF StateReceived, Goto, TypeOK, Reading
      <4> QED
        BY <4>1, <4>3, <4>4, <4>5 DEF StateReceived, Wanted, Cached
    <3> QED
      BY <3>1, <3>2
  <2> QED
    BY <1>0, <2>1, CachedStays
<1>3. ASSUME NEW e \in Epochs, NEW d \in Epochs, d < e,
             Reading(e)' \/ pc'[Transition(e)] \in {"metrics", "done"}
      PROVE  pc'[Transition(d)] = "done"
  <2>0. Transition(d) \in Jobs /\ Transition(e) \in Jobs
    BY Positions
  <2>1. CASE Reading(e) \/ pc[Transition(e)] \in {"metrics", "done"}
    BY <1>0, <1>3, <2>0, <2>1, FinishedStays DEF ReadInOrder
  <2>2. CASE ~(Reading(e) \/ pc[Transition(e)] \in {"metrics", "done"})
    <3>1. /\ e \in Nat /\ d \in Nat /\ e - 1 \in Epochs /\ (d = e - 1 \/ d < e - 1)
      BY <1>3, EpochsInRange DEF Epochs
    <3>2. pc'[Transition(e)] # pc[Transition(e)]
      BY <1>3, <2>2 DEF Reading
    <3>3. ~StateReceived(e) /\ ~ProcessMetrics(e)
      BY <2>2 DEF StateReceived, ProcessMetrics
    <3>4. Reading(e)' \/ pc'[Transition(e)] = "metrics"
      BY <1>0, <1>3, <3>2, <3>3, HowItGoesOn
    <3>5. pc'[Transition(e - 1)] = "done"
      <4>1. EpochsInTurn' /\ FaultFree'
        BY PipelineInvStep, FaultFreeStep DEF PipelineInv
      <4>2. pc'[Transition(e - 1)] \in {"done", "aborted"}
        BY <3>1, <3>4, <4>1 DEF EpochsInTurn
      <4> QED
        BY <3>1, <4>1, <4>2, Positions DEF FaultFree
    <3>6. pc[Transition(e - 1)] \in {"metrics", "done"}
      BY <1>0, <3>1, <3>5, HowItGoesOn DEF ProcessMetrics
    <3>7. d < e - 1 => pc[Transition(d)] = "done"
      BY <3>1, <3>6 DEF ReadInOrder
    <3> QED
      BY <1>0, <2>0, <3>1, <3>5, <3>7, FinishedStays
  <2> QED
    BY <2>1, <2>2
<1> QED
  BY <1>1, <1>2, <1>3 DEF ReadInOrder
-----------------------------------------------------------------------------
(* How far the downloader gets ahead.                                      *)

\* How a processer begins.
LEMMA HowItBegins ==
    ASSUME Prompt = TRUE, PipelineInv, [Next]_vars, NEW j \in Jobs
    PROVE  /\ pc'[j] = "none" => pc[j] = "none"
           /\ pc'[j] = "queued" /\ pc[j] # "queued" =>
                  pc[j] = "fresh" /\ Pos(j) = taken - 1 /\ UNCHANGED <<next, taken, disp>>
           /\ pc'[j] \in {"granted", "lookup"} /\ pc[j] \notin {"granted", "lookup"} =>
                  /\ pc[j] \in {"fresh", "queued"}
                  /\ pc[j] = "fresh" => Pos(j) = taken - 1
                  /\ UNCHANGED <<next, taken>>
           /\ pc'[j] = "fresh" /\ pc[j] # "fresh" => pc[j] = "none"
<1> DEFINE Begins == /\ pc'[j] = "none" => pc[j] = "none"
                     /\ pc'[j] = "queued" /\ pc[j] # "queued" =>
                            pc[j] = "fresh" /\ Pos(j) = taken - 1 /\ UNCHANGED <<next, taken, disp>>
                     /\ pc'[j] \in {"granted", "lookup"} /\ pc[j] \notin {"granted", "lookup"} =>
                            /\ pc[j] \in {"fresh", "queued"}
                            /\ pc[j] = "fresh" => Pos(j) = taken - 1
                            /\ UNCHANGED <<next, taken>>
                     /\ pc'[j] = "fresh" /\ pc[j] # "fresh" => pc[j] = "none"
<1>0. pc \in [Jobs -> Labels] /\ TypeOK /\ InOrder /\ QueueInOrder
      /\ taken \in Nat /\ Pos(j) \in Nat
  BY TypeOKLabels, Positions, Parameters DEF PipelineInv, TypeOK
<1>1. ASSUME NEW s \in Slots, TakeTask(s) PROVE Begins
  <2>1. pc'[j] = (IF Pos(j) = s THEN "fresh" ELSE pc[j]) /\ s = taken
    BY <1>0, <1>1, TaskJobs
  <2>2. Pos(j) = s => pc[j] = "none"
    BY <1>0, <2>1 DEF InOrder
  <2> QED
    BY <2>1, <2>2
<1>2. ASSUME NEW k \in Jobs, Acquire(k) PROVE Begins
  <2>1. pc[k] = "fresh" /\ UNCHANGED <<next, taken, disp>> /\ Pos(k) = taken - 1
    BY <1>0, <1>2 DEF Acquire, flow, InOrder
  <2>2. pc'[k] \in {"queued", "granted"} /\ (j # k => pc'[j] = pc[j])
    BY <1>0, <1>2, Positions DEF Acquire
  <2> QED
    BY <2>1, <2>2
<1>3. ASSUME NEW k \in Jobs, NEW step \in TokenLabels, Moves(k, step) PROVE Begins
  <2>1. /\ pc'[k] \notin {"none", "queued", "granted", "fresh"} /\ (j # k => pc'[j] = pc[j])
        /\ pc'[k] = "lookup" => pc[k] = "granted"
    BY <1>0, <1>3 DEF Moves, TokenLabels, SetPage
  <2> QED
    BY <2>1
<1>4. ASSUME NEW k \in Jobs, NEW end \in {"done", "aborted"}, Ends(k, end) PROVE Begins
  <2>0. UNCHANGED <<next, taken>>
    BY <1>4 DEF Ends
  <2>1. CASE queue = <<>>
    <3>1. pc' = [pc EXCEPT ![k] = end]
      BY <1>4, <2>1 DEF Ends, FreePage
    <3> QED
      BY <1>0, <3>1
  <2>2. CASE queue # <<>>
    <3>1. PICK h \in Jobs : /\ pc[h] = "queued" /\ h # k
                            /\ pc' = [pc EXCEPT ![k] = end, ![h] = "granted"]
      BY <1>0, <1>4, <2>2, HandOver
    <3>2. pc'[k] = end /\ pc'[h] = "granted" /\ (j # k /\ j # h => pc'[j] = pc[j])
      BY <1>0, <3>1
    <3> QED
      BY <2>0, <3>1, <3>2
  <2> QED
    BY <2>1, <2>2
<1>5. ASSUME Elsewhere PROVE Begins
  BY <1>5 DEF Elsewhere
<1> HIDE DEF Begins
<1>6. Begins
  BY <1>0, <1>1, <1>2, <1>3, <1>4, <1>5, StepKinds
<1> QED
  BY <1>6 DEF Begins

\* The downloader is at most a full buffer behind the loop, and a processer that
\* waits for a page, or has yet to look for its block, stops the loop or the
\* downloader soon after.
Paced ==
    /\ disp # "hung"
    /\ next <= taken + RateLimit
    /\ \A j \in Jobs : pc[j] = "queued" =>
           \/ disp \in {"finalized", "send"} /\ next <= Pos(j) + 1 + RateLimit
           \/ disp \in {"check", "done"} /\ next <= Pos(j) + 2 + RateLimit
    /\ \A j \in Jobs : pc[j] \in {"granted", "lookup"} => taken <= Pos(j) + 2 + RateLimit

LEMMA PacedStep ==
    ASSUME Prompt = TRUE, Faults \subseteq {"fatal"}, PipelineInv, LivesInOrder, Paced, [Next]_vars
    PROVE  Paced'
<1>0. /\ next \in Nat /\ taken \in Nat /\ taken <= next /\ RateLimit \in Nat
      /\ \A j \in Jobs : Pos(j) \in Nat
      /\ disp \in {"check", "finalized", "send", "hung", "done"}
  BY Parameters, Positions DEF PipelineInv, TypeOK
<1> USE DEF flow, flags
<1>1. disp' # "hung"
  BY ControlKinds
  DEF Dispatcher, DispatchCheck, DispatchClean, DispatchSend, DispatchEnd, TakeTask,
      DownloaderEnd, EndCheck, RunStop, RunFinish, Paced, LivesInOrder
<1>2. next' <= taken' + RateLimit
  <2>1. CASE \E s \in Slots : TakeTask(s)
    <3>1. next' = next /\ taken' = taken + 1
      BY <2>1 DEF TakeTask
    <3> QED
      BY <1>0, <3>1 DEF Paced
  <2>2. CASE DispatchSend
    <3>1. next' = next + 1 /\ taken' = taken /\ next - taken < RateLimit
      BY <2>2 DEF DispatchSend
    <3> QED
      BY <1>0, <3>1
  <2>3. CASE UNCHANGED <<next, taken>>
    BY <2>3 DEF Paced
  <2> QED
    BY <2>1, <2>2, <2>3, ControlKinds
    DEF Dispatcher, DispatchCheck, DispatchClean, DispatchEnd, DownloaderEnd, EndCheck, RunStop,
        RunFinish
<1>3. ASSUME NEW j \in Jobs, pc'[j] = "queued"
      PROVE  \/ disp' \in {"finalized", "send"} /\ next' <= Pos(j) + 1 + RateLimit
             \/ disp' \in {"check", "done"} /\ next' <= Pos(j) + 2 + RateLimit
  <2>1. CASE pc[j] # "queued"
    <3>1. Pos(j) = taken - 1 /\ next' = next /\ disp' = disp
      BY <1>3, <2>1, HowItBegins
    <3>2. next <= Pos(j) + 1 + RateLimit
      BY <1>0, <3>1 DEF Paced
    <3> QED
      BY <1>0, <1>1, <3>1, <3>2
  <2>2. CASE pc[j] = "queued"
    <3>1. ~DispatchCheck
      <4>1. PICK i \in 1..Len(queue) : queue[i] = j
        BY <2>2 DEF PipelineInv, QueueInOrder
      <4>2. queue # <<>>
        BY <4>1, EmptySeq
      <4> QED
        BY <4>2, TokensFinite, AllShown, Parameters DEF DispatchCheck, PipelineInv, QueueInOrder
    <3>2. CASE DispatchClean
      BY <1>0, <1>1, <2>2, <3>2 DEF DispatchClean, Paced
    <3>3. CASE DispatchSend
      BY <1>0, <2>2, <3>3 DEF DispatchSend, Paced
    <3>4. CASE DispatchEnd
      BY <1>0, <2>2, <3>4 DEF DispatchEnd, Paced
    <3>5. CASE UNCHANGED <<next, disp>>
      BY <2>2, <3>5 DEF Paced
    <3> QED
      BY <3>1, <3>2, <3>3, <3>4, <3>5, ControlKinds
      DEF Dispatcher, TakeTask, DownloaderEnd, EndCheck, RunStop, RunFinish
  <2> QED
    BY <2>1, <2>2
<1>4. ASSUME NEW j \in Jobs, pc'[j] \in {"granted", "lookup"}
      PROVE  taken' <= Pos(j) + 2 + RateLimit
  <2>1. CASE pc[j] \notin {"granted", "lookup"}
    <3>1. /\ taken' = taken /\ pc[j] \in {"fresh", "queued"}
          /\ pc[j] = "fresh" => Pos(j) = taken - 1
      BY <1>4, <2>1, HowItBegins
    <3>2. CASE pc[j] = "fresh"
      BY <1>0, <3>1, <3>2
    <3>3. CASE pc[j] = "queued"
      <4>1. next <= Pos(j) + 2 + RateLimit
        BY <1>0, <3>3 DEF Paced
      <4> QED
        BY <1>0, <3>1, <4>1
    <3> QED
      BY <3>1, <3>2, <3>3
  <2>2. CASE pc[j] \in {"granted", "lookup"}
    <3>1. \A s \in Slots : ~TakeTask(s)
      BY <2>2 DEF TakeTask, Settled, LivesInOrder
    <3>2. taken' = taken
      BY <3>1, ControlKinds
      DEF Dispatcher, DispatchCheck, DispatchClean, DispatchSend, DispatchEnd, DownloaderEnd,
          EndCheck, RunStop, RunFinish
    <3> QED
      BY <2>2, <3>2 DEF Paced
  <2> QED
    BY <2>1, <2>2
<1>5. (\A j \in Jobs : pc[j] = "queued" =>
           \/ disp \in {"finalized", "send"} /\ next <= Pos(j) + 1 + RateLimit
           \/ disp \in {"check", "done"} /\ next <= Pos(j) + 2 + RateLimit)'
  BY <1>3
<1>6. (\A j \in Jobs : pc[j] \in {"granted", "lookup"} => taken <= Pos(j) + 2 + RateLimit)'
  BY <1>4
<1> QED
  BY <1>1, <1>2, <1>5, <1>6 DEF Paced
-----------------------------------------------------------------------------
(* The gate, and what may be evicted.                                      *)

\* The sizes of the code: a buffer of 5 tasks, 32 pages, 32 slots an epoch and 5
\* epochs kept.
Sizes ==
    /\ RateLimit < SlotsPerEpoch
    /\ MaxPages + RateLimit <= (KeepEpochs - 3) * SlotsPerEpoch

LEMMA SizesInSlots ==
    ASSUME Sizes
    PROVE  /\ KeepEpochs >= 4
           /\ KeepEpochs * SlotsPerEpoch \in Nat
           /\ MaxPages + RateLimit + 3 * SlotsPerEpoch <= KeepEpochs * SlotsPerEpoch
<1> DEFINE k == KeepEpochs - 3
<1>1. k \in Int /\ k * SlotsPerEpoch \in Int /\ KeepEpochs = k + 3
  BY Parameters
<1>2. (k + 3) * SlotsPerEpoch = k * SlotsPerEpoch + 3 * SlotsPerEpoch
  <2> HIDE DEF k
  <2> QED
    BY <1>1, Parameters
<1>3. KeepEpochs * SlotsPerEpoch \in Nat
  BY Parameters
<1>4. MaxPages + RateLimit <= k * SlotsPerEpoch
  BY DEF Sizes
<1>5. k > 0
  <2> HIDE DEF k
  <2> SUFFICES ASSUME k <= 0 PROVE FALSE
    BY <1>1
  <2>1. k * SlotsPerEpoch <= 0
    BY <1>1, Parameters
  <2> QED
    BY <1>1, <1>4, <2>1, Parameters
<1> HIDE DEF k
<1> QED
  BY <1>1, <1>2, <1>3, <1>4, <1>5, Parameters

\* Where the slots of an epoch two or more later lie.
LEMMA TwoEpochsOn ==
    ASSUME NEW e \in Nat, NEW s \in Nat
    PROVE  EpochOf(s) >= e + 2 <=> s >= FirstSlot(e) + 2 * SlotsPerEpoch
<1>1. /\ FirstSlot(e + 2) = FirstSlot(e) + 2 * SlotsPerEpoch /\ FirstSlot(e) \in Int
      /\ FirstSlot(e + 2) \in Int
  BY Parameters DEF FirstSlot
<1> DEFINE h == EpochOf(s)
<1>2. /\ h \in Nat /\ FirstSlot(h) \in Int
      /\ FirstSlot(h) <= s /\ s < FirstSlot(h) + SlotsPerEpoch
  BY EpochAround, FirstSlots
<1> HIDE DEF h
<1>3. h < e + 2 => FirstSlot(h) + SlotsPerEpoch <= FirstSlot(e + 2)
  BY <1>2, EpochsApart
<1>4. e + 2 < h => FirstSlot(e + 2) + SlotsPerEpoch <= FirstSlot(h)
  BY <1>2, EpochsApart
<1>5. h >= e + 2 <=> s >= FirstSlot(e) + 2 * SlotsPerEpoch
  <2>1. CASE h < e + 2
    BY <1>1, <1>2, <1>3, <2>1, Parameters
  <2>2. CASE h = e + 2
    BY <1>1, <1>2, <2>2, Parameters
  <2>3. CASE e + 2 < h
    BY <1>1, <1>2, <1>4, <2>3, Parameters
  <2> QED
    BY <1>2, <2>1, <2>2, <2>3
<1> QED
  BY <1>5 DEF h

\* No block is requested before the state two epochs before it is processed.
GateHolds ==
    \A e \in Epochs, s \in Slots :
        pc[Transition(e)] # "done" /\ EpochOf(s) >= e + 2 => blk[s] \in {"none", "gate"}

\* A processer of an epoch two or more before a slot that has been taken waits
\* no longer.
LEMMA NoneWaitsBehind ==
    ASSUME RateLimit < SlotsPerEpoch, PipelineInv, FaultFree, Paced,
           NEW e \in Epochs, NEW s \in Slots, s < taken, EpochOf(s) >= e + 2
    PROVE  HasToken(Transition(e)) \/ pc[Transition(e)] = "done"
<1> DEFINE j == Transition(e)
<1>0. /\ next \in Nat /\ taken \in Nat /\ taken <= next /\ RateLimit \in Nat
      /\ e \in Nat /\ s \in Nat /\ SlotsPerEpoch \in Nat /\ SlotsPerEpoch > 0
  BY Parameters, Positions, EpochsInRange DEF PipelineInv, TypeOK
<1>1. /\ j \in Jobs /\ Pos(j) = FirstSlot(e) + SlotsPerEpoch - 1 /\ FirstSlot(e) \in Int
      /\ pc[j] \in Labels
  BY Positions, EpochsInRange, TypeOKLabels DEF PipelineInv
<1>2. s >= FirstSlot(e) + 2 * SlotsPerEpoch
  BY <1>0, TwoEpochsOn
<1> HIDE DEF j
<1>3. taken >= Pos(j) + SlotsPerEpoch + 2
  BY <1>0, <1>1, <1>2
<1>4. pc[j] # "none"
  BY <1>0, <1>1, <1>3 DEF PipelineInv, InOrder
<1>5. pc[j] # "fresh"
  BY <1>0, <1>1, <1>3 DEF PipelineInv, InOrder
<1>6. pc[j] # "queued"
  <2>1. pc[j] = "queued" => next <= Pos(j) + 2 + RateLimit
    BY <1>0, <1>1 DEF Paced
  <2> QED
    BY <1>0, <1>1, <1>3, <2>1
<1>7. pc[j] # "aborted"
  BY <1>1 DEF FaultFree
<1> QED
  BY <1>1, <1>4, <1>5, <1>6, <1>7 DEF HasToken, Labels, j

LEMMA GateStep ==
    ASSUME Prompt = TRUE, Faults \subseteq {"fatal"}, RateLimit < SlotsPerEpoch,
           PipelineInv, FaultFree, RequestsInLine, LivesInOrder, ReadInOrder, Paced, GateHolds, [Next]_vars
    PROVE  GateHolds'
<1> SUFFICES ASSUME NEW e \in Epochs, NEW s \in Slots,
                    pc'[Transition(e)] # "done", EpochOf(s) >= e + 2
             PROVE  blk'[s] \in {"none", "gate"}
  BY DEF GateHolds
<1>0. /\ TypeOK /\ InOrder /\ QueueInOrder /\ CacheSteps /\ Quiet
      /\ Transition(e) \in Jobs /\ e \in Nat /\ e >= InitEpoch
      /\ s \in Nat /\ s <= FinalSlot /\ InitEpoch \in Nat
  BY CacheKinds, Positions, EpochsInRange DEF PipelineInv
<1>1. pc[Transition(e)] # "done"
  BY <1>0, FinishedStays
<1>2. blk[s] \in {"none", "gate"}
  BY <1>1 DEF GateHolds
<1>3. ~RequestBlock(s)
  <2> SUFFICES ASSUME RequestBlock(s) PROVE FALSE
    OBVIOUS
  <2> DEFINE h == EpochOf(s) - 2
  <2>1. ~ctxDone
    <3> SUFFICES ASSUME ctxDone PROVE FALSE
      OBVIOUS
    <3>1. dl = "done"
      BY DEF FaultFree
    <3> QED
      BY <1>0, <1>1, <3>1, AllThrough
  <2>2. blk[s] = "gate" /\ GateOpen(s) /\ s < taken
    BY <2>1 DEF RequestBlock, LivesInOrder
  <2>3. h \in Nat /\ h >= e /\ EpochOf(s) = h + 2 /\ EpochOf(s) >= h + 2
    BY <1>0, EpochAround
  <2>4. /\ FirstSlot(h) \in Int /\ LastSlot(h) = FirstSlot(h) + SlotsPerEpoch - 1
        /\ s >= FirstSlot(h) + 2 * SlotsPerEpoch
    BY <1>0, <2>3, TwoEpochsOn, FirstSlots
  <2>5. h \in Epochs
    <3>1. h < EpochOf(FinalSlot)
      <4> SUFFICES ASSUME EpochOf(FinalSlot) <= h PROVE FALSE
        BY <2>3, EpochsInRange
      <4>1. FinalSlot <= FirstSlot(h)
        <5>1. EpochOf(FinalSlot) = h \/ EpochOf(FinalSlot) < h
          BY <2>3, EpochsInRange
        <5>2. EpochOf(FinalSlot) < h => FinalSlot + SlotsPerEpoch <= FirstSlot(h)
          BY <2>3, EpochsInRange, EpochsApart
        <5> QED
          BY <2>4, <5>1, <5>2, EpochsInRange, Parameters
      <4> QED
        BY <1>0, <2>4, <4>1, Parameters
    <3> QED
      BY <1>0, <2>3, <3>1, EpochsInRange DEF Epochs
  <2>6. LastSlot(h) >= InitSlot
    BY <2>4, <2>5, EpochsInRange, Parameters
  <2>7. FirstSlot(h) >= 0 /\ s >= 2 * SlotsPerEpoch
    <3> HIDE DEF h
    <3>1. FirstSlot(h) >= InitSlot
      BY <2>5, EpochsInRange
    <3> QED
      BY <1>0, <2>4, <3>1, Parameters
  <2>8. ~HasToken(Transition(h))
    <3>1. ~PageActive(Transition(h)) /\ Registered
      BY <2>2, <2>6, <2>7 DEF GateOpen, Inactive
    <3> QED
      BY <2>5, <3>1, Positions, AllShown
  <2>9. pc[Transition(h)] = "done"
    BY <2>2, <2>3, <2>5, <2>8, NoneWaitsBehind
  <2>10. h = e \/ e < h
    BY <1>0, <2>3
  <2> HIDE DEF h
  <2> QED
    BY <1>1, <2>5, <2>9, <2>10 DEF ReadInOrder
<1> QED
  BY <1>0, <1>2, <1>3, Lives

\* What is evicted has been read by all its readers, and a clean under way will
\* evict nothing else.
EvictedLate ==
    /\ \A e \in Epochs : st[e] = "evicted" => e + 2 \in Epochs /\ pc[Transition(e + 2)] = "done"
    /\ \A s \in Slots : blk[s] = "evicted" =>
           pc[Block(s)] \notin {"none", "fresh", "queued", "granted", "lookup"}
    /\ disp = "finalized" /\ MustClean =>
           \A e \in Epochs : FirstSlot(e - 2) < next - KeepEpochs * SlotsPerEpoch =>
               pc[Transition(e)] = "done"

\* A processer that is not through holds up the blocks of the epochs from the
\* second after it on.  They fill the book before the loop comes to a clean of
\* what it reads.
LEMMA BookFills ==
    ASSUME Sizes, PipelineInv, FaultFree, LivesInOrder, ReadInOrder, Paced, GateHolds,
           Tokens > 0, next <= FinalSlot,
           NEW e \in Epochs,
           FirstSlot(e) + 2 * SlotsPerEpoch + MaxPages + RateLimit <= next
    PROVE  pc[Transition(e)] = "done"
<1> SUFFICES ASSUME pc[Transition(e)] # "done" PROVE FALSE
  OBVIOUS
<1> DEFINE F == FirstSlot(e) + 2 * SlotsPerEpoch
           Busy == {j \in Jobs : HasToken(j)}
<1>0. /\ next \in Nat /\ taken \in Nat /\ taken <= next /\ next <= taken + RateLimit
      /\ RateLimit \in Nat /\ e \in Nat /\ SlotsPerEpoch \in Nat /\ SlotsPerEpoch > 0
      /\ MaxPages \in Nat /\ MaxPages > 0 /\ InitSlot \in Nat /\ FinalSlot \in Nat
      /\ FirstSlot(e) \in Int /\ FirstSlot(e) >= InitSlot
      /\ pc \in [Jobs -> Labels]
  <2>1. /\ RateLimit \in Nat /\ SlotsPerEpoch \in Nat /\ SlotsPerEpoch > 0
        /\ MaxPages \in Nat /\ MaxPages > 0 /\ InitSlot \in Nat /\ FinalSlot \in Nat
    BY Parameters
  <2>2. next \in Nat /\ taken \in Nat /\ taken <= next
    BY <2>1 DEF PipelineInv, TypeOK
  <2>3. e \in Nat /\ FirstSlot(e) \in Int /\ FirstSlot(e) >= InitSlot
    BY EpochsInRange
  <2>4. pc \in [Jobs -> Labels]
    BY TypeOKLabels DEF PipelineInv
  <2> QED
    BY <2>1, <2>2, <2>3, <2>4 DEF Paced
<1>1. F \in Nat /\ F >= InitSlot /\ F + MaxPages <= taken /\ taken <= FinalSlot
  BY <1>0
<1>2. queue = <<>>
  BY TokensFinite, Parameters DEF PipelineInv, QueueInOrder
<1>3. \A j \in Jobs : pc[j] # "queued" /\ pc[j] # "aborted"
  BY <1>2, EmptySeq DEF PipelineInv, QueueInOrder, FaultFree
<1>4. ASSUME NEW s \in F..(F + MaxPages - 2)
      PROVE  Block(s) \in Busy
  <2>1. s \in Nat /\ F <= s /\ s < taken - 1 /\ s \in Slots
    BY <1>0, <1>1 DEF Slots
  <2>2. Block(s) \in Jobs /\ Pos(Block(s)) = s
    BY <2>1, Positions
  <2>3. EpochOf(s) >= e + 2
    BY <1>0, <2>1, TwoEpochsOn
  <2>4. blk[s] \in {"none", "gate"}
    BY <2>1, <2>3 DEF GateHolds
  <2>5. pc[Block(s)] \notin {"persist", "done"}
    BY <2>1, <2>4 DEF ReadInOrder, Cached
  <2>6. pc[Block(s)] # "none"
    BY <1>0, <2>1, <2>2 DEF PipelineInv, InOrder
  <2>7. pc[Block(s)] # "fresh"
    BY <1>0, <2>1, <2>2 DEF PipelineInv, InOrder
  <2> QED
    BY <1>3, <2>2, <2>5, <2>6, <2>7 DEF HasToken
<1>5. Transition(e) \in Busy
  <2>1. F \in Slots /\ F < taken /\ EpochOf(F) >= e + 2
    <3>1. F \in Slots /\ F < taken
      BY <1>0, <1>1 DEF Slots
    <3> QED
      BY <1>0, <1>1, <3>1, TwoEpochsOn
  <2> HIDE DEF F
  <2>2. HasToken(Transition(e))
    BY <2>1, NoneWaitsBehind DEF Sizes
  <2> QED
    BY <2>2, Positions
<1> DEFINE f == [i \in 1..MaxPages |-> IF i = MaxPages THEN Transition(e) ELSE Block(F + i - 1)]
<1>6. f \in [1..MaxPages -> Busy]
  <2>1. ASSUME NEW i \in 1..MaxPages PROVE f[i] \in Busy
    <3>1. CASE i = MaxPages
      BY <1>5, <3>1
    <3>2. CASE i # MaxPages
      <4>1. F + i - 1 \in F..(F + MaxPages - 2)
        BY <1>0, <1>1, <3>2
      <4>2. Block(F + i - 1) \in Busy
        BY <1>4, <4>1
      <4> QED
        BY <3>2, <4>2
    <3> QED
      BY <3>1, <3>2
  <2> QED
    BY <2>1
<1>7. \A i, k \in 1..MaxPages : f[i] = f[k] => i = k
  <2> SUFFICES ASSUME NEW i \in 1..MaxPages, NEW k \in 1..MaxPages, f[i] = f[k] PROVE i = k
    OBVIOUS
  <2>1. \A x, y : Block(x) = Block(y) => x = y
    BY DEF Block
  <2>2. \A x, y : Block(x) # Transition(y)
    BY DEF Block, Transition
  <2>3. f[i] = (IF i = MaxPages THEN Transition(e) ELSE Block(F + i - 1))
        /\ f[k] = (IF k = MaxPages THEN Transition(e) ELSE Block(F + k - 1))
    OBVIOUS
  <2>4. i = MaxPages <=> k = MaxPages
    BY <2>2, <2>3
  <2>5. i # MaxPages => F + i - 1 = F + k - 1
    BY <2>1, <2>3, <2>4
  <2> HIDE DEF F, f
  <2> QED
    BY <1>0, <1>1, <2>4, <2>5
<1>8. f \in Injection(1..MaxPages, Busy)
  BY <1>6, <1>7 DEF Injection, IsInjective
<1>9. Cardinality(1..MaxPages) <= Cardinality(Busy)
  BY <1>8, TokensFinite, FS_Injection
<1>10. Cardinality(1..MaxPages) = MaxPages
  BY <1>0, FS_Interval
<1>11. Held < MaxPages /\ Held \in Nat /\ Held = Cardinality(Busy)
  BY TokensFinite DEF Held
<1> HIDE DEF Busy, f
<1> QED
  BY <1>0, <1>9, <1>10, <1>11

\* A clean evicts states that have been read by the epoch two later.
LEMMA EvictedWereRead ==
    ASSUME Sizes, PipelineInv, EvictedLate, DispatchClean, MustClean,
           NEW e \in Epochs, FirstSlot(e) < next - KeepEpochs * SlotsPerEpoch
    PROVE  e + 2 \in Epochs /\ pc[Transition(e + 2)] = "done"
<1>1. /\ disp = "finalized" /\ next <= FinalSlot /\ next \in Nat /\ FinalSlot \in Nat
  BY Parameters DEF DispatchClean, PipelineInv, SendInRange, TypeOK
<1>2. /\ e \in Nat /\ e >= InitEpoch /\ InitEpoch \in Nat /\ FirstSlot(e) \in Int
      /\ EpochOf(FinalSlot) \in Nat /\ FirstSlot(EpochOf(FinalSlot)) = FinalSlot
      /\ e < EpochOf(FinalSlot)
  BY EpochsInRange
<1>3. e + 2 < EpochOf(FinalSlot)
  <2> SUFFICES ASSUME EpochOf(FinalSlot) <= e + 2 PROVE FALSE
    BY <1>2
  <2>1. FirstSlot(e + 3) = FirstSlot(e) + 3 * SlotsPerEpoch /\ FirstSlot(e + 3) \in Int
    BY <1>2, Parameters DEF FirstSlot
  <2>2. EpochOf(FinalSlot) < e + 3 /\ e + 3 \in Int
    BY <1>2
  <2>3. FinalSlot + SlotsPerEpoch <= FirstSlot(e + 3)
    BY <1>2, <2>2, EpochsApart
  <2> QED
    BY <1>1, <1>2, <2>1, <2>3, SizesInSlots, Parameters
<1>4. e + 2 \in Epochs
  BY <1>2, <1>3 DEF Epochs
<1>5. (e + 2) - 2 = e
  BY <1>2
<1>6. FirstSlot((e + 2) - 2) < next - KeepEpochs * SlotsPerEpoch
  BY <1>5
<1> QED
  BY <1>1, <1>4, <1>6 DEF EvictedLate

\* The blocks it evicts have been found by their processers.
LEMMA EvictedWereFound ==
    ASSUME Sizes, PipelineInv, Paced, DispatchClean, MustClean,
           NEW s \in Slots, Evicted(EpochOf(s))
    PROVE  pc[Block(s)] \notin {"none", "fresh", "queued", "granted", "lookup"}
<1> DEFINE j == Block(s)
           F == FirstSlot(EpochOf(s))
           K == KeepEpochs * SlotsPerEpoch
<1>0. /\ RateLimit \in Nat /\ SlotsPerEpoch \in Nat /\ SlotsPerEpoch > 0
      /\ MaxPages \in Nat /\ InitSlot \in Nat
  BY Parameters
<1>1. next \in Nat /\ taken \in Nat /\ next <= taken + RateLimit /\ disp = "finalized"
  BY <1>0 DEF PipelineInv, TypeOK, Paced, DispatchClean
<1>2. s \in Nat /\ j \in Jobs /\ Pos(j) = s
  BY Positions
<1>3. F \in Int /\ s < F + SlotsPerEpoch /\ F < next - K
  BY <1>2, EpochAround, FirstSlots DEF Evicted
<1>4. K \in Nat /\ MaxPages + RateLimit + 3 * SlotsPerEpoch <= K /\ RateLimit < SlotsPerEpoch
  BY SizesInSlots DEF Sizes
<1> HIDE DEF j, F, K
<1>5. next > s + 2 * SlotsPerEpoch + RateLimit + MaxPages
  BY <1>0, <1>1, <1>2, <1>3, <1>4
<1>6. taken > s + 2 * SlotsPerEpoch /\ taken > s + 2 + RateLimit
  BY <1>0, <1>1, <1>2, <1>4, <1>5
<1>7. pc[j] # "none" /\ pc[j] # "fresh"
  BY <1>0, <1>1, <1>2, <1>6 DEF PipelineInv, InOrder
<1>8. pc[j] # "queued"
  <2>1. pc[j] = "queued" => next <= s + 1 + RateLimit
    BY <1>1, <1>2 DEF Paced
  <2> QED
    BY <1>0, <1>1, <1>2, <1>5, <2>1
<1>9. pc[j] \notin {"granted", "lookup"}
  <2>1. pc[j] \in {"granted", "lookup"} => taken <= s + 2 + RateLimit
    BY <1>2 DEF Paced
  <2> QED
    BY <1>0, <1>1, <1>2, <1>6, <2>1
<1> QED
  BY <1>7, <1>8, <1>9 DEF j

\* The loop comes to the clean with a free page.
LEMMA CleanIsDue ==
    ASSUME Prompt = TRUE, Sizes, PipelineInv, FaultFree, LivesInOrder, ReadInOrder, Paced,
           GateHolds, DispatchCheck, next % SlotsPerEpoch = 0,
           NEW e \in Epochs, FirstSlot(e - 2) < next - KeepEpochs * SlotsPerEpoch
    PROVE  pc[Transition(e)] = "done"
<1> DEFINE E == EpochOf(next)
           K == KeepEpochs * SlotsPerEpoch
           x == e - 2 + KeepEpochs
<1>0. /\ next \in Nat /\ next <= FinalSlot /\ Tokens > 0
      /\ e \in Nat /\ FirstSlot(e) \in Int /\ SlotsPerEpoch \in Nat /\ SlotsPerEpoch > 0
      /\ RateLimit \in Nat /\ MaxPages \in Nat /\ KeepEpochs \in Nat
  BY Parameters, EpochsInRange, AllShown DEF PipelineInv, TypeOK, DispatchCheck
<1>1. E \in Nat /\ FirstSlot(E) = next
  BY <1>0, EpochAround, MultipleOfEpoch
<1>2. FirstSlot(x) = FirstSlot(e - 2) + K /\ x \in Int /\ FirstSlot(e - 2) \in Int /\ K \in Int
      /\ FirstSlot(e) = FirstSlot(e - 2) + 2 * SlotsPerEpoch
  <2>1. x * SlotsPerEpoch = (e - 2) * SlotsPerEpoch + KeepEpochs * SlotsPerEpoch
    BY <1>0
  <2>2. e * SlotsPerEpoch = (e - 2) * SlotsPerEpoch + 2 * SlotsPerEpoch
    BY <1>0
  <2> QED
    BY <1>0, <2>1, <2>2 DEF FirstSlot
<1>3. K >= MaxPages + RateLimit + 3 * SlotsPerEpoch
  BY SizesInSlots
<1> HIDE DEF E, K, x
<1>4. x < E
  <2>1. E < x => FirstSlot(E) + SlotsPerEpoch <= FirstSlot(x)
    BY <1>1, <1>2, EpochsApart
  <2>2. FirstSlot(x) < FirstSlot(E)
    BY <1>0, <1>1, <1>2 DEF K
  <2> QED
    BY <1>0, <1>1, <1>2, <2>1, <2>2
<1>5. FirstSlot(x) + SlotsPerEpoch <= next
  BY <1>1, <1>2, <1>4, EpochsApart
<1>6. FirstSlot(e) + 2 * SlotsPerEpoch + MaxPages + RateLimit <= next
  BY <1>0, <1>2, <1>3, <1>5
<1> QED
  BY <1>0, <1>6, BookFills

LEMMA EvictStep ==
    ASSUME Prompt = TRUE, Faults \subseteq {"fatal"}, Sizes, PipelineInv, FaultFree, RequestsInLine,
           LivesInOrder, ReadInOrder, Paced, GateHolds, EvictedLate, [Next]_vars
    PROVE  EvictedLate'
<1>0. /\ TypeOK /\ InOrder /\ QueueInOrder /\ CacheSteps
  BY CacheKinds DEF PipelineInv
<1>1. ASSUME NEW e \in Epochs, st'[e] = "evicted"
      PROVE  e + 2 \in Epochs /\ pc'[Transition(e + 2)] = "done"
  <2>1. e + 2 \in Epochs /\ pc[Transition(e + 2)] = "done"
    <3>1. CASE st[e] = "evicted"
      BY <3>1 DEF EvictedLate
    <3>2. CASE st[e] # "evicted"
      <4>1. DispatchClean /\ MustClean /\ FirstSlot(e) < next - KeepEpochs * SlotsPerEpoch
        BY <1>0, <1>1, <3>2, Lives DEF Evicted
      <4> QED
        BY <4>1, EvictedWereRead
    <3> QED
      BY <3>1, <3>2
  <2>2. Transition(e + 2) \in Jobs
    BY <2>1, Positions
  <2> QED
    BY <1>0, <2>1, <2>2, FinishedStays
<1>2. ASSUME NEW s \in Slots, blk'[s] = "evicted",
             pc'[Block(s)] \in {"none", "fresh", "queued", "granted", "lookup"}
      PROVE  FALSE
  <2>1. pc[Block(s)] \in {"none", "fresh", "queued", "granted", "lookup"} /\ Block(s) \in Jobs
    BY <1>2, HowItBegins, Positions
  <2>2. blk[s] # "evicted"
    BY <2>1 DEF EvictedLate
  <2>3. DispatchClean /\ MustClean /\ Evicted(EpochOf(s))
    BY <1>0, <1>2, <2>2, Lives
  <2> QED
    BY <2>1, <2>3, EvictedWereFound
<1>3. ASSUME disp' = "finalized", MustClean', NEW e \in Epochs,
             FirstSlot(e - 2) < next' - KeepEpochs * SlotsPerEpoch
      PROVE  pc'[Transition(e)] = "done"
  <2>1. next' = next
    BY <1>3, ControlKinds
    DEF Dispatcher, DispatchCheck, DispatchClean, DispatchSend, DispatchEnd, TakeTask,
        DownloaderEnd, EndCheck, RunStop, RunFinish, flow
  <2>2. CASE disp = "finalized"
    <3>1. pc[Transition(e)] = "done"
      BY <1>3, <2>1, <2>2 DEF EvictedLate, MustClean
    <3> QED
      BY <1>0, <3>1, FinishedStays, Positions
  <2>3. CASE disp # "finalized"
    <3>1. DispatchCheck /\ next % SlotsPerEpoch = 0
      BY <1>3, <2>3, ControlKinds
      DEF Dispatcher, DispatchCheck, DispatchClean, DispatchSend, DispatchEnd, TakeTask,
          DownloaderEnd, EndCheck, RunStop, RunFinish, flow
    <3>2. pc[Transition(e)] = "done"
      BY <1>3, <2>1, <3>1, CleanIsDue
    <3> QED
      BY <1>0, <3>2, FinishedStays, Positions
  <2> QED
    BY <2>2, <2>3
<1> QED
  BY <1>1, <1>2, <1>3 DEF EvictedLate

\* The invariants of the cache.
CacheInv ==
    /\ RequestsInLine /\ LivesInOrder /\ ReadInOrder
    /\ Paced /\ GateHolds /\ EvictedLate

LEMMA CacheInvInit == Init => CacheInv
<1> SUFFICES ASSUME Init PROVE CacheInv
  OBVIOUS
<1>1. /\ \A j \in Jobs : pc[j] = "none"
      /\ \A s \in Slots : blk[s] = "none" /\ pc[Block(s)] = "none"
      /\ \A e \in Epochs : st[e] = "none" /\ pc[Transition(e)] = "none"
  BY Positions DEF Init
<1>2. RequestsInLine
  <2>1. Len(blockReqs) = 0 /\ Len(stateReqs) = 0
    BY EmptySeq DEF Init
  <2> QED
    BY <2>1 DEF RequestsInLine, InLine
<1>3. LivesInOrder
  <2>1. \A s \in Slots : ~(s < taken)
    BY Parameters DEF Init, Slots
  <2> QED
    BY <1>1, <2>1 DEF LivesInOrder, Cached, Init
<1>4. ReadInOrder /\ GateHolds /\ EvictedLate
  BY <1>1 DEF ReadInOrder, GateHolds, EvictedLate, Reading, Init
<1>5. Paced
  BY <1>1, Parameters DEF Paced, Init
<1> QED
  BY <1>2, <1>3, <1>4, <1>5 DEF CacheInv

LEMMA CacheInvStep ==
    ASSUME Prompt = TRUE, Faults \subseteq {"fatal"}, Sizes, PipelineInv, FaultFree, CacheInv,
           [Next]_vars
    PROVE  CacheInv'
<1>1. CacheSteps
  BY CacheKinds DEF CacheInv
<1> QED
  BY <1>1, RequestsStep, LivesStep, ReadStep, PacedStep, GateStep, EvictStep
  DEF CacheInv, Sizes

LEMMA NeededInv ==
    ASSUME PipelineInv, CacheInv
    PROVE  NeededNotEvicted
<1>1. \A s \in Slots : pc[Block(s)] \in {"none", "fresh", "queued", "granted", "lookup"} =>
          blk[s] # "evicted"
  BY DEF CacheInv, EvictedLate
<1>2. ASSUME NEW s \in Slots, EpochOf(s) - 2 \in Epochs, blk[s] \in {"none", "gate"},
             st[EpochOf(s) - 2] = "evicted"
      PROVE  FALSE
  <2> DEFINE h == EpochOf(s)
  <2>1. s \in Nat /\ h \in Nat /\ (h - 2) + 2 = h
    BY Positions, EpochAround
  <2>2. h \in Epochs /\ pc[Transition(h)] = "done"
    <3>1. (h - 2) + 2 \in Epochs /\ pc[Transition((h - 2) + 2)] = "done"
      BY <1>2 DEF CacheInv, EvictedLate
    <3> QED
      BY <2>1, <3>1
  <2>3. s \in SlotsOf(h)
    BY <2>1, EpochAround, FirstSlots, Parameters DEF SlotsOf
  <2> HIDE DEF h
  <2>4. Cached(blk[s])
    BY <2>2, <2>3 DEF CacheInv, ReadInOrder, LivesInOrder
  <2> QED
    BY <1>2, <2>4 DEF Cached
<1>3. ASSUME NEW e \in Epochs, pc[Transition(e)] \notin {"metrics", "done", "aborted"},
             NEW k \in {e - 2, e - 1, e} \intersect Epochs, st[k] = "evicted"
      PROVE  FALSE
  <2>1. k + 2 \in Epochs /\ pc[Transition(k + 2)] = "done"
    BY <1>3 DEF CacheInv, EvictedLate
  <2>2. k + 2 = e \/ e < k + 2
    BY EpochsInRange
  <2> QED
    BY <1>3, <2>1, <2>2 DEF CacheInv, ReadInOrder
<1> QED
  BY <1>1, <1>2, <1>3 DEF NeededNotEvicted

\* With the sizes of the code, CleanUpTo never takes away a block or a state
\* that a processer has yet to read or a download waits for: it would sleep on
\* the key for ever.
THEOREM NeededIsKept ==
    ASSUME Prompt = TRUE, Faults \subseteq {"fatal"}, Sizes
    PROVE  Spec => []NeededNotEvicted
<1>1. Init => PipelineInv /\ FaultFree /\ CacheInv
  BY PipelineInvInit, FaultFreeInit, CacheInvInit
<1>2. PipelineInv /\ FaultFree /\ CacheInv /\ [Next]_vars => (PipelineInv /\ FaultFree /\ CacheInv)'
  BY PipelineInvStep, FaultFreeStep, CacheInvStep
<1>3. PipelineInv /\ CacheInv => NeededNotEvicted
  BY NeededInv
<1> QED
  BY <1>1, <1>2, <1>3, PTL DEF Spec
=============================================================================
