-------------------------- MODULE HeadFollowerProofs --------------------------
(***************************************************************************)
(* The finalized mode implements SlotFeed, never writes an announced block *)
(* down as missed, and asks for states by the root of their event: for     *)
(* every chain, every length of the channels and every lag that the        *)
(* retries of a block request cover.                                       *)
(***************************************************************************)
EXTENDS HeadFollower, TLAPS

\* What the loops of runHead and the downloader keep: the channel of tasks holds
\* the slots from the next one of the downloader up to the next one of runHead,
\* which is at most one past the newest slot that is known.
InTurn ==
    /\ announced \in Nat /\ HeadSlot <= announced
    /\ fed \in Nat /\ InitSlot <= fed
    /\ tasks \in Seq(Nat)
    /\ next = fed + Len(tasks)
    /\ \A i \in 1..Len(tasks) : tasks[i] = fed + i - 1
    /\ next <= announced + 1

\* Slots of events are known.
EventsKnown ==
    /\ headChan \in Seq(Nat)
    /\ \A i \in 1..Len(headChan) : headChan[i] <= announced
    /\ phase = "dispatch" => at \in Nat /\ at <= announced

FeedInv == InTurn /\ EventsKnown

\* The parameters that the steps below use.
LEMMA Parameters ==
    /\ InitSlot \in Nat /\ HeadSlot \in Nat /\ LastSlotOfRun \in Nat
    /\ InitSlot <= HeadSlot /\ Slots \subseteq Nat
    /\ SlotsPerEpoch \in Nat /\ SlotsPerEpoch > 0
BY HeadAssumption DEF Slots

\* One slot more at the end of the channel of tasks.
LEMMA SendInTurn ==
    ASSUME FeedInv, next <= announced, Send,
           UNCHANGED <<announced, fed, headChan, at>>,
           phase' = phase
    PROVE  FeedInv'
<1>1. next \in Nat
  BY DEF FeedInv, InTurn
<1>2. tasks' \in Seq(Nat) /\ Len(tasks') = Len(tasks) + 1
  BY <1>1 DEF Send, FeedInv, InTurn
<1>3. \A i \in 1..Len(tasks') : tasks'[i] = fed + i - 1
  BY <1>1, <1>2 DEF Send, FeedInv, InTurn
<1>4. next' = fed + Len(tasks') /\ next' <= announced + 1
  BY <1>1, <1>2 DEF Send, FeedInv, InTurn
<1> QED
  BY <1>2, <1>3, <1>4 DEF FeedInv, InTurn, EventsKnown

\* A head event joins the channel or is dropped.
LEMMA EventKnown ==
    ASSUME FeedInv, NEW s \in Slots, s <= announced', announced' \in Nat,
           announced <= announced', HandleHeadEvent(s),
           UNCHANGED <<tasks, fed, phase, next, at>>
    PROVE  FeedInv'
<1>1. s \in Nat
  BY Parameters
<1>2. headChan' \in Seq(Nat)
  BY <1>1 DEF HandleHeadEvent, FeedInv, EventsKnown
<1>3. \A i \in 1..Len(headChan') : headChan'[i] <= announced'
  <2>1. CASE headChan' = headChan
    BY <2>1, Parameters DEF FeedInv, EventsKnown, InTurn
  <2>2. CASE headChan' = Append(headChan, s)
    <3> SUFFICES ASSUME NEW i \in 1..Len(headChan') PROVE headChan'[i] <= announced'
      OBVIOUS
    <3>1. /\ headChan \in Seq(Nat) /\ announced \in Nat
          /\ \A j \in 1..Len(headChan) : headChan[j] <= announced
      BY DEF FeedInv, EventsKnown, InTurn
    <3>2. Len(headChan') = Len(headChan) + 1
      BY <2>2, <3>1, <1>1
    <3>3. CASE i = Len(headChan')
      BY <2>2, <3>1, <3>2, <3>3, <1>1
    <3>4. CASE i # Len(headChan')
      <4>1. i \in 1..Len(headChan) /\ headChan'[i] = headChan[i] /\ headChan[i] \in Nat
        BY <2>2, <3>1, <3>2, <3>4, <1>1
      <4> QED
        BY <3>1, <4>1
    <3> QED
      BY <3>3, <3>4
  <2> QED
    BY <2>1, <2>2 DEF HandleHeadEvent
<1>4. InTurn'
  BY Parameters DEF FeedInv, InTurn
<1>5. (phase = "dispatch" => at \in Nat /\ at <= announced)'
  BY DEF FeedInv, EventsKnown, InTurn
<1> QED
  BY <1>2, <1>3, <1>4, <1>5 DEF FeedInv, EventsKnown

LEMMA FeedInvInit == Init => FeedInv
<1> SUFFICES ASSUME Init PROVE FeedInv
  OBVIOUS
<1>1. InTurn
  BY Parameters DEF Init, InTurn
<1>2. EventsKnown
  BY DEF Init, EventsKnown
<1> QED
  BY <1>1, <1>2 DEF FeedInv

\* The downloader takes the slot whose turn it is.
LEMMA TakeTaskInTurn ==
    ASSUME FeedInv, TakeTask
    PROVE  Head(tasks) = fed /\ fed' = fed + 1 /\ fed <= announced /\ FeedInv'
<1>1. Len(tasks) > 0 /\ Head(tasks) = fed
  BY DEF TakeTask, FeedInv, InTurn
<1>2. fed' = fed + 1 /\ fed <= announced
  BY <1>1 DEF TakeTask, FeedInv, InTurn
<1>3. tasks' \in Seq(Nat) /\ Len(tasks') = Len(tasks) - 1
  BY <1>1 DEF TakeTask, FeedInv, InTurn
<1>4. \A i \in 1..Len(tasks') : tasks'[i] = tasks[i + 1]
  BY <1>1, <1>3 DEF TakeTask, FeedInv, InTurn
<1>5. UNCHANGED <<announced, headChan, phase, next, at>>
  BY DEF TakeTask, node, loop
<1>6. InTurn'
  BY <1>1, <1>2, <1>3, <1>4, <1>5, Parameters DEF FeedInv, InTurn
<1> QED
  BY <1>1, <1>2, <1>5, <1>6 DEF FeedInv, EventsKnown

\* Steps that leave the feed alone.
LEMMA OthersInTurn ==
    ASSUME FeedInv, UNCHANGED <<announced, headChan, tasks, fed, next>>,
           phase' = "dispatch" => phase = "dispatch" /\ at' = at
    PROVE  FeedInv'
BY DEF FeedInv, InTurn, EventsKnown

-----------------------------------------------------------------------------
\* Every step keeps the turn, and maps to a step of SlotFeed or to none.
LEMMA StepInTurn ==
    ASSUME FeedInv, [Next]_vars
    PROVE  FeedInv' /\ [Feed!Next]_<<announced, fed>>
<1>1. ASSUME NEW s \in Slots, NewHead(s)
      PROVE  FeedInv' /\ [Feed!Next]_<<announced, fed>>
  <2>1. /\ announced' = s /\ s > announced /\ s \in Nat
        /\ HandleHeadEvent(s) /\ UNCHANGED <<tasks, fed, phase, next, at>>
    BY <1>1, Parameters DEF NewHead, loop
  <2>2. announced \in Nat
    BY DEF FeedInv, InTurn
  <2>3. FeedInv'
    BY <2>1, <2>2, EventKnown
  <2>4. Feed!Learn
    BY <2>1 DEF Feed!Learn
  <2> QED
    BY <2>3, <2>4 DEF Feed!Next
<1>2. ASSUME NEW s \in Slots, HeadAgain(s)
      PROVE  FeedInv' /\ UNCHANGED <<announced, fed>>
  <2>1. /\ s <= announced /\ HandleHeadEvent(s)
        /\ UNCHANGED <<announced, tasks, fed, phase, next, at>>
    BY <1>2 DEF HeadAgain, loop
  <2>2. announced \in Nat
    BY DEF FeedInv, InTurn
  <2> QED
    BY <2>1, <2>2, EventKnown
<1>3. ASSUME TakeHeadEvent
      PROVE  FeedInv' /\ UNCHANGED <<announced, fed>>
  <2>1. /\ headChan # <<>> /\ headChan' = Tail(headChan) /\ at' = Head(headChan)
        /\ UNCHANGED <<announced, tasks, fed, next>>
    BY <1>3 DEF TakeHeadEvent, node
  <2>2. /\ headChan \in Seq(Nat)
        /\ \A i \in 1..Len(headChan) : headChan[i] <= announced
    BY DEF FeedInv, EventsKnown
  <2>3. at' \in Nat /\ at' <= announced'
    BY <2>1, <2>2
  <2>4. headChan' \in Seq(Nat) /\ \A i \in 1..Len(headChan') : headChan'[i] <= announced'
    BY <2>1, <2>2
  <2>5. InTurn'
    BY <2>1 DEF FeedInv, InTurn
  <2> QED
    BY <2>1, <2>3, <2>4, <2>5 DEF FeedInv, EventsKnown
<1>4. ASSUME FillToHead
      PROVE  FeedInv' /\ UNCHANGED <<announced, fed>>
  <2>1. /\ next <= HeadSlot /\ Send /\ phase' = phase
        /\ UNCHANGED <<announced, fed, headChan, at>>
    BY <1>4 DEF FillToHead, node
  <2>2. next <= announced
    BY <2>1, Parameters DEF FeedInv, InTurn
  <2> QED
    BY <2>1, <2>2, SendInTurn
<1>5. ASSUME Dispatch
      PROVE  FeedInv' /\ UNCHANGED <<announced, fed>>
  <2>1. /\ next <= at /\ at <= announced /\ at \in Nat /\ Send /\ phase' = phase
        /\ UNCHANGED <<announced, fed, headChan, at>>
    BY <1>5 DEF Dispatch, MoreToSend, node, FeedInv, EventsKnown
  <2>2. next <= announced
    BY <2>1 DEF FeedInv, InTurn
  <2> QED
    BY <2>1, <2>2, SendInTurn
<1>6. ASSUME TakeTask
      PROVE  FeedInv' /\ Feed!Feed
  <2>1. UNCHANGED announced
    BY <1>6 DEF TakeTask, node
  <2> QED
    BY <1>6, <2>1, TakeTaskInTurn DEF Feed!Feed
<1>7. ASSUME \/ Filled \/ WaitForBlock \/ Dispatched \/ TakeReorg \/ TakeBlobSidecar
             \/ ReorgEvent \/ BlobSidecarEvent \/ Serve
             \/ \E e \in Epochs : TakeFinalized(e) \/ AddNewState(e)
             \/ \E s \in Slots : \/ RequestBlock(s) \/ BlockNotFound(s)
                               \/ BlockArrives(s) \/ ProcessBlock(s)
             \/ UNCHANGED vars
      PROVE  FeedInv' /\ UNCHANGED <<announced, fed>>
  <2>1. UNCHANGED <<announced, headChan, tasks, fed, next>>
    BY <1>7 DEF Filled, WaitForBlock, Dispatched, TakeReorg, TakeBlobSidecar,
       ReorgEvent, BlobSidecarEvent, Serve, TakeFinalized, AddNewState, RequestBlock,
       BlockNotFound, BlockArrives, ProcessBlock, node, loop, vars
  <2>2. phase' = "dispatch" => phase = "dispatch" /\ at' = at
    BY <1>7 DEF Filled, WaitForBlock, Dispatched, TakeReorg, TakeBlobSidecar,
       ReorgEvent, BlobSidecarEvent, Serve, TakeFinalized, AddNewState, RequestBlock,
       BlockNotFound, BlockArrives, ProcessBlock, node, loop, vars
  <2> QED
    BY <2>1, <2>2, OthersInTurn
<1> QED
  BY <1>1, <1>2, <1>3, <1>4, <1>5, <1>6, <1>7
     DEF Next, RunHead, Work, Node, Feed!Next

\* The downloader is given every slot from the first one on once, in order, and
\* none before the node told of it, however events are dropped, repeated or late.
THEOREM SlotsAreInTurn == Spec => SlotsInTurn
<1>1. Init => FeedInv /\ Feed!Init
  BY FeedInvInit, Parameters DEF Init, Feed!Init
<1>2. FeedInv /\ [Next]_vars => FeedInv' /\ [Feed!Next]_<<announced, fed>>
  BY StepInTurn
<1> QED
  BY <1>1, <1>2, PTL DEF Spec, SlotsInTurn, Feed!Spec

-----------------------------------------------------------------------------
\* The last slot of an epoch is in that epoch.
LEMMA LastSlotOfItsEpoch ==
    ASSUME NEW e \in Epochs
    PROVE  EpochOf(LastSlot(e)) = e
<1>1. e \in Int
  BY Parameters DEF Epochs, EpochOf
<1>2. LastSlot(e) = SlotsPerEpoch * e + (SlotsPerEpoch - 1) /\ LastSlot(e) \in Int
  BY <1>1, Parameters DEF LastSlot
<1>3. 0 <= SlotsPerEpoch - 1 /\ SlotsPerEpoch - 1 < SlotsPerEpoch
  BY Parameters
<1> QED
  BY <1>1, <1>2, <1>3, Parameters, Z3 DEF EpochOf

LEMMA LastSlotType == \A e \in Epochs : LastSlot(e) \in Int
BY Parameters DEF Epochs, EpochOf, LastSlot

\* The root of an epoch whose last slot was told of waits for the download of
\* its state, which starts no earlier than the downloader gets to the slot.
RootWaits ==
    /\ DOMAIN st = Epochs
    /\ \A e \in Epochs : LastSlot(e) >= fed => st[e] = "none"
    /\ \A e \in Epochs : LastSlot(e) \in told /\ st[e] = "none" => LastSlot(e) \in roots

RootInv == FeedInv /\ RootWaits /\ StateByRoot

\* An eviction and the arrival of a state do not touch what is not started yet.
LEMMA StatesMoveOn ==
    ASSUME RootInv, FeedInv', UNCHANGED <<fed, roots, told>>,
           DOMAIN st' = Epochs,
           \A e \in Epochs : st'[e] = st[e] \/ (st[e] # "none" /\ st'[e] \in {"cached", "evicted"})
    PROVE  RootInv'
<1>1. RootWaits'
  BY DEF RootInv, RootWaits, LastSlot
<1>2. StateByRoot'
  BY DEF RootInv, StateByRoot, LastSlot
<1> QED
  BY <1>1, <1>2 DEF RootInv

LEMMA EvictionMovesOn ==
    ASSUME RootInv, NEW s, NEW n, CleanUpTo(s, n)
    PROVE  /\ DOMAIN st' = Epochs
           /\ \A e \in Epochs : st'[e] = st[e] \/ (st[e] # "none" /\ st'[e] \in {"cached", "evicted"})
BY DEF CleanUpTo, RootInv, RootWaits

LEMMA RootInvStep ==
    ASSUME RootInv, [Next]_vars
    PROVE  RootInv'
<1>0. FeedInv'
  BY StepInTurn DEF RootInv
<1>1. ASSUME TakeHeadEvent PROVE RootInv'
  <2> DEFINE h == Head(headChan)
  <2>1. /\ UNCHANGED <<fed, st, next>>
        /\ told' = (IF next <= h THEN told \union {h} ELSE told)
        /\ roots' = (IF h = LastSlot(EpochOf(h)) THEN roots \union {h} ELSE roots)
        /\ roots \subseteq roots' /\ headChan # <<>>
    BY <1>1 DEF TakeHeadEvent, cache
  <2>2. h \in Nat /\ next \in Nat /\ fed \in Nat /\ fed <= next
    <3>1. headChan \in Seq(Nat) /\ headChan # <<>>
      BY <2>1 DEF RootInv, FeedInv, EventsKnown
    <3>2. fed \in Nat /\ tasks \in Seq(Nat) /\ next = fed + Len(tasks)
      BY DEF RootInv, FeedInv, InTurn
    <3> QED
      BY <3>1, <3>2
  <2>3. ASSUME NEW e \in Epochs, LastSlot(e) \in told', LastSlot(e) \notin told
        PROVE  st[e] = "none" /\ LastSlot(e) \in roots'
    <3>1. LastSlot(e) = h /\ next <= h
      BY <2>1, <2>3
    <3>2. st[e] = "none"
      BY <3>1, <2>2 DEF RootInv, RootWaits
    <3>3. h = LastSlot(EpochOf(h))
      BY <3>1, LastSlotOfItsEpoch
    <3> QED
      BY <2>1, <3>1, <3>2, <3>3
  <2>4. RootWaits'
    BY <2>1, <2>3 DEF RootInv, RootWaits, LastSlot
  <2>5. StateByRoot'
    BY <2>1, <2>3 DEF RootInv, StateByRoot, LastSlot
  <2> QED
    BY <1>0, <2>4, <2>5 DEF RootInv
<1>2. ASSUME TakeTask PROVE RootInv'
  <2>1. Head(tasks) = fed /\ fed' = fed + 1 /\ fed \in Nat /\ UNCHANGED told
    BY <1>2, TakeTaskInTurn DEF TakeTask, RootInv, FeedInv, InTurn
  <2> DEFINE b == EpochOf(fed)
  <2>2. CASE fed # LastSlot(b)
    <3>1. UNCHANGED <<st, roots>>
      BY <1>2, <2>1, <2>2 DEF TakeTask
    <3>2. RootWaits'
      BY <2>1, <3>1, LastSlotType DEF RootInv, RootWaits, LastSlot
    <3>3. StateByRoot'
      BY <2>1, <3>1 DEF RootInv, StateByRoot, LastSlot
    <3> QED
      BY <1>0, <3>2, <3>3 DEF RootInv
  <2>3. CASE fed = LastSlot(b)
    <3>1. /\ st' = [st EXCEPT ![b] = RequestState(fed)]
          /\ roots' = roots \ {fed}
      BY <1>2, <2>1, <2>3 DEF TakeTask
    <3>2. ASSUME NEW e \in Epochs, LastSlot(e) # fed
          PROVE  st'[e] = st[e] /\ (LastSlot(e) \in roots => LastSlot(e) \in roots')
      BY <3>1, <3>2, <2>3 DEF RootInv, RootWaits
    <3>3. ASSUME NEW e \in Epochs, LastSlot(e) = fed
          PROVE  st'[e] # "none" /\ (fed \in told => st'[e] # "bySlot")
      <4>1. e = b
        BY <3>3, LastSlotOfItsEpoch
      <4>2. st[e] = "none" /\ (fed \in told => fed \in roots)
        BY <3>3, <2>1 DEF RootInv, RootWaits
      <4> QED
        BY <3>1, <4>1, <4>2 DEF RequestState, RootInv, RootWaits
    <3>4. RootWaits'
      <4>1. DOMAIN st' = Epochs
        BY <3>1 DEF RootInv, RootWaits
      <4> SUFFICES ASSUME NEW e \in Epochs
                   PROVE  /\ LastSlot(e) >= fed' => st'[e] = "none"
                          /\ LastSlot(e) \in told /\ st'[e] = "none" => LastSlot(e) \in roots'
        BY <4>1, <2>1 DEF RootWaits, LastSlot
      <4>2. CASE LastSlot(e) = fed
        BY <4>2, <3>3, <2>1
      <4>3. CASE LastSlot(e) # fed
        BY <4>3, <3>2, <2>1, LastSlotType DEF RootInv, RootWaits
      <4> QED
        BY <4>2, <4>3
    <3>5. StateByRoot'
      BY <2>1, <3>2, <3>3 DEF RootInv, StateByRoot, LastSlot
    <3> QED
      BY <1>0, <3>4, <3>5 DEF RootInv
  <2> QED
    BY <2>2, <2>3
<1>3. ASSUME NEW e \in Epochs, AddNewState(e) PROVE RootInv'
  <2>1. UNCHANGED <<fed, roots, told>> /\ st' = [st EXCEPT ![e] = "cached"]
        /\ st[e] # "none"
    BY <1>3 DEF AddNewState
  <2>2. DOMAIN st' = Epochs
        /\ \A f \in Epochs : st'[f] = st[f] \/ (st[f] # "none" /\ st'[f] \in {"cached", "evicted"})
    BY <2>1 DEF RootInv, RootWaits
  <2> QED
    BY <1>0, <2>1, <2>2, StatesMoveOn
<1>4. ASSUME NEW e \in Epochs, TakeFinalized(e) PROVE RootInv'
  <2>1. UNCHANGED <<fed, roots, told>> /\ CleanUpTo(FirstSlot(e), 2)
    BY <1>4 DEF TakeFinalized
  <2> QED
    BY <1>0, <2>1, EvictionMovesOn, StatesMoveOn
<1>5. ASSUME FillToHead PROVE RootInv'
  <2>1. UNCHANGED <<fed, roots, told>>
        /\ (CleanUpTo(CleanFrom, KeepEpochs) \/ UNCHANGED st)
    BY <1>5 DEF FillToHead, cache
  <2>2. DOMAIN st' = Epochs
        /\ \A f \in Epochs : st'[f] = st[f] \/ (st[f] # "none" /\ st'[f] \in {"cached", "evicted"})
    BY <2>1, EvictionMovesOn DEF RootInv, RootWaits
  <2> QED
    BY <1>0, <2>1, <2>2, StatesMoveOn
<1>6. ASSUME \/ Filled \/ WaitForBlock \/ Dispatch \/ Dispatched \/ TakeReorg \/ TakeBlobSidecar
             \/ ReorgEvent \/ BlobSidecarEvent \/ Serve
             \/ \E s \in Slots : \/ NewHead(s) \/ HeadAgain(s) \/ RequestBlock(s)
                               \/ BlockNotFound(s) \/ BlockArrives(s) \/ ProcessBlock(s)
             \/ UNCHANGED vars
      PROVE  RootInv'
  <2>1. UNCHANGED <<fed, roots, told, st>>
    BY <1>6 DEF Filled, WaitForBlock, Dispatch, Dispatched, TakeReorg, TakeBlobSidecar,
       ReorgEvent, BlobSidecarEvent, Serve, NewHead, HeadAgain, RequestBlock,
       BlockNotFound, BlockArrives, ProcessBlock, cache, vars
  <2> QED
    BY <1>0, <2>1, StatesMoveOn DEF RootInv, RootWaits
<1> QED
  BY <1>1, <1>2, <1>3, <1>4, <1>5, <1>6 DEF Next, RunHead, Work, Node

\* The state of an epoch whose last slot was sent for its own head event is asked
\* for by the root that came with the event.
THEOREM StatesByRoot == Spec => []StateByRoot
<1>1. Init => RootInv
  BY FeedInvInit DEF Init, RootInv, RootWaits, StateByRoot
<1>2. RootInv /\ [Next]_vars => RootInv'
  BY RootInvStep
<1>3. RootInv => StateByRoot
  BY DEF RootInv
<1> QED
  BY <1>1, <1>2, <1>3, PTL DEF Spec

-----------------------------------------------------------------------------
\* A block that the node announces before it serves it is not taken for a missed
\* one: the last attempt comes after the lag.
THEOREM AnnouncedNotMissed == Spec => []NoBlockTakenForMissed
<1> DEFINE Inv == attempts \in Nat /\ NoBlockTakenForMissed
<1>1. Init => Inv
  BY DEF Init, NoBlockTakenForMissed
<1>2. Inv /\ [Next]_vars => Inv'
  <2> SUFFICES ASSUME Inv, [Next]_vars PROVE Inv'
    OBVIOUS
  <2>1. ASSUME NEW s \in Slots, RequestBlock(s) PROVE Inv'
    BY <2>1 DEF RequestBlock, NoBlockTakenForMissed
  <2>2. ASSUME NEW s \in Slots, BlockNotFound(s) PROVE Inv'
    <3>1. CASE attempts < MaxRetries - 1
      BY <2>2, <3>1 DEF BlockNotFound, NoBlockTakenForMissed
    <3>2. CASE ~(attempts < MaxRetries - 1)
      <4>1. ~(attempts < Lag)
        BY <3>2, HeadAssumption
      <4>2. s \in Empty
        BY <2>2, <4>1 DEF BlockNotFound
      <4> QED
        BY <2>2, <3>2, <4>2 DEF BlockNotFound, NoBlockTakenForMissed
    <3> QED
      BY <3>1, <3>2
  <2>3. ASSUME UNCHANGED <<attempts, missing>> PROVE Inv'
    BY <2>3 DEF NoBlockTakenForMissed
  <2>4. ASSUME \/ RunHead \/ Serve \/ Node \/ TakeTask
               \/ \E s \in Slots : BlockArrives(s) \/ ProcessBlock(s)
               \/ \E e \in Epochs : AddNewState(e)
               \/ UNCHANGED vars
        PROVE  UNCHANGED <<attempts, missing>>
    BY <2>4 DEF RunHead, FillToHead, CleanUpTo, Filled, WaitForBlock, TakeHeadEvent, Dispatch,
       Dispatched, TakeReorg, TakeBlobSidecar, Serve, Node, NewHead, HeadAgain, ReorgEvent,
       BlobSidecarEvent, TakeFinalized, TakeTask, BlockArrives, ProcessBlock, AddNewState,
       cache, vars
  <2> QED
    BY <2>1, <2>2, <2>3, <2>4 DEF Next, Work
<1>3. Inv => NoBlockTakenForMissed
  OBVIOUS
<1> QED
  BY <1>1, <1>2, <1>3, PTL DEF Spec

-----------------------------------------------------------------------------
(* Arithmetic of slots and epochs.                                         *)

LEMMA EpochOfSlot ==
    ASSUME NEW s \in Nat
    PROVE  /\ EpochOf(s) \in Nat
           /\ FirstSlot(EpochOf(s)) <= s /\ s <= LastSlot(EpochOf(s))
           /\ FirstSlot(EpochOf(s)) \in Nat /\ LastSlot(EpochOf(s)) = FirstSlot(EpochOf(s)) + SlotsPerEpoch - 1
<1> DEFINE e == s \div SlotsPerEpoch
<1>1. e \in Nat /\ s = SlotsPerEpoch * e + (s % SlotsPerEpoch)
      /\ 0 <= s % SlotsPerEpoch /\ s % SlotsPerEpoch < SlotsPerEpoch /\ s % SlotsPerEpoch \in Int
  BY Parameters, Z3
<1>2. (e + 1) * SlotsPerEpoch = e * SlotsPerEpoch + SlotsPerEpoch /\ SlotsPerEpoch * e = e * SlotsPerEpoch
      /\ e * SlotsPerEpoch \in Nat
  BY <1>1, Parameters, Z3
<1> QED
  BY <1>1, <1>2, Parameters DEF EpochOf, FirstSlot, LastSlot

\* The epoch of a slot is the one whose slots are around it.
LEMMA EpochUnique ==
    ASSUME NEW s \in Nat, NEW e \in Int,
           e * SlotsPerEpoch <= s, s < e * SlotsPerEpoch + SlotsPerEpoch
    PROVE  EpochOf(s) = e
<1> DEFINE r == s - e * SlotsPerEpoch
<1>1. s = SlotsPerEpoch * e + r /\ r \in Int /\ 0 <= r /\ r < SlotsPerEpoch
  BY Parameters
<1> QED
  BY <1>1, Parameters, Z3 DEF EpochOf

\* An epoch later is at least its length later.
LEMMA EpochsApart ==
    ASSUME NEW a \in Int, NEW b \in Int, a < b
    PROVE  a * SlotsPerEpoch + SlotsPerEpoch <= b * SlotsPerEpoch
<1>1. b - a - 1 \in Nat
  OBVIOUS
<1>2. (b - a - 1) * SlotsPerEpoch >= 0
  BY <1>1, Parameters
<1>3. b * SlotsPerEpoch = a * SlotsPerEpoch + SlotsPerEpoch + (b - a - 1) * SlotsPerEpoch
  BY Parameters
<1>4. a * SlotsPerEpoch \in Int /\ b * SlotsPerEpoch \in Int /\ (b - a - 1) * SlotsPerEpoch \in Int
  BY Parameters
<1> QED
  BY <1>2, <1>3, <1>4, Parameters

LEMMA EpochMonotone ==
    ASSUME NEW s \in Nat, NEW t \in Nat, s <= t
    PROVE  EpochOf(s) <= EpochOf(t)
<1> SUFFICES ASSUME EpochOf(t) < EpochOf(s) PROVE FALSE
  BY EpochOfSlot
<1>1. EpochOf(t) * SlotsPerEpoch + SlotsPerEpoch <= EpochOf(s) * SlotsPerEpoch
  BY EpochOfSlot, EpochsApart
<1>2. EpochOf(s) * SlotsPerEpoch <= s /\ t <= EpochOf(t) * SlotsPerEpoch + SlotsPerEpoch - 1
      /\ EpochOf(s) * SlotsPerEpoch \in Nat /\ EpochOf(t) * SlotsPerEpoch \in Nat
  BY EpochOfSlot DEF FirstSlot
<1> QED
  BY <1>1, <1>2, Parameters

\* The slots of an epoch, and that there are at least two.
LEMMA SlotsOfEpoch ==
    ASSUME NEW e \in Epochs
    PROVE  /\ e \in Nat
           /\ FirstSlot(e) \in Nat /\ LastSlot(e) = FirstSlot(e) + SlotsPerEpoch - 1
           /\ FirstSlot(e) < LastSlot(e)
           /\ FirstSlot(e) \in SlotsOf(e) /\ LastSlot(e) \in SlotsOf(e)
           /\ \A s \in Nat : s \in SlotsOf(e) <=> EpochOf(s) = e
<1>1. e \in Nat
  BY EpochOfSlot, Parameters DEF Epochs
<1>2. /\ e * SlotsPerEpoch \in Nat
      /\ (e + 1) * SlotsPerEpoch = e * SlotsPerEpoch + SlotsPerEpoch
  BY <1>1, Parameters
<1>3. /\ FirstSlot(e) \in Nat /\ LastSlot(e) = FirstSlot(e) + SlotsPerEpoch - 1
      /\ FirstSlot(e) < LastSlot(e)
      /\ FirstSlot(e) \in SlotsOf(e) /\ LastSlot(e) \in SlotsOf(e)
  BY <1>2, HeadAssumption DEF FirstSlot, LastSlot, SlotsOf
<1>4. ASSUME NEW s \in Nat, s \in SlotsOf(e) PROVE EpochOf(s) = e
  BY <1>1, <1>2, <1>3, <1>4, EpochUnique, Parameters DEF SlotsOf, FirstSlot
<1>5. ASSUME NEW s \in Nat, EpochOf(s) = e PROVE s \in SlotsOf(e)
  BY <1>5, EpochOfSlot DEF SlotsOf
<1> QED
  BY <1>1, <1>3, <1>4, <1>5

\* Where the wait begins.  It leaves out slots only when it covers at least the
\* three epochs before the head.
LEMMA WaitRange ==
    /\ WaitFrom \in InitSlot..HeadSlot
    /\ HeadSlot - KeepEpochs * SlotsPerEpoch <= WaitFrom
    /\ KeepEpochs * SlotsPerEpoch \in Nat
    /\ WaitFrom > InitSlot => WaitFrom <= HeadSlot - 3 * SlotsPerEpoch
<1> DEFINE back == KeepEpochs * SlotsPerEpoch
<1>1. back \in Nat /\ back >= 3 * SlotsPerEpoch
  BY HeadAssumption
<1>2. HeadSlot > back
  BY <1>1, HeadAssumption
<1>3. WaitFrom = IF HeadSlot - back < InitSlot THEN InitSlot ELSE HeadSlot - back
  BY <1>2 DEF WaitFrom
<1> QED
  BY <1>1, <1>2, <1>3, Parameters

-----------------------------------------------------------------------------
\* Every second epoch down from e has its blocks, those of the head left aside.
AllDone(e) ==
    \A t \in Slots, k \in Nat : t < HeadSlot /\ EpochOf(t) = e - 2 * k => dl[t] = "done"

\* The gate passes a block when the state of two epochs before is there, and a
\* state is there when its blocks are: so what is downloaded has all before it,
\* an epoch out of two.
GateChain ==
    /\ DOMAIN dl = Slots /\ DOMAIN st = Epochs
    /\ \A s \in Slots : s >= fed => dl[s] = "none"
    /\ \A s \in blocks : s \in Slots /\ (s = HeadSlot \/ dl[s] = "done")
    /\ \A s \in Slots : dl[s] \in {"request", "done"} => AllDone(EpochOf(s) - 2)
    /\ \A e \in Epochs : st[e] \in {"cached", "evicted"} => AllDone(e)

\* Until the events are followed, nothing from WaitFrom on is evicted.
WaitedKept ==
    phase \in {"fill", "wait"} =>
        \A s \in Slots : s >= WaitFrom /\ dl[s] = "done" => s \in blocks

\* How far the wait has come, and what it leaves.
WaitProgress ==
    /\ phase = "wait" =>
          at \in WaitFrom..HeadSlot /\ \A s \in WaitFrom..(at - 1) : dl[s] = "done"
    /\ Subscribed => \A s \in InitSlot..(HeadSlot - 1) : dl[s] = "done"

ChainInv == FeedInv /\ GateChain

SwitchInv == ChainInv /\ WaitedKept /\ WaitProgress

\* Downloads that are done stay done.
LEMMA AllDoneStays ==
    ASSUME NEW e, AllDone(e), \A s \in Slots : dl[s] = "done" => dl'[s] = "done"
    PROVE  AllDone(e)'
BY DEF AllDone, EpochOf

\* What passes the gate has the blocks before it.
LEMMA GateOpenMeans ==
    ASSUME ChainInv, NEW s \in Slots, GateOpen(s)
    PROVE  AllDone(EpochOf(s) - 2)
<1> DEFINE e == EpochOf(s) - 2
<1> SUFFICES ASSUME NEW t \in Slots, NEW k \in Nat, t < HeadSlot, EpochOf(t) = e - 2 * k
             PROVE  dl[t] = "done"
  BY DEF AllDone
<1>1. s \in Nat /\ t \in Nat /\ InitSlot <= t /\ s <= LastSlotOfRun /\ EpochOf(s) \in Nat /\ EpochOf(t) \in Nat
  BY Parameters, EpochOfSlot DEF Slots
<1>2. e \in Nat /\ EpochOf(t) <= e /\ EpochOf(InitSlot) <= e /\ e <= EpochOf(LastSlotOfRun)
  <2>1. EpochOf(InitSlot) <= EpochOf(t) /\ EpochOf(s) <= EpochOf(LastSlotOfRun)
    BY <1>1, Parameters, EpochMonotone
  <2>2. EpochOf(InitSlot) \in Nat /\ EpochOf(LastSlotOfRun) \in Nat
    BY Parameters, EpochOfSlot
  <2> QED
    BY <1>1, <2>1, <2>2
<1>3. e * SlotsPerEpoch \in Nat /\ EpochOf(s) * SlotsPerEpoch = e * SlotsPerEpoch + 2 * SlotsPerEpoch
      /\ (e + 1) * SlotsPerEpoch = e * SlotsPerEpoch + SlotsPerEpoch
  BY <1>1, <1>2, Parameters
<1>4. EpochOf(s) * SlotsPerEpoch <= s
  BY <1>1, EpochOfSlot DEF FirstSlot
<1>5. s >= 2 * SlotsPerEpoch /\ LastSlot(e) <= LastSlotOfRun
  BY <1>1, <1>3, <1>4, Parameters DEF LastSlot
<1>6. LastSlot(e) >= InitSlot
  <2>1. t <= EpochOf(t) * SlotsPerEpoch + SlotsPerEpoch - 1 /\ EpochOf(t) * SlotsPerEpoch \in Nat
    BY <1>1, EpochOfSlot DEF FirstSlot
  <2>2. EpochOf(t) * SlotsPerEpoch <= e * SlotsPerEpoch
    <3>1. CASE EpochOf(t) = e
      BY <3>1, <1>3
    <3>2. CASE EpochOf(t) < e
      BY <3>2, <1>1, <1>2, <1>3, <2>1, EpochsApart, Parameters
    <3> QED
      BY <3>1, <3>2, <1>1, <1>2
  <2> QED
    BY <1>1, <1>3, <2>1, <2>2, Parameters DEF LastSlot
<1>7. e \in Epochs
  BY <1>1, <1>2, <1>5, EpochOfSlot, Parameters DEF Epochs
<1>8. st[e] = "cached"
  BY <1>5, <1>6 DEF GateOpen
<1>9. AllDone(e)
  BY <1>7, <1>8 DEF ChainInv, GateChain
<1> QED
  BY <1>9 DEF AllDone

\* A state whose blocks are cached has the blocks before it.
LEMMA BlocksThereMeans ==
    ASSUME ChainInv, NEW e \in Epochs, SlotsOf(e) \subseteq blocks
    PROVE  AllDone(e)
<1> SUFFICES ASSUME NEW t \in Slots, NEW k \in Nat, t < HeadSlot, EpochOf(t) = e - 2 * k
             PROVE  dl[t] = "done"
  BY DEF AllDone
<1>1. e \in Nat /\ t \in Nat /\ t # HeadSlot
  BY SlotsOfEpoch, Parameters
<1>2. CASE k = 0
  <2>1. t \in SlotsOf(e)
    BY <1>1, <1>2, SlotsOfEpoch
  <2> QED
    BY <1>1, <2>1 DEF ChainInv, GateChain
<1>3. CASE k # 0
  <2>1. PICK s \in SlotsOf(e) : s # HeadSlot
    BY SlotsOfEpoch, Parameters
  <2>2. s \in Slots /\ dl[s] = "done"
    BY <2>1 DEF ChainInv, GateChain
  <2>3. EpochOf(s) = e
    BY <2>1, <2>2, SlotsOfEpoch, Parameters
  <2>4. AllDone(e - 2)
    BY <2>2, <2>3 DEF ChainInv, GateChain
  <2>5. k - 1 \in Nat /\ EpochOf(t) = (e - 2) - 2 * (k - 1)
    BY <1>1, <1>3
  <2> QED
    BY <2>4, <2>5 DEF AllDone
<1> QED
  BY <1>2, <1>3

\* Steps in which no download changes and blocks and states only leave the cache.
LEMMA CacheShrinks ==
    ASSUME ChainInv, FeedInv', UNCHANGED <<dl, fed>>, blocks' \subseteq blocks,
           DOMAIN st' = Epochs,
           \A e \in Epochs : st'[e] \in {"cached", "evicted"} => st[e] \in {"cached", "evicted"}
    PROVE  ChainInv'
BY AllDoneStays DEF ChainInv, GateChain, EpochOf

LEMMA EvictionShrinks ==
    ASSUME ChainInv, NEW s, NEW n, CleanUpTo(s, n)
    PROVE  /\ blocks' \subseteq blocks /\ UNCHANGED dl /\ DOMAIN st' = Epochs
           /\ \A e \in Epochs : st'[e] \in {"cached", "evicted"} => st[e] \in {"cached", "evicted"}
BY DEF CleanUpTo, ChainInv, GateChain

\* A download that arrives.
LEMMA ArrivalKeepsChain ==
    ASSUME ChainInv, FeedInv', NEW s \in Slots, dl[s] = "request", AddNewBlock(s), UNCHANGED <<st, fed>>
    PROVE  ChainInv'
<1>1. blocks' = blocks \union {s} /\ dl' = [dl EXCEPT ![s] = "done"]
  BY DEF AddNewBlock
<1>2. \A r \in Slots : dl[r] = "done" => dl'[r] = "done"
  BY <1>1 DEF ChainInv, GateChain
<1>3. \A r \in Slots : dl'[r] \in {"request", "done"} => AllDone(EpochOf(r) - 2)'
  <2> SUFFICES ASSUME NEW r \in Slots, dl'[r] \in {"request", "done"} PROVE AllDone(EpochOf(r) - 2)'
    BY DEF EpochOf
  <2>1. dl[r] \in {"request", "done"}
    BY <1>1 DEF ChainInv, GateChain
  <2> QED
    BY <2>1, <1>2, AllDoneStays DEF ChainInv, GateChain, EpochOf
<1>4. \A e \in Epochs : st'[e] \in {"cached", "evicted"} => AllDone(e)'
  BY <1>2, AllDoneStays DEF ChainInv, GateChain
<1>5. /\ DOMAIN dl' = Slots /\ DOMAIN st' = Epochs
      /\ \A r \in Slots : r >= fed' => dl'[r] = "none"
      /\ \A r \in blocks' : r \in Slots /\ (r = HeadSlot \/ dl'[r] = "done")
  BY <1>1 DEF ChainInv, GateChain
<1> QED
  BY <1>3, <1>4, <1>5 DEF ChainInv, GateChain, EpochOf

LEMMA ChainStep ==
    ASSUME ChainInv, [Next]_vars
    PROVE  ChainInv'
<1>0. FeedInv'
  BY StepInTurn DEF ChainInv
<1>1. ASSUME TakeTask PROVE ChainInv'
  <2>1. Head(tasks) = fed /\ fed' = fed + 1 /\ fed \in Nat
    BY <1>1, TakeTaskInTurn DEF ChainInv, FeedInv, InTurn
  <2>2. dl' = [dl EXCEPT ![fed] = "spawned"] /\ UNCHANGED blocks
    BY <1>1, <2>1 DEF TakeTask
  <2>3. \A s \in Slots : s # fed => dl'[s] = dl[s]
    BY <2>2 DEF ChainInv, GateChain
  <2>4. fed \in Slots => dl[fed] = "none" /\ dl'[fed] = "spawned"
    BY <2>1, <2>2 DEF ChainInv, GateChain
  <2>5. \A s \in Slots : dl[s] = "done" => dl'[s] = "done"
    BY <2>3, <2>4
  <2>6. DOMAIN st' = Epochs /\ \A e \in Epochs : st'[e] \in {"cached", "evicted"} => st[e] \in {"cached", "evicted"}
    BY <1>1 DEF TakeTask, RequestState, ChainInv, GateChain
  <2>7. \A s \in Slots : dl'[s] \in {"request", "done"} => AllDone(EpochOf(s) - 2)'
    <3> SUFFICES ASSUME NEW s \in Slots, dl'[s] \in {"request", "done"} PROVE AllDone(EpochOf(s) - 2)'
      BY DEF EpochOf
    <3>1. dl[s] \in {"request", "done"}
      BY <2>3, <2>4
    <3> QED
      BY <3>1, <2>5, AllDoneStays DEF ChainInv, GateChain, EpochOf
  <2>8. \A e \in Epochs : st'[e] \in {"cached", "evicted"} => AllDone(e)'
    BY <2>5, <2>6, AllDoneStays DEF ChainInv, GateChain
  <2>9. DOMAIN dl' = Slots /\ \A s \in Slots : s >= fed' => dl'[s] = "none"
    BY <2>1, <2>2, <2>3, Parameters DEF ChainInv, GateChain
  <2>10. \A s \in blocks' : s \in Slots /\ (s = HeadSlot \/ dl'[s] = "done")
    BY <2>2, <2>5 DEF ChainInv, GateChain
  <2> QED
    BY <1>0, <2>6, <2>7, <2>8, <2>9, <2>10 DEF ChainInv, GateChain, EpochOf
<1>2. ASSUME NEW s \in Slots, RequestBlock(s) PROVE ChainInv'
  <2>1. /\ dl[s] = "spawned" /\ GateOpen(s) /\ dl' = [dl EXCEPT ![s] = "request"]
        /\ UNCHANGED <<blocks, st, fed>>
    BY <1>2 DEF RequestBlock
  <2>2. AllDone(EpochOf(s) - 2)
    BY <2>1, GateOpenMeans
  <2>3. \A r \in Slots : dl[r] = "done" => dl'[r] = "done"
    BY <2>1 DEF ChainInv, GateChain
  <2>4. \A r \in Slots : dl'[r] \in {"request", "done"} => AllDone(EpochOf(r) - 2)'
    <3> SUFFICES ASSUME NEW r \in Slots, dl'[r] \in {"request", "done"} PROVE AllDone(EpochOf(r) - 2)'
      BY DEF EpochOf
    <3>1. CASE r = s
      BY <3>1, <2>2, <2>3, AllDoneStays DEF EpochOf
    <3>2. CASE r # s
      BY <3>2, <2>1, <2>3, AllDoneStays DEF ChainInv, GateChain, EpochOf
    <3> QED
      BY <3>1, <3>2
  <2>5. \A e \in Epochs : st'[e] \in {"cached", "evicted"} => AllDone(e)'
    BY <2>1, <2>3, AllDoneStays DEF ChainInv, GateChain
  <2> QED
    BY <1>0, <2>1, <2>4, <2>5 DEF ChainInv, GateChain, EpochOf
<1>3. ASSUME NEW s \in Slots, BlockArrives(s) \/ BlockNotFound(s) PROVE ChainInv'
  <2>1. CASE AddNewBlock(s)
    BY <1>0, <1>3, <2>1, ArrivalKeepsChain DEF BlockArrives, BlockNotFound
  <2>2. CASE UNCHANGED <<blocks, dl>>
    <3>1. UNCHANGED <<st, fed, dl, blocks>>
      BY <1>3, <2>2 DEF BlockArrives, BlockNotFound
    <3> QED
      BY <1>0, <3>1, CacheShrinks DEF ChainInv, GateChain
  <2> QED
    BY <1>3, <2>1, <2>2 DEF BlockArrives, BlockNotFound
<1>4. ASSUME NEW e \in Epochs, AddNewState(e) PROVE ChainInv'
  <2>1. /\ SlotsOf(e) \subseteq blocks /\ st' = [st EXCEPT ![e] = "cached"]
        /\ UNCHANGED <<blocks, dl, fed>>
    BY <1>4 DEF AddNewState
  <2>2. AllDone(e)
    BY <2>1, BlocksThereMeans
  <2>3. \A f \in Epochs : st'[f] \in {"cached", "evicted"} => AllDone(f)'
    <3> SUFFICES ASSUME NEW f \in Epochs, st'[f] \in {"cached", "evicted"} PROVE AllDone(f)'
      OBVIOUS
    <3>1. AllDone(f)
      BY <2>1, <2>2 DEF ChainInv, GateChain
    <3> QED
      BY <2>1, <3>1, AllDoneStays
  <2>4. \A s \in Slots : dl'[s] \in {"request", "done"} => AllDone(EpochOf(s) - 2)'
    BY <2>1, AllDoneStays DEF ChainInv, GateChain, EpochOf
  <2> QED
    BY <1>0, <2>1, <2>3, <2>4 DEF ChainInv, GateChain, EpochOf
<1>5. ASSUME NEW e \in Epochs, TakeFinalized(e) PROVE ChainInv'
  BY <1>0, <1>5, EvictionShrinks, CacheShrinks DEF TakeFinalized
<1>6. ASSUME FillToHead PROVE ChainInv'
  <2>1. UNCHANGED fed /\ (CleanUpTo(CleanFrom, KeepEpochs) \/ UNCHANGED <<blocks, dl, st>>)
    BY <1>6 DEF FillToHead, cache
  <2>2. CASE CleanUpTo(CleanFrom, KeepEpochs)
    BY <1>0, <2>1, <2>2, EvictionShrinks, CacheShrinks
  <2>3. CASE UNCHANGED <<blocks, dl, st>>
    BY <1>0, <2>1, <2>3, CacheShrinks DEF ChainInv, GateChain
  <2> QED
    BY <2>1, <2>2, <2>3
<1>7. ASSUME \/ Filled \/ WaitForBlock \/ TakeHeadEvent \/ Dispatch \/ Dispatched
             \/ TakeReorg \/ TakeBlobSidecar \/ ReorgEvent \/ BlobSidecarEvent \/ Serve
             \/ \E s \in Slots : NewHead(s) \/ HeadAgain(s) \/ ProcessBlock(s)
             \/ UNCHANGED vars
      PROVE  ChainInv'
  <2>1. UNCHANGED <<blocks, dl, st, fed>>
    BY <1>7 DEF Filled, WaitForBlock, TakeHeadEvent, Dispatch, Dispatched, TakeReorg,
       TakeBlobSidecar, ReorgEvent, BlobSidecarEvent, Serve, NewHead, HeadAgain,
       ProcessBlock, cache, vars
  <2> QED
    BY <1>0, <2>1, CacheShrinks DEF ChainInv, GateChain
<1> QED
  BY <1>1, <1>2, <1>3, <1>4, <1>5, <1>6, <1>7 DEF Next, RunHead, Work, Node

-----------------------------------------------------------------------------
\* An epoch earlier is a slot of the epoch before.
LEMMA EpochBefore ==
    ASSUME NEW s \in Nat, NEW n \in Nat, n * SlotsPerEpoch <= s
    PROVE  /\ s - n * SlotsPerEpoch \in Nat
           /\ EpochOf(s - n * SlotsPerEpoch) = EpochOf(s) - n
<1> DEFINE e == EpochOf(s)
           f == e - n
           m == n * SlotsPerEpoch
<1>1. e \in Nat /\ e * SlotsPerEpoch <= s /\ s < e * SlotsPerEpoch + SlotsPerEpoch
      /\ e * SlotsPerEpoch \in Nat
  BY EpochOfSlot, Parameters DEF FirstSlot, LastSlot
<1>2. m \in Nat /\ f \in Int /\ f * SlotsPerEpoch = e * SlotsPerEpoch - m
  BY <1>1, Parameters
<1>3. s - m \in Nat /\ f * SlotsPerEpoch <= s - m /\ s - m < f * SlotsPerEpoch + SlotsPerEpoch
  BY <1>1, <1>2, Parameters
<1>4. EpochOf(s - m) = f
  BY <1>2, <1>3, EpochUnique
<1> QED
  BY <1>3, <1>4

\* The two epochs before the head, both waited for, have all before them.
LEMMA AllWaited ==
    ASSUME ChainInv, \A s \in WaitFrom..(HeadSlot - 1) : dl[s] = "done",
           NEW t \in InitSlot..(HeadSlot - 1)
    PROVE  dl[t] = "done"
<1>1. CASE t >= WaitFrom
  BY <1>1, WaitRange, Parameters
<1>2. CASE t < WaitFrom
  <2> DEFINE h == EpochOf(HeadSlot)
             s1 == HeadSlot - 1 * SlotsPerEpoch
             s2 == HeadSlot - 2 * SlotsPerEpoch
             s3 == HeadSlot - 3 * SlotsPerEpoch
  <2>1. WaitFrom <= s3 /\ t \in Nat /\ WaitFrom \in Nat /\ InitSlot <= WaitFrom /\ t < s3
    BY <1>2, WaitRange, Parameters
  <2>2. /\ s1 \in WaitFrom..(HeadSlot - 1) /\ s2 \in WaitFrom..(HeadSlot - 1)
        /\ s1 \in Slots /\ s2 \in Slots /\ t \in Slots /\ t < HeadSlot
    BY <2>1, HeadAssumption DEF Slots
  <2>3. h \in Nat /\ EpochOf(s1) = h - 1 /\ EpochOf(s2) = h - 2 /\ EpochOf(s3) = h - 3 /\ s3 \in Nat
    <3>1. 1 * SlotsPerEpoch <= HeadSlot /\ 2 * SlotsPerEpoch <= HeadSlot /\ 3 * SlotsPerEpoch <= HeadSlot
      BY <2>1, Parameters
    <3> QED
      BY <3>1, EpochBefore, EpochOfSlot, Parameters
  <2>4. AllDone(h - 3) /\ AllDone(h - 4)
    <3>1. AllDone(EpochOf(s1) - 2) /\ AllDone(EpochOf(s2) - 2)
      BY <2>2 DEF ChainInv, GateChain
    <3>2. EpochOf(s1) - 2 = h - 3 /\ EpochOf(s2) - 2 = h - 4
      BY <2>3
    <3> QED
      BY <3>1, <3>2
  <2> DEFINE d == EpochOf(t)
  <2>5. d \in Nat /\ d <= h - 3
    BY <2>1, <2>3, EpochMonotone, EpochOfSlot
  <2>6. \E k \in Nat : d = (h - 3) - 2 * k \/ d = (h - 4) - 2 * k
    <3> DEFINE n == h - 3 - d
    <3>1. n \in Nat
      BY <2>3, <2>5
    <3>2. n \div 2 \in Nat /\ (n = 2 * (n \div 2) \/ n = 2 * (n \div 2) + 1)
      BY <3>1
    <3> QED
      BY <2>3, <2>5, <3>1, <3>2
  <2> QED
    BY <2>2, <2>4, <2>6 DEF AllDone
<1> QED
  BY <1>1, <1>2, WaitRange, Parameters

\* The cleaning of the filling evicts nothing from WaitFrom on.
LEMMA CleaningBelowWait ==
    ASSUME ChainInv, next <= HeadSlot, next % SlotsPerEpoch = 0,
           CleanUpTo(CleanFrom, KeepEpochs),
           NEW s \in blocks, s >= WaitFrom
    PROVE  s \in blocks'
<1> DEFINE back == KeepEpochs * SlotsPerEpoch
           e == EpochOf(s)
<1>1. s \in Nat /\ next \in Nat
  <2>1. s \in Slots /\ fed \in Nat /\ tasks \in Seq(Nat) /\ next = fed + Len(tasks)
    BY DEF ChainInv, GateChain, FeedInv, InTurn
  <2> QED
    BY <2>1, Parameters
<1>2. e \in Nat /\ FirstSlot(e) = e * SlotsPerEpoch /\ e * SlotsPerEpoch \in Nat
      /\ s <= e * SlotsPerEpoch + SlotsPerEpoch - 1
  BY <1>1, EpochOfSlot DEF FirstSlot
<1>3. back \in Nat /\ HeadSlot - back <= s
  BY <1>1, WaitRange, Parameters
<1>4. ~(FirstSlot(e) < CleanFrom - back)
  <2>1. CASE CleanFrom = FinalizedSlot
    BY <2>1, <1>2, <1>3, <1>1, HeadAssumption
  <2>2. CASE CleanFrom = next
    <3> SUFFICES ASSUME e * SlotsPerEpoch < next - back PROVE FALSE
      BY <2>2, <1>2
    <3> DEFINE m == next \div SlotsPerEpoch
    <3>1. m \in Nat /\ next = SlotsPerEpoch * m
      BY <1>1, Parameters, Z3
    <3>2. KeepEpochs \in Nat /\ (m - KeepEpochs) * SlotsPerEpoch = next - back
      BY <3>1, HeadAssumption
    <3>3. CASE e < m - KeepEpochs
      <4>1. e * SlotsPerEpoch + SlotsPerEpoch <= (m - KeepEpochs) * SlotsPerEpoch
        BY <3>1, <3>2, <3>3, <1>2, EpochsApart
      <4> QED
        BY <4>1, <3>2, <1>1, <1>2, <1>3, Parameters
    <3>4. CASE e >= m - KeepEpochs
      <4>1. CASE e = m - KeepEpochs
        BY <4>1, <3>2, <1>1, <1>2, <1>3
      <4>2. CASE m - KeepEpochs < e
        <5>1. (m - KeepEpochs) * SlotsPerEpoch + SlotsPerEpoch <= e * SlotsPerEpoch
          BY <3>1, <3>2, <4>2, <1>2, EpochsApart
        <5> QED
          BY <5>1, <3>2, <1>1, <1>2, <1>3, Parameters
      <4> QED
        BY <4>1, <4>2, <3>1, <3>2, <3>4, <1>2
    <3> QED
      BY <3>1, <3>2, <3>3, <3>4, <1>2
  <2> QED
    BY <2>1, <2>2 DEF CleanFrom
<1> QED
  BY <1>4 DEF CleanUpTo

LEMMA DoneStays ==
    ASSUME ChainInv, [Next]_vars, NEW s \in Slots, dl[s] = "done"
    PROVE  dl'[s] = "done"
<1>1. CASE TakeTask
  <2>1. Head(tasks) = fed /\ fed \in Nat
    BY <1>1, TakeTaskInTurn DEF ChainInv, FeedInv, InTurn
  <2>2. s # fed
    BY <2>1 DEF ChainInv, GateChain
  <2> QED
    BY <1>1, <2>1, <2>2 DEF TakeTask, ChainInv, GateChain
<1>2. CASE \E r \in Slots : RequestBlock(r) \/ BlockArrives(r) \/ BlockNotFound(r)
  BY <1>2 DEF RequestBlock, BlockArrives, BlockNotFound, AddNewBlock, ChainInv, GateChain
<1>3. CASE ~TakeTask /\ ~(\E r \in Slots : RequestBlock(r) \/ BlockArrives(r) \/ BlockNotFound(r))
  <2>1. UNCHANGED dl
    BY <1>3 DEF Next, RunHead, Work, Node, FillToHead, CleanUpTo, Filled, WaitForBlock, TakeHeadEvent,
       Dispatch, Dispatched, TakeReorg, TakeBlobSidecar, ReorgEvent, BlobSidecarEvent, Serve,
       NewHead, HeadAgain, ProcessBlock, AddNewState, TakeFinalized, cache, vars
  <2> QED
    BY <2>1
<1> QED
  BY <1>1, <1>2, <1>3

LEMMA WaitedKeptStep ==
    ASSUME SwitchInv, [Next]_vars
    PROVE  WaitedKept'
<1> SUFFICES ASSUME phase' \in {"fill", "wait"},
                    NEW s \in Slots, s >= WaitFrom, dl'[s] = "done"
             PROVE  s \in blocks'
  BY DEF WaitedKept, WaitFrom
<1>1. phase \in {"fill", "wait"}
  BY DEF Next, RunHead, Work, Node, FillToHead, Filled, WaitForBlock, TakeHeadEvent, Dispatch,
     Dispatched, TakeReorg, TakeBlobSidecar, ReorgEvent, BlobSidecarEvent, Serve, NewHead,
     HeadAgain, ProcessBlock, AddNewState, TakeFinalized, TakeTask, RequestBlock, BlockArrives,
     BlockNotFound, Subscribed, loop, vars
<1>2. DOMAIN dl = Slots
  BY DEF SwitchInv, ChainInv, GateChain
<1>3. ASSUME dl[s] = "done" PROVE s \in blocks
  BY <1>1, <1>3 DEF SwitchInv, WaitedKept
<1>4. CASE FillToHead
  <2>1. UNCHANGED dl
    BY <1>4 DEF FillToHead, CleanUpTo, cache
  <2>2. s \in blocks
    BY <1>3, <2>1
  <2>3. CASE next % SlotsPerEpoch = 0
    BY <1>4, <2>2, <2>3, CleaningBelowWait DEF FillToHead, SwitchInv
  <2>4. CASE next % SlotsPerEpoch # 0
    BY <1>4, <2>2, <2>4 DEF FillToHead, cache
  <2> QED
    BY <2>3, <2>4
<1>5. CASE \E r \in Slots : BlockArrives(r) \/ BlockNotFound(r)
  BY <1>2, <1>3, <1>5 DEF BlockArrives, BlockNotFound, AddNewBlock
<1>6. CASE TakeTask
  BY <1>2, <1>3, <1>6 DEF TakeTask
<1>7. CASE \E r \in Slots : RequestBlock(r)
  BY <1>2, <1>3, <1>7 DEF RequestBlock
<1>8. CASE \E e \in Epochs : TakeFinalized(e)
  BY <1>1, <1>8 DEF TakeFinalized
<1>9. CASE \/ Filled \/ WaitForBlock \/ TakeHeadEvent \/ Dispatch \/ Dispatched
          \/ TakeReorg \/ TakeBlobSidecar \/ ReorgEvent \/ BlobSidecarEvent
          \/ \E r \in Slots : NewHead(r) \/ HeadAgain(r) \/ ProcessBlock(r)
          \/ \E e \in Epochs : AddNewState(e)
  <2>1. UNCHANGED <<blocks, dl>>
    BY <1>9 DEF Filled, WaitForBlock, TakeHeadEvent, Dispatch, Dispatched, TakeReorg,
       TakeBlobSidecar, ReorgEvent, BlobSidecarEvent, NewHead, HeadAgain,
       ProcessBlock, AddNewState, cache
  <2> QED
    BY <1>3, <2>1
<1>10. CASE RunHead
  BY <1>4, <1>9, <1>10 DEF RunHead
<1>11. CASE Work
  BY <1>5, <1>6, <1>7, <1>9, <1>11 DEF Work
<1>12. CASE Node
  BY <1>8, <1>9, <1>12 DEF Node
<1>13. CASE Serve \/ UNCHANGED vars
  BY <1>3, <1>13 DEF Serve, cache, vars
<1> QED
  BY <1>10, <1>11, <1>12, <1>13 DEF Next

LEMMA WaitProgressStep ==
    ASSUME SwitchInv, [Next]_vars
    PROVE  WaitProgress'
<1>1. \A s \in Slots : dl[s] = "done" => dl'[s] = "done"
  BY DoneStays DEF SwitchInv
<1>2. InitSlot..(HeadSlot - 1) \subseteq Slots /\ WaitFrom..HeadSlot \subseteq Slots
  BY WaitRange, HeadAssumption DEF Slots
<1>3. CASE Filled
  <2>1. phase' = "wait" /\ at' = WaitFrom
    BY <1>3 DEF Filled
  <2>2. WaitFrom..(WaitFrom - 1) = {} /\ WaitFrom \in WaitFrom..HeadSlot
    BY WaitRange, Parameters
  <2> QED
    BY <2>1, <2>2 DEF WaitProgress, Subscribed, WaitFrom
<1>4. CASE WaitForBlock
  <2>1. /\ phase = "wait" /\ at \in blocks /\ UNCHANGED dl
        /\ at \in WaitFrom..HeadSlot /\ \A s \in WaitFrom..(at - 1) : dl[s] = "done"
    BY <1>4 DEF WaitForBlock, cache, SwitchInv, WaitProgress
  <2>2. CASE at = HeadSlot
    <3>1. \A s \in InitSlot..(HeadSlot - 1) : dl[s] = "done"
      BY <2>1, <2>2, AllWaited DEF SwitchInv
    <3> QED
      BY <1>4, <2>1, <2>2, <3>1 DEF WaitForBlock, WaitProgress, Subscribed
  <2>3. CASE at # HeadSlot
    <3>1. phase' = "wait" /\ at' = at + 1
      BY <1>4, <2>1, <2>3 DEF WaitForBlock
    <3>2. dl[at] = "done"
      BY <2>1, <2>3 DEF SwitchInv, ChainInv, GateChain
    <3>3. at' \in WaitFrom..HeadSlot /\ \A s \in WaitFrom..(at' - 1) : dl'[s] = "done"
      <4>1. at' \in WaitFrom..HeadSlot
        BY <2>1, <2>3, <3>1, WaitRange, Parameters
      <4> SUFFICES ASSUME NEW s \in WaitFrom..(at' - 1) PROVE dl'[s] = "done"
        BY <4>1
      <4>2. s \in WaitFrom..(at - 1) \/ s = at
        BY <2>1, <3>1, WaitRange, Parameters
      <4> QED
        BY <2>1, <3>2, <4>2
    <3> QED
      BY <3>1, <3>3 DEF WaitProgress, Subscribed, WaitFrom
  <2> QED
    BY <2>2, <2>3
<1>5. CASE ~Filled /\ ~WaitForBlock
  <2>1. (phase' = "wait" => phase = "wait" /\ at' = at) /\ (Subscribed' => Subscribed)
    BY <1>5 DEF Next, RunHead, Work, Node, FillToHead, TakeHeadEvent, Dispatch,
       Dispatched, TakeReorg, TakeBlobSidecar, ReorgEvent, BlobSidecarEvent, Serve, NewHead,
       HeadAgain, ProcessBlock, AddNewState, TakeFinalized, TakeTask, RequestBlock, BlockArrives,
       BlockNotFound, Subscribed, loop, vars
  <2>2. phase' = "wait" =>
          at' \in WaitFrom..HeadSlot /\ \A s \in WaitFrom..(at' - 1) : dl'[s] = "done"
    <3> SUFFICES ASSUME phase' = "wait"
                 PROVE  at' \in WaitFrom..HeadSlot /\ \A s \in WaitFrom..(at' - 1) : dl'[s] = "done"
      OBVIOUS
    <3>1. at' = at /\ at \in WaitFrom..HeadSlot /\ \A s \in WaitFrom..(at - 1) : dl[s] = "done"
      BY <2>1 DEF SwitchInv, WaitProgress
    <3>2. WaitFrom..(at - 1) \subseteq Slots
      BY <1>2, <3>1, WaitRange, Parameters
    <3> QED
      BY <1>1, <3>1, <3>2
  <2>3. Subscribed' => \A s \in InitSlot..(HeadSlot - 1) : dl'[s] = "done"
    BY <1>1, <1>2, <2>1 DEF SwitchInv, WaitProgress
  <2> QED
    BY <2>2, <2>3 DEF WaitProgress, WaitFrom
<1> QED
  BY <1>3, <1>4, <1>5

\* The wait between filling and following is never for an evicted block, and it
\* leaves no download of the filling behind: the wait is for the last KeepEpochs
\* epochs only, and the gate has seen to the ones before.
THEOREM SwitchIsSound == Spec => []SwitchSound
<1>1. Init => SwitchInv
  <2> SUFFICES ASSUME Init PROVE SwitchInv
    OBVIOUS
  <2>1. FeedInv
    BY FeedInvInit
  <2>2. HeadSlot \in Slots
    BY HeadAssumption DEF Slots
  <2>3. GateChain
    BY <2>2 DEF Init, GateChain
  <2>4. WaitedKept /\ WaitProgress
    BY DEF Init, WaitedKept, WaitProgress, Subscribed
  <2> QED
    BY <2>1, <2>3, <2>4 DEF SwitchInv, ChainInv
<1>2. SwitchInv /\ [Next]_vars => SwitchInv'
  BY ChainStep, WaitedKeptStep, WaitProgressStep DEF SwitchInv
<1>3. SwitchInv => SwitchSound
  <2> SUFFICES ASSUME SwitchInv PROVE SwitchSound
    OBVIOUS
  <2>1. ASSUME phase = "wait", dl[at] = "done" PROVE at \in blocks
    <3>1. at \in WaitFrom..HeadSlot
      BY <2>1 DEF SwitchInv, WaitProgress
    <3>2. at \in Slots /\ at >= WaitFrom
      BY <3>1, WaitRange, HeadAssumption DEF Slots
    <3> QED
      BY <2>1, <3>2 DEF SwitchInv, WaitedKept
  <2>2. Subscribed => \A s \in InitSlot..(HeadSlot - 1) : dl[s] = "done"
    BY DEF SwitchInv, WaitProgress
  <2> QED
    BY <2>1, <2>2 DEF SwitchSound
<1> QED
  BY <1>1, <1>2, <1>3, PTL DEF Spec
=============================================================================
