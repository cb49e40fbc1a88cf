--------------------------- MODULE EpochTablesProofs ---------------------------
(***************************************************************************)
(* What the tables of epochs keep, for every chain, every window and any   *)
(* number of crashes: the newest validator statuses survive, no transition *)
(* is lost to a crash, and no rewards are deleted before the summary of    *)
(* the pools has read them.                                                *)
(***************************************************************************)
EXTENDS EpochTables, FiniteSetTheorems, TLAPS

-----------------------------------------------------------------------------
(* The statuses.                                                           *)

\* A transition that is about to delete the older statuses has inserted its own;
\* that it finds itself between the two is forgotten by a crash, the row is not.
DeleteAfterInsert ==
    /\ faults \in Nat /\ DOMAIN pc = Epochs
    /\ status \subseteq Int
    /\ faults = 0 => \A e \in Epochs : pc[e] = "oldStatus" => <<"status", e>> \in written

StatusInv == DeleteAfterInsert /\ StatusKept

LEMMA EpochsAreIntegers == Epochs \subseteq Int
BY DEF Epochs

LEMMA StatusStep ==
    ASSUME StatusInv, [Next]_vars
    PROVE  StatusInv'
<1> USE EpochsAreIntegers
<1>1. ASSUME NEW e \in Epochs, ProcessValLastStatus(e) PROVE StatusInv'
  BY <1>1 DEF ProcessValLastStatus, Goto, StatusRows, StatusInv, DeleteAfterInsert, StatusKept
<1>2. ASSUME NEW e \in Epochs, ProcessValLastStatusFails(e) PROVE StatusInv'
  BY <1>2 DEF ProcessValLastStatusFails, Goto, tables, StatusInv, DeleteAfterInsert, StatusKept
<1>3. ASSUME NEW e \in Epochs, DeleteValLastStatus(e) PROVE StatusInv'
  <2>1. /\ pc[e] = "oldStatus" /\ pc' = [pc EXCEPT ![e] = "epoch"]
        /\ status' = {x \in status : ~(x < e)} /\ UNCHANGED <<written, faults>>
    BY <1>3 DEF DeleteValLastStatus, Goto, StatusBefore
  <2>2. DeleteAfterInsert'
    BY <2>1 DEF StatusInv, DeleteAfterInsert
  <2>3. StatusKept'
    <3> SUFFICES ASSUME faults = 0, NEW f \in Epochs, <<"status", f>> \in written
                 PROVE  \E x \in status' : x >= f
      BY <2>1 DEF StatusKept
    <3>1. PICK x \in status : x >= e
      BY <2>1 DEF StatusInv, DeleteAfterInsert, StatusKept
    <3>2. PICK y \in status : y >= f
      BY DEF StatusInv, StatusKept
    <3>3. x \in Int /\ y \in Int
      BY DEF StatusInv, DeleteAfterInsert
    <3>4. CASE y >= e
      BY <2>1, <3>2, <3>3, <3>4
    <3>5. CASE y < e
      BY <2>1, <3>1, <3>2, <3>3, <3>5
    <3> QED
      BY <3>3, <3>4, <3>5
  <2> QED
    BY <2>2, <2>3 DEF StatusInv
<1>4. ASSUME NEW f \in FirstFinalized..LastEpoch, CrashAndRestart(f) PROVE StatusInv'
  BY <1>4 DEF CrashAndRestart, tables, StatusInv, DeleteAfterInsert, StatusKept
<1>5. ASSUME UNCHANGED <<status, faults>>,
             \A e \in Epochs : <<"status", e>> \in written' <=> <<"status", e>> \in written,
             DOMAIN pc' = Epochs, \A e \in Epochs : pc'[e] = "oldStatus" => pc[e] = "oldStatus"
      PROVE  StatusInv'
  BY <1>5 DEF StatusInv, DeleteAfterInsert, StatusKept
<1>6. ASSUME NEW e \in Epochs, ProcessEpochValRewards(e) PROVE StatusInv'
  <2>1. /\ UNCHANGED <<status, faults>> /\ DOMAIN pc' = Epochs
        /\ \A f \in Epochs : <<"status", f>> \in written' <=> <<"status", f>> \in written
        /\ \A f \in Epochs : pc'[f] = "oldStatus" => pc[f] = "oldStatus"
    BY <1>6 DEF ProcessEpochValRewards, Goto, StatusInv, DeleteAfterInsert
  <2> QED
    BY <1>5, <2>1
<1>7. ASSUME \/ \E s \in Slots : DownloadBlock(s) \/ ProcessBlock(s)
             \/ \E e \in Epochs : \/ DownloadState(e) \/ ReadStates(e) \/ ProcessEpochDuties(e)
                                \/ ProcessEpochMetrics(e) \/ ProcessBlockRewards(e)
                                \/ StoreLists(e) \/ ProcessPoolMetrics(e)
             \/ WindowBoundary \/ DeleteValidatorRewardsUntil \/ UNCHANGED vars
      PROVE  StatusInv'
  <2>1. /\ UNCHANGED <<status, faults, written>> /\ DOMAIN pc' = Epochs
        /\ \A f \in Epochs : pc'[f] = "oldStatus" => pc[f] = "oldStatus"
    BY <1>7 DEF DownloadBlock, ProcessBlock, DownloadState, ReadStates, ProcessEpochDuties,
       ProcessEpochMetrics, ProcessBlockRewards, StoreLists, ProcessPoolMetrics, WindowBoundary,
       DeleteValidatorRewardsUntil, Goto, tables, downloads, vars, StatusInv, DeleteAfterInsert
  <2> QED
    BY <1>5, <2>1
<1> QED
  BY <1>1, <1>2, <1>3, <1>4, <1>5, <1>6, <1>7 DEF Next

\* The newest validator statuses that were written are never deleted, neither by a
\* transition that a restart repeats nor by a crash between insert and delete, as
\* long as no insert fails.
THEOREM StatusesAreKept == Spec => []StatusKept
<1>1. Init => StatusInv
  BY DEF Init, StatusInv, DeleteAfterInsert, StatusKept
<1>2. StatusInv /\ [Next]_vars => StatusInv'
  BY StatusStep
<1>3. StatusInv => StatusKept
  BY DEF StatusInv
<1> QED
  BY <1>1, <1>2, <1>3, PTL DEF Spec
-----------------------------------------------------------------------------
(* Slots, epochs and the newest of a set.                                  *)

LEMMA Parameters ==
    /\ SlotsPerEpoch \in Nat /\ SlotsPerEpoch > 0
    /\ FirstFinalized \in Nat /\ FirstFinalized >= 8
    /\ FirstEpoch = FirstFinalized - 4
    /\ LastEpoch \in Nat /\ WindowSize \in Nat /\ WindowSize >= 4
    /\ Epochs \subseteq Nat /\ FirstEpoch >= 4
    /\ \A e \in Int : e \in Epochs <=> FirstEpoch - 4 <= e /\ e <= LastEpoch
BY EpochAssumption DEF FirstEpoch, Epochs, epochsToFinalizedTentative

LEMMA EpochsAreNumbers ==
    \A e \in Epochs : e \in Nat /\ e \in Int /\ FirstEpoch - 4 <= e /\ e <= LastEpoch
BY EpochAssumption DEF FirstEpoch, Epochs, epochsToFinalizedTentative

LEMMA EpochOfSlot ==
    ASSUME NEW s \in Nat
    PROVE  /\ EpochOf(s) \in Nat
           /\ EpochOf(s) * SlotsPerEpoch <= s
           /\ s < EpochOf(s) * SlotsPerEpoch + SlotsPerEpoch
           /\ EpochOf(s) * SlotsPerEpoch \in Nat
<1> DEFINE e == s \div SlotsPerEpoch
<1>1. e \in Nat /\ s = SlotsPerEpoch * e + (s % SlotsPerEpoch)
      /\ 0 <= s % SlotsPerEpoch /\ s % SlotsPerEpoch < SlotsPerEpoch /\ s % SlotsPerEpoch \in Int
  BY Parameters, Z3
<1>2. SlotsPerEpoch * e = e * SlotsPerEpoch /\ e * SlotsPerEpoch \in Nat
  BY <1>1, Parameters, Z3
<1> QED
  BY <1>1, <1>2, Parameters DEF EpochOf

\* The epoch of a slot is the one whose slots are around it.
LEMMA EpochUnique ==
    ASSUME NEW s \in Nat, NEW e \in Int,
           e * SlotsPerEpoch <= s, s < e * SlotsPerEpoch + SlotsPerEpoch
    PROVE  EpochOf(s) = e
<1> DEFINE r == s - e * SlotsPerEpoch
<1>1. s = SlotsPerEpoch * e + r /\ r \in Int /\ 0 <= r /\ r < SlotsPerEpoch
  BY Parameters
<1> QED
  BY <1>1, Parameters, Z3 DEF EpochOf

LEMMA EpochMonotone ==
    ASSUME NEW s \in Nat, NEW t \in Nat, s <= t
    PROVE  EpochOf(s) <= EpochOf(t)
<1> SUFFICES ASSUME EpochOf(t) < EpochOf(s) PROVE FALSE
  BY EpochOfSlot
<1> DEFINE k == EpochOf(s) - EpochOf(t) - 1
<1>1. k \in Nat /\ EpochOf(s) \in Nat /\ EpochOf(t) \in Nat
  BY EpochOfSlot
<1>2. k * SlotsPerEpoch >= 0 /\ k * SlotsPerEpoch \in Nat
  BY <1>1, Parameters
<1>3. EpochOf(s) * SlotsPerEpoch
        = EpochOf(t) * SlotsPerEpoch + SlotsPerEpoch + k * SlotsPerEpoch
  BY <1>1, Parameters
<1> QED
  BY <1>2, <1>3, EpochOfSlot, Parameters

LEMMA SlotsOfEpoch ==
    ASSUME NEW e \in Epochs
    PROVE  /\ e * SlotsPerEpoch \in SlotsOf(e)
           /\ SlotsOf(e) \subseteq Slots
           /\ \A s \in SlotsOf(e) : s \in Nat /\ EpochOf(s) = e
<1>1. e \in Nat /\ e * SlotsPerEpoch \in Nat
      /\ (e + 1) * SlotsPerEpoch = e * SlotsPerEpoch + SlotsPerEpoch
  BY Parameters
<1>2. \A s \in SlotsOf(e) : s \in Nat /\ EpochOf(s) = e
  BY <1>1, EpochUnique, Parameters DEF SlotsOf
<1>3. e * SlotsPerEpoch \in SlotsOf(e)
  BY <1>1, Parameters DEF SlotsOf
<1> QED
  BY <1>2, <1>3 DEF Slots

LEMMA SlotsHaveEpochs ==
    \A s \in Slots : s \in Nat /\ EpochOf(s) \in Epochs
BY SlotsOfEpoch DEF Slots

\* A bounded set of numbers has a greatest one.  The numbers up to some element
\* are as many as 0..n has for some n, and all of them are in it.
LEMMA MaxOfBounded ==
    ASSUME NEW T \in SUBSET Nat, T # {}, NEW n \in Nat, \A t \in T : t <= n
    PROVE  Max(T) \in T /\ \A t \in T : t <= Max(T)
<1> DEFINE U == {k \in 0..n : \E t \in T : k <= t}
           c == Cardinality(U)
<1>1. IsFiniteSet(U) /\ c \in Nat
  <2>1. IsFiniteSet(0..n)
    BY FS_Interval
  <2> QED
    BY <2>1, FS_Subset, FS_CardinalityType
<1>2. T \subseteq U
  OBVIOUS
<1>3. ASSUME NEW k \in U PROVE k <= c - 1
  <2>1. 0..k \subseteq U
    BY <1>3
  <2>2. Cardinality(0..k) = k + 1
    BY <1>3, FS_Interval
  <2>3. Cardinality(0..k) <= c
    BY <1>1, <2>1, FS_Subset
  <2> QED
    BY <1>1, <1>3, <2>2, <2>3
<1>4. c > 0
  <2>1. Cardinality(U) # 0
    BY <1>1, <1>2, FS_EmptySet
  <2> HIDE DEF U
  <2> QED
    BY <1>1, <2>1
<1>5. U = 0..(c - 1)
  <2>1. U \subseteq 0..(c - 1)
    BY <1>1, <1>3
  <2>2. IsFiniteSet(0..(c - 1)) /\ Cardinality(0..(c - 1)) = c
    BY <1>1, <1>4, FS_Interval
  <2> QED
    BY <2>1, <2>2, FS_Subset
<1>6. c - 1 \in T /\ \A t \in T : t <= c - 1
  <2>1. c - 1 \in U
    <3> HIDE DEF U, c
    <3> QED
      BY <1>1, <1>4, <1>5
  <2>2. PICK t \in T : c - 1 <= t
    BY <2>1
  <2>3. t <= c - 1
    BY <1>2, <1>3
  <2>4. t = c - 1
    BY <1>1, <2>2, <2>3
  <2> QED
    BY <1>2, <1>3, <2>4
<1>7. \E x \in T : \A y \in T : x >= y
  BY <1>6
<1> QED
  BY <1>7 DEF Max
-----------------------------------------------------------------------------
(* The order of a run.                                                     *)

Steps ==
    {"none", "wait", "duties", "status", "oldStatus", "epoch", "blockRewards", "rewards",
     "lists", "pool", "done"}

TablesType ==
    /\ initEpoch \in (FirstEpoch - 4)..LastEpoch
    /\ final \in FirstFinalized..LastEpoch /\ initEpoch <= final - 4
    /\ cached \subseteq Slots /\ processed \subseteq cached /\ states \subseteq Epochs
    /\ blocks \subseteq Slots /\ processed \subseteq blocks
    /\ pc \in [Epochs -> Steps]
    /\ rewards \subseteq Epochs
    /\ window \in Int
    /\ crashes \in Nat

\* Transition e has read its states.
Started(e) == pc[e] \notin {"none", "wait"}

\* The gate and the barrier: the blocks of an epoch are behind the transition
\* two epochs below, and transitions start in the order of their epochs.
RunInOrder ==
    /\ \A s \in cached :
        /\ EpochOf(s) >= initEpoch
        /\ EpochOf(s) - 2 >= initEpoch => pc[EpochOf(s) - 2] = "done"
    /\ \A e \in states : SlotsOf(e) \subseteq cached
    /\ \A e \in Epochs : pc[e] # "none" <=> e \in states
    /\ \A e, d \in Epochs : Started(e) /\ initEpoch <= d /\ d < e => pc[d] = "done"
    /\ \A e \in Epochs : Started(e) /\ pc[e] # "done" => e - 2 >= initEpoch
    /\ \A e \in Epochs :
        pc[e] \in {"rewards", "lists", "pool", "done"} /\ e - 2 >= initEpoch
            => SlotsOf(e - 1) \subseteq processed

\* The steps that only move a transition on, after it has read its states.
LEMMA MoveInOrder ==
    ASSUME TablesType, RunInOrder, NEW e \in Epochs,
           NEW from \in Steps \ {"none", "wait", "done"}, NEW to \in Steps \ {"none", "wait"},
           Goto(e, from, to), UNCHANGED downloads,
           to \in {"rewards", "lists", "pool", "done"} =>
               from \in {"rewards", "lists", "pool"} \/ SlotsOf(e - 1) \subseteq processed
    PROVE  RunInOrder'
<1> USE DEF Goto, Steps
<1>0. pc' = [pc EXCEPT ![e] = to] /\ pc[e] = from /\ pc \in [Epochs -> Steps]
      /\ UNCHANGED <<initEpoch, cached, processed, states>>
  BY DEF TablesType, downloads
<1>1. \A x \in Epochs : pc[x] = "done" => pc'[x] = "done"
  BY <1>0
<1>2. \A x \in Epochs : Started(x)' <=> Started(x)
  BY <1>0 DEF Started
<1>3. \A s \in cached : EpochOf(s) \in Epochs
  BY SlotsHaveEpochs DEF TablesType
<1>4. \A s \in cached' :
        /\ EpochOf(s) >= initEpoch'
        /\ EpochOf(s) - 2 >= initEpoch' => pc'[EpochOf(s) - 2] = "done"
  BY <1>0, <1>1, <1>3, Parameters DEF RunInOrder, TablesType
<1>5. \A x \in states' : SlotsOf(x) \subseteq cached'
  BY <1>0 DEF RunInOrder
<1>6. \A x \in Epochs : pc'[x] # "none" <=> x \in states'
  BY <1>0 DEF RunInOrder
<1>7. \A x, d \in Epochs : Started(x)' /\ initEpoch' <= d /\ d < x => pc'[d] = "done"
  BY <1>0, <1>1, <1>2 DEF RunInOrder
<1>8. \A x \in Epochs : Started(x)' /\ pc'[x] # "done" => x - 2 >= initEpoch'
  BY <1>0, <1>1, <1>2 DEF RunInOrder
<1>9. \A x \in Epochs :
        pc'[x] \in {"rewards", "lists", "pool", "done"} /\ x - 2 >= initEpoch'
            => SlotsOf(x - 1) \subseteq processed'
  BY <1>0 DEF RunInOrder
<1> QED
  BY <1>4, <1>5, <1>6, <1>7, <1>8, <1>9 DEF RunInOrder

LEMMA RunInOrderStep ==
    ASSUME TablesType, RunInOrder, [Next]_vars
    PROVE  RunInOrder'
<1> USE DEF Steps
<1>1. CASE \E s \in Slots : DownloadBlock(s)
  <2>1. PICK s \in Slots : DownloadBlock(s)
    BY <1>1
  <2>2. EpochOf(s) \in Epochs /\ initEpoch \in Int
    BY SlotsHaveEpochs DEF TablesType
  <2>3. EpochOf(s) - 2 >= initEpoch => pc[EpochOf(s) - 2] = "done"
    <3> SUFFICES ASSUME EpochOf(s) - 2 >= initEpoch PROVE pc[EpochOf(s) - 2] = "done"
      OBVIOUS
    <3> DEFINE h == EpochOf(s)
    <3>1. h - 2 \in Epochs
      <4>1. h \in Epochs /\ initEpoch \in (FirstEpoch - 4)..LastEpoch /\ h - 2 >= initEpoch
        BY <2>2 DEF TablesType
      <4> HIDE DEF h
      <4> QED
        BY <4>1, Parameters DEF Epochs
    <3>2. h - 2 \in states /\ Inactive(h - 2)
      <4>1. GateOpen(s)
        BY <2>1 DEF DownloadBlock
      <4>2. h - 2 < initEpoch \/ (h - 2 \in states /\ Inactive(h - 2))
        BY <4>1 DEF GateOpen
      <4>3. h \in Int /\ initEpoch \in Int /\ h - 2 >= initEpoch
        <5>1. h \in Nat /\ h - 2 >= initEpoch
          BY <2>2, SlotsHaveEpochs, EpochOfSlot
        <5> QED
          BY <2>2, <5>1
      <4> HIDE DEF h
      <4> QED
        BY <4>2, <4>3
    <3> QED
      BY <3>1, <3>2 DEF Inactive, RunInOrder
  <2> QED
    BY <2>1, <2>3 DEF DownloadBlock, RunInOrder, Started
<1>2. CASE \E s \in Slots : ProcessBlock(s)
  BY <1>2 DEF ProcessBlock, RunInOrder, Started
<1>3. CASE \E e \in Epochs : DownloadState(e)
  <2>1. PICK e \in Epochs : DownloadState(e)
    BY <1>3
  <2>2. pc[e] = "none" /\ pc' = [pc EXCEPT ![e] = "wait"] /\ pc \in [Epochs -> Steps]
        /\ states' = states \union {e} /\ UNCHANGED <<initEpoch, cached, processed>>
    BY <2>1 DEF DownloadState, RunInOrder, TablesType
  <2>3. \A x \in Epochs : (pc[x] = "done" <=> pc'[x] = "done") /\ (Started(x)' <=> Started(x))
    BY <2>2 DEF Started
  <2>4. \A s \in cached : EpochOf(s) \in Epochs
    BY SlotsHaveEpochs DEF TablesType
  <2>5. \A s \in cached' :
          /\ EpochOf(s) >= initEpoch'
          /\ EpochOf(s) - 2 >= initEpoch' => pc'[EpochOf(s) - 2] = "done"
    BY <2>2, <2>3, <2>4, Parameters DEF RunInOrder, TablesType
  <2>6. \A x \in states' : SlotsOf(x) \subseteq cached'
    BY <2>1, <2>2 DEF RunInOrder, DownloadState
  <2>7. \A x \in Epochs : pc'[x] # "none" <=> x \in states'
    BY <2>2 DEF RunInOrder
  <2>8. \A x, d \in Epochs : Started(x)' /\ initEpoch' <= d /\ d < x => pc'[d] = "done"
    BY <2>2, <2>3 DEF RunInOrder
  <2>9. \A x \in Epochs : Started(x)' /\ pc'[x] # "done" => x - 2 >= initEpoch'
    BY <2>2, <2>3 DEF RunInOrder
  <2>10. \A x \in Epochs :
          pc'[x] \in {"rewards", "lists", "pool", "done"} /\ x - 2 >= initEpoch'
              => SlotsOf(x - 1) \subseteq processed'
    BY <2>2 DEF RunInOrder
  <2> QED
    BY <2>5, <2>6, <2>7, <2>8, <2>9, <2>10 DEF RunInOrder
<1>4. CASE \E e \in Epochs : ReadStates(e)
  <2>1. PICK e \in Epochs : ReadStates(e)
    BY <1>4
  <2> DEFINE to == IF e - 2 >= initEpoch THEN "duties" ELSE "done"
  <2>2. pc[e] = "wait" /\ pc' = [pc EXCEPT ![e] = to] /\ pc \in [Epochs -> Steps]
        /\ UNCHANGED <<initEpoch, cached, processed, states>>
    BY <2>1 DEF ReadStates, Goto, TablesType, downloads
  <2>3. \A x \in Epochs : pc[x] = "done" => pc'[x] = "done"
    BY <2>2
  <2>4. \A s \in cached : EpochOf(s) \in Epochs
    BY SlotsHaveEpochs DEF TablesType
  <2>5. e \in Int /\ initEpoch \in Int
    BY Parameters DEF TablesType
  <2>6. \A d \in Epochs : initEpoch <= d /\ d < e => pc[d] = "done"
    <3> SUFFICES ASSUME NEW d \in Epochs, initEpoch <= d, d < e PROVE pc[d] = "done"
      OBVIOUS
    <3>1. d \in Int /\ e - 1 \in Epochs /\ e - 1 >= initEpoch
      BY <2>5, Parameters
    <3>2. e - 1 \in states /\ Inactive(e - 1)
      BY <2>1, <3>1 DEF ReadStates
    <3>3. pc[e - 1] = "done"
      BY <3>1, <3>2 DEF Inactive, RunInOrder
    <3>4. CASE d = e - 1
      BY <3>3, <3>4
    <3>5. CASE d < e - 1
      BY <3>1, <3>3, <3>5 DEF RunInOrder, Started
    <3> QED
      BY <2>5, <3>1, <3>4, <3>5
  <2>7. \A s \in cached' :
          /\ EpochOf(s) >= initEpoch'
          /\ EpochOf(s) - 2 >= initEpoch' => pc'[EpochOf(s) - 2] = "done"
    BY <2>2, <2>3, <2>4, Parameters DEF RunInOrder, TablesType
  <2>8. \A x \in states' : SlotsOf(x) \subseteq cached'
    BY <2>2 DEF RunInOrder
  <2>9. \A x \in Epochs : pc'[x] # "none" <=> x \in states'
    BY <2>2 DEF RunInOrder
  <2>10. \A x, d \in Epochs : Started(x)' /\ initEpoch' <= d /\ d < x => pc'[d] = "done"
    BY <2>2, <2>3, <2>6 DEF RunInOrder, Started
  <2>11. \A x \in Epochs : Started(x)' /\ pc'[x] # "done" => x - 2 >= initEpoch'
    BY <2>2 DEF RunInOrder, Started
  <2>12. \A x \in Epochs :
          pc'[x] \in {"rewards", "lists", "pool", "done"} /\ x - 2 >= initEpoch'
              => SlotsOf(x - 1) \subseteq processed'
    BY <2>2 DEF RunInOrder
  <2> HIDE DEF to
  <2> QED
    BY <2>7, <2>8, <2>9, <2>10, <2>11, <2>12 DEF RunInOrder
<1>5. ASSUME NEW e \in Epochs, ProcessEpochDuties(e) PROVE RunInOrder'
  BY <1>5, MoveInOrder DEF ProcessEpochDuties
<1>6. ASSUME NEW e \in Epochs, ProcessValLastStatus(e) PROVE RunInOrder'
  BY <1>6, MoveInOrder DEF ProcessValLastStatus
<1>7. ASSUME NEW e \in Epochs, ProcessValLastStatusFails(e) PROVE RunInOrder'
  BY <1>7, MoveInOrder DEF ProcessValLastStatusFails
<1>8. ASSUME NEW e \in Epochs, DeleteValLastStatus(e) PROVE RunInOrder'
  BY <1>8, MoveInOrder DEF DeleteValLastStatus
<1>9. ASSUME NEW e \in Epochs, ProcessEpochMetrics(e) PROVE RunInOrder'
  BY <1>9, MoveInOrder DEF ProcessEpochMetrics
<1>10. ASSUME NEW e \in Epochs, ProcessBlockRewards(e) PROVE RunInOrder'
  BY <1>10, MoveInOrder DEF ProcessBlockRewards
<1>11. ASSUME NEW e \in Epochs, ProcessEpochValRewards(e) PROVE RunInOrder'
  BY <1>11, MoveInOrder DEF ProcessEpochValRewards
<1>12. ASSUME NEW e \in Epochs, StoreLists(e) PROVE RunInOrder'
  BY <1>12, MoveInOrder DEF StoreLists
<1>13. ASSUME NEW e \in Epochs, ProcessPoolMetrics(e) PROVE RunInOrder'
  BY <1>13, MoveInOrder DEF ProcessPoolMetrics
<1>14. CASE WindowBoundary
  BY <1>14 DEF WindowBoundary, downloads, RunInOrder, Started
<1>15. CASE DeleteValidatorRewardsUntil
  BY <1>15 DEF DeleteValidatorRewardsUntil, downloads, RunInOrder, Started
<1>16. CASE \E f \in FirstFinalized..LastEpoch : CrashAndRestart(f)
  BY <1>16 DEF CrashAndRestart, RunInOrder, Started
<1>17. CASE UNCHANGED vars
  BY <1>17 DEF vars, RunInOrder, Started
<1> QED
  BY <1>1, <1>2, <1>3, <1>4, <1>5, <1>6, <1>7, <1>8, <1>9, <1>10, <1>11, <1>12, <1>13,
     <1>14, <1>15, <1>16, <1>17 DEF Next
-----------------------------------------------------------------------------
(* What a transition has written.                                          *)

Wrote(e) == RowsOf(e) \subseteq rows /\ <<"rewards", e>> \in written

WroteSoFar(e) ==
    /\ pc[e] \notin {"none", "wait", "duties", "done"} => Duties(e) \subseteq rows
    /\ pc[e] \in {"blockRewards", "rewards", "lists", "pool"} => EpochRow(e - 1) \subseteq rows
    /\ pc[e] \in {"rewards", "lists", "pool"} => <<"blockRewards", e - 1>> \in rows
    /\ pc[e] \in {"lists", "pool"} => <<"rewards", e>> \in written
    /\ pc[e] = "pool" => StateLists(e) \subseteq rows
    /\ pc[e] = "done" /\ e - 2 >= initEpoch => Wrote(e)

RowsSoFar == \A e \in Epochs : WroteSoFar(e)

LEMMA RowsSoFarStep ==
    ASSUME TablesType, RowsSoFar, [Next]_vars
    PROVE  RowsSoFar'
<1> USE DEF Steps, Goto
<1> DEFINE Grows(e) ==
             /\ rows \subseteq rows' /\ written \subseteq written' /\ initEpoch' = initEpoch
             /\ \A x \in Epochs \ {e} : pc'[x] = pc[x]
           Here(e) == Grows(e) /\ WroteSoFar(e)'
<1>1. ASSUME NEW e \in Epochs, Here(e) PROVE RowsSoFar'
  <2>1. \A x \in Epochs \ {e} : WroteSoFar(x)'
    BY <1>1 DEF RowsSoFar, WroteSoFar, Wrote
  <2> QED
    BY <1>1, <2>1 DEF RowsSoFar
<1>2. ASSUME NEW e \in Epochs, DownloadState(e) PROVE Here(e)
  BY <1>2 DEF DownloadState, tables, TablesType, WroteSoFar
<1>3. ASSUME NEW e \in Epochs, ReadStates(e) PROVE Here(e)
  <2>1. e \in Int /\ initEpoch \in Int
    BY Parameters DEF TablesType
  <2> QED
    BY <1>3, <2>1 DEF ReadStates, tables, downloads, TablesType, WroteSoFar
<1>4. ASSUME NEW e \in Epochs, ProcessEpochDuties(e) PROVE Here(e)
  BY <1>4 DEF ProcessEpochDuties, downloads, TablesType, WroteSoFar
<1>5. ASSUME NEW e \in Epochs, ProcessValLastStatus(e) PROVE Here(e)
  BY <1>5 DEF ProcessValLastStatus, downloads, TablesType, WroteSoFar, RowsSoFar
<1>6. ASSUME NEW e \in Epochs, ProcessValLastStatusFails(e) PROVE Here(e)
  BY <1>6 DEF ProcessValLastStatusFails, downloads, tables, TablesType, WroteSoFar, RowsSoFar
<1>7. ASSUME NEW e \in Epochs, DeleteValLastStatus(e) PROVE Here(e)
  BY <1>7 DEF DeleteValLastStatus, downloads, TablesType, WroteSoFar, RowsSoFar
<1>8. ASSUME NEW e \in Epochs, ProcessEpochMetrics(e) PROVE Here(e)
  BY <1>8 DEF ProcessEpochMetrics, downloads, TablesType, WroteSoFar, RowsSoFar
<1>9. ASSUME NEW e \in Epochs, ProcessBlockRewards(e) PROVE Here(e)
  BY <1>9 DEF ProcessBlockRewards, downloads, TablesType, WroteSoFar, RowsSoFar
<1>10. ASSUME NEW e \in Epochs, ProcessEpochValRewards(e) PROVE Here(e)
  BY <1>10 DEF ProcessEpochValRewards, downloads, TablesType, WroteSoFar, RowsSoFar
<1>11. ASSUME NEW e \in Epochs, StoreLists(e) PROVE Here(e)
  BY <1>11 DEF StoreLists, downloads, TablesType, WroteSoFar, RowsSoFar
<1>12. ASSUME NEW e \in Epochs, ProcessPoolMetrics(e) PROVE Here(e)
  BY <1>12
  DEF ProcessPoolMetrics, downloads, TablesType, WroteSoFar, RowsSoFar, Wrote, RowsOf
<1>13. CASE \E s \in Slots : DownloadBlock(s)
  BY <1>13 DEF DownloadBlock, tables, RowsSoFar, WroteSoFar, Wrote
<1>14. CASE \E s \in Slots : ProcessBlock(s)
  BY <1>14 DEF ProcessBlock, RowsSoFar, WroteSoFar, Wrote
<1>15. CASE WindowBoundary
  BY <1>15 DEF WindowBoundary, downloads, tables, RowsSoFar, WroteSoFar, Wrote
<1>16. CASE DeleteValidatorRewardsUntil
  BY <1>16 DEF DeleteValidatorRewardsUntil, downloads, RowsSoFar, WroteSoFar, Wrote
<1>17. CASE \E f \in FirstFinalized..LastEpoch : CrashAndRestart(f)
  BY <1>17 DEF CrashAndRestart, RowsSoFar, WroteSoFar
<1>18. CASE UNCHANGED vars
  BY <1>18 DEF vars, RowsSoFar, WroteSoFar, Wrote
<1> HIDE DEF Here
<1> QED
  BY <1>1, <1>2, <1>3, <1>4, <1>5, <1>6, <1>7, <1>8, <1>9, <1>10, <1>11, <1>12, <1>13,
     <1>14, <1>15, <1>16, <1>17, <1>18 DEF Next

-----------------------------------------------------------------------------
(* What a step of a run, one that is no crash, can change.                 *)

Working ==
    /\ initEpoch' = initEpoch /\ final' = final /\ crashes' = crashes
    /\ blocks \subseteq blocks' /\ blocks' \ blocks \subseteq cached
    /\ rows \subseteq rows' /\ written \subseteq written'
    /\ \A x \in Epochs : <<"epoch", x>> \in rows' \ rows => x + 1 \in Epochs /\ pc[x + 1] = "epoch"
    /\ \A x \in Epochs :
        <<"rewards", x>> \in written' \ written => pc[x] = "rewards" /\ x \in rewards'
    /\ \A x \in Epochs :
        pc'[x] = "done" /\ pc[x] # "done" =>
            x - 2 < initEpoch \/ (pc[x] = "pool" /\ PoolSummary(x - 2) \subseteq rows'
                                  /\ written' = written)
    /\ \/ rewards \subseteq rewards'
       \/ window # NoDelete /\ rewards' = {e \in rewards : e > window} /\ rows' = rows
          /\ written' = written
    /\ window' \in {window, NoDelete} \/ (window' = LowerBoundary /\ rows' = rows)

LEMMA StepWorks ==
    ASSUME TablesType, [Next]_vars
    PROVE  Working \/ \E f \in FirstFinalized..LastEpoch : CrashAndRestart(f)
<1> USE DEF Steps, Goto, TablesType
<1>1. ASSUME NEW s \in Slots, DownloadBlock(s) PROVE Working
  BY <1>1 DEF DownloadBlock, tables, Working
<1>2. ASSUME NEW s \in Slots, ProcessBlock(s) PROVE Working
  BY <1>2 DEF ProcessBlock, Working
<1>3. ASSUME NEW e \in Epochs, DownloadState(e) PROVE Working
  BY <1>3 DEF DownloadState, tables, Working
<1>4. ASSUME NEW e \in Epochs, ReadStates(e) PROVE Working
  <2>1. e \in Int /\ initEpoch \in Int
    BY Parameters
  <2> QED
    BY <1>4, <2>1 DEF ReadStates, tables, downloads, Working
<1>5. ASSUME NEW e \in Epochs, ProcessEpochDuties(e) PROVE Working
  BY <1>5 DEF ProcessEpochDuties, Duties, downloads, Working
<1>6. ASSUME NEW e \in Epochs, ProcessValLastStatus(e) PROVE Working
  BY <1>6 DEF ProcessValLastStatus, downloads, Working
<1>7. ASSUME NEW e \in Epochs, ProcessValLastStatusFails(e) PROVE Working
  BY <1>7 DEF ProcessValLastStatusFails, downloads, tables, Working
<1>8. ASSUME NEW e \in Epochs, DeleteValLastStatus(e) PROVE Working
  BY <1>8 DEF DeleteValLastStatus, downloads, Working
<1>9. ASSUME NEW e \in Epochs, ProcessEpochMetrics(e) PROVE Working
  <2>1. \A x \in Epochs : <<"epoch", x>> \in rows' \ rows => x + 1 = e
    BY <1>9, Parameters DEF ProcessEpochMetrics, EpochRow
  <2> QED
    BY <1>9, <2>1 DEF ProcessEpochMetrics, downloads, Working
<1>10. ASSUME NEW e \in Epochs, ProcessBlockRewards(e) PROVE Working
  BY <1>10 DEF ProcessBlockRewards, downloads, Working
<1>11. ASSUME NEW e \in Epochs, ProcessEpochValRewards(e) PROVE Working
  BY <1>11 DEF ProcessEpochValRewards, RewardRows, downloads, Working
<1>12. ASSUME NEW e \in Epochs, StoreLists(e) PROVE Working
  BY <1>12 DEF StoreLists, StateLists, Slashings, DepositsProcessed, ConsolidationRequests,
               WithdrawalRequests, DepositRequests, ConsolidationsProcessed, downloads, Working
<1>13. ASSUME NEW e \in Epochs, ProcessPoolMetrics(e) PROVE Working
  <2>1. \A x \in Epochs : <<"epoch", x>> \notin PoolSummary(e - 2)
    BY DEF PoolSummary
  <2> QED
    BY <1>13, <2>1 DEF ProcessPoolMetrics, downloads, Working
<1>14. CASE WindowBoundary
  BY <1>14 DEF WindowBoundary, downloads, tables, Working
<1>15. CASE DeleteValidatorRewardsUntil
  BY <1>15 DEF DeleteValidatorRewardsUntil, downloads, Working
<1>16. CASE UNCHANGED vars
  BY <1>16 DEF vars, Working
<1> QED
  BY <1>1, <1>2, <1>3, <1>4, <1>5, <1>6, <1>7, <1>8, <1>9, <1>10, <1>11, <1>12, <1>13,
     <1>14, <1>15, <1>16 DEF Next
-----------------------------------------------------------------------------
(* The newest block, and where a restart begins.                           *)

\* What the blocks of the database say of the start of this run.
HeadAhead ==
    /\ blocks = {} => initEpoch = final - 4
    /\ blocks # {} => \E s \in blocks : EpochOf(s) >= FirstEpoch
    /\ (\E s \in blocks : EpochOf(s) < initEpoch) => \E s \in blocks : EpochOf(s) >= initEpoch + 4

LEMMA SlotsBounded ==
    /\ LastEpoch * SlotsPerEpoch + SlotsPerEpoch \in Nat
    /\ \A s \in Slots : s <= LastEpoch * SlotsPerEpoch + SlotsPerEpoch
<1> DEFINE top == LastEpoch * SlotsPerEpoch + SlotsPerEpoch
<1>1. top \in Nat
  BY Parameters
<1>2. ASSUME NEW s \in Slots PROVE s <= top
  <2>1. s \in Nat /\ EpochOf(s) \in Epochs /\ EpochOf(s) \in Nat
        /\ EpochOf(s) * SlotsPerEpoch \in Nat /\ s < EpochOf(s) * SlotsPerEpoch + SlotsPerEpoch
    BY SlotsHaveEpochs, EpochOfSlot
  <2> DEFINE h == EpochOf(s)
             k == LastEpoch - h
  <2>2. h \in Nat /\ h <= LastEpoch /\ k \in Nat /\ LastEpoch = h + k
    BY <2>1, Parameters
  <2>3. LastEpoch * SlotsPerEpoch = h * SlotsPerEpoch + k * SlotsPerEpoch
        /\ k * SlotsPerEpoch \in Nat
    <3> HIDE DEF h, k
    <3> QED
      BY <2>2, Parameters
  <2> QED
    BY <2>1, <2>3, Parameters
<1> QED
  BY <1>1, <1>2

LEMMA DbHeadIsNewest ==
    ASSUME TablesType
    PROVE  /\ DbHead \in Nat /\ EpochOf(DbHead) \in Nat
           /\ blocks = {} => EpochOf(DbHead) = 0
           /\ blocks # {} => DbHead \in blocks /\ EpochOf(DbHead) \in Epochs
           /\ \A s \in blocks : EpochOf(s) \in Epochs /\ EpochOf(s) <= EpochOf(DbHead)
<1> DEFINE T == {0} \union blocks
           n == LastEpoch * SlotsPerEpoch + SlotsPerEpoch
<1>1. \A s \in blocks : s \in Nat /\ EpochOf(s) \in Epochs
  BY SlotsHaveEpochs DEF TablesType
<1>2. T \in SUBSET Nat /\ T # {} /\ n \in Nat /\ \A t \in T : t <= n
  BY <1>1, SlotsBounded DEF TablesType
<1>3. DbHead \in T /\ \A t \in T : t <= DbHead
  BY <1>2, MaxOfBounded DEF DbHead
<1>4. DbHead \in Nat /\ EpochOf(DbHead) \in Nat
  BY <1>2, <1>3, EpochOfSlot
<1>5. \A s \in blocks : EpochOf(s) <= EpochOf(DbHead)
  BY <1>1, <1>3, <1>4, EpochMonotone
<1>6. blocks = {} => EpochOf(DbHead) = 0
  <2> SUFFICES ASSUME blocks = {} PROVE EpochOf(0) = 0
    BY <1>3
  <2>1. 0 * SlotsPerEpoch = 0
    BY Parameters
  <2> QED
    BY <2>1, EpochUnique, Parameters
<1>7. blocks # {} => DbHead \in blocks
  <2> SUFFICES ASSUME NEW s \in blocks, DbHead = 0 PROVE DbHead \in blocks
    BY <1>3
  <2>1. s = 0
    BY <1>1, <1>3
  <2> QED
    BY <2>1
<1> QED
  BY <1>1, <1>4, <1>5, <1>6, <1>7

\* The three ways a restart finds its start.
LEMMA WhereRestarted ==
    ASSUME TablesType, HeadAhead, NEW f \in FirstFinalized..LastEpoch
    PROVE  \/ blocks = {} /\ StartEpoch(f) = f - 4
           \/ blocks # {} /\ EpochOf(DbHead) > f /\ StartEpoch(f) = f - 4
           \/ blocks # {} /\ EpochOf(DbHead) <= f /\ StartEpoch(f) = EpochOf(DbHead) - 4
              /\ EpochOf(DbHead) >= FirstEpoch
<1> DEFINE h == EpochOf(DbHead)
<1>1. h \in Nat /\ (blocks = {} => h = 0)
  BY DbHeadIsNewest
<1>2. blocks # {} => h >= FirstEpoch
  <2> SUFFICES ASSUME blocks # {} PROVE h >= FirstEpoch
    OBVIOUS
  <2>1. PICK s \in blocks : EpochOf(s) >= FirstEpoch
    BY DEF HeadAhead
  <2>2. EpochOf(s) <= h /\ EpochOf(s) \in Int
    BY DbHeadIsNewest, EpochsAreNumbers
  <2> HIDE DEF h
  <2> QED
    BY <1>1, <2>1, <2>2, Parameters
<1>3. StartEpoch(f) = IF h = 0 \/ h > f THEN f - 4 ELSE h - 4
  BY DEF StartEpoch, epochsToFinalizedTentative
<1> HIDE DEF h
<1>4. f \in Int /\ FirstEpoch >= 4
  BY Parameters
<1>5. \/ blocks = {} /\ StartEpoch(f) = f - 4
      \/ blocks # {} /\ h > f /\ StartEpoch(f) = f - 4
      \/ blocks # {} /\ h <= f /\ StartEpoch(f) = h - 4 /\ h >= FirstEpoch
  BY <1>1, <1>2, <1>3, <1>4, Parameters
<1> QED
  BY <1>5 DEF h

LEMMA TablesTypeStep ==
    ASSUME TablesType, HeadAhead, [Next]_vars
    PROVE  TablesType'
<1> USE DEF Steps, Goto, TablesType
<1>1. ASSUME NEW s \in Slots, DownloadBlock(s) PROVE TablesType'
  BY <1>1 DEF DownloadBlock, tables
<1>2. ASSUME NEW s \in Slots, ProcessBlock(s) PROVE TablesType'
  BY <1>2 DEF ProcessBlock
<1>3. ASSUME NEW e \in Epochs, DownloadState(e) PROVE TablesType'
  BY <1>3 DEF DownloadState, tables
<1>4. ASSUME NEW e \in Epochs, ReadStates(e) PROVE TablesType'
  BY <1>4 DEF ReadStates, tables, downloads
<1>5. ASSUME NEW e \in Epochs, ProcessEpochDuties(e) PROVE TablesType'
  BY <1>5 DEF ProcessEpochDuties, downloads
<1>6. ASSUME NEW e \in Epochs, ProcessValLastStatus(e) PROVE TablesType'
  BY <1>6 DEF ProcessValLastStatus, downloads
<1>7. ASSUME NEW e \in Epochs, ProcessValLastStatusFails(e) PROVE TablesType'
  BY <1>7 DEF ProcessValLastStatusFails, downloads, tables
<1>8. ASSUME NEW e \in Epochs, DeleteValLastStatus(e) PROVE TablesType'
  BY <1>8 DEF DeleteValLastStatus, downloads
<1>9. ASSUME NEW e \in Epochs, ProcessEpochMetrics(e) PROVE TablesType'
  BY <1>9 DEF ProcessEpochMetrics, downloads
<1>10. ASSUME NEW e \in Epochs, ProcessBlockRewards(e) PROVE TablesType'
  BY <1>10 DEF ProcessBlockRewards, downloads
<1>11. ASSUME NEW e \in Epochs, ProcessEpochValRewards(e) PROVE TablesType'
  BY <1>11 DEF ProcessEpochValRewards, RewardRows, downloads
<1>12. ASSUME NEW e \in Epochs, StoreLists(e) PROVE TablesType'
  BY <1>12 DEF StoreLists, downloads
<1>13. ASSUME NEW e \in Epochs, ProcessPoolMetrics(e) PROVE TablesType'
  BY <1>13 DEF ProcessPoolMetrics, downloads
<1>14. CASE WindowBoundary
  <2>1. DbHeadEpoch \in Nat
    <3> DEFINE T == {0} \union {e \in Epochs : <<"epoch", e>> \in rows}
    <3>1. LastEpoch \in Nat /\ \A t \in T : t \in Nat /\ t <= LastEpoch
      <4>1. LastEpoch \in Nat
        BY Parameters
      <4>2. ASSUME NEW t \in T PROVE t = 0 \/ t \in Epochs
        OBVIOUS
      <4> HIDE DEF T
      <4> QED
        BY <4>1, <4>2, EpochsAreNumbers
    <3>2. T \in SUBSET Nat /\ T # {}
      BY <3>1
    <3> QED
      BY <3>1, <3>2, MaxOfBounded DEF DbHeadEpoch
  <2>2. LowerBoundary \in Int
    BY <2>1, Parameters DEF LowerBoundary
  <2> QED
    BY <1>14, <2>2 DEF WindowBoundary, downloads, tables
<1>15. CASE DeleteValidatorRewardsUntil
  BY <1>15 DEF DeleteValidatorRewardsUntil, NoDelete, downloads
<1>16. CASE \E f \in FirstFinalized..LastEpoch : CrashAndRestart(f)
  <2>1. PICK f \in FirstFinalized..LastEpoch : CrashAndRestart(f)
    BY <1>16
  <2> DEFINE h == EpochOf(DbHead)
  <2>2. h \in Nat
    BY DbHeadIsNewest
  <2>3. StartEpoch(f) = f - 4 \/ (h <= f /\ h >= FirstEpoch /\ StartEpoch(f) = h - 4)
    BY WhereRestarted
  <2> HIDE DEF h
  <2>4. StartEpoch(f) \in (FirstEpoch - 4)..LastEpoch /\ StartEpoch(f) <= f - 4
    BY <2>2, <2>3, Parameters
  <2> QED
    BY <2>1, <2>4 DEF CrashAndRestart, tables
<1>17. CASE UNCHANGED vars
  BY <1>17 DEF vars
<1> QED
  BY <1>1, <1>2, <1>3, <1>4, <1>5, <1>6, <1>7, <1>8, <1>9, <1>10, <1>11, <1>12, <1>13,
     <1>14, <1>15, <1>16, <1>17 DEF Next

LEMMA HeadAheadStep ==
    ASSUME TablesType, RunInOrder, HeadAhead, [Next]_vars
    PROVE  HeadAhead'
<1>0. initEpoch \in Int /\ final \in Int /\ \A s \in cached : EpochOf(s) \in Epochs
  BY SlotsHaveEpochs, Parameters DEF TablesType
<1>1. CASE Working
  <2>1. \A s \in blocks' \ blocks : EpochOf(s) >= initEpoch /\ EpochOf(s) \in Int
    BY <1>0, <1>1, EpochsAreNumbers DEF Working, RunInOrder
  <2>2. blocks \subseteq blocks' /\ initEpoch' = initEpoch /\ final' = final
    BY <1>1 DEF Working
  <2>3. blocks' = {} => initEpoch' = final' - 4
    BY <2>2 DEF HeadAhead
  <2>4. blocks' # {} => \E s \in blocks' : EpochOf(s) >= FirstEpoch
    <3>1. CASE blocks = {}
      <4> SUFFICES ASSUME NEW s \in blocks' PROVE EpochOf(s) >= FirstEpoch
        OBVIOUS
      <4>1. initEpoch = final - 4 /\ final >= FirstFinalized
        BY <3>1 DEF HeadAhead, TablesType
      <4>2. EpochOf(s) >= initEpoch /\ EpochOf(s) \in Int
        BY <2>1, <3>1
      <4> QED
        BY <1>0, <4>1, <4>2, Parameters
    <3>2. CASE blocks # {}
      BY <2>2, <3>2 DEF HeadAhead
    <3> QED
      BY <3>1, <3>2
  <2>5. ASSUME NEW s \in blocks', EpochOf(s) < initEpoch
        PROVE  \E t \in blocks' : EpochOf(t) >= initEpoch + 4
    <3>1. s \in blocks
      BY <1>0, <2>1, <2>5
    <3> QED
      BY <2>2, <2>5, <3>1 DEF HeadAhead
  <2> QED
    BY <2>2, <2>3, <2>4, <2>5 DEF HeadAhead
<1>2. ASSUME NEW f \in FirstFinalized..LastEpoch, CrashAndRestart(f) PROVE HeadAhead'
  <2>1. initEpoch' = StartEpoch(f) /\ final' = f /\ blocks' = blocks
    BY <1>2 DEF CrashAndRestart, tables
  <2>2. blocks' = {} => initEpoch' = final' - 4
    BY <2>1, WhereRestarted
  <2>3. blocks' # {} => \E s \in blocks' : EpochOf(s) >= FirstEpoch
    BY <2>1 DEF HeadAhead
  <2>4. ASSUME blocks # {} PROVE \E t \in blocks : EpochOf(t) >= StartEpoch(f) + 4
    <3> DEFINE h == EpochOf(DbHead)
    <3>1. DbHead \in blocks /\ h \in Nat
      BY <2>4, DbHeadIsNewest
    <3>2. (h > f /\ StartEpoch(f) = f - 4) \/ StartEpoch(f) = h - 4
      BY <2>4, WhereRestarted
    <3>3. h >= StartEpoch(f) + 4
      <4> HIDE DEF h
      <4> QED
        BY <3>1, <3>2, Parameters
    <3> QED
      BY <3>1, <3>3
  <2> QED
    BY <2>1, <2>2, <2>3, <2>4 DEF HeadAhead
<1> QED
  BY <1>1, <1>2, StepWorks
-----------------------------------------------------------------------------
(* What a crash costs.                                                     *)

\* Three epochs below a block everything is written, from the first transition of
\* this run on.  (Two epochs below, a block that an earlier run wrote may be where
\* this run has yet to begin.)
NothingMissing ==
    \A s \in blocks, e \in Epochs :
        e <= EpochOf(s) - 3 /\ e >= initEpoch + 2 => Wrote(e)

\* Past the start of a run, the transitions two epochs below one of its blocks
\* have written.
LEMMA BelowCached ==
    ASSUME TablesType, RunInOrder, RowsSoFar, NEW s \in cached, NEW e \in Epochs,
           e <= EpochOf(s) - 2, e >= initEpoch + 2
    PROVE  Wrote(e)
<1> DEFINE h == EpochOf(s)
<1>1. h \in Epochs /\ h \in Int /\ e \in Int /\ initEpoch \in Int
  <2>1. h \in Epochs
    BY SlotsHaveEpochs DEF TablesType
  <2>2. initEpoch \in Int
    BY Parameters DEF TablesType
  <2> HIDE DEF h
  <2> QED
    BY <2>1, <2>2, EpochsAreNumbers
<1>2. e <= h - 2 /\ h >= initEpoch /\ (h - 2 >= initEpoch => pc[h - 2] = "done")
  BY DEF RunInOrder
<1> HIDE DEF h
<1>3. h - 2 >= initEpoch /\ h - 2 \in Epochs
  <2>1. h - 2 >= e
    BY <1>1, <1>2
  <2>2. h - 2 \in Int /\ FirstEpoch - 4 <= h - 2 /\ h - 2 <= LastEpoch
    BY <1>1, <2>1, EpochsAreNumbers, Parameters
  <2> QED
    BY <1>1, <2>1, <2>2, Parameters
<1>4. pc[e] = "done"
  <2>1. CASE e = h - 2
    BY <1>2, <1>3, <2>1
  <2>2. CASE e < h - 2
    BY <1>1, <1>2, <1>3, <2>2 DEF RunInOrder, Started
  <2> QED
    BY <1>1, <1>2, <2>1, <2>2
<1>5. e - 2 >= initEpoch
  BY <1>1
<1> QED
  BY <1>4, <1>5 DEF RowsSoFar, WroteSoFar

LEMMA NothingMissingStep ==
    ASSUME TablesType, RunInOrder, RowsSoFar, HeadAhead, NothingMissing, [Next]_vars
    PROVE  NothingMissing'
<1>0. initEpoch \in Int /\ final \in Int /\ initEpoch <= final - 4
  BY Parameters DEF TablesType
<1>1. CASE Working
  <2> SUFFICES ASSUME NEW s \in blocks', NEW e \in Epochs,
                      e <= EpochOf(s) - 3, e >= initEpoch + 2
               PROVE  Wrote(e)
    BY <1>1 DEF Working, NothingMissing, Wrote
  <2>1. CASE s \in blocks
    BY <2>1 DEF NothingMissing
  <2>2. CASE s \notin blocks
    <3>1. s \in cached
      BY <1>1, <2>2 DEF Working
    <3>2. e \in Int /\ EpochOf(s) \in Int
      BY <3>1, EpochsAreNumbers, SlotsHaveEpochs DEF TablesType
    <3>3. e <= EpochOf(s) - 2
      BY <3>2
    <3> QED
      BY <3>1, <3>3, BelowCached
  <2> QED
    BY <2>1, <2>2
<1>2. ASSUME NEW f \in FirstFinalized..LastEpoch, CrashAndRestart(f) PROVE NothingMissing'
  <2>1. /\ initEpoch' = StartEpoch(f) /\ final' = f /\ f >= final /\ f \in Int
        /\ blocks' = blocks /\ rows' = rows /\ written' = written
    BY <1>2, Parameters DEF CrashAndRestart, tables
  <2> SUFFICES ASSUME NEW s \in blocks, NEW e \in Epochs,
                      e <= EpochOf(s) - 3, e >= StartEpoch(f) + 2
               PROVE  Wrote(e)
    BY <2>1 DEF NothingMissing, Wrote
  <2> DEFINE h == EpochOf(DbHead)
             k == EpochOf(s)
  <2>2. h \in Nat /\ k <= h /\ k \in Int /\ e \in Int
    BY DbHeadIsNewest, EpochsAreNumbers
  <2>3. \/ StartEpoch(f) = f - 4
        \/ h <= f /\ StartEpoch(f) = h - 4
    BY WhereRestarted
  <2>4. e <= k - 3
    OBVIOUS
  <2>5. e >= initEpoch + 2
    <3> HIDE DEF h, k
    <3> QED
      BY <1>0, <2>1, <2>2, <2>3, <2>4
  <2> QED
    BY <2>5 DEF NothingMissing
<1> QED
  BY <1>1, <1>2, StepWorks

LEMMA NoNewLoss ==
    ASSUME TablesType, RowsSoFar, HeadAhead, RowsSoFar', TablesType', Working,
           RunInOrder
    PROVE  Lost' \subseteq Lost
<1> SUFFICES ASSUME NEW e \in Epochs, e \in Lost' PROVE e \in Lost
  BY DEF Lost
<1>0. e \in Int /\ initEpoch \in Int /\ initEpoch' = initEpoch
  BY EpochsAreNumbers, Parameters DEF TablesType, Working
<1>1. ~Wrote(e)' /\ ~Wrote(e)
  BY DEF Lost, Wrote, Working, RowsOf
<1>2. e - 2 < initEpoch
  <2> SUFFICES ASSUME e - 2 >= initEpoch PROVE FALSE
    BY <1>0
  <2>1. pc'[e] = "done"
    BY <1>0 DEF Lost, Past
  <2> QED
    BY <1>0, <1>1, <2>1 DEF RowsSoFar, WroteSoFar
<1>3. PICK s \in blocks' : EpochOf(s) <= e - 2
  BY DEF Lost
<1>4. s \in blocks
  <2> SUFFICES ASSUME s \notin blocks PROVE FALSE
    OBVIOUS
  <2>1. s \in cached
    BY DEF Working
  <2>2. EpochOf(s) >= initEpoch /\ EpochOf(s) \in Int
    BY <2>1, SlotsHaveEpochs, EpochsAreNumbers DEF RunInOrder, TablesType
  <2> QED
    BY <1>0, <1>2, <1>3, <2>2
<1>5. e <= EpochOf(DbHead)
  <2>1. EpochOf(s) \in Int
    BY <1>4, DbHeadIsNewest, EpochsAreNumbers
  <2>2. EpochOf(s) < initEpoch
    BY <1>0, <1>2, <1>3, <2>1
  <2>3. PICK t \in blocks : EpochOf(t) >= initEpoch + 4
    BY <1>4, <2>2 DEF HeadAhead
  <2>4. EpochOf(t) <= EpochOf(DbHead) /\ EpochOf(t) \in Int /\ EpochOf(DbHead) \in Nat
    BY DbHeadIsNewest, EpochsAreNumbers
  <2> QED
    BY <1>0, <1>2, <2>3, <2>4
<1> QED
  BY <1>1, <1>2, <1>3, <1>4, <1>5 DEF Lost, Past, Wrote

\* All that a restart leaves out has been written: it lies three epochs or more
\* below the newest block.
LEMMA NoLossByCrash ==
    ASSUME TablesType, HeadAhead, NothingMissing,
           NEW f \in FirstFinalized..LastEpoch, CrashAndRestart(f)
    PROVE  Lost' \subseteq Lost
<1> DEFINE h == EpochOf(DbHead)
<1> SUFFICES ASSUME NEW e \in Epochs, e \in Lost' PROVE e \in Lost
  BY DEF Lost
<1>1. /\ initEpoch' = StartEpoch(f) /\ f \in Int
      /\ blocks' = blocks /\ rows' = rows /\ written' = written
      /\ pc' = [x \in Epochs |-> "none"]
  BY Parameters DEF CrashAndRestart, tables
<1>2. PICK s \in blocks : EpochOf(s) <= e - 2
  BY <1>1 DEF Lost
<1>3. e <= h /\ e - 2 < StartEpoch(f) /\ ~Wrote(e)
  BY <1>1 DEF Lost, Past, Wrote, DbHead, RowsOf
<1>4. h \in Nat /\ e \in Int /\ blocks # {} /\ DbHead \in blocks /\ initEpoch \in Int
  BY <1>2, DbHeadIsNewest, EpochsAreNumbers, Parameters DEF TablesType
<1>5. (h > f /\ StartEpoch(f) = f - 4) \/ StartEpoch(f) = h - 4
  BY <1>4, WhereRestarted
<1>6. e <= h - 3
  <2> HIDE DEF h
  <2> QED
    BY <1>1, <1>3, <1>4, <1>5
<1>7. ~(e >= initEpoch + 2)
  BY <1>3, <1>4, <1>6 DEF NothingMissing
<1>8. Past(e)
  BY <1>4, <1>7 DEF Past
<1> QED
  BY <1>2, <1>3, <1>8 DEF Lost, Wrote

LEMMA NothingLostStep ==
    ASSUME TablesType, RunInOrder, RowsSoFar, HeadAhead, NothingMissing, NoTransitionLost,
           TablesType', RowsSoFar', [Next]_vars
    PROVE  NoTransitionLost'
<1>1. Lost' \subseteq Lost
  BY NoNewLoss, NoLossByCrash, StepWorks
<1> QED
  BY <1>1 DEF NoTransitionLost

TablesInv ==
    TablesType /\ RunInOrder /\ RowsSoFar /\ HeadAhead /\ NothingMissing

LEMMA TablesInvInit == Init => TablesInv /\ NoTransitionLost
<1> SUFFICES ASSUME Init PROVE TablesInv /\ NoTransitionLost
  OBVIOUS
<1>1. TablesType
  BY Parameters, EpochAssumption DEF Init, TablesType, Steps, NoDelete
<1>2. RunInOrder
  BY DEF Init, RunInOrder, Started
<1>3. RowsSoFar
  BY DEF Init, RowsSoFar, WroteSoFar
<1>4. HeadAhead /\ NothingMissing
  BY DEF Init, HeadAhead, FirstEpoch, epochsToFinalizedTentative, NothingMissing
<1>5. NoTransitionLost
  BY DEF Init, Lost, NoTransitionLost
<1> QED
  BY <1>1, <1>2, <1>3, <1>4, <1>5 DEF TablesInv

LEMMA TablesInvStep ==
    TablesInv /\ [Next]_vars => TablesInv'
BY TablesTypeStep, RunInOrderStep, RowsSoFarStep, HeadAheadStep, NothingMissingStep
DEF TablesInv

\* However often the process dies, and wherever its transitions, its blocks and
\* the validator window are, no transition between the oldest and the newest block
\* stays with rows missing unless a run will make it again (fillToHead,
\* epochsToFinalizedTentative and WaitForPrevState).
THEOREM CrashesLoseNothing == Spec => []NoTransitionLost
<1>1. Init => TablesInv /\ NoTransitionLost
  BY TablesInvInit
<1>2. TablesInv /\ NoTransitionLost /\ [Next]_vars => (TablesInv /\ NoTransitionLost)'
  BY TablesInvStep, NothingLostStep DEF TablesInv
<1> QED
  BY <1>1, <1>2, PTL DEF Spec
-----------------------------------------------------------------------------
(* The pool summaries.                                                     *)

\* Rewards are written no further than one epoch above a block, and those below
\* the start of the run four epochs and more below one.
WrittenInOrder ==
    /\ \A x \in Epochs : <<"rewards", x>> \in written => \E s \in blocks : EpochOf(s) >= x - 1
    /\ (\E x \in Epochs : <<"rewards", x>> \in written /\ x < initEpoch) =>
           \E s \in blocks : EpochOf(s) >= initEpoch + 4

\* So are the epoch rows, and with no block the first one of a run.
RowsNearHead ==
    \A x \in Epochs : <<"epoch", x>> \in rows =>
        \/ \E s \in blocks : EpochOf(s) >= x - 1
        \/ blocks = {} /\ x <= initEpoch + 1

\* A window below the newest epoch row the rewards are summed up.
PoolsKept ==
    \A x, h \in Epochs :
        /\ <<"epoch", h>> \in rows /\ x + WindowSize <= h /\ x >= initEpoch
        /\ <<"rewards", x>> \in written \/ x >= initEpoch + 2
        => <<"pool", x>> \in rows

\* Rewards are deleted after they have been summed up.
RewardsThere ==
    \A x \in Epochs :
        <<"rewards", x>> \in written /\ x >= initEpoch => x \in rewards \/ <<"pool", x>> \in rows

\* The window deletes what is its size below the newest epoch row.
WindowBehind == window # NoDelete => window <= DbHeadEpoch - WindowSize

PoolInv ==
    WrittenInOrder /\ RowsNearHead /\ PoolsKept /\ RewardsThere /\ WindowBehind /\ PoolsSummed

\* When transition e has reached its block rewards, the blocks of the epoch
\* below are in the database.
LEMMA BlockOfEpochBelow ==
    ASSUME TablesType, RunInOrder, NEW e \in Epochs, e - 2 >= initEpoch,
           pc[e] \in {"rewards", "lists", "pool", "done"}
    PROVE  \E s \in blocks : EpochOf(s) = e - 1
<1>1. e \in Int /\ initEpoch \in Int /\ e - 1 \in Epochs
  <2>1. e \in Int /\ initEpoch \in Int /\ initEpoch >= FirstEpoch - 4 /\ e <= LastEpoch
    BY EpochsAreNumbers, Parameters DEF TablesType
  <2> QED
    BY <2>1, Parameters
<1>2. SlotsOf(e - 1) \subseteq blocks
  BY DEF RunInOrder, TablesType
<1> QED
  BY <1>1, <1>2, SlotsOfEpoch

LEMMA NewestEpochRow ==
    ASSUME NEW R, NEW n, n = Max({0} \union {e \in Epochs : <<"epoch", e>> \in R})
    PROVE  /\ n \in Nat
           /\ n > 0 => n \in Epochs /\ <<"epoch", n>> \in R
           /\ \A x \in Epochs : <<"epoch", x>> \in R => x <= n
<1> DEFINE T == {0} \union {e \in Epochs : <<"epoch", e>> \in R}
<1>1. LastEpoch \in Nat
  BY Parameters
<1>2. \A t \in T : t = 0 \/ t \in Epochs
  OBVIOUS
<1>3. T \in SUBSET Nat /\ T # {} /\ \A t \in T : t <= LastEpoch
  <2>1. \A t \in T : t \in Nat /\ t <= LastEpoch
    <3> HIDE DEF T
    <3> QED
      BY <1>1, <1>2, EpochsAreNumbers
  <2> QED
    BY <2>1
<1>4. n \in T /\ \A t \in T : t <= n
  BY <1>1, <1>3, MaxOfBounded
<1>5. n \in Nat
  BY <1>3, <1>4
<1>6. n > 0 => n \in Epochs /\ <<"epoch", n>> \in R
  BY <1>4
<1>7. \A x \in Epochs : <<"epoch", x>> \in R => x <= n
  BY <1>4
<1> QED
  BY <1>5, <1>6, <1>7

LEMMA DbHeadEpochIsNewest ==
    /\ DbHeadEpoch \in Nat
    /\ DbHeadEpoch > 0 => DbHeadEpoch \in Epochs /\ <<"epoch", DbHeadEpoch>> \in rows
    /\ \A x \in Epochs : <<"epoch", x>> \in rows => x <= DbHeadEpoch
BY NewestEpochRow DEF DbHeadEpoch

LEMMA WrittenInOrderStep ==
    ASSUME TablesType, RunInOrder, HeadAhead, WrittenInOrder, [Next]_vars
    PROVE  WrittenInOrder'
<1>0. initEpoch \in Int /\ \A x \in Epochs : x \in Int
  BY EpochsAreNumbers, Parameters DEF TablesType
<1>1. CASE Working
  <2>1. ASSUME NEW x \in Epochs, <<"rewards", x>> \in written' \ written
        PROVE  x - 2 >= initEpoch /\ \E s \in blocks : EpochOf(s) >= x - 1
    <3>1. pc[x] = "rewards"
      BY <1>1, <2>1 DEF Working
    <3>2. x - 2 >= initEpoch
      BY <3>1 DEF RunInOrder, Started
    <3>3. PICK s \in blocks : EpochOf(s) = x - 1
      BY <3>1, <3>2, BlockOfEpochBelow
    <3> QED
      BY <1>0, <3>2, <3>3
  <2>2. blocks \subseteq blocks' /\ initEpoch' = initEpoch
    BY <1>1 DEF Working
  <2>3. ASSUME NEW x \in Epochs, <<"rewards", x>> \in written'
        PROVE  \E s \in blocks' : EpochOf(s) >= x - 1
    BY <2>1, <2>2, <2>3 DEF WrittenInOrder
  <2>4. ASSUME NEW x \in Epochs, <<"rewards", x>> \in written', x < initEpoch
        PROVE  \E s \in blocks' : EpochOf(s) >= initEpoch + 4
    <3>1. <<"rewards", x>> \in written
      BY <1>0, <2>1, <2>4
    <3> QED
      BY <2>2, <2>4, <3>1 DEF WrittenInOrder
  <2> QED
    BY <2>2, <2>3, <2>4 DEF WrittenInOrder
<1>2. ASSUME NEW f \in FirstFinalized..LastEpoch, CrashAndRestart(f) PROVE WrittenInOrder'
  <2>1. initEpoch' = StartEpoch(f) /\ blocks' = blocks /\ written' = written /\ f \in Int
    BY <1>2, Parameters DEF CrashAndRestart, tables
  <2>2. ASSUME blocks # {} PROVE \E s \in blocks : EpochOf(s) >= StartEpoch(f) + 4
    <3> DEFINE h == EpochOf(DbHead)
    <3>1. DbHead \in blocks /\ h \in Nat
      BY <2>2, DbHeadIsNewest
    <3>2. (h > f /\ StartEpoch(f) = f - 4) \/ StartEpoch(f) = h - 4
      BY <2>2, WhereRestarted
    <3>3. h >= StartEpoch(f) + 4
      <4> HIDE DEF h
      <4> QED
        BY <2>1, <3>1, <3>2
    <3> QED
      BY <3>1, <3>3
  <2> QED
    BY <2>1, <2>2 DEF WrittenInOrder
<1> QED
  BY <1>1, <1>2, StepWorks

LEMMA RowsNearHeadStep ==
    ASSUME TablesType, RunInOrder, HeadAhead, RowsNearHead, [Next]_vars
    PROVE  RowsNearHead'
<1>0. initEpoch \in Int /\ final \in Int /\ \A x \in Epochs : x \in Int
  BY EpochsAreNumbers, Parameters DEF TablesType
<1>1. CASE Working
  <2> SUFFICES ASSUME NEW x \in Epochs, <<"epoch", x>> \in rows'
               PROVE  \/ \E s \in blocks' : EpochOf(s) >= x - 1
                      \/ blocks' = {} /\ x <= initEpoch + 1
    BY <1>1 DEF Working, RowsNearHead
  <2>1. \/ \E s \in blocks : EpochOf(s) >= x - 1
        \/ x <= initEpoch + 1
    <3>1. CASE <<"epoch", x>> \in rows
      BY <3>1 DEF RowsNearHead
    <3>2. CASE <<"epoch", x>> \notin rows
      <4>1. x + 1 \in Epochs /\ pc[x + 1] = "epoch"
        BY <1>1, <3>2 DEF Working
      <4>2. (x + 1) - 2 >= initEpoch
        BY <4>1 DEF RunInOrder, Started
      <4>3. CASE x <= initEpoch + 1
        BY <4>3
      <4>4. CASE x >= initEpoch + 2
        <5>1. pc[x] = "done"
          BY <1>0, <4>1, <4>4 DEF RunInOrder, Started
        <5>2. PICK s \in blocks : EpochOf(s) = x - 1
          BY <1>0, <4>4, <5>1, BlockOfEpochBelow
        <5> QED
          BY <1>0, <5>2
      <4> QED
        BY <1>0, <4>3, <4>4
    <3> QED
      BY <3>1, <3>2
  <2>2. blocks \subseteq blocks'
    BY <1>1 DEF Working
  <2>3. ASSUME NEW s \in blocks', x <= initEpoch + 1
        PROVE  \E t \in blocks' : EpochOf(t) >= x - 1
    <3>1. EpochOf(s) \in Int
      <4>1. s \in blocks \/ s \in cached
        BY <1>1 DEF Working
      <4>2. EpochOf(s) \in Epochs
        BY <4>1, SlotsHaveEpochs DEF TablesType
      <4> QED
        BY <1>0, <4>2
    <3>2. CASE EpochOf(s) >= initEpoch
      BY <1>0, <2>3, <3>1, <3>2
    <3>3. CASE EpochOf(s) < initEpoch
      <4>1. s \in blocks
        BY <1>0, <1>1, <3>1, <3>3 DEF Working, RunInOrder
      <4>2. PICK t \in blocks : EpochOf(t) >= initEpoch + 4
        BY <3>3, <4>1 DEF HeadAhead
      <4>3. EpochOf(t) \in Int
        BY <1>0, DbHeadIsNewest
      <4> QED
        BY <1>0, <2>2, <2>3, <4>2, <4>3
    <3> QED
      BY <1>0, <3>1, <3>2, <3>3
  <2> QED
    BY <2>1, <2>2, <2>3
<1>2. ASSUME NEW f \in FirstFinalized..LastEpoch, CrashAndRestart(f) PROVE RowsNearHead'
  <2>1. /\ initEpoch' = StartEpoch(f) /\ blocks' = blocks /\ rows' = rows
        /\ f \in Int /\ f >= final
    BY <1>2, Parameters DEF CrashAndRestart, tables
  <2>2. blocks = {} => StartEpoch(f) = f - 4 /\ initEpoch = final - 4
    BY WhereRestarted DEF HeadAhead
  <2>3. blocks = {} => \A x \in Epochs : x <= initEpoch + 1 => x <= StartEpoch(f) + 1
    BY <1>0, <2>1, <2>2
  <2> QED
    BY <2>1, <2>3 DEF RowsNearHead
<1> QED
  BY <1>1, <1>2, StepWorks

LEMMA PoolsKeptStep ==
    ASSUME TablesType, RunInOrder, RowsSoFar, HeadAhead, PoolInv, [Next]_vars
    PROVE  PoolsKept'
<1>0. initEpoch \in Int /\ final \in Int /\ initEpoch <= final - 4 /\ \A x \in Epochs : x \in Int
  BY EpochsAreNumbers, Parameters DEF TablesType
<1>1. CASE Working
  <2> SUFFICES ASSUME NEW x \in Epochs, NEW h \in Epochs,
                      <<"epoch", h>> \in rows', x + WindowSize <= h, x >= initEpoch,
                      <<"rewards", x>> \in written' \/ x >= initEpoch + 2
               PROVE  <<"pool", x>> \in rows
    BY <1>1 DEF Working, PoolsKept
  <2>0. x \in Int /\ h \in Int /\ x + 2 <= h
    BY <1>0, Parameters
  <2>1. <<"rewards", x>> \in written \/ x >= initEpoch + 2
    <3>1. <<"rewards", x>> \in written' \ written => x - 2 >= initEpoch
      BY <1>1 DEF Working, RunInOrder, Started
    <3> QED
      BY <1>0, <3>1
  <2>2. CASE <<"epoch", h>> \in rows
    BY <2>1, <2>2 DEF PoolInv, PoolsKept
  <2>3. CASE <<"epoch", h>> \notin rows
    <3>1. h + 1 \in Epochs /\ pc[h + 1] = "epoch"
      BY <1>1, <2>3 DEF Working
    <3>2. x + 2 \in Epochs
      BY <1>0, <2>0, Parameters, EpochsAreNumbers
    <3>3. pc[x + 2] = "done"
      BY <1>0, <2>0, <3>1, <3>2 DEF RunInOrder, Started
    <3>4. <<"rewards", x>> \in written
      <4> SUFFICES ASSUME x >= initEpoch + 2 PROVE <<"rewards", x>> \in written
        BY <2>1
      <4>1. pc[x] = "done"
        BY <1>0, <2>0, <3>1 DEF RunInOrder, Started
      <4>2. x - 2 >= initEpoch
        BY <1>0
      <4> QED
        BY <4>1, <4>2 DEF RowsSoFar, WroteSoFar, Wrote
    <3>5. (x + 2) - 2 = x
      BY <1>0
    <3> QED
      BY <3>2, <3>3, <3>4, <3>5 DEF PoolInv, PoolsSummed
  <2> QED
    BY <2>2, <2>3
<1>2. ASSUME NEW f \in FirstFinalized..LastEpoch, CrashAndRestart(f) PROVE PoolsKept'
  <2>1. /\ initEpoch' = StartEpoch(f) /\ final' = f /\ blocks' = blocks /\ rows' = rows
        /\ written' = written /\ f \in Int /\ f >= final
    BY <1>2, Parameters DEF CrashAndRestart, tables
  <2> SUFFICES ASSUME NEW x \in Epochs, NEW h \in Epochs,
                      <<"epoch", h>> \in rows, x + WindowSize <= h, x >= StartEpoch(f),
                      <<"rewards", x>> \in written \/ x >= StartEpoch(f) + 2
               PROVE  <<"pool", x>> \in rows
    BY <2>1 DEF PoolsKept
  <2> DEFINE k == EpochOf(DbHead)
  <2>2. k \in Nat
    BY DbHeadIsNewest
  <2>3. \/ StartEpoch(f) = f - 4
        \/ blocks # {} /\ k <= f /\ StartEpoch(f) = k - 4
    BY WhereRestarted
  <2>4. CASE StartEpoch(f) = f - 4
    <3>1. x >= initEpoch /\ (<<"rewards", x>> \in written \/ x >= initEpoch + 2)
      BY <1>0, <2>1, <2>4
    <3> QED
      BY <3>1 DEF PoolInv, PoolsKept
  <2>5. CASE blocks # {} /\ k <= f /\ StartEpoch(f) = k - 4
    <3>1. PICK s \in blocks : EpochOf(s) >= h - 1
      BY <2>5 DEF PoolInv, RowsNearHead
    <3>2. EpochOf(s) \in Int /\ EpochOf(s) <= k
      BY <1>0, DbHeadIsNewest
    <3>3. x \in Int /\ h \in Int /\ x < k - 2
      <4> HIDE DEF k
      <4> QED
        BY <1>0, <2>2, <3>1, <3>2, Parameters
    <3>4. <<"rewards", x>> \in written
      <4> HIDE DEF k
      <4> QED
        BY <2>1, <2>2, <2>5, <3>3
    <3>5. x >= initEpoch
      <4> SUFFICES ASSUME x < initEpoch PROVE FALSE
        BY <1>0
      <4>1. PICK t \in blocks : EpochOf(t) >= initEpoch + 4
        BY <3>4 DEF PoolInv, WrittenInOrder
      <4>2. EpochOf(t) \in Int /\ EpochOf(t) <= k
        BY <1>0, DbHeadIsNewest
      <4>3. k - 4 >= initEpoch
        <5> HIDE DEF k
        <5> QED
          BY <1>0, <2>2, <4>1, <4>2
      <4> HIDE DEF k
      <4> QED
        BY <1>0, <2>2, <2>5, <4>3
    <3> QED
      BY <3>4, <3>5 DEF PoolInv, PoolsKept
  <2> QED
    BY <2>3, <2>4, <2>5
<1> QED
  BY <1>1, <1>2, StepWorks

LEMMA RewardsThereStep ==
    ASSUME TablesType, HeadAhead, PoolInv, [Next]_vars
    PROVE  RewardsThere'
<1>0. initEpoch \in Int /\ final \in Int /\ initEpoch <= final - 4 /\ \A x \in Epochs : x \in Int
  BY EpochsAreNumbers, Parameters DEF TablesType
<1>1. CASE Working
  <2> SUFFICES ASSUME NEW x \in Epochs, <<"rewards", x>> \in written', x >= initEpoch
               PROVE  x \in rewards' \/ <<"pool", x>> \in rows'
    BY <1>1 DEF Working, RewardsThere
  <2>1. CASE <<"rewards", x>> \notin written
    BY <1>1, <2>1 DEF Working
  <2>2. CASE <<"rewards", x>> \in written
    <3>1. x \in rewards \/ <<"pool", x>> \in rows'
      BY <1>1, <2>2 DEF Working, PoolInv, RewardsThere
    <3>2. CASE rewards \subseteq rewards'
      BY <3>1, <3>2
    <3>3. CASE window # NoDelete /\ rewards' = {e \in rewards : e > window} /\ rows' = rows
      <4> SUFFICES ASSUME ~(x > window) PROVE <<"pool", x>> \in rows
        BY <3>1, <3>3
      <4>1. window <= DbHeadEpoch - WindowSize /\ window \in Int /\ x \in Nat
        BY <3>3, EpochsAreNumbers DEF PoolInv, WindowBehind, TablesType
      <4> DEFINE h == DbHeadEpoch
      <4>2. h \in Nat
        BY DbHeadEpochIsNewest
      <4>3. x + WindowSize <= h /\ h > 0
        <5> HIDE DEF h
        <5>1. window <= h - WindowSize
          BY <4>1 DEF h
        <5> QED
          BY <4>1, <4>2, <5>1, Parameters
      <4>4. h \in Epochs /\ <<"epoch", h>> \in rows
        BY <4>3, DbHeadEpochIsNewest
      <4> QED
        BY <2>2, <4>3, <4>4 DEF PoolInv, PoolsKept
    <3> QED
      BY <1>1, <3>2, <3>3 DEF Working
  <2> QED
    BY <2>1, <2>2
<1>2. ASSUME NEW f \in FirstFinalized..LastEpoch, CrashAndRestart(f) PROVE RewardsThere'
  <2>1. /\ initEpoch' = StartEpoch(f) /\ blocks' = blocks /\ rows' = rows
        /\ rewards' = rewards /\ written' = written /\ f \in Int /\ f >= final
    BY <1>2, Parameters DEF CrashAndRestart, tables
  <2> SUFFICES ASSUME NEW x \in Epochs, <<"rewards", x>> \in written, x >= StartEpoch(f)
               PROVE  x >= initEpoch
    BY <2>1 DEF PoolInv, RewardsThere
  <2> SUFFICES ASSUME x < initEpoch PROVE FALSE
    BY <1>0
  <2> DEFINE k == EpochOf(DbHead)
  <2>2. PICK t \in blocks : EpochOf(t) >= initEpoch + 4
    BY DEF PoolInv, WrittenInOrder
  <2>3. k \in Nat /\ EpochOf(t) \in Int /\ EpochOf(t) <= k
    BY <1>0, DbHeadIsNewest
  <2>4. StartEpoch(f) = f - 4 \/ StartEpoch(f) = k - 4
    BY WhereRestarted
  <2> HIDE DEF k
  <2> QED
    BY <1>0, <2>1, <2>2, <2>3, <2>4
<1> QED
  BY <1>1, <1>2, StepWorks

LEMMA WindowBehindStep ==
    ASSUME TablesType, WindowBehind, [Next]_vars
    PROVE  WindowBehind'
<1>1. DbHeadEpoch \in Nat /\ window \in Int
  BY DbHeadEpochIsNewest DEF TablesType
<1>2. /\ DbHeadEpoch' \in Nat
      /\ \A x \in Epochs : <<"epoch", x>> \in rows' => x <= DbHeadEpoch'
  <2>1. DbHeadEpoch' = Max({0} \union {e \in Epochs : <<"epoch", e>> \in rows'})
    BY DEF DbHeadEpoch
  <2>2. \A R, n : n = Max({0} \union {e \in Epochs : <<"epoch", e>> \in R})
          => n \in Nat /\ \A x \in Epochs : <<"epoch", x>> \in R => x <= n
    BY NewestEpochRow
  <2>3. \A n : n = Max({0} \union {e \in Epochs : <<"epoch", e>> \in rows'})
          => n \in Nat /\ \A x \in Epochs : <<"epoch", x>> \in rows' => x <= n
    BY <2>2, Zenon
  <2> QED
    BY <2>1, <2>3
<1>5. rows \subseteq rows' => DbHeadEpoch <= DbHeadEpoch'
  <2> SUFFICES ASSUME rows \subseteq rows' PROVE DbHeadEpoch <= DbHeadEpoch'
    OBVIOUS
  <2> DEFINE h == DbHeadEpoch
  <2>1. h > 0 => h \in Epochs /\ <<"epoch", h>> \in rows
    BY DbHeadEpochIsNewest
  <2>2. h \in Nat /\ (h > 0 => h <= DbHeadEpoch')
    BY <1>1, <1>2, <2>1
  <2> HIDE DEF h
  <2>3. h <= DbHeadEpoch'
    BY <1>2, <2>2
  <2> QED
    BY <2>3 DEF h
<1>3. CASE Working
  <2>1. rows \subseteq rows' /\ (window' \in {window, NoDelete}
          \/ (window' = LowerBoundary /\ rows' = rows))
    BY <1>3 DEF Working
  <2>3. CASE window' = window \/ window' = NoDelete
    BY <1>1, <1>2, <1>5, <2>1, <2>3, Parameters DEF WindowBehind
  <2>4. CASE window' = LowerBoundary /\ rows' = rows
    <3>1. DbHeadEpoch' = DbHeadEpoch
      BY <2>4 DEF DbHeadEpoch
    <3> QED
      BY <1>1, <2>4, <3>1, Parameters DEF WindowBehind, LowerBoundary
  <2> QED
    BY <2>1, <2>3, <2>4
<1>4. ASSUME NEW f \in FirstFinalized..LastEpoch, CrashAndRestart(f) PROVE WindowBehind'
  BY <1>4 DEF CrashAndRestart, tables, WindowBehind, DbHeadEpoch
<1> QED
  BY <1>3, <1>4, StepWorks

LEMMA PoolsSummedStep ==
    ASSUME TablesType, RunInOrder, PoolInv, [Next]_vars
    PROVE  PoolsSummed'
<1>0. initEpoch \in Int /\ \A x \in Epochs : x \in Int
  BY EpochsAreNumbers, Parameters DEF TablesType
<1>1. CASE Working
  <2> SUFFICES ASSUME NEW e \in Epochs, pc'[e] = "done", e - 2 >= initEpoch,
                      <<"rewards", e - 2>> \in written'
               PROVE  <<"pool", e - 2>> \in rows'
    BY <1>1 DEF Working, PoolsSummed
  <2>1. e - 2 \in Epochs /\ e - 2 < e
    <3>1. initEpoch >= FirstEpoch - 4 /\ e <= LastEpoch
      BY EpochsAreNumbers, Parameters DEF TablesType
    <3> QED
      BY <1>0, <3>1, Parameters
  <2>2. CASE pc[e] = "done"
    <3>1. pc[e - 2] = "done"
      BY <2>1, <2>2 DEF RunInOrder, Started
    <3>2. <<"rewards", e - 2>> \in written
      BY <1>1, <2>1, <3>1 DEF Working
    <3> QED
      BY <1>1, <2>2, <3>2 DEF Working, PoolInv, PoolsSummed
  <2>3. CASE pc[e] # "done"
    <3>1. PoolSummary(e - 2) \subseteq rows' /\ written' = written
      BY <1>0, <1>1, <2>3 DEF Working
    <3>2. e - 2 \in rewards \/ <<"pool", e - 2>> \in rows
      BY <2>1, <3>1 DEF PoolInv, RewardsThere
    <3> QED
      BY <1>1, <3>1, <3>2 DEF Working, PoolSummary
  <2> QED
    BY <2>2, <2>3
<1>2. ASSUME NEW f \in FirstFinalized..LastEpoch, CrashAndRestart(f) PROVE PoolsSummed'
  BY <1>2 DEF CrashAndRestart, PoolsSummed
<1> QED
  BY <1>1, <1>2, StepWorks

LEMMA PoolInvInit == Init => PoolInv
BY DEF Init, PoolInv, WrittenInOrder, RowsNearHead, PoolsKept, RewardsThere, WindowBehind,
       PoolsSummed

LEMMA PoolInvStep ==
    TablesInv /\ PoolInv /\ [Next]_vars => PoolInv'
<1> SUFFICES ASSUME TablesInv, PoolInv, [Next]_vars PROVE PoolInv'
  OBVIOUS
<1>1. /\ TablesType /\ RunInOrder /\ RowsSoFar /\ HeadAhead
      /\ WrittenInOrder /\ RowsNearHead /\ WindowBehind
  BY DEF TablesInv, PoolInv
<1> QED
  BY <1>1, WrittenInOrderStep, RowsNearHeadStep, PoolsKeptStep, RewardsThereStep,
     WindowBehindStep, PoolsSummedStep DEF PoolInv

\* Whatever the validator window deletes and wherever the process dies, a run
\* that is done with a transition has the summary of the epoch two below, if its
\* rewards were ever written (processPoolMetrics, DeleteValidatorRewardsUntil).
THEOREM PoolsAreSummed == Spec => []PoolsSummed
<1>1. Init => TablesInv /\ PoolInv
  BY TablesInvInit, PoolInvInit
<1>2. TablesInv /\ PoolInv /\ [Next]_vars => (TablesInv /\ PoolInv)'
  BY TablesInvStep, PoolInvStep
<1>3. PoolInv => PoolsSummed
  BY DEF PoolInv
<1> QED
  BY <1>1, <1>2, <1>3, PTL DEF Spec
=============================================================================
