----------------------------- MODULE ReorgProofs -----------------------------
(***************************************************************************)
(* Reorganisations and finality for every chain, depth and number of forks *)
(* and passes: states keep their blocks, checked epochs have no stale row, *)
(* announced reorgs are repaired, and neither a pass nor a walk is blocked.*)
(***************************************************************************)
EXTENDS Reorg, FiniteSetTheorems, TLAPS

-----------------------------------------------------------------------------
(* Slots and epochs.                                                       *)

LEMMA Parameters ==
    /\ SlotsPerEpoch \in Nat /\ SlotsPerEpoch > 0
    /\ MaxEpoch \in Nat /\ MaxEpoch >= 5
    /\ KeepEpochs \in Nat
    /\ InitEpoch = 0 /\ Missed = 0 /\ None = -1
    /\ Epochs = 0..MaxEpoch
BY ReorgAssumption DEF InitEpoch, Missed, None, Epochs

LEMMA EpochAround ==
    ASSUME NEW s \in Nat
    PROVE  /\ EpochOf(s) \in Nat
           /\ FirstSlot(EpochOf(s)) <= s /\ s <= LastSlot(EpochOf(s))
<1> DEFINE e == s \div SlotsPerEpoch
<1>1. e \in Nat /\ s = SlotsPerEpoch * e + (s % SlotsPerEpoch)
      /\ 0 <= s % SlotsPerEpoch /\ s % SlotsPerEpoch < SlotsPerEpoch /\ s % SlotsPerEpoch \in Int
  BY Parameters, Z3
<1>2. SlotsPerEpoch * e = e * SlotsPerEpoch /\ e * SlotsPerEpoch \in Nat
      /\ (e + 1) * SlotsPerEpoch = e * SlotsPerEpoch + SlotsPerEpoch
  BY <1>1, Parameters, Z3
<1> QED
  BY <1>1, <1>2, Parameters DEF EpochOf, FirstSlot, LastSlot

LEMMA EpochBounds ==
    ASSUME NEW e \in Int
    PROVE  /\ FirstSlot(e) \in Int /\ LastSlot(e) \in Int
           /\ LastSlot(e) = FirstSlot(e) + SlotsPerEpoch - 1
           /\ FirstSlot(e) <= LastSlot(e)
           /\ FirstSlot(e + 1) = LastSlot(e) + 1
BY Parameters DEF FirstSlot, LastSlot

\* An earlier epoch ends before a later one begins.
LEMMA EpochsApart ==
    ASSUME NEW d \in Int, NEW e \in Int, d < e
    PROVE  LastSlot(d) < FirstSlot(e) /\ LastSlot(d) < LastSlot(e)
<1> DEFINE k == e - d - 1
<1>1. k \in Nat /\ e = (d + 1) + k
  OBVIOUS
<1>2. k * SlotsPerEpoch \in Nat
  <2> HIDE DEF k
  <2> QED
    BY <1>1, Parameters
<1>3. e * SlotsPerEpoch = (d + 1) * SlotsPerEpoch + k * SlotsPerEpoch
      /\ (d + 1) * SlotsPerEpoch \in Int /\ (e + 1) * SlotsPerEpoch = e * SlotsPerEpoch + SlotsPerEpoch
  <2> HIDE DEF k
  <2> QED
    BY <1>1, Parameters
<1> HIDE DEF k
<1> QED
  BY <1>2, <1>3, Parameters DEF FirstSlot, LastSlot

LEMMA EpochUnique ==
    ASSUME NEW s \in Nat, NEW e \in Int
    PROVE  s \in SlotsOf(e) <=> EpochOf(s) = e
<1> DEFINE h == EpochOf(s)
<1>1. h \in Nat /\ FirstSlot(h) <= s /\ s <= LastSlot(h)
  BY EpochAround
<1>2. /\ FirstSlot(h) \in Int /\ FirstSlot(e) \in Int
      /\ LastSlot(h) \in Int /\ LastSlot(e) \in Int
  BY <1>1, EpochBounds
<1>3. h < e => s < FirstSlot(e)
  BY <1>1, <1>2, EpochsApart
<1>4. e < h => LastSlot(e) < s
  BY <1>1, <1>2, EpochsApart
<1> HIDE DEF h
<1>5. s \in SlotsOf(e) <=> h = e
  BY <1>1, <1>2, <1>3, <1>4 DEF SlotsOf
<1> QED
  BY <1>5 DEF h

LEMMA EpochsInRange ==
    /\ \A e \in Epochs : /\ e \in Nat /\ LastSlot(e) \in Slots /\ LastSlot(e) \in Nat
                         /\ FirstSlot(e) \in Nat /\ FirstSlot(e) <= LastSlot(e)
                         /\ SlotsOf(e) \subseteq Slots
    /\ \A s \in Slots : s \in Nat /\ EpochOf(s) \in Epochs /\ s \in SlotsOf(EpochOf(s))
    /\ Slots = 0..LastSlot(MaxEpoch) /\ LastSlot(MaxEpoch) \in Nat
<1>1. /\ LastSlot(MaxEpoch) \in Nat
      /\ \A e \in Nat : FirstSlot(e) \in Nat
  BY Parameters DEF FirstSlot, LastSlot
<1>2. ASSUME NEW e \in Epochs
      PROVE  /\ e \in Nat /\ LastSlot(e) \in Slots /\ LastSlot(e) \in Nat
             /\ FirstSlot(e) \in Nat /\ FirstSlot(e) <= LastSlot(e)
             /\ SlotsOf(e) \subseteq Slots
  <2>1. e \in Nat /\ (e = MaxEpoch \/ e < MaxEpoch)
    BY Parameters
  <2>2. /\ FirstSlot(e) \in Nat /\ LastSlot(e) \in Int /\ FirstSlot(e) <= LastSlot(e)
    BY <1>1, <2>1, EpochBounds
  <2>3. LastSlot(e) <= LastSlot(MaxEpoch)
    <3>1. e \in Int /\ MaxEpoch \in Int
      BY <2>1, Parameters
    <3>2. e < MaxEpoch => LastSlot(e) < LastSlot(MaxEpoch)
      BY <3>1, EpochsApart
    <3> QED
      BY <1>1, <2>1, <2>2, <3>2
  <2> QED
    BY <1>1, <2>1, <2>2, <2>3 DEF Slots, SlotsOf
<1>3. ASSUME NEW s \in Slots
      PROVE  s \in Nat /\ EpochOf(s) \in Epochs /\ s \in SlotsOf(EpochOf(s))
  <2>1. s \in Nat /\ s <= LastSlot(MaxEpoch)
    BY <1>1 DEF Slots
  <2>2. EpochOf(s) \in Nat /\ s \in SlotsOf(EpochOf(s)) /\ FirstSlot(EpochOf(s)) <= s
    BY <2>1, EpochAround, EpochUnique
  <2>3. MaxEpoch < EpochOf(s) => LastSlot(MaxEpoch) < FirstSlot(EpochOf(s))
    BY <2>2, EpochsApart, Parameters
  <2>4. FirstSlot(EpochOf(s)) \in Int
    BY <2>2, EpochBounds
  <2>5. ~(MaxEpoch < EpochOf(s))
    BY <1>1, <2>1, <2>2, <2>3, <2>4
  <2>6. EpochOf(s) \in Epochs
    BY <2>2, <2>5, Parameters
  <2> QED
    BY <2>1, <2>2, <2>6
<1> QED
  BY <1>1, <1>2, <1>3 DEF Slots

LEMMA LastSlotsInOrder ==
    ASSUME NEW d \in Int, NEW e \in Int, d <= e
    PROVE  LastSlot(d) <= LastSlot(e)
<1>1. LastSlot(d) \in Int /\ (d = e \/ d < e)
  BY EpochBounds
<1> QED
  BY <1>1, EpochsApart, EpochBounds

LEMMA DependenciesBefore ==
    ASSUME NEW e \in Epochs, NEW d \in Dependencies(e)
    PROVE  d \in Epochs /\ d <= e /\ LastSlot(d) <= LastSlot(e)
<1>1. e \in Nat /\ e <= MaxEpoch /\ d \in Int /\ d <= e /\ d >= 0
  BY Parameters DEF Dependencies
<1> QED
  BY <1>1, Parameters, LastSlotsInOrder

\* The least of a set of numbers.
LEMMA MinOfNumbers ==
    ASSUME NEW T \in SUBSET Nat, T # {}
    PROVE  Min(T) \in T /\ \A t \in T : Min(T) <= t
<1>0. PICK n \in T : TRUE
  OBVIOUS
<1> DEFINE U == {k \in 0..n : \A t \in T : k < t}
           c == Cardinality(U)
<1>1. IsFiniteSet(U) /\ c \in Nat
  <2>1. IsFiniteSet(0..n)
    BY <1>0, FS_Interval
  <2> QED
    BY <2>1, FS_Subset, FS_CardinalityType
<1>2. ASSUME NEW k \in U PROVE k < c
  <2>1. 0..k \subseteq U
    BY <1>0, <1>2
  <2>2. Cardinality(0..k) = k + 1
    BY <1>2, FS_Interval
  <2>3. Cardinality(0..k) <= c
    BY <1>1, <2>1, FS_Subset
  <2> HIDE DEF c
  <2> QED
    BY <1>1, <1>2, <2>2, <2>3
<1>3. ASSUME NEW t \in T PROVE c <= t
  <2>1. U \subseteq 0..(t - 1)
    OBVIOUS
  <2>2. t \in Nat /\ IsFiniteSet(0..(t - 1)) /\ Cardinality(0..(t - 1)) = t
    BY <1>3, FS_Interval
  <2>3. c <= Cardinality(0..(t - 1))
    BY <2>1, <2>2, FS_Subset
  <2> QED
    BY <2>2, <2>3
<1>4. c \notin U
  <2> SUFFICES ASSUME c \in U PROVE FALSE
    OBVIOUS
  <2>1. c < c
    BY <1>2
  <2> QED
    BY <1>1, <2>1
<1>5. PICK t \in T : t <= c
  <2>1. c \in 0..n
    BY <1>0, <1>1, <1>3
  <2> HIDE DEF c
  <2> QED
    BY <1>1, <1>4, <2>1
<1> HIDE DEF U, c
<1>6. t \in T /\ \A x \in T : t <= x
  BY <1>1, <1>3, <1>5
<1>7. \E x \in T : \A y \in T : x <= y
  BY <1>6
<1> QED
  BY <1>7 DEF Min
-----------------------------------------------------------------------------
(* The rows of the epochs.                                                 *)

\* The tables have a place for every slot and epoch.
Tables(r) ==
    /\ DOMAIN r = {"block", "epoch", "duties", "rewards", "others", "orphans"}
    /\ DOMAIN r.block = Slots
    /\ DOMAIN r.epoch = Epochs /\ DOMAIN r.duties = Epochs /\ DOMAIN r.rewards = Epochs
    /\ DOMAIN r.others = Epochs

\* Deletes leave fewer rows, and when none fails no row of the three tables is
\* left that was computed from the state of e.
LEMMA RowsDeleted ==
    ASSUME NEW r, Tables(r), NEW e \in Epochs, NEW n \in 0..Deletes,
           NEW q, q = DeleteStateMetrics(r, e, n)
    PROVE  /\ Tables(q) /\ q.block = r.block /\ q.orphans = r.orphans /\ q.others = r.others
           /\ \A x \in Epochs :
                /\ q.epoch[x] \in {NoRow, r.epoch[x]}
                /\ q.duties[x] \in {NoRow, r.duties[x]}
                /\ q.rewards[x] \in {NoRow, r.rewards[x]}
                /\ x # e => q.duties[x] = r.duties[x]
           /\ n = Deletes => \A x \in Epochs :
                /\ x \in {e - 1, e} => q.epoch[x] = NoRow
                /\ x = e => q.duties[x] = NoRow
                /\ x \in e..(e + 2) => q.rewards[x] = NoRow
<1>1. e \in Nat /\ Epochs \subseteq Nat
  BY EpochsInRange
<1>2. q = [r EXCEPT
          !.epoch = [x \in Epochs |->
                  IF x \in {e - 1, e} /\ n >= x - e + 2 THEN NoRow ELSE @[x]],
          !.duties = [x \in Epochs |-> IF x = e /\ n >= 3 THEN NoRow ELSE @[x]],
          !.rewards = [x \in Epochs |->
                  IF x \in e..(e + 2) /\ n >= Deletes - (x - e) THEN NoRow ELSE @[x]]]
  BY DEF DeleteStateMetrics
<1>3. /\ DOMAIN q = DOMAIN r /\ q.block = r.block /\ q.orphans = r.orphans /\ q.others = r.others
      /\ q.epoch = [x \in Epochs |->
              IF x \in {e - 1, e} /\ n >= x - e + 2 THEN NoRow ELSE r.epoch[x]]
      /\ q.duties = [x \in Epochs |-> IF x = e /\ n >= 3 THEN NoRow ELSE r.duties[x]]
      /\ q.rewards = [x \in Epochs |->
              IF x \in e..(e + 2) /\ n >= Deletes - (x - e) THEN NoRow ELSE r.rewards[x]]
  BY <1>2 DEF Tables
<1>4. Tables(q)
  BY <1>3 DEF Tables
<1>5. n = Deletes => \A x \in Epochs :
                /\ x \in {e - 1, e} => n >= x - e + 2
                /\ n >= 3
                /\ x \in e..(e + 2) => n >= Deletes - (x - e)
  BY <1>1 DEF Deletes
<1> QED
  BY <1>3, <1>4, <1>5

LEMMA RowsWritten ==
    ASSUME NEW r, Tables(r), NEW e \in Epochs, NEW S, NEW q, q = ProcessStateTransition(r, e, S)
    PROVE  /\ Tables(q) /\ q.block = r.block /\ q.orphans = r.orphans
           /\ e < 2 => q = r
           /\ e >= 2 =>
                /\ q.epoch[e - 1] = r.epoch[e - 1] \union {<<S[e - 1].root, S[e].root>>}
                /\ q.duties[e] = r.duties[e] \union {<<S[e].root>>}
                /\ q.rewards[e] = r.rewards[e] \union {<<S[e - 2].root, S[e - 1].root, S[e].root>>}
                /\ q.others[e] = r.others[e] \union {<<S[e - 2].root, S[e - 1].root, S[e].root>>}
           /\ \A x \in Epochs : /\ x # e - 1 => q.epoch[x] = r.epoch[x]
                                /\ x # e => q.duties[x] = r.duties[x]
                                /\ x # e => q.rewards[x] = r.rewards[x]
                                /\ x # e => q.others[x] = r.others[x]
<1>1. e \in Nat /\ InitEpoch = 0
  BY EpochsInRange, Parameters
<1>2. CASE e < 2
  <2>1. q = r
    BY <1>1, <1>2 DEF ProcessStateTransition
  <2> QED
    BY <1>1, <1>2, <2>1
<1>3. CASE e >= 2
  <2> DEFINE from == <<S[e - 2].root, S[e - 1].root, S[e].root>>
  <2>1. q = [r EXCEPT !.epoch[e - 1] = @ \union {<<from[2], from[3]>>},
                      !.duties[e] = @ \union {<<from[3]>>},
                      !.rewards[e] = @ \union {from},
                      !.others[e] = @ \union {from}]
    BY <1>1, <1>3 DEF ProcessStateTransition
  <2>2. from[2] = S[e - 1].root /\ from[3] = S[e].root
    OBVIOUS
  <2>3. e \in Epochs /\ e - 1 \in Epochs /\ ~(e < 2)
    BY <1>1, <1>3, Parameters
  <2> HIDE DEF from
  <2>4. /\ DOMAIN q = DOMAIN r /\ q.block = r.block /\ q.orphans = r.orphans
        /\ q.epoch = [r.epoch EXCEPT ![e - 1] = @ \union {<<from[2], from[3]>>}]
        /\ q.duties = [r.duties EXCEPT ![e] = @ \union {<<from[3]>>}]
        /\ q.rewards = [r.rewards EXCEPT ![e] = @ \union {from}]
        /\ q.others = [r.others EXCEPT ![e] = @ \union {from}]
    BY <2>1 DEF Tables
  <2>5. Tables(q)
    BY <2>4 DEF Tables
  <2>6. /\ q.epoch[e - 1] = r.epoch[e - 1] \union {<<S[e - 1].root, S[e].root>>}
        /\ q.duties[e] = r.duties[e] \union {<<S[e].root>>}
        /\ q.rewards[e] = r.rewards[e] \union {from}
        /\ q.others[e] = r.others[e] \union {from}
    BY <2>2, <2>3, <2>4 DEF Tables
  <2>7. \A x \in Epochs : /\ x # e - 1 => q.epoch[x] = r.epoch[x]
                          /\ x # e => q.duties[x] = r.duties[x]
                          /\ x # e => q.rewards[x] = r.rewards[x]
                          /\ x # e => q.others[x] = r.others[x]
    BY <2>4 DEF Tables
  <2> QED
    BY <1>3, <2>3, <2>4, <2>5, <2>6, <2>7 DEF from
<1> QED
  BY <1>1, <1>2, <1>3

\* The rows r were computed from the states that have the roots K, leaving out
\* the epochs of skip, and none is there whose last slot is above hd.
Matching(r, K, skip, hd) ==
    \A e \in Epochs :
        /\ e < 2 \/ LastSlot(e) > hd =>
              /\ r.rewards[e] = NoRow /\ r.duties[e] = NoRow
              /\ e > 0 => r.epoch[e - 1] = NoRow
        /\ e >= 2 =>
              /\ {e - 2, e - 1, e} \intersect skip = {} =>
                     r.rewards[e] \subseteq {<<K[e - 2], K[e - 1], K[e]>>}
              /\ e \notin skip => r.duties[e] \subseteq {<<K[e]>>}
              /\ {e - 1, e} \intersect skip = {} => r.epoch[e - 1] \subseteq {<<K[e - 1], K[e]>>}

\* Other rows than those of the epochs, and epochs that nothing was computed
\* from, do not matter.
LEMMA MatchingSame ==
    ASSUME NEW r, NEW K, NEW skip, NEW hd \in Int, Matching(r, K, skip, hd),
           NEW q, q.epoch = r.epoch, q.duties = r.duties, q.rewards = r.rewards,
           NEW L, \A d \in Epochs : LastSlot(d) <= hd /\ d \notin skip => L[d] = K[d],
           NEW more, skip \subseteq more,
           NEW top \in Int, hd <= top
    PROVE  Matching(q, L, more, top)
<1> SUFFICES ASSUME NEW e \in Epochs
             PROVE  /\ e < 2 \/ LastSlot(e) > top =>
                          /\ q.rewards[e] = NoRow /\ q.duties[e] = NoRow
                          /\ e > 0 => q.epoch[e - 1] = NoRow
                    /\ e >= 2 =>
                          /\ {e - 2, e - 1, e} \intersect more = {} =>
                                 q.rewards[e] \subseteq {<<L[e - 2], L[e - 1], L[e]>>}
                          /\ e \notin more => q.duties[e] \subseteq {<<L[e]>>}
                          /\ {e - 1, e} \intersect more = {} =>
                                 q.epoch[e - 1] \subseteq {<<L[e - 1], L[e]>>}
  BY DEF Matching
<1>1. e \in Nat /\ LastSlot(e) \in Nat
  BY EpochsInRange
<1>2. CASE LastSlot(e) > hd
  <2>1. q.rewards[e] = {} /\ q.duties[e] = {} /\ (e > 0 => q.epoch[e - 1] = {})
    BY <1>1, <1>2 DEF Matching, NoRow
  <2> QED
    BY <1>1, <2>1 DEF NoRow
<1>3. CASE LastSlot(e) <= hd
  <2>1. e < 2 \/ LastSlot(e) > top =>
            /\ q.rewards[e] = NoRow /\ q.duties[e] = NoRow
            /\ e > 0 => q.epoch[e - 1] = NoRow
    BY <1>1, <1>3 DEF Matching
  <2>2. ASSUME e >= 2
        PROVE  /\ e - 2 \in Epochs /\ e - 1 \in Epochs
               /\ LastSlot(e - 2) <= hd /\ LastSlot(e - 1) <= hd
    <3>1. e - 2 \in Epochs /\ e - 1 \in Epochs
      BY <1>1, <2>2, Parameters
    <3>2. LastSlot(e - 2) <= LastSlot(e) /\ LastSlot(e - 1) <= LastSlot(e)
      BY <1>1, LastSlotsInOrder
    <3>3. LastSlot(e - 2) \in Nat /\ LastSlot(e - 1) \in Nat
      BY <3>1, EpochsInRange
    <3> QED
      BY <1>1, <1>3, <3>1, <3>2, <3>3
  <2>3. ASSUME e >= 2, {e - 2, e - 1, e} \intersect more = {}
        PROVE  q.rewards[e] \subseteq {<<L[e - 2], L[e - 1], L[e]>>}
    <3>1. L[e - 2] = K[e - 2] /\ L[e - 1] = K[e - 1] /\ L[e] = K[e]
      BY <1>3, <2>2, <2>3
    <3>2. r.rewards[e] \subseteq {<<K[e - 2], K[e - 1], K[e]>>}
      BY <2>3 DEF Matching
    <3> QED
      BY <3>1, <3>2
  <2>4. ASSUME e >= 2, e \notin more PROVE q.duties[e] \subseteq {<<L[e]>>}
    <3>1. L[e] = K[e]
      BY <1>3, <2>4
    <3>2. r.duties[e] \subseteq {<<K[e]>>}
      BY <2>4 DEF Matching
    <3> QED
      BY <3>1, <3>2
  <2>5. ASSUME e >= 2, {e - 1, e} \intersect more = {}
        PROVE  q.epoch[e - 1] \subseteq {<<L[e - 1], L[e]>>}
    <3>1. L[e - 1] = K[e - 1] /\ L[e] = K[e]
      BY <1>3, <2>2, <2>5
    <3>2. r.epoch[e - 1] \subseteq {<<K[e - 1], K[e]>>}
      BY <2>5 DEF Matching
    <3> QED
      BY <3>1, <3>2
  <2> QED
    BY <2>1, <2>3, <2>4, <2>5
<1> QED
  BY <1>1, <1>2, <1>3

\* The state of e is another, no row was computed from the old one unless a
\* delete failed, and the metrics of e are processed.
LEMMA MatchingWritten ==
    ASSUME NEW r, Tables(r), NEW K, NEW skip, NEW hd \in Int, Matching(r, K, skip, hd),
           NEW e \in Epochs, NEW top \in Int, hd <= top, LastSlot(e) <= top,
           e \notin skip => \A x \in Epochs :
               /\ x \in {e - 1, e} /\ x < MaxEpoch => r.epoch[x] = NoRow
               /\ x = e => r.duties[x] = NoRow
               /\ x \in e..(e + 2) => r.rewards[x] = NoRow,
           NEW L, \A d \in Epochs \ {e} : LastSlot(d) <= hd => L[d] = K[d],
           NEW S, \A d \in Dependencies(e) : S[d].root = L[d],
           NEW q, q = ProcessStateTransition(r, e, S)
    PROVE  Matching(q, L, skip, top)
<1>0. e \in Nat /\ LastSlot(e) \in Nat /\ InitEpoch = 0
  BY EpochsInRange, Parameters
<1>1. ASSUME e >= 2
      PROVE  /\ S[e - 2].root = L[e - 2] /\ S[e - 1].root = L[e - 1] /\ S[e].root = L[e]
             /\ e - 2 \in Epochs /\ e - 1 \in Epochs
  <2>1. e - 2 \in Epochs /\ e - 1 \in Epochs
    BY <1>0, <1>1, Parameters
  <2>2. e - 2 \in Dependencies(e) /\ e - 1 \in Dependencies(e) /\ e \in Dependencies(e)
    BY <1>0, <1>1, <2>1 DEF Dependencies
  <2> QED
    BY <2>1, <2>2
<1>2. e >= 2 => /\ q.epoch[e - 1] = r.epoch[e - 1] \union {<<L[e - 1], L[e]>>}
                /\ q.duties[e] = r.duties[e] \union {<<L[e]>>}
                /\ q.rewards[e] = r.rewards[e] \union {<<L[e - 2], L[e - 1], L[e]>>}
  <2>1. e >= 2 => /\ q.epoch[e - 1] = r.epoch[e - 1] \union {<<S[e - 1].root, S[e].root>>}
                  /\ q.duties[e] = r.duties[e] \union {<<S[e].root>>}
                  /\ q.rewards[e] = r.rewards[e] \union {<<S[e - 2].root, S[e - 1].root, S[e].root>>}
    BY RowsWritten, SMTT(30)
  <2> QED
    BY <1>1, <2>1
<1>a. \A x \in Epochs : /\ x # e - 1 => q.epoch[x] = r.epoch[x]
                        /\ x # e => q.duties[x] = r.duties[x]
                        /\ x # e => q.rewards[x] = r.rewards[x]
  <2> SUFFICES ASSUME NEW x \in Epochs
               PROVE  /\ x # e - 1 => q.epoch[x] = r.epoch[x]
                      /\ x # e => q.duties[x] = r.duties[x]
                      /\ x # e => q.rewards[x] = r.rewards[x]
    OBVIOUS
  <2>1. x # e - 1 => q.epoch[x] = r.epoch[x]
    BY RowsWritten
  <2>2. x # e => q.duties[x] = r.duties[x]
    BY RowsWritten
  <2>3. x # e => q.rewards[x] = r.rewards[x]
    BY RowsWritten
  <2> QED
    BY <2>1, <2>2, <2>3
<1>3. ~(e >= 2) => q = r
  <2>1. e < 2 => q = r
    BY RowsWritten
  <2> QED
    BY <1>0, <2>1
<1>4. ASSUME NEW x \in Epochs
      PROVE  /\ x < 2 \/ LastSlot(x) > top =>
                  /\ q.rewards[x] = NoRow /\ q.duties[x] = NoRow
                  /\ x > 0 => q.epoch[x - 1] = NoRow
             /\ x >= 2 =>
                  /\ {x - 2, x - 1, x} \intersect skip = {} =>
                         q.rewards[x] \subseteq {<<L[x - 2], L[x - 1], L[x]>>}
                  /\ x \notin skip => q.duties[x] \subseteq {<<L[x]>>}
                  /\ {x - 1, x} \intersect skip = {} =>
                         q.epoch[x - 1] \subseteq {<<L[x - 1], L[x]>>}
  <2>0. /\ x \in Nat /\ LastSlot(x) \in Nat
        /\ x > 0 => x - 1 \in Epochs
        /\ x >= 2 => x - 2 \in Epochs
    <3>1. x \in Nat /\ LastSlot(x) \in Nat
      BY EpochsInRange
    <3> QED
      BY <3>1, Parameters
  <2>1. CASE x = e
    <3>1. CASE e >= 2
      <4>1. ~(x < 2) /\ ~(LastSlot(x) > top)
        BY <1>0, <2>1, <3>1
      <4>2. e \notin skip => r.epoch[e - 1] = {} /\ r.duties[e] = {} /\ r.rewards[e] = {}
        <5>1. e - 1 \in Epochs /\ e - 1 < MaxEpoch /\ e - 1 \in {e - 1, e} /\ e \in e..(e + 2)
          BY <1>0, <1>1, <3>1, Parameters
        <5> QED
          BY <5>1 DEF NoRow
      <4>3. e \notin skip => /\ q.epoch[x - 1] = {<<L[x - 1], L[x]>>}
                             /\ q.duties[x] = {<<L[x]>>}
                             /\ q.rewards[x] = {<<L[x - 2], L[x - 1], L[x]>>}
        BY <1>2, <2>1, <3>1, <4>2
      <4>4. CASE e \in skip
        <5>1. x \in skip /\ {x - 2, x - 1, x} \intersect skip # {} /\ {x - 1, x} \intersect skip # {}
          BY <2>1, <4>4
        <5> QED
          BY <4>1, <5>1
      <4> QED
        BY <4>1, <4>3, <4>4
    <3>2. CASE ~(e >= 2)
      <4>2. r.rewards[e] = NoRow /\ r.duties[e] = NoRow /\ (e > 0 => r.epoch[e - 1] = NoRow)
        BY <1>0, <3>2 DEF Matching
      <4> QED
        BY <1>3, <2>1, <3>2, <4>2
    <3> QED
      BY <3>1, <3>2
  <2>2. CASE x # e
    <3>1. /\ q.rewards[x] = r.rewards[x] /\ q.duties[x] = r.duties[x]
          /\ x > 0 => q.epoch[x - 1] = r.epoch[x - 1]
      BY <1>0, <1>a, <2>0, <2>2
    <3>2. CASE LastSlot(x) > hd
      <4>1. q.rewards[x] = {} /\ q.duties[x] = {} /\ (x > 0 => q.epoch[x - 1] = {})
        BY <2>0, <3>1, <3>2 DEF Matching, NoRow
      <4> QED
        BY <2>0, <4>1 DEF NoRow
    <3>3. CASE LastSlot(x) <= hd
      <4>1. x < 2 \/ LastSlot(x) > top =>
                /\ q.rewards[x] = NoRow /\ q.duties[x] = NoRow
                /\ x > 0 => q.epoch[x - 1] = NoRow
        BY <2>0, <3>1, <3>3 DEF Matching
      <4>2. ASSUME x >= 2
            PROVE  LastSlot(x - 2) <= hd /\ LastSlot(x - 1) <= hd
        <5>1. LastSlot(x - 2) <= LastSlot(x) /\ LastSlot(x - 1) <= LastSlot(x)
          BY <2>0, LastSlotsInOrder
        <5>2. LastSlot(x - 2) \in Nat /\ LastSlot(x - 1) \in Nat
          BY <2>0, <4>2, EpochsInRange
        <5> QED
          BY <2>0, <3>3, <5>1, <5>2
      <4>3. ASSUME x >= 2, {x - 2, x - 1, x} \intersect skip = {}
            PROVE  q.rewards[x] \subseteq {<<L[x - 2], L[x - 1], L[x]>>}
        <5>1. CASE x \in e..(e + 2)
          <6>1. e \in {x - 2, x - 1, x}
            BY <1>0, <2>0, <5>1
          <6>2. r.rewards[x] = {}
            BY <4>3, <5>1, <6>1 DEF NoRow
          <6> QED
            BY <3>1, <6>2
        <5>2. CASE x \notin e..(e + 2)
          <6>1. x - 2 # e /\ x - 1 # e
            BY <1>0, <2>0, <5>2
          <6>2. L[x - 2] = K[x - 2] /\ L[x - 1] = K[x - 1] /\ L[x] = K[x]
            BY <2>0, <2>2, <3>3, <4>2, <4>3, <6>1
          <6>3. r.rewards[x] \subseteq {<<K[x - 2], K[x - 1], K[x]>>}
            BY <4>3 DEF Matching
          <6> QED
            BY <3>1, <6>2, <6>3
        <5> QED
          BY <5>1, <5>2
      <4>4. ASSUME x >= 2, x \notin skip PROVE q.duties[x] \subseteq {<<L[x]>>}
        <5>1. L[x] = K[x] /\ r.duties[x] \subseteq {<<K[x]>>}
          BY <2>2, <3>3, <4>4 DEF Matching
        <5> QED
          BY <3>1, <5>1
      <4>5. ASSUME x >= 2, {x - 1, x} \intersect skip = {}
            PROVE  q.epoch[x - 1] \subseteq {<<L[x - 1], L[x]>>}
        <5>1. CASE x - 1 = e
          <6>1. e < MaxEpoch /\ e \in {x - 1, x} /\ x > 0
            BY <2>0, <4>5, <5>1, Parameters
          <6>2. r.epoch[x - 1] = {}
            BY <4>5, <5>1, <6>1 DEF NoRow
          <6> QED
            BY <3>1, <6>1, <6>2
        <5>2. CASE x - 1 # e
          <6>1. L[x - 1] = K[x - 1] /\ L[x] = K[x]
            BY <2>0, <2>2, <3>3, <4>2, <4>5, <5>2
          <6>2. r.epoch[x - 1] \subseteq {<<K[x - 1], K[x]>>}
            BY <4>5 DEF Matching
          <6> QED
            BY <2>0, <3>1, <4>5, <6>1, <6>2
        <5> QED
          BY <5>1, <5>2
      <4> QED
        BY <4>1, <4>3, <4>4, <4>5
    <3> QED
      BY <2>0, <3>2, <3>3
  <2> QED
    BY <2>1, <2>2
<1> QED
  BY <1>4 DEF Matching

\* Before that, whatever was computed from the state of e is deleted, unless a
\* delete fails.
LEMMA MatchingDeleted ==
    ASSUME NEW r, Tables(r), NEW K, NEW skip, NEW hd \in Int, Matching(r, K, skip, hd),
           NEW e \in Epochs, NEW n \in 0..Deletes, NEW q, q = DeleteStateMetrics(r, e, n)
    PROVE  Tables(q) /\ Matching(q, K, skip, hd)
<1>1. \A x \in Epochs :
          /\ q.epoch[x] \in {NoRow, r.epoch[x]}
          /\ q.duties[x] \in {NoRow, r.duties[x]}
          /\ q.rewards[x] \in {NoRow, r.rewards[x]}
  BY RowsDeleted
<1>2. \A x \in Epochs : x \in Nat /\ (x > 0 => x - 1 \in Epochs)
  BY Parameters
<1>3. Matching(q, K, skip, hd)
  BY <1>1, <1>2 DEF Matching, NoRow
<1> QED
  BY <1>3, RowsDeleted

\* What was computed from the states with the roots K is there, leaving out the
\* epochs of skip, up to the epoch that ends at hd.
Filled(r, K, skip, hd) ==
    \A e \in Epochs : 2 <= e /\ LastSlot(e) <= hd /\ e \notin skip =>
        /\ <<K[e]>> \in r.duties[e]
        /\ \E from \in r.others[e] : from[3] = K[e]

LEMMA FilledSame ==
    ASSUME NEW r, NEW K, NEW skip, NEW hd \in Int, Filled(r, K, skip, hd),
           NEW q, q.duties = r.duties, q.others = r.others,
           NEW L, \A d \in Epochs : LastSlot(d) <= hd /\ d \notin skip => L[d] = K[d],
           NEW more, skip \subseteq more,
           NEW top \in Int, \A d \in Epochs : LastSlot(d) <= top => LastSlot(d) <= hd
    PROVE  Filled(q, L, more, top)
<1> SUFFICES ASSUME NEW e \in Epochs, 2 <= e, LastSlot(e) <= top, e \notin more
             PROVE  <<L[e]>> \in q.duties[e] /\ \E from \in q.others[e] : from[3] = L[e]
  BY DEF Filled
<1>1. LastSlot(e) <= hd /\ e \notin skip /\ L[e] = K[e]
  OBVIOUS
<1>2. <<K[e]>> \in r.duties[e] /\ \E from \in r.others[e] : from[3] = K[e]
  BY <1>1 DEF Filled
<1> QED
  BY <1>1, <1>2

\* What it writes of the duties and of the tables nothing is deleted from.
LEMMA DutiesWritten ==
    ASSUME NEW r, Tables(r), NEW e \in Epochs, NEW S, NEW q, q = ProcessStateTransition(r, e, S)
    PROVE  /\ e >= 2 =>
                /\ q.duties[e] = r.duties[e] \union {<<S[e].root>>}
                /\ q.others[e] = r.others[e] \union {<<S[e - 2].root, S[e - 1].root, S[e].root>>}
           /\ \A y \in Epochs : y # e => q.duties[y] = r.duties[y] /\ q.others[y] = r.others[y]
<1>1. e \in Nat /\ InitEpoch = 0
  BY EpochsInRange, Parameters
<1>2. CASE e < 2
  <2>1. q = r
    BY <1>1, <1>2 DEF ProcessStateTransition
  <2> QED
    BY <1>1, <1>2, <2>1
<1>3. CASE e >= 2
  <2>1. /\ q.duties = [r.duties EXCEPT ![e] = @ \union {<<S[e].root>>}]
        /\ q.others = [r.others EXCEPT ![e] =
                            @ \union {<<S[e - 2].root, S[e - 1].root, S[e].root>>}]
    BY <1>1, <1>3 DEF ProcessStateTransition, Tables
  <2>2. DOMAIN r.duties = Epochs /\ DOMAIN r.others = Epochs
    BY DEF Tables
  <2>3. \A y \in Epochs : y # e => q.duties[y] = r.duties[y]
    BY <2>1, <2>2
  <2>4. \A y \in Epochs : y # e => q.others[y] = r.others[y]
    BY <2>1, <2>2
  <2>5. q.duties[e] = r.duties[e] \union {<<S[e].root>>}
    BY <2>1, <2>2
  <2>6. q.others[e] = r.others[e] \union {<<S[e - 2].root, S[e - 1].root, S[e].root>>}
    BY <2>1, <2>2
  <2> QED
    BY <2>3, <2>4, <2>5, <2>6
<1> QED
  BY <1>1, <1>2, <1>3

\* Whatever the deletes have left of the duties of e, they are written anew.
LEMMA FilledWritten ==
    ASSUME NEW r, NEW K, NEW skip, NEW hd \in Int, Filled(r, K, skip, hd), NEW e \in Epochs,
           NEW m, Tables(m), m.others = r.others, \A x \in Epochs : x # e => m.duties[x] = r.duties[x],
           NEW L, \A d \in Epochs \ {e} : LastSlot(d) <= hd => L[d] = K[d],
           NEW top \in Int, \A d \in Epochs \ {e} : LastSlot(d) <= top => LastSlot(d) <= hd,
           NEW S, S[e].root = L[e],
           NEW q, q = ProcessStateTransition(m, e, S)
    PROVE  Filled(q, L, skip, top)
<1> SUFFICES ASSUME NEW x \in Epochs, 2 <= x, LastSlot(x) <= top, x \notin skip
             PROVE  <<L[x]>> \in q.duties[x] /\ \E from \in q.others[x] : from[3] = L[x]
  BY DEF Filled
<1>0. /\ e >= 2 =>
            /\ q.duties[e] = m.duties[e] \union {<<S[e].root>>}
            /\ q.others[e] = m.others[e] \union {<<S[e - 2].root, S[e - 1].root, S[e].root>>}
      /\ \A y \in Epochs : y # e => q.duties[y] = m.duties[y] /\ q.others[y] = m.others[y]
  BY DutiesWritten
<1>1. CASE x = e
  <2>0. e >= 2
    BY <1>1
  <2>1. /\ q.duties[e] = m.duties[e] \union {<<S[e].root>>}
        /\ q.others[e] = m.others[e] \union {<<S[e - 2].root, S[e - 1].root, S[e].root>>}
    <3>1. q.duties[e] = m.duties[e] \union {<<S[e].root>>}
      BY <2>0, <1>0
    <3>2. q.others[e] = m.others[e] \union {<<S[e - 2].root, S[e - 1].root, S[e].root>>}
      BY <2>0, <1>0
    <3> QED
      BY <3>1, <3>2
  <2>2. <<S[e - 2].root, S[e - 1].root, S[e].root>>[3] = L[e]
    OBVIOUS
  <2> QED
    BY <1>1, <2>1, <2>2
<1>2. CASE x # e
  <2>1. LastSlot(x) <= hd /\ L[x] = K[x]
    BY <1>2
  <2>2. <<K[x]>> \in r.duties[x] /\ \E from \in r.others[x] : from[3] = K[x]
    BY <2>1 DEF Filled
  <2>3. q.duties[x] = m.duties[x]
    BY <1>2, <1>0
  <2>4. q.others[x] = m.others[x]
    BY <1>2, <1>0
  <2> QED
    BY <1>2, <2>1, <2>2, <2>3, <2>4
<1> QED
  BY <1>1, <1>2
-----------------------------------------------------------------------------
(* The invariant.                                                          *)

Shape ==
    /\ head \in Slots /\ fin \in Epochs /\ fork \in Nat \ {0}
    /\ checked \in Int /\ lost \in BOOLEAN
    /\ canon \in [Slots -> -1..fork] /\ blocks \in [Slots -> -1..fork]
    /\ DOMAIN root = Slots
    /\ DOMAIN states = Epochs /\ \A e \in Epochs : DOMAIN states[e] = {"root", "blocks"}
    /\ Tables(rows)
    /\ passes \subseteq [limit : Int, todo : SUBSET Epochs, changed : SUBSET Epochs,
                         at : {"blocks", "state"}]
    /\ handlers \subseteq [of : Nat, slot : Slots, depth : Nat, i : Int, reorgedSlots : Nat, since : Epochs]

\* The chain is known up to its head, and what is final lies below.
ChainKnown ==
    /\ \A s \in Slots : (canon[s] # None <=> s <= head) /\ (root[s] # None <=> s <= head)
    /\ FirstSlot(fin) <= head /\ checked <= fin
    /\ \A p \in passes : p.limit <= fin - KeepEpochs
    /\ \A h \in handlers : h.i <= head

\* Nothing has been evicted but what lies well below the finalized epoch.
CacheNearHead ==
    /\ StatesHaveBlocks
    /\ \A e \in Epochs : Cached(e, states) => LastSlot(e) <= head
    /\ \A e \in Epochs : ~Cached(e, states) /\ LastSlot(e) <= head => e < fin - KeepEpochs
    /\ \A s \in Slots : s <= head /\ blocks[s] = None => EpochOf(s) < fin - KeepEpochs

\* The root of the state that the rows of an epoch were computed from: the
\* cached one, and when it has been evicted, the one of the chain.
KnownRoots ==
    [d \in Epochs |-> IF Cached(d, states) THEN states[d].root ELSE root[LastSlot(d)]]

RowsMatch == Matching(rows, KnownRoots, failed, head)

RowsFilled == Filled(rows, KnownRoots, failed, head)

\* A state that a pass has been through, and one of a checked epoch, is of the
\* chain.
Verified(e) == Cached(e, states) => states[e].root = root[LastSlot(e)] \/ e \in failed

PassesVerify ==
    /\ \A p \in passes : \A e \in Epochs : e < p.limit /\ e \notin p.todo => Verified(e)
    /\ \A e \in Epochs : e < checked => Verified(e)

ChainInv == Shape /\ ChainKnown /\ CacheNearHead

\* The epoch that a pass is at.
LEMMA PassAt ==
    ASSUME Shape, NEW p \in passes, p.todo # {}
    PROVE  /\ Min(p.todo) \in Epochs /\ Min(p.todo) \in p.todo
           /\ \A e \in p.todo : Min(p.todo) <= e
<1>1. p.todo \in SUBSET Epochs
  BY DEF Shape
<1>2. Epochs \subseteq Nat
  BY Parameters
<1> QED
  BY <1>1, <1>2, MinOfNumbers

LEMMA PassDone ==
    ASSUME Shape, NEW p \in passes, p.todo # {}
    PROVE  /\ Done(p) \in [limit : Int, todo : SUBSET Epochs, changed : SUBSET Epochs,
                           at : {"blocks", "state"}]
           /\ Done(p).limit = p.limit /\ Done(p).todo = p.todo \ {Min(p.todo)}
<1>1. p \in [limit : Int, todo : SUBSET Epochs, changed : SUBSET Epochs,
             at : {"blocks", "state"}]
  BY DEF Shape
<1> QED
  BY <1>1 DEF Done

Pass == [limit : Int, todo : SUBSET Epochs, changed : SUBSET Epochs, at : {"blocks", "state"}]

Handler == [of : Nat, slot : Slots, depth : Nat, i : Int, reorgedSlots : Nat, since : Epochs]

LEMMA ChainTypes ==
    ASSUME Shape
    PROVE  /\ head \in Nat /\ head <= LastSlot(MaxEpoch) /\ fin \in Nat /\ fork \in Nat /\ fork > 0
           /\ \A s \in Slots : canon[s] \in -1..fork /\ blocks[s] \in -1..fork
<1>1. head \in Slots /\ fin \in Epochs /\ fork \in Nat \ {0}
  BY DEF Shape
<1>2. \A s \in Slots : s \in Nat
  BY EpochsInRange
<1>3. head \in Nat
  BY <1>1, <1>2
<1>4. head <= LastSlot(MaxEpoch)
  <2>1. head \in 0..LastSlot(MaxEpoch) /\ LastSlot(MaxEpoch) \in Nat
    BY <1>1, EpochsInRange
  <2> QED
    BY <2>1
<1>5. fin \in Nat
  BY <1>1, Parameters
<1>6. \A s \in Slots : canon[s] \in -1..fork /\ blocks[s] \in -1..fork
  BY DEF Shape
<1> QED
  BY <1>1, <1>3, <1>4, <1>5, <1>6

LEMMA FollowStep ==
    ASSUME ChainInv, NEW b \in {fork, Missed}, Follow(b)
    PROVE  ChainInv'
<1> DEFINE s == head + 1
           e == EpochOf(s)
           bs == [blocks EXCEPT ![s] = b]
           state == [root |-> fork, blocks |-> [t \in SlotsOf(e) |-> bs[t]]]
           st == [states EXCEPT ![e] = state]
           written == [rows EXCEPT !.block[s] = b]
<1>0. Shape /\ ChainKnown /\ CacheNearHead
  BY DEF ChainInv
<1>1. /\ s \in Slots /\ s \in Nat /\ e \in Epochs /\ s \in SlotsOf(e) /\ head \in Nat
      /\ head' = s /\ canon' = [canon EXCEPT ![s] = b] /\ root' = [root EXCEPT ![s] = fork]
      /\ blocks' = bs /\ UNCHANGED <<fork, fin, passes, handlers, checked, lost>>
      /\ b \in -1..fork /\ b # None /\ fork # None
  <2>1. s \in Slots /\ s \in Nat /\ head \in Nat
    BY <1>0, ChainTypes DEF Follow
  <2>2. e \in Epochs /\ s \in SlotsOf(e)
    BY <2>1, EpochsInRange
  <2>3. b \in -1..fork /\ b # None /\ fork # None
    BY <1>0, ChainTypes, Parameters
  <2> QED
    BY <2>1, <2>2, <2>3 DEF Follow, history
<1>2. \/ /\ s = LastSlot(e) /\ BlocksThere(e, bs) /\ states' = st
         /\ rows' = ProcessStateTransition(written, e, st)
      \/ s # LastSlot(e) /\ states' = states /\ rows' = written
  BY DEF Follow
<1> HIDE DEF s, e
<1>3. Tables(written)
  BY <1>0 DEF Shape, Tables
<1>4. Shape'
  <2>1. Tables(rows')
    BY <1>1, <1>2, <1>3, RowsWritten
  <2>2. DOMAIN states' = Epochs /\ \A d \in Epochs : DOMAIN states'[d] = {"root", "blocks"}
    BY <1>0, <1>1, <1>2 DEF Shape
  <2>3. canon' \in [Slots -> -1..fork] /\ blocks' \in [Slots -> -1..fork] /\ DOMAIN root' = Slots
    BY <1>0, <1>1 DEF Shape
  <2> QED
    BY <1>0, <1>1, <2>1, <2>2, <2>3 DEF Shape
<1>5. ChainKnown'
  <2>1. \A t \in Slots : /\ canon'[t] = (IF t = s THEN b ELSE canon[t])
                         /\ root'[t] = (IF t = s THEN fork ELSE root[t])
                         /\ t \in Nat
    BY <1>0, <1>1, EpochsInRange DEF Shape
  <2>2. \A t \in Slots : t <= s <=> t <= head \/ t = s
    BY <1>1, <2>1 DEF s
  <2>3. FirstSlot(fin) <= s
    <3>1. FirstSlot(fin) \in Nat /\ FirstSlot(fin) <= head
      BY <1>0, EpochsInRange DEF Shape, ChainKnown
    <3> QED
      BY <1>1, <3>1 DEF s
  <2>4. \A h \in handlers : h.i <= s
    <3>1. \A h \in handlers : h.i \in Int /\ h.i <= head
      BY <1>0 DEF Shape, ChainKnown
    <3> QED
      BY <1>1, <3>1 DEF s
  <2> QED
    BY <1>0, <1>1, <2>1, <2>2, <2>3, <2>4 DEF ChainKnown
<1>6. \A d \in Epochs : d # e => states'[d] = states[d]
  BY <1>0, <1>1, <1>2 DEF Shape
<1>7. s = LastSlot(e) => states'[e].root = fork
  BY <1>0, <1>1, <1>2 DEF Shape
<1>8. s # LastSlot(e) => states' = states
  BY <1>2
<1>9. \A d \in Epochs : LastSlot(d) = s => d = e
  BY <1>1, EpochsInRange, EpochUnique DEF SlotsOf, e
<1>10. \A t \in Slots : blocks'[t] = (IF t = s THEN b ELSE blocks[t])
  BY <1>0, <1>1 DEF Shape
<1>11. CacheNearHead'
  <2>1. ASSUME NEW d \in Epochs, Cached(d, states)', NEW t \in SlotsOf(d) PROVE blocks'[t] # None
    <3>0. t \in Slots
      BY EpochsInRange
    <3>1. CASE Cached(d, states)
      BY <1>0, <1>1, <1>10, <3>0, <3>1 DEF CacheNearHead, StatesHaveBlocks, BlocksThere
    <3>2. CASE ~Cached(d, states)
      <4>1. d = e /\ s = LastSlot(e)
        BY <1>6, <1>8, <2>1, <3>2 DEF Cached
      <4> QED
        BY <1>1, <1>2, <2>1, <4>1 DEF BlocksThere
    <3> QED
      BY <3>1, <3>2
  <2>2. ASSUME NEW d \in Epochs, Cached(d, states)' PROVE LastSlot(d) <= s
    <3>0. LastSlot(d) \in Nat
      BY EpochsInRange
    <3>1. CASE Cached(d, states)
      <4>1. LastSlot(d) <= head
        BY <1>0, <3>1 DEF CacheNearHead
      <4> QED
        BY <1>1, <3>0, <4>1 DEF s
    <3>2. CASE ~Cached(d, states)
      <4>1. d = e /\ s = LastSlot(e)
        BY <1>6, <1>8, <2>2, <3>2 DEF Cached
      <4> QED
        BY <1>1, <4>1
    <3> QED
      BY <3>1, <3>2
  <2>3. ASSUME NEW d \in Epochs, ~Cached(d, states)', LastSlot(d) <= s
        PROVE  d < fin - KeepEpochs
    <3>1. LastSlot(d) # s
      BY <1>1, <1>7, <1>9, <2>3 DEF Cached
    <3>2. LastSlot(d) <= head /\ LastSlot(d) \in Nat
      <4>1. LastSlot(d) \in Nat
        BY EpochsInRange
      <4> QED
        BY <1>1, <2>3, <3>1, <4>1 DEF s
    <3>3. ~Cached(d, states)
      <4>1. d # e \/ s # LastSlot(e)
        BY <3>1
      <4> QED
        BY <1>1, <1>6, <1>7, <1>8, <2>3, <4>1 DEF Cached
    <3> QED
      BY <1>0, <3>2, <3>3 DEF CacheNearHead
  <2>4. ASSUME NEW t \in Slots, t <= s, blocks'[t] = None PROVE EpochOf(t) < fin - KeepEpochs
    <3>1. t # s /\ blocks[t] = None
      BY <1>1, <1>10, <2>4
    <3>2. t <= head
      BY <1>1, <2>4, <3>1, EpochsInRange DEF s
    <3> QED
      BY <1>0, <3>1, <3>2 DEF CacheNearHead
  <2> QED
    BY <1>1, <2>1, <2>2, <2>3, <2>4 DEF CacheNearHead, StatesHaveBlocks, BlocksThere
<1> QED
  BY <1>4, <1>5, <1>11 DEF ChainInv

LEMMA ReorgStep ==
    ASSUME ChainInv, NEW a \in FirstSlot(fin)..(head - 1), NEW missed, ChainReorg(a, missed)
    PROVE  /\ ChainInv'
           /\ a \in Nat /\ a < head
           /\ \A s \in Slots : /\ s <= a => canon'[s] = canon[s] /\ root'[s] = root[s]
                               /\ s > head => canon'[s] = canon[s]
                               /\ canon'[s] \in {canon[s], Missed, fork'}
<1>0. Shape /\ ChainKnown /\ CacheNearHead
  BY DEF ChainInv
<1>1. head \in Nat /\ fork \in Nat /\ FirstSlot(fin) \in Nat /\ a \in Nat /\ a < head
      /\ head \in Slots /\ fin \in Epochs
  <2>1. head \in Slots /\ fin \in Epochs /\ head \in Nat /\ fork \in Nat
    BY <1>0, ChainTypes DEF Shape
  <2>2. FirstSlot(fin) \in Nat
    BY <2>1, EpochsInRange
  <2> QED
    BY <2>1, <2>2
<1>2. /\ fork' = fork + 1 /\ UNCHANGED <<head, fin, blocks, states, rows, passes, checked>>
      /\ canon' = [s \in Slots |-> IF s \in (a + 1)..head
                                 THEN IF s \in missed THEN Missed ELSE fork' ELSE canon[s]]
      /\ root' = [s \in Slots |-> IF s \in (a + 1)..head THEN fork' ELSE root[s]]
  BY DEF ChainReorg, cache
<1>3. /\ lost' \in BOOLEAN
      /\ \/ handlers' = handlers
         \/ handlers' = handlers \union
                {[of |-> fork', slot |-> head, depth |-> head - a,
                  i |-> head, reorgedSlots |-> 0, since |-> fin]}
  BY <1>0 DEF ChainReorg, Shape
<1>4. handlers' \subseteq Handler /\ \A h \in handlers' : h.i <= head
  <2>1. /\ [of |-> fork', slot |-> head, depth |-> head - a, i |-> head,
             reorgedSlots |-> 0, since |-> fin] \in Handler
        /\ [of |-> fork', slot |-> head, depth |-> head - a, i |-> head,
             reorgedSlots |-> 0, since |-> fin].i <= head
    BY <1>1, <1>2 DEF Handler
  <2>2. handlers \subseteq Handler /\ \A h \in handlers : h.i <= head
    BY <1>0 DEF Shape, ChainKnown, Handler
  <2> QED
    BY <1>3, <2>1, <2>2
<1>5. \A s \in Slots : /\ s \in Nat
                       /\ s \in (a + 1)..head => /\ canon'[s] \in {Missed, fork'} /\ root'[s] = fork'
                                                 /\ s <= head
                       /\ s \notin (a + 1)..head => canon'[s] = canon[s] /\ root'[s] = root[s]
  BY <1>1, <1>2, EpochsInRange
<1>6. Missed \in -1..fork' /\ fork' \in -1..fork' /\ fork' # None /\ Missed # None
      /\ fork' \in Nat \ {0} /\ -1..fork \subseteq -1..fork'
  BY <1>1, <1>2, Parameters
<1>7. Shape'
  <2>1. blocks' \in [Slots -> -1..fork']
    BY <1>0, <1>2, <1>6 DEF Shape
  <2>2. canon' \in [Slots -> -1..fork']
    <3>1. \A s \in Slots : canon'[s] \in -1..fork'
      BY <1>0, <1>5, <1>6 DEF Shape
    <3> QED
      BY <1>2, <3>1
  <2> QED
    BY <1>0, <1>2, <1>3, <1>4, <1>6, <2>1, <2>2 DEF Shape, Handler
<1>8. ChainKnown'
  BY <1>0, <1>2, <1>4, <1>5, <1>6 DEF ChainKnown
<1>9. CacheNearHead'
  BY <1>0, <1>2 DEF CacheNearHead, StatesHaveBlocks, BlocksThere, Cached
<1>10. \A s \in Slots : /\ s <= a => canon'[s] = canon[s] /\ root'[s] = root[s]
                        /\ s > head => canon'[s] = canon[s]
                        /\ canon'[s] \in {canon[s], Missed, fork'}
  <2> SUFFICES ASSUME NEW s \in Slots
               PROVE  /\ s <= a => canon'[s] = canon[s] /\ root'[s] = root[s]
                      /\ s > head => canon'[s] = canon[s]
                      /\ canon'[s] \in {canon[s], Missed, fork'}
    OBVIOUS
  <2>1. s \in Nat /\ (s <= a \/ s > head => s \notin (a + 1)..head)
    BY <1>1, <1>5
  <2>2. s \notin (a + 1)..head => canon'[s] = canon[s] /\ root'[s] = root[s]
    BY <1>5
  <2>3. s \in (a + 1)..head => canon'[s] \in {Missed, fork'}
    BY <1>5
  <2> QED
    BY <2>1, <2>2, <2>3
<1> QED
  BY <1>1, <1>7, <1>8, <1>9, <1>10 DEF ChainInv

LEMMA FinalizeStep ==
    ASSUME ChainInv, NEW f \in (fin + 1)..(EpochOf(head) - 2), Finalize(f)
    PROVE  ChainInv' /\ fin < f /\ f \in Epochs /\ FirstSlot(f) <= head
<1>0. Shape /\ ChainKnown /\ CacheNearHead
  BY DEF ChainInv
<1>1. /\ fin \in Nat /\ head \in Slots /\ head \in Nat /\ EpochOf(head) \in Epochs
      /\ EpochOf(head) \in Nat /\ FirstSlot(EpochOf(head)) <= head
  BY <1>0, ChainTypes, EpochsInRange, EpochAround, Parameters DEF Shape
<1>2. f \in Nat /\ fin < f /\ f < EpochOf(head) /\ f \in Epochs
  BY <1>1, Parameters
<1>3. FirstSlot(f) <= head
  <2>1. LastSlot(f) < FirstSlot(EpochOf(head)) /\ FirstSlot(f) <= LastSlot(f)
    BY <1>1, <1>2, EpochsApart, EpochsInRange
  <2>2. LastSlot(f) \in Nat /\ FirstSlot(f) \in Nat /\ FirstSlot(EpochOf(head)) \in Nat
    BY <1>1, <1>2, EpochsInRange
  <2> QED
    BY <1>1, <2>1, <2>2
<1>4. /\ fin' = f /\ UNCHANGED <<canon, root, fork, head, blocks, states, rows, handlers, lost, checked>>
      /\ passes' = passes \union
           {[limit |-> f - KeepEpochs,
             todo |-> {e \in Epochs : Cached(e, states) /\ e < f - KeepEpochs},
             changed |-> {}, at |-> "blocks"]}
  BY DEF Finalize, chain, cache, history
<1>5. /\ passes' \subseteq Pass
      /\ \A p \in passes' : p.limit <= f - KeepEpochs
  <2>1. \A p \in passes : p.limit \in Int /\ p.limit <= fin - KeepEpochs
    BY <1>0 DEF Shape, ChainKnown
  <2>2. \A p \in passes : p.limit <= f - KeepEpochs
    BY <1>1, <1>2, <2>1, Parameters
  <2>3. f - KeepEpochs \in Int
    BY <1>2, Parameters
  <2>4. passes \subseteq Pass
    BY <1>0 DEF Shape, Pass
  <2>5. [limit |-> f - KeepEpochs,
         todo |-> {e \in Epochs : Cached(e, states) /\ e < f - KeepEpochs},
         changed |-> {}, at |-> "blocks"] \in Pass
    BY <2>3 DEF Pass
  <2>6. passes' \subseteq Pass
    BY <1>4, <2>4, <2>5
  <2>7. f - KeepEpochs <= f - KeepEpochs
    BY <2>3
  <2>8. ASSUME NEW p \in passes' PROVE p.limit <= f - KeepEpochs
    <3>1. p \in passes \/ p.limit = f - KeepEpochs
      BY <1>4
    <3> QED
      BY <2>2, <2>7, <3>1
  <2> QED
    BY <2>6, <2>8
<1>6. Shape'
  BY <1>0, <1>2, <1>4, <1>5 DEF Shape, Pass
<1>7. ChainKnown'
  BY <1>0, <1>1, <1>2, <1>3, <1>4, <1>5 DEF ChainKnown, Shape
<1>8. CacheNearHead'
  <2>1. \A e \in Epochs : e < fin - KeepEpochs => e < f - KeepEpochs
    BY <1>1, <1>2, Parameters
  <2>2. \A s \in Slots : EpochOf(s) \in Epochs
    BY EpochsInRange
  <2> QED
    BY <1>0, <1>4, <2>1, <2>2 DEF CacheNearHead, StatesHaveBlocks, BlocksThere, Cached
<1> QED
  BY <1>2, <1>3, <1>6, <1>7, <1>8 DEF ChainInv

LEMMA VerifyBlocksStep ==
    ASSUME ChainInv, NEW p \in passes, VerifyBlocks(p)
    PROVE  /\ ChainInv'
           /\ \A d \in Epochs : states'[d].root = states[d].root
           /\ \A x \in passes' : x \in passes \/ (x.limit = p.limit /\ x.todo = p.todo)
           /\ rows'.epoch = rows.epoch /\ rows'.duties = rows.duties /\ rows'.rewards = rows.rewards
           /\ rows'.others = rows.others
           /\ UNCHANGED <<chain, fin, blocks, handlers, history>>
<1> DEFINE e == Min(p.todo)
           q1 == [p EXCEPT !.at = "state"]
           q2 == [p EXCEPT !.at = "state", !.changed = @ \union {e}]
           bl == [s \in SlotsOf(e) |-> blocks[s]]
<1>0. Shape /\ ChainKnown /\ CacheNearHead
  BY DEF ChainInv
<1>1. e \in Epochs
  BY <1>0, PassAt DEF VerifyBlocks
<1>2. p \in Pass /\ q1 \in Pass /\ q2 \in Pass
  BY <1>0, <1>1 DEF Shape, Pass
<1>3. q1.limit = p.limit /\ q1.todo = p.todo /\ q2.limit = p.limit /\ q2.todo = p.todo
  BY <1>2 DEF Pass
<1>4. /\ UNCHANGED <<chain, fin, blocks, handlers, history>>
      /\ \/ Moved(p, q1) /\ states' = states
         \/ Moved(p, q2) /\ states' = [states EXCEPT ![e].blocks = bl]
      /\ rows' = [rows EXCEPT !.block = [s \in Slots |->
                     IF s \in {t \in SlotsOf(e) : blocks[t] # canon[t]} THEN blocks[s] ELSE @[s]]]
  BY DEF VerifyBlocks
<1> HIDE DEF e, q1, q2, bl
<1>5. /\ DOMAIN states' = Epochs
      /\ \A d \in Epochs : DOMAIN states'[d] = {"root", "blocks"} /\ states'[d].root = states[d].root
  BY <1>0, <1>1, <1>4 DEF Shape
<1>6. \A x \in passes' : x \in passes \/ (x.limit = p.limit /\ x.todo = p.todo)
  BY <1>3, <1>4 DEF Moved
<1>7. passes' \subseteq Pass
  BY <1>0, <1>2, <1>4 DEF Moved, Shape, Pass
<1>8. /\ Tables(rows') /\ rows'.epoch = rows.epoch /\ rows'.duties = rows.duties
      /\ rows'.rewards = rows.rewards /\ rows'.others = rows.others
  BY <1>0, <1>4 DEF Shape, Tables
<1>9. Shape'
  BY <1>0, <1>4, <1>5, <1>7, <1>8 DEF Shape, Pass, chain, history
<1>10. ChainKnown'
  BY <1>0, <1>4, <1>6 DEF ChainKnown, chain, history
<1>11. CacheNearHead'
  BY <1>0, <1>4, <1>5 DEF CacheNearHead, StatesHaveBlocks, BlocksThere, Cached, chain
<1> QED
  BY <1>4, <1>5, <1>6, <1>8, <1>9, <1>10, <1>11 DEF ChainInv

\* A pass is done with an epoch.
LEMMA VerifyStateStep ==
    ASSUME ChainInv, NEW p \in passes, VerifyStateSame(p) \/ VerifyStateSkipped(p)
    PROVE  /\ ChainInv'
           /\ \A x \in passes' : x \in passes \/ (x.limit = p.limit /\ x.todo = p.todo \ {Min(p.todo)})
           /\ UNCHANGED <<chain, fin, cache, rows, handlers, lost, checked>>
<1>0. Shape /\ ChainKnown /\ CacheNearHead
  BY DEF ChainInv
<1>1. /\ p.todo # {} /\ Moved(p, Done(p))
      /\ UNCHANGED <<chain, fin, cache, rows, handlers, lost, checked>>
  BY DEF VerifyStateSame, VerifyStateSkipped, history
<1>2. \A x \in passes' : x \in passes \/ x = Done(p)
  BY <1>1 DEF Moved
<1>3. Done(p).limit = p.limit /\ Done(p).todo = p.todo \ {Min(p.todo)} /\ Done(p) \in Pass
  BY <1>0, <1>1, PassDone DEF Pass
<1>4. Shape'
  BY <1>0, <1>1, <1>2, <1>3 DEF Shape, Pass, chain, cache
<1>5. ChainKnown'
  BY <1>0, <1>1, <1>2, <1>3 DEF ChainKnown, chain
<1>6. CacheNearHead'
  BY <1>0, <1>1 DEF CacheNearHead, StatesHaveBlocks, BlocksThere, Cached, chain, cache
<1> QED
  BY <1>1, <1>2, <1>3, <1>4, <1>5, <1>6 DEF ChainInv

\* What reprocessing finds: the states of e and of the epochs it depends on are
\* cached, those that had to be downloaded are of the chain, and so is that of e.
LEMMA Readied ==
    ASSUME ChainInv, NEW e \in Epochs, Cached(e, states),
           NEW ready, ready = EnsureDependencyStates(e, Replaced(e))
    PROVE  /\ DOMAIN ready.states = Epochs
           /\ \A d \in Epochs :
                /\ DOMAIN ready.states[d] = {"root", "blocks"}
                /\ Cached(d, ready.states) <=> Cached(d, states) \/ d \in Dependencies(e)
                /\ Cached(d, states) /\ d # e => ready.states[d] = states[d]
                /\ (Cached(d, ready.states) /\ ~Cached(d, states)) \/ d = e =>
                       /\ ready.states[d].root = root[LastSlot(d)]
                       /\ LastSlot(d) <= head
           /\ DOMAIN ready.blocks = Slots
           /\ \A s \in Slots :
                /\ ready.blocks[s] = blocks[s]
                   \/ (s <= head /\ blocks[s] = None /\ ready.blocks[s] = canon[s] /\ canon[s] # None)
                /\ EpochOf(s) \in Dependencies(e) => ready.blocks[s] # None
<1> DEFINE missing == {d \in Dependencies(e) : ~Cached(d, Replaced(e))}
           bs == [s \in Slots |-> IF EpochOf(s) \in missing /\ blocks[s] = None
                                 THEN canon[s] ELSE blocks[s]]
<1>0. Shape /\ ChainKnown /\ CacheNearHead
  BY DEF ChainInv
<1>1. LastSlot(e) \in Slots /\ LastSlot(e) <= head /\ head \in Nat
  BY <1>0, ChainTypes, EpochsInRange DEF CacheNearHead
<1>2. /\ DOMAIN Replaced(e) = Epochs
      /\ \A d \in Epochs : /\ DOMAIN Replaced(e)[d] = {"root", "blocks"}
                           /\ d # e => Replaced(e)[d] = states[d]
      /\ Replaced(e)[e].root = root[LastSlot(e)]
  BY <1>0 DEF Replaced, Shape, RootChanged, Downloaded
<1>3. root[LastSlot(e)] # None
  BY <1>0, <1>1 DEF ChainKnown
<1>4. missing = {d \in Dependencies(e) : ~Cached(d, states)} /\ e \notin missing
  <2>1. \A d \in Dependencies(e) : d \in Epochs
    BY DependenciesBefore
  <2>2. Cached(e, Replaced(e))
    BY <1>2, <1>3 DEF Cached
  <2>3. \A d \in Dependencies(e) : Cached(d, Replaced(e)) <=> Cached(d, states)
    BY <1>2, <2>1, <2>2 DEF Cached
  <2> QED
    BY <2>2, <2>3
<1>5. ready.blocks = bs
      /\ ready.states = [d \in Epochs |-> IF d \in missing THEN Downloaded(d, bs) ELSE Replaced(e)[d]]
  BY DEF EnsureDependencyStates
<1> HIDE DEF missing
<1>6. ASSUME NEW d \in missing
      PROVE  /\ LastSlot(d) <= head /\ root[LastSlot(d)] # None
             /\ d \in Epochs /\ d \in Dependencies(e) /\ d # e /\ ~Cached(d, states)
             /\ LastSlot(d) \in Nat
  <2>1. d \in Epochs /\ LastSlot(d) <= LastSlot(e) /\ d \in Dependencies(e)
        /\ ~Cached(d, states) /\ d # e
    BY <1>4, <1>6, DependenciesBefore
  <2>2. LastSlot(d) \in Slots /\ LastSlot(d) \in Nat /\ LastSlot(e) \in Nat
    BY <2>1, EpochsInRange
  <2>3. LastSlot(d) <= head
    BY <1>1, <2>1, <2>2
  <2> QED
    BY <1>0, <2>1, <2>2, <2>3 DEF ChainKnown
<1>7. ASSUME NEW d \in Epochs
      PROVE  /\ DOMAIN ready.states[d] = {"root", "blocks"}
             /\ Cached(d, ready.states) <=> Cached(d, states) \/ d \in Dependencies(e)
             /\ Cached(d, states) /\ d # e => ready.states[d] = states[d]
             /\ (Cached(d, ready.states) /\ ~Cached(d, states)) \/ d = e =>
                    /\ ready.states[d].root = root[LastSlot(d)]
                    /\ LastSlot(d) <= head
  <2>1. CASE d \in missing
    <3>1. ready.states[d] = [root |-> root[LastSlot(d)], blocks |-> [s \in SlotsOf(d) |-> bs[s]]]
      BY <1>5, <2>1 DEF Downloaded
    <3> HIDE DEF bs
    <3> QED
      BY <1>6, <2>1, <3>1 DEF Cached
  <2>2. CASE d \notin missing
    <3>1. ready.states[d] = Replaced(e)[d]
      BY <1>5, <2>2
    <3>2. d \in Dependencies(e) => Cached(d, states)
      BY <1>4, <2>2
    <3> QED
      BY <1>1, <1>2, <1>3, <3>1, <3>2 DEF Cached
  <2> QED
    BY <2>1, <2>2
<1>8. ASSUME NEW s \in Slots
      PROVE  /\ ready.blocks[s] = blocks[s]
                \/ (s <= head /\ blocks[s] = None /\ ready.blocks[s] = canon[s] /\ canon[s] # None)
             /\ EpochOf(s) \in Dependencies(e) => ready.blocks[s] # None
  <2>1. EpochOf(s) \in Epochs /\ s \in SlotsOf(EpochOf(s)) /\ s \in Nat
    BY EpochsInRange
  <2>2. ready.blocks[s] = IF EpochOf(s) \in missing /\ blocks[s] = None THEN canon[s] ELSE blocks[s]
    BY <1>5
  <2>3. ASSUME EpochOf(s) \in missing PROVE s <= head /\ canon[s] # None
    <3>1. LastSlot(EpochOf(s)) <= head /\ LastSlot(EpochOf(s)) \in Nat
      BY <1>6, <2>3
    <3>2. s <= LastSlot(EpochOf(s))
      BY <2>1, EpochAround
    <3>3. s <= head
      BY <1>1, <2>1, <3>1, <3>2
    <3> QED
      BY <1>0, <3>3 DEF ChainKnown
  <2>4. ASSUME Cached(EpochOf(s), states) PROVE blocks[s] # None
    BY <1>0, <2>1, <2>4 DEF CacheNearHead, StatesHaveBlocks, BlocksThere
  <2>5. EpochOf(s) \in Dependencies(e) => EpochOf(s) \in missing \/ Cached(EpochOf(s), states)
    BY <1>4
  <2> QED
    BY <2>2, <2>3, <2>4, <2>5
<1>9. DOMAIN ready.states = Epochs /\ DOMAIN ready.blocks = Slots
  BY <1>5
<1> QED
  BY <1>7, <1>8, <1>9

\* What is written for e anew, with all that is to be deleted or, when a delete
\* has failed, with a part of it.
Remade(r, e) ==
    \E n \in 0..Deletes :
        /\ rows' = ProcessStateTransition(DeleteStateMetrics(r, e, n), e, states')
        /\ failed \subseteq failed' /\ failed' \subseteq failed \union {e}
        /\ n < Deletes => e \in failed'

LEMMA RewrittenRemade ==
    ASSUME NEW r, NEW e, NEW S, Rewritten(r, e, S), states' = S
    PROVE  Remade(r, e)
<1>1. PICK n \in 0..Deletes :
          /\ failed' = IF n < Deletes THEN failed \union {e} ELSE failed
          /\ rows' = ProcessStateTransition(DeleteStateMetrics(r, e, n), e, S)
  BY DEF Rewritten
<1>2. failed \subseteq failed' /\ failed' \subseteq failed \union {e} /\ (n < Deletes => e \in failed')
  BY <1>1
<1> QED
  BY <1>1, <1>2 DEF Remade

LEMMA RemadeTables ==
    ASSUME NEW r, Tables(r), NEW e \in Epochs, Remade(r, e)
    PROVE  Tables(rows') /\ rows'.block = r.block /\ rows'.orphans = r.orphans
<1>1. PICK n \in 0..Deletes :
          rows' = ProcessStateTransition(DeleteStateMetrics(r, e, n), e, states')
  BY DEF Remade
<1>2. PICK d : d = DeleteStateMetrics(r, e, n)
  OBVIOUS
<1>3. Tables(d) /\ d.block = r.block /\ d.orphans = r.orphans
  BY <1>2, RowsDeleted
<1>4. rows' = ProcessStateTransition(d, e, states')
  BY <1>1, <1>2
<1> QED
  BY <1>3, <1>4, RowsWritten

\* The rows match the states after that, and the state of e has its own.
LEMMA RemadeRows ==
    ASSUME NEW r, Tables(r), NEW K, NEW hd \in Int,
           Matching(r, K, failed, hd), Filled(r, K, failed, hd),
           NEW e \in Epochs, LastSlot(e) <= hd, Remade(r, e),
           NEW L, \A d \in Epochs \ {e} : LastSlot(d) <= hd => L[d] = K[d],
           \A d \in Dependencies(e) : states'[d].root = L[d]
    PROVE  Matching(rows', L, failed', hd) /\ Filled(rows', L, failed', hd)
<1>1. PICK n \in 0..Deletes :
          /\ rows' = ProcessStateTransition(DeleteStateMetrics(r, e, n), e, states')
          /\ failed \subseteq failed' /\ (n < Deletes => e \in failed')
  BY DEF Remade
<1>2. PICK m : m = DeleteStateMetrics(r, e, n)
  OBVIOUS
<1>3. rows' = ProcessStateTransition(m, e, states') /\ hd <= hd /\ e \in Dependencies(e)
  <2>1. e \in Dependencies(e)
    BY EpochsInRange, Parameters DEF Dependencies
  <2> QED
    BY <1>1, <1>2, <2>1
<1>4. Tables(m) /\ m.others = r.others /\ \A x \in Epochs : x # e => m.duties[x] = r.duties[x]
  BY <1>2, RowsDeleted
<1>5. e \notin failed' => \A x \in Epochs :
          /\ x \in {e - 1, e} => m.epoch[x] = NoRow
          /\ x = e => m.duties[x] = NoRow
          /\ x \in e..(e + 2) => m.rewards[x] = NoRow
  <2>1. e \notin failed' => n = Deletes
    BY <1>1 DEF Deletes
  <2> QED
    BY <1>2, <2>1, RowsDeleted
<1>6. Matching(m, K, failed', hd)
  <2>1. Matching(m, K, failed, hd)
    BY <1>2, MatchingDeleted
  <2> QED
    BY <1>1, <1>3, <2>1, MatchingSame
<1>7. Matching(rows', L, failed', hd)
  BY <1>3, <1>4, <1>5, <1>6, MatchingWritten
<1>8. Filled(r, K, failed', hd)
  BY <1>1, FilledSame
<1>9. Filled(rows', L, failed', hd)
  BY <1>3, <1>4, <1>8, FilledWritten
<1> QED
  BY <1>7, <1>9

LEMMA ReprocessStep ==
    ASSUME ChainInv, NEW p \in passes, Reprocess(p), NEW e, e = Min(p.todo)
    PROVE  /\ ChainInv' /\ e \in Epochs
           /\ \A d \in Epochs :
                /\ Cached(d, states)' <=> Cached(d, states) \/ d \in Dependencies(e)
                /\ Cached(d, states) /\ d # e => states'[d] = states[d]
                /\ (Cached(d, states)' /\ ~Cached(d, states)) \/ d = e =>
                       states'[d].root = root[LastSlot(d)] /\ LastSlot(d) <= head
           /\ \A s \in Slots : blocks'[s] = blocks[s] \/ (blocks[s] = None /\ blocks'[s] = canon[s])
           /\ Remade(rows, e)
           /\ \A d \in Dependencies(e) : Cached(d, states)'
           /\ p.todo # {} /\ Moved(p, Done(p))
           /\ \A x \in passes' : x \in passes \/ (x.limit = p.limit /\ x.todo = p.todo \ {e})
           /\ UNCHANGED <<chain, fin, handlers, lost, checked>>
<1>0. Shape /\ ChainKnown /\ CacheNearHead
  BY DEF ChainInv
<1>1. p.todo # {} /\ e \in Epochs /\ e \in p.todo
  BY <1>0, PassAt DEF Reprocess
<1> DEFINE ready == EnsureDependencyStates(e, Replaced(e))
<1>2. /\ Cached(e, states) /\ states' = ready.states /\ blocks' = ready.blocks
      /\ \A d \in Dependencies(e) : Cached(d, ready.states)
      /\ Rewritten(rows, e, ready.states)
      /\ Moved(p, Done(p)) /\ UNCHANGED <<chain, fin, handlers, lost, checked>>
  BY DEF Reprocess
<1> HIDE DEF ready
<1>3. /\ DOMAIN states' = Epochs
      /\ \A d \in Epochs :
            /\ DOMAIN states'[d] = {"root", "blocks"}
            /\ Cached(d, states)' <=> Cached(d, states) \/ d \in Dependencies(e)
            /\ Cached(d, states) /\ d # e => states'[d] = states[d]
            /\ (Cached(d, states)' /\ ~Cached(d, states)) \/ d = e =>
                   states'[d].root = root[LastSlot(d)] /\ LastSlot(d) <= head
      /\ DOMAIN blocks' = Slots
      /\ \A s \in Slots :
            /\ blocks'[s] = blocks[s]
               \/ (s <= head /\ blocks[s] = None /\ blocks'[s] = canon[s] /\ canon[s] # None)
            /\ EpochOf(s) \in Dependencies(e) => blocks'[s] # None
  <2>1. /\ DOMAIN ready.states = Epochs
        /\ \A d \in Epochs :
             /\ DOMAIN ready.states[d] = {"root", "blocks"}
             /\ Cached(d, ready.states) <=> Cached(d, states) \/ d \in Dependencies(e)
             /\ Cached(d, states) /\ d # e => ready.states[d] = states[d]
             /\ (Cached(d, ready.states) /\ ~Cached(d, states)) \/ d = e =>
                    ready.states[d].root = root[LastSlot(d)] /\ LastSlot(d) <= head
        /\ DOMAIN ready.blocks = Slots
        /\ \A s \in Slots :
             /\ ready.blocks[s] = blocks[s]
                \/ (s <= head /\ blocks[s] = None /\ ready.blocks[s] = canon[s] /\ canon[s] # None)
             /\ EpochOf(s) \in Dependencies(e) => ready.blocks[s] # None
    BY <1>1, <1>2, Readied DEF ready
  <2> QED
    BY <1>2, <2>1 DEF Cached
<1>12. Remade(rows, e)
  BY <1>2, RewrittenRemade
<1>4. /\ \A x \in passes' : x \in passes \/ (x.limit = p.limit /\ x.todo = p.todo \ {e})
      /\ passes' \subseteq Pass
  <2>1. Done(p).limit = p.limit /\ Done(p).todo = p.todo \ {e} /\ Done(p) \in Pass
    BY <1>0, <1>1, PassDone DEF Pass
  <2>2. \A x \in passes' : x \in passes \/ x = Done(p)
    BY <1>2 DEF Moved
  <2> QED
    BY <1>0, <2>1, <2>2 DEF Shape, Pass
<1>5. Shape'
  <2>1. Tables(rows')
    <3>1. Tables(rows)
      BY <1>0 DEF Shape
    <3> QED
      BY <1>1, <1>12, <3>1, RemadeTables
  <2>2. blocks' \in [Slots -> -1..fork]
    <3>1. \A s \in Slots : blocks'[s] \in -1..fork
      BY <1>0, <1>3 DEF Shape
    <3>2. blocks' = [s \in Slots |-> blocks'[s]]
      <4>1. blocks' = [s \in Slots |-> IF EpochOf(s) \in {d \in Dependencies(e) : ~Cached(d, Replaced(e))}
                                           /\ blocks[s] = None THEN canon[s] ELSE blocks[s]]
        BY <1>2 DEF ready, EnsureDependencyStates
      <4> QED
        BY <4>1
    <3> QED
      BY <3>1, <3>2
  <2> QED
    BY <1>0, <1>2, <1>3, <1>4, <2>1, <2>2 DEF Shape, Pass, chain
<1>6. ChainKnown'
  BY <1>0, <1>2, <1>4 DEF ChainKnown, chain
<1>7. CacheNearHead'
  <2>1. ASSUME NEW d \in Epochs, Cached(d, states)', NEW s \in SlotsOf(d) PROVE blocks'[s] # None
    <3>1. s \in Slots /\ EpochOf(s) = d
      BY EpochsInRange, EpochUnique
    <3>2. CASE Cached(d, states)
      <4>1. blocks[s] # None
        BY <1>0, <2>1, <3>2 DEF CacheNearHead, StatesHaveBlocks, BlocksThere
      <4> QED
        BY <1>3, <3>1, <4>1
    <3>3. CASE d \in Dependencies(e)
      BY <1>3, <3>1, <3>3
    <3> QED
      BY <1>3, <2>1, <3>2, <3>3
  <2>2. \A d \in Epochs : Cached(d, states)' => LastSlot(d) <= head
    BY <1>0, <1>3 DEF CacheNearHead
  <2>3. \A d \in Epochs : ~Cached(d, states)' => ~Cached(d, states)
    BY <1>3
  <2>4. \A s \in Slots : blocks'[s] = None => blocks[s] = None
    BY <1>3
  <2>5. UNCHANGED <<head, fin>>
    BY <1>2 DEF chain
  <2> QED
    BY <1>0, <2>1, <2>2, <2>3, <2>4, <2>5 DEF CacheNearHead, StatesHaveBlocks, BlocksThere
<1>8. \A d \in Epochs :
        /\ Cached(d, states)' <=> Cached(d, states) \/ d \in Dependencies(e)
        /\ Cached(d, states) /\ d # e => states'[d] = states[d]
        /\ (Cached(d, states)' /\ ~Cached(d, states)) \/ d = e =>
               states'[d].root = root[LastSlot(d)] /\ LastSlot(d) <= head
  BY <1>3
<1>9. \A s \in Slots : blocks'[s] = blocks[s] \/ (blocks[s] = None /\ blocks'[s] = canon[s])
  BY <1>3
<1>10. ChainInv'
  BY <1>5, <1>6, <1>7 DEF ChainInv
<1>11. \A d \in Dependencies(e) : Cached(d, states)'
  BY <1>2 DEF Cached
<1> QED
  BY <1>1, <1>2, <1>4, <1>8, <1>9, <1>10, <1>11, <1>12

LEMMA PassEndStep ==
    ASSUME ChainInv, NEW p \in passes, PassEnd(p)
    PROVE  /\ ChainInv' /\ checked' \in {checked, p.limit}
           /\ \A d \in Epochs : states'[d] = IF Cached(d, states) /\ d < p.limit THEN NoState ELSE states[d]
           /\ \A s \in Slots : /\ blocks'[s] \in {None, blocks[s]}
                               /\ blocks'[s] # blocks[s] => EpochOf(s) < p.limit
           /\ p.todo = {} /\ passes' = passes \ {p}
           /\ UNCHANGED <<chain, fin, rows, handlers, lost, failed>>
<1> DEFINE old == {d \in Epochs : Cached(d, states) /\ d < p.limit}
<1>0. Shape /\ ChainKnown /\ CacheNearHead
  BY DEF ChainInv
<1>1. /\ states' = [d \in Epochs |-> IF d \in old THEN NoState ELSE states[d]]
      /\ blocks' = [s \in Slots |-> IF EpochOf(s) \in old THEN None ELSE blocks[s]]
      /\ p.todo = {} /\ passes' = passes \ {p}
      /\ checked' = Max({checked, p.limit})
      /\ UNCHANGED <<chain, fin, rows, handlers, lost, failed>>
  BY DEF PassEnd, CleanUpTo
<1>2. p.limit \in Int /\ checked \in Int /\ fin \in Nat /\ p.limit <= fin - KeepEpochs
      /\ KeepEpochs \in Nat /\ checked <= fin
  BY <1>0, ChainTypes, Parameters DEF Shape, ChainKnown
<1>3. checked' \in {checked, p.limit}
  <2>1. \E x \in {checked, p.limit} : \A y \in {checked, p.limit} : x >= y
    BY <1>2
  <2> QED
    BY <1>1, <2>1 DEF Max
<1>4. ASSUME NEW d \in Epochs
      PROVE  /\ states'[d] = IF Cached(d, states) /\ d < p.limit THEN NoState ELSE states[d]
             /\ DOMAIN states'[d] = {"root", "blocks"}
  BY <1>0, <1>1 DEF Shape, NoState
<1>5. ASSUME NEW s \in Slots
      PROVE  /\ blocks'[s] = None \/ blocks'[s] = blocks[s]
             /\ blocks'[s] # blocks[s] => EpochOf(s) < p.limit
             /\ EpochOf(s) \notin old => blocks'[s] = blocks[s]
  BY <1>1
<1>6. Shape'
  <2>1. blocks' \in [Slots -> -1..fork]
    <3>1. \A s \in Slots : blocks'[s] \in -1..fork
      BY <1>0, <1>5, ChainTypes, Parameters
    <3> HIDE DEF old
    <3> QED
      BY <1>1, <3>1
  <2>2. DOMAIN states' = Epochs
    BY <1>1
  <2>3. checked' \in Int
    BY <1>2, <1>3
  <2>4. \A d \in Epochs : DOMAIN states'[d] = {"root", "blocks"}
    BY <1>4
  <2> HIDE DEF old
  <2> QED
    BY <1>0, <1>1, <2>1, <2>2, <2>3, <2>4 DEF Shape, chain
<1>7. ChainKnown'
  <2>1. checked' <= fin
    BY <1>2, <1>3
  <2> HIDE DEF old
  <2> QED
    BY <1>0, <1>1, <2>1 DEF ChainKnown, chain
<1>8. CacheNearHead'
  <2>1. ASSUME NEW d \in Epochs, Cached(d, states)'
        PROVE  /\ Cached(d, states) /\ LastSlot(d) <= head
               /\ \A s \in SlotsOf(d) : blocks'[s] # None
    <3>1. Cached(d, states) /\ d \notin old
      BY <1>4, <2>1 DEF Cached, NoState
    <3>2. \A s \in SlotsOf(d) : s \in Slots /\ EpochOf(s) = d
      BY EpochsInRange, EpochUnique
    <3>3. \A s \in SlotsOf(d) : blocks'[s] = blocks[s]
      BY <1>5, <3>1, <3>2
    <3> QED
      BY <1>0, <3>1, <3>3 DEF CacheNearHead, StatesHaveBlocks, BlocksThere
  <2>2. ASSUME NEW d \in Epochs, ~Cached(d, states)', LastSlot(d) <= head
        PROVE  d < fin - KeepEpochs
    <3>1. CASE Cached(d, states) /\ d < p.limit
      <4>1. d \in Nat
        BY EpochsInRange
      <4> QED
        BY <1>2, <3>1, <4>1
    <3>2. CASE ~(Cached(d, states) /\ d < p.limit)
      BY <1>0, <1>4, <2>2, <3>2 DEF CacheNearHead, Cached
    <3> QED
      BY <3>1, <3>2
  <2>3. ASSUME NEW s \in Slots, s <= head, blocks'[s] = None
        PROVE  EpochOf(s) < fin - KeepEpochs
    <3>1. CASE blocks[s] = None
      BY <1>0, <2>3, <3>1 DEF CacheNearHead
    <3>2. CASE blocks[s] # None
      <4>1. EpochOf(s) < p.limit
        BY <1>5, <2>3, <3>2
      <4>2. EpochOf(s) \in Nat
        BY EpochsInRange
      <4> QED
        BY <1>2, <4>1, <4>2
    <3> QED
      BY <3>1, <3>2
  <2>4. UNCHANGED <<head, fin>>
    BY <1>1 DEF chain
  <2> QED
    BY <2>1, <2>2, <2>3, <2>4 DEF CacheNearHead, StatesHaveBlocks, BlocksThere
<1>9. \A d \in Epochs : states'[d] = IF Cached(d, states) /\ d < p.limit THEN NoState ELSE states[d]
  BY <1>4
<1>10. \A s \in Slots : /\ blocks'[s] \in {None, blocks[s]}
                        /\ blocks'[s] # blocks[s] => EpochOf(s) < p.limit
  BY <1>5
<1>11. ChainInv'
  BY <1>6, <1>7, <1>8 DEF ChainInv
<1> HIDE DEF old
<1> QED
  BY <1>1, <1>3, <1>9, <1>10, <1>11

\* A slot of a walk: its block is of the chain again, and so is the state of an
\* epoch that ends with it.
LEMMA HandleReorgStep ==
    ASSUME ChainInv, NEW h \in handlers, HandleReorg(h), NEW i, i = h.i, NEW e, e = EpochOf(i)
    PROVE  /\ ChainInv' /\ i \in Slots /\ i <= head /\ e \in Epochs
           /\ blocks[i] # None /\ canon[i] # None
           /\ \A s \in Slots : blocks'[s] = IF s = i THEN canon[i] ELSE blocks[s]
           /\ \/ i # LastSlot(e) /\ states' = states
              \/ /\ i = LastSlot(e) /\ Cached(e, states)
                 /\ states'[e].root = root[LastSlot(e)]
                 /\ \A d \in Epochs \ {e} : states'[d] = states[d]
           /\ \/ /\ i = LastSlot(e) => ~RootChanged(e)
                 /\ rows' = BlockRewritten(i, [blocks EXCEPT ![i] = canon[i]])
                 /\ UNCHANGED failed
              \/ /\ i = LastSlot(e)
                 /\ \A d \in Dependencies(e) : Cached(d, states)'
                 /\ Remade(BlockRewritten(i, [blocks EXCEPT ![i] = canon[i]]), e)
           /\ \A d \in Epochs : Cached(d, states)' <=> Cached(d, states)
           /\ handlers' = (handlers \ {h}) \union Walked(h)
           /\ UNCHANGED <<chain, fin, passes, lost, checked>>
<1> DEFINE bs == [blocks EXCEPT ![i] = canon[i]]
           state == [root |-> root[LastSlot(e)], blocks |-> [s \in SlotsOf(e) |-> bs[s]]]
           st == [states EXCEPT ![e] = state]
<1>0. Shape /\ ChainKnown /\ CacheNearHead
  BY DEF ChainInv
<1>1. /\ i \in Slots /\ blocks[i] # None /\ blocks' = bs
      /\ handlers' = (handlers \ {h}) \union Walked(h)
      /\ UNCHANGED <<chain, fin, passes, lost, checked>>
      /\ \/ /\ i = LastSlot(e) /\ Cached(e, states) /\ states' = st
            /\ \/ /\ RootChanged(e) /\ \A d \in Dependencies(e) : Cached(d, st)
                  /\ Rewritten(BlockRewritten(i, bs), e, st)
               \/ ~RootChanged(e) /\ rows' = BlockRewritten(i, bs) /\ UNCHANGED failed
         \/ i # LastSlot(e) /\ rows' = BlockRewritten(i, bs) /\ UNCHANGED <<states, failed>>
  BY DEF HandleReorg, ReplaceBlock, Downloaded
<1>2. e \in Epochs /\ i \in Nat /\ head \in Nat
  BY <1>0, <1>1, EpochsInRange, ChainTypes
<1>3. i <= head /\ canon[i] # None /\ root[i] # None
  BY <1>0, <1>1 DEF ChainKnown
<1>4. \A s \in Slots : blocks'[s] = IF s = i THEN canon[i] ELSE blocks[s]
  BY <1>0, <1>1 DEF Shape
<1>5. /\ DOMAIN states' = Epochs /\ \A d \in Epochs : DOMAIN states'[d] = {"root", "blocks"}
      /\ \/ i # LastSlot(e) /\ states' = states
         \/ /\ i = LastSlot(e) /\ Cached(e, states)
            /\ states'[e].root = root[LastSlot(e)]
            /\ \A d \in Epochs \ {e} : states'[d] = states[d]
  BY <1>0, <1>1, <1>2 DEF Shape
<1>6. \/ /\ i = LastSlot(e) => ~RootChanged(e)
         /\ rows' = BlockRewritten(i, bs) /\ UNCHANGED failed
      \/ /\ i = LastSlot(e)
         /\ \A d \in Dependencies(e) : Cached(d, states)'
         /\ Remade(BlockRewritten(i, bs), e)
  <2>1. CASE i = LastSlot(e) /\ RootChanged(e)
    <3>1. states' = st /\ Rewritten(BlockRewritten(i, bs), e, st)
          /\ \A d \in Dependencies(e) : Cached(d, st)
      BY <1>1, <2>1
    <3>2. \A d \in Dependencies(e) : Cached(d, states)'
      BY <3>1 DEF Cached
    <3>3. Remade(BlockRewritten(i, bs), e)
      BY <3>1, RewrittenRemade
    <3> QED
      BY <2>1, <3>2, <3>3
  <2>2. CASE ~(i = LastSlot(e) /\ RootChanged(e))
    BY <1>1, <2>2
  <2> QED
    BY <2>1, <2>2
<1>7. \A d \in Epochs : Cached(d, states)' <=> Cached(d, states)
  BY <1>3, <1>5 DEF Cached
<1>8. Shape'
  <2>1. Tables(BlockRewritten(i, bs))
    BY <1>0 DEF Shape, Tables, BlockRewritten
  <2>2. Tables(rows')
    <3> HIDE DEF bs
    <3> QED
      BY <1>2, <1>6, <2>1, RemadeTables
  <2>3. blocks' \in [Slots -> -1..fork]
    BY <1>0, <1>1 DEF Shape
  <2>4. Walked(h) \subseteq Handler
    <3>1. h \in Handler /\ h.reorgedSlots + 1 \in Nat /\ h.i - 1 \in Int
      BY <1>0 DEF Shape, Handler
    <3> DEFINE n == IF h.i < h.slot /\ blocks[h.i] # Missed THEN h.reorgedSlots + 1 ELSE h.reorgedSlots
    <3>2. n \in Nat
      BY <3>1 DEF Handler
    <3>3. Walked(h) \subseteq {[h EXCEPT !.i = @ - 1, !.reorgedSlots = n]}
      BY DEF Walked
    <3> HIDE DEF n
    <3>4. [h EXCEPT !.i = @ - 1, !.reorgedSlots = n] \in Handler
      BY <3>1, <3>2 DEF Handler
    <3> QED
      BY <3>3, <3>4
  <2>5. handlers' \subseteq Handler
    BY <1>0, <1>1, <2>4 DEF Shape, Handler
  <2> HIDE DEF bs, st
  <2> QED
    BY <1>0, <1>1, <1>5, <2>2, <2>3, <2>5 DEF Shape, Handler, chain
<1>9. ChainKnown'
  <2>1. \A x \in Walked(h) : x.i <= head
    <3>1. \A x \in Walked(h) : x.i = i - 1
      BY <1>0 DEF Walked, Shape
    <3> QED
      BY <1>2, <1>3, <3>1
  <2> HIDE DEF bs, st
  <2> QED
    BY <1>0, <1>1, <2>1 DEF ChainKnown, chain
<1>10. CacheNearHead'
  <2>1. \A s \in Slots : blocks'[s] = None <=> blocks[s] = None
    BY <1>1, <1>3, <1>4
  <2>2. \A d \in Epochs : \A s \in SlotsOf(d) : s \in Slots
    BY EpochsInRange
  <2>3. UNCHANGED <<head, fin>>
    BY <1>1 DEF chain
  <2> QED
    BY <1>0, <1>7, <2>1, <2>2, <2>3 DEF CacheNearHead, StatesHaveBlocks, BlocksThere
<1>11. ChainInv'
  BY <1>8, <1>9, <1>10 DEF ChainInv
<1> HIDE DEF st, state
<1> QED
  BY <1>1, <1>2, <1>3, <1>4, <1>5, <1>6, <1>7, <1>11

\* The epochs that are there when the analyzer begins to follow.
LEMMA FilledEpochs ==
    /\ LastSlot(InitEpoch + 5) \in Slots
    /\ \A e \in Epochs : SlotsOf(e) \subseteq 0..LastSlot(InitEpoch + 5) <=> e <= 5
    /\ \A e \in Epochs : e <= 5 <=> LastSlot(e) <= LastSlot(InitEpoch + 5)
<1>1. InitEpoch + 5 = 5 /\ 5 \in Epochs
  BY Parameters
<1>2. LastSlot(5) \in Slots /\ LastSlot(5) \in Nat
  BY <1>1, EpochsInRange
<1>3. ASSUME NEW e \in Epochs
      PROVE  /\ e <= 5 <=> LastSlot(e) <= LastSlot(5)
             /\ SlotsOf(e) \subseteq 0..LastSlot(5) <=> e <= 5
  <2>1. /\ e \in Nat /\ LastSlot(e) \in Nat /\ FirstSlot(e) \in Nat /\ FirstSlot(e) <= LastSlot(e)
    BY EpochsInRange
  <2>2. e <= 5 <=> LastSlot(e) <= LastSlot(5)
    <3>1. e <= 5 => LastSlot(e) <= LastSlot(5)
      BY <2>1, LastSlotsInOrder
    <3>2. 5 < e => LastSlot(5) < LastSlot(e)
      BY <2>1, EpochsApart
    <3> QED
      BY <1>2, <2>1, <3>1, <3>2
  <2>3. SlotsOf(e) \subseteq 0..LastSlot(5) <=> LastSlot(e) <= LastSlot(5)
    <3>1. LastSlot(e) \in SlotsOf(e)
      BY <2>1 DEF SlotsOf
    <3>2. LastSlot(e) <= LastSlot(5) => \A s \in SlotsOf(e) : s \in 0..LastSlot(5)
      BY <1>2, <2>1 DEF SlotsOf
    <3>3. LastSlot(e) \in 0..LastSlot(5) => LastSlot(e) <= LastSlot(5)
      BY <1>2, <2>1
    <3> QED
      BY <3>1, <3>2, <3>3
  <2> QED
    BY <2>2, <2>3
<1> QED
  BY <1>1, <1>2, <1>3

\* The first metrics, of four epochs in a row.
LEMMA Begin ==
    ASSUME Init, NEW lastFilled, lastFilled = LastSlot(InitEpoch + 5)
    PROVE  /\ head = lastFilled /\ lastFilled \in Slots /\ fin = 4 /\ fork = 1 /\ checked = 0
           /\ \A s \in Slots : /\ canon[s] = IF s <= lastFilled THEN 1 ELSE None
                               /\ root[s] = canon[s] /\ blocks[s] = canon[s]
           /\ DOMAIN states = Epochs
           /\ \A e \in Epochs : /\ DOMAIN states[e] = {"root", "blocks"}
                                /\ states[e].root = IF e <= 5 THEN 1 ELSE None
                                /\ e <= 5 <=> LastSlot(e) <= lastFilled
           /\ passes = {} /\ handlers = {} /\ lost = FALSE /\ failed = {}
           /\ Tables(rows) /\ rows.block = canon /\ rows.orphans = {}
           /\ \A e \in Epochs :
                 /\ rows.epoch[e] = IF e \in 1..4 THEN {<<1, 1>>} ELSE NoRow
                 /\ rows.duties[e] = IF e \in 2..5 THEN {<<1>>} ELSE NoRow
                 /\ rows.rewards[e] = IF e \in 2..5 THEN {<<1, 1, 1>>} ELSE NoRow
                 /\ rows.others[e] = IF e \in 2..5 THEN {<<1, 1, 1>>} ELSE NoRow
<1> DEFINE filled == 0..lastFilled
           computed(first, row) == [e \in Epochs |-> IF e \in first..(first + 3) THEN {row} ELSE NoRow]
<1>1. /\ canon = [s \in Slots |-> IF s \in filled THEN 1 ELSE None]
      /\ root = canon /\ fork = 1 /\ head = lastFilled /\ fin = InitEpoch + 4 /\ blocks = canon
      /\ states = [e \in Epochs |-> IF SlotsOf(e) \subseteq filled
                       THEN [root |-> 1, blocks |-> [s \in SlotsOf(e) |-> 1]] ELSE NoState]
      /\ passes = {} /\ handlers = {} /\ lost = FALSE /\ failed = {} /\ checked = InitEpoch
  BY DEF Init
<1>2. rows = [block |-> canon, orphans |-> {},
              epoch |-> computed(InitEpoch + 1, <<1, 1>>),
              duties |-> computed(InitEpoch + 2, <<1>>),
              rewards |-> computed(InitEpoch + 2, <<1, 1, 1>>),
              others |-> computed(InitEpoch + 2, <<1, 1, 1>>)]
  BY DEF Init
<1>3. lastFilled \in Slots /\ lastFilled \in Nat
  BY FilledEpochs, EpochsInRange
<1>4. InitEpoch + 1 = 1 /\ InitEpoch + 2 = 2 /\ InitEpoch + 4 = 4 /\ InitEpoch = 0
      /\ (1 + 3) = 4 /\ (2 + 3) = 5
  BY Parameters
<1>5. \A s \in Slots : /\ canon[s] = IF s <= lastFilled THEN 1 ELSE None
                       /\ root[s] = canon[s] /\ blocks[s] = canon[s] /\ s \in Nat
  BY <1>1, <1>3, EpochsInRange
<1>6. \A e \in Epochs : /\ DOMAIN states[e] = {"root", "blocks"}
                        /\ states[e].root = IF e <= 5 THEN 1 ELSE None
                        /\ e <= 5 <=> LastSlot(e) <= lastFilled
  <2>1. \A e \in Epochs : /\ SlotsOf(e) \subseteq filled <=> e <= 5
                          /\ e <= 5 <=> LastSlot(e) <= lastFilled
    BY FilledEpochs
  <2> QED
    BY <1>1, <2>1 DEF NoState
<1>7. /\ Tables(rows) /\ rows.block = canon /\ rows.orphans = {}
      /\ rows.epoch = computed(1, <<1, 1>>) /\ rows.duties = computed(2, <<1>>)
      /\ rows.rewards = computed(2, <<1, 1, 1>>) /\ rows.others = computed(2, <<1, 1, 1>>)
  BY <1>1, <1>2, <1>4 DEF Tables
<1>8. \A e \in Epochs :
         /\ rows.epoch[e] = IF e \in 1..4 THEN {<<1, 1>>} ELSE NoRow
         /\ rows.duties[e] = IF e \in 2..5 THEN {<<1>>} ELSE NoRow
         /\ rows.rewards[e] = IF e \in 2..5 THEN {<<1, 1, 1>>} ELSE NoRow
         /\ rows.others[e] = IF e \in 2..5 THEN {<<1, 1, 1>>} ELSE NoRow
  BY <1>4, <1>7
<1>9. DOMAIN states = Epochs
  BY <1>1
<1> QED
  BY <1>1, <1>3, <1>4, <1>5, <1>6, <1>7, <1>8, <1>9

LEMMA ChainInvInit == ASSUME Init PROVE ChainInv
<1> DEFINE lastFilled == LastSlot(InitEpoch + 5)
<1>1. /\ head = lastFilled /\ lastFilled \in Slots /\ fin = 4 /\ fork = 1 /\ checked = 0
      /\ \A s \in Slots : /\ canon[s] = IF s <= lastFilled THEN 1 ELSE None
                          /\ root[s] = canon[s] /\ blocks[s] = canon[s]
      /\ DOMAIN states = Epochs
      /\ \A e \in Epochs : /\ DOMAIN states[e] = {"root", "blocks"}
                           /\ states[e].root = IF e <= 5 THEN 1 ELSE None
                           /\ e <= 5 <=> LastSlot(e) <= lastFilled
      /\ passes = {} /\ handlers = {} /\ lost = FALSE /\ Tables(rows)
  BY Begin
<1>2. canon \in [Slots -> -1..1] /\ root = canon /\ blocks = canon
  BY Parameters DEF Init
<1>3. lastFilled \in Nat /\ 4 \in Epochs /\ 5 \in Epochs /\ 4 - KeepEpochs \in Int
  BY <1>1, EpochsInRange, Parameters
<1>4. FirstSlot(4) <= lastFilled
  <2>1. LastSlot(4) <= LastSlot(5) /\ FirstSlot(4) <= LastSlot(4)
    BY <1>3, LastSlotsInOrder, EpochsInRange
  <2>2. LastSlot(4) \in Nat /\ LastSlot(5) \in Nat /\ FirstSlot(4) \in Nat /\ lastFilled = LastSlot(5)
    <3>1. InitEpoch + 5 = 5
      BY Parameters
    <3> QED
      BY <1>3, <3>1, EpochsInRange
  <2> HIDE DEF lastFilled
  <2> QED
    BY <2>1, <2>2
<1> HIDE DEF lastFilled
<1>5. Shape
  <2>1. head \in Slots /\ fin \in Epochs /\ fork \in Nat \ {0} /\ checked \in Int /\ lost \in BOOLEAN
    <3>1. fork = 1 /\ checked = 0 /\ lost = FALSE
      BY <1>1, Zenon
    <3>2. fork \in Nat \ {0} /\ checked \in Int
      BY <3>1
    <3>3. lost \in BOOLEAN
      BY <3>1, Zenon
    <3>4. head \in Slots /\ fin \in Epochs
      BY <1>1, <1>3, Zenon
    <3> QED
      BY <3>2, <3>3, <3>4, Zenon
  <2>2. canon \in [Slots -> -1..fork] /\ blocks \in [Slots -> -1..fork] /\ DOMAIN root = Slots
    <3>1. root = canon /\ blocks = canon /\ fork = 1
      BY <1>1, <1>2
    <3> QED
      BY <1>2, <3>1
  <2>3. DOMAIN states = Epochs /\ \A e \in Epochs : DOMAIN states[e] = {"root", "blocks"}
    BY <1>1
  <2>4. Tables(rows) /\ passes = {} /\ handlers = {}
    BY <1>1
  <2> QED
    BY <2>1, <2>2, <2>3, <2>4 DEF Shape
<1>6. ChainKnown
  <2>1. \A s \in Slots : (canon[s] # None <=> s <= head) /\ (root[s] # None <=> s <= head)
    <3>1. 1 # None
      BY Parameters
    <3> QED
      BY <1>1, <3>1
  <2>2. FirstSlot(fin) <= head /\ checked <= fin
    BY <1>1, <1>4
  <2> QED
    BY <1>1, <2>1, <2>2 DEF ChainKnown
<1>7. CacheNearHead
  <2>1. ASSUME NEW e \in Epochs, Cached(e, states), NEW s \in SlotsOf(e) PROVE blocks[s] # None
    <3>1. LastSlot(e) <= lastFilled /\ s \in Slots /\ s \in Nat /\ s <= LastSlot(e) /\ LastSlot(e) \in Nat
      <4>1. e <= 5
        BY <1>1, <2>1 DEF Cached
      <4>2. LastSlot(e) \in Nat /\ FirstSlot(e) \in Nat /\ s \in Slots
        BY EpochsInRange
      <4> QED
        BY <1>1, <4>1, <4>2 DEF SlotsOf
    <3>2. s <= lastFilled
      BY <1>3, <3>1
    <3> QED
      BY <1>1, <3>1, <3>2, Parameters
  <2>2. \A e \in Epochs : Cached(e, states) => LastSlot(e) <= head
    BY <1>1 DEF Cached
  <2>3. \A e \in Epochs : ~Cached(e, states) => ~(LastSlot(e) <= head)
    BY <1>1, Parameters DEF Cached
  <2>4. \A s \in Slots : s <= head => blocks[s] # None
    BY <1>1, Parameters
  <2> QED
    BY <2>1, <2>2, <2>3, <2>4 DEF CacheNearHead, StatesHaveBlocks, BlocksThere
<1> QED
  BY <1>5, <1>6, <1>7 DEF ChainInv

LEMMA AdvanceStep ==
    ASSUME ChainInv, NEW p \in passes, AdvanceFinalized(p)
    PROVE  ChainInv'
BY VerifyBlocksStep, VerifyStateStep, ReprocessStep, PassEndStep DEF AdvanceFinalized

LEMMA ChainInvStep ==
    ASSUME ChainInv, [Next]_vars
    PROVE  ChainInv'
<1>1. CASE UNCHANGED vars
  BY <1>1 DEF ChainInv, Shape, ChainKnown, CacheNearHead, StatesHaveBlocks, BlocksThere, Cached,
              vars
<1>2. CASE \E b \in {fork, Missed} : Follow(b)
  BY <1>2, FollowStep
<1>3. CASE \E a \in FirstSlot(fin)..(head - 1) :
               \E missed \in SUBSET ((a + 1)..(head - 1)) : ChainReorg(a, missed)
  BY <1>3, ReorgStep
<1>4. CASE \E f \in (fin + 1)..(EpochOf(head) - 2) : Finalize(f)
  BY <1>4, FinalizeStep
<1>5. CASE \E p \in passes : AdvanceFinalized(p)
  BY <1>5, AdvanceStep
<1>6. CASE \E h \in handlers : HandleReorg(h)
  BY <1>6, HandleReorgStep
<1> QED
  BY <1>1, <1>2, <1>3, <1>4, <1>5, <1>6 DEF Next

LEMMA ChainInvAlways == Spec => []ChainInv
<1>1. Init => ChainInv
  BY ChainInvInit
<1>2. ChainInv /\ [Next]_vars => ChainInv'
  BY ChainInvStep
<1> QED
  BY <1>1, <1>2, PTL DEF Spec

\* A state in the cache has the blocks of its epoch with it, however passes,
\* walks and new blocks interleave.
THEOREM StatesKeepBlocks == Spec => []StatesHaveBlocks
<1>1. ChainInv => StatesHaveBlocks
  BY DEF ChainInv, CacheNearHead
<1> QED
  BY <1>1, ChainInvAlways, PTL
-----------------------------------------------------------------------------
(* The rows of checked epochs.                                             *)

RowsInv == RowsMatch /\ RowsFilled /\ PassesVerify

LEMMA FinalizedBelow ==
    ASSUME ChainInv, NEW e \in Epochs
    PROVE  /\ fin \in Nat /\ fin - KeepEpochs \in Int /\ fin - KeepEpochs <= fin
           /\ e < fin => LastSlot(e) < FirstSlot(fin) /\ LastSlot(e) \in Nat /\ FirstSlot(fin) \in Nat
           /\ \A p \in passes : e < p.limit => e < fin
           /\ e < checked => e < fin
           /\ ~Cached(e, states) /\ LastSlot(e) <= head => e < fin
<1>0. Shape /\ ChainKnown /\ CacheNearHead
  BY DEF ChainInv
<1>1. fin \in Nat /\ e \in Nat /\ KeepEpochs \in Nat /\ LastSlot(e) \in Nat /\ FirstSlot(fin) \in Nat
  BY <1>0, ChainTypes, EpochsInRange, Parameters DEF Shape
<1>2. fin - KeepEpochs \in Int /\ fin - KeepEpochs <= fin
  BY <1>1
<1>3. e < fin => LastSlot(e) < FirstSlot(fin)
  BY <1>1, EpochsApart
<1>4. \A p \in passes : e < p.limit => e < fin
  <2>1. \A p \in passes : p.limit \in Int /\ p.limit <= fin - KeepEpochs
    BY <1>0 DEF Shape, ChainKnown
  <2> QED
    BY <1>1, <2>1
<1>5. e < checked => e < fin
  BY <1>0, <1>1 DEF Shape, ChainKnown
<1>6. ~Cached(e, states) /\ LastSlot(e) <= head => e < fin
  <2>1. ~Cached(e, states) /\ LastSlot(e) <= head => e < fin - KeepEpochs
    BY <1>0 DEF CacheNearHead
  <2> QED
    BY <1>1, <2>1
<1> QED
  BY <1>1, <1>2, <1>3, <1>4, <1>5, <1>6

\* What was verified stays so, and so do the passes.
LEMMA VerifiedStays ==
    ASSUME ChainInv, PassesVerify,
           \A d \in Epochs : d < fin /\ Verified(d) => Verified(d)',
           \A x \in passes' : \A d \in Epochs : d < x.limit /\ d \notin x.todo =>
               \/ Verified(d)'
               \/ \E p \in passes : d < p.limit /\ d \notin p.todo,
           \A d \in Epochs : d < checked' =>
               \/ d < checked
               \/ \E p \in passes : d < p.limit /\ d \notin p.todo
    PROVE  PassesVerify'
<1>1. \A d \in Epochs : d < checked => Verified(d)'
  BY FinalizedBelow DEF PassesVerify
<1>2. \A d \in Epochs : \A p \in passes : d < p.limit /\ d \notin p.todo => Verified(d)'
  BY FinalizedBelow DEF PassesVerify
<1> QED
  BY <1>1, <1>2 DEF PassesVerify

LEMMA FollowRows ==
    ASSUME ChainInv, RowsInv, NEW b \in {fork, Missed}, Follow(b)
    PROVE  RowsInv'
<1> DEFINE s == head + 1
           e == EpochOf(s)
           bs == [blocks EXCEPT ![s] = b]
           state == [root |-> fork, blocks |-> [t \in SlotsOf(e) |-> bs[t]]]
           st == [states EXCEPT ![e] = state]
           written == [rows EXCEPT !.block[s] = b]
<1>0. Shape /\ ChainKnown /\ CacheNearHead /\ RowsMatch /\ RowsFilled /\ PassesVerify
  BY DEF ChainInv, RowsInv
<1>1. /\ s \in Slots /\ s \in Nat /\ e \in Epochs /\ head \in Nat /\ head < s
      /\ e \in Nat /\ LastSlot(e) \in Nat
  <2>1. s \in Slots /\ s \in Nat /\ head \in Nat
    BY <1>0, ChainTypes DEF Follow
  <2> QED
    BY <2>1, EpochsInRange
<1>2. /\ head' = s /\ root' = [root EXCEPT ![s] = fork]
      /\ \/ /\ s = LastSlot(e) /\ states' = st /\ \A d \in Dependencies(e) : Cached(d, st)
            /\ rows' = ProcessStateTransition(written, e, st)
         \/ s # LastSlot(e) /\ states' = states /\ rows' = written
      /\ UNCHANGED <<fork, fin, passes, handlers, lost, failed, checked>>
  BY DEF Follow, history
<1>3. /\ Tables(written) /\ written.epoch = rows.epoch /\ written.duties = rows.duties
      /\ written.rewards = rows.rewards /\ written.others = rows.others
  BY <1>0 DEF Shape, Tables
<1>4. \A d \in Epochs : LastSlot(d) = s => d = e
  <2> SUFFICES ASSUME NEW d \in Epochs, LastSlot(d) = s PROVE d = e
    OBVIOUS
  <2>1. d \in Int /\ FirstSlot(d) \in Nat /\ FirstSlot(d) <= LastSlot(d) /\ LastSlot(d) \in Nat
    BY EpochsInRange
  <2>2. LastSlot(d) \in SlotsOf(d)
    BY <2>1 DEF SlotsOf
  <2> QED
    BY <2>1, <2>2, EpochUnique
<1> HIDE DEF s, e, written
<1>5. \A d \in Epochs : LastSlot(d) # s => root'[LastSlot(d)] = root[LastSlot(d)]
  BY <1>0, <1>2, EpochsInRange DEF Shape
<1>6. \A d \in Epochs : d # e => states'[d] = states[d]
  BY <1>0, <1>1, <1>2 DEF Shape
<1>7. s = LastSlot(e) => states'[e].root = fork /\ root'[LastSlot(e)] = fork
  BY <1>0, <1>1, <1>2 DEF Shape
<1>8. s # LastSlot(e) => states' = states
  BY <1>2
<1>9. \A d \in Epochs : LastSlot(d) # s =>
          /\ states'[d] = states[d] /\ KnownRoots'[d] = KnownRoots[d]
  <2> SUFFICES ASSUME NEW d \in Epochs, LastSlot(d) # s
               PROVE  states'[d] = states[d] /\ KnownRoots'[d] = KnownRoots[d]
    OBVIOUS
  <2>1. states'[d] = states[d]
    BY <1>6, <1>8
  <2> QED
    BY <1>5, <2>1 DEF KnownRoots, Cached
<1>10. \A d \in Epochs : LastSlot(d) <= head => LastSlot(d) # s
  BY <1>1, EpochsInRange
<1>11. head \in Int /\ s \in Int /\ head <= s
  BY <1>1
<1>12. Matching(rows', KnownRoots', failed, s)
  <2>1. CASE s # LastSlot(e)
    <3>1. rows' = written
      BY <1>2, <2>1
    <3>2. \A d \in Epochs : LastSlot(d) <= head /\ d \notin failed => KnownRoots'[d] = KnownRoots[d]
      BY <1>9, <1>10
    <3>3. Matching(rows, KnownRoots, failed, head)
      BY <1>0 DEF RowsMatch
    <3>4. rows'.epoch = rows.epoch /\ rows'.duties = rows.duties /\ rows'.rewards = rows.rewards
      BY <1>3, <3>1
    <3> QED
      BY <1>11, <3>2, <3>3, <3>4, MatchingSame
  <2>2. CASE s = LastSlot(e)
    <3>1. Matching(written, KnownRoots, failed, head)
      BY <1>0, <1>3, <1>11, MatchingSame DEF RowsMatch
    <3>2. \A d \in Epochs \ {e} : LastSlot(d) <= head => KnownRoots'[d] = KnownRoots[d]
      BY <1>9, <1>10
    <3>3. \A d \in Dependencies(e) : states'[d].root = KnownRoots'[d]
      <4>1. \A d \in Dependencies(e) : d \in Epochs /\ Cached(d, states)'
        BY <1>1, <1>2, <2>2, DependenciesBefore DEF Cached
      <4> QED
        BY <4>1 DEF KnownRoots
    <3>4. rows' = ProcessStateTransition(written, e, states')
      BY <1>2, <2>2
    <3>5. ASSUME NEW x \in Epochs
          PROVE  /\ x \in {e - 1, e} /\ x < MaxEpoch => written.epoch[x] = NoRow
                 /\ x = e => written.duties[x] = NoRow
                 /\ x \in e..(e + 2) => written.rewards[x] = NoRow
      <4>0. x \in Nat
        BY EpochsInRange
      <4>1. ASSUME NEW y \in Epochs, e <= y
            PROVE  /\ written.rewards[y] = NoRow /\ written.duties[y] = NoRow
                   /\ y > 0 => written.epoch[y - 1] = NoRow
        <5>1. LastSlot(e) <= LastSlot(y) /\ LastSlot(y) \in Nat
          BY <1>1, <4>1, LastSlotsInOrder, EpochsInRange
        <5>2. LastSlot(y) > head
          BY <1>1, <2>2, <5>1
        <5> QED
          BY <3>1, <5>2 DEF Matching
      <4>2. x \in e..(e + 2) => written.rewards[x] = NoRow
        BY <1>1, <4>0, <4>1
      <4>3. x = e => written.duties[x] = NoRow
        BY <1>1, <4>1
      <4>4. ASSUME x \in {e - 1, e}, x < MaxEpoch PROVE written.epoch[x] = NoRow
        <5>1. x + 1 \in Epochs /\ e <= x + 1 /\ x + 1 > 0 /\ (x + 1) - 1 = x
          BY <1>1, <4>0, <4>4, Parameters
        <5> QED
          BY <4>1, <5>1
      <4> QED
        BY <4>2, <4>3, <4>4
    <3>6. LastSlot(e) <= s
      BY <1>1, <2>2
    <3> QED
      BY <1>1, <1>3, <1>11, <3>1, <3>2, <3>3, <3>4, <3>5, <3>6, MatchingWritten
  <2> QED
    BY <2>1, <2>2
<1>14. Filled(rows', KnownRoots', failed, s)
  <2>0. \A d \in Epochs : LastSlot(d) <= s /\ LastSlot(d) # s => LastSlot(d) <= head
    BY <1>1, EpochsInRange DEF s
  <2>1. CASE s # LastSlot(e)
    <3>1. \A d \in Epochs : LastSlot(d) <= s => LastSlot(d) <= head
      BY <1>4, <2>0, <2>1
    <3>2. \A d \in Epochs : LastSlot(d) <= head /\ d \notin failed => KnownRoots'[d] = KnownRoots[d]
      BY <1>9, <1>10
    <3>3. rows'.duties = rows.duties /\ rows'.others = rows.others
      BY <1>2, <1>3, <2>1
    <3> QED
      BY <1>0, <1>11, <3>1, <3>2, <3>3, FilledSame DEF RowsFilled
  <2>2. CASE s = LastSlot(e)
    <3>1. \A d \in Epochs \ {e} : LastSlot(d) <= s => LastSlot(d) <= head
      BY <1>4, <2>0
    <3>2. \A d \in Epochs \ {e} : LastSlot(d) <= head => KnownRoots'[d] = KnownRoots[d]
      BY <1>9, <1>10
    <3>3. states'[e].root = KnownRoots'[e]
      <4>1. fork # None
        BY <1>0, ChainTypes, Parameters
      <4>2. \A d \in Epochs : states'[d].root # None => KnownRoots'[d] = states'[d].root
        BY DEF KnownRoots, Cached
      <4> QED
        BY <1>1, <1>7, <2>2, <4>1, <4>2
    <3>4. rows' = ProcessStateTransition(written, e, states')
      BY <1>2, <2>2
    <3> QED
      BY <1>0, <1>1, <1>3, <1>11, <3>1, <3>2, <3>3, <3>4, FilledWritten DEF RowsFilled
  <2> QED
    BY <2>1, <2>2
<1>13. PassesVerify'
  <2>1. \A d \in Epochs : Verified(d) => Verified(d)'
    <3> SUFFICES ASSUME NEW d \in Epochs, Verified(d) PROVE Verified(d)'
      OBVIOUS
    <3>1. CASE LastSlot(d) # s
      BY <1>2, <1>5, <1>9, <3>1 DEF Verified, Cached
    <3>2. CASE LastSlot(d) = s
      BY <1>4, <1>7, <3>2 DEF Verified
    <3> QED
      BY <3>1, <3>2
  <2> QED
    BY <1>0, <1>2, <2>1 DEF PassesVerify
<1> QED
  BY <1>2, <1>12, <1>13, <1>14 DEF RowsInv, RowsMatch, RowsFilled

LEMMA ReorgRows ==
    ASSUME ChainInv, RowsInv, NEW a \in FirstSlot(fin)..(head - 1), NEW missed, ChainReorg(a, missed)
    PROVE  RowsInv'
<1>0. Shape /\ ChainKnown /\ RowsMatch /\ RowsFilled /\ PassesVerify
  BY DEF ChainInv, RowsInv
<1>1. UNCHANGED <<head, fin, states, rows, passes, failed, checked>>
  BY DEF ChainReorg, cache
<1>2. /\ a \in Nat /\ head \in Nat /\ FirstSlot(fin) \in Nat /\ FirstSlot(fin) <= a
      /\ \A s \in Slots : s <= a => root'[s] = root[s]
  <2>1. head \in Nat /\ FirstSlot(fin) \in Nat
    BY <1>0, ChainTypes, EpochsInRange DEF Shape
  <2>2. FirstSlot(fin) <= a
    BY <2>1
  <2> QED
    BY <2>1, <2>2, ReorgStep
<1>3. ASSUME NEW d \in Epochs, d < fin PROVE root'[LastSlot(d)] = root[LastSlot(d)]
  <2>1. LastSlot(d) < FirstSlot(fin) /\ LastSlot(d) \in Nat /\ LastSlot(d) \in Slots
    BY <1>3, FinalizedBelow, EpochsInRange
  <2>2. LastSlot(d) <= a
    BY <1>2, <2>1
  <2> QED
    BY <1>2, <2>1, <2>2
<1>4. RowsMatch' /\ RowsFilled'
  <2>1. \A d \in Epochs : LastSlot(d) <= head => KnownRoots'[d] = KnownRoots[d]
    <3> SUFFICES ASSUME NEW d \in Epochs, LastSlot(d) <= head PROVE KnownRoots'[d] = KnownRoots[d]
      OBVIOUS
    <3>1. Cached(d, states)' <=> Cached(d, states)
      BY <1>1 DEF Cached
    <3>2. ~Cached(d, states) => root'[LastSlot(d)] = root[LastSlot(d)]
      BY <1>3, FinalizedBelow
    <3> QED
      BY <1>1, <3>1, <3>2 DEF KnownRoots
  <2>2. Matching(rows, KnownRoots', failed, head)
    <3>1. head \in Int /\ head <= head
      BY <1>2
    <3> QED
      BY <1>0, <2>1, <3>1, MatchingSame DEF RowsMatch
  <2>3. Filled(rows, KnownRoots', failed, head)
    <3>1. head \in Int
      BY <1>2
    <3> QED
      BY <1>0, <2>1, <3>1, FilledSame DEF RowsFilled
  <2> QED
    BY <1>1, <2>2, <2>3 DEF RowsMatch, RowsFilled
<1>5. PassesVerify'
  <2>1. \A d \in Epochs : d < fin /\ Verified(d) => Verified(d)'
    BY <1>1, <1>3 DEF Verified, Cached
  <2> QED
    BY <1>0, <1>1, <2>1, VerifiedStays
<1> QED
  BY <1>4, <1>5 DEF RowsInv

\* A new pass has every cached epoch before its limit still to do.
LEMMA FinalizeRows ==
    ASSUME ChainInv, RowsInv, NEW f, Finalize(f)
    PROVE  RowsInv'
<1>0. RowsMatch /\ RowsFilled /\ PassesVerify
  BY DEF RowsInv
<1> DEFINE q == [limit |-> f - KeepEpochs,
                 todo |-> {e \in Epochs : Cached(e, states) /\ e < f - KeepEpochs},
                 changed |-> {}, at |-> "blocks"]
<1>1. /\ UNCHANGED <<root, head, states, rows, failed, checked>>
      /\ passes' = passes \union {q}
  BY DEF Finalize, chain, cache, history
<1>2. \A d \in Epochs : Verified(d)' <=> Verified(d)
  BY <1>1 DEF Verified, Cached
<1>3. \A d \in Epochs : d < q.limit /\ d \notin q.todo => Verified(d)
  BY DEF Verified
<1> HIDE DEF q
<1>4. PassesVerify'
  BY <1>0, <1>1, <1>2, <1>3 DEF PassesVerify
<1>5. KnownRoots' = KnownRoots
  BY <1>1 DEF KnownRoots, Cached
<1>6. RowsMatch' /\ RowsFilled'
  BY <1>0, <1>1, <1>5 DEF RowsMatch, RowsFilled
<1> QED
  BY <1>4, <1>6 DEF RowsInv

\* The states stay what they are: a block is repaired, or an epoch needs nothing.
LEMMA VerifyRows ==
    ASSUME ChainInv, RowsInv, NEW p \in passes,
           VerifyBlocks(p) \/ VerifyStateSame(p) \/ VerifyStateSkipped(p)
    PROVE  RowsInv'
<1>0. Shape /\ RowsMatch /\ RowsFilled /\ PassesVerify
  BY DEF ChainInv, RowsInv
<1>1. /\ \A d \in Epochs : states'[d].root = states[d].root
      /\ rows'.epoch = rows.epoch /\ rows'.duties = rows.duties /\ rows'.rewards = rows.rewards
      /\ rows'.others = rows.others
      /\ UNCHANGED <<root, head, checked>>
      /\ failed \subseteq failed'
  <2>1. CASE VerifyBlocks(p)
    BY <2>1, VerifyBlocksStep DEF chain, history
  <2>2. CASE VerifyStateSame(p)
    BY <2>2 DEF VerifyStateSame, chain, cache, history
  <2>3. CASE VerifyStateSkipped(p)
    BY <2>3 DEF VerifyStateSkipped, chain, cache
  <2> QED
    BY <2>1, <2>2, <2>3
<1>2. \A d \in Epochs : KnownRoots'[d] = KnownRoots[d] /\ (Verified(d) => Verified(d)')
  BY <1>1 DEF KnownRoots, Verified, Cached
<1>3. RowsMatch' /\ RowsFilled'
  <2>1. head \in Int /\ head <= head
    BY <1>0, ChainTypes
  <2>2. RowsMatch'
    BY <1>0, <1>1, <1>2, <2>1, MatchingSame DEF RowsMatch
  <2>3. RowsFilled'
    BY <1>0, <1>1, <1>2, <2>1, FilledSame DEF RowsFilled
  <2> QED
    BY <2>2, <2>3
<1>4. PassesVerify'
  <2>1. CASE VerifyBlocks(p)
    <3>1. \A x \in passes' : x \in passes \/ (x.limit = p.limit /\ x.todo = p.todo)
      BY <2>1, VerifyBlocksStep
    <3> QED
      BY <1>0, <1>1, <1>2, <3>1, VerifiedStays
  <2>2. CASE VerifyStateSame(p) \/ VerifyStateSkipped(p)
    <3>1. \A x \in passes' : x \in passes \/ (x.limit = p.limit /\ x.todo = p.todo \ {Min(p.todo)})
      BY <2>2, VerifyStateStep
    <3>2. Verified(Min(p.todo))'
      <4>1. CASE VerifyStateSame(p)
        BY <4>1 DEF VerifyStateSame, NeedsReprocess, RootChanged, Verified, chain, cache, history
      <4>2. CASE VerifyStateSkipped(p)
        BY <4>2 DEF VerifyStateSkipped, Verified
      <4> QED
        BY <2>2, <4>1, <4>2
    <3> QED
      BY <1>0, <1>1, <1>2, <3>1, <3>2, VerifiedStays
  <2> QED
    BY <2>1, <2>2
<1> QED
  BY <1>3, <1>4 DEF RowsInv

LEMMA ReprocessRows ==
    ASSUME ChainInv, RowsInv, NEW p \in passes, Reprocess(p)
    PROVE  RowsInv'
<1>0. Shape /\ RowsMatch /\ RowsFilled /\ PassesVerify
  BY DEF ChainInv, RowsInv
<1>1. PICK e : e = Min(p.todo)
  OBVIOUS
<1>2. /\ e \in Epochs
      /\ \A d \in Epochs :
           /\ Cached(d, states)' <=> Cached(d, states) \/ d \in Dependencies(e)
           /\ Cached(d, states) /\ d # e => states'[d] = states[d]
           /\ (Cached(d, states)' /\ ~Cached(d, states)) \/ d = e =>
                  states'[d].root = root[LastSlot(d)] /\ LastSlot(d) <= head
      /\ Remade(rows, e)
      /\ \A d \in Dependencies(e) : Cached(d, states)'
      /\ \A x \in passes' : x \in passes \/ (x.limit = p.limit /\ x.todo = p.todo \ {e})
      /\ UNCHANGED <<chain, fin, handlers, lost, checked>>
  BY <1>1, ReprocessStep
<1>3. UNCHANGED <<root, head, checked, fin>> /\ failed \subseteq failed'
  BY <1>2 DEF chain, Remade
<1>4. LastSlot(e) <= head /\ head \in Int /\ head <= head
  BY <1>0, <1>2, ChainTypes
<1>5. \A d \in Epochs \ {e} : KnownRoots'[d] = KnownRoots[d]
  BY <1>2, <1>3 DEF KnownRoots, Cached
<1>6. RowsMatch' /\ RowsFilled'
  <2>1. Tables(rows) /\ Matching(rows, KnownRoots, failed, head) /\ Filled(rows, KnownRoots, failed, head)
    BY <1>0 DEF RowsMatch, RowsFilled, Shape
  <2>2. \A d \in Dependencies(e) : states'[d].root = KnownRoots'[d]
    <3>1. \A d \in Dependencies(e) : d \in Epochs
      BY <1>2, DependenciesBefore
    <3> QED
      BY <1>2, <3>1 DEF KnownRoots
  <2>3. Matching(rows', KnownRoots', failed', head) /\ Filled(rows', KnownRoots', failed', head)
    BY <1>2, <1>4, <1>5, <2>1, <2>2, RemadeRows
  <2> QED
    BY <1>3, <2>3 DEF RowsMatch, RowsFilled
<1>7. PassesVerify'
  <2>1. \A d \in Epochs : Verified(d) => Verified(d)'
    BY <1>2, <1>3 DEF Verified
  <2>2. Verified(e)'
    BY <1>2, <1>3 DEF Verified
  <2> QED
    BY <1>0, <1>2, <1>3, <2>1, <2>2, VerifiedStays
<1> QED
  BY <1>6, <1>7 DEF RowsInv

\* What a pass evicts it has verified.
LEMMA PassEndRows ==
    ASSUME ChainInv, RowsInv, NEW p \in passes, PassEnd(p)
    PROVE  RowsInv'
<1>0. Shape /\ RowsMatch /\ RowsFilled /\ PassesVerify
  BY DEF ChainInv, RowsInv
<1>1. /\ checked' \in {checked, p.limit}
      /\ \A d \in Epochs : states'[d] = IF Cached(d, states) /\ d < p.limit THEN NoState ELSE states[d]
      /\ p.todo = {} /\ passes' = passes \ {p}
      /\ UNCHANGED <<chain, fin, rows, handlers, lost, failed>>
  BY PassEndStep
<1>2. UNCHANGED <<root, head, failed, rows>>
  BY <1>1 DEF chain
<1>3. \A d \in Epochs : d < p.limit => Verified(d)
  BY <1>0, <1>1 DEF PassesVerify
<1>4. \A d \in Epochs : d \notin failed => KnownRoots'[d] = KnownRoots[d]
  BY <1>1, <1>2, <1>3 DEF KnownRoots, Cached, Verified, NoState
<1>5. RowsMatch' /\ RowsFilled'
  <2>1. head \in Int /\ head <= head
    BY <1>0, ChainTypes
  <2>2. Matching(rows, KnownRoots', failed, head)
    BY <1>0, <1>4, <2>1, MatchingSame DEF RowsMatch
  <2>3. Filled(rows, KnownRoots', failed, head)
    BY <1>0, <1>4, <2>1, FilledSame DEF RowsFilled
  <2> QED
    BY <1>2, <2>2, <2>3 DEF RowsMatch, RowsFilled
<1>6. PassesVerify'
  <2>1. \A d \in Epochs : Verified(d) => Verified(d)'
    BY <1>1, <1>2 DEF Verified, Cached, NoState
  <2>2. \A d \in Epochs : d < checked' => d < checked \/ d < p.limit
    BY <1>1
  <2> QED
    BY <1>0, <1>1, <2>1, <2>2, VerifiedStays
<1> QED
  BY <1>5, <1>6 DEF RowsInv

LEMMA WalkRows ==
    ASSUME ChainInv, RowsInv, NEW h \in handlers, HandleReorg(h)
    PROVE  RowsInv'
<1>0. Shape /\ RowsMatch /\ RowsFilled /\ PassesVerify
  BY DEF ChainInv, RowsInv
<1>1. PICK i : i = h.i
  OBVIOUS
<1>2. PICK e : e = EpochOf(i)
  OBVIOUS
<1> DEFINE r == BlockRewritten(i, [blocks EXCEPT ![i] = canon[i]])
<1>3. /\ i \in Slots /\ i <= head /\ e \in Epochs
      /\ \/ i # LastSlot(e) /\ states' = states
         \/ /\ i = LastSlot(e) /\ Cached(e, states)
            /\ states'[e].root = root[LastSlot(e)]
            /\ \A d \in Epochs \ {e} : states'[d] = states[d]
      /\ \/ (i = LastSlot(e) => ~RootChanged(e)) /\ rows' = r /\ failed' = failed
         \/ /\ i = LastSlot(e) /\ \A d \in Dependencies(e) : Cached(d, states)'
            /\ Remade(r, e)
      /\ \A d \in Epochs : Cached(d, states)' <=> Cached(d, states)
      /\ UNCHANGED <<chain, fin, passes, lost, checked>>
  BY <1>1, <1>2, HandleReorgStep
<1>4. UNCHANGED <<root, head, checked, fin, passes>> /\ failed \subseteq failed'
  BY <1>3 DEF chain, Remade
<1>5. head \in Int /\ head <= head
  BY <1>0, ChainTypes
<1>6. /\ Tables(r) /\ r.epoch = rows.epoch /\ r.duties = rows.duties /\ r.rewards = rows.rewards
      /\ r.others = rows.others
  BY <1>0 DEF Shape, Tables, BlockRewritten
<1> HIDE DEF r
<1>7. Matching(r, KnownRoots, failed, head) /\ Filled(r, KnownRoots, failed, head)
  <2>1. Matching(r, KnownRoots, failed, head)
    BY <1>0, <1>5, <1>6, MatchingSame DEF RowsMatch
  <2>2. Filled(r, KnownRoots, failed, head)
    BY <1>0, <1>5, <1>6, FilledSame DEF RowsFilled
  <2> QED
    BY <2>1, <2>2
<1>8. \A d \in Epochs \ {e} : KnownRoots'[d] = KnownRoots[d]
  BY <1>3, <1>4 DEF KnownRoots, Cached
<1>9. Matching(rows', KnownRoots', failed', head) /\ Filled(rows', KnownRoots', failed', head)
  <2>1. CASE (i = LastSlot(e) => ~RootChanged(e)) /\ rows' = r /\ failed' = failed
    <3>1. KnownRoots'[e] = KnownRoots[e]
      BY <1>3, <1>4, <2>1 DEF KnownRoots, Cached, RootChanged
    <3>2. \A d \in Epochs : KnownRoots'[d] = KnownRoots[d]
      BY <1>8, <3>1
    <3>3. Matching(r, KnownRoots', failed, head)
      BY <1>5, <1>7, <3>2, MatchingSame
    <3>4. Filled(r, KnownRoots', failed, head)
      BY <1>5, <1>7, <3>2, FilledSame
    <3> QED
      BY <2>1, <3>3, <3>4
  <2>2. CASE /\ i = LastSlot(e) /\ \A d \in Dependencies(e) : Cached(d, states)'
             /\ Remade(r, e)
    <3>1. \A d \in Dependencies(e) : states'[d].root = KnownRoots'[d]
      <4>1. \A d \in Dependencies(e) : d \in Epochs
        BY <1>3, DependenciesBefore
      <4> QED
        BY <2>2, <4>1 DEF KnownRoots
    <3>2. LastSlot(e) <= head
      BY <1>3, <2>2
    <3> QED
      BY <1>3, <1>5, <1>6, <1>7, <1>8, <2>2, <3>1, <3>2, RemadeRows
  <2> QED
    BY <1>3, <2>1, <2>2
<1>10. RowsMatch' /\ RowsFilled'
  BY <1>4, <1>9 DEF RowsMatch, RowsFilled
<1>11. PassesVerify'
  <2>1. \A d \in Epochs : Verified(d) => Verified(d)'
    <3> SUFFICES ASSUME NEW d \in Epochs, Verified(d) PROVE Verified(d)'
      OBVIOUS
    <3>1. states'[d] = states[d] \/ states'[d].root = root[LastSlot(d)]
      BY <1>3
    <3> QED
      BY <1>3, <1>4, <3>1 DEF Verified
  <2> QED
    BY <1>0, <1>4, <2>1 DEF PassesVerify
<1> QED
  BY <1>10, <1>11 DEF RowsInv

LEMMA RowsInvInit == ASSUME Init PROVE RowsInv
<1> DEFINE lastFilled == LastSlot(InitEpoch + 5)
<1>1. /\ head = lastFilled /\ lastFilled \in Slots /\ checked = 0
      /\ \A s \in Slots : /\ canon[s] = IF s <= lastFilled THEN 1 ELSE None
                          /\ root[s] = canon[s]
      /\ \A e \in Epochs : /\ states[e].root = IF e <= 5 THEN 1 ELSE None
                           /\ e <= 5 <=> LastSlot(e) <= lastFilled
      /\ passes = {} /\ failed = {}
      /\ \A e \in Epochs :
            /\ rows.epoch[e] = IF e \in 1..4 THEN {<<1, 1>>} ELSE NoRow
            /\ rows.duties[e] = IF e \in 2..5 THEN {<<1>>} ELSE NoRow
            /\ rows.rewards[e] = IF e \in 2..5 THEN {<<1, 1, 1>>} ELSE NoRow
            /\ rows.others[e] = IF e \in 2..5 THEN {<<1, 1, 1>>} ELSE NoRow
  BY Begin
<1> HIDE DEF lastFilled
<1>2. \A d \in Epochs : /\ d <= 5 => KnownRoots[d] = 1
                        /\ LastSlot(d) \in Slots /\ d \in Nat
                        /\ d > 0 => d - 1 \in Epochs
                        /\ d >= 2 => d - 2 \in Epochs
  <2>1. \A d \in Epochs : LastSlot(d) \in Slots /\ d \in Nat
    BY EpochsInRange
  <2>2. \A d \in Epochs : d <= 5 => KnownRoots[d] = 1
    BY <1>1, <2>1 DEF Cached, KnownRoots
  <2> QED
    BY <2>1, <2>2, Parameters
<1>3. RowsMatch
  <2> SUFFICES ASSUME NEW e \in Epochs
               PROVE  /\ e < 2 \/ LastSlot(e) > head =>
                            /\ rows.rewards[e] = NoRow /\ rows.duties[e] = NoRow
                            /\ e > 0 => rows.epoch[e - 1] = NoRow
                      /\ e >= 2 =>
                            /\ rows.rewards[e] \subseteq
                                   {<<KnownRoots[e - 2], KnownRoots[e - 1], KnownRoots[e]>>}
                            /\ rows.duties[e] \subseteq {<<KnownRoots[e]>>}
                            /\ rows.epoch[e - 1] \subseteq {<<KnownRoots[e - 1], KnownRoots[e]>>}
    BY DEF RowsMatch, Matching
  <2>1. e \in Nat /\ LastSlot(e) \in Nat
    BY EpochsInRange
  <2>2. CASE e \in 2..5
    <3>1. e - 1 \in 1..4 /\ e - 1 \in Epochs /\ e - 2 \in Epochs /\ e - 1 <= 5 /\ e - 2 <= 5 /\ e <= 5 /\ ~(e < 2)
      BY <1>2, <2>2
    <3>2. ~(LastSlot(e) > head)
      <4>1. LastSlot(e) <= head /\ head \in Nat
        BY <1>1, <3>1, EpochsInRange
      <4> QED
        BY <2>1, <4>1
    <3>3. KnownRoots[e] = 1 /\ KnownRoots[e - 1] = 1 /\ KnownRoots[e - 2] = 1
      BY <1>2, <3>1
    <3> QED
      BY <1>1, <2>2, <3>1, <3>2, <3>3
  <2>3. CASE e \notin 2..5
    <3>1. rows.rewards[e] = {} /\ rows.duties[e] = {}
      BY <1>1, <2>3 DEF NoRow
    <3>2. e > 0 => e - 1 \in Epochs /\ e - 1 \notin 1..4
      BY <1>2, <2>1, <2>3
    <3>3. e > 0 => rows.epoch[e - 1] = {}
      BY <1>1, <3>2 DEF NoRow
    <3> QED
      BY <2>1, <3>1, <3>3 DEF NoRow
  <2> QED
    BY <2>2, <2>3
<1>4. RowsFilled
  <2> SUFFICES ASSUME NEW e \in Epochs, 2 <= e, LastSlot(e) <= head
               PROVE  /\ <<KnownRoots[e]>> \in rows.duties[e]
                      /\ \E from \in rows.others[e] : from[3] = KnownRoots[e]
    BY DEF RowsFilled, Filled
  <2>1. e \in 2..5 /\ KnownRoots[e] = 1
    BY <1>1, <1>2
  <2>2. rows.duties[e] = {<<1>>} /\ rows.others[e] = {<<1, 1, 1>>} /\ <<1, 1, 1>>[3] = 1
    BY <1>1, <2>1
  <2> QED
    BY <2>1, <2>2
<1>5. PassesVerify
  <2>1. \A e \in Epochs : ~(e < 0)
    BY Parameters
  <2> QED
    BY <1>1, <2>1 DEF PassesVerify
<1> QED
  BY <1>3, <1>4, <1>5 DEF RowsInv

LEMMA RowsInvStep ==
    ASSUME ChainInv, RowsInv, [Next]_vars
    PROVE  RowsInv'
<1>1. CASE UNCHANGED vars
  BY <1>1 DEF RowsInv, RowsMatch, RowsFilled, PassesVerify, Verified, KnownRoots, Cached, vars
<1>2. CASE \E b \in {fork, Missed} : Follow(b)
  BY <1>2, FollowRows
<1>3. CASE \E a \in FirstSlot(fin)..(head - 1) :
               \E missed \in SUBSET ((a + 1)..(head - 1)) : ChainReorg(a, missed)
  BY <1>3, ReorgRows
<1>4. CASE \E f \in (fin + 1)..(EpochOf(head) - 2) : Finalize(f)
  BY <1>4, FinalizeRows
<1>5. CASE \E p \in passes : AdvanceFinalized(p)
  BY <1>5, VerifyRows, ReprocessRows, PassEndRows DEF AdvanceFinalized
<1>6. CASE \E h \in handlers : HandleReorg(h)
  BY <1>6, WalkRows
<1> QED
  BY <1>1, <1>2, <1>3, <1>4, <1>5, <1>6 DEF Next

\* Rows that match the known states of verified epochs are not stale.
LEMMA VerifiedRows == ASSUME ChainInv, RowsInv PROVE NoStaleRow
<1>0. Shape /\ ChainKnown /\ RowsMatch /\ RowsFilled /\ PassesVerify
  BY DEF ChainInv, RowsInv
<1> SUFFICES ASSUME NEW e \in (InitEpoch + 2)..(checked - 1), Dependencies(e) \intersect failed = {}
             PROVE  /\ rows.rewards[e] \subseteq
                           {<<root[LastSlot(e - 2)], root[LastSlot(e - 1)], root[LastSlot(e)]>>}
                    /\ rows.duties[e] \subseteq {<<root[LastSlot(e)]>>}
                    /\ rows.epoch[e - 1] \subseteq {<<root[LastSlot(e - 1)], root[LastSlot(e)]>>}
  BY DEF NoStaleRow
<1>1. checked \in Int /\ checked <= fin /\ fin \in Nat /\ fin <= MaxEpoch
  BY <1>0, ChainTypes, Parameters DEF Shape, ChainKnown
<1>2. e \in Nat /\ e >= 2 /\ e < checked
  BY <1>1, Parameters
<1>3. e \in Epochs /\ e - 1 \in Epochs /\ e - 2 \in Epochs
  BY <1>1, <1>2, Parameters
<1>4. Dependencies(e) = {e - 2, e - 1, e}
  BY <1>2, Parameters DEF Dependencies
<1>5. ASSUME NEW d \in {e - 2, e - 1, e} PROVE KnownRoots[d] = root[LastSlot(d)]
  <2>1. d < checked /\ d \in Epochs /\ d \notin failed
    BY <1>1, <1>2, <1>3, <1>4
  <2>2. Verified(d)
    BY <1>0, <2>1 DEF PassesVerify
  <2> QED
    BY <2>1, <2>2 DEF Verified, KnownRoots
<1>6. /\ rows.rewards[e] \subseteq {<<KnownRoots[e - 2], KnownRoots[e - 1], KnownRoots[e]>>}
      /\ rows.duties[e] \subseteq {<<KnownRoots[e]>>}
      /\ rows.epoch[e - 1] \subseteq {<<KnownRoots[e - 1], KnownRoots[e]>>}
  BY <1>0, <1>2, <1>3, <1>4 DEF RowsMatch, Matching
<1> QED
  BY <1>5, <1>6

\* And since they are filled, the final states of checked epochs were written.
LEMMA FilledRows == ASSUME ChainInv, RowsInv PROVE FinalStateWritten
<1>0. Shape /\ ChainKnown /\ RowsFilled /\ PassesVerify
  BY DEF ChainInv, RowsInv
<1> SUFFICES ASSUME NEW e \in ((InitEpoch + 2)..(checked - 1)) \ failed
             PROVE  /\ <<root[LastSlot(e)]>> \in rows.duties[e]
                    /\ \E from \in rows.others[e] : from[3] = root[LastSlot(e)]
  BY DEF FinalStateWritten
<1>1. checked \in Int /\ checked <= fin /\ fin \in Nat /\ fin <= MaxEpoch
  BY <1>0, ChainTypes, Parameters DEF Shape, ChainKnown
<1>2. e \in Epochs /\ 2 <= e /\ e < checked /\ e < fin /\ e \notin failed
  BY <1>1, Parameters
<1>3. LastSlot(e) <= head
  <2>1. LastSlot(e) < FirstSlot(fin) /\ LastSlot(e) \in Nat /\ FirstSlot(fin) \in Nat
    BY <1>2, FinalizedBelow
  <2>2. FirstSlot(fin) <= head /\ head \in Nat
    BY <1>0, ChainTypes DEF ChainKnown
  <2> QED
    BY <2>1, <2>2
<1>4. KnownRoots[e] = root[LastSlot(e)]
  <2>1. Verified(e)
    BY <1>0, <1>2 DEF PassesVerify
  <2> QED
    BY <1>2, <2>1 DEF Verified, KnownRoots
<1>5. <<KnownRoots[e]>> \in rows.duties[e] /\ \E from \in rows.others[e] : from[3] = KnownRoots[e]
  BY <1>0, <1>2, <1>3 DEF RowsFilled, Filled
<1> QED
  BY <1>4, <1>5

LEMMA RowsInvAlways == Spec => []RowsInv
<1>1. Init => RowsInv
  BY RowsInvInit
<1>2. ChainInv /\ RowsInv /\ [Next]_vars => RowsInv'
  BY RowsInvStep
<1> QED
  BY <1>1, <1>2, ChainInvAlways, PTL DEF Spec

\* In the tables that DeleteStateMetrics cleans no row of a checked epoch was
\* computed from a state of another fork, for any number of forks, passes and
\* walks at a time, reorgs announced or lost, wherever a delete stops: but for
\* the epochs of which a request or a delete has failed.
THEOREM CheckedRowsAreFinal == Spec => []NoStaleRow
<1>1. ChainInv /\ RowsInv => NoStaleRow
  BY VerifiedRows
<1> QED
  BY <1>1, ChainInvAlways, RowsInvAlways, PTL

\* And the duties of a checked epoch, with its rows in the tables that nothing
\* is deleted from, were computed from its final state, with the same exception:
\* ProcessStateTransition follows every DeleteStateMetrics, however far it gets.
THEOREM FinalStatesAreWritten == Spec => []FinalStateWritten
<1>1. ChainInv /\ RowsInv => FinalStateWritten
  BY FilledRows
<1> QED
  BY <1>1, ChainInvAlways, RowsInvAlways, PTL
-----------------------------------------------------------------------------
(* What the walks repair.                                                  *)

\* The slot of the common ancestor.
Ancestor(h) == h.slot - h.depth

\* A slot that a walk has still to come to.
Ahead(s) == \E h \in handlers : Ancestor(h) < s /\ s <= h.i

\* A walk counts no more blocks than slots, and takes less than two epochs.
Walks ==
    \A h \in handlers :
        /\ h.i <= h.slot /\ h.slot <= head
        /\ h.reorgedSlots = 0 \/ h.reorgedSlots < h.slot - h.i
        /\ fin <= h.since + 1 /\ FirstSlot(h.since) <= Ancestor(h)

\* What is not of the chain lies ahead of a walk.
RepairedBehind ==
    ~lost => \A s \in 0..head :
        /\ rows.block[s] = canon[s] \/ Ahead(s)
        /\ blocks[s] \in {None, canon[s]} \/ Ahead(s)
        /\ blocks[s] # None => rows.block[s] = blocks[s]

\* The orphans are off the chain, and no later fork brings one back.
OrphansOff ==
    \A o \in rows.orphans : o[1] \in 0..head /\ o[2] \in 1..fork /\ canon[o[1]] # o[2]

RepairInv == Walks /\ RepairedBehind /\ OrphansOff

LEMMA UpToHead ==
    ASSUME ChainInv
    PROVE  /\ head \in Nat /\ head + 1 \in Nat
           /\ \A s \in 0..head : s \in Slots /\ s \in Nat
           /\ \A h \in handlers : h \in Handler /\ h.i <= head
<1>1. Shape /\ ChainKnown
  BY DEF ChainInv
<1>2. head \in Nat /\ head <= LastSlot(MaxEpoch) /\ LastSlot(MaxEpoch) \in Nat
  BY <1>1, ChainTypes, EpochsInRange
<1>3. \A s \in 0..head : s \in Slots /\ s \in Nat
  BY <1>2 DEF Slots
<1> QED
  BY <1>1, <1>2, <1>3 DEF Shape, ChainKnown, Handler

LEMMA FollowRepaired ==
    ASSUME ChainInv, RepairInv, NEW b \in {fork, Missed}, Follow(b)
    PROVE  RepairInv'
<1> DEFINE s == head + 1
           e == EpochOf(s)
           written == [rows EXCEPT !.block[s] = b]
<1>0. Shape /\ Walks /\ RepairedBehind /\ OrphansOff
  BY DEF ChainInv, RepairInv
<1>1. s \in Slots /\ s \in Nat /\ head \in Nat /\ e \in Epochs
  <2>1. s \in Slots
    BY DEF Follow
  <2> QED
    BY <2>1, UpToHead, EpochsInRange
<1>2. /\ head' = s /\ canon' = [canon EXCEPT ![s] = b] /\ blocks' = [blocks EXCEPT ![s] = b]
      /\ rows' = written \/ \E st : rows' = ProcessStateTransition(written, e, st)
      /\ UNCHANGED <<fork, fin, passes, handlers, lost>>
  BY DEF Follow, history
<1>3. Tables(written) /\ written.block = [rows.block EXCEPT ![s] = b] /\ written.orphans = rows.orphans
  BY <1>0 DEF Shape, Tables
<1> HIDE DEF s, e, written
<1>4. rows'.block = [rows.block EXCEPT ![s] = b] /\ rows'.orphans = rows.orphans
  <2>1. CASE rows' = written
    BY <1>3, <2>1
  <2>2. CASE \E st : rows' = ProcessStateTransition(written, e, st)
    <3>1. PICK st : rows' = ProcessStateTransition(written, e, st)
      BY <2>2
    <3>2. rows'.block = written.block /\ rows'.orphans = written.orphans
      BY <1>1, <1>3, <3>1, RowsWritten
    <3> QED
      BY <1>3, <3>2
  <2> QED
    BY <1>2, <2>1, <2>2
<1>5. \A t \in 0..s : t \in Slots /\ (t = s \/ t \in 0..head)
  BY <1>1, UpToHead DEF s
<1>6. \A t \in 0..head : t # s /\ t \in 0..s
  BY <1>1 DEF s
<1>7. \A t \in Slots : /\ canon'[t] = (IF t = s THEN b ELSE canon[t])
                       /\ blocks'[t] = (IF t = s THEN b ELSE blocks[t])
                       /\ rows'.block[t] = (IF t = s THEN b ELSE rows.block[t])
  BY <1>0, <1>2, <1>4 DEF Shape, Tables
<1>8. Walks'
  <2>1. \A h \in handlers : h.slot <= s
    <3>1. \A h \in handlers : h.slot \in Nat /\ h.slot <= head
      BY <1>0, UpToHead, EpochsInRange DEF Walks, Handler
    <3> QED
      BY <1>1, <3>1 DEF s
  <2> QED
    BY <1>0, <1>2, <2>1 DEF Walks, Ancestor
<1>9. RepairedBehind'
  BY <1>0, <1>1, <1>2, <1>5, <1>7 DEF RepairedBehind, Ahead, Ancestor
<1>10. OrphansOff'
  BY <1>0, <1>2, <1>4, <1>5, <1>6, <1>7 DEF OrphansOff
<1> QED
  BY <1>8, <1>9, <1>10 DEF RepairInv

\* All that a reorg changes is ahead of the walk it starts, and what was ahead
\* of another walk still is; or the reorg is lost.
LEMMA ReorgRepairs ==
    ASSUME ChainInv, RepairInv, NEW a \in FirstSlot(fin)..(head - 1), NEW missed, ChainReorg(a, missed)
    PROVE  RepairInv'
<1>0. Shape /\ Walks /\ RepairedBehind /\ OrphansOff
  BY DEF ChainInv, RepairInv
<1>1. /\ fork' = fork + 1 /\ UNCHANGED <<head, fin, blocks, rows>>
      /\ \/ /\ handlers' = handlers \union
                   {[of |-> fork', slot |-> head, depth |-> head - a, i |-> head,
                     reorgedSlots |-> 0, since |-> fin]}
            /\ lost' = lost
         \/ lost' = TRUE /\ handlers' = handlers
  BY DEF ChainReorg, cache
<1>2. /\ head \in Nat /\ fork \in Nat /\ a \in Nat /\ a < head
      /\ fin \in Nat /\ FirstSlot(fin) <= a
      /\ \A s \in Slots : /\ s <= a => canon'[s] = canon[s]
                          /\ canon'[s] \in {canon[s], Missed, fork'}
  <2>1. head \in Nat /\ fork \in Nat /\ fin \in Nat /\ FirstSlot(fin) \in Nat
    BY <1>0, ChainTypes, EpochsInRange DEF Shape
  <2>2. FirstSlot(fin) <= a
    BY <2>1
  <2> QED
    BY <2>1, <2>2, ReorgStep
<1>3. OrphansOff'
  <2> SUFFICES ASSUME NEW o \in rows.orphans
               PROVE  o[1] \in 0..head /\ o[2] \in 1..fork' /\ canon'[o[1]] # o[2]
    BY <1>1 DEF OrphansOff
  <2>1. o[1] \in 0..head /\ o[2] \in 1..fork /\ canon[o[1]] # o[2]
    BY <1>0 DEF OrphansOff
  <2>2. o[1] \in Slots
    BY <2>1, UpToHead
  <2>3. o[2] # Missed /\ o[2] # fork' /\ o[2] \in 1..fork'
    BY <1>1, <1>2, <2>1, Parameters
  <2> QED
    BY <1>2, <2>1, <2>2, <2>3
<1>4. CASE lost' = TRUE /\ handlers' = handlers
  <2>1. Walks' /\ RepairedBehind'
    BY <1>0, <1>1, <1>4 DEF Walks, RepairedBehind, Ancestor
  <2> QED
    BY <1>3, <2>1 DEF RepairInv
<1>5. CASE /\ handlers' = handlers \union
                   {[of |-> fork', slot |-> head, depth |-> head - a, i |-> head,
                     reorgedSlots |-> 0, since |-> fin]}
           /\ lost' = lost
  <2>0. PICK h : h = [of |-> fork', slot |-> head, depth |-> head - a, i |-> head,
                      reorgedSlots |-> 0, since |-> fin]
    OBVIOUS
  <2>1. /\ handlers' = handlers \union {h}
        /\ h.i = head /\ h.slot = head /\ h.reorgedSlots = 0 /\ h.since = fin
        /\ Ancestor(h) = a
    BY <1>2, <1>5, <2>0 DEF Ancestor
  <2>2. Walks'
    <3>1. h.i <= h.slot /\ h.slot <= head /\ fin <= h.since + 1 /\ FirstSlot(h.since) <= Ancestor(h)
      BY <1>2, <2>1
    <3>2. \A x \in handlers' : x \in handlers \/ x = h
      BY <2>1
    <3> QED
      BY <1>0, <1>1, <2>1, <3>1, <3>2 DEF Walks, Ancestor
  <2>3. RepairedBehind'
    <3> SUFFICES ASSUME ~lost, NEW s \in 0..head
                 PROVE  /\ rows.block[s] = canon'[s] \/ Ahead(s)'
                        /\ blocks[s] \in {None, canon'[s]} \/ Ahead(s)'
                        /\ blocks[s] # None => rows.block[s] = blocks[s]
      BY <1>1, <1>5 DEF RepairedBehind
    <3>1. /\ rows.block[s] = canon[s] \/ Ahead(s)
          /\ blocks[s] \in {None, canon[s]} \/ Ahead(s)
          /\ blocks[s] # None => rows.block[s] = blocks[s]
      BY <1>0 DEF RepairedBehind
    <3>2. s \in Slots /\ s \in Nat /\ s <= head
      BY <1>2, UpToHead
    <3>3. s <= a => canon'[s] = canon[s]
      BY <1>2, <3>2
    <3>4. ~(s <= a) => Ahead(s)'
      <4>1. ~(s <= a) => a < s
        BY <1>2, <3>2
      <4> QED
        BY <2>1, <3>2, <4>1 DEF Ahead, Ancestor
    <3>5. Ahead(s) => Ahead(s)'
      BY <2>1 DEF Ahead, Ancestor
    <3> QED
      BY <3>1, <3>3, <3>4, <3>5
  <2> QED
    BY <1>3, <2>2, <2>3 DEF RepairInv
<1> QED
  BY <1>1, <1>4, <1>5

LEMMA FinalizeRepaired ==
    ASSUME ChainInv, RepairInv, NEW f, Finalize(f)
    PROVE  RepairInv'
BY DEF Finalize, RepairInv, Walks, RepairedBehind, OrphansOff, Ahead, Ancestor, chain, cache, history

\* What has been evicted lies below the ancestor of every walk.
LEMMA NoneBelow ==
    ASSUME ChainInv, Walks, KeepEpochs >= 1, NEW s \in 0..head, blocks[s] = None,
           NEW h \in handlers
    PROVE  ~(Ancestor(h) < s)
<1>0. Shape /\ CacheNearHead
  BY DEF ChainInv
<1>1. s \in Slots /\ s \in Nat /\ s <= head /\ EpochOf(s) \in Epochs /\ EpochOf(s) \in Nat
      /\ s <= LastSlot(EpochOf(s)) /\ LastSlot(EpochOf(s)) \in Nat
  BY UpToHead, EpochsInRange, EpochAround
<1>2. EpochOf(s) < fin - KeepEpochs
  BY <1>0, <1>1 DEF CacheNearHead
<1>3. h \in Handler /\ fin <= h.since + 1 /\ FirstSlot(h.since) <= Ancestor(h)
  BY UpToHead DEF Walks
<1>4. h.since \in Nat /\ h.slot \in Nat /\ h.depth \in Nat /\ fin \in Nat
      /\ FirstSlot(h.since) \in Nat
  BY <1>0, <1>3, ChainTypes, EpochsInRange DEF Handler
<1>5. EpochOf(s) < h.since
  BY <1>1, <1>2, <1>3, <1>4, Parameters
<1>6. LastSlot(EpochOf(s)) < FirstSlot(h.since)
  BY <1>1, <1>4, <1>5, EpochsApart
<1>7. Ancestor(h) \in Int
  BY <1>4 DEF Ancestor
<1> QED
  BY <1>1, <1>3, <1>4, <1>6, <1>7

\* What a pass writes is what is there, what it downloads lies below every walk.
LEMMA AdvanceRepaired ==
    ASSUME ChainInv, RepairInv, KeepEpochs >= 1, NEW p \in passes, AdvanceFinalized(p)
    PROVE  RepairInv'
<1>0. Shape /\ ChainKnown /\ CacheNearHead /\ Walks /\ RepairedBehind /\ OrphansOff
  BY DEF ChainInv, RepairInv
<1>1. CASE VerifyBlocks(p)
  <2>1. UNCHANGED <<canon, fork, head, fin, blocks, handlers, lost>>
    BY <1>1 DEF VerifyBlocks, chain, history
  <2>2. rows'.orphans = rows.orphans
        /\ \A s \in Slots : rows'.block[s] = rows.block[s] \/
               (rows'.block[s] = blocks[s] /\ blocks[s] # None)
    <3> DEFINE e == Min(p.todo)
    <3>1. /\ BlocksThere(e, blocks)
          /\ rows' = [rows EXCEPT !.block = [s \in Slots |->
                     IF s \in {t \in SlotsOf(e) : blocks[t] # canon[t]} THEN blocks[s] ELSE @[s]]]
      BY <1>1 DEF VerifyBlocks
    <3> HIDE DEF e
    <3> QED
      BY <1>0, <3>1 DEF Shape, Tables, BlocksThere
  <2>3. ~lost => \A s \in 0..head : rows'.block[s] = rows.block[s]
    BY <1>0, <2>2, UpToHead DEF RepairedBehind
  <2>4. RepairedBehind'
    BY <1>0, <2>1, <2>3 DEF RepairedBehind, Ahead, Ancestor
  <2> QED
    BY <1>0, <2>1, <2>2, <2>4 DEF RepairInv, Walks, OrphansOff, Ancestor
<1>2. CASE VerifyStateSame(p) \/ VerifyStateSkipped(p)
  <2>1. UNCHANGED <<canon, fork, head, fin, blocks, rows, handlers, lost>>
    BY <1>2, VerifyStateStep DEF chain, cache
  <2> QED
    BY <1>0, <2>1 DEF RepairInv, Walks, RepairedBehind, OrphansOff, Ahead, Ancestor
<1>3. CASE Reprocess(p)
  <2>1. PICK e : e = Min(p.todo)
    OBVIOUS
  <2>2. /\ e \in Epochs
        /\ \A s \in Slots : blocks'[s] = blocks[s] \/ (blocks[s] = None /\ blocks'[s] = canon[s])
        /\ Remade(rows, e)
        /\ UNCHANGED <<chain, fin, handlers, lost, checked>>
    BY <1>3, <2>1, ReprocessStep
  <2>3. UNCHANGED <<canon, fork, head, fin, handlers, lost>>
    BY <2>2 DEF chain
  <2>4. rows'.block = rows.block /\ rows'.orphans = rows.orphans
    BY <1>0, <2>2, RemadeTables DEF Shape
  <2>5. ASSUME NEW s \in 0..head, blocks[s] = None PROVE ~Ahead(s)
    BY <1>0, <2>5, NoneBelow DEF Ahead
  <2>6. RepairedBehind'
    <3> SUFFICES ASSUME ~lost, NEW s \in 0..head
                 PROVE  /\ rows.block[s] = canon[s] \/ Ahead(s)
                        /\ blocks'[s] \in {None, canon[s]} \/ Ahead(s)
                        /\ blocks'[s] # None => rows.block[s] = blocks'[s]
      BY <2>3, <2>4 DEF RepairedBehind, Ahead, Ancestor
    <3>1. /\ rows.block[s] = canon[s] \/ Ahead(s)
          /\ blocks[s] \in {None, canon[s]} \/ Ahead(s)
          /\ blocks[s] # None => rows.block[s] = blocks[s]
      BY <1>0 DEF RepairedBehind
    <3>2. blocks'[s] = blocks[s] \/ (blocks[s] = None /\ blocks'[s] = canon[s])
      BY <2>2, UpToHead
    <3> QED
      BY <2>5, <3>1, <3>2
  <2> QED
    BY <1>0, <2>3, <2>4, <2>6 DEF RepairInv, Walks, OrphansOff, Ancestor
<1>4. CASE PassEnd(p)
  <2>1. /\ \A s \in Slots : blocks'[s] \in {None, blocks[s]}
        /\ UNCHANGED <<chain, fin, rows, handlers, lost, failed>>
    BY <1>4, PassEndStep
  <2>2. UNCHANGED <<canon, fork, head, fin, rows, handlers, lost>>
    BY <2>1 DEF chain
  <2>3. RepairedBehind'
    <3> SUFFICES ASSUME ~lost, NEW s \in 0..head
                 PROVE  /\ rows.block[s] = canon[s] \/ Ahead(s)
                        /\ blocks'[s] \in {None, canon[s]} \/ Ahead(s)
                        /\ blocks'[s] # None => rows.block[s] = blocks'[s]
      BY <2>2 DEF RepairedBehind, Ahead, Ancestor
    <3>1. blocks'[s] \in {None, blocks[s]}
      BY <2>1, UpToHead
    <3> QED
      BY <1>0, <3>1 DEF RepairedBehind
  <2> QED
    BY <1>0, <2>2, <2>3 DEF RepairInv, Walks, OrphansOff, Ancestor
<1> QED
  BY <1>1, <1>2, <1>3, <1>4 DEF AdvanceFinalized

\* A walk goes on until it has counted more blocks than the reorg is deep, and
\* is then below the ancestor.
LEMMA WalkedOn ==
    ASSUME ChainInv, Walks, NEW h \in handlers
    PROVE  /\ Walked(h) # {} => \E x : /\ Walked(h) = {x} /\ x.i = h.i - 1
                                       /\ x.slot = h.slot /\ x.depth = h.depth /\ x.since = h.since
                                       /\ x.reorgedSlots = 0 \/ x.reorgedSlots < x.slot - x.i
           /\ Walked(h) = {} => h.i <= Ancestor(h)
<1> DEFINE n == IF h.i < h.slot /\ blocks[h.i] # Missed THEN h.reorgedSlots + 1 ELSE h.reorgedSlots
           x == [h EXCEPT !.i = @ - 1, !.reorgedSlots = n]
<1>1. h \in Handler /\ h.i <= h.slot /\ (h.reorgedSlots = 0 \/ h.reorgedSlots < h.slot - h.i)
  BY UpToHead DEF Walks
<1>2. h.i \in Int /\ h.slot \in Nat /\ h.depth \in Nat /\ h.reorgedSlots \in Nat
  BY <1>1, EpochsInRange DEF Handler
<1>3. Walked(h) = IF n <= h.depth THEN {x} ELSE {}
  BY DEF Walked
<1>4. n \in Nat /\ (n = 0 \/ n <= h.slot - h.i)
  BY <1>1, <1>2
<1> HIDE DEF n
<1>5. /\ x.i = h.i - 1 /\ x.slot = h.slot /\ x.depth = h.depth /\ x.since = h.since
      /\ x.reorgedSlots = n
  BY <1>1 DEF Handler
<1> HIDE DEF x
<1>6. x.reorgedSlots = 0 \/ x.reorgedSlots < x.slot - x.i
  BY <1>2, <1>4, <1>5
<1>7. ~(n <= h.depth) => h.i <= Ancestor(h)
  BY <1>2, <1>4 DEF Ancestor
<1> QED
  BY <1>3, <1>5, <1>6, <1>7

\* A walk takes nothing but its slot off what is ahead of it.
LEMMA AheadStays ==
    ASSUME ChainInv, Walks, NEW h \in handlers, handlers' = (handlers \ {h}) \union Walked(h),
           NEW s \in Nat, Ahead(s), s # h.i
    PROVE  Ahead(s)'
<1>1. PICK g \in handlers : Ancestor(g) < s /\ s <= g.i
  BY DEF Ahead
<1>2. CASE g # h
  <2>1. g \in handlers'
    BY <1>2
  <2> QED
    BY <1>1, <2>1 DEF Ahead, Ancestor
<1>3. CASE g = h
  <2>1. h.i \in Int /\ Ancestor(h) \in Int
    <3>1. h.i \in Int /\ h.slot \in Nat /\ h.depth \in Nat
      BY UpToHead, EpochsInRange DEF Handler
    <3> QED
      BY <3>1 DEF Ancestor
  <2>2. ~(h.i <= Ancestor(h)) /\ s <= h.i - 1
    BY <1>1, <1>3, <2>1
  <2>3. PICK x : Walked(h) = {x} /\ x.i = h.i - 1 /\ x.slot = h.slot /\ x.depth = h.depth
    BY <2>2, WalkedOn
  <2>4. x \in handlers' /\ Ancestor(x) < s /\ s <= x.i
    BY <1>1, <1>3, <2>2, <2>3 DEF Ancestor
  <2> QED
    BY <2>4 DEF Ahead, Ancestor
<1> QED
  BY <1>2, <1>3

LEMMA WalkRepairs ==
    ASSUME ChainInv, RepairInv, NEW h \in handlers, HandleReorg(h)
    PROVE  RepairInv'
<1>0. Shape /\ Walks /\ RepairedBehind /\ OrphansOff
  BY DEF ChainInv, RepairInv
<1>1. PICK i : i = h.i
  OBVIOUS
<1>2. PICK e : e = EpochOf(i)
  OBVIOUS
<1> DEFINE r == BlockRewritten(i, [blocks EXCEPT ![i] = canon[i]])
<1>3. /\ i \in Slots /\ i <= head /\ e \in Epochs
      /\ blocks[i] # None /\ canon[i] # None
      /\ \A s \in Slots : blocks'[s] = IF s = i THEN canon[i] ELSE blocks[s]
      /\ \/ rows' = r
         \/ Remade(r, e)
      /\ handlers' = (handlers \ {h}) \union Walked(h)
      /\ UNCHANGED <<chain, fin, passes, lost, checked>>
  BY <1>1, <1>2, HandleReorgStep
<1>4. UNCHANGED <<canon, fork, head, fin, lost>>
  BY <1>3 DEF chain
<1>6. h \in Handler /\ i \in Nat /\ i \in 0..head /\ head \in Nat
  BY <1>3, UpToHead, EpochsInRange
<1>7. /\ Tables(r)
      /\ \A s \in Slots : r.block[s] = IF s = i /\ blocks[i] # canon[i] THEN canon[i] ELSE rows.block[s]
      /\ r.orphans = rows.orphans
         \/ (/\ r.orphans = rows.orphans \union {<<i, blocks[i]>>}
             /\ blocks[i] # canon[i] /\ blocks[i] # Missed)
  BY <1>0, <1>3 DEF BlockRewritten, Shape, Tables
<1> HIDE DEF r
<1>8. rows'.block = r.block /\ rows'.orphans = r.orphans
  <2>1. CASE rows' = r
    BY <2>1
  <2>2. CASE Remade(r, e)
    BY <1>3, <1>7, <2>2, RemadeTables
  <2> QED
    BY <1>3, <2>1, <2>2
<1>9. Walks'
  <2> SUFFICES ASSUME NEW y \in Walked(h)
               PROVE  /\ y.i <= y.slot /\ y.slot <= head
                      /\ y.reorgedSlots = 0 \/ y.reorgedSlots < y.slot - y.i
                      /\ fin <= y.since + 1 /\ FirstSlot(y.since) <= Ancestor(y)
    BY <1>0, <1>3, <1>4 DEF Walks, Ancestor
  <2>1. PICK x : /\ Walked(h) = {x} /\ x.i = h.i - 1
                 /\ x.slot = h.slot /\ x.depth = h.depth /\ x.since = h.since
                 /\ x.reorgedSlots = 0 \/ x.reorgedSlots < x.slot - x.i
    BY <1>0, WalkedOn
  <2>2. h.i <= h.slot /\ h.slot <= head /\ fin <= h.since + 1 /\ FirstSlot(h.since) <= Ancestor(h)
    BY <1>0 DEF Walks
  <2>3. x.i <= x.slot
    <3>1. h.i \in Int /\ h.slot \in Nat
      BY <1>6, EpochsInRange DEF Handler
    <3> QED
      BY <2>1, <2>2, <3>1
  <2>4. y = x
    BY <2>1
  <2> QED
    BY <2>1, <2>2, <2>3, <2>4 DEF Ancestor
<1>10. ASSUME NEW s \in 0..head, Ahead(s), s # i PROVE Ahead(s)'
  BY <1>0, <1>1, <1>3, <1>6, <1>10, AheadStays
<1>11. RepairedBehind'
  <2> SUFFICES ASSUME ~lost, NEW s \in 0..head
               PROVE  /\ rows'.block[s] = canon[s] \/ Ahead(s)'
                      /\ blocks'[s] \in {None, canon[s]} \/ Ahead(s)'
                      /\ blocks'[s] # None => rows'.block[s] = blocks'[s]
    BY <1>4 DEF RepairedBehind
  <2>1. /\ rows.block[s] = canon[s] \/ Ahead(s)
        /\ blocks[s] \in {None, canon[s]} \/ Ahead(s)
        /\ blocks[s] # None => rows.block[s] = blocks[s]
    BY <1>0 DEF RepairedBehind
  <2>2. s \in Slots
    BY UpToHead
  <2>3. CASE s = i
    BY <1>3, <1>7, <1>8, <2>1, <2>2, <2>3
  <2>4. CASE s # i
    BY <1>3, <1>7, <1>8, <1>10, <2>1, <2>2, <2>4
  <2> QED
    BY <2>3, <2>4
<1>12. OrphansOff'
  <2>1. blocks[i] # canon[i] /\ blocks[i] # Missed => blocks[i] \in 1..fork
    <3>1. blocks[i] \in -1..fork /\ fork \in Nat
      BY <1>0, <1>3, ChainTypes
    <3> QED
      BY <1>3, <3>1, Parameters
  <2>2. ASSUME NEW o \in rows'.orphans
        PROVE  o[1] \in 0..head /\ o[2] \in 1..fork /\ canon[o[1]] # o[2]
    <3>1. CASE o \in rows.orphans
      BY <1>0, <3>1 DEF OrphansOff
    <3>2. CASE o \notin rows.orphans
      <4>1. o = <<i, blocks[i]>> /\ blocks[i] # canon[i] /\ blocks[i] # Missed
        BY <1>7, <1>8, <2>2, <3>2
      <4> QED
        BY <1>6, <2>1, <4>1
    <3> QED
      BY <3>1, <3>2
  <2> QED
    BY <1>4, <2>2 DEF OrphansOff
<1> QED
  BY <1>9, <1>11, <1>12 DEF RepairInv

LEMMA RepairInvInit == ASSUME Init PROVE RepairInv
<1> DEFINE lastFilled == LastSlot(InitEpoch + 5)
<1>1. /\ \A s \in Slots : blocks[s] = canon[s]
      /\ handlers = {} /\ rows.block = canon /\ rows.orphans = {}
  BY Begin
<1>2. \A s \in 0..head : s \in Slots
  BY ChainInvInit, UpToHead
<1> QED
  BY <1>1, <1>2 DEF RepairInv, Walks, RepairedBehind, OrphansOff

LEMMA RepairInvStep ==
    ASSUME ChainInv, RepairInv, KeepEpochs >= 1, [Next]_vars
    PROVE  RepairInv'
<1>1. CASE UNCHANGED vars
  BY <1>1 DEF RepairInv, Walks, RepairedBehind, OrphansOff, Ahead, Ancestor, vars
<1>2. CASE \E b \in {fork, Missed} : Follow(b)
  BY <1>2, FollowRepaired
<1>3. CASE \E a \in FirstSlot(fin)..(head - 1) :
               \E missed \in SUBSET ((a + 1)..(head - 1)) : ChainReorg(a, missed)
  BY <1>3, ReorgRepairs
<1>4. CASE \E f \in (fin + 1)..(EpochOf(head) - 2) : Finalize(f)
  BY <1>4, FinalizeRepaired
<1>5. CASE \E p \in passes : AdvanceFinalized(p)
  BY <1>5, AdvanceRepaired
<1>6. CASE \E h \in handlers : HandleReorg(h)
  BY <1>6, WalkRepairs
<1> QED
  BY <1>1, <1>2, <1>3, <1>4, <1>5, <1>6 DEF Next

\* Every announced reorg is repaired, however deep and however its walk meets
\* others, if at least one epoch below the finalized one is kept: what a pass
\* evicts is then below every walk.
THEOREM AnnouncedReorgsAreRepaired == ASSUME KeepEpochs >= 1 PROVE Spec => []ReorgRepaired
<1>1. Init => RepairInv
  BY RepairInvInit
<1>2. ChainInv /\ RepairInv /\ [Next]_vars => RepairInv'
  BY RepairInvStep
<1>3. RepairInv => ReorgRepaired
  BY DEF RepairInv, RepairedBehind, OrphansOff, ReorgRepaired, Ahead
<1> QED
  BY <1>1, <1>2, <1>3, ChainInvAlways, PTL DEF Spec
-----------------------------------------------------------------------------
(* What a pass waits for.                                                  *)

\* One pass at a time, and what it has still to do is cached.
OnePass ==
    /\ passes = {} \/ \E p \in passes : passes = {p}
    /\ \A p \in passes : \A e \in p.todo : Cached(e, states)

\* The cache keeps what the pass has to do while the pass stays or moves on.
LEMMA OnePassStays ==
    ASSUME Shape, OnePass,
           \A d \in Epochs : Cached(d, states) => Cached(d, states)',
           \/ passes' = passes
           \/ \E p \in passes : \E q : Moved(p, q) /\ q.todo \subseteq p.todo
    PROVE  OnePass'
<1>1. \A p \in passes : p.todo \subseteq Epochs
  BY DEF Shape
<1>2. CASE passes' = passes
  BY <1>1, <1>2 DEF OnePass
<1>3. CASE \E p \in passes : \E q : Moved(p, q) /\ q.todo \subseteq p.todo
  <2>0. PICK p \in passes : \E q : Moved(p, q) /\ q.todo \subseteq p.todo
    BY <1>3
  <2>1. PICK q : Moved(p, q) /\ q.todo \subseteq p.todo
    BY <2>0
  <2>2. passes = {p}
    BY DEF OnePass
  <2>3. passes' = {q}
    BY <2>1, <2>2 DEF Moved
  <2> QED
    BY <1>1, <2>1, <2>3 DEF OnePass
<1> QED
  BY <1>2, <1>3

LEMMA OnePassStep ==
    ASSUME MaxPasses = 1, ChainInv, OnePass, [Next]_vars
    PROVE  OnePass'
<1>0. Shape
  BY DEF ChainInv
<1>1. CASE UNCHANGED vars
  BY <1>1 DEF OnePass, Cached, vars
<1>2. ASSUME NEW b \in {fork, Missed}, Follow(b) PROVE OnePass'
  <2> DEFINE e == EpochOf(head + 1)
  <2>1. /\ passes' = passes /\ fork # None
        /\ states' = states \/ \E bl : states' = [states EXCEPT ![e] = [root |-> fork, blocks |-> bl]]
    <3> DEFINE bs == [blocks EXCEPT ![head + 1] = b]
               bl == [t \in SlotsOf(e) |-> bs[t]]
    <3>1. passes' = passes /\ (states' = states
              \/ states' = [states EXCEPT ![e] = [root |-> fork, blocks |-> bl]])
      BY <1>2 DEF Follow
    <3>2. fork # None
      BY <1>0, ChainTypes, Parameters
    <3> HIDE DEF bl, e
    <3> QED
      BY <3>1, <3>2
  <2> HIDE DEF e
  <2>2. \A d \in Epochs : Cached(d, states) => Cached(d, states)'
    BY <1>0, <2>1 DEF Cached, Shape
  <2> QED
    BY <1>0, <2>1, <2>2, OnePassStays
<1>3. ASSUME NEW a, NEW missed, ChainReorg(a, missed) PROVE OnePass'
  BY <1>3 DEF ChainReorg, cache, OnePass, Cached
<1>4. ASSUME NEW f, Finalize(f) PROVE OnePass'
  <2> DEFINE q == [limit |-> f - KeepEpochs,
                   todo |-> {e \in Epochs : Cached(e, states) /\ e < f - KeepEpochs},
                   changed |-> {}, at |-> "blocks"]
  <2>1. Cardinality(passes) < 1 /\ passes' = passes \union {q} /\ states' = states
    BY <1>4 DEF Finalize, cache
  <2>2. \A e \in q.todo : Cached(e, states)
    OBVIOUS
  <2> HIDE DEF q
  <2>3. passes = {}
    <3>1. ASSUME NEW p \in passes, passes = {p} PROVE FALSE
      <4>1. Cardinality({p}) = 1
        BY FS_Singleton
      <4> QED
        BY <2>1, <3>1, <4>1
    <3> QED
      BY <3>1 DEF OnePass
  <2> QED
    BY <2>1, <2>2, <2>3 DEF OnePass, Cached
<1>5. ASSUME NEW p \in passes, AdvanceFinalized(p) PROVE OnePass'
  <2>1. CASE VerifyBlocks(p)
    <3> DEFINE q1 == [p EXCEPT !.at = "state"]
               q2 == [p EXCEPT !.at = "state", !.changed = @ \union {Min(p.todo)}]
    <3>1. Moved(p, q1) \/ Moved(p, q2)
      BY <2>1 DEF VerifyBlocks
    <3>2. q1.todo = p.todo /\ q2.todo = p.todo
      BY <1>0 DEF Shape
    <3>3. \A d \in Epochs : Cached(d, states) => Cached(d, states)'
      BY <2>1, VerifyBlocksStep DEF Cached
    <3> HIDE DEF q1, q2
    <3> QED
      BY <1>0, <3>1, <3>2, <3>3, OnePassStays
  <2>2. CASE VerifyStateSame(p) \/ VerifyStateSkipped(p)
    <3>1. Moved(p, Done(p)) /\ p.todo # {} /\ states' = states
      BY <2>2 DEF VerifyStateSame, VerifyStateSkipped, cache
    <3>2. Done(p).todo \subseteq p.todo
      BY <1>0, <3>1, PassDone
    <3>3. \A d \in Epochs : Cached(d, states) => Cached(d, states)'
      BY <3>1 DEF Cached
    <3> QED
      BY <1>0, <3>1, <3>2, <3>3, OnePassStays
  <2>3. CASE Reprocess(p)
    <3>1. /\ p.todo # {} /\ Moved(p, Done(p))
          /\ \A d \in Epochs : Cached(d, states) => Cached(d, states)'
      BY <2>3, ReprocessStep
    <3>2. Done(p).todo \subseteq p.todo
      BY <1>0, <3>1, PassDone
    <3> QED
      BY <1>0, <3>1, <3>2, OnePassStays
  <2>4. CASE PassEnd(p)
    <3>1. passes' = passes \ {p}
      BY <2>4 DEF PassEnd
    <3>2. passes' = {}
      BY <3>1 DEF OnePass
    <3> QED
      BY <3>2 DEF OnePass
  <2> QED
    BY <1>5, <2>1, <2>2, <2>3, <2>4 DEF AdvanceFinalized
<1>6. ASSUME NEW h \in handlers, HandleReorg(h) PROVE OnePass'
  <2>1. passes' = passes /\ \A d \in Epochs : Cached(d, states) => Cached(d, states)'
    BY <1>6, HandleReorgStep
  <2> QED
    BY <1>0, <2>1, OnePassStays
<1> QED
  BY <1>1, <1>2, <1>3, <1>4, <1>5, <1>6 DEF Next

\* A pass finds all that it needs: the epoch that it is at with its blocks, and
\* the states that reprocessing reads, downloaded anew where they were evicted.
THEOREM APassIsNotBlocked == ASSUME MaxPasses = 1 PROVE Spec => []PassNotBlocked
<1>1. Init => OnePass
  BY DEF Init, OnePass
<1>2. ChainInv /\ OnePass /\ [Next]_vars => OnePass'
  BY OnePassStep
<1>3. ASSUME ChainInv, OnePass PROVE PassNotBlocked
  <2> SUFFICES ASSUME NEW p \in passes, p.todo # {}, NEW e, e = Min(p.todo)
               PROVE  /\ Cached(e, states) /\ BlocksThere(e, blocks)
                      /\ \A d \in Dependencies(e) :
                             Cached(d, EnsureDependencyStates(e, Replaced(e)).states)
    BY DEF PassNotBlocked
  <2>1. e \in Epochs /\ e \in p.todo
    BY <1>3, PassAt DEF ChainInv
  <2>2. Cached(e, states)
    BY <1>3, <2>1 DEF OnePass
  <2>3. BlocksThere(e, blocks)
    BY <1>3, <2>1, <2>2 DEF ChainInv, CacheNearHead, StatesHaveBlocks
  <2>4. ASSUME NEW d \in Dependencies(e)
        PROVE  Cached(d, EnsureDependencyStates(e, Replaced(e)).states)
    <3>1. d \in Epochs
      BY <2>1, DependenciesBefore
    <3> QED
      BY <1>3, <2>1, <2>2, <3>1, Readied
  <2> QED
    BY <2>2, <2>3, <2>4
<1> QED
  BY <1>1, <1>2, <1>3, ChainInvAlways, PTL DEF Spec
-----------------------------------------------------------------------------
(* What a walk waits for.                                                  *)

\* Reorgs are no deeper than what is kept below the finalized epoch, and among
\* the slots that a walk may pass fewer than an epoch has are without a block.
ShortReorgs ==
    /\ KeepEpochs >= 2 /\ MaxDepth <= (KeepEpochs - 1) * SlotsPerEpoch
    /\ MaxMissed < SlotsPerEpoch

\* The state of an epoch, if cached, is of the chain.
Current(d) == Cached(d, states) => states[d].root = root[LastSlot(d)]

\* A walk has still to come to every other state.
StaleAhead == ~lost => \A d \in Epochs : Current(d) \/ Ahead(LastSlot(d))

\* Slots without a block are few.
GapsKnown ==
    /\ Sparse(gaps)
    /\ \A s \in Slots : canon[s] = Missed \/ blocks[s] = Missed => s \in gaps

\* The slots that a walk has passed and need not have counted.
Passed(h) == gaps \intersect ((h.i + 1)..(h.slot - 1))

\* A walk ends soon: what it does not count has no block.
EndsSoon(h) ==
    /\ h.reorgedSlots <= h.depth /\ h.depth <= MaxDepth
    /\ 1 <= h.since /\ LastSlot(h.since + 1) <= h.slot
    /\ h.slot - 1 - h.i <= Cardinality(Passed(h)) + h.reorgedSlots
    /\ h.slot - 1 - h.i <= h.depth + MaxMissed

WalksEnd == \A h \in handlers : EndsSoon(h)

FinalFarBelow == 1 <= fin /\ LastSlot(fin + 1) <= head

ShortInv == FinalFarBelow /\ GapsKnown /\ StaleAhead /\ WalksEnd

LEMMA FewSlots ==
    ASSUME NEW m \in Int, NEW n \in Int, NEW T, NEW U, U \subseteq m..n, T \subseteq U
    PROVE  /\ IsFiniteSet(T) /\ IsFiniteSet(U)
           /\ Cardinality(T) \in Nat /\ Cardinality(U) \in Nat
           /\ Cardinality(T) <= Cardinality(U)
<1>1. IsFiniteSet(m..n)
  BY FS_Interval
<1>2. IsFiniteSet(U)
  BY <1>1, FS_Subset
<1>3. IsFiniteSet(T) /\ Cardinality(T) <= Cardinality(U)
  BY <1>2, FS_Subset
<1> QED
  BY <1>2, <1>3, FS_CardinalityType

LEMMA WalkNumbers ==
    ASSUME ChainInv, NEW h \in handlers
    PROVE  /\ h \in Handler /\ h.i \in Int /\ h.slot \in Nat /\ h.slot \in Slots /\ h.depth \in Nat
           /\ h.reorgedSlots \in Nat /\ h.since \in Nat /\ h.since \in Epochs /\ Ancestor(h) \in Int
<1>1. h \in Handler
  BY UpToHead
<1>2. h.i \in Int /\ h.slot \in Slots /\ h.depth \in Nat /\ h.reorgedSlots \in Nat /\ h.since \in Epochs
  BY <1>1 DEF Handler
<1>3. h.slot \in Nat /\ h.since \in Nat
  BY <1>2, EpochsInRange
<1> QED
  BY <1>1, <1>2, <1>3 DEF Ancestor

LEMMA EndsSoonStays ==
    ASSUME ChainInv, NEW h \in handlers, EndsSoon(h), gaps \subseteq gaps'
    PROVE  EndsSoon(h)'
<1>1. h.i \in Int /\ h.slot \in Nat /\ h.reorgedSlots \in Nat
  BY WalkNumbers
<1>2. Passed(h) \subseteq Passed(h)' /\ Passed(h)' \subseteq (h.i + 1)..(h.slot - 1)
  BY DEF Passed
<1>3. h.i + 1 \in Int /\ h.slot - 1 \in Int
  BY <1>1
<1>4. /\ Cardinality(Passed(h)) \in Nat /\ Cardinality(Passed(h)') \in Nat
      /\ Cardinality(Passed(h)) <= Cardinality(Passed(h)')
  BY <1>2, <1>3, FewSlots
<1>5. h.slot - 1 - h.i <= Cardinality(Passed(h)) + h.reorgedSlots
  BY DEF EndsSoon
<1>6. h.slot - 1 - h.i <= Cardinality(Passed(h)') + h.reorgedSlots
  BY <1>1, <1>4, <1>5
<1> QED
  BY <1>6 DEF EndsSoon

LEMMA WalkCurrent ==
    ASSUME ChainInv, NEW h \in handlers, HandleReorg(h), NEW d \in Epochs, Current(d)
    PROVE  Current(d)'
<1> DEFINE e == EpochOf(h.i)
           bs == ReplaceBlock(h.i)
           state == [root |-> root[LastSlot(e)], blocks |-> [s \in SlotsOf(e) |-> bs[s]]]
<1>1. root' = root /\ (states' = states \/ states' = [states EXCEPT ![e] = state])
  BY DEF HandleReorg, Downloaded, chain
<1>2. state.root = root[LastSlot(e)]
  OBVIOUS
<1> HIDE DEF state, e
<1>3. states'[d] = states[d] \/ (d = e /\ states'[d] = state)
  BY <1>1 DEF ChainInv, Shape
<1> QED
  BY <1>1, <1>2, <1>3 DEF Current, Cached

\* But for a reorg, no step makes a state of the chain another.
LEMMA CurrentStays ==
    ASSUME ChainInv, [Next]_vars, fork' = fork, NEW d \in Epochs, Current(d)
    PROVE  Current(d)'
<1>0. Shape
  BY DEF ChainInv
<1>1. CASE UNCHANGED vars
  BY <1>1 DEF Current, Cached, vars
<1>2. ASSUME NEW b \in {fork, Missed}, Follow(b) PROVE Current(d)'
  <2> DEFINE s == head + 1
             e == EpochOf(s)
             bs == [blocks EXCEPT ![s] = b]
             bl == [t \in SlotsOf(e) |-> bs[t]]
  <2>1. /\ s \in Slots /\ root' = [root EXCEPT ![s] = fork]
        /\ \/ s = LastSlot(e) /\ states' = [states EXCEPT ![e] = [root |-> fork, blocks |-> bl]]
           \/ s # LastSlot(e) /\ states' = states
    BY <1>2 DEF Follow
  <2>2. e \in Epochs /\ s \in Nat
    BY <2>1, EpochsInRange
  <2>3. LastSlot(d) = s => d = e
    <3>1. d \in Int /\ FirstSlot(d) \in Nat /\ FirstSlot(d) <= LastSlot(d) /\ LastSlot(d) \in Nat
      BY EpochsInRange
    <3>2. LastSlot(d) \in SlotsOf(d)
      BY <3>1 DEF SlotsOf
    <3> HIDE DEF s
    <3> QED
      BY <3>1, <3>2, EpochUnique
  <2>4. LastSlot(d) \in Slots
    BY EpochsInRange
  <2> HIDE DEF bl, s, e
  <2>5. CASE d # e
    <3>1. states'[d] = states[d] /\ root'[LastSlot(d)] = root[LastSlot(d)]
      BY <1>0, <2>1, <2>2, <2>3, <2>4, <2>5 DEF Shape
    <3> QED
      BY <3>1 DEF Current, Cached
  <2>6. CASE d = e /\ s = LastSlot(e)
    <3>1. states'[d].root = fork /\ root'[LastSlot(d)] = fork
      BY <1>0, <2>1, <2>2, <2>6 DEF Shape
    <3> QED
      BY <3>1 DEF Current
  <2>7. CASE d = e /\ s # LastSlot(e)
    <3>1. states' = states /\ root'[LastSlot(d)] = root[LastSlot(d)]
      BY <1>0, <2>1, <2>4, <2>7 DEF Shape
    <3> QED
      BY <3>1 DEF Current, Cached
  <2> QED
    BY <2>5, <2>6, <2>7
<1>3. ASSUME NEW f, Finalize(f) PROVE Current(d)'
  BY <1>3 DEF Finalize, chain, cache, Current, Cached
<1>4. ASSUME NEW p \in passes, AdvanceFinalized(p) PROVE Current(d)'
  <2>1. CASE VerifyBlocks(p)
    BY <2>1, VerifyBlocksStep DEF Current, Cached, chain
  <2>2. CASE VerifyStateSame(p) \/ VerifyStateSkipped(p)
    BY <2>2, VerifyStateStep DEF Current, Cached, chain, cache
  <2>3. CASE Reprocess(p)
    <3>1. PICK e : e = Min(p.todo)
      OBVIOUS
    <3>2. /\ Cached(d, states) /\ d # e => states'[d] = states[d]
          /\ (Cached(d, states)' /\ ~Cached(d, states)) \/ d = e =>
                 states'[d].root = root[LastSlot(d)]
          /\ UNCHANGED chain
      BY <2>3, <3>1, ReprocessStep
    <3> QED
      BY <3>2 DEF Current, chain
  <2>4. CASE PassEnd(p)
    BY <2>4, PassEndStep DEF Current, Cached, NoState, chain
  <2> QED
    BY <1>4, <2>1, <2>2, <2>3, <2>4 DEF AdvanceFinalized
<1>5. ASSUME NEW h \in handlers, HandleReorg(h) PROVE Current(d)'
  BY <1>5, WalkCurrent
<1>6. ASSUME NEW a, NEW missed PROVE ~ChainReorg(a, missed)
  <2>1. fork \in Nat
    BY <1>0, ChainTypes
  <2> QED
    BY <2>1 DEF ChainReorg
<1> QED
  BY <1>1, <1>2, <1>3, <1>4, <1>5, <1>6 DEF Next

LEMMA FollowShort ==
    ASSUME ChainInv, ShortInv, NEW b \in {fork, Missed}, Follow(b)
    PROVE  ShortInv'
<1> DEFINE s == head + 1
<1>0. Shape /\ FinalFarBelow /\ GapsKnown /\ StaleAhead /\ WalksEnd
  BY DEF ChainInv, ShortInv
<1>1. /\ s \in Slots /\ head \in Nat /\ head' = s
      /\ canon' = [canon EXCEPT ![s] = b] /\ blocks' = [blocks EXCEPT ![s] = b]
      /\ UNCHANGED <<fork, fin, handlers, lost>>
      /\ gaps' = IF b = Missed THEN gaps \union {s} ELSE gaps
      /\ Sparse(gaps') /\ fork # Missed
  <2>1. head \in Nat /\ fork # Missed
    BY <1>0, ChainTypes, Parameters
  <2> QED
    BY <2>1 DEF Follow, history
<1>2. FinalFarBelow'
  <2>1. fin + 1 \in Int /\ LastSlot(fin + 1) \in Int
    BY <1>0, ChainTypes, EpochBounds
  <2> QED
    BY <1>0, <1>1, <2>1 DEF FinalFarBelow
<1>3. StaleAhead'
  <2>1. \A d \in Epochs : Current(d) => Current(d)'
    <3>1. Next
      BY DEF Next
    <3> QED
      BY <1>1, <3>1, CurrentStays
  <2> QED
    BY <1>0, <1>1, <2>1 DEF StaleAhead, Ahead, Ancestor
<1> HIDE DEF s
<1>4. GapsKnown'
  <2>1. \A t \in Slots : /\ canon'[t] = (IF t = s THEN b ELSE canon[t])
                         /\ blocks'[t] = (IF t = s THEN b ELSE blocks[t])
    BY <1>0, <1>1 DEF Shape
  <2> QED
    BY <1>0, <1>1, <2>1 DEF GapsKnown
<1>5. WalksEnd'
  BY <1>0, <1>1, EndsSoonStays DEF WalksEnd
<1> QED
  BY <1>2, <1>3, <1>4, <1>5 DEF ShortInv

LEMMA ReorgShort ==
    ASSUME ChainInv, ShortInv,
           NEW a \in FirstSlot(fin)..(head - 1), NEW missed, ChainReorg(a, missed)
    PROVE  ShortInv'
<1>0. Shape /\ CacheNearHead /\ FinalFarBelow /\ GapsKnown /\ StaleAhead /\ WalksEnd
  BY DEF ChainInv, ShortInv
<1>1. /\ head - a <= MaxDepth /\ UNCHANGED <<head, fin, blocks, states>>
      /\ canon' = [t \in Slots |-> IF t \in (a + 1)..head
                                 THEN IF t \in missed THEN Missed ELSE fork' ELSE canon[t]]
      /\ gaps' = gaps \union missed /\ Sparse(gaps') /\ fork' = fork + 1
      /\ \/ /\ handlers' = handlers \union
                   {[of |-> fork', slot |-> head, depth |-> head - a, i |-> head,
                     reorgedSlots |-> 0, since |-> fin]}
            /\ lost' = lost
         \/ lost' = TRUE /\ handlers' = handlers
  BY DEF ChainReorg, cache
<1>2. /\ head \in Nat /\ a \in Nat /\ a < head /\ fin \in Nat /\ fork \in Nat
      /\ \A s \in Slots : s <= a => root'[s] = root[s]
  BY <1>0, ChainTypes, ReorgStep
<1>3. FinalFarBelow'
  BY <1>0, <1>1 DEF FinalFarBelow
<1>4. GapsKnown'
  <2>1. fork' # Missed
    BY <1>1, <1>2, Parameters
  <2>2. \A t \in Slots : canon'[t] = Missed => canon[t] = Missed \/ t \in missed
    BY <1>1, <2>1
  <2> QED
    BY <1>0, <1>1, <2>2 DEF GapsKnown
<1>5. \A h \in handlers : EndsSoon(h)'
  BY <1>0, <1>1, EndsSoonStays DEF WalksEnd
<1>6. CASE lost' = TRUE /\ handlers' = handlers
  BY <1>3, <1>4, <1>5, <1>6 DEF ShortInv, StaleAhead, WalksEnd
<1>7. CASE /\ handlers' = handlers \union
                   {[of |-> fork', slot |-> head, depth |-> head - a, i |-> head,
                     reorgedSlots |-> 0, since |-> fin]}
           /\ lost' = lost
  <2>0. PICK h : h = [of |-> fork', slot |-> head, depth |-> head - a, i |-> head,
                      reorgedSlots |-> 0, since |-> fin]
    OBVIOUS
  <2>1. /\ handlers' = handlers \union {h}
        /\ h.i = head /\ h.slot = head /\ h.reorgedSlots = 0 /\ h.since = fin
        /\ h.depth = head - a /\ Ancestor(h) = a
    BY <1>2, <1>7, <2>0 DEF Ancestor
  <2>2. EndsSoon(h)'
    <3>1. Passed(h)' \subseteq (head + 1)..(head - 1)
      BY <2>1 DEF Passed
    <3>2. Cardinality(Passed(h)') \in Nat
      <4>1. head + 1 \in Int /\ head - 1 \in Int
        BY <1>2
      <4> QED
        BY <3>1, <4>1, FewSlots
    <3>3. /\ h.reorgedSlots <= h.depth /\ h.depth <= MaxDepth
          /\ 1 <= h.since /\ LastSlot(h.since + 1) <= h.slot
      BY <1>0, <1>1, <1>2, <2>1 DEF FinalFarBelow
    <3>4. /\ h.slot - 1 - h.i <= Cardinality(Passed(h)') + h.reorgedSlots
          /\ h.slot - 1 - h.i <= h.depth + MaxMissed
      BY <1>2, <2>1, <3>2, ReorgAssumption
    <3> QED
      BY <3>3, <3>4 DEF EndsSoon
  <2>3. WalksEnd'
    BY <1>5, <2>1, <2>2 DEF WalksEnd
  <2>4. StaleAhead'
    <3> SUFFICES ASSUME ~lost, NEW d \in Epochs
                 PROVE  Current(d)' \/ Ahead(LastSlot(d))'
      BY <1>7 DEF StaleAhead
    <3>1. Current(d) \/ Ahead(LastSlot(d))
      BY <1>0 DEF StaleAhead
    <3>2. LastSlot(d) \in Slots /\ LastSlot(d) \in Nat
      BY EpochsInRange
    <3>3. Ahead(LastSlot(d)) => Ahead(LastSlot(d))'
      BY <2>1 DEF Ahead, Ancestor
    <3>4. CASE LastSlot(d) <= a
      <4>1. Current(d) => Current(d)'
        BY <1>1, <1>2, <3>2, <3>4 DEF Current, Cached
      <4> QED
        BY <3>1, <3>3, <4>1
    <3>5. CASE a < LastSlot(d) /\ LastSlot(d) <= head
      BY <2>1, <3>5 DEF Ahead, Ancestor
    <3>6. CASE head < LastSlot(d)
      <4>1. ~Cached(d, states)
        BY <1>0, <1>2, <3>2, <3>6 DEF CacheNearHead
      <4> QED
        BY <1>1, <4>1 DEF Current, Cached
    <3> QED
      BY <1>2, <3>2, <3>4, <3>5, <3>6
  <2> QED
    BY <1>3, <1>4, <2>3, <2>4 DEF ShortInv
<1> QED
  BY <1>1, <1>6, <1>7

LEMMA FinalizeShort ==
    ASSUME ChainInv, ShortInv, NEW f \in (fin + 1)..(EpochOf(head) - 2), Finalize(f)
    PROVE  ShortInv'
<1>0. Shape /\ FinalFarBelow /\ GapsKnown /\ StaleAhead /\ WalksEnd
  BY DEF ChainInv, ShortInv
<1>1. fin' = f /\ UNCHANGED <<canon, root, fork, head, gaps, blocks, states, handlers, lost>>
  BY DEF Finalize, chain, cache, history
<1>2. FinalFarBelow'
  <2>1. /\ fin \in Nat /\ head \in Nat /\ EpochOf(head) \in Nat /\ FirstSlot(EpochOf(head)) <= head
    BY <1>0, ChainTypes, EpochAround
  <2>2. f \in Nat /\ 1 <= f /\ f + 1 < EpochOf(head) /\ f + 1 \in Nat
    BY <1>0, <2>1 DEF FinalFarBelow
  <2>3. /\ LastSlot(f + 1) < FirstSlot(EpochOf(head)) /\ LastSlot(f + 1) \in Int
        /\ FirstSlot(EpochOf(head)) \in Int
    BY <2>1, <2>2, EpochsApart, EpochBounds
  <2> QED
    BY <1>0, <1>1, <2>1, <2>2, <2>3 DEF FinalFarBelow
<1>3. GapsKnown' /\ StaleAhead'
  BY <1>0, <1>1 DEF GapsKnown, StaleAhead, Current, Cached, Ahead, Ancestor
<1>4. WalksEnd'
  BY <1>0, <1>1, EndsSoonStays DEF WalksEnd
<1> QED
  BY <1>2, <1>3, <1>4 DEF ShortInv

LEMMA AdvanceShort ==
    ASSUME ChainInv, ShortInv, NEW p \in passes, AdvanceFinalized(p)
    PROVE  ShortInv'
<1>0. Shape /\ FinalFarBelow /\ GapsKnown /\ StaleAhead /\ WalksEnd
  BY DEF ChainInv, ShortInv
<1>1. UNCHANGED <<canon, root, fork, head, gaps, fin, handlers, lost>>
  BY DEF AdvanceFinalized, VerifyBlocks, VerifyStateSame, VerifyStateSkipped, Reprocess, PassEnd,
         chain, history
<1>2. \A s \in Slots : blocks'[s] \in {None, blocks[s], canon[s]}
  <2>1. CASE VerifyBlocks(p) \/ VerifyStateSame(p) \/ VerifyStateSkipped(p)
    BY <2>1 DEF VerifyBlocks, VerifyStateSame, VerifyStateSkipped, cache
  <2>2. CASE Reprocess(p)
    <3>1. PICK e : e = Min(p.todo)
      OBVIOUS
    <3> QED
      BY <2>2, <3>1, ReprocessStep
  <2>3. CASE PassEnd(p)
    BY <2>3, PassEndStep
  <2> QED
    BY <2>1, <2>2, <2>3 DEF AdvanceFinalized
<1>3. GapsKnown'
  BY <1>0, <1>1, <1>2, Parameters DEF GapsKnown
<1>4. StaleAhead'
  <2>1. \A d \in Epochs : Current(d) => Current(d)'
    <3>1. Next
      BY DEF Next
    <3> QED
      BY <1>1, <3>1, CurrentStays
  <2> QED
    BY <1>0, <1>1, <2>1 DEF StaleAhead, Ahead, Ancestor
<1>5. WalksEnd'
  BY <1>0, <1>1, EndsSoonStays DEF WalksEnd
<1>6. FinalFarBelow'
  BY <1>0, <1>1 DEF FinalFarBelow
<1> QED
  BY <1>3, <1>4, <1>5, <1>6 DEF ShortInv

\* A slot of a walk that is not counted is one of the few without a block.
LEMMA WalkEndsSoon ==
    ASSUME ChainInv, RepairInv, ShortInv, NEW h \in handlers, HandleReorg(h), NEW x \in Walked(h)
    PROVE  EndsSoon(x)'
<1>0. Shape /\ Walks /\ GapsKnown /\ WalksEnd
  BY DEF ChainInv, RepairInv, ShortInv
<1>1. PICK i : i = h.i
  OBVIOUS
<1>2. i \in Slots /\ i \in Nat
  <2>1. PICK e : e = EpochOf(i)
    OBVIOUS
  <2> QED
    BY <1>1, <2>1, HandleReorgStep, EpochsInRange
<1>3. gaps' = gaps
  BY DEF HandleReorg, chain
<1>4. /\ h \in Handler /\ h.slot \in Nat /\ h.depth \in Nat /\ h.reorgedSlots \in Nat
  BY WalkNumbers
<1>5. MaxDepth \in Nat /\ MaxMissed \in Nat
  BY ReorgAssumption
<1> DEFINE n == IF h.i < h.slot /\ blocks[h.i] # Missed THEN h.reorgedSlots + 1 ELSE h.reorgedSlots
           y == [h EXCEPT !.i = @ - 1, !.reorgedSlots = n]
<1>6. Walked(h) = IF n <= h.depth THEN {y} ELSE {}
  BY DEF Walked
<1>7. n \in Nat /\ (i < h.slot => n = h.reorgedSlots + 1 \/ (n = h.reorgedSlots /\ i \in gaps))
  BY <1>0, <1>1, <1>2, <1>4 DEF GapsKnown
<1>8. /\ y.i = i - 1 /\ y.slot = h.slot /\ y.depth = h.depth /\ y.since = h.since
      /\ y.reorgedSlots = n
  BY <1>1, <1>4 DEF Handler
<1> HIDE DEF n
<1>9. x = y /\ n <= h.depth
  BY <1>6
<1> HIDE DEF y
<1>10. /\ x.i = i - 1 /\ x.slot = h.slot /\ x.depth = h.depth /\ x.since = h.since
       /\ x.reorgedSlots = n
  BY <1>8, <1>9
<1>11. Passed(x)' = gaps \intersect (i..(h.slot - 1)) /\ Passed(h) = gaps \intersect ((i + 1)..(h.slot - 1))
  <2>1. (i - 1) + 1 = i
    BY <1>2
  <2> QED
    BY <1>1, <1>3, <1>10, <2>1 DEF Passed
<1>12. /\ IsFiniteSet(Passed(h)) /\ Cardinality(Passed(h)) \in Nat
       /\ Cardinality(Passed(x)') \in Nat /\ Cardinality(Passed(h)) <= Cardinality(Passed(x)')
  <2>1. Passed(h) \subseteq Passed(x)' /\ Passed(x)' \subseteq i..(h.slot - 1)
    BY <1>2, <1>4, <1>11
  <2>2. i \in Int /\ h.slot - 1 \in Int
    BY <1>2, <1>4
  <2> QED
    BY <2>1, <2>2, FewSlots
<1>13. /\ h.depth <= MaxDepth /\ 1 <= h.since /\ LastSlot(h.since + 1) <= h.slot
       /\ h.slot - 1 - i <= Cardinality(Passed(h)) + h.reorgedSlots
       /\ h.slot - 1 - i <= h.depth + MaxMissed
       /\ i <= h.slot
  BY <1>0, <1>1 DEF WalksEnd, EndsSoon, Walks
<1>14. h.slot - i <= Cardinality(Passed(x)') + n
  <2>1. CASE i = h.slot
    BY <1>2, <1>4, <1>7, <1>12, <2>1
  <2>2. CASE i < h.slot /\ n = h.reorgedSlots + 1
    BY <1>2, <1>4, <1>12, <1>13, <2>2
  <2>3. CASE i < h.slot /\ n = h.reorgedSlots /\ i \in gaps
    <3>1. Passed(x)' = Passed(h) \union {i} /\ i \notin Passed(h)
      BY <1>2, <1>4, <1>11, <2>3
    <3>2. Cardinality(Passed(x)') = Cardinality(Passed(h)) + 1
      BY <1>12, <3>1, FS_AddElement
    <3> QED
      BY <1>2, <1>4, <1>12, <1>13, <2>3, <3>2
  <2> QED
    BY <1>2, <1>4, <1>7, <1>13, <2>1, <2>2, <2>3
<1>15. Cardinality(Passed(x)') <= MaxMissed
  <2> DEFINE window == gaps \intersect (i..(i + MaxDepth + MaxMissed))
  <2>1. Passed(x)' \subseteq window
    BY <1>2, <1>4, <1>5, <1>11, <1>13
  <2>2. Cardinality(window) <= MaxMissed
    BY <1>0, <1>2 DEF GapsKnown, Sparse
  <2>3. /\ Cardinality(Passed(x)') <= Cardinality(window) /\ Cardinality(window) \in Nat
    <3>1. window \subseteq i..(i + MaxDepth + MaxMissed) /\ i \in Int /\ i + MaxDepth + MaxMissed \in Int
      BY <1>2, <1>5
    <3> HIDE DEF window
    <3> QED
      BY <2>1, <3>1, FewSlots
  <2> HIDE DEF window
  <2> QED
    BY <1>5, <1>12, <2>2, <2>3
<1>16. /\ x.slot - 1 - x.i <= Cardinality(Passed(x)') + x.reorgedSlots
       /\ x.slot - 1 - x.i <= x.depth + MaxMissed
  <2>1. x.slot - 1 - x.i = h.slot - i
    BY <1>2, <1>4, <1>10
  <2>2. h.slot - i <= h.depth + MaxMissed
    BY <1>2, <1>4, <1>5, <1>7, <1>9, <1>12, <1>14, <1>15
  <2> QED
    BY <1>10, <1>14, <2>1, <2>2
<1> QED
  BY <1>9, <1>10, <1>13, <1>16 DEF EndsSoon

LEMMA WalkShort ==
    ASSUME ChainInv, RepairInv, ShortInv, NEW h \in handlers, HandleReorg(h)
    PROVE  ShortInv'
<1>0. Shape /\ Walks /\ FinalFarBelow /\ GapsKnown /\ StaleAhead /\ WalksEnd
  BY DEF ChainInv, RepairInv, ShortInv
<1>1. PICK i : i = h.i
  OBVIOUS
<1>2. PICK e : e = EpochOf(i)
  OBVIOUS
<1>3. /\ i \in Slots /\ e \in Epochs
      /\ \A s \in Slots : blocks'[s] = IF s = i THEN canon[i] ELSE blocks[s]
      /\ \/ i # LastSlot(e) /\ states' = states
         \/ /\ i = LastSlot(e)
            /\ states'[e].root = root[LastSlot(e)]
      /\ handlers' = (handlers \ {h}) \union Walked(h)
      /\ UNCHANGED <<canon, root, gaps, head, fin, lost>>
  <2>1. UNCHANGED <<canon, root, gaps, head, fin, lost>>
    BY DEF HandleReorg, chain
  <2>2. i \in Slots /\ e \in Epochs /\ \A t \in Slots : blocks'[t] = IF t = i THEN canon[i] ELSE blocks[t]
    BY <1>1, <1>2, HandleReorgStep
  <2>3. \/ i # LastSlot(e) /\ states' = states
        \/ i = LastSlot(e) /\ states'[e].root = root[LastSlot(e)]
    <3>1. PICK state : state = Downloaded(e, ReplaceBlock(i))
      OBVIOUS
    <3>2. \/ i # LastSlot(e) /\ states' = states
          \/ i = LastSlot(e) /\ states' = [states EXCEPT ![e] = state]
      BY <1>1, <1>2, <3>1 DEF HandleReorg
    <3>3. state.root = root[LastSlot(e)]
      BY <3>1 DEF Downloaded
    <3> QED
      BY <1>0, <2>2, <3>2, <3>3 DEF Shape
  <2>4. handlers' = (handlers \ {h}) \union Walked(h)
    BY <1>1, <1>2, HandleReorgStep
  <2> QED
    BY <2>1, <2>2, <2>3, <2>4
<1>4. FinalFarBelow'
  BY <1>0, <1>3 DEF FinalFarBelow
<1>5. GapsKnown'
  BY <1>0, <1>3 DEF GapsKnown
<1>6. WalksEnd'
  <2>1. \A x \in handlers : EndsSoon(x)'
    BY <1>0, <1>3, EndsSoonStays DEF WalksEnd
  <2>2. \A x \in Walked(h) : EndsSoon(x)'
    BY WalkEndsSoon
  <2> QED
    BY <1>3, <2>1, <2>2 DEF WalksEnd
<1>7. StaleAhead'
  <2> SUFFICES ASSUME ~lost, NEW d \in Epochs
               PROVE  Current(d)' \/ Ahead(LastSlot(d))'
    BY <1>3 DEF StaleAhead
  <2>1. Current(d) \/ Ahead(LastSlot(d))
    BY <1>0 DEF StaleAhead
  <2>2. CASE Current(d)
    BY <2>2, WalkCurrent
  <2>3. CASE Ahead(LastSlot(d)) /\ LastSlot(d) # i
    <3>1. LastSlot(d) \in Nat
      BY EpochsInRange
    <3> QED
      BY <1>0, <1>1, <1>3, <2>3, <3>1, AheadStays
  <2>4. CASE LastSlot(d) = i
    <3>1. d = e
      <4>1. d \in Int /\ FirstSlot(d) <= LastSlot(d) /\ FirstSlot(d) \in Nat /\ LastSlot(d) \in Nat
        BY EpochsInRange
      <4>2. LastSlot(d) \in SlotsOf(d)
        BY <4>1 DEF SlotsOf
      <4> QED
        BY <1>2, <2>4, <4>1, <4>2, EpochUnique
    <3>2. states'[d].root = root'[LastSlot(d)]
      BY <1>3, <2>4, <3>1
    <3> QED
      BY <3>2 DEF Current
  <2> QED
    BY <2>1, <2>2, <2>3, <2>4
<1> QED
  BY <1>4, <1>5, <1>6, <1>7 DEF ShortInv

LEMMA ShortInvInit == ASSUME Init PROVE ShortInv
<1>1. PICK last : last = LastSlot(InitEpoch + 5)
  OBVIOUS
<1>2. /\ head = last /\ fin = 4
      /\ \A s \in Slots : /\ canon[s] = IF s <= last THEN 1 ELSE None
                          /\ root[s] = canon[s] /\ blocks[s] = canon[s]
      /\ \A e \in Epochs : /\ states[e].root = IF e <= 5 THEN 1 ELSE None
                           /\ e <= 5 <=> LastSlot(e) <= last
      /\ handlers = {}
  BY <1>1, Begin
<1>3. FinalFarBelow
  <2>1. InitEpoch + 5 = 4 + 1 /\ last \in Nat
    <3>1. InitEpoch + 5 = 4 + 1
      BY Parameters
    <3> QED
      BY <1>1, <3>1, FilledEpochs, EpochsInRange
  <2> QED
    BY <1>1, <1>2, <2>1 DEF FinalFarBelow
<1>4. GapsKnown
  <2>1. gaps = {}
    BY DEF Init
  <2>2. \A s \in Slots : canon[s] # Missed /\ blocks[s] # Missed
    BY <1>2, Parameters
  <2>3. \A S : {} \intersect S = {}
    OBVIOUS
  <2>4. Sparse({})
    BY <2>3, FS_EmptySet, ReorgAssumption DEF Sparse
  <2> QED
    BY <2>1, <2>2, <2>4 DEF GapsKnown
<1>5. StaleAhead
  <2>1. \A d \in Epochs : LastSlot(d) \in Slots
    BY EpochsInRange
  <2> QED
    BY <1>2, <2>1 DEF StaleAhead, Current, Cached
<1>6. WalksEnd
  BY <1>2 DEF WalksEnd
<1> QED
  BY <1>3, <1>4, <1>5, <1>6 DEF ShortInv

LEMMA ShortInvStep ==
    ASSUME ChainInv, RepairInv, ShortInv, [Next]_vars
    PROVE  ShortInv'
<1>1. CASE UNCHANGED vars
  BY <1>1 DEF ShortInv, FinalFarBelow, GapsKnown, StaleAhead, WalksEnd, EndsSoon, Passed, Ahead, Ancestor,
              Current, Cached, vars
<1>2. CASE \E b \in {fork, Missed} : Follow(b)
  BY <1>2, FollowShort
<1>3. CASE \E a \in FirstSlot(fin)..(head - 1) :
               \E missed \in SUBSET ((a + 1)..(head - 1)) : ChainReorg(a, missed)
  BY <1>3, ReorgShort
<1>4. CASE \E f \in (fin + 1)..(EpochOf(head) - 2) : Finalize(f)
  BY <1>4, FinalizeShort
<1>5. CASE \E p \in passes : AdvanceFinalized(p)
  BY <1>5, AdvanceShort
<1>6. CASE \E h \in handlers : HandleReorg(h)
  BY <1>6, WalkShort
<1> QED
  BY <1>1, <1>2, <1>3, <1>4, <1>5, <1>6 DEF Next

\* A walk stays above the epochs that have been evicted while it runs.
LEMMA WalkAboveEvicted ==
    ASSUME ShortReorgs, ChainInv, RepairInv, ShortInv, NEW h \in handlers
    PROVE  /\ h.i \in Slots /\ h.i <= head
           /\ h.since - 1 <= EpochOf(h.i) /\ fin - KeepEpochs <= h.since - 1
           /\ h.since \in Nat /\ fin \in Nat
<1>0. Shape /\ Walks /\ WalksEnd
  BY DEF ChainInv, RepairInv, ShortInv
<1>1. h.i <= head /\ head \in Nat /\ fin \in Nat
  BY <1>0, UpToHead, ChainTypes
<1>2. /\ h.i \in Int /\ h.slot \in Nat /\ h.depth \in Nat /\ h.since \in Nat /\ h.since \in Epochs
  BY WalkNumbers
<1>3. /\ h.slot - 1 - h.i <= h.depth + MaxMissed /\ 1 <= h.since
      /\ FirstSlot(h.since) <= h.slot - h.depth /\ fin <= h.since + 1
  BY <1>0 DEF WalksEnd, EndsSoon, Walks, Ancestor
<1>4. MaxMissed \in Nat /\ MaxMissed < SlotsPerEpoch /\ SlotsPerEpoch \in Nat
      /\ KeepEpochs \in Nat /\ KeepEpochs >= 2
  BY ReorgAssumption DEF ShortReorgs
<1>5. PICK e : e = h.since - 1
  OBVIOUS
<1>6. /\ e \in Epochs /\ e \in Nat /\ e + 1 = h.since
      /\ FirstSlot(h.since) = FirstSlot(e) + SlotsPerEpoch /\ FirstSlot(e) \in Nat
  <2>1. e \in Epochs /\ e \in Nat /\ e + 1 = h.since
    BY <1>2, <1>3, <1>5, Parameters
  <2>2. FirstSlot(e) \in Nat /\ LastSlot(e) \in Int /\ LastSlot(e) = FirstSlot(e) + SlotsPerEpoch - 1
        /\ FirstSlot(e + 1) = LastSlot(e) + 1
    BY <2>1, EpochBounds, EpochsInRange
  <2>3. FirstSlot(e + 1) = FirstSlot(e) + SlotsPerEpoch
    BY <1>4, <2>2
  <2> QED
    BY <2>1, <2>2, <2>3
<1>7. FirstSlot(e) <= h.i
  BY <1>2, <1>3, <1>4, <1>6
<1>8. h.i \in Nat /\ h.i \in Slots
  <2>1. h.i \in Nat
    BY <1>2, <1>6, <1>7
  <2> QED
    BY <1>1, <2>1, UpToHead
<1>9. e <= EpochOf(h.i)
  <2>1. EpochOf(h.i) \in Nat /\ h.i <= LastSlot(EpochOf(h.i)) /\ LastSlot(EpochOf(h.i)) \in Int
    BY <1>8, EpochAround, EpochBounds
  <2>2. EpochOf(h.i) < e => LastSlot(EpochOf(h.i)) < FirstSlot(e)
    BY <1>6, <2>1, EpochsApart
  <2> QED
    BY <1>6, <1>7, <1>8, <2>1, <2>2
<1>10. fin - KeepEpochs <= e
  BY <1>1, <1>2, <1>3, <1>4, <1>5
<1> QED
  BY <1>1, <1>2, <1>5, <1>8, <1>9, <1>10

\* A stale state is of an epoch that ends above the ancestor of a walk, and is
\* so late that what its rows are computed from has not been evicted.
LEMMA StaleIsLate ==
    ASSUME ShortReorgs, ChainInv, RepairInv, ShortInv, ~lost, NEW e \in Epochs, ~Current(e)
    PROVE  fin - KeepEpochs <= e - 2
<1>0. Shape /\ Walks /\ WalksEnd /\ StaleAhead
  BY DEF ChainInv, RepairInv, ShortInv
<1>1. PICK g \in handlers : Ancestor(g) < LastSlot(e)
  BY <1>0 DEF StaleAhead, Ahead
<1>2. /\ g.slot \in Nat /\ g.depth \in Nat /\ g.since \in Nat /\ fin \in Nat /\ e \in Nat
      /\ LastSlot(e) \in Nat /\ KeepEpochs \in Nat /\ SlotsPerEpoch \in Nat /\ MaxDepth \in Nat
  BY <1>0, WalkNumbers, ChainTypes, EpochsInRange, ReorgAssumption
<1>3. /\ fin <= g.since + 1 /\ g.depth <= MaxDepth /\ LastSlot(g.since + 1) <= g.slot
      /\ g.slot - g.depth < LastSlot(e)
  BY <1>0, <1>1 DEF Walks, WalksEnd, EndsSoon, Ancestor
<1>4. PICK k : k = KeepEpochs - 1
  OBVIOUS
<1>5. PICK d : d = g.since + 1 - k
  OBVIOUS
<1>6. k \in Nat /\ d \in Int /\ MaxDepth <= k * SlotsPerEpoch /\ k * SlotsPerEpoch \in Nat
  BY <1>2, <1>4, <1>5 DEF ShortReorgs
<1>7. LastSlot(g.since + 1) = LastSlot(d) + k * SlotsPerEpoch /\ LastSlot(d) \in Int
  <2>1. (g.since + 1) + 1 = (d + 1) + k
    BY <1>2, <1>5, <1>6
  <2>2. ((d + 1) + k) * SlotsPerEpoch = (d + 1) * SlotsPerEpoch + k * SlotsPerEpoch
        /\ (d + 1) * SlotsPerEpoch \in Int
    BY <1>2, <1>6
  <2> QED
    BY <1>2, <1>6, <2>1, <2>2 DEF LastSlot
<1>8. LastSlot(d) < LastSlot(e)
  <2>1. LastSlot(g.since + 1) \in Int
    BY <1>6, <1>7
  <2> QED
    BY <1>2, <1>3, <1>6, <1>7, <2>1
<1>9. d < e
  <2>1. e <= d => LastSlot(e) <= LastSlot(d)
    BY <1>2, <1>6, LastSlotsInOrder
  <2> QED
    BY <1>2, <1>6, <1>7, <1>8, <2>1
<1> QED
  BY <1>2, <1>3, <1>4, <1>5, <1>9

LEMMA NothingMissingForWalk ==
    ASSUME ShortReorgs, ChainInv, RepairInv, ShortInv
    PROVE  WalkNotBlocked
<1>0. Shape /\ CacheNearHead
  BY DEF ChainInv
<1> SUFFICES ASSUME NEW h \in handlers, NEW i, i = h.i, NEW e, e = EpochOf(i)
             PROVE  /\ i \in Slots /\ blocks[i] # None
                    /\ i = LastSlot(e) =>
                          /\ BlocksThere(e, blocks)
                          /\ RootChanged(e) /\ ~lost => \A d \in Dependencies(e) : Cached(d, states)
  BY DEF WalkNotBlocked
<1>1. /\ i \in Slots /\ i <= head /\ head \in Nat
      /\ h.since - 1 <= e /\ fin - KeepEpochs <= h.since - 1
      /\ h.since \in Nat /\ fin \in Nat /\ KeepEpochs \in Nat
  BY WalkAboveEvicted, UpToHead, Parameters
<1>2. e \in Epochs /\ e \in Nat
  BY <1>1, EpochsInRange
<1>3. ~(e < fin - KeepEpochs)
  BY <1>1, <1>2
<1>4. blocks[i] # None
  BY <1>0, <1>1, <1>3 DEF CacheNearHead
<1>5. ASSUME i = LastSlot(e) PROVE Cached(e, states) /\ BlocksThere(e, blocks)
  <2>1. Cached(e, states)
    BY <1>0, <1>1, <1>2, <1>3, <1>5 DEF CacheNearHead
  <2> QED
    BY <1>0, <1>2, <2>1 DEF CacheNearHead, StatesHaveBlocks
<1>6. ASSUME i = LastSlot(e), RootChanged(e), ~lost, NEW d \in Dependencies(e) PROVE Cached(d, states)
  <2>1. d \in Epochs /\ d \in Nat /\ e - 2 <= d /\ LastSlot(d) <= head
    <3>1. d \in Epochs /\ LastSlot(d) <= LastSlot(e)
      BY <1>2, <1>6, DependenciesBefore
    <3>2. e - 2 <= d
      BY <1>2, <1>6 DEF Dependencies
    <3>3. LastSlot(d) \in Nat /\ LastSlot(e) \in Nat
      BY <1>2, <3>1, EpochsInRange
    <3> QED
      BY <1>1, <1>2, <1>6, <3>1, <3>2, <3>3, EpochsInRange
  <2>2. ~Current(e)
    BY <1>5, <1>6 DEF Current, RootChanged
  <2>3. fin - KeepEpochs <= e - 2
    BY <1>2, <1>6, <2>2, StaleIsLate
  <2>4. ~(d < fin - KeepEpochs)
    BY <1>1, <1>2, <2>1, <2>3
  <2> QED
    BY <1>0, <2>1, <2>4 DEF CacheNearHead
<1> QED
  BY <1>1, <1>4, <1>5, <1>6

\* A walk finds all that it needs, beside any number of other walks, when no
\* reorg is deeper than what is kept below the finalized epoch (for two epochs
\* kept: one epoch) and fewer slots than an epoch has are without a block.
THEOREM AWalkIsNotBlocked == ASSUME ShortReorgs PROVE Spec => []WalkNotBlocked
<1>0. KeepEpochs >= 1
  BY Parameters DEF ShortReorgs
<1>1. Init => RepairInv /\ ShortInv
  BY RepairInvInit, ShortInvInit
<1>2. ChainInv /\ RepairInv /\ ShortInv /\ [Next]_vars => RepairInv' /\ ShortInv'
  BY <1>0, RepairInvStep, ShortInvStep
<1>3. ChainInv /\ RepairInv /\ ShortInv => WalkNotBlocked
  BY NothingMissingForWalk
<1> QED
  BY <1>1, <1>2, <1>3, ChainInvAlways, PTL DEF Spec
=============================================================================
