-------------------------- MODULE AgnosticMapProofs --------------------------
(***************************************************************************)
(* The waitable map loses no wakeup and refuses no eviction, for any keys, *)
(* values and number of waiters, with or without cancellation.             *)
(***************************************************************************)
EXTENDS AgnosticMap, TLAPS

\* The invariants of registration are inductive only together: that a Set
\* owes its value to sleeping callers of its own key rests on the channels
\* being registered once, which rests on keys with a value having none.
\* The types need them too: only a running Set has anything pending.
Registration ==
    NoLostWakeup /\ EvictionNeverRefused /\ RegisteredOnce /\ SetOwesItsOwn

\* The types are kept by every step.
LEMMA TypeStep == TypeOK /\ Registration /\ [Next]_vars => TypeOK'
<1> SUFFICES ASSUME TypeOK, Registration, [Next]_vars PROVE TypeOK'
  OBVIOUS
<1> USE MapAssumption DEF TypeOK, Goto, Unlocked
<1>1. ASSUME NEW w \in Waiters, NEW k \in Keys, CallWait(w, k) PROVE TypeOK'
  BY <1>1 DEF CallWait
<1>2. ASSUME NEW w \in Waiters, WaitHit(w) PROVE TypeOK'
  BY <1>2 DEF WaitHit
<1>3. ASSUME NEW w \in Waiters, WaitMiss(w) PROVE TypeOK'
  BY <1>3 DEF WaitMiss
<1>4. ASSUME NEW w \in Waiters, WaitCancelled(w) PROVE TypeOK'
  BY <1>4 DEF WaitCancelled
<1>5. ASSUME NEW w \in Waiters, Resume(w) PROVE TypeOK'
  BY <1>5 DEF Resume
<1>6. ASSUME NEW k \in Keys, NEW v \in Values, SetStore(k, v) PROVE TypeOK'
  BY <1>6 DEF SetStore
<1>7. ASSUME NEW w \in Waiters, SetSend(w) PROVE TypeOK'
  BY <1>7 DEF SetSend, Registration, SetOwesItsOwn
<1>8. ASSUME SetUnlock PROVE TypeOK'
  BY <1>8 DEF SetUnlock
<1>9. ASSUME NEW k \in Keys, Delete(k) PROVE TypeOK'
  BY <1>9 DEF Delete
<1>10. ASSUME Cancel PROVE TypeOK'
  BY <1>10 DEF Cancel
<1>11. CASE UNCHANGED vars
  BY <1>11 DEF vars
<1> QED
  BY <1>1, <1>2, <1>3, <1>4, <1>5, <1>6, <1>7, <1>8, <1>9, <1>10, <1>11
     DEF Next

\* One inductive step of Registration.
LEMMA RegistrationStep == TypeOK /\ Registration /\ [Next]_vars => Registration'
<1> SUFFICES ASSUME TypeOK, Registration, [Next]_vars PROVE Registration'
  OBVIOUS
<1> USE MapAssumption
    DEF TypeOK, Goto, Unlocked, Registration,
        NoLostWakeup, EvictionNeverRefused, RegisteredOnce, SetOwesItsOwn
<1>1. ASSUME NEW w \in Waiters, NEW k \in Keys, CallWait(w, k) PROVE Registration'
  BY <1>1 DEF CallWait
<1>2. ASSUME NEW w \in Waiters, WaitHit(w) PROVE Registration'
  BY <1>2 DEF WaitHit
<1>3. ASSUME NEW w \in Waiters, WaitMiss(w) PROVE Registration'
  BY <1>3 DEF WaitMiss
<1>4. ASSUME NEW w \in Waiters, WaitCancelled(w) PROVE Registration'
  BY <1>4 DEF WaitCancelled
<1>5. ASSUME NEW w \in Waiters, Resume(w) PROVE Registration'
  BY <1>5 DEF Resume
<1>6. ASSUME NEW k \in Keys, NEW v \in Values, SetStore(k, v) PROVE Registration'
  BY <1>6 DEF SetStore
<1>7. ASSUME NEW w \in Waiters, SetSend(w) PROVE Registration'
  BY <1>7 DEF SetSend
<1>8. ASSUME SetUnlock PROVE Registration'
  BY <1>8 DEF SetUnlock
<1>9. ASSUME NEW k \in Keys, Delete(k) PROVE Registration'
  BY <1>9 DEF Delete
<1>10. ASSUME Cancel PROVE Registration'
  BY <1>10 DEF Cancel
<1>11. CASE UNCHANGED vars
  BY <1>11 DEF vars
<1> QED
  BY <1>1, <1>2, <1>3, <1>4, <1>5, <1>6, <1>7, <1>8, <1>9, <1>10, <1>11
     DEF Next

\* Type correctness and the invariants of registration, by one induction.
THEOREM RegistrationCorrect == Spec => [](TypeOK /\ Registration)
<1>1. Init => TypeOK /\ Registration
  BY MapAssumption DEF Init, TypeOK, Registration, NoLostWakeup,
                       EvictionNeverRefused, RegisteredOnce, SetOwesItsOwn, Unlocked
<1>2. TypeOK /\ Registration /\ [Next]_vars => (TypeOK /\ Registration)'
  BY TypeStep, RegistrationStep
<1> QED
  BY <1>1, <1>2, PTL DEF Spec

\* A sleeping goroutine is always one that a Set of its key will wake.
THEOREM WakeupsNotLost == Spec => []NoLostWakeup
<1>1. Registration => NoLostWakeup
  BY DEF Registration
<1> QED
  BY <1>1, RegistrationCorrect, PTL

\* CleanUpTo evicts what it set out to evict.
THEOREM EvictionsSucceed == Spec => []EvictionNeverRefused
<1>1. Registration => EvictionNeverRefused
  BY DEF Registration
<1> QED
  BY <1>1, RegistrationCorrect, PTL

\* A channel is registered under the key its waiter waits for, at most once, so
\* no Set sends twice to a waiter that receives once.
THEOREM ChannelsOnce == Spec => []RegisteredOnce
<1>1. Registration => RegisteredOnce
  BY DEF Registration
<1> QED
  BY <1>1, RegistrationCorrect, PTL

\* What a Set has taken from the list is still waiting for its key.
THEOREM SetSendsToItsOwn == Spec => []SetOwesItsOwn
<1>1. Registration => SetOwesItsOwn
  BY DEF Registration
<1> QED
  BY <1>1, RegistrationCorrect, PTL

\* No caller of Wait is handed nil, and none gets an error unless the
\* context was cancelled.
THEOREM WaitReturnsValue == Spec => []ReturnsValue
<1>1. Init => ReturnsValue
  BY DEF Init, ReturnsValue
<1>2. TypeOK /\ Registration /\ ReturnsValue /\ [Next]_vars => ReturnsValue'
  <2> SUFFICES ASSUME TypeOK, Registration, ReturnsValue, [Next]_vars
               PROVE  ReturnsValue'
    OBVIOUS
  <2> USE MapAssumption DEF TypeOK, Goto, Unlocked, ReturnsValue
  <2>1. ASSUME NEW w \in Waiters, NEW k \in Keys, CallWait(w, k) PROVE ReturnsValue'
    BY <2>1 DEF CallWait
  <2>2. ASSUME NEW w \in Waiters, WaitHit(w) PROVE ReturnsValue'
    BY <2>2 DEF WaitHit
  <2>3. ASSUME NEW w \in Waiters, WaitMiss(w) PROVE ReturnsValue'
    BY <2>3 DEF WaitMiss
  <2>4. ASSUME NEW w \in Waiters, WaitCancelled(w) PROVE ReturnsValue'
    BY <2>4 DEF WaitCancelled
  <2>5. ASSUME NEW w \in Waiters, Resume(w) PROVE ReturnsValue'
    BY <2>5 DEF Resume
  <2>6. ASSUME NEW k \in Keys, NEW v \in Values, SetStore(k, v) PROVE ReturnsValue'
    BY <2>6 DEF SetStore
  <2>7. ASSUME NEW w \in Waiters, SetSend(w) PROVE ReturnsValue'
    BY <2>7 DEF SetSend, Registration, SetOwesItsOwn
  <2>8. ASSUME SetUnlock PROVE ReturnsValue'
    BY <2>8 DEF SetUnlock
  <2>9. ASSUME NEW k \in Keys, Delete(k) PROVE ReturnsValue'
    BY <2>9 DEF Delete
  <2>10. ASSUME Cancel PROVE ReturnsValue'
    BY <2>10 DEF Cancel
  <2>11. CASE UNCHANGED vars
    BY <2>11 DEF vars
  <2> QED
    BY <2>1, <2>2, <2>3, <2>4, <2>5, <2>6, <2>7, <2>8, <2>9, <2>10, <2>11
       DEF Next
<1> QED
  BY <1>1, <1>2, RegistrationCorrect, PTL DEF Spec
=============================================================================
