----------------------------- MODULE AgnosticMap -----------------------------
(***************************************************************************)
(* The waitable map of pkg/analyzer/utils.go that backs BlockHistory and   *)
(* StateHistory.  Wait(ctx, key) returns the value of a key, or registers  *)
(* an unbuffered channel under the key and sleeps on it; Set stores a      *)
(* value and hands it to every registered channel, all under the mutex.    *)
(*                                                                         *)
(* A waiter is one goroutine.  Each call of Wait makes its own channel and *)
(* a waiter has at most one call under way, so the waiter stands for its   *)
(* channel.  m.subs[key] is the set of channels: the order in which Set    *)
(* walks the slice is left open.  All callers pass the analyzer's one      *)
(* context, hence one flag.                                                *)
(***************************************************************************)
EXTENDS Naturals, FiniteSets

CONSTANTS
    Keys,       \* slots or epochs
    Values,     \* blocks or states
    Waiters,    \* goroutines that call Wait
    None        \* neither a key nor a value

ASSUME MapAssumption == None \notin Keys /\ None \notin Values

VARIABLES
    m,          \* the map: the value of each key, or None
    subs,       \* channels registered under each key
    setKey,     \* the key of the Set that holds the mutex, or None
    pending,    \* channels that Set has not yet sent to
    pc,         \* where each waiter stands
    wkey,       \* the key of a waiter's call
    got,        \* what its last call returned
    ctxDone     \* the analyzer's context is cancelled

vars == <<m, subs, setKey, pending, pc, wkey, got, ctxDone>>

Unlocked == setKey = None

Goto(w, from, to) ==
    /\ pc[w] = from
    /\ pc' = [pc EXCEPT ![w] = to]

-----------------------------------------------------------------------------
(* Faulty forms of the operations below, to test the properties with.      *)

\* Wait subscribes without looking whether the value is there.
WaitMissUnchecked(w) ==
    /\ Unlocked
    /\ Goto(w, "locking", "waiting")
    /\ subs' = [subs EXCEPT ![wkey[w]] = @ \union {w}]
    /\ UNCHANGED <<m, setKey, pending, wkey, got, ctxDone>>

\* Wait returns what the map holds, present or not.
WaitHitUnchecked(w) ==
    /\ Unlocked
    /\ Goto(w, "locking", "returned")
    /\ got' = [got EXCEPT ![w] = m[wkey[w]]]
    /\ UNCHANGED <<m, subs, setKey, pending, wkey, ctxDone>>

\* Set never looks at the subscribers.
SetStoreSilent(k, v) ==
    /\ Unlocked
    /\ m' = [m EXCEPT ![k] = v]
    /\ setKey' = k
    /\ pending' = {}
    /\ UNCHANGED <<subs, pc, wkey, got, ctxDone>>

\* Set sends to the same channel again.
SetSendAgain(w) ==
    /\ w \in pending
    /\ Goto(w, "waiting", "returned")
    /\ got' = [got EXCEPT ![w] = m[setKey]]
    /\ UNCHANGED <<m, subs, setKey, pending, wkey, ctxDone>>

\* Set keeps the channels it served.
SetUnlockKeepsSubs ==
    /\ ~Unlocked
    /\ pending = {}
    /\ setKey' = None
    /\ UNCHANGED <<m, subs, pending, pc, wkey, got, ctxDone>>

-----------------------------------------------------------------------------
\* NewAgnosticMap
Init ==
    /\ m = [k \in Keys |-> None]
    /\ subs = [k \in Keys |-> {}]
    /\ setKey = None
    /\ pending = {}
    /\ pc = [w \in Waiters |-> "idle"]
    /\ wkey \in [Waiters -> Keys]
    /\ got = [w \in Waiters |-> None]
    /\ ctxDone = FALSE

\* A goroutine calls Wait and queues for the mutex.
CallWait(w, k) ==
    /\ Goto(w, "idle", "locking")
    /\ wkey' = [wkey EXCEPT ![w] = k]
    /\ UNCHANGED <<m, subs, setKey, pending, got, ctxDone>>

\* Wait finds the value, or else subscribes; both release the mutex.
WaitHit(w) ==
    /\ Unlocked
    /\ m[wkey[w]] # None
    /\ Goto(w, "locking", "returned")
    /\ got' = [got EXCEPT ![w] = m[wkey[w]]]
    /\ UNCHANGED <<m, subs, setKey, pending, wkey, ctxDone>>

WaitMiss(w) ==
    /\ Unlocked
    /\ m[wkey[w]] = None
    /\ Goto(w, "locking", "waiting")
    /\ subs' = [subs EXCEPT ![wkey[w]] = @ \union {w}]
    /\ UNCHANGED <<m, setKey, pending, wkey, got, ctxDone>>

\* The ctx.Done branch of Wait's select: an error for the caller.  The
\* channel stays registered.
WaitCancelled(w) ==
    /\ ctxDone
    /\ Goto(w, "waiting", "failed")
    /\ got' = [got EXCEPT ![w] = None]
    /\ UNCHANGED <<m, subs, setKey, pending, wkey, ctxDone>>

\* The caller carries on with the block or the state it was given; a caller
\* that was given an error returns for good.
Resume(w) ==
    /\ Goto(w, "returned", "idle")
    /\ UNCHANGED <<m, subs, setKey, pending, wkey, got, ctxDone>>

\* Set: lock and store, then one send per channel, then forget the channels
\* and unlock.
SetStore(k, v) ==
    /\ Unlocked
    /\ m' = [m EXCEPT ![k] = v]
    /\ setKey' = k
    /\ pending' = subs[k]
    /\ UNCHANGED <<subs, pc, wkey, got, ctxDone>>

\* sub <- m.m[key] and item := <-ch meet: the channel has no buffer.
SetSend(w) ==
    /\ w \in pending
    /\ Goto(w, "waiting", "returned")
    /\ got' = [got EXCEPT ![w] = m[setKey]]
    /\ pending' = pending \ {w}
    /\ UNCHANGED <<m, subs, setKey, wkey, ctxDone>>

SetUnlock ==
    /\ ~Unlocked
    /\ pending = {}
    /\ subs' = [subs EXCEPT ![setKey] = {}]
    /\ setKey' = None
    /\ UNCHANGED <<m, pending, pc, wkey, got, ctxDone>>

\* Delete refuses a key that has subscribers.
Delete(k) ==
    /\ Unlocked
    /\ m[k] # None
    /\ subs[k] = {}
    /\ m' = [m EXCEPT ![k] = None]
    /\ UNCHANGED <<subs, setKey, pending, pc, wkey, got, ctxDone>>

\* s.cancel(), by Close or by a failed download.
Cancel ==
    /\ ~ctxDone
    /\ ctxDone' = TRUE
    /\ UNCHANGED <<m, subs, setKey, pending, pc, wkey, got>>

Next ==
    \/ \E w \in Waiters, k \in Keys : CallWait(w, k)
    \/ \E w \in Waiters : WaitHit(w)
    \/ \E w \in Waiters : WaitMiss(w)
    \/ \E w \in Waiters : WaitCancelled(w)
    \/ \E w \in Waiters : Resume(w)
    \/ \E k \in Keys, v \in Values : SetStore(k, v)
    \/ \E w \in Waiters : SetSend(w)
    \/ SetUnlock
    \/ \E k \in Keys : Delete(k)
    \/ Cancel

Spec == Init /\ [][Next]_vars

\* A goroutine that holds the mutex runs on, a rendezvous whose two sides are
\* ready happens, and Go's mutex starves nobody.
Fairness ==
    /\ WF_vars(SetUnlock)
    /\ \A w \in Waiters :
          /\ WF_vars(SetSend(w))
          /\ WF_vars(WaitCancelled(w))
          /\ SF_vars(WaitHit(w) \/ WaitMiss(w))

FairSpec == Spec /\ Fairness

-----------------------------------------------------------------------------
TypeOK ==
    /\ m \in [Keys -> Values \union {None}]
    /\ subs \in [Keys -> SUBSET Waiters]
    /\ setKey \in Keys \union {None}
    /\ pending \in SUBSET Waiters
    /\ pc \in [Waiters -> {"idle", "locking", "waiting", "returned", "failed"}]
    /\ wkey \in [Waiters -> Keys]
    /\ got \in [Waiters -> Values \union {None}]
    /\ ctxDone \in BOOLEAN

\* No lost wakeup: a goroutine asleep in Wait is registered under its key,
\* and if the key has a value then the Set that stored it is still running
\* and has yet to send to it.
NoLostWakeup ==
    \A w \in Waiters : pc[w] = "waiting" =>
        /\ w \in subs[wkey[w]]
        /\ m[wkey[w]] # None => setKey = wkey[w] /\ w \in pending

\* A key with a value has no subscriber unless its Set is still running, so
\* the guard of Delete never keeps a block or a state that CleanUpTo wants to
\* evict.
EvictionNeverRefused ==
    \A k \in Keys : m[k] # None /\ k # setKey => subs[k] = {}

\* A channel is registered under the key of its call and no other, except
\* that a running Set has not yet forgotten the channels it served.
RegisteredOnce ==
    \A w \in Waiters, k \in Keys : w \in subs[k] /\ k # setKey =>
        k = wkey[w] /\ pc[w] \in {"waiting", "failed"}

\* What a running Set still has to send is the value of its key, and it owes
\* it to callers of Wait on that key; nothing is owed once it unlocks.
SetOwesItsOwn ==
    /\ Unlocked => pending = {}
    /\ ~Unlocked =>
          /\ m[setKey] # None
          /\ pending \subseteq subs[setKey]
          /\ \A w \in pending : wkey[w] = setKey /\ pc[w] \in {"waiting", "failed"}

\* A call of Wait gives a value or, only after cancellation, an error; never
\* a nil block or state, which its callers dereference.
ReturnsValue ==
    /\ \A w \in Waiters : pc[w] = "returned" => got[w] # None
    /\ \A w \in Waiters : pc[w] = "failed" => ctxDone

\* While nobody cancels the context, a waiter whose key has a value is served.
WaiterServed ==
    \A w \in Waiters :
        (pc[w] = "waiting" /\ m[wkey[w]] # None) ~> (pc[w] = "returned" \/ ctxDone)

\* While nobody cancels the context, Set comes to an end and gives the mutex
\* back: "Unlock cannot be deferred so we can unblock Set() while waiting" is
\* the code's argument that the waiters do not keep Set from it.  Once the
\* context is cancelled it is wrong: a waiter that left without taking its
\* channel along blocks the next Set of its key for good.
SetCompletes == ~Unlocked ~> (Unlocked \/ ctxDone)
=============================================================================
