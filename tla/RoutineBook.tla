----------------------------- MODULE RoutineBook -----------------------------
(***************************************************************************)
(* The page book of pkg/utils/book.go: a bounded set of named pages that   *)
(* limits how many goroutines work at once and lets others ask by name     *)
(* whether somebody is still working.  freeSpaceChan is a buffered channel *)
(* that holds one token per free position; its content carries no data, so *)
(* the channel is its length.                                              *)
(*                                                                         *)
(* A routine r names its page keyOf[r].  The code does not stop two        *)
(* routines from naming the same page, and neither does this module: the   *)
(* names are any names, given in the initial state, and DistinctKeys is an *)
(* hypothesis of the properties that need it.                              *)
(***************************************************************************)
EXTENDS Integers, FiniteSets

CONSTANTS
    Routines,   \* goroutines that bracket their work with Acquire and FreePage
    Watchers,   \* goroutines that call WaitUntilInactive
    Keys,       \* page names ("slot=12", "epoch=3", ...)
    Size,       \* capacity of the book
    Nothing     \* no key

ASSUME BookAssumption ==
    /\ IsFiniteSet(Routines)
    /\ IsFiniteSet(Keys)
    /\ Size \in Nat \ {0}
    /\ Nothing \notin Keys

VARIABLES
    pages,      \* keys of the map r.pages
    freeSpace,  \* len(r.freeSpaceChan)
    pc,         \* where each routine stands
    watch,      \* the key a watcher waits for, or Nothing
    keyOf       \* the page each routine names

vars == <<pages, freeSpace, pc, watch, keyOf>>

\* No two routines name the same page.
DistinctKeys == \A r, s \in Routines : keyOf[r] = keyOf[s] => r = s

At(label) == {r \in Routines : pc[r] = label}

Goto(r, from, to) ==
    /\ pc[r] = from
    /\ pc' = [pc EXCEPT ![r] = to]

-----------------------------------------------------------------------------
(* Faulty forms of the operations below, to test the properties with.      *)

\* Acquire does not wait for a token.
TakeTokenUnchecked(r) ==
    /\ Goto(r, "acquiring", "setting")
    /\ freeSpace' = freeSpace - 1
    /\ UNCHANGED <<pages, watch, keyOf>>

\* Acquire does not write its page.
SetPageForgotten(r) ==
    /\ Goto(r, "setting", "working")
    /\ UNCHANGED <<pages, freeSpace, watch, keyOf>>

\* FreePage keeps the token.
FreePageNoToken(r) ==
    /\ Goto(r, "working", "idle")
    /\ keyOf[r] \in pages
    /\ pages' = pages \ {keyOf[r]}
    /\ UNCHANGED <<freeSpace, watch, keyOf>>

\* FreePage does not delete the page.
FreePageKept(r) ==
    /\ Goto(r, "working", "idle")
    /\ keyOf[r] \in pages
    /\ freeSpace < Size
    /\ freeSpace' = freeSpace + 1
    /\ UNCHANGED <<pages, watch, keyOf>>

-----------------------------------------------------------------------------
\* NewRoutineBook and Init: an empty map, and a token for every position.
Init ==
    /\ pages = {}
    /\ freeSpace = Size
    /\ pc = [r \in Routines |-> "idle"]
    /\ watch = [w \in Watchers |-> Nothing]
    /\ keyOf \in [Routines -> Keys]

\* A goroutine reaches its call of Acquire.
Call(r) ==
    /\ Goto(r, "idle", "acquiring")
    /\ UNCHANGED <<pages, freeSpace, watch, keyOf>>

\* Acquire, first step: receive a token.  The book is not locked here.
TakeToken(r) ==
    /\ freeSpace > 0
    /\ Goto(r, "acquiring", "setting")
    /\ freeSpace' = freeSpace - 1
    /\ UNCHANGED <<pages, watch, keyOf>>

\* Acquire, second step: Set(key, "active") under the lock.
SetPage(r) ==
    /\ Goto(r, "setting", "working")
    /\ pages' = pages \union {keyOf[r]}
    /\ UNCHANGED <<freeSpace, watch, keyOf>>

\* FreePage of a page that exists: delete it and give the token back.  The
\* send happens with the lock held, and waits while the channel is full.
FreePage(r) ==
    /\ Goto(r, "working", "idle")
    /\ keyOf[r] \in pages
    /\ freeSpace < Size
    /\ pages' = pages \ {keyOf[r]}
    /\ freeSpace' = freeSpace + 1
    /\ UNCHANGED <<watch, keyOf>>

\* FreePage of a page that is not in the map: nothing is given back.
FreeMissingPage(r) ==
    /\ Goto(r, "working", "idle")
    /\ keyOf[r] \notin pages
    /\ UNCHANGED <<pages, freeSpace, watch, keyOf>>

\* WaitUntilInactive(k): poll the map on every tick until k is not there.
StartWatch(w, k) ==
    /\ watch[w] = Nothing
    /\ watch' = [watch EXCEPT ![w] = k]
    /\ UNCHANGED <<pages, freeSpace, pc, keyOf>>

SeeInactive(w) ==
    /\ watch[w] # Nothing
    /\ watch[w] \notin pages
    /\ watch' = [watch EXCEPT ![w] = Nothing]
    /\ UNCHANGED <<pages, freeSpace, pc, keyOf>>

\* NumFreePages, which the dispatch loops read: not the length of the channel.
NumFreePages == Size - Cardinality(pages)

Step(r) ==
    Call(r) \/ TakeToken(r) \/ SetPage(r) \/ FreePage(r) \/ FreeMissingPage(r)

Next ==
    \/ \E r \in Routines : Step(r)
    \/ \E w \in Watchers, k \in Keys : StartWatch(w, k)
    \/ \E w \in Watchers : SeeInactive(w)

Spec == Init /\ [][Next]_vars

\* Receivers blocked on a Go channel are served first come first served, so a
\* token that keeps coming back reaches every one of them: strong fairness of
\* TakeToken.  The work between Acquire and FreePage ends, and a mutex is
\* granted: weak fairness of the rest.  Nobody has to call Acquire.
Fairness ==
    /\ \A r \in Routines :
          /\ SF_vars(TakeToken(r))
          /\ WF_vars(SetPage(r))
          /\ WF_vars(FreePage(r) \/ FreeMissingPage(r))
    /\ \A w \in Watchers : WF_vars(SeeInactive(w))

FairSpec == Spec /\ Fairness

-----------------------------------------------------------------------------
TypeOK ==
    /\ pages \subseteq Keys
    /\ freeSpace \in 0..Size
    /\ pc \in [Routines -> {"idle", "acquiring", "setting", "working"}]
    /\ watch \in [Watchers -> Keys \union {Nothing}]
    /\ keyOf \in [Routines -> Keys]

\* Every position is a token, a page, or a token on its way to becoming a
\* page, and there are never more of them than the book has, whatever names
\* the routines use.
WithinCapacity == freeSpace + Cardinality(pages) + Cardinality(At("setting")) <= Size

\* FreePage sends its token while it holds the lock; were the channel full,
\* the whole book would be stuck.  A page to free always leaves room for it.
SendNeverBlocks == pages # {} => freeSpace < Size

\* With distinct names the map shows exactly the routines that work, so that
\* ActivePages does not read 0, nor CheckPageActive false, under one of them.
HolderVisible ==
    DistinctKeys => \A r \in Routines : pc[r] = "working" <=> keyOf[r] \in pages

\* With distinct names WaitUntilInactive(k) never returns while the routine
\* that named k is between its Acquire and its FreePage.
WatchSound ==
    [][DistinctKeys =>
         \A w \in Watchers, r \in Routines :
            SeeInactive(w) /\ watch[w] = keyOf[r] => pc[r] # "working"]_vars

\* With distinct names no position is ever lost: what is not in use is a
\* token in the channel.
NothingLost ==
    DistinctKeys => freeSpace + Cardinality(At("setting") \union At("working")) = Size

\* With distinct names every call of Acquire is answered.
AcquireAnswered ==
    DistinctKeys => \A r \in Routines : pc[r] = "acquiring" ~> pc[r] = "working"

\* What the comment on freeSpaceChan says of it ("indicates the free position
\* in the array"): once nobody is inside the book, each free position of the
\* map has its token.
TokensIndicateFreePages ==
    At("idle") = Routines => freeSpace = NumFreePages
=============================================================================
