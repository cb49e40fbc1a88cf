-------------------------- MODULE RoutineBookProofs --------------------------
(***************************************************************************)
(* The page book keeps within its capacity for every set of routines and   *)
(* every choice of page names, and with distinct names it loses nothing    *)
(* and hides nobody.                                                       *)
(***************************************************************************)
EXTENDS RoutineBook, FiniteSetTheorems, TLAPS

\* The routines at a label are finitely many, so that they can be counted.
LEMMA AtFinite ==
    ASSUME NEW label
    PROVE  IsFiniteSet(At(label)) /\ Cardinality(At(label)) \in Nat
<1>1. At(label) \subseteq Routines
  BY DEF At
<1>2. IsFiniteSet(At(label))
  BY <1>1, BookAssumption, FS_Subset
<1> QED
  BY <1>2, FS_CardinalityType

\* A routine that moves from one label to another leaves the one set and
\* joins the other, and every third set stays as it was.
LEMMA GotoAt ==
    ASSUME TypeOK, NEW r \in Routines, NEW from, NEW to, from # to,
           Goto(r, from, to), NEW l
    PROVE  /\ l = from => At(l)' = At(l) \ {r} /\ r \in At(l)
           /\ l = to => At(l)' = At(l) \union {r} /\ r \notin At(l)
           /\ l # from /\ l # to => At(l)' = At(l)
BY DEF TypeOK, Goto, At

\* No step changes the names.
LEMMA NamesFixed == [Next]_vars => keyOf' = keyOf
BY DEF Next, Step, Call, TakeToken, SetPage, FreePage, FreeMissingPage,
       StartWatch, SeeInactive, vars

\* Type correctness: the channel of tokens never holds fewer than none or
\* more than Size, and the map only holds named pages.
THEOREM TypeCorrect == Spec => []TypeOK
<1>1. Init => TypeOK
  BY BookAssumption DEF Init, TypeOK
<1>2. TypeOK /\ [Next]_vars => TypeOK'
  <2> SUFFICES ASSUME TypeOK, [Next]_vars PROVE TypeOK'
    OBVIOUS
  <2> USE BookAssumption DEF TypeOK, Goto
  <2>1. ASSUME NEW r \in Routines, Call(r) PROVE TypeOK'
    BY <2>1 DEF Call
  <2>2. ASSUME NEW r \in Routines, TakeToken(r) PROVE TypeOK'
    BY <2>2 DEF TakeToken
  <2>3. ASSUME NEW r \in Routines, SetPage(r) PROVE TypeOK'
    BY <2>3 DEF SetPage
  <2>4. ASSUME NEW r \in Routines, FreePage(r) PROVE TypeOK'
    BY <2>4 DEF FreePage
  <2>5. ASSUME NEW r \in Routines, FreeMissingPage(r) PROVE TypeOK'
    BY <2>5 DEF FreeMissingPage
  <2>6. ASSUME NEW w \in Watchers, NEW k \in Keys, StartWatch(w, k) PROVE TypeOK'
    BY <2>6 DEF StartWatch
  <2>7. ASSUME NEW w \in Watchers, SeeInactive(w) PROVE TypeOK'
    BY <2>7 DEF SeeInactive
  <2>8. CASE UNCHANGED vars
    BY <2>8 DEF vars
  <2> QED
    BY <2>1, <2>2, <2>3, <2>4, <2>5, <2>6, <2>7, <2>8 DEF Next, Step
<1> QED
  BY <1>1, <1>2, PTL DEF Spec

-----------------------------------------------------------------------------
\* A book never hands out more positions than it has, even when two routines
\* name the same page.  The invariant is inductive with the types alone.
THEOREM CapacityCorrect == Spec => []WithinCapacity
<1>1. Init => WithinCapacity
  <2> SUFFICES ASSUME Init PROVE WithinCapacity
    OBVIOUS
  <2>1. At("setting") = {} /\ pages = {} /\ freeSpace = Size
    BY DEF Init, At
  <2> QED
    BY <2>1, FS_EmptySet, BookAssumption DEF WithinCapacity
<1>2. TypeOK /\ WithinCapacity /\ [Next]_vars => WithinCapacity'
  <2> SUFFICES ASSUME TypeOK, WithinCapacity, [Next]_vars PROVE WithinCapacity'
    OBVIOUS
  <2>a. IsFiniteSet(pages) /\ Cardinality(pages) \in Nat
    BY BookAssumption, FS_Subset, FS_CardinalityType DEF TypeOK
  <2>b. IsFiniteSet(At("setting")) /\ Cardinality(At("setting")) \in Nat
    BY AtFinite
  <2>c. freeSpace \in Nat /\ Size \in Nat
    BY BookAssumption DEF TypeOK
  <2>1. ASSUME NEW r \in Routines, Call(r) PROVE WithinCapacity'
    <3>1. At("setting")' = At("setting")
      BY <2>1, GotoAt DEF Call
    <3> QED
      BY <2>1, <3>1 DEF Call, WithinCapacity
  <2>2. ASSUME NEW r \in Routines, TakeToken(r) PROVE WithinCapacity'
    <3>1. At("setting")' = At("setting") \union {r} /\ r \notin At("setting")
      BY <2>2, GotoAt DEF TakeToken
    <3>2. Cardinality(At("setting")') = Cardinality(At("setting")) + 1
      BY <3>1, <2>b, FS_AddElement
    <3>3. freeSpace' = freeSpace - 1 /\ pages' = pages
      BY <2>2 DEF TakeToken
    <3> QED
      BY <3>2, <3>3, <2>a, <2>b, <2>c DEF WithinCapacity
  <2>3. ASSUME NEW r \in Routines, SetPage(r) PROVE WithinCapacity'
    <3>1. At("setting")' = At("setting") \ {r} /\ r \in At("setting")
      BY <2>3, GotoAt DEF SetPage
    <3>2. Cardinality(At("setting")') = Cardinality(At("setting")) - 1
      BY <3>1, <2>b, FS_RemoveElement
    <3>3. pages' = pages \union {keyOf[r]} /\ freeSpace' = freeSpace
      BY <2>3 DEF SetPage
    <3>4. Cardinality(pages') \in {Cardinality(pages), Cardinality(pages) + 1}
      BY <3>3, <2>a, FS_AddElement
    <3> QED
      BY <3>2, <3>3, <3>4, <2>a, <2>b, <2>c DEF WithinCapacity
  <2>4. ASSUME NEW r \in Routines, FreePage(r) PROVE WithinCapacity'
    <3>1. At("setting")' = At("setting")
      BY <2>4, GotoAt DEF FreePage
    <3>2. keyOf[r] \in pages /\ pages' = pages \ {keyOf[r]} /\ freeSpace' = freeSpace + 1
      BY <2>4 DEF FreePage
    <3>3. Cardinality(pages') = Cardinality(pages) - 1
      BY <3>2, <2>a, FS_RemoveElement
    <3> QED
      BY <3>1, <3>2, <3>3, <2>a, <2>b, <2>c DEF WithinCapacity
  <2>5. ASSUME NEW r \in Routines, FreeMissingPage(r) PROVE WithinCapacity'
    <3>1. At("setting")' = At("setting")
      BY <2>5, GotoAt DEF FreeMissingPage
    <3> QED
      BY <2>5, <3>1 DEF FreeMissingPage, WithinCapacity
  <2>6. ASSUME UNCHANGED <<pages, freeSpace, pc>> PROVE WithinCapacity'
    BY <2>6 DEF WithinCapacity, At
  <2> QED
    BY <2>1, <2>2, <2>3, <2>4, <2>5, <2>6
       DEF Next, Step, StartWatch, SeeInactive, vars
<1> QED
  BY <1>1, <1>2, TypeCorrect, PTL DEF Spec

\* FreePage never waits for room in the channel while it holds the lock.
THEOREM FreeNeverBlocks == Spec => []SendNeverBlocks
<1>1. TypeOK /\ WithinCapacity => SendNeverBlocks
  <2> SUFFICES ASSUME TypeOK, WithinCapacity, pages # {} PROVE freeSpace < Size
    BY DEF SendNeverBlocks
  <2>1. IsFiniteSet(pages) /\ Cardinality(pages) \in Nat
    BY BookAssumption, FS_Subset, FS_CardinalityType DEF TypeOK
  <2>2. Cardinality(pages) # 0
    BY <2>1, FS_EmptySet
  <2>3. Cardinality(At("setting")) \in Nat
    BY AtFinite
  <2> QED
    BY <2>1, <2>2, <2>3, BookAssumption DEF TypeOK, WithinCapacity
<1> QED
  BY <1>1, TypeCorrect, CapacityCorrect, PTL

-----------------------------------------------------------------------------
\* With distinct names the map shows exactly the routines that work.
THEOREM HoldersAreVisible == Spec => []HolderVisible
<1>1. Init => HolderVisible
  BY DEF Init, HolderVisible
<1>2. TypeOK /\ HolderVisible /\ [Next]_vars => HolderVisible'
  <2> SUFFICES ASSUME TypeOK, HolderVisible, [Next]_vars, DistinctKeys
               PROVE  \A s \in Routines : pc'[s] = "working" <=> keyOf[s] \in pages'
    BY NamesFixed DEF HolderVisible, DistinctKeys
  <2> TAKE s \in Routines
  <2> USE DEF TypeOK, HolderVisible, Goto
  <2>1. ASSUME NEW r \in Routines, Call(r)
        PROVE  pc'[s] = "working" <=> keyOf[s] \in pages'
    BY <2>1 DEF Call
  <2>2. ASSUME NEW r \in Routines, TakeToken(r)
        PROVE  pc'[s] = "working" <=> keyOf[s] \in pages'
    BY <2>2 DEF TakeToken
  <2>3. ASSUME NEW r \in Routines, SetPage(r)
        PROVE  pc'[s] = "working" <=> keyOf[s] \in pages'
    BY <2>3 DEF SetPage, DistinctKeys
  <2>4. ASSUME NEW r \in Routines, FreePage(r)
        PROVE  pc'[s] = "working" <=> keyOf[s] \in pages'
    BY <2>4 DEF FreePage, DistinctKeys
  <2>5. ASSUME NEW r \in Routines, FreeMissingPage(r)
        PROVE  pc'[s] = "working" <=> keyOf[s] \in pages'
    BY <2>5 DEF FreeMissingPage
  <2>6. ASSUME UNCHANGED <<pages, pc>>
        PROVE  pc'[s] = "working" <=> keyOf[s] \in pages'
    BY <2>6
  <2> QED
    BY <2>1, <2>2, <2>3, <2>4, <2>5, <2>6
       DEF Next, Step, StartWatch, SeeInactive, vars
<1> QED
  BY <1>1, <1>2, TypeCorrect, PTL DEF Spec

\* With distinct names WaitUntilInactive returns only when the routine of
\* that name is not at work.
THEOREM WatchIsSound == Spec => WatchSound
<1>1. TypeOK /\ HolderVisible /\ [Next]_vars =>
        [DistinctKeys =>
           \A w \in Watchers, r \in Routines :
              SeeInactive(w) /\ watch[w] = keyOf[r] => pc[r] # "working"]_vars
  BY DEF HolderVisible, SeeInactive
<1> QED
  BY <1>1, TypeCorrect, HoldersAreVisible, PTL DEF Spec, WatchSound

\* The positions in use: a routine that took a token and has not freed it.
InUse == At("setting") \union At("working")

\* With distinct names no token is ever lost.  HolderVisible is what rules
\* out a FreePage that finds no page.
THEOREM TokensConserved == Spec => []NothingLost
<1>1. Init => NothingLost
  <2> SUFFICES ASSUME Init PROVE freeSpace + Cardinality(InUse) = Size
    BY DEF NothingLost, InUse
  <2>1. InUse = {} /\ freeSpace = Size
    BY DEF Init, At, InUse
  <2> QED
    BY <2>1, FS_EmptySet, BookAssumption
<1>2. TypeOK /\ HolderVisible /\ NothingLost /\ [Next]_vars => NothingLost'
  <2> SUFFICES ASSUME TypeOK, HolderVisible, [Next]_vars, DistinctKeys,
                      freeSpace + Cardinality(InUse) = Size
               PROVE  freeSpace' + Cardinality(InUse') = Size
    BY NamesFixed DEF NothingLost, InUse, DistinctKeys
  <2>a. IsFiniteSet(InUse) /\ Cardinality(InUse) \in Nat
    BY AtFinite, FS_Union, FS_CardinalityType DEF InUse
  <2>b. freeSpace \in Nat /\ Size \in Nat
    BY BookAssumption DEF TypeOK
  <2> USE DEF TypeOK, Goto
  <2>1. ASSUME NEW r \in Routines, Call(r)
        PROVE  freeSpace' + Cardinality(InUse') = Size
    <3>1. InUse' = InUse /\ freeSpace' = freeSpace
      BY <2>1 DEF Call, At, InUse
    <3> QED
      BY <3>1
  <2>2. ASSUME NEW r \in Routines, TakeToken(r)
        PROVE  freeSpace' + Cardinality(InUse') = Size
    <3>1. InUse' = InUse \union {r} /\ r \notin InUse /\ freeSpace' = freeSpace - 1
      BY <2>2 DEF TakeToken, At, InUse
    <3>2. Cardinality(InUse') = Cardinality(InUse) + 1
      BY <3>1, <2>a, FS_AddElement
    <3> QED
      BY <3>1, <3>2, <2>a, <2>b
  <2>3. ASSUME NEW r \in Routines, SetPage(r)
        PROVE  freeSpace' + Cardinality(InUse') = Size
    <3>1. InUse' = InUse /\ freeSpace' = freeSpace
      BY <2>3 DEF SetPage, At, InUse
    <3> QED
      BY <3>1
  <2>4. ASSUME NEW r \in Routines, FreePage(r)
        PROVE  freeSpace' + Cardinality(InUse') = Size
    <3>1. InUse' = InUse \ {r} /\ r \in InUse /\ freeSpace' = freeSpace + 1
      BY <2>4 DEF FreePage, At, InUse
    <3>2. Cardinality(InUse') = Cardinality(InUse) - 1
      BY <3>1, <2>a, FS_RemoveElement
    <3> QED
      BY <3>1, <3>2, <2>a, <2>b
  <2>5. ASSUME NEW r \in Routines, FreeMissingPage(r)
        PROVE  FALSE
    BY <2>5 DEF FreeMissingPage, HolderVisible
  <2>6. ASSUME UNCHANGED <<pc, freeSpace>>
        PROVE  freeSpace' + Cardinality(InUse') = Size
    <3>1. InUse' = InUse /\ freeSpace' = freeSpace
      BY <2>6 DEF At, InUse
    <3> QED
      BY <3>1
  <2> QED
    BY <2>1, <2>2, <2>3, <2>4, <2>5, <2>6
       DEF Next, Step, StartWatch, SeeInactive, vars
<1> QED
  BY <1>1, <1>2, TypeCorrect, HoldersAreVisible, PTL DEF Spec
=============================================================================
