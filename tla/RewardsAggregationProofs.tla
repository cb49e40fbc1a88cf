----------------------- MODULE RewardsAggregationProofs -----------------------
(***************************************************************************)
(* A row of the aggregation table is the sum of exactly the epochs it      *)
(* names, in any order of processing and across restarts; in one run the   *)
(* rows tile the epochs, and with epochs in order none is dropped.         *)
(***************************************************************************)
EXTENDS RewardsAggregation, FiniteSetTheorems, TLAPS

\* The interval of a window has as many epochs as the window is long.
LEMMA WindowSize ==
    ASSUME NEW a \in Nat, NEW b \in Nat, b = a + N - 1
    PROVE  IsFiniteSet(a..b) /\ Cardinality(a..b) = N
<1>1. N \in Nat \ {0}
  BY AggregationAssumption DEF N
<1>2. a <= b /\ b - a + 1 = N
  BY <1>1
<1> QED
  BY <1>1, <1>2, FS_Interval

\* Epochs of a window that are as many as the window is long are all of it.
LEMMA FullWindow ==
    ASSUME NEW a \in Nat, NEW b \in Nat, b = a + N - 1,
           NEW S, S \subseteq a..b, Cardinality(S) >= N
    PROVE  S = a..b
<1>1. IsFiniteSet(a..b) /\ Cardinality(a..b) = N /\ N \in Nat
  BY WindowSize, AggregationAssumption DEF N
<1>2. /\ IsFiniteSet(S)
      /\ Cardinality(S) <= Cardinality(a..b)
      /\ Cardinality(S) = Cardinality(a..b) => S = a..b
  BY <1>1, FS_Subset
<1>3. Cardinality(S) \in Nat
  BY <1>2, FS_CardinalityType
<1> QED
  BY <1>1, <1>2, <1>3

\* Adding an epoch to the total adds it to the epochs of the total.
LEMMA AppendEpoch ==
    ASSUME NEW t \in Seq(Entry), NEW x \in Entry
    PROVE  /\ Append(t, x) \in Seq(Entry)
           /\ Len(Append(t, x)) = Len(t) + 1
           /\ {Append(t, x)[i].epoch : i \in 1..Len(Append(t, x))}
                = {t[i].epoch : i \in 1..Len(t)} \union {x.epoch}
<1> DEFINE u == Append(t, x)
<1>1. /\ u \in Seq(Entry)
      /\ Len(u) = Len(t) + 1
      /\ Len(t) \in Nat
      /\ \A i \in 1..Len(t) : u[i] = t[i]
      /\ u[Len(t) + 1] = x
  OBVIOUS
<1> HIDE DEF u
<1>2. 1..Len(u) = 1..Len(t) \union {Len(t) + 1}
  BY <1>1
<1>3. {u[i].epoch : i \in 1..Len(u)} = {t[i].epoch : i \in 1..Len(t)} \union {x.epoch}
  BY <1>1, <1>2
<1> QED
  BY <1>1, <1>3 DEF u

-----------------------------------------------------------------------------
\* The three cases of the critical section, with what each does to the
\* window, spelled out once for all the invariants.
LEMMA AggregateCases ==
    ASSUME TypeOK, WindowExact, NEW e \in Epochs, NEW v \in 1..MaxVersion,
           Aggregate(e, v)
    PROVE  LET total == Append(sum, [epoch |-> e, version |-> v]) IN
           \/ /\ ~Accepts(e)
              /\ UNCHANGED window
           \/ /\ Accepts(e)
              /\ seen \union {e} = startEpoch..endEpoch
              /\ total \in Seq(Entry) /\ Len(total) = N
              /\ {total[i].epoch : i \in 1..Len(total)} = startEpoch..endEpoch
              /\ Flush(total)
           \/ /\ Accepts(e)
              /\ seen' = seen \union {e}
              /\ Cardinality(seen') = Cardinality(seen) + 1
              /\ Cardinality(seen') < N
              /\ seen' \subseteq startEpoch..endEpoch
              /\ total \in Seq(Entry) /\ Len(total) = Cardinality(seen')
              /\ {total[i].epoch : i \in 1..Len(total)} = seen'
              /\ sum' = total
              /\ UNCHANGED <<startEpoch, endEpoch, flushed>>
<1> DEFINE x == [epoch |-> e, version |-> v]
           total == Append(sum, x)
<1>1. CASE ~Accepts(e)
  BY <1>1 DEF Aggregate
<1>2. CASE Accepts(e)
  <2>1. x \in Entry /\ x.epoch = e
    BY DEF Entry
  <2>2. sum \in Seq(Entry) /\ startEpoch \in Nat /\ endEpoch \in Nat
    BY DEF TypeOK
  <2>3. /\ total \in Seq(Entry)
        /\ Len(total) = Len(sum) + 1
        /\ {total[i].epoch : i \in 1..Len(total)} = {sum[i].epoch : i \in 1..Len(sum)} \union {x.epoch}
    BY <2>1, <2>2, AppendEpoch
  <2>4. /\ seen = {sum[i].epoch : i \in 1..Len(sum)}
        /\ Len(sum) = Cardinality(seen)
        /\ seen \subseteq startEpoch..endEpoch
        /\ endEpoch = startEpoch + N - 1
        /\ Len(sum) < N
    BY DEF WindowExact
  <2>5. {total[i].epoch : i \in 1..Len(total)} = seen \union {e}
    BY <2>1, <2>3, <2>4
  <2>6. IsFiniteSet(seen) /\ Cardinality(seen) \in Nat
    BY <2>2, <2>4, WindowSize, FS_Subset, FS_CardinalityType
  <2>7. e \notin seen /\ e \in startEpoch..endEpoch
    BY <1>2, <2>2 DEF Accepts, Epochs
  <2>8. Cardinality(seen \union {e}) = Cardinality(seen) + 1
    BY <2>6, <2>7, FS_AddElement
  <2>9. seen \union {e} \subseteq startEpoch..endEpoch
    BY <2>4, <2>7
  <2>10. N \in Nat
    BY AggregationAssumption DEF N
  <2> HIDE DEF total, x
  <2>11. CASE WindowFull(seen \union {e})
    <3>1. Cardinality(seen \union {e}) >= N
      BY <2>11 DEF WindowFull
    <3>2. seen \union {e} = startEpoch..endEpoch
      BY <3>1, <2>2, <2>4, <2>9, FullWindow
    <3>3. Len(total) = N
      BY <3>1, <2>3, <2>4, <2>6, <2>8, <2>10
    <3>4. Flush(total)
      BY <1>2, <2>11 DEF Aggregate, total, x
    <3> QED
      BY <1>2, <2>3, <2>5, <3>2, <3>3, <3>4 DEF total, x
  <2>12. CASE ~WindowFull(seen \union {e})
    <3>1. Cardinality(seen \union {e}) < N
      BY <2>12, <2>6, <2>8, <2>10 DEF WindowFull
    <3>2. seen' = seen \union {e} /\ sum' = total /\ UNCHANGED <<startEpoch, endEpoch, flushed>>
      BY <1>2, <2>12 DEF Aggregate, total, x
    <3>3. Len(total) = Cardinality(seen')
      BY <3>2, <2>3, <2>4, <2>8
    <3> QED
      BY <1>2, <2>3, <2>5, <2>8, <2>9, <3>1, <3>2, <3>3 DEF total, x
  <2> QED
    BY <2>11, <2>12
<1> QED
  BY <1>1, <1>2

-----------------------------------------------------------------------------
\* What the critical section keeps: the types of the window's variables, the
\* exactness of the window and that of the rows.
LEMMA AggregateKeeps ==
    ASSUME TypeOK, WindowExact, RowExact, NEW e \in Epochs, NEW v \in 1..MaxVersion,
           Aggregate(e, v)
    PROVE  /\ startEpoch' \in Nat /\ endEpoch' \in Nat
           /\ seen' \subseteq Epochs
           /\ sum' \in Seq(Entry)
           /\ flushed' \subseteq [start : Nat, end : Nat, sum : Seq(Entry)]
           /\ WindowExact'
           /\ RowExact'
<1> DEFINE total == Append(sum, [epoch |-> e, version |-> v])
<1>1. N \in Nat \ {0}
  BY AggregationAssumption DEF N
<1>2. CASE UNCHANGED window
  BY <1>2 DEF window, TypeOK, WindowExact, RowExact
<1>3. CASE /\ Accepts(e)
           /\ total \in Seq(Entry) /\ Len(total) = N
           /\ {total[i].epoch : i \in 1..Len(total)} = startEpoch..endEpoch
           /\ Flush(total)
  <2>1. /\ seen' = {} /\ sum' = <<>>
        /\ startEpoch' = endEpoch + 1 /\ endEpoch' = endEpoch + N
    BY <1>3 DEF Flush
  <2>2. WindowExact'
    BY <2>1, <1>1, FS_EmptySet DEF WindowExact, TypeOK
  <2>3. DEFINE row == [start |-> startEpoch, end |-> endEpoch, sum |-> total]
  <2>4. /\ flushed' = flushed \union {row}
        /\ row \in [start : Nat, end : Nat, sum : Seq(Entry)]
        /\ row.start = startEpoch /\ row.end = endEpoch /\ row.sum = total
    BY <1>3 DEF Flush, TypeOK
  <2> HIDE DEF row, total
  <2>5. RowExact'
    BY <1>3, <2>4 DEF RowExact, WindowExact
  <2> QED
    BY <2>1, <2>2, <2>4, <2>5, <1>1 DEF TypeOK
<1>4. CASE /\ seen' = seen \union {e}
           /\ Cardinality(seen') < N
           /\ seen' \subseteq startEpoch..endEpoch
           /\ total \in Seq(Entry) /\ Len(total) = Cardinality(seen')
           /\ {total[i].epoch : i \in 1..Len(total)} = seen'
           /\ sum' = total
           /\ UNCHANGED <<startEpoch, endEpoch, flushed>>
  <2> HIDE DEF total
  <2> QED
    BY <1>4 DEF TypeOK, WindowExact, RowExact
<1> QED
  BY <1>2, <1>3, <1>4, AggregateCases

\* Types, window and rows are one inductive invariant: a row is exact because
\* the window it came from was.
Exact == TypeOK /\ WindowExact /\ RowExact

\* Every row of the table sums exactly the epochs it names.
THEOREM ExactCorrect == Spec => []Exact
<1>1. Init => Exact
  <2> SUFFICES ASSUME Init PROVE Exact
    OBVIOUS
  <2>1. N \in Nat \ {0, 1}
    BY AggregationAssumption DEF N
  <2>2. WindowExact
    BY <2>1, FS_EmptySet, AggregationAssumption DEF Init, WindowExact
  <2> QED
    BY <2>1, <2>2, AggregationAssumption DEF Init, Exact, TypeOK, RowExact, Epochs
<1>2. Exact /\ [Next]_vars => Exact'
  <2> SUFFICES ASSUME Exact, [Next]_vars PROVE Exact'
    OBVIOUS
  <2>1. ASSUME NEW e \in Epochs, ProcessEpoch(e) PROVE Exact'
    <3>1. Aggregate(e, chain[e]) /\ chain[e] \in 1..MaxVersion
      BY <2>1 DEF ProcessEpoch, Exact, TypeOK
    <3>2. rows' \in [Epochs -> 0..MaxVersion] /\ chain' \in [Epochs -> 1..MaxVersion]
      BY <2>1 DEF ProcessEpoch, Exact, TypeOK
    <3>3. firstEpoch' \in Nat /\ processed' \subseteq Epochs
      BY <2>1 DEF ProcessEpoch, Exact, TypeOK
    <3> QED
      BY <3>1, <3>2, <3>3, AggregateKeeps DEF Exact, TypeOK
  <2>2. ASSUME NEW e \in Epochs, ReprocessEpoch(e) PROVE Exact'
    <3>1. Aggregate(e, chain[e]) /\ chain[e] \in 1..MaxVersion
      BY <2>2 DEF ReprocessEpoch, Exact, TypeOK
    <3>2. rows' \in [Epochs -> 0..MaxVersion] /\ chain' \in [Epochs -> 1..MaxVersion]
      BY <2>2, AggregationAssumption DEF ReprocessEpoch, Exact, TypeOK
    <3>3. firstEpoch' \in Nat /\ processed' \subseteq Epochs
      BY <2>2 DEF ReprocessEpoch, Exact, TypeOK
    <3> QED
      BY <3>1, <3>2, <3>3, AggregateKeeps DEF Exact, TypeOK
  <2>3. ASSUME NEW e \in Epochs, Reorg(e) PROVE Exact'
    <3>1. chain' \in [Epochs -> 1..MaxVersion]
      BY <2>3, AggregationAssumption DEF Reorg, Exact, TypeOK
    <3> QED
      BY <2>3, <3>1 DEF Reorg, Exact, TypeOK, WindowExact, RowExact
  <2>4. ASSUME NEW e \in Epochs, Restart(e) PROVE Exact'
    <3>1. N \in Nat \ {0, 1} /\ e \in Nat
      BY AggregationAssumption DEF N, Epochs
    <3>2. WindowExact'
      BY <2>4, <3>1, FS_EmptySet DEF Restart, WindowExact
    <3> QED
      BY <2>4, <3>1, <3>2 DEF Restart, Exact, TypeOK, RowExact
  <2>5. CASE UNCHANGED vars
    BY <2>5 DEF vars, Exact, TypeOK, WindowExact, RowExact
  <2> QED
    BY <2>1, <2>2, <2>3, <2>4, <2>5 DEF Next, Operate
<1> QED
  BY <1>1, <1>2, PTL DEF Spec

\* A single run is a run with no restart, so all of the above holds in it.
LEMMA RunIsExact == RunSpec => []Exact
<1>1. [Operate]_vars => [Next]_vars
  BY DEF Next
<1> QED
  BY <1>1, ExactCorrect, PTL DEF RunSpec, Spec

\* The exactness of rows by itself, restarts included.
THEOREM RowsAreExact == Spec => []RowExact
<1>1. Exact => RowExact
  BY DEF Exact
<1> QED
  BY <1>1, ExactCorrect, PTL

\* The running total holds the epochs seen, each once, restarts included.
THEOREM WindowsAreExact == Spec => []WindowExact
<1>1. Exact => WindowExact
  BY DEF Exact
<1> QED
  BY <1>1, ExactCorrect, PTL

-----------------------------------------------------------------------------
\* The window only moves forward.
WindowAhead == First <= startEpoch

\* The critical section keeps the rows disjoint and without a gap.
LEMMA AggregateTiles ==
    ASSUME Exact, RowsTile, WindowAhead, NEW e \in Epochs, NEW v \in 1..MaxVersion,
           Aggregate(e, v)
    PROVE  RowsTile' /\ WindowAhead'
<1> DEFINE total == Append(sum, [epoch |-> e, version |-> v])
<1>1. N \in Nat \ {0} /\ First \in Nat
  BY AggregationAssumption DEF N
<1>2. CASE UNCHANGED <<startEpoch, endEpoch, flushed>>
  BY <1>2 DEF RowsTile, WindowAhead
<1>3. CASE Flush(total)
  <2> DEFINE row == [start |-> startEpoch, end |-> endEpoch, sum |-> total]
  <2>1. /\ flushed' = flushed \union {row}
        /\ startEpoch' = endEpoch + 1
        /\ row.start = startEpoch /\ row.end = endEpoch
    BY <1>3 DEF Flush
  <2> HIDE DEF row
  <2>2. /\ startEpoch \in Nat /\ endEpoch \in Nat /\ endEpoch = startEpoch + N - 1
        /\ \A f \in flushed : f.start \in Nat /\ f.end \in Nat
    BY DEF Exact, TypeOK, WindowExact
  <2>3. \A f, g \in flushed' : f = g \/ f.end < g.start \/ g.end < f.start
    BY <2>1, <2>2 DEF RowsTile
  <2>4. \A f \in flushed' : f.end < startEpoch'
    BY <2>1, <2>2, <1>1 DEF RowsTile
  <2>5. ASSUME NEW d \in First..(startEpoch' - 1)
        PROVE  \E f \in flushed' : d \in f.start..f.end
    <3>1. CASE d < startEpoch
      BY <3>1, <2>1, <2>2, <1>1 DEF RowsTile
    <3>2. CASE d >= startEpoch
      <4>1. d \in row.start..row.end
        BY <3>2, <2>1, <2>2, <1>1
      <4> QED
        BY <4>1, <2>1
    <3> QED
      BY <3>1, <3>2, <2>2, <1>1
  <2>6. WindowAhead'
    BY <2>1, <2>2, <1>1 DEF WindowAhead
  <2> QED
    BY <2>3, <2>4, <2>5, <2>6 DEF RowsTile
<1> QED
  BY <1>2, <1>3, AggregateCases DEF Exact, window

\* In one run the rows tile the epochs up to the current window.
THEOREM RowsTileEpochs == RunSpec => [](RowsTile /\ WindowAhead)
<1>1. Init => RowsTile /\ WindowAhead
  BY AggregationAssumption DEF Init, RowsTile, WindowAhead
<1>2. Exact /\ RowsTile /\ WindowAhead /\ [Operate]_vars => RowsTile' /\ WindowAhead'
  <2> SUFFICES ASSUME Exact, RowsTile, WindowAhead, [Operate]_vars
               PROVE  RowsTile' /\ WindowAhead'
    OBVIOUS
  <2>1. ASSUME NEW e \in Epochs, ProcessEpoch(e) \/ ReprocessEpoch(e)
        PROVE  RowsTile' /\ WindowAhead'
    <3>1. Aggregate(e, chain[e]) /\ chain[e] \in 1..MaxVersion
      BY <2>1 DEF ProcessEpoch, ReprocessEpoch, Exact, TypeOK
    <3> QED
      BY <3>1, AggregateTiles
  <2>2. ASSUME UNCHANGED <<startEpoch, flushed>> PROVE RowsTile' /\ WindowAhead'
    BY <2>2 DEF RowsTile, WindowAhead
  <2> QED
    BY <2>1, <2>2 DEF Operate, Reorg, vars
<1> QED
  BY <1>1, <1>2, RunIsExact, PTL DEF RunSpec

-----------------------------------------------------------------------------
\* With Skew = 0 the processed epochs are an initial segment of the run.
Segment ==
    /\ firstEpoch = First
    /\ \A e \in processed : e >= First /\ \A d \in First..e : d \in processed

\* An epoch is kept if it is in the window or in a row.
Kept(e) == e \in seen \/ \E f \in flushed : e \in f.start..f.end

\* The critical section loses no epoch it had kept.
LEMMA AggregateKeepsEpochs ==
    ASSUME Exact, NEW e \in Epochs, NEW v \in 1..MaxVersion, Aggregate(e, v),
           NEW d, Kept(d) \/ (d = e /\ Accepts(e))
    PROVE  Kept(d)'
<1> DEFINE total == Append(sum, [epoch |-> e, version |-> v])
<1>1. CASE ~Accepts(e) /\ UNCHANGED window
  BY <1>1 DEF window, Kept
<1>2. CASE seen \union {e} = startEpoch..endEpoch /\ Flush(total)
  <2> DEFINE row == [start |-> startEpoch, end |-> endEpoch, sum |-> total]
  <2>1. flushed' = flushed \union {row} /\ row.start = startEpoch /\ row.end = endEpoch
    BY <1>2 DEF Flush
  <2> HIDE DEF row
  <2> QED
    BY <1>2, <2>1 DEF Kept
<1>3. CASE seen' = seen \union {e} /\ UNCHANGED <<startEpoch, endEpoch, flushed>>
  BY <1>3 DEF Kept
<1> QED
  BY <1>1, <1>2, <1>3, AggregateCases DEF Exact

\* The next epoch in order is within the current window or before it: were it
\* beyond, the whole window would have been seen, and so flushed.
LEMMA NextInWindow ==
    ASSUME Exact, WindowAhead, Segment, NoEpochDropped, RowsTile, Skew = 0,
           NEW e \in Epochs, ProcessEpoch(e)
    PROVE  Kept(e) \/ Accepts(e)
<1>1. /\ N \in Nat \ {0} /\ First \in Nat /\ Last \in Nat /\ e \in Nat
      /\ startEpoch \in Nat /\ endEpoch \in Nat /\ endEpoch = startEpoch + N - 1
  BY AggregationAssumption DEF N, Epochs, Exact, TypeOK, WindowExact
<1>2. e >= First /\ \A d \in First..(e - 1) : d \in processed
  BY <1>1 DEF ProcessEpoch, Segment
<1>3. CASE e < startEpoch
  BY <1>1, <1>2, <1>3 DEF RowsTile, Kept
<1>4. CASE e > endEpoch
  <2>1. \A d \in startEpoch..endEpoch : d \in processed
    BY <1>1, <1>2, <1>4 DEF WindowAhead
  <2>2. \A f \in flushed : f.end < startEpoch /\ f.start \in Nat /\ f.end \in Nat
    BY DEF RowsTile, Exact, TypeOK
  <2>3. startEpoch..endEpoch \subseteq seen
    BY <1>1, <2>1, <2>2 DEF NoEpochDropped
  <2>4. seen = startEpoch..endEpoch
    BY <2>3 DEF Exact, WindowExact
  <2>5. Cardinality(seen) = N
    BY <1>1, <2>4, WindowSize
  <2>6. Cardinality(seen) < N
    BY DEF Exact, WindowExact
  <2> QED
    BY <1>1, <2>5, <2>6
<1>5. CASE startEpoch <= e /\ e <= endEpoch
  BY <1>5 DEF Accepts, Kept
<1> QED
  BY <1>1, <1>3, <1>4, <1>5

\* With epochs processed in order, none is left out of the aggregation.
THEOREM NothingDropped == Skew = 0 => (RunSpec => []NoEpochDropped)
<1> SUFFICES ASSUME Skew = 0 PROVE RunSpec => []NoEpochDropped
  OBVIOUS
<1>1. Init => Segment /\ NoEpochDropped
  BY DEF Init, Segment, NoEpochDropped
<1>2. Exact /\ RowsTile /\ WindowAhead /\ Segment /\ NoEpochDropped /\ [Operate]_vars
        => Segment' /\ NoEpochDropped'
  <2> SUFFICES ASSUME Exact, RowsTile, WindowAhead, Segment, NoEpochDropped,
                      [Operate]_vars
               PROVE  Segment' /\ NoEpochDropped'
    OBVIOUS
  <2>1. ASSUME NEW e \in Epochs, ProcessEpoch(e) PROVE Segment' /\ NoEpochDropped'
    <3>1. Aggregate(e, chain[e]) /\ chain[e] \in 1..MaxVersion
      BY <2>1 DEF ProcessEpoch, Exact, TypeOK
    <3>2. processed' = processed \union {e} /\ firstEpoch' = firstEpoch
      BY <2>1 DEF ProcessEpoch
    <3>3. e \in Nat /\ First \in Nat /\ e >= First
      BY <2>1, AggregationAssumption DEF ProcessEpoch, Segment, Epochs
    <3>4. \A d \in First..(e - 1) : d \in processed
      BY <2>1, <3>3 DEF ProcessEpoch, Segment
    <3>5. Segment'
      BY <3>2, <3>3, <3>4 DEF Segment
    <3>6. \A d \in processed' : Kept(d)'
      BY <2>1, <3>1, <3>2, NextInWindow, AggregateKeepsEpochs DEF NoEpochDropped, Kept
    <3> QED
      BY <3>5, <3>6 DEF NoEpochDropped, Kept
  <2>2. ASSUME NEW e \in Epochs, ReprocessEpoch(e) PROVE Segment' /\ NoEpochDropped'
    <3>1. Aggregate(e, chain[e]) /\ chain[e] \in 1..MaxVersion
      BY <2>2 DEF ReprocessEpoch, Exact, TypeOK
    <3>2. processed' = processed /\ firstEpoch' = firstEpoch
      BY <2>2 DEF ReprocessEpoch
    <3>3. \A d \in processed' : Kept(d)'
      BY <3>1, <3>2, AggregateKeepsEpochs DEF NoEpochDropped, Kept
    <3> QED
      BY <3>2, <3>3 DEF NoEpochDropped, Kept, Segment
  <2>3. ASSUME UNCHANGED <<seen, flushed, processed, firstEpoch>>
        PROVE  Segment' /\ NoEpochDropped'
    BY <2>3 DEF Segment, NoEpochDropped
  <2> QED
    BY <2>1, <2>2, <2>3 DEF Operate, Reorg, vars
<1> QED
  BY <1>1, <1>2, RunIsExact, RowsTileEpochs, PTL DEF RunSpec
=============================================================================
