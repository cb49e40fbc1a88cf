-------------------------- MODULE RewardsAggregation --------------------------
(***************************************************************************)
(* processEpochValRewards of pkg/analyzer/process_state.go: the rewards of *)
(* an epoch are written to t_validator_rewards_summary and added to the    *)
(* totals of the current aggregation window, which is written out when it  *)
(* holds RewardsAggregationEpochs epochs.                                  *)
(*                                                                         *)
(* One validator stands for all of them (each is treated alike).  Its      *)
(* rewards of an epoch are a version number: a reorg gives the epoch       *)
(* another version.  Its running total is the sequence of what was added.  *)
(***************************************************************************)
EXTENDS Integers, Sequences, FiniteSets

CONSTANTS
    RewardsAggregationEpochs,  \* epochs per window
    First,      \* the first run's first epoch with three states: initEpoch + 2
    Last,       \* bound: no epoch after this one
    MaxVersion, \* bound: a reorg changes an epoch's rewards this often
    Skew        \* how far an epoch's goroutine may run ahead of an earlier one's

ASSUME AggregationAssumption ==
    /\ RewardsAggregationEpochs \in Nat \ {0, 1}
    /\ First \in Nat /\ Last \in Nat /\ First <= Last
    /\ MaxVersion \in Nat \ {0}
    /\ Skew \in Nat

VARIABLES
    startEpoch, endEpoch,  \* startEpochAggregation, endEpochAggregation
    seen,       \* aggregatedEpochsInWindow
    sum,        \* validatorsRewardsAggregations: what was added, in order
    flushed,    \* rows of t_validator_rewards_aggregation
    rows,       \* t_validator_rewards_summary: the version of each epoch, 0 if absent
    chain,      \* the version the canonical chain gives each epoch now
    firstEpoch, \* this run's first epoch with three states
    processed   \* epochs the regular flow has been through in this run

vars == <<startEpoch, endEpoch, seen, sum, flushed, rows, chain, firstEpoch, processed>>
window == <<startEpoch, endEpoch, seen, sum, flushed>>

N == RewardsAggregationEpochs
Epochs == 0..Last
Entry == [epoch : Epochs, version : 1..MaxVersion]

-----------------------------------------------------------------------------
(* Faulty forms of the operations below, to test the properties with.      *)

\* A window closes one epoch early.
WindowFullEarly(s) == Cardinality(s) >= N - 1

\* The window is checked, repetition is not.
AcceptsRepeated(e) == e >= startEpoch /\ e <= endEpoch

\* The end of the window is exclusive.
AcceptsOpenEnd(e) == e >= startEpoch /\ e < endEpoch /\ e \notin seen

\* The flush skips an epoch between two windows.
FlushWithGap(total) ==
    /\ flushed' = flushed \union
          {[start |-> startEpoch, end |-> endEpoch, sum |-> total]}
    /\ startEpoch' = endEpoch + 2
    /\ endEpoch' = endEpoch + 1 + N
    /\ seen' = {}
    /\ sum' = <<>>

-----------------------------------------------------------------------------
Init ==
    /\ startEpoch = First
    /\ endEpoch = First + N - 1
    /\ seen = {}
    /\ sum = <<>>
    /\ flushed = {}
    /\ rows = [e \in Epochs |-> 0]
    /\ chain = [e \in Epochs |-> 1]
    /\ firstEpoch = First
    /\ processed = {}

\* inWindow && !alreadySeen
Accepts(e) == e >= startEpoch /\ e <= endEpoch /\ e \notin seen

\* len(aggregatedEpochsInWindow) >= rewardsAggregationEpochs
WindowFull(s) == Cardinality(s) >= N

\* Write the totals and open the next window.
Flush(total) ==
    /\ flushed' = flushed \union
          {[start |-> startEpoch, end |-> endEpoch, sum |-> total]}
    /\ startEpoch' = endEpoch + 1
    /\ endEpoch' = endEpoch + N
    /\ seen' = {}
    /\ sum' = <<>>

\* The critical section of validatorsRewardsAggregationsMu, given the rewards
\* that were just computed for epoch e.
Aggregate(e, version) ==
    LET total == Append(sum, [epoch |-> e, version |-> version]) IN
    IF ~Accepts(e)
    THEN UNCHANGED window
    ELSE IF WindowFull(seen \union {e})
    THEN Flush(total)
    ELSE /\ seen' = seen \union {e}
         /\ sum' = total
         /\ UNCHANGED <<startEpoch, endEpoch, flushed>>

\* The regular flow processes epoch e.  The barrier on the page of epoch e-1
\* keeps the epochs in order (Skew = 0) unless the goroutine of an earlier
\* epoch has not yet acquired its page.
ProcessEpoch(e) ==
    /\ e \notin processed
    /\ e >= firstEpoch
    /\ \A d \in firstEpoch..(e - Skew - 1) : d \in processed
    /\ processed' = processed \union {e}
    /\ rows' = [rows EXCEPT ![e] = chain[e]]
    /\ Aggregate(e, chain[e])
    /\ UNCHANGED <<chain, firstEpoch>>

\* HandleReorg or AdvanceFinalized: DeleteStateMetrics(e), then process e again.
ReprocessEpoch(e) ==
    /\ e \in processed
    /\ rows' = [d \in Epochs |->
                  IF d = e THEN chain[e]
                  ELSE IF d \in {e + 1, e + 2} THEN 0 ELSE rows[d]]
    /\ Aggregate(e, chain[e])
    /\ UNCHANGED <<chain, firstEpoch, processed>>

\* The chain reorganises: epoch e now has other rewards.
Reorg(e) ==
    /\ chain[e] < MaxVersion
    /\ chain' = [chain EXCEPT ![e] = @ + 1]
    /\ UNCHANGED <<startEpoch, endEpoch, seen, sum, flushed, rows, firstEpoch, processed>>

\* The process dies (log.Fatalf, a kill) and fillToHead starts again from an
\* epoch before the last one it finds in the database.  The totals are lost.
Restart(e) ==
    /\ \E d \in processed : e <= d
    /\ startEpoch' = e
    /\ endEpoch' = e + N - 1
    /\ seen' = {}
    /\ sum' = <<>>
    /\ firstEpoch' = e
    /\ processed' = {}
    /\ UNCHANGED <<flushed, rows, chain>>

Operate ==
    \/ \E e \in Epochs : ProcessEpoch(e)
    \/ \E e \in Epochs : ReprocessEpoch(e)
    \/ \E e \in Epochs : Reorg(e)

Next == Operate \/ \E e \in Epochs : Restart(e)

\* One run of the process, and a process that is restarted now and then.
RunSpec == Init /\ [][Operate]_vars
Spec == Init /\ [][Next]_vars

\* The regular flow gets to every epoch.
FairRunSpec == RunSpec /\ \A e \in Epochs : WF_vars(ProcessEpoch(e))

-----------------------------------------------------------------------------
TypeOK ==
    /\ startEpoch \in Nat /\ endEpoch \in Nat
    /\ seen \subseteq Epochs
    /\ sum \in Seq(Entry)
    /\ flushed \subseteq [start : Nat, end : Nat, sum : Seq(Entry)]
    /\ rows \in [Epochs -> 0..MaxVersion]
    /\ chain \in [Epochs -> 1..MaxVersion]
    /\ firstEpoch \in Nat
    /\ processed \subseteq Epochs

\* What was added so far is what the set of seen epochs says, each once, all
\* of the window; the window is not yet full.
WindowExact ==
    /\ endEpoch = startEpoch + N - 1
    /\ seen \subseteq startEpoch..endEpoch
    /\ seen = {sum[i].epoch : i \in 1..Len(sum)}
    /\ Len(sum) = Cardinality(seen)
    /\ Len(sum) < N

\* Every row of the aggregation table is the sum of exactly the epochs it
\* says it covers, each counted once, however often epochs are reprocessed,
\* in whatever order they come and whenever the process restarts.
RowExact ==
    \A f \in flushed :
        /\ f.end = f.start + N - 1
        /\ Len(f.sum) = N
        /\ {f.sum[i].epoch : i \in 1..Len(f.sum)} = f.start..f.end

\* In one run no epoch is in two rows and the rows leave no gap before the
\* current window: a total over the table counts each epoch once.
RowsTile ==
    /\ \A f, g \in flushed : f = g \/ f.end < g.start \/ g.end < f.start
    /\ \A f \in flushed : f.end < startEpoch
    /\ \A e \in First..(startEpoch - 1) :
          \E f \in flushed : e \in f.start..f.end

\* In one run an epoch that the regular flow has processed is in a row or in
\* the current window; it was not dropped for coming at the wrong time.
NoEpochDropped ==
    \A e \in processed :
        e \in seen \/ \E f \in flushed : e \in f.start..f.end

\* In one run with all epochs processed every whole window is written.
WindowsWritten ==
    <>(\A e \in Epochs : e >= First /\ e + N - 1 <= Last /\ (e - First) % N = 0 =>
          \E f \in flushed : f.start = e)

\* "The aggregation is done by summing up the columns of each validator in
\* the last GOTETH_REWARDS_AGGREGATION_EPOCHS epochs": when a row is written
\* it is the sum of what t_validator_rewards_summary then holds.
RowsSumTheTable ==
    [][\A f \in flushed' \ flushed : \A i \in 1..Len(f.sum) :
          f.sum[i].version = rows'[f.sum[i].epoch]]_vars
=============================================================================
