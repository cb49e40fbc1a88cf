----------------------------- MODULE EpochTables -----------------------------
(***************************************************************************)
(* What the transitions of epochs write (ProcessStateTransitionMetrics,    *)
(* pkg/analyzer/process_state.go, pkg/db), across crashes: the tables are  *)
(* all that survives, and fillToHead starts again some epochs before the   *)
(* newest block in them.  Beside the analyzer the validator window         *)
(* (pkg/validator_window) deletes old rewards whenever an epoch is final.  *)
(*                                                                         *)
(* Transition e reads the states of e - 2, e - 1 and e, and writes the     *)
(* epoch row and the block rewards of e - 1, the rest of e, and the pool   *)
(* summary of e - 2.  The downloads are left to HistoricalPipeline but for *)
(* the gate that keeps them within two epochs of the transitions; so is    *)
(* the order in which goroutines register.  log.Fatalf is a crash.         *)
(***************************************************************************)
EXTENDS Integers, FiniteSets, FiniteSetsExt

CONSTANTS
    SlotsPerEpoch,
    FirstFinalized, \* the finalized epoch when the database is empty
    LastEpoch,      \* bound: the chain ends with this epoch
    WindowSize,     \* windowEpochSize
    MaxTroubles     \* bound: crashes and failing writes together

epochsToFinalizedTentative == 4

\* A smaller finalized epoch and the start of a run, or of the one that follows a
\* crash in its first epoch, would wrap below zero.  With a smaller window the
\* rewards that a restart writes for the first time could be deleted before the
\* pool summary has read them.
ASSUME EpochAssumption ==
    /\ SlotsPerEpoch \in Nat \ {0}
    /\ FirstFinalized \in Nat /\ FirstFinalized >= 2 * epochsToFinalizedTentative
    /\ LastEpoch \in Nat /\ LastEpoch >= FirstFinalized
    /\ WindowSize \in Nat /\ WindowSize >= 4
    /\ MaxTroubles \in Nat

EpochOf(s) == s \div SlotsPerEpoch

SlotsOf(e) == (e * SlotsPerEpoch)..((e + 1) * SlotsPerEpoch - 1)

\* Where the first run starts.
FirstEpoch == FirstFinalized - epochsToFinalizedTentative

\* A restart starts at most as many epochs earlier.
Epochs == (FirstEpoch - epochsToFinalizedTentative)..LastEpoch

Slots == UNION {SlotsOf(e) : e \in Epochs}

VARIABLES
    initEpoch,  \* the epoch of s.initSlot
    cached,     \* BlockHistory of this run
    processed,  \* slots that ProcessBlock is done with in this run
    states,     \* StateHistory of this run
    pc,         \* the transition of each epoch
    blocks,     \* t_block_metrics: the slots that have a row
    rows,       \* the tables that transitions write, by table and epoch
    status,     \* t_validator_last_status: the epochs of its rows
    rewards,    \* t_validator_rewards_summary: the epochs of its rows
    window,     \* the validator window: how far it is about to delete
    final,      \* external: the finalized epoch when this run started
    written,    \* history: the rewards and statuses that were ever written
    crashes,
    faults

vars == <<initEpoch, cached, processed, states, pc, blocks, rows, status, rewards, window,
          final, written, crashes, faults>>

downloads == <<initEpoch, cached, processed, states>>

tables == <<blocks, rows, status, rewards>>

-----------------------------------------------------------------------------
(* Downloads and blocks.                                                   *)

\* No page of the epoch in processerBook.
Inactive(e) == e \in Epochs => pc[e] \in {"none", "done"}

\* WaitForPrevState: the state of two epochs before is there and its transition
\* is not at work.
GateOpen(s) ==
    LET e == EpochOf(s) - 2 IN e < initEpoch \/ (e \in states /\ Inactive(e))

\* DownloadBlockCotrolled.
DownloadBlock(s) ==
    /\ s \notin cached /\ EpochOf(s) >= initEpoch
    /\ GateOpen(s)
    /\ cached' = cached \union {s}
    /\ UNCHANGED <<initEpoch, processed, states, pc, tables, window, final, written, crashes, faults>>

\* ProcessBlock: BlockTables has what else it writes.
ProcessBlock(s) ==
    /\ s \in cached \ processed
    /\ processed' = processed \union {s}
    /\ blocks' = blocks \union {s}
    /\ UNCHANGED <<initEpoch, cached, states, pc, rows, status, rewards, window, final, written, crashes, faults>>

\* DownloadState and AddNewState; the goroutine of the transition has registered
\* and waits for it.
DownloadState(e) ==
    /\ e \notin states /\ SlotsOf(e) \subseteq cached
    /\ states' = states \union {e}
    /\ pc' = [pc EXCEPT ![e] = "wait"]
    /\ UNCHANGED <<initEpoch, cached, processed, tables, window, final, written, crashes, faults>>

-----------------------------------------------------------------------------
(* ProcessStateTransitionMetrics.                                          *)

Goto(e, from, to) == pc[e] = from /\ pc' = [pc EXCEPT ![e] = to]

\* The barrier of the previous epoch, and the states: where one of the three is
\* below the start nothing is written.
ReadStates(e) ==
    /\ Inactive(e - 1)
    /\ \A x \in {e - 2, e - 1} : x >= initEpoch => x \in states
    /\ Goto(e, "wait", IF e - 2 >= initEpoch THEN "duties" ELSE "done")
    /\ UNCHANGED <<downloads, tables, window, final, written, crashes, faults>>

\* PersistDuties: the key is the slot and the validator.
Duties(e) == {<<"duties", e>>}

\* processEpochDuties.
ProcessEpochDuties(e) ==
    /\ Goto(e, "duties", "status")
    /\ rows' = rows \union Duties(e)
    /\ UNCHANGED <<downloads, blocks, status, rewards, window, final, written, crashes, faults>>

\* PersistValLastStatus.  The table has no key: a transition that is repeated
\* doubles its rows until the next one deletes them, which is not told apart.
StatusRows(e) == {e}

\* processValLastStatus first inserts the statuses of the epoch.
ProcessValLastStatus(e) ==
    /\ Goto(e, "status", "oldStatus")
    /\ status' = status \union StatusRows(e)
    /\ written' = written \union {<<"status", e>>}
    /\ UNCHANGED <<downloads, blocks, rows, rewards, window, final, crashes, faults>>

\* An error of the insert is only logged.
ProcessValLastStatusFails(e) ==
    /\ Goto(e, "status", "oldStatus")
    /\ crashes + faults < MaxTroubles /\ faults' = faults + 1
    /\ UNCHANGED <<downloads, tables, window, final, written, crashes>>

\* Faulty form of StatusBefore: the epoch itself is deleted too.
StatusBeforeAndAt(e) == {x \in status : x <= e}

\* deleteValidatorStatus: f_epoch < $1.
StatusBefore(e) == {x \in status : x < e}

\* Then it deletes the older ones, whether or not the insert went well.
DeleteValLastStatus(e) ==
    /\ Goto(e, "oldStatus", "epoch")
    /\ status' = status \ StatusBefore(e)
    /\ UNCHANGED <<downloads, blocks, rows, rewards, window, final, written, crashes, faults>>

\* PersistEpochs: the key is the epoch.
EpochRow(e) == {<<"epoch", e>>}

\* processEpochMetrics: the epoch of the current state.
ProcessEpochMetrics(e) ==
    /\ Goto(e, "epoch", "blockRewards")
    /\ rows' = rows \union EpochRow(e - 1)
    /\ UNCHANGED <<downloads, blocks, status, rewards, window, final, written, crashes, faults>>

\* processBlockRewards waits for the processers of the current state's blocks.
ProcessBlockRewards(e) ==
    /\ Goto(e, "blockRewards", "rewards")
    /\ SlotsOf(e - 1) \subseteq processed
    /\ rows' = rows \union {<<"blockRewards", e - 1>>}
    /\ UNCHANGED <<downloads, blocks, status, rewards, window, final, written, crashes, faults>>

\* PersistValidatorRewards: the key is the validator and the epoch.
RewardRows(e) == {e}

\* processEpochValRewards; RewardsAggregation has the running total.
ProcessEpochValRewards(e) ==
    /\ Goto(e, "rewards", "lists")
    /\ rewards' = rewards \union RewardRows(e)
    /\ written' = written \union {<<"rewards", e>>}
    /\ UNCHANGED <<downloads, blocks, rows, status, window, final, crashes, faults>>

\* PersistSlashings.
Slashings(e) == {<<"slashings", e>>}

\* storeDepositsProcessed, PersistDeposits.
DepositsProcessed(e) == {<<"deposits", e>>}

\* PersistConsolidationRequests.
ConsolidationRequests(e) == {<<"consolidationRequests", e>>}

\* PersistWithdrawalRequests.
WithdrawalRequests(e) == {<<"withdrawalRequests", e>>}

\* PersistDepositRequests.
DepositRequests(e) == {<<"depositRequests", e>>}

\* PersistConsolidationsProcessed.
ConsolidationsProcessed(e) == {<<"consolidations", e>>}

\* The lists of the next state, one table each.
StateLists(e) ==
    Slashings(e) \union DepositsProcessed(e) \union ConsolidationRequests(e)
        \union WithdrawalRequests(e) \union DepositRequests(e) \union ConsolidationsProcessed(e)

\* processSlashings and the store... functions.
StoreLists(e) ==
    /\ Goto(e, "lists", "pool")
    /\ rows' = rows \union StateLists(e)
    /\ UNCHANGED <<downloads, blocks, status, rewards, window, final, written, crashes, faults>>

\* InsertPoolSummary selects from the rewards: no rows, no summary.
PoolSummary(e) == IF e \in rewards THEN {<<"pool", e>>} ELSE {}

\* processPoolMetrics, over the epoch of the previous state.
ProcessPoolMetrics(e) ==
    /\ Goto(e, "pool", "done")
    /\ rows' = rows \union PoolSummary(e - 2)
    /\ UNCHANGED <<downloads, blocks, status, rewards, window, final, written, crashes, faults>>

-----------------------------------------------------------------------------
(* The validator window.                                                   *)

NoDelete == -1

\* RetrieveLastEpoch.
DbHeadEpoch == Max({0} \union {e \in Epochs : <<"epoch", e>> \in rows})

\* Faulty form of LowerBoundary: one epoch less is kept.
LowerBoundaryTight == DbHeadEpoch - WindowSize + 1

LowerBoundary == DbHeadEpoch - WindowSize

\* ValidatorWindowRunner.Run: an epoch is final.
WindowBoundary ==
    /\ window = NoDelete /\ DbHeadEpoch >= WindowSize
    /\ window' = LowerBoundary
    /\ UNCHANGED <<downloads, pc, tables, final, written, crashes, faults>>

\* DeleteValidatorRewardsUntil: f_epoch <= $1.
DeleteValidatorRewardsUntil ==
    /\ window # NoDelete
    /\ rewards' = {e \in rewards : e > window}
    /\ window' = NoDelete
    /\ UNCHANGED <<downloads, pc, blocks, rows, status, final, written, crashes, faults>>

-----------------------------------------------------------------------------
\* RetrieveLastSlot, and zero without a block.
DbHead == Max({0} \union blocks)

\* Faulty form of StartEpoch: two epochs before, as the comments of fillToHead say.
StartEpochTwo(f) ==
    IF EpochOf(DbHead) = 0 \/ EpochOf(DbHead) > f THEN f - 2 ELSE EpochOf(DbHead) - 2

\* fillToHead: four epochs before the newest block, or before the finalized epoch
\* f when that is lower or the newest block is in epoch zero.
StartEpoch(f) ==
    IF EpochOf(DbHead) = 0 \/ EpochOf(DbHead) > f
    THEN f - epochsToFinalizedTentative
    ELSE EpochOf(DbHead) - epochsToFinalizedTentative

\* The process ends at any moment and is started again, with a finalized epoch
\* that is not below the one of the start before.
CrashAndRestart(f) ==
    /\ crashes + faults < MaxTroubles /\ crashes' = crashes + 1
    /\ f >= final /\ final' = f
    /\ initEpoch' = StartEpoch(f)
    /\ cached' = {} /\ processed' = {} /\ states' = {}
    /\ pc' = [e \in Epochs |-> "none"]
    /\ UNCHANGED <<tables, window, written, faults>>

Init ==
    /\ initEpoch = FirstEpoch
    /\ cached = {} /\ processed = {} /\ states = {}
    /\ pc = [e \in Epochs |-> "none"]
    /\ blocks = {} /\ rows = {} /\ status = {} /\ rewards = {}
    /\ window = NoDelete
    /\ final = FirstFinalized
    /\ written = {}
    /\ crashes = 0 /\ faults = 0

Next ==
    \/ \E s \in Slots : DownloadBlock(s)
    \/ \E s \in Slots : ProcessBlock(s)
    \/ \E e \in Epochs : DownloadState(e)
    \/ \E e \in Epochs : ReadStates(e)
    \/ \E e \in Epochs : ProcessEpochDuties(e)
    \/ \E e \in Epochs : ProcessValLastStatus(e)
    \/ \E e \in Epochs : ProcessValLastStatusFails(e)
    \/ \E e \in Epochs : DeleteValLastStatus(e)
    \/ \E e \in Epochs : ProcessEpochMetrics(e)
    \/ \E e \in Epochs : ProcessBlockRewards(e)
    \/ \E e \in Epochs : ProcessEpochValRewards(e)
    \/ \E e \in Epochs : StoreLists(e)
    \/ \E e \in Epochs : ProcessPoolMetrics(e)
    \/ WindowBoundary
    \/ DeleteValidatorRewardsUntil
    \/ \E f \in FirstFinalized..LastEpoch : CrashAndRestart(f)

Spec == Init /\ [][Next]_vars

-----------------------------------------------------------------------------
\* What transition e writes, but for the status and the pool summary.
RowsOf(e) ==
    Duties(e) \union EpochRow(e - 1) \union {<<"blockRewards", e - 1>>} \union StateLists(e)

\* This run is done with transition e, or will not do it.
Past(e) == e - 2 < initEpoch \/ pc[e] = "done"

\* Transitions between the oldest and the newest block of the database that have
\* not written all their rows, and that no run will make again.
Lost ==
    {e \in Epochs :
        /\ \E s \in blocks : EpochOf(s) <= e - 2
        /\ e <= EpochOf(DbHead) /\ Past(e)
        /\ ~(RowsOf(e) \subseteq rows /\ <<"rewards", e>> \in written)}

\* No crash leaves a gap: a transition that was cut off between two of its
\* writes, or had not begun, is made again by the restart, although that only
\* looks for the newest block.  The gate keeps the blocks of an epoch from being
\* written before the transition two epochs below is done, and the restart is
\* further back than that.
NoTransitionLost == Lost = {}

\* The pool summary of an epoch whose rewards were written is there when the
\* transition two epochs later is done: the validator window, whenever it
\* deletes, leaves the rewards until they have been summed up.
PoolsSummed ==
    \A e \in Epochs :
        pc[e] = "done" /\ e - 2 >= initEpoch /\ <<"rewards", e - 2>> \in written
            => <<"pool", e - 2>> \in rows

\* The newest validator statuses that were written are never deleted, neither
\* by a transition that a restart repeats nor by a crash between the insert and
\* the delete; only an insert that failed and a delete that did not empty them.
StatusKept ==
    faults = 0 =>
        \A e \in Epochs : <<"status", e>> \in written => \E x \in status : x >= e
=============================================================================
