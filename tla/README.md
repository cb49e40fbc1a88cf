# TLA+ models of goteth

goteth follows an Ethereum consensus chain through a beacon node, computes
metrics of blocks, epochs and validators, and writes them to ClickHouse. This
directory holds TLA+ models of its concurrent core, the TLC configurations that
check them and TLAPS proofs about them. Paths below are relative to the
repository; `PROJECT.json` maps every definition to the lines it models.

## 1. Inventory

| Component | State | Operations | Hard behaviours | What makes it correct |
|---|---|---|---|---|
| Routine book (`pkg/utils/book.go`) | array of named pages, channel of free positions, mutex | Acquire, FreePage, CheckPageActive, WaitUntilInactive | token and name are taken in two steps; a send under the mutex; two holders of one name | capacity, no blocking under the lock, no lost position, a watcher does not return early |
| Agnostic map (`pkg/analyzer/utils.go`) | map, per-key list of subscriber channels, mutex | Set, Wait, Delete, Available, GetKeyList | wakeups; Set sends on unbuffered channels under the mutex; cancelled waiters stay registered | no lost wakeup, Delete never refused, Set ends |
| Chain cache (`chain_cache.go`) | two agnostic maps, head block | AddNewBlock, AddNewState, RefreshStateBlocks, CleanUpTo | AddNewState waits for 32 blocks; eviction against readers; head set in a second critical section | nothing that is still to be read is evicted |
| Historical pipeline (`routines.go`, `download.go`, `process_*.go`, `chain_analyzer.go`) | task channel, processers' book, request books, stop flag, context | runHistorical, runDownloadBlocks, DownloadBlock/State, WaitForPrevState, ProcessBlock, ProcessStateTransitionMetrics, Run, Close | goroutines that wait for one another through pages, cache and gate; ends on conditions read one by one | epochs in turn, all analyzed before the end, it ends, Close returns |
| Rewards aggregation (`process_state.go`) | window, epochs seen, running totals | processEpochValRewards, start and restart of the window | epochs processed twice or late; restart with a partial window | each row is the sum over exactly its epochs |
| Finalization and reorg repair (`reorg.go`, `db/epoch_metrics.go`) | cache and tables | AdvanceFinalized, ensureDependencyStates, HandleReorg, DeleteStateMetrics, DeleteBlockMetrics | runs beside the regular flow and beside each other, a walk per reorg; lost events; deletes that stop half-way; waits on evicted entries | no row of a dropped fork remains in the tables that it cleans, none of the final ones is missing, no wait without end |
| Head follower (`routines.go`, `epoch_boundary_state_root.go`) | next slot, boundary state roots, loop over the events | runHead, fillToHead, the wait between filling and following, DownloadState by root | the node's API lags behind its events; polling for a page; eviction by AdvanceFinalized against downloads that are behind | every slot is given to the downloader once and in order; no announced block is taken for a missed one |
| Event subscriptions (`pkg/events`) | four channels | the handlers | a full head channel drops events; finalized checkpoints are dropped when nobody receives; reorg and blob handlers block | what got through is served |
| API client (`pkg/clientapi`) | three request books | RequestBeaconBlock and its retries, state by slot or root, receipts, blobs | a 404 means "missed" or "not yet"; two requests that should see one block | what is answered belongs to the block that was asked for |
| Database service (`pkg/db`) | connections, batches; the tables | Persist, Delete, Retrieve | failing writes are logged and passed over; nothing is transactional | the rows of a key are those of its last write |
| Metrics and types (`pkg/spec`) | none (pure), but for `ManualReward` of blocks | reward arithmetic per fork | boundary epochs, forks | equals the consensus specification |
| Validator window (`pkg/validator_window`) | none | delete rewards of old epochs | reads one table and deletes in another beside the analyzer | nothing is deleted before it was summed up |
| Relay client, Prometheus exporter, commands, small utilities | none shared | | | |

How they meet: `Run` starts the dispatcher (`runHistorical` or `runHead`) and the
downloader (`runDownloadBlocks`), connected by a bounded channel. For each slot
the downloader starts a goroutine that fills the cache and one that reads it; for
each last slot of an epoch, a second pair. They wait for each other in the cache
(`Wait`), in the book (`Acquire`, `WaitUntilInactive`), and at the gate
`WaitForPrevState`. In head mode events start `AdvanceFinalized` and
`HandleReorg`, which use the same cache and the same processers. All of them
write to the database, which is all that a restart knows of the past; the
validator window, another process, deletes in it.

## 2. Modules

| Module | Models | Checked by | Proved in |
|---|---|---|---|
| `RoutineBook` | the book, for any assignment of names | `book` (through `MCRoutineBook`) | `RoutineBookProofs` |
| `AgnosticMap` | the waiting map | `map` | `AgnosticMapProofs` |
| `RewardsAggregation` | the aggregation window | `aggregation_restart`, `aggregation_run` (through `MCRewardsAggregation`) | `RewardsAggregationProofs` |
| `HistoricalPipeline` | a historical run, from `Run` to its end or `Close` | `pipeline_run`, `pipeline_faults` | `HistoricalPipelineProofs` |
| `Reorg` | finalization and reorg repair in head mode | `reorg`, `reorg_redownload` | `ReorgProofs` |
| `SlotFeed` | abstract: what the analyzer promises about the slots it works on | through `HeadFollower` | |
| `HeadFollower` | the finalized mode: filling to the head, then following its events; implements `SlotFeed` | `head` | `HeadFollowerProofs` |
| `BlockTables` | the tables of the blocks, under reorgs and failing calls | `block_tables`, `block_rewards_counted` | `BlockTablesProofs` |
| `EpochTables` | the tables that transitions of epochs write, across crashes and beside the validator window | `epoch_tables` | `EpochTablesProofs` |

Definitions called "faulty form of X" in the modules stand beside X, change it
the way a slip in the code would, and are used only to test that the properties
notice. `PROJECT.json` pairs each property with one.

**RoutineBook.** `freeSpace` is the length of the token channel (its content is
never used), `pages` the keys under the mutex. Acquire is two actions, `TakeToken`
and `SetPage`, because the channel is read before the mutex is taken. FreePage
is one action (it holds the mutex throughout); `FreeMissingPage` is its other
branch, for a name that is gone. The names of the routines are chosen in `Init`,
so that shared names are covered; properties that need distinct names say so.

**AgnosticMap.** An action per critical section of the mutex and per send on a
subscriber's channel. `SetStore` takes the lock and the subscribers; `SetSend` is
a rendezvous with one of them; `SetUnlock` ends. `WaitMiss` looks and registers
in one critical section, as the code does. `WaitCancelled` leaves the channel
registered, as the code does.

**HistoricalPipeline.** Pages, cache and request books are used through what
the two modules above establish. `disp` is where `runHistorical` stands (check for
pages, clean, send), `blk` and `st` follow each block and state from the goroutine
through the request to the cache, `pc` follows each processer. `Acquire` is first
come first served, as a Go channel is, and takes two steps: with the token in hand a
processer is `granted`, and the book shows it only from `SetPage` on. The downloader
reads the four conditions of its end one after the other (`dl`). `stale` and `stuck` carry over from
`AgnosticMap` what a cancelled Wait does to a later Set. Requests answer or fail as
`Faults` says; with `"fatal"` in it a `log.Fatalf` of the dispatcher (`DispatchFatal`) or of
a transition's writes (`MetricsFatal`) ends the process with its goroutines wherever they are.

**RewardsAggregation.** One validator stands for all. Its rewards in an epoch
are a version number which a reorg changes, and its running total is the sequence
of what was added, so that a row shows what it is the sum of. `Restart` is a new
process on the same database: `fillToHead` starts at an epoch that was processed before
or below it, and the window starts anew.

**Reorg.** The chain is external: each slot has a block of some fork or none,
and a reorg moves the slots above the ancestor to a new fork. A block in the
cache or in a row is named by its fork, a state by the fork of its last slot.
`Follow` is the regular flow for one slot. Every `ChainReorg` that is announced starts a
walk of its own beside those under way. `AdvanceFinalized` is a step for the
blocks of an epoch, one for its state (`VerifyStateSame`, `VerifyStateSkipped` when
the root cannot be requested, `Reprocess`), and the eviction. `HandleReorg` is a step
per slot of the walk, so walks and passes interleave between slots and epochs and not within.
Both end in `Rewritten`: the first `n` of the six deletes of `DeleteStateMetrics`, in their
order, whose error is dropped, and `ProcessStateTransition`. The rows record the states that
they were computed from; the tables that nothing is deleted from (status, slashings,
deposits and requests, block rewards, pool summaries) are one table, `others`.

**HeadFollower.** `phase` is where `runHead` stands: filling, waiting for the last
downloads of the filling, at its select, or sending the slots up to an event.
The node is external: `announced` is what its events told, `served` what its API
answers for. `HandleHeadEvent` drops an event at a full channel; the handlers of
reorgs and blob sidecars block (`sending`). The downloader, the gate, the request
with its retries of a 404 and the state by root or by slot are actions of their
own; pages go first come first served. A turn of the sending loop with its test
for a page is one action; what lies between them is in `HistoricalPipeline`.
`SlotFeed` knows only the highest slot told of and the next one to start;
`Feed` maps them to `announced` and to the slots the downloader has taken.

**BlockTables.** The cache holds objects, not blocks: `heap` maps a slot and the
count of its downloads to an object with its transactions and its manual
reward, `gen` is what the cache holds now, `state.gens` what a state was built
from. `pc` follows the processer of each slot, and at 0 the one that HandleReorg
runs itself, between the tables that `ProcessBlock` writes one after another.
Every request and write that may fail uses `Fails`. A table is a function or set
of rows with its real key, so that a row written later replaces one with its
key, and `DeleteBlockMetrics` ends after the first delete that fails.

**EpochTables.** `rows`, `status` and `rewards` are the tables, `pc` where each
transition stands between two of its writes, in the order in which
`ProcessStateTransitionMetrics` makes them. `CrashAndRestart` forgets all but the
tables and starts where `fillToHead` does: `epochsToFinalizedTentative` = 4 epochs below the
newest block, or below the finalized epoch (`final`, external, never below the one of the
start before). The comments "2 epochs before" at routines.go:162-169 are older than the
constant (`pkg/analyzer/utils.go:15`), which decides. The validator window reads the newest
epoch and deletes in two steps. What is left out of a transition (the aggregate,
the block objects) is in `RewardsAggregation` and `BlockTables`.

## 3. Runs

| Run | Instance | Result |
|---|---|---|
| `book` | 3 routines, every assignment of 3 names, 2 pages, 1 watcher | passes, 10,464 states |
| `map` | 2 waiters, 2 keys, 2 values, Set and Delete at any time, Close | passes, 20,832 states |
| `aggregation_restart` | windows of 2 epochs, epochs up to 5, disorder by one, restarts | passes |
| `aggregation_run` | epochs up to 6 in order, each rewritten once | passes |
| `pipeline_run` | 6 epochs of 2 slots, 2 pages, channel of 1, a `log.Fatalf` at any finality request or write | passes, 689 thousand states, 2.5 min |
| `pipeline_faults` | epochs 5 and 6 of 2 slots, 2 pages, channel of 1; requests and metrics fail, Close at any time | passes, 497 thousand states, 1 min |
| `reorg` | epochs of 2 slots up to 10, two reorgs of at most 2 slots up to slot 11, 1 missed slot, failing root request or deletes in epoch 5 | passes, 785 thousand states, 1.5 min |
| `reorg_redownload` | the same up to epoch 8 with one reorg | `FinalBlocksWritten` violated |
| `head` | 2 slots per epoch, head at 12, chain up to 15, 2 slots without a block, 2 pages, channels of 1, 1 retry, 1 repeated event | passes, 254 thousand states, 2 min |
| `block_tables` | 2 slots (one before and one in Fulu), 1 reorg, 2 failing calls | passes, 3.0 million states, 1 min |
| `block_rewards_counted` | the same without failing calls | `CountedOnce` violated |
| `epoch_tables` | 1 slot per epoch, finalized epoch 8, epochs 4 to 9 and those a restart adds below, window of 4, 1 crash or failing insert | passes, 1.25 million states, 45 s |

### What the passing runs show

* `book`: however names are shared, no more routines work than there are pages
  (`WithinCapacity`) and FreePage never blocks with the lock held
  (`SendNeverBlocks`). With distinct names a working routine is visible
  (`HolderVisible`), `WaitUntilInactive` does not return over one (`WatchSound`), no
  position is lost (`NothingLost`) and Acquire is answered (`AcquireAnswered`).
* `map`: no waiter sleeps beside its value (`NoLostWakeup`, `WaiterServed`), a
  stored key has no waiters left that would make Delete fail
  (`EvictionNeverRefused`), channels are neither forgotten nor served twice
  (`RegisteredOnce`), and until the context is cancelled every
  Set ends (`SetCompletes`).
* `aggregation_*`: the totals of a window, and every row written, hold each epoch
  of the window once (`WindowExact`, `RowExact`), through repetition, disorder and
  restarts. In one run of the process the rows tile the epochs (`RowsTile`), no
  epoch is dropped (`NoEpochDropped`), and every full window is written
  (`WindowsWritten`).
* `pipeline_run`: the dispatcher evicts by its own position and does not look at
  the processers; still nothing that is needed is evicted, neither what a processer
  is to read nor what a download or a state waits for (`NeededNotEvicted`).
  The barrier keeps epochs in turn (`EpochsInTurn`), block rewards come after
  the blocks they read (`RewardsAfterBlocks`), the run does not finish before all is
  analyzed, although the downloader looks at the channel, the requests and the pages one after
  the other (`AllAnalyzed`), and pages, gate, cache and barrier never wait in a circle
  (`Finishes`). All of it also up to a `log.Fatalf`.
* `pipeline_faults`: after Close, a failed download or refused states, whatever each goroutine
  was waiting for, it gives its page back and the run ends (`CloseReturns`), unless a Set
  met a cancelled waiter and the mutex of its map is lost (known limits).
* `reorg`: announced reorgs are repaired down to their ancestors, also when the walk of
  the second runs beside that of the first, in a cache that this one has half replaced
  (`ReorgRepaired`). What an unannounced one left in the tables that `DeleteStateMetrics`
  cleans is deleted when the epoch is final (`NoStaleRow`), and no repair leaves a hole: duties,
  and rows in the tables that nothing is deleted from, are there for the final state of every
  epoch whose own root request and deletes did not fail (`FinalStateWritten`). States are evicted with their blocks
  and never without (`StatesHaveBlocks`); neither repair waits for an evicted entry
  (`PassNotBlocked`, `WalkNotBlocked`).
* `head`: whatever events are dropped, repeated or late, the downloader is given
  every slot once, in order, and none before the node told of it (`SlotsInTurn`, the
  refinement of `SlotFeed`). The switch from filling to following waits for
  no evicted block and leaves no download behind (`SwitchSound`, the two failures
  #253 and #248 that its comment tells of). A state whose event was taken is
  asked for by root (`StateByRoot`), an announced block is not written down as missed
  while the node lags (`NoBlockTakenForMissed`), and a head event that got through
  brings the analysis to its slot, with no handler waiting for ever (`EventsServed`).
* `block_tables`: wherever a reorg meets the processers, when they are done the
  tables that HandleReorg cleans hold only rows of the chain, and all of them if no
  call failed (`RowsOfChain`); fees that were missed for want of receipts are made
  good (`FeesRecovered`, the repair of #251).
* `epoch_tables`: a transition that a crash cut off between two writes, or kept from
  beginning, is made again by the restart (`NoTransitionLost`), the validator window does not
  delete rewards before the pool summary has read them (`PoolsSummed`), and without failing
  inserts the newest validator statuses survive repetition and crashes (`StatusKept`).

### What the violations show

Each is a sentence of the repository's own that the code does not keep; the
quotes are in `PROJECT.json` under `findings`.

* `reorg_redownload`: AdvanceFinalized announces a new download of a wrong block
  and processes the cached one again.
* `block_rewards_counted`: a block of the chain whose manual reward is written as
  zero. HandleReorg downloads the unchanged blocks of its walk again; the state of
  the epoch takes the new objects, its root is the same, so the transition is not
  processed again and nothing is counted on them.

### Known limits

What the code does not keep, found with these models. The first four have their
property in the module; the configuration named reproduces the counterexample.

* Two routines with one name take two tokens of the book and give one back. The
  receipts book is acquired under the execution block's hash and number, which are
  zero for every missed slot. `TokensIndicateFreePages` as an invariant of `book`.
* A reprocessed epoch is not aggregated again, so the aggregate keeps the
  rewards of the dropped fork. `RowsSumTheTable` as a property of `aggregation_run`.
* A block that arrives after Close is sent to a waiter that has left, with the mutex
  of the map held; a processer never gets the mutex, its page is never free,
  and Close does not return. It is the disjunct `stuck # {}` of `CloseReturns`; without it
  `pipeline_faults` gives the counterexample.
* A goroutine that waits to be scheduled is in no channel and no book. `WaitUntilInactive`
  takes an epoch whose processer has not taken its page yet for one that is done
  (`EpochsInTurn`), and the downloader may end before it has started anything, although "Once
  all slots have been analyzed, the tool finishes the execution" (`README.md:72`,
  `routines.go:40`; `AllAnalyzed`). Both in `pipeline_run` with `Prompt = FALSE`.
* `DeleteStateMetrics` says that it deletes the "metrics that use the state at epoch x"
  (`db/epoch_metrics.go:205`); slashings, deposits, requests, statuses, pool summaries and block
  rewards use it too, and their rows of a dropped fork stay beside the new ones (`others` in
  `Reorg`, of which only `FinalStateWritten` speaks).
* `AdvanceFinalized` and `HandleReorg` drop the error of `DeleteStateMetrics` (`reorg.go:116`,
  224) and write all the same: what the remaining deletes would have removed stays. An epoch
  whose root request fails is passed over for good (`reorg.go:73`). `failed` in `Reorg`.
* Rewards of e+1 and e+2 and the epoch row of e are deleted with the state of e; a repair of e
  alone does not write them again.
* A withdrawal that moves to another slot in a reorg keeps its key, so the row of
  the dropped slot may replace the new one and then be deleted. Rows of deposits and of
  credential changes are never deleted (`kept` in `BlockTables`). The statuses of
  validators are deleted even when the insert of the newer ones failed.
* Blobs and commitments are two requests; a reorg between them can give fewer
  commitments than blobs, which is an index out of range (`panicked`).
* With a node two epochs ahead of runHead, the finalized checkpoint evicts states
  for which the gate of later downloads then polls for ever (`MaxAhead`). With a
  validator window of three epochs the pool summaries of a restart can miss rewards
  (`WindowSize >= 4`; the default is 100).

### Bounds, and why they are enough

* Two slots per epoch instead of 32: one is the last of its epoch and one is not,
  which is all that the code distinguishes. `MaxPages` is then 2 to keep the
  code's ratio: 32 pages, 32 slots per epoch. With three pages and a channel of two,
  so with more pages than slots, `NeededNotEvicted` fails: that nothing needed
  is evicted rests on this ratio, and on five epochs being kept
  (`KeepEpochs`: 4 still passes, 3 does not).
* Six epochs in `pipeline_run`: the eviction begins with the sixth.
* Windows of two epochs: a first and a last one. Four to five epochs: two windows
  and a partial one.
* `pipeline_faults` starts at epoch 5, so that the gate and the cleaning of a range that begins
  above zero are exercised; what winds up does so alike for every epoch, and two pages are
  enough for a queue. Longer ranges add states and no new kind of wait.
* `reorg` begins as `fillToHead` leaves it, four epochs below the finalized one and with two
  from it on, and goes up to epoch 10: a reorg in epochs 4 and 5 is then finalized, checked and
  evicted, with the epochs after it. Two reorgs, so that one walk meets another. Trouble ends
  with slot 11 (`LastTrouble`); with slot 12 the same properties hold (3.5 million states).
* `head`: the cleaning keeps 3 epochs of 2 slots instead of 5 of 32, and the filling
  starts at 0 with the head at 12: it passes the finalized slot (8), cleans by
  its own position and by the finalized one, and blocks from before the wait are
  evicted when it begins. Three slots follow, one of them empty and one the last of
  its epoch. A head channel of one drops events at once. `Lag < MaxRetries`: the
  node serves a block before the retries end; the code tries 3 times,
  half a second apart. `MaxAhead = 3`: see the known limits.
* `block_tables`: two slots, one for each form of blobs, any of which may be missed
  before and after the reorg; a walk of one slot or of both, from a head in the epoch
  or after it. Two faults, so that a failure can meet the failure of its repair.
* `epoch_tables`: a transition has nine writes and the gate lets three run at a time. A run
  needs four epochs before the finalized one and a restart four more; two transitions of the
  first run are complete at epoch 9. With two crashes and the chain ending with epoch 8 the same
  properties hold (7.5 million states). A slot per epoch: only whether all blocks of an epoch
  are there matters.

### Assumptions

* Fairness. `FairSpec` of `RoutineBook` and `AgnosticMap` has weak fairness of each
  goroutine's own steps, and strong fairness of two: the token of Acquire, because
  a Go channel serves its receivers in order, and the lock of Wait, because
  Go's mutex starves nobody. `RewardsAggregation` has weak fairness of
  processing each epoch. `HistoricalPipeline` has weak fairness of
  progress as a whole: Go runs some goroutine that can run, weak fairness of the downloader's
  ticker, and strong fairness of its receive, because a select picks among its ready cases
  at random and so takes a task that stays in the channel. `HeadFollower` has weak
  fairness of `runHead`, of the downloader with its goroutines, and of the node serving
  what it announced; its select need not be fair among its cases, as the events
  of a behaviour are bounded. No fairness is assumed
  of failures or of Close, and none of the environment beyond that requests
  answer or fail, which the API client's timeouts justify.
* `Prompt = TRUE` (`pipeline_run`, `pipeline_faults`): a goroutine
  that was just started gets to its first waiting point before the downloader
  takes its next step, and one that has its token sets its page before another looks at the
  book. Go does not promise this. It is usual: the downloader next waits for a channel or a
  ticker, `WaitUntilInactive` first looks a second after it is called, and token and
  page are two statements apart. The known limits tell what happens without it;
  `CloseReturns` holds with `Prompt = FALSE` too (6.7 million states).
* `reorg`: a reorg is at most an epoch deep. HandleReorg reprocesses epoch e and
  needs the state of e-2; with reorgs deeper than an epoch, the pass of the next
  finalized checkpoint evicts it and `WalkNotBlocked` fails. For the same reason finality
  moves on by at most one epoch while a walk runs (the guard of `Finalize` on `since`). One
  pass at a time (`MaxPasses = 1`): with two, the eviction of the older pass
  takes the blocks that the younger is still to check, and `PassNotBlocked`
  fails. Walks and passes take seconds and checkpoints are 6.4 minutes apart, but nothing in
  the code excludes it.
* `epoch_tables`: the finalized epoch of a beacon node does not go back between two
  starts. If it did, a restart below the last one could find the block of the newest
  epoch and still leave several transitions of the run before it unfinished.

Deadlock is checked where the system has no reason to stop (`book`). The other
runs end: the chain, the epochs or the run are bounded, or the context is
cancelled.

## 4. Proofs

TLAPS proves the following for all values of the constants that satisfy the
modules' named assumptions (finite sets of routines and names, sizes and windows at
least one or two, constants of the right type).

* `RoutineBookProofs`. `TypeCorrect` is inductive by itself. `CapacityCorrect`
  rests on: tokens in the channel plus routines between token and release are at
  most `Size`; `FreeNeverBlocks` follows, because a routine that frees is one
  of them. `HoldersAreVisible` needs distinct names: then no other routine's
  FreePage removes the page. `WatchIsSound` is an action property that follows from
  it. `TokensConserved` strengthens the inequality to an equality under
  distinct names; with shared names it is false (known limits). Cardinalities are
  moved through `AtFinite` and `GotoAt`.
* `AgnosticMapProofs`. The inductive invariant is `TypeOK /\ Registration`
  (`RegistrationCorrect`), where `Registration` joins `NoLostWakeup`,
  `EvictionNeverRefused`, `RegisteredOnce` and `SetOwesItsOwn` (in no run), none of which is
  inductive alone: a blocked waiter is in the list of its own key or in
  the hands of the Set that took the list, each channel in one place, and a
  stored key has an empty list unless a Set is at it. `WakeupsNotLost`,
  `EvictionsSucceed` and `WaitReturnsValue` are consequences.
* `RewardsAggregationProofs`. `Exact` joins `TypeOK`, `WindowExact` and `RowExact`: it says that the running total holds each epoch
  seen once, all of them within the window, fewer than the window has, and
  that rows are complete. `WindowSize` and `FullWindow` give the step from "as many
  as the window has" to "exactly those of the window" by cardinality of intervals.
  `RowsAreExact` covers restarts and reprocessing. `RowsTileEpochs` and
  `NothingDropped` are about one run of the process; the second for epochs processed
  in turn (`Skew = 0`), where the next epoch is always in the window.
* `HeadFollowerProofs`. `SlotsAreInTurn` is the refinement: the initial state of
  `HeadFollower` maps to that of `SlotFeed` and each step to a step or a stutter. It rests on
  `FeedInv`: what is queued for the downloader continues, slot after slot, what it has taken
  (`InTurn`), and every event that is queued or worked on was announced (`EventsKnown`). `StatesByRoot`
  strengthens `StateByRoot` by `RootWaits`: the root of an epoch is stored by the time its
  last slot is sent. `AnnouncedNotMissed` counts the retries against the node's lag,
  for `Lag < MaxRetries`. `SwitchIsSound` covers both failures its comment tells of. That
  nothing is left behind follows from the gate, which lets a
  slot start only after the state of two epochs earlier: the finished states reach
  back along every second epoch (`GateChain`, `AllDone`). That nothing waited for is evicted follows from
  what the wait has passed (`WaitProgress`) and the finalized slot
  (`WaitedKept`). The proof needs at least two slots per epoch and
  a cleaning that keeps at least three epochs (the code: 32 and 5).
* `EpochTablesProofs`. `StatusesAreKept`: without a failing insert the newest statuses
  survive any number of crashes, for every window and number of
  epochs. The invariant adds that a transition deletes older statuses only
  after its own were inserted (`DeleteAfterInsert`).
  `CrashesLoseNothing` rests on `TablesInv`, what holds in each run: its transitions take their
  turn and leave the rows of what they have passed (`RunInOrder`, `RowsSoFar`), the newest block
  is at most two epochs above the last unfinished transition (`HeadAhead`, from the gate), and
  below the start of the run nothing is missing (`NothingMissing`). A new start four epochs
  below the newest block is then below every unfinished transition, and the first one that it
  makes again is two epochs above the start, in time. With three epochs in `StartEpoch` TLC finds
  nothing wrong in the instance of section 3; with the two of the comments it finds a transition
  that is lost. `PoolsAreSummed` joins it with `PoolInv`: the window deletes at least
  four epochs below the newest epoch row (`WindowBehind`), that row is at most one epoch above
  a block (`RowsNearHead`), and what lies below was summed up by this run or is below its start
  (`PoolsKept`, `RewardsThere`).
* `HistoricalPipelineProofs`. `TypeCorrect` needs nothing more. `EpochsComeInTurn`
  holds whatever fails and whenever Close is called, for prompt goroutines (section 3).
  `PipelineInv` adds to the type that processers start and queue for pages in
  the order of their slots, so that a transition holds or awaits its page before the next
  one looks for it in the book; that is what makes `WaitUntilInactive` a barrier.
  `RewardsComeAfterBlocks`, `AllAreAnalyzed` and `NeededIsKept` are about runs without failing
  requests and without Close, where only a `log.Fatalf` may end the process (`Faults` within
  `{"fatal"}`): with the others the run ends early by design. For `AllAreAnalyzed`
  the conditions that the downloader reads one after the other stay true once read (`FaultFree`,
  `Quiet`). `NeededIsKept` is the claim
  of the comment "need 3 at least for epoch metrics, magic number, 2 extra if processer
  takes long", for every range, book and epoch length under two conditions on the sizes:
  fewer slots in the downloader's channel than an epoch has, and pages plus channel fit into
  the epochs kept less three (`Sizes`; the code: 5 < 32 and 32 + 5 <= 64). `CacheInv`
  paces the dispatcher: a slot is sent only while a page is free, pages are given in the
  order of the slots, so between the oldest processer at work and the slot being sent there
  are at most `MaxPages` blocks and what the channel holds (`Paced`, `GateHolds`,
  `EvictedLate`; `BookFills` is the count of pages).
* `ReorgProofs`. Chain, forks, depth of the reorgs, lost announcements, the number of passes
  and of walks at a time are arbitrary, except where a condition is named; a walk is started by
  every announced reorg, whatever walks there are. `StatesKeepBlocks` rests on `ChainInv`:
  what is in the cache is of a known fork and near the head, and eviction takes
  states and blocks below the same epoch. `CheckedRowsAreFinal` and `FinalStatesAreWritten` add
  `RowsInv`: every row is empty or was computed from the states that the cache holds, or held
  when they were evicted (`RowsMatch`), duties and undeleted rows are there for these states
  (`RowsFilled`), and below the checked epoch they are of the chain (`PassesVerify`). Epochs whose
  root request or deletes failed (`failed`) are left out; the
  lemmas on `Matching` and `Filled` say what writing and deleting the rows of an epoch do to them.
  `AnnouncedReorgsAreRepaired` follows each walk: behind it
  blocks and rows are of the chain, ahead of it they may differ only above the ancestor of that
  walk or of another one that is still ahead (`Ahead`, `Walks`, `RepairedBehind`, `OrphansOff`); it
  needs one epoch kept below the finalized one, or a pass could evict what a walk has before it
  (the code keeps two). `APassIsNotBlocked` needs one pass at a time (section 3), and nothing of
  depth or number of reorgs, because `EnsureDependencyStates` downloads what is missing (`Readied`).
  `AWalkIsNotBlocked` is for any number of reorgs and of overlapping walks (`ShortReorgs`): at
  least two epochs kept, no reorg deeper than an epoch less than these, and fewer empty slots in
  reach of a walk than an epoch has. The walk counts blocks and not slots, so empty slots and the
  blocks of another fork take it deeper: `WalksEnd` bounds how far by the empty slots that it
  has seen and those still to come, and `StaleAhead` says that a wrong state lies above the
  ancestor of a walk that is still to reach it, hence not below what is kept. The third conjunct
  of `WalkNotBlocked` is for runs in which every reorg was announced, which is what `StaleAhead` is
  about. Whether it needs this is open: TLC finds no counterexample without it, with one more empty
  slot and one more slot of trouble than in section 3 (3.5 million states).

* `BlockTablesProofs`. Both theorems hold for every number of slots and of failing calls, for
  every start of the Fulu fork and for the one reorg that the model has, of any depth, wherever it
  meets the downloads, the processers and the transitions. `RowsAreOfTheChain` follows
  from `Inv`: a cached block that is not of the chain has the walk of `HandleReorg` still before
  it (`CachedOrAhead`); a slot's own processer and the one of `HandleReorg` are never at
  one slot together (`ProcsInOrder`, which is what `WaitUntilInactive` is for); a
  processer that works on a block of the chain has that block's transactions and blobs
  (`OneBlock`). So the rows of a slot are its block's once the block is cached
  (`OnlyChain`, with `dirty` for the slots where a delete failed), and without faults
  what the processers are past is all there (`AllWritten`, `Complete`). The lemmas on the tables
  say of each `Persist...` and of `DeleteBlockMetrics` that it leaves the rows of other slots
  alone (`Keeps`) and adds those of one block (`Writes`). Withdrawals need the weaker form:
  writing one may replace the row of another slot, which is why completeness leaves
  them out. `FeesAreRecovered` needs `ReceiptsKept`: an object that `ProcessBlock`
  had either has its transactions, or its failure is counted, or its receipts are being asked
  for; the transition waits for the processer, so the last cannot be when the fees are added.

Parts of the invariants of `AgnosticMapProofs` and `RewardsAggregationProofs`
are theorems of their own: `ChannelsOnce`, `SetSendsToItsOwn`, `WindowsAreExact`.

The strengthened invariants were checked with TLC on the instances of section 3 before
they were proved. Every safety property of a passing run is stated by a theorem; model-checked
only are the liveness properties (TLAPS has no ENABLED here).

## 5. Not modelled

* The cancelled context and the end of the process in head mode; in the API client
  the attempts of other errors than a 404, duties and rewards of validators; in the
  database the connections, the batches and the columns beyond what names a row.
* The reward arithmetic and the conversion of beacon node types (`pkg/spec`): pure
  code; its algorithms are in the plan, the field by field conversion is not.
* The check of states in the call of AdvanceFinalized that `runHistorical` makes near the
  finalized slot (`HeadFollower` has its eviction).
* Relay client, exporter, commands, logging, migrations: input and output without
  shared state. The relay client's breaker only decides whether a request is made;
  after the cooldown it lets every caller through until the first result is in.

## 6. Plan

1. `Reorg` with two passes at a time, and walks and passes that interleave between the six
   deletes and the writes of one epoch.
2. `AttestationRewards`: flags, inclusion delays, `isFlagPossible` and the maximum
   rewards of `state_altair.go` and `state_deneb.go` as operators, against
   reference definitions over small states.
3. `ElectraRequests`: the request processing of `state_electra.go` (consolidation,
   withdrawal and deposit requests, pending deposits and consolidations), each
   request's result, and the churn limits at their boundaries.
4. Abstract specifications: a counting semaphore that `RoutineBook` implements under
   distinct names, a monitor of single-assignment cells that `AgnosticMap`
   implements until cancellation.
5. Proofs: `RowsOfChain` for a second reorg that meets the first one's walk; `NeededIsKept` with
   failing requests and with Close; `AWalkIsNotBlocked` after an unannounced reorg.
6. `SlotArithmetic`: the unsigned subtractions of `chain_analyzer.go:87`,
   `routines.go:164`, 169 and 208 at their width, near genesis.

## 7. Running

    tlc -config RoutineBook.cfg MCRoutineBook
    tlapm RoutineBookProofs.tla

`PROJECT.json` lists module and configuration of every run.
