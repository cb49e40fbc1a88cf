-------------------------- MODULE BlockTablesProofs --------------------------
(***************************************************************************)
(* The tables of the blocks for every number of slots and of failing       *)
(* calls: when HandleReorg and the processers are done the rows are those  *)
(* of the chain, and fees that were missed are made good.                  *)
(***************************************************************************)
EXTENDS BlockTables, TLAPS

-----------------------------------------------------------------------------
(* What EXCEPT needs to know of the variables.                             *)

Procs == Slots \union {0}

Labels == {"idle", "block", "receipts", "blobs", "commitments", "rest"}

Fields == {"block", "txs", "manual", "fails", "processed"}

Tables == {"blocks", "transactions", "withdrawals", "blobs", "kept", "orphans", "rewards"}

Walks ==
    {w \in [i : Nat, end : Nat, step : {"idle", "slot", "process", "state"}] :
        w = Idle \/ (w.step # "idle" /\ w.i \in Slots /\ w.end \in Slots /\ w.end <= w.i)}

IsDb(d) == DOMAIN d = Tables /\ DOMAIN d.blocks = Slots /\ DOMAIN d.withdrawals = Slots

IsHeap(h) ==
    /\ DOMAIN h = Objects
    /\ \A o \in Objects : DOMAIN h[o] = Fields /\ h[o].fails \in Nat

Shape ==
    /\ fork \in {1, 2} /\ started \subseteq Slots /\ faults \in Nat
    /\ \A s \in Slots : canon[s].fork \in Nat
    /\ gen \in [Slots -> 0..2] /\ IsHeap(heap)
    /\ pc \in [Procs -> Labels] /\ at \in [Procs -> Objects] /\ DOMAIN blobs = Procs
    /\ reorg \in Walks
    /\ state.gens # <<>> => gen \in [Slots -> Gens] /\ state.gens \in [Slots -> Gens]
    /\ rewards.gens # <<>> => rewards.gens \in [Slots -> Gens]
    /\ DOMAIN rewards = {"gens", "done"}
    /\ \A r \in rewards.done \union db.rewards : r.slot \in Slots
    /\ IsDb(db)

LEMMA Basics ==
    /\ Slots \subseteq Nat /\ 0 \notin Slots /\ 1 \in Slots /\ LastSlot \in Slots
    /\ \A s \in Slots : 1 <= s /\ s <= LastSlot
    /\ Gens = {1, 2} /\ Procs = Slots \union {0}
    /\ \A s \in Slots, g \in {1, 2} : <<s, g>> \in Objects
    /\ \A o \in Objects : o[1] \in Slots /\ o[2] \in {1, 2} /\ o = <<o[1], o[2]>>
    /\ Missed.fork = 0 /\ None.fork = -1 /\ None # Missed
BY BlockAssumption DEF Slots, Gens, Objects, Procs, Missed, None

\* A call is answered or its failure counted.
LEMMA FailsAre ==
    ASSUME faults \in Nat, NEW n \in Fails
    PROVE  n \in Nat /\ n >= faults /\ (Failed(n) <=> n = faults + 1) /\ (~Failed(n) <=> n = faults)
BY DEF Fails, Failed

LEMMA WalkSteps ==
    ASSUME reorg \in Walks, reorg.step # "idle"
    PROVE  /\ NextSlot \in Walks /\ Walked \in Walks
           /\ [reorg EXCEPT !.step = "process"] \in Walks
<1>1. /\ reorg \in [i : Nat, end : Nat, step : {"idle", "slot", "process", "state"}]
      /\ reorg.i \in Slots /\ reorg.end \in Slots /\ reorg.end <= reorg.i
  BY DEF Walks, Idle
<1>2. reorg.i # reorg.end => reorg.i - 1 \in Slots /\ reorg.end <= reorg.i - 1
  BY <1>1, Basics, BlockAssumption DEF Slots
<1>3. Idle \in Walks
  BY DEF Walks, Idle
<1>4. NextSlot \in Walks
  BY <1>1, <1>2, <1>3, Basics DEF Walks, NextSlot
<1>5. Walked \in Walks
  BY <1>1, <1>4 DEF Walks, Walked
<1>6. [reorg EXCEPT !.step = "process"] \in Walks
  BY <1>1 DEF Walks
<1> QED
  BY <1>4, <1>5, <1>6

-----------------------------------------------------------------------------
(* The heap.                                                               *)

LEMMA NewIsObject ==
    ASSUME NEW b
    PROVE  /\ DOMAIN NewObject(b) = Fields
           /\ NewObject(b).block = b /\ NewObject(b).txs = {} /\ NewObject(b).fails = 0
           /\ NewObject(b).processed = FALSE
BY DEF NewObject, Fields

LEMMA PutObject ==
    ASSUME NEW h, IsHeap(h), NEW o \in Objects, NEW b
    PROVE  /\ IsHeap([h EXCEPT ![o] = NewObject(b)])
           /\ [h EXCEPT ![o] = NewObject(b)][o] = NewObject(b)
           /\ \A x \in Objects : x # o => [h EXCEPT ![o] = NewObject(b)][x] = h[x]
<1> DEFINE k == [h EXCEPT ![o] = NewObject(b)]
<1>1. DOMAIN k = Objects /\ k[o] = NewObject(b) /\ \A x \in Objects : x # o => k[x] = h[x]
  BY DEF IsHeap
<1> HIDE DEF k
<1>2. ASSUME NEW x \in Objects PROVE DOMAIN k[x] = Fields /\ k[x].fails \in Nat
  <2>1. CASE x = o
    <3>1. DOMAIN NewObject(b) = Fields /\ NewObject(b).fails = 0
      BY NewIsObject
    <3>2. k[x] = NewObject(b)
      BY <1>1, <2>1
    <3> QED
      BY <3>1, <3>2
  <2>2. CASE x # o
    BY <1>1, <2>2 DEF IsHeap
  <2> QED
    BY <2>1, <2>2
<1>3. IsHeap(k)
  BY <1>1, <1>2 DEF IsHeap
<1> QED
  BY <1>1, <1>3 DEF k

\* Counting rewards changes nothing but the manual reward.
LEMMA CountedKeeps ==
    ASSUME NEW h, IsHeap(h), NEW g
    PROVE  /\ IsHeap(Counted(h, g))
           /\ \A o \in Objects :
                /\ Counted(h, g)[o].block = h[o].block /\ Counted(h, g)[o].txs = h[o].txs
                /\ Counted(h, g)[o].fails = h[o].fails
                /\ Counted(h, g)[o].processed = h[o].processed
<1>1. DOMAIN Counted(h, g) = Objects
  BY DEF Counted
<1>2. \A o \in Objects :
        Counted(h, g)[o] = IF g[o[1]] = o[2] /\ h[o].block # Missed
                           THEN [h[o] EXCEPT !.manual = h[o].manual + 1] ELSE h[o]
  BY DEF Counted
<1>3. ASSUME NEW o \in Objects
      PROVE  /\ DOMAIN Counted(h, g)[o] = Fields /\ Counted(h, g)[o].fails \in Nat
             /\ Counted(h, g)[o].block = h[o].block /\ Counted(h, g)[o].txs = h[o].txs
             /\ Counted(h, g)[o].fails = h[o].fails
             /\ Counted(h, g)[o].processed = h[o].processed
  BY <1>2 DEF IsHeap, Fields
<1> QED
  BY <1>1, <1>3 DEF IsHeap

-----------------------------------------------------------------------------
(* The rows of a slot, and what the operations on the tables do to them.   *)

Own(d, s) == {r \in d.transactions : r.slot = s}

BlobsAt(d, s) == {r \in d.blobs : r.slot = s}

TxRows(s, b, txs) == {[slot |-> s, num |-> b.num, hash |-> t] : t \in txs}

\* All rows of slot s are of block b.
OnlyOf(d, s, b) ==
    /\ d.blocks[s] \in {b, None}
    /\ Own(d, s) \subseteq TxRows(s, b, Txs(b, s))
    /\ BlobsAt(d, s) \subseteq BlobRows(s, b, b, Txs(b, s))
    /\ \A i \in Slots : d.withdrawals[i].slot = s => d.withdrawals[i].block = b

\* Slot s has no rows.
Empty(d, s) ==
    /\ d.blocks[s] = None /\ Own(d, s) = {} /\ BlobsAt(d, s) = {}
    /\ \A i \in Slots : d.withdrawals[i].slot # s

\* The rows of slot s are the same in e, but for withdrawals that are gone.
Keeps(d, e, s) ==
    /\ e.blocks[s] = d.blocks[s] /\ Own(e, s) = Own(d, s) /\ BlobsAt(e, s) = BlobsAt(d, s)
    /\ \A i \in Slots : e.withdrawals[i].slot = s => e.withdrawals[i] = d.withdrawals[i]

LEMMA EmptyIsOnly ==
    ASSUME NEW d, NEW s, Empty(d, s), NEW b
    PROVE  OnlyOf(d, s, b)
BY DEF Empty, OnlyOf

LEMMA KeepsAll ==
    ASSUME NEW d, NEW e, NEW s, Keeps(d, e, s)
    PROVE  /\ \A b : OnlyOf(d, s, b) => OnlyOf(e, s, b)
           /\ Empty(d, s) => Empty(e, s)
BY DEF Keeps, OnlyOf, Empty

LEMMA KeepsSame ==
    ASSUME NEW d, NEW e, e.blocks = d.blocks, e.transactions = d.transactions,
           e.blobs = d.blobs, e.withdrawals = d.withdrawals, NEW s
    PROVE  Keeps(d, e, s)
BY DEF Keeps, Own, BlobsAt

LEMMA KeepsTwice ==
    ASSUME NEW d, NEW e, NEW f, NEW s, Keeps(d, e, s), Keeps(e, f, s)
    PROVE  Keeps(d, f, s)
BY DEF Keeps

\* A write for block b at slot s: rows elsewhere stay, and here are b's.
Writes(d, e, s, b) ==
    /\ IsDb(e) /\ e.orphans = d.orphans /\ e.rewards = d.rewards
    /\ \A t \in Slots : t # s => Keeps(d, e, t)
    /\ OnlyOf(d, s, b) => OnlyOf(e, s, b)

LEMMA WritesNothing ==
    ASSUME NEW d, IsDb(d), NEW s, NEW b
    PROVE  Writes(d, d, s, b)
BY KeepsSame DEF Writes

LEMMA WritesTwice ==
    ASSUME NEW d, NEW e, NEW f, NEW s, NEW b, Writes(d, e, s, b), Writes(e, f, s, b)
    PROVE  Writes(d, f, s, b)
BY KeepsTwice DEF Writes

LEMMA BlocksWritten ==
    ASSUME NEW d, IsDb(d), NEW s \in Slots, NEW b
    PROVE  /\ Writes(d, PersistBlocks(d, s, b), s, b)
           /\ PersistBlocks(d, s, b).blocks[s] = b
           /\ Own(PersistBlocks(d, s, b), s) = Own(d, s)
           /\ BlobsAt(PersistBlocks(d, s, b), s) = BlobsAt(d, s)
<1> DEFINE e == PersistBlocks(d, s, b)
<1> DEFINE k == [d.blocks EXCEPT ![s] = b]
<1>1. /\ DOMAIN k = Slots /\ k[s] = b /\ \A t \in Slots : t # s => k[t] = d.blocks[t]
  BY DEF IsDb
<1>2. e = [d EXCEPT !.blocks = k]
  BY DEF PersistBlocks, BlocksInput
<1> HIDE DEF k
<1>3. /\ DOMAIN e = Tables /\ e.blocks = k /\ e.transactions = d.transactions
      /\ e.withdrawals = d.withdrawals /\ e.blobs = d.blobs /\ e.orphans = d.orphans
      /\ e.rewards = d.rewards
  BY <1>2 DEF IsDb, Tables
<1> HIDE DEF e
<1>4. IsDb(e)
  BY <1>1, <1>3 DEF IsDb
<1>5. \A t \in Slots : Own(e, t) = Own(d, t) /\ BlobsAt(e, t) = BlobsAt(d, t)
  BY <1>3 DEF Own, BlobsAt
<1>6. \A t \in Slots : t # s => Keeps(d, e, t)
  BY <1>1, <1>3, <1>5 DEF Keeps
<1>7. OnlyOf(d, s, b) => OnlyOf(e, s, b)
  BY <1>1, <1>3, <1>5 DEF OnlyOf
<1> QED
  BY <1>1, <1>3, <1>4, <1>5, <1>6, <1>7 DEF Writes, e

LEMMA WithdrawalsWritten ==
    ASSUME NEW d, IsDb(d), NEW s \in Slots, NEW b
    PROVE  /\ Writes(d, PersistWithdrawals(d, s, b), s, b)
           /\ PersistWithdrawals(d, s, b).blocks = d.blocks
           /\ Own(PersistWithdrawals(d, s, b), s) = Own(d, s)
           /\ BlobsAt(PersistWithdrawals(d, s, b), s) = BlobsAt(d, s)
<1> DEFINE e == PersistWithdrawals(d, s, b)
<1>1. CASE b = Missed
  <2>1. e = d
    BY <1>1 DEF PersistWithdrawals
  <2> QED
    BY <2>1, WritesNothing
<1>2. CASE b # Missed
  <2> DEFINE k == [d.withdrawals EXCEPT ![b.num] = [slot |-> s, block |-> b]]
  <2>1. DOMAIN k = Slots /\ \A i \in Slots : k[i] = d.withdrawals[i] \/ (k[i].slot = s /\ k[i].block = b)
    BY DEF IsDb
  <2>2. e = [d EXCEPT !.withdrawals = k]
    BY <1>2 DEF PersistWithdrawals
  <2> HIDE DEF k
  <2>3. /\ DOMAIN e = Tables /\ e.blocks = d.blocks /\ e.transactions = d.transactions
        /\ e.withdrawals = k /\ e.blobs = d.blobs /\ e.orphans = d.orphans
        /\ e.rewards = d.rewards
    BY <2>2 DEF IsDb, Tables
  <2> HIDE DEF e
  <2>4. IsDb(e)
    BY <2>1, <2>3 DEF IsDb
  <2>5. \A t \in Slots : Own(e, t) = Own(d, t) /\ BlobsAt(e, t) = BlobsAt(d, t)
    BY <2>3 DEF Own, BlobsAt
  <2>6. \A t \in Slots : t # s => Keeps(d, e, t)
    BY <2>1, <2>3, <2>5 DEF Keeps
  <2>7. OnlyOf(d, s, b) => OnlyOf(e, s, b)
    BY <2>1, <2>3, <2>5 DEF OnlyOf
  <2> QED
    BY <2>3, <2>4, <2>5, <2>6, <2>7 DEF Writes, e
<1> QED
  BY <1>1, <1>2

LEMMA TransactionsWritten ==
    ASSUME NEW d, IsDb(d), NEW s \in Slots, NEW b, NEW txs, txs \subseteq Txs(b, s)
    PROVE  /\ Writes(d, PersistTransactions(d, s, b, txs), s, b)
           /\ PersistTransactions(d, s, b, txs).blocks = d.blocks
           /\ Own(PersistTransactions(d, s, b, txs), s) = Own(d, s) \union TxRows(s, b, txs)
           /\ BlobsAt(PersistTransactions(d, s, b, txs), s) = BlobsAt(d, s)
<1> DEFINE e == PersistTransactions(d, s, b, txs)
<1>1. e = [d EXCEPT !.transactions = d.transactions \union TxRows(s, b, txs)]
  BY DEF PersistTransactions, TxRows
<1>2. /\ DOMAIN e = Tables /\ e.blocks = d.blocks
      /\ e.transactions = d.transactions \union TxRows(s, b, txs)
      /\ e.withdrawals = d.withdrawals /\ e.blobs = d.blobs /\ e.orphans = d.orphans
      /\ e.rewards = d.rewards
  BY <1>1 DEF IsDb, Tables
<1> HIDE DEF e
<1>3. IsDb(e)
  BY <1>2 DEF IsDb
<1>4. \A r \in TxRows(s, b, txs) : r.slot = s
  BY DEF TxRows
<1>5. \A t \in Slots : BlobsAt(e, t) = BlobsAt(d, t)
  BY <1>2 DEF BlobsAt
<1>6. Own(e, s) = Own(d, s) \union TxRows(s, b, txs)
  BY <1>2, <1>4 DEF Own
<1>7. \A t \in Slots : t # s => Own(e, t) = Own(d, t)
  BY <1>2, <1>4 DEF Own
<1>8. \A t \in Slots : t # s => Keeps(d, e, t)
  BY <1>2, <1>5, <1>7 DEF Keeps
<1>9. TxRows(s, b, txs) \subseteq TxRows(s, b, Txs(b, s))
  BY DEF TxRows
<1>10. OnlyOf(d, s, b) => OnlyOf(e, s, b)
  BY <1>2, <1>5, <1>6, <1>9 DEF OnlyOf
<1> QED
  BY <1>2, <1>3, <1>5, <1>6, <1>8, <1>10 DEF Writes, e

\* The tables from which nothing is deleted.
LEMMA KeptWritten ==
    ASSUME NEW d, IsDb(d), NEW table, NEW s \in Slots, NEW b, NEW c
    PROVE  /\ Writes(d, Kept(d, table, s, b), s, c)
           /\ Kept(d, table, s, b).blocks = d.blocks
           /\ Own(Kept(d, table, s, b), s) = Own(d, s)
           /\ BlobsAt(Kept(d, table, s, b), s) = BlobsAt(d, s)
<1> DEFINE e == Kept(d, table, s, b)
<1>1. /\ DOMAIN e = Tables /\ e.blocks = d.blocks /\ e.transactions = d.transactions
      /\ e.withdrawals = d.withdrawals /\ e.blobs = d.blobs /\ e.orphans = d.orphans
      /\ e.rewards = d.rewards
  BY DEF Kept, IsDb, Tables
<1> HIDE DEF e
<1>2. IsDb(e)
  BY <1>1 DEF IsDb
<1>3. Own(e, s) = Own(d, s) /\ BlobsAt(e, s) = BlobsAt(d, s)
  BY <1>1 DEF Own, BlobsAt
<1>4. \A t \in Slots : Keeps(d, e, t)
  BY <1>1, KeepsSame
<1> QED
  BY <1>1, <1>2, <1>3, <1>4, KeepsAll DEF Writes, e

LEMMA BlobRowsAt ==
    ASSUME NEW s, NEW b, NEW c, NEW txs
    PROVE  \A r \in BlobRows(s, b, c, txs) : r.slot = s
BY DEF BlobRows

\* The blobs of block b are written with its commitments.
LEMMA SidecarsWritten ==
    ASSUME NEW d, IsDb(d), NEW s \in Slots, NEW b, NEW rows, \A r \in rows : r.slot = s
    PROVE  LET e == PersistBlobSidecars(d, s, rows) IN
           /\ IsDb(e) /\ e.orphans = d.orphans /\ e.rewards = d.rewards
           /\ \A t \in Slots : t # s => Keeps(d, e, t)
           /\ e.blocks = d.blocks /\ Own(e, s) = Own(d, s)
           /\ BlobsAt(e, s) \subseteq BlobsAt(d, s) \union rows /\ rows \subseteq BlobsAt(e, s)
           /\ rows \subseteq BlobRows(s, b, b, Txs(b, s)) => Writes(d, e, s, b)
<1> DEFINE e == PersistBlobSidecars(d, s, rows)
<1> DEFINE old == {r \in d.blobs : r.slot # s \/ \A q \in rows : q.index # r.index}
<1>1. /\ DOMAIN e = Tables /\ e.blocks = d.blocks /\ e.transactions = d.transactions
      /\ e.withdrawals = d.withdrawals /\ e.blobs = old \union rows /\ e.orphans = d.orphans
      /\ e.rewards = d.rewards
  BY DEF PersistBlobSidecars, IsDb, Tables
<1>2. /\ old \subseteq d.blobs /\ \A r \in d.blobs : r.slot # s => r \in old
  OBVIOUS
<1> HIDE DEF e, old
<1>3. IsDb(e)
  BY <1>1 DEF IsDb
<1>4. \A t \in Slots : Own(e, t) = Own(d, t)
  BY <1>1 DEF Own
<1>5. \A t \in Slots : t # s => BlobsAt(e, t) = BlobsAt(d, t)
  BY <1>1, <1>2 DEF BlobsAt
<1>6. BlobsAt(e, s) \subseteq BlobsAt(d, s) \union rows /\ rows \subseteq BlobsAt(e, s)
  BY <1>1, <1>2 DEF BlobsAt
<1>7. \A t \in Slots : t # s => Keeps(d, e, t)
  BY <1>1, <1>4, <1>5 DEF Keeps
<1>8. rows \subseteq BlobRows(s, b, b, Txs(b, s)) /\ OnlyOf(d, s, b) => OnlyOf(e, s, b)
  BY <1>1, <1>4, <1>6 DEF OnlyOf
<1> QED
  BY <1>1, <1>3, <1>4, <1>6, <1>7, <1>8 DEF Writes, e

LEMMA OrphansWritten ==
    ASSUME NEW d, IsDb(d), NEW s \in Slots, NEW b
    PROVE  LET e == PersistOrphans(d, s, b) IN
           /\ IsDb(e) /\ e.orphans = d.orphans \union {<<s, b>>} /\ e.rewards = d.rewards
           /\ \A t \in Slots : Keeps(d, e, t)
<1> DEFINE e == PersistOrphans(d, s, b)
<1>1. /\ DOMAIN e = Tables /\ e.blocks = d.blocks /\ e.transactions = d.transactions
      /\ e.withdrawals = d.withdrawals /\ e.blobs = d.blobs
      /\ e.orphans = d.orphans \union {<<s, b>>} /\ e.rewards = d.rewards
  BY DEF PersistOrphans, IsDb, Tables
<1> HIDE DEF e
<1>2. IsDb(e)
  BY <1>1 DEF IsDb
<1> QED
  BY <1>1, <1>2, KeepsSame DEF e

\* A delete leaves other slots alone, and when none of the four fails nothing here.
LEMMA MetricsDeleted ==
    ASSUME NEW d, IsDb(d), NEW s \in Slots, NEW n \in 0..4
    PROVE  LET e == DeleteBlockMetrics(d, s, n) IN
           /\ IsDb(e) /\ e.orphans = d.orphans /\ e.rewards = d.rewards
           /\ \A t \in Slots : t # s => Keeps(d, e, t)
           /\ n = 4 => Empty(e, s)
<1> DEFINE e == DeleteBlockMetrics(d, s, n)
<1> DEFINE gone == [i \in Slots |-> IF d.withdrawals[i].slot = s THEN [slot |-> 0, block |-> None]
                                    ELSE d.withdrawals[i]]
<1>0. \A t \in Slots : t # 0
  BY Basics
<1>1. /\ DOMAIN gone = Slots
      /\ \A i \in Slots : gone[i].slot # s
      /\ \A i, t \in Slots : t # s /\ gone[i].slot = t => gone[i] = d.withdrawals[i]
      /\ \A i, t \in Slots : t # s /\ d.withdrawals[i].slot = t => gone[i] = d.withdrawals[i]
  BY <1>0
<1>2. /\ DOMAIN e = Tables /\ e.orphans = d.orphans /\ e.rewards = d.rewards
      /\ e.blocks = [d.blocks EXCEPT ![s] = IF n >= 1 THEN None ELSE d.blocks[s]]
      /\ e.transactions = IF n >= 2 THEN {r \in d.transactions : r.slot # s} ELSE d.transactions
      /\ e.withdrawals = IF n >= 3 THEN gone ELSE d.withdrawals
      /\ e.blobs = IF n >= 4 THEN {r \in d.blobs : r.slot # s} ELSE d.blobs
  BY DEF DeleteBlockMetrics, IsDb, Tables
<1> HIDE DEF e, gone
<1>3. IsDb(e)
  BY <1>1, <1>2 DEF IsDb
<1>4. \A t \in Slots : t # s => Own(e, t) = Own(d, t) /\ BlobsAt(e, t) = BlobsAt(d, t)
  BY <1>2 DEF Own, BlobsAt
<1>5. \A t \in Slots : t # s => e.blocks[t] = d.blocks[t]
  BY <1>2 DEF IsDb
<1>6. \A t \in Slots : t # s => Keeps(d, e, t)
  BY <1>1, <1>2, <1>4, <1>5 DEF Keeps
<1>7. ASSUME n = 4 PROVE Empty(e, s)
  <2>1. /\ e.blocks[s] = None /\ e.withdrawals = gone
        /\ e.transactions = {r \in d.transactions : r.slot # s}
        /\ e.blobs = {r \in d.blobs : r.slot # s}
    BY <1>2, <1>7 DEF IsDb
  <2> QED
    BY <1>1, <2>1 DEF Empty, Own, BlobsAt
<1> QED
  BY <1>2, <1>3, <1>6, <1>7 DEF e

-----------------------------------------------------------------------------
(* What the steps do to single objects.                                    *)

LEMMA SetProcessed ==
    ASSUME IsHeap(heap), NEW o \in Objects
    PROVE  LET k == [heap EXCEPT ![o].processed = TRUE] IN
           /\ IsHeap(k) /\ \A x \in Objects : x # o => k[x] = heap[x]
           /\ k[o].block = heap[o].block /\ k[o].txs = heap[o].txs
           /\ k[o].fails = heap[o].fails /\ k[o].processed = TRUE
<1> DEFINE k == [heap EXCEPT ![o].processed = TRUE]
<1>1. DOMAIN k = Objects /\ \A x \in Objects : x # o => k[x] = heap[x]
  BY DEF IsHeap
<1>2. k[o] = [heap[o] EXCEPT !.processed = TRUE]
  BY DEF IsHeap
<1> HIDE DEF k
<1>3. /\ DOMAIN k[o] = Fields /\ k[o].block = heap[o].block /\ k[o].txs = heap[o].txs
      /\ k[o].fails = heap[o].fails /\ k[o].processed = TRUE
  BY <1>2 DEF IsHeap, Fields
<1>4. ASSUME NEW x \in Objects PROVE DOMAIN k[x] = Fields /\ k[x].fails \in Nat
  BY <1>1, <1>3 DEF IsHeap
<1>5. IsHeap(k)
  BY <1>1, <1>4 DEF IsHeap
<1> QED
  BY <1>1, <1>3, <1>5 DEF k

LEMMA SetTxs ==
    ASSUME IsHeap(heap), NEW o \in Objects, NEW txs
    PROVE  LET k == [heap EXCEPT ![o].txs = txs] IN
           /\ IsHeap(k) /\ \A x \in Objects : x # o => k[x] = heap[x]
           /\ k[o].block = heap[o].block /\ k[o].txs = txs
           /\ k[o].fails = heap[o].fails /\ k[o].processed = heap[o].processed
<1> DEFINE k == [heap EXCEPT ![o].txs = txs]
<1>1. DOMAIN k = Objects /\ \A x \in Objects : x # o => k[x] = heap[x]
  BY DEF IsHeap
<1>2. k[o] = [heap[o] EXCEPT !.txs = txs]
  BY DEF IsHeap
<1> HIDE DEF k
<1>3. /\ DOMAIN k[o] = Fields /\ k[o].block = heap[o].block /\ k[o].txs = txs
      /\ k[o].fails = heap[o].fails /\ k[o].processed = heap[o].processed
  BY <1>2 DEF IsHeap, Fields
<1>4. ASSUME NEW x \in Objects PROVE DOMAIN k[x] = Fields /\ k[x].fails \in Nat
  BY <1>1, <1>3 DEF IsHeap
<1>5. IsHeap(k)
  BY <1>1, <1>4 DEF IsHeap
<1> QED
  BY <1>1, <1>3, <1>5 DEF k

LEMMA AddFail ==
    ASSUME IsHeap(heap), NEW o \in Objects
    PROVE  LET k == [heap EXCEPT ![o].fails = @ + 1] IN
           /\ IsHeap(k) /\ \A x \in Objects : x # o => k[x] = heap[x]
           /\ k[o].block = heap[o].block /\ k[o].txs = heap[o].txs
           /\ k[o].fails = heap[o].fails + 1 /\ k[o].processed = heap[o].processed
<1> DEFINE k == [heap EXCEPT ![o].fails = heap[o].fails + 1]
<1>1. DOMAIN k = Objects /\ \A x \in Objects : x # o => k[x] = heap[x]
  BY DEF IsHeap
<1>2. k[o] = [heap[o] EXCEPT !.fails = heap[o].fails + 1]
  BY DEF IsHeap
<1> HIDE DEF k
<1>3. /\ DOMAIN k[o] = Fields /\ k[o].block = heap[o].block /\ k[o].txs = heap[o].txs
      /\ k[o].fails = heap[o].fails + 1 /\ k[o].processed = heap[o].processed
  BY <1>2 DEF IsHeap, Fields
<1>4. ASSUME NEW x \in Objects PROVE DOMAIN k[x] = Fields /\ k[x].fails \in Nat
  <2>1. CASE x = o
    <3>1. heap[o].fails + 1 \in Nat
      BY DEF IsHeap
    <3> QED
      BY <1>3, <2>1, <3>1
  <2>2. CASE x # o
    BY <1>1, <2>2 DEF IsHeap
  <2> QED
    BY <2>1, <2>2
<1>5. IsHeap(k)
  BY <1>1, <1>4 DEF IsHeap
<1> QED
  BY <1>1, <1>3, <1>5 DEF k

\* Receipts that are asked for again: they come, or another failure is counted.
LEMMA Recovered ==
    ASSUME Shape, NEW o \in Objects, NEW r \in RecoverBlockReceipts(o)
    PROVE  LET k == [heap EXCEPT ![o] = r.obj] IN
           /\ IsHeap(k) /\ r.faults \in Nat /\ r.faults >= faults
           /\ k[o] = r.obj /\ \A x \in Objects : x # o => k[x] = heap[x]
           /\ r.obj.block = heap[o].block /\ r.obj.processed = heap[o].processed
           /\ \/ /\ r.obj.txs = heap[o].txs /\ r.obj.fails = heap[o].fails
                 /\ heap[o].txs # {} \/ Txs(heap[o].block, o[1]) = {}
              \/ /\ r.obj.txs = heap[o].txs /\ r.obj.fails = heap[o].fails + 1
              \/ /\ r.obj.txs = GetBlockReceipts(heap[o].block, o[1])
                 /\ r.obj.fails = heap[o].fails
<1> DEFINE k == [heap EXCEPT ![o] = r.obj]
<1> DEFINE b == heap[o].block
<1> DEFINE txs == GetBlockReceipts(b, o[1])
<1>0. IsHeap(heap) /\ faults \in Nat
  BY DEF Shape
<1>1. \/ r = [obj |-> heap[o], faults |-> faults] /\ (heap[o].txs # {} \/ Txs(b, o[1]) = {})
      \/ \E n \in Fails : r = [obj |-> [heap[o] EXCEPT !.fails = heap[o].fails + 1], faults |-> n]
      \/ \E n \in Fails : r = [obj |-> [heap[o] EXCEPT !.txs = txs], faults |-> n]
  BY DEF RecoverBlockReceipts
<1>2. r.faults \in Nat /\ r.faults >= faults
  BY <1>0, <1>1, FailsAre
<1>3. \/ r.obj = heap[o] /\ (heap[o].txs # {} \/ Txs(b, o[1]) = {})
      \/ r.obj = [heap[o] EXCEPT !.fails = heap[o].fails + 1]
      \/ r.obj = [heap[o] EXCEPT !.txs = txs]
  BY <1>1
<1> HIDE DEF txs
<1>4. /\ DOMAIN heap = Objects /\ DOMAIN heap[o] = Fields /\ heap[o].fails \in Nat
  BY <1>0 DEF IsHeap
<1>5. /\ DOMAIN r.obj = Fields /\ r.obj.fails \in Nat
      /\ r.obj.block = b /\ r.obj.processed = heap[o].processed
      /\ \/ /\ r.obj.txs = heap[o].txs /\ r.obj.fails = heap[o].fails
            /\ heap[o].txs # {} \/ Txs(b, o[1]) = {}
         \/ /\ r.obj.txs = heap[o].txs /\ r.obj.fails = heap[o].fails + 1
         \/ /\ r.obj.txs = txs /\ r.obj.fails = heap[o].fails
  BY <1>3, <1>4 DEF Fields
<1>6. DOMAIN k = Objects /\ k[o] = r.obj /\ \A x \in Objects : x # o => k[x] = heap[x]
  BY <1>4
<1> HIDE DEF k
<1>7. IsHeap(k)
  BY <1>0, <1>5, <1>6 DEF IsHeap
<1> QED
  BY <1>2, <1>5, <1>6, <1>7 DEF k, txs

-----------------------------------------------------------------------------
(* The shape is kept.                                                      *)

\* The blocks of a chain.
LEMMA ChainBlocks ==
    ASSUME NEW f, NEW p, NEW a, NEW s \in Slots
    PROVE  \/ s <= a /\ Chain(f, p, a)[s] = canon[s]
           \/ ~(s <= a) /\ Chain(f, p, a)[s] = Missed
           \/ ~(s <= a) /\ Chain(f, p, a)[s].fork = f
BY DEF Chain

LEMMA ShapeInit == Init => Shape
<1> SUFFICES ASSUME Init PROVE Shape
  OBVIOUS
<1>1. fork \in {1, 2} /\ started \subseteq Slots /\ faults \in Nat /\ gen \in [Slots -> 0..2]
  BY DEF Init
<1>2. ASSUME NEW s \in Slots PROVE canon[s].fork \in Nat
  <2>1. canon[s] = Missed \/ canon[s].fork = 1
    BY DEF Init
  <2> QED
    BY <2>1, Basics
<1>3. IsHeap(heap)
  <2>1. DOMAIN heap = Objects /\ \A o \in Objects : heap[o] = NewObject(None)
    BY DEF Init
  <2>2. DOMAIN NewObject(None) = Fields /\ NewObject(None).fails = 0
    BY NewIsObject
  <2> QED
    BY <2>1, <2>2 DEF IsHeap
<1>4. pc \in [Procs -> Labels] /\ DOMAIN blobs = Procs
  BY DEF Init, Procs, Labels
<1>5. at \in [Procs -> Objects]
  BY Basics DEF Init
<1>6. reorg \in Walks
  BY DEF Init, Walks, Idle
<1>7. state.gens = <<>> /\ rewards.gens = <<>> /\ DOMAIN rewards = {"gens", "done"}
  BY DEF Init
<1>8. rewards.done = {} /\ db.rewards = {} /\ IsDb(db)
  BY DEF Init, IsDb, Tables
<1> QED
  BY <1>1, <1>2, <1>3, <1>4, <1>5, <1>6, <1>7, <1>8 DEF Shape

\* What a processer is at.
LEMMA AtSlot ==
    ASSUME Shape, NEW p \in Procs
    PROVE  /\ at[p] \in Objects /\ SlotOf(p) \in Slots /\ at[p] = <<SlotOf(p), at[p][2]>>
           /\ pc[p] \in Labels
           /\ gen[SlotOf(p)] # 0 => <<SlotOf(p), gen[SlotOf(p)]>> \in Objects
<1>1. at[p] \in Objects /\ pc[p] \in Labels
  BY DEF Shape
<1>2. SlotOf(p) \in Slots /\ at[p] = <<SlotOf(p), at[p][2]>>
  BY <1>1, Basics DEF SlotOf
<1>3. gen[SlotOf(p)] \in 0..2
  BY <1>2 DEF Shape
<1>4. gen[SlotOf(p)] # 0 => gen[SlotOf(p)] \in {1, 2}
  BY <1>3
<1> QED
  BY <1>1, <1>2, <1>4, Basics

\* WriteBlock, for the block of the object that is cached.
LEMMA WriteBlockDoes ==
    ASSUME Shape, NEW p \in Procs, WriteBlock(p)
    PROVE  LET s == SlotOf(p)
               o == <<s, gen[s]>>
               b == heap[o].block
           IN
           /\ o \in Objects /\ gen[s] # 0 /\ pc[p] = "block"
           /\ faults' \in Nat /\ faults' >= faults
           /\ at' = [at EXCEPT ![p] = o] /\ pc' = [pc EXCEPT ![p] = "receipts"]
           /\ heap' = [heap EXCEPT ![o].processed = TRUE]
           /\ Writes(db, db', s, b)
           /\ faults' = faults => db'.blocks[s] = b
           /\ Own(db', s) = Own(db, s) /\ BlobsAt(db', s) = BlobsAt(db, s)
<1> DEFINE s == SlotOf(p)
<1> DEFINE o == <<s, gen[s]>>
<1> DEFINE b == heap[o].block
<1>1. gen[s] # 0 /\ pc[p] = "block" /\ s \in Slots /\ o \in Objects
  BY AtSlot DEF WriteBlock
<1>2. PICK n \in Fails :
        /\ faults' = n
        /\ at' = [at EXCEPT ![p] = o] /\ heap' = [heap EXCEPT ![o].processed = TRUE]
        /\ \/ db' = PersistWithdrawals(db, s, b) /\ Failed(n)
           \/ db' = PersistBlocks(db, s, b) /\ Failed(n)
           \/ db' = PersistWithdrawals(PersistBlocks(db, s, b), s, b)
  BY DEF WriteBlock
<1>3. pc' = [pc EXCEPT ![p] = "receipts"]
  BY DEF WriteBlock
<1>4. faults \in Nat /\ IsDb(db)
  BY DEF Shape
<1>5. faults' \in Nat /\ faults' >= faults /\ (Failed(n) => faults' # faults)
  BY <1>2, <1>4, FailsAre
<1> DEFINE d == PersistBlocks(db, s, b)
<1>6. /\ Writes(db, d, s, b) /\ d.blocks[s] = b
      /\ Own(d, s) = Own(db, s) /\ BlobsAt(d, s) = BlobsAt(db, s)
  BY <1>1, <1>4, BlocksWritten
<1>7. ASSUME NEW x, IsDb(x)
      PROVE  /\ Writes(x, PersistWithdrawals(x, s, b), s, b)
             /\ PersistWithdrawals(x, s, b).blocks = x.blocks
             /\ Own(PersistWithdrawals(x, s, b), s) = Own(x, s)
             /\ BlobsAt(PersistWithdrawals(x, s, b), s) = BlobsAt(x, s)
  BY <1>1, <1>7, WithdrawalsWritten
<1>8. IsDb(d)
  BY <1>6 DEF Writes
<1> HIDE DEF d, b
<1>9. /\ Writes(db, db', s, b)
      /\ faults' = faults => db'.blocks[s] = b
      /\ Own(db', s) = Own(db, s) /\ BlobsAt(db', s) = BlobsAt(db, s)
  <2>1. CASE db' = PersistWithdrawals(db, s, b) /\ Failed(n)
    BY <1>4, <1>5, <1>7, <2>1
  <2>2. CASE db' = d /\ Failed(n)
    BY <1>5, <1>6, <2>2
  <2>3. CASE db' = PersistWithdrawals(d, s, b)
    <3>1. /\ Writes(d, db', s, b) /\ db'.blocks = d.blocks
          /\ Own(db', s) = Own(d, s) /\ BlobsAt(db', s) = BlobsAt(d, s)
      BY <1>7, <1>8, <2>3
    <3> QED
      BY <1>6, <3>1, WritesTwice
  <2> QED
    BY <1>2, <2>1, <2>2, <2>3 DEF d
<1> QED
  BY <1>1, <1>2, <1>3, <1>5, <1>9 DEF b

\* Missing receipts are counted.
LEMMA NoReceiptsDoes ==
    ASSUME Shape, NEW p \in Procs, NoReceipts(p)
    PROVE  /\ pc[p] = "receipts" /\ pc' = [pc EXCEPT ![p] = "rest"] /\ faults' = faults + 1
           /\ heap' = [heap EXCEPT ![at[p]].fails = @ + 1]
           /\ UNCHANGED <<canon, fork, reorg, started, gen, state, at, blobs, bundle, rewards,
                          db, dirty, panicked>>
BY DEF NoReceipts, chain, cache, transitions

\* The transactions of the object and their rows.
LEMMA TransactionsDo ==
    ASSUME Shape, NEW p \in Procs, ProcessTransactions(p)
    PROVE  LET s == SlotOf(p)
               b == heap[at[p]].block
               txs == GetBlockReceipts(b, s)
           IN
           /\ pc[p] = "receipts" /\ faults' \in Nat /\ faults' >= faults
           /\ heap' = [heap EXCEPT ![at[p]].txs = txs]
           /\ Writes(db, db', s, b)
           /\ db'.blocks = db.blocks /\ BlobsAt(db', s) = BlobsAt(db, s)
           /\ faults' = faults => Own(db', s) = Own(db, s) \union TxRows(s, b, txs)
           /\ \/ pc' = [pc EXCEPT ![p] = "rest"] /\ (faults' # faults \/ b = Missed)
              \/ pc' = [pc EXCEPT ![p] = "blobs"] /\ b # Missed
           /\ UNCHANGED <<canon, fork, reorg, started, gen, state, at, blobs, bundle, rewards,
                          dirty, panicked>>
<1> DEFINE s == SlotOf(p)
<1> DEFINE b == heap[at[p]].block
<1> DEFINE txs == GetBlockReceipts(b, s)
<1> DEFINE d == PersistTransactions(db, s, b, txs)
<1>1. s \in Slots /\ faults \in Nat /\ IsDb(db)
  BY AtSlot DEF Shape
<1>2. PICK n \in {faults} \union Fails :
        /\ faults' = n /\ heap' = [heap EXCEPT ![at[p]].txs = txs]
        /\ \/ Failed(n) /\ db' \in {db, d}
           \/ ~Failed(n) /\ db' = PersistETH1Deposits(d, s, b)
        /\ pc' = [pc EXCEPT ![p] = IF Failed(n) \/ b = Missed THEN "rest" ELSE "blobs"]
  BY DEF ProcessTransactions, Obj
<1>3. n \in Nat /\ n >= faults /\ (Failed(n) <=> n # faults)
  BY <1>1, FailsAre DEF Failed
<1>4. txs \subseteq Txs(b, s)
  BY DEF GetBlockReceipts
<1> HIDE DEF txs, b
<1>5. /\ Writes(db, d, s, b) /\ d.blocks = db.blocks
      /\ Own(d, s) = Own(db, s) \union TxRows(s, b, txs) /\ BlobsAt(d, s) = BlobsAt(db, s)
  BY <1>1, <1>4, TransactionsWritten
<1>6. IsDb(d)
  BY <1>5 DEF Writes
<1> HIDE DEF d
<1>7. /\ Writes(db, db', s, b) /\ db'.blocks = db.blocks /\ BlobsAt(db', s) = BlobsAt(db, s)
      /\ n = faults => Own(db', s) = Own(db, s) \union TxRows(s, b, txs)
  <2>1. CASE Failed(n) /\ db' = db
    BY <1>1, <1>3, <2>1, WritesNothing
  <2>2. CASE Failed(n) /\ db' = d
    BY <1>3, <1>5, <2>2
  <2>3. CASE ~Failed(n) /\ db' = PersistETH1Deposits(d, s, b)
    <3>1. /\ Writes(d, db', s, b) /\ db'.blocks = d.blocks
          /\ Own(db', s) = Own(d, s) /\ BlobsAt(db', s) = BlobsAt(d, s)
      BY <1>1, <1>6, <2>3, KeptWritten DEF PersistETH1Deposits
    <3> QED
      BY <1>5, <3>1, WritesTwice
  <2> QED
    BY <1>2, <2>1, <2>2, <2>3
<1>8. pc[p] = "receipts" /\ UNCHANGED <<canon, fork, reorg, started, gen, state, at, blobs,
                                       bundle, rewards, dirty, panicked>>
  BY DEF ProcessTransactions, chain, cache, transitions
<1> QED
  BY <1>2, <1>3, <1>7, <1>8 DEF txs, b

\* The blobs, in one request and with their commitments.
LEMMA SidecarsDo ==
    ASSUME Shape, NEW p \in Procs, BlobSidecars(p) \/ FuluCommitments(p)
    PROVE  LET s == SlotOf(p)
               c == IF pc[p] = "blobs" THEN canon[s] ELSE blobs[p]
               rows == BlobRows(s, c, canon[s], heap[at[p]].txs)
           IN
           /\ pc[p] \in {"blobs", "commitments"} /\ pc' = [pc EXCEPT ![p] = "rest"]
           /\ faults' \in Nat /\ faults' >= faults
           /\ IsDb(db') /\ db'.orphans = db.orphans /\ db'.rewards = db.rewards
           /\ \A t \in Slots : t # s => Keeps(db, db', t)
           /\ db'.blocks = db.blocks /\ Own(db', s) = Own(db, s)
           /\ BlobsAt(db', s) \subseteq BlobsAt(db, s) \union rows
           /\ faults' = faults /\ ~panicked' => rows \subseteq BlobsAt(db', s)
           /\ \A b : rows \subseteq BlobRows(s, b, b, Txs(b, s)) => Writes(db, db', s, b)
           /\ UNCHANGED <<canon, fork, reorg, started, gen, heap, state, at, blobs, bundle,
                          rewards, dirty>>
<1> DEFINE s == SlotOf(p)
<1> DEFINE c == IF pc[p] = "blobs" THEN canon[s] ELSE blobs[p]
<1> DEFINE rows == BlobRows(s, c, canon[s], heap[at[p]].txs)
<1>1. s \in Slots /\ faults \in Nat /\ IsDb(db)
  BY AtSlot DEF Shape
<1>2. /\ pc[p] \in {"blobs", "commitments"} /\ pc' = [pc EXCEPT ![p] = "rest"]
      /\ UNCHANGED <<canon, fork, reorg, started, gen, heap, state, at, blobs, bundle,
                     rewards, dirty>>
  BY DEF BlobSidecars, FuluCommitments, chain, cache, transitions
<1>3. PICK n \in Fails :
        /\ faults' = n
        /\ \/ (Failed(n) \/ panicked') /\ db' = db
           \/ db' = PersistBlobSidecars(db, s, rows)
  <2>1. CASE BlobSidecars(p)
    BY <2>1 DEF BlobSidecars, Obj
  <2>2. CASE FuluCommitments(p)
    BY <2>2 DEF FuluCommitments, Obj
  <2> QED
    BY <2>1, <2>2
<1>4. n \in Nat /\ n >= faults /\ (Failed(n) => n # faults)
  BY <1>1, FailsAre
<1>5. \A r \in rows : r.slot = s
  BY BlobRowsAt
<1> HIDE DEF rows
<1>6. /\ IsDb(db') /\ db'.orphans = db.orphans /\ db'.rewards = db.rewards
      /\ \A t \in Slots : t # s => Keeps(db, db', t)
      /\ db'.blocks = db.blocks /\ Own(db', s) = Own(db, s)
      /\ BlobsAt(db', s) \subseteq BlobsAt(db, s) \union rows
      /\ n = faults /\ ~panicked' => rows \subseteq BlobsAt(db', s)
  <2>1. CASE (Failed(n) \/ panicked') /\ db' = db
    BY <1>1, <1>4, <2>1, KeepsSame
  <2>2. CASE db' = PersistBlobSidecars(db, s, rows)
    BY <1>1, <1>5, <2>2, SidecarsWritten
  <2> QED
    BY <1>3, <2>1, <2>2
<1>7. ASSUME NEW b, rows \subseteq BlobRows(s, b, b, Txs(b, s)) PROVE Writes(db, db', s, b)
  <2>1. CASE db' = db
    BY <1>1, <2>1, WritesNothing
  <2>2. CASE db' = PersistBlobSidecars(db, s, rows)
    BY <1>1, <1>5, <1>7, <2>2, SidecarsWritten
  <2> QED
    BY <1>3, <2>1, <2>2
<1> QED
  BY <1>2, <1>3, <1>4, <1>6, <1>7 DEF rows

LEMMA WriteRestDoes ==
    ASSUME Shape, NEW p \in Procs, WriteRest(p)
    PROVE  LET s == SlotOf(p) IN
           /\ pc[p] = "rest" /\ pc' = [pc EXCEPT ![p] = "idle"]
           /\ \A b : Writes(db, db', s, b)
           /\ db'.blocks = db.blocks /\ Own(db', s) = Own(db, s)
           /\ BlobsAt(db', s) = BlobsAt(db, s)
           /\ UNCHANGED <<canon, fork, reorg, started, gen, heap, state, at, blobs, bundle,
                          rewards, faults, dirty, panicked>>
<1> DEFINE s == SlotOf(p)
<1> DEFINE c == heap[at[p]].block
<1> DEFINE d == PersistBLSToExecutionChanges(db, s, c)
<1>1. s \in Slots /\ IsDb(db)
  BY AtSlot DEF Shape
<1>2. db' = PersistDeposits(d, s, c)
  BY DEF WriteRest, Obj
<1>3. /\ pc[p] = "rest" /\ pc' = [pc EXCEPT ![p] = "idle"]
      /\ UNCHANGED <<canon, fork, reorg, started, gen, heap, state, at, blobs, bundle,
                     rewards, faults, dirty, panicked>>
  BY DEF WriteRest, chain, cache, transitions
<1> HIDE DEF c
<1>4. ASSUME NEW b
      PROVE  /\ Writes(db, d, s, b) /\ d.blocks = db.blocks /\ Own(d, s) = Own(db, s)
             /\ BlobsAt(d, s) = BlobsAt(db, s)
  BY <1>1, KeptWritten DEF PersistBLSToExecutionChanges
<1>5. IsDb(d)
  BY <1>4 DEF Writes
<1> HIDE DEF d
<1>6. ASSUME NEW b
      PROVE  /\ Writes(d, db', s, b) /\ db'.blocks = d.blocks /\ Own(db', s) = Own(d, s)
             /\ BlobsAt(db', s) = BlobsAt(d, s)
  BY <1>1, <1>2, <1>5, KeptWritten DEF PersistDeposits
<1>7. \A b : Writes(db, db', s, b)
  BY <1>4, <1>6, WritesTwice
<1> QED
  BY <1>3, <1>4, <1>6, <1>7

LEMMA ShapeStep == Shape /\ [Next]_vars => Shape'
<1> SUFFICES ASSUME Shape, [Next]_vars PROVE Shape'
  OBVIOUS
<1>0. /\ fork \in {1, 2} /\ started \subseteq Slots /\ faults \in Nat
      /\ \A s \in Slots : canon[s].fork \in Nat
      /\ gen \in [Slots -> 0..2] /\ IsHeap(heap)
      /\ pc \in [Procs -> Labels] /\ at \in [Procs -> Objects] /\ DOMAIN blobs = Procs
      /\ reorg \in Walks
      /\ state.gens # <<>> => gen \in [Slots -> Gens] /\ state.gens \in [Slots -> Gens]
      /\ rewards.gens # <<>> => rewards.gens \in [Slots -> Gens]
      /\ DOMAIN rewards = {"gens", "done"}
      /\ \A r \in rewards.done \union db.rewards : r.slot \in Slots
      /\ IsDb(db)
  BY DEF Shape
<1>1. ASSUME NEW a \in 0..LastSlot, NEW p \in SUBSET Slots, ChainReorg(a, p) PROVE Shape'
  <2>1. \A s \in Slots : canon'[s].fork \in Nat
    <3>1. canon' = Chain(2, p, a)
      BY <1>1 DEF ChainReorg
    <3>2. 2 \in Nat /\ Missed.fork \in Nat
      BY Basics
    <3> QED
      BY <1>0, <3>1, <3>2, ChainBlocks
  <2>2. reorg' \in Walks
    <3>1. PICK i \in Slots : \E end \in 1..(a + 1) :
              reorg' = IF end <= i THEN [i |-> i, end |-> end, step |-> "slot"] ELSE Idle
      BY <1>1 DEF ChainReorg
    <3>2. PICK end \in 1..(a + 1) :
              reorg' = IF end <= i THEN [i |-> i, end |-> end, step |-> "slot"] ELSE Idle
      BY <3>1
    <3>3. i \in Nat /\ i <= LastSlot /\ end \in Nat /\ 1 <= end /\ LastSlot \in Nat
      BY <3>1, <3>2, Basics, BlockAssumption
    <3>4. CASE end <= i
      <4>1. end \in Slots
        BY <3>3, <3>4 DEF Slots
      <4> QED
        BY <3>1, <3>2, <3>3, <3>4, <4>1 DEF Walks
    <3>5. CASE ~(end <= i)
      BY <3>2, <3>5 DEF Walks, Idle
    <3> QED
      BY <3>4, <3>5
  <2>3. /\ fork' \in {1, 2}
        /\ UNCHANGED <<started, gen, state, heap, pc, at, blobs, bundle, rewards, db, faults>>
    BY <1>1 DEF ChainReorg, cache, procs, transitions
  <2> QED
    BY <1>0, <2>1, <2>2, <2>3 DEF Shape
<1>2. ASSUME NEW s \in Slots, StartSlot(s) PROVE Shape'
  <2>1. /\ started' \subseteq Slots /\ pc' = [pc EXCEPT ![s] = "block"]
        /\ UNCHANGED <<canon, fork, reorg, gen, heap, at, blobs, state, rewards, db, faults>>
    BY <1>0, <1>2 DEF StartSlot, chain, transitions
  <2>2. pc' \in [Procs -> Labels]
    BY <1>0, <2>1 DEF Labels
  <2> QED
    BY <1>0, <2>1, <2>2 DEF Shape
<1>3. ASSUME NEW s \in Slots, DownloadBlock(s) PROVE Shape'
  <2>1. /\ gen[s] = 0 /\ gen' = [gen EXCEPT ![s] = 1]
        /\ heap' = [heap EXCEPT ![<<s, 1>>] = NewObject(canon[s])]
        /\ UNCHANGED <<canon, fork, reorg, started, pc, at, blobs, state, rewards, db, faults>>
    BY <1>3 DEF DownloadBlock, chain, procs, transitions
  <2>2. gen' \in [Slots -> 0..2]
    BY <1>0, <2>1
  <2>3. IsHeap(heap')
    BY <1>0, <2>1, Basics, PutObject
  <2>4. state.gens = <<>>
    <3>1. gen \in [Slots -> Gens] => gen[s] # 0
      BY Basics
    <3> QED
      BY <1>0, <2>1, <3>1
  <2> QED
    BY <1>0, <2>1, <2>2, <2>3, <2>4 DEF Shape
<1>4. CASE DownloadState
  <2>1. /\ \A s \in Slots : gen[s] # 0
        /\ state' = StateOf(gen)
        /\ UNCHANGED <<canon, fork, reorg, started, gen, heap, pc, at, blobs, rewards, db, faults>>
    BY <1>4 DEF DownloadState, chain, procs, transitions
  <2>2. gen \in [Slots -> Gens]
    <3>1. \A s \in Slots : gen[s] \in 0..2 /\ gen[s] # 0
      BY <1>0, <2>1
    <3>2. \A s \in Slots : gen[s] \in Gens
      BY <3>1, Basics
    <3> QED
      BY <1>0, <3>2
  <2>3. state'.gens = gen
    BY <2>1 DEF StateOf
  <2> QED
    BY <1>0, <2>1, <2>2, <2>3 DEF Shape
<1>5. CASE CountRewards
  <2>1. /\ heap' = Counted(heap, state.gens)
        /\ UNCHANGED <<canon, fork, reorg, started, gen, state, pc, at, blobs, rewards, db, faults>>
    BY <1>5 DEF CountRewards, chain, cache, procs
  <2>2. IsHeap(heap')
    BY <1>0, <2>1, CountedKeeps
  <2> QED
    BY <1>0, <2>1, <2>2 DEF Shape
<1>6. CASE StartRewards
  <2>1. /\ rewards' = [rewards EXCEPT !.gens = state.gens]
        /\ UNCHANGED <<canon, fork, reorg, started, gen, state, heap, pc, at, blobs, db, faults>>
    BY <1>6 DEF StartRewards, chain, cache, procs
  <2>2. /\ DOMAIN rewards' = {"gens", "done"} /\ rewards'.gens = state.gens
        /\ rewards'.done = rewards.done
    BY <1>0, <2>1
  <2> QED
    BY <1>0, <2>1, <2>2 DEF Shape
<1>7. ASSUME NEW s \in Slots, BlockReward(s) PROVE Shape'
  <2> DEFINE o == <<s, rewards.gens[s]>>
  <2>1. PICK r \in RecoverBlockReceipts(o) :
          /\ heap' = [heap EXCEPT ![o] = r.obj] /\ faults' = r.faults
          /\ rewards' = [rewards EXCEPT !.done = @ \union {RewardRow(s, r.obj)}]
          /\ db' = IF s = LastSlot
                   THEN PersistBlockRewards(db, rewards.done \union {RewardRow(s, r.obj)}) ELSE db
    BY <1>7 DEF BlockReward
  <2>2. /\ rewards.gens # <<>>
        /\ UNCHANGED <<canon, fork, reorg, started, gen, state, pc, at, blobs>>
    BY <1>7 DEF BlockReward, chain, cache, procs
  <2>3. o \in Objects
    <3>1. rewards.gens[s] \in Gens
      BY <1>0, <2>2
    <3> QED
      BY <3>1, Basics
  <2>4. IsHeap(heap') /\ faults' \in Nat
    BY <2>1, <2>3, Recovered
  <2>5. RewardRow(s, r.obj).slot = s
    BY DEF RewardRow
  <2>6. /\ DOMAIN rewards' = {"gens", "done"} /\ rewards'.gens = rewards.gens
        /\ rewards'.done = rewards.done \union {RewardRow(s, r.obj)}
    BY <1>0, <2>1
  <2>7. IsDb(db') /\ db'.rewards \subseteq db.rewards \union rewards'.done
    <3>1. CASE s = LastSlot
      BY <1>0, <2>1, <2>6, <3>1 DEF PersistBlockRewards, IsDb, Tables
    <3>2. CASE s # LastSlot
      BY <1>0, <2>1, <3>2
    <3> QED
      BY <3>1, <3>2
  <2>8. \A x \in rewards'.done \union db'.rewards : x.slot \in Slots
    BY <1>0, <2>5, <2>6, <2>7
  <2> QED
    BY <1>0, <2>2, <2>4, <2>6, <2>7, <2>8 DEF Shape
<1>8. CASE ReplaceBlock
  <2> DEFINE s == reorg.i
  <2> DEFINE old == heap[<<s, gen[s]>>].block
  <2> DEFINE d == IF old = Missed THEN db ELSE PersistOrphans(db, s, old)
  <2>1. /\ reorg.step = "slot" /\ gen[s] # 0
        /\ gen' = [gen EXCEPT ![s] = 2]
        /\ heap' = [heap EXCEPT ![<<s, 2>>] = NewObject(canon[s])]
        /\ UNCHANGED <<canon, fork, started, blobs, state, rewards>>
    BY <1>8 DEF ReplaceBlock, chain, transitions
  <2>2. s \in Slots
    BY <1>0, <2>1 DEF Walks, Idle
  <2>3. gen' \in [Slots -> 0..2] /\ (gen \in [Slots -> Gens] => gen' \in [Slots -> Gens])
    <3>1. 2 \in Gens /\ 2 \in 0..2
      BY Basics
    <3> QED
      BY <1>0, <2>1, <3>1
  <2>4. IsHeap(heap')
    BY <1>0, <2>1, <2>2, Basics, PutObject
  <2>5. /\ pc' \in [Procs -> Labels] /\ at' \in [Procs -> Objects]
        /\ faults' \in Nat /\ reorg' \in Walks /\ IsDb(db') /\ db'.rewards = db.rewards
    <3>0. Walked \in Walks /\ [reorg EXCEPT !.step = "process"] \in Walks
      BY <1>0, <2>1, WalkSteps
    <3>1. CASE old = canon[s]
      <4>1. reorg' = Walked /\ UNCHANGED <<pc, at, db, faults>>
        BY <1>8, <3>1 DEF ReplaceBlock
      <4> QED
        BY <1>0, <3>0, <4>1
    <3>2. CASE old # canon[s]
      <4>1. PICK n \in Fails : \E done \in (IF Failed(n) THEN 0..3 ELSE {4}) :
              /\ faults' = n /\ db' = DeleteBlockMetrics(d, s, done)
              /\ pc' = [pc EXCEPT ![0] = "block"] /\ at' = [at EXCEPT ![0] = <<s, 2>>]
              /\ reorg' = [reorg EXCEPT !.step = "process"]
        BY <1>8, <3>2 DEF ReplaceBlock
      <4>2. PICK done \in 0..4 : db' = DeleteBlockMetrics(d, s, done)
        BY <4>1
      <4>3. IsDb(d) /\ d.rewards = db.rewards
        BY <1>0, <2>2, OrphansWritten
      <4> HIDE DEF d
      <4>4. IsDb(db') /\ db'.rewards = db.rewards
        BY <2>2, <4>2, <4>3, MetricsDeleted
      <4>5. faults' \in Nat
        BY <1>0, <4>1, FailsAre
      <4>6. pc' \in [Procs -> Labels] /\ at' \in [Procs -> Objects]
        <5>1. 0 \in Procs /\ <<s, 2>> \in Objects /\ "block" \in Labels
          BY <2>2, Basics DEF Labels
        <5> QED
          BY <1>0, <4>1, <5>1
      <4> QED
        BY <3>0, <4>1, <4>4, <4>5, <4>6
    <3> QED
      BY <3>1, <3>2
  <2> QED
    BY <1>0, <2>1, <2>3, <2>4, <2>5 DEF Shape
<1>9. CASE BlockReplaced
  <2>1. /\ reorg.step = "process" /\ reorg' = Walked
        /\ UNCHANGED <<canon, fork, started, gen, state, heap, pc, at, blobs, rewards, db, faults>>
    BY <1>9 DEF BlockReplaced, chain, cache, procs, transitions
  <2>2. reorg' \in Walks
    BY <1>0, <2>1, WalkSteps
  <2> QED
    BY <1>0, <2>1, <2>2 DEF Shape
<1>10. CASE ReplaceState
  <2>1. /\ reorg.step = "state" /\ state.gens # <<>> /\ reorg' = NextSlot
        /\ state' = StateOf(gen) /\ heap' \in {heap, Counted(heap, gen)}
        /\ UNCHANGED <<canon, fork, started, gen, pc, at, blobs, rewards, db, faults>>
    BY <1>10 DEF ReplaceState, chain, procs, transitions
  <2>2. reorg' \in Walks
    BY <1>0, <2>1, WalkSteps
  <2>3. IsHeap(heap')
    BY <1>0, <2>1, CountedKeeps
  <2>4. state'.gens = gen
    BY <2>1 DEF StateOf
  <2> QED
    BY <1>0, <2>1, <2>2, <2>3, <2>4 DEF Shape
<1>11. ASSUME NEW p \in Procs, WriteBlock(p) PROVE Shape'
  <2> DEFINE o == <<SlotOf(p), gen[SlotOf(p)]>>
  <2>1. /\ o \in Objects /\ faults' \in Nat
        /\ at' = [at EXCEPT ![p] = o] /\ pc' = [pc EXCEPT ![p] = "receipts"]
        /\ heap' = [heap EXCEPT ![o].processed = TRUE]
        /\ IsDb(db') /\ db'.rewards = db.rewards
    BY <1>11, WriteBlockDoes DEF Writes
  <2>2. UNCHANGED <<canon, fork, reorg, started, gen, state, blobs, rewards>>
    BY <1>11 DEF WriteBlock, chain, cache, transitions
  <2>3. IsHeap(heap')
    BY <1>0, <2>1, SetProcessed
  <2>4. pc' \in [Procs -> Labels] /\ at' \in [Procs -> Objects]
    BY <1>0, <2>1 DEF Labels
  <2> QED
    BY <1>0, <2>1, <2>2, <2>3, <2>4 DEF Shape
<1>12. ASSUME NEW p \in Procs, NoReceipts(p) PROVE Shape'
  <2>1. /\ pc' = [pc EXCEPT ![p] = "rest"] /\ faults' = faults + 1
        /\ heap' = [heap EXCEPT ![at[p]].fails = @ + 1]
        /\ UNCHANGED <<canon, fork, reorg, started, gen, state, at, blobs, rewards, db>>
    BY <1>12, NoReceiptsDoes
  <2>2. IsHeap(heap') /\ faults' \in Nat
    <3>1. at[p] \in Objects
      BY <1>0
    <3>2. IsHeap(heap')
      BY <1>0, <2>1, <3>1, AddFail
    <3> QED
      BY <1>0, <2>1, <3>2
  <2>3. pc' \in [Procs -> Labels]
    BY <1>0, <2>1 DEF Labels
  <2> QED
    BY <1>0, <2>1, <2>2, <2>3 DEF Shape
<1>13. ASSUME NEW p \in Procs, ProcessTransactions(p) PROVE Shape'
  <2> DEFINE txs == GetBlockReceipts(heap[at[p]].block, SlotOf(p))
  <2>1. /\ faults' \in Nat /\ heap' = [heap EXCEPT ![at[p]].txs = txs]
        /\ IsDb(db') /\ db'.rewards = db.rewards
        /\ pc' = [pc EXCEPT ![p] = "rest"] \/ pc' = [pc EXCEPT ![p] = "blobs"]
        /\ UNCHANGED <<canon, fork, reorg, started, gen, state, at, blobs, rewards>>
    BY <1>13, TransactionsDo DEF Writes
  <2>2. IsHeap(heap')
    BY <1>0, <2>1, AtSlot, SetTxs
  <2>3. pc' \in [Procs -> Labels]
    BY <1>0, <2>1 DEF Labels
  <2> QED
    BY <1>0, <2>1, <2>2, <2>3 DEF Shape
<1>14. ASSUME NEW p \in Procs, BlobSidecars(p) \/ FuluCommitments(p) PROVE Shape'
  <2>1. /\ pc' = [pc EXCEPT ![p] = "rest"] /\ faults' \in Nat
        /\ IsDb(db') /\ db'.rewards = db.rewards
        /\ UNCHANGED <<canon, fork, reorg, started, gen, heap, state, at, blobs, rewards>>
    BY <1>14, SidecarsDo
  <2>2. pc' \in [Procs -> Labels]
    BY <1>0, <2>1 DEF Labels
  <2> QED
    BY <1>0, <2>1, <2>2 DEF Shape
<1>15. ASSUME NEW p \in Procs, FuluBlobs(p) PROVE Shape'
  <2>1. /\ pc' = [pc EXCEPT ![p] = "commitments"] /\ blobs' = [blobs EXCEPT ![p] = canon[SlotOf(p)]]
        /\ UNCHANGED <<canon, fork, reorg, started, gen, heap, state, at, rewards, db, faults>>
    BY <1>15 DEF FuluBlobs, chain, cache, transitions
  <2>2. pc' \in [Procs -> Labels] /\ DOMAIN blobs' = Procs
    BY <1>0, <2>1 DEF Labels
  <2> QED
    BY <1>0, <2>1, <2>2 DEF Shape
<1>16. ASSUME NEW p \in Procs, WriteRest(p) PROVE Shape'
  <2>1. /\ pc' = [pc EXCEPT ![p] = "idle"] /\ IsDb(db') /\ db'.rewards = db.rewards
        /\ UNCHANGED <<canon, fork, reorg, started, gen, heap, state, at, blobs, rewards, faults>>
    BY <1>16, WriteRestDoes DEF Writes
  <2>2. pc' \in [Procs -> Labels]
    BY <1>0, <2>1 DEF Labels
  <2> QED
    BY <1>0, <2>1, <2>2 DEF Shape
<1>17. CASE UNCHANGED vars
  BY <1>17 DEF Shape, vars
<1> QED
  BY <1>1, <1>2, <1>3, <1>4, <1>5, <1>6, <1>7, <1>8, <1>9, <1>10, <1>11, <1>12, <1>13, <1>14,
     <1>15, <1>16, <1>17 DEF Next, Procs

-----------------------------------------------------------------------------
(* The walk of HandleReorg and the processers.                             *)

\* The block of slot s that is cached, and whether it is the chain's.
Held(s) == heap[<<s, gen[s]>>].block

Current(s) == gen[s] # 0 /\ Held(s) = canon[s]

\* The walk is still to come to slot s.
Ahead(s) ==
    /\ reorg.step # "idle" /\ reorg.end <= s
    /\ s < reorg.i \/ (s = reorg.i /\ reorg.step = "slot")

BeforeReorg ==
    fork = 1 =>
        /\ reorg = Idle /\ db.orphans = {}
        /\ \A o \in Objects : heap[o].block \in {None, canon[o[1]]}

\* A cached block that is not the chain's has the walk before it.
CachedOrAhead == \A s \in Slots : gen[s] # 0 => Current(s) \/ Ahead(s)

\* A slot's own processer works on its first object, the one of HandleReorg on
\* the second, and they are never at one slot together.
ProcsInOrder ==
    /\ \A s \in Slots :
        /\ at[s] = <<s, 1>>
        /\ gen[s] # 0 => s \in started
        /\ s \notin started => pc[s] = "idle"
        /\ s \in started /\ gen[s] = 0 => pc[s] = "block"
        /\ gen[s] = 2 => pc[s] = "idle"
    /\ pc[0] # "idle" => reorg.step = "process" /\ at[0] = <<reorg.i, 2>> /\ gen[reorg.i] = 2

\* The steps that leave the blocks, their rows and the processers alone.
Still ==
    /\ UNCHANGED <<canon, fork, started, gen, pc, at, blobs, dirty>>
    /\ db'.blocks = db.blocks /\ db'.transactions = db.transactions
    /\ db'.withdrawals = db.withdrawals /\ db'.blobs = db.blobs /\ db'.orphans = db.orphans
    /\ faults' >= faults
    /\ \A o \in Objects :
        /\ heap'[o].block = heap[o].block
        /\ heap'[o].txs = heap[o].txs \/ ~Active(o[1])
    /\ \/ reorg' = reorg
       \/ reorg.step = "process" /\ pc[0] = "idle" /\ reorg' = Walked
       \/ reorg.step = "state" /\ reorg' = NextSlot

\* A processer goes on from one table to the next.
Moves(p) ==
    /\ pc[p] \notin {"idle", "block"}
    /\ \E x \in Labels \ {"block", "receipts"} : pc' = [pc EXCEPT ![p] = x]
    /\ UNCHANGED <<canon, fork, reorg, started, gen, at, dirty>>
    /\ \A o \in Objects : heap'[o].block = heap[o].block

LEMMA StepKinds ==
    ASSUME Shape, [Next]_vars
    PROVE  \/ \E a \in 0..LastSlot, p \in SUBSET Slots : ChainReorg(a, p)
           \/ \E s \in Slots : StartSlot(s) \/ DownloadBlock(s)
           \/ ReplaceBlock
           \/ Still
           \/ \E p \in Procs : WriteBlock(p)
           \/ \E p \in Procs :
                /\ Moves(p)
                /\ \/ NoReceipts(p) \/ ProcessTransactions(p) \/ FuluBlobs(p) \/ WriteRest(p)
                   \/ BlobSidecars(p) \/ FuluCommitments(p)
<1>0. IsHeap(heap) /\ faults \in Nat /\ IsDb(db) /\ pc \in [Procs -> Labels]
  BY DEF Shape
<1>1. ASSUME DownloadState \/ StartRewards \/ BlockReplaced \/ UNCHANGED vars PROVE Still
  BY <1>0, <1>1 DEF DownloadState, StartRewards, BlockReplaced, vars, chain, cache, procs,
     transitions, Still
<1>2. CASE CountRewards
  <2>1. /\ heap' = Counted(heap, state.gens)
        /\ UNCHANGED <<canon, fork, reorg, started, gen, pc, at, blobs, db, faults, dirty>>
    BY <1>2 DEF CountRewards, chain, cache, procs
  <2>2. \A o \in Objects : heap'[o].block = heap[o].block /\ heap'[o].txs = heap[o].txs
    BY <1>0, <2>1, CountedKeeps
  <2>3. Still
    BY <1>0, <2>1, <2>2 DEF Still
  <2> QED
    BY <2>3
<1>3. CASE ReplaceState
  <2>1. /\ reorg.step = "state" /\ reorg' = NextSlot /\ heap' \in {heap, Counted(heap, gen)}
        /\ UNCHANGED <<canon, fork, started, gen, pc, at, blobs, db, faults, dirty>>
    BY <1>3 DEF ReplaceState, chain, procs, transitions
  <2>2. \A o \in Objects : heap'[o].block = heap[o].block /\ heap'[o].txs = heap[o].txs
    BY <1>0, <2>1, CountedKeeps
  <2>3. Still
    BY <1>0, <2>1, <2>2 DEF Still
  <2> QED
    BY <2>3
<1>4. ASSUME NEW s \in Slots, BlockReward(s) PROVE Still
  <2> DEFINE o == <<s, rewards.gens[s]>>
  <2>1. PICK r \in RecoverBlockReceipts(o) :
          /\ heap' = [heap EXCEPT ![o] = r.obj] /\ faults' = r.faults
          /\ db' = IF s = LastSlot
                   THEN PersistBlockRewards(db, rewards.done \union {RewardRow(s, r.obj)}) ELSE db
    BY <1>4 DEF BlockReward
  <2>2. /\ rewards.gens # <<>> /\ ~Active(s)
        /\ UNCHANGED <<canon, fork, reorg, started, gen, pc, at, blobs, dirty>>
    BY <1>4 DEF BlockReward, chain, cache, procs
  <2>3. o \in Objects /\ o[1] = s
    <3>1. rewards.gens[s] \in Gens
      BY <2>2 DEF Shape
    <3> QED
      BY <3>1, Basics
  <2>4. /\ faults' >= faults
        /\ \A x \in Objects : heap'[x].block = heap[x].block
                              /\ (x # o => heap'[x].txs = heap[x].txs)
    BY <2>1, <2>3, Recovered
  <2>5. /\ db'.blocks = db.blocks /\ db'.transactions = db.transactions
        /\ db'.withdrawals = db.withdrawals /\ db'.blobs = db.blobs /\ db'.orphans = db.orphans
    <3>1. CASE s = LastSlot
      BY <1>0, <2>1, <3>1 DEF PersistBlockRewards, IsDb, Tables
    <3>2. CASE s # LastSlot
      BY <2>1, <3>2
    <3> QED
      BY <3>1, <3>2
  <2>6. \A x \in Objects : heap'[x].txs = heap[x].txs \/ ~Active(x[1])
    BY <2>2, <2>3, <2>4
  <2> QED
    BY <2>2, <2>4, <2>5, <2>6 DEF Still
<1>5. ASSUME NEW p \in Procs,
             \/ NoReceipts(p) \/ ProcessTransactions(p) \/ FuluBlobs(p) \/ WriteRest(p)
             \/ BlobSidecars(p) \/ FuluCommitments(p)
      PROVE  Moves(p)
  <2>0. at[p] \in Objects
    BY DEF Shape
  <2>1. CASE NoReceipts(p)
    <3>1. \A o \in Objects : heap'[o].block = heap[o].block
      <4>1. heap' = [heap EXCEPT ![at[p]].fails = @ + 1]
        BY <2>1, NoReceiptsDoes
      <4> QED
        BY <1>0, <2>0, <4>1, AddFail
    <3> QED
      BY <2>1, <3>1, NoReceiptsDoes DEF Moves, Labels
  <2>2. CASE ProcessTransactions(p)
    <3>1. \A o \in Objects : heap'[o].block = heap[o].block
      <4>1. heap' = [heap EXCEPT ![at[p]].txs = GetBlockReceipts(heap[at[p]].block, SlotOf(p))]
        BY <2>2, TransactionsDo
      <4> QED
        BY <1>0, <2>0, <4>1, SetTxs
    <3> QED
      BY <2>2, <3>1, TransactionsDo DEF Moves, Labels
  <2>3. CASE FuluBlobs(p)
    BY <2>3 DEF FuluBlobs, Moves, Labels, chain, cache
  <2>4. CASE WriteRest(p)
    BY <2>4, WriteRestDoes DEF Moves, Labels
  <2>5. CASE BlobSidecars(p) \/ FuluCommitments(p)
    BY <2>5, SidecarsDo DEF Moves, Labels
  <2> QED
    BY <1>5, <2>1, <2>2, <2>3, <2>4, <2>5
<1> QED
  BY <1>1, <1>2, <1>3, <1>4, <1>5 DEF Next, Procs

\* The walk of a reorg covers each cached slot whose block changes.
LEMMA ReorgDoes ==
    ASSUME Shape, NEW a \in 0..LastSlot, NEW p \in SUBSET Slots, ChainReorg(a, p)
    PROVE  /\ fork = 1 /\ fork' = 2
           /\ \A s \in Slots : s <= a => canon'[s] = canon[s]
           /\ \A s \in Slots : canon'[s] # None
           /\ \A s \in Slots : gen[s] # 0 /\ a < s =>
                  reorg'.step = "slot" /\ reorg'.end <= s /\ s <= reorg'.i
           /\ UNCHANGED <<started, gen, state, heap, pc, at, blobs, bundle, rewards, db, faults, dirty>>
<1>1. canon' = Chain(2, p, a)
  BY DEF ChainReorg
<1>2. \A s \in Slots : canon[s].fork \in Nat
  BY DEF Shape
<1>3. \A s \in Slots : canon'[s] # None
  BY <1>1, <1>2, ChainBlocks, Basics
<1>4. PICK i \in Slots :
        /\ \A t \in Slots : gen[t] # 0 => t <= i
        /\ \E end \in 1..(a + 1) :
               reorg' = IF end <= i THEN [i |-> i, end |-> end, step |-> "slot"] ELSE Idle
  BY DEF ChainReorg
<1>5. PICK end \in 1..(a + 1) :
        reorg' = IF end <= i THEN [i |-> i, end |-> end, step |-> "slot"] ELSE Idle
  BY <1>4
<1>6. ASSUME NEW s \in Slots, gen[s] # 0, a < s
      PROVE  reorg'.step = "slot" /\ reorg'.end <= s /\ s <= reorg'.i
  <2>1. s \in Nat /\ s <= i /\ i \in Nat /\ a \in Nat /\ end \in Nat /\ end <= a + 1
    BY <1>4, <1>5, <1>6, Basics, BlockAssumption
  <2>2. end <= s /\ end <= i
    BY <1>6, <2>1
  <2> QED
    BY <1>5, <2>1, <2>2
<1> QED
  BY <1>1, <1>3, <1>6, ChainBlocks DEF ChainReorg, cache, procs, transitions

LEMMA DownloadDoes ==
    ASSUME Shape, NEW s \in Slots, DownloadBlock(s)
    PROVE  /\ s \in started /\ gen[s] = 0 /\ gen'[s] = 1
           /\ \A t \in Slots : t # s => gen'[t] = gen[t]
           /\ heap'[<<s, 1>>] = NewObject(canon[s])
           /\ \A o \in Objects : o # <<s, 1>> => heap'[o] = heap[o]
           /\ UNCHANGED <<canon, fork, reorg, started, pc, at, blobs, rewards, db, faults, dirty>>
<1>1. /\ s \in started /\ gen[s] = 0 /\ gen' = [gen EXCEPT ![s] = 1]
      /\ heap' = [heap EXCEPT ![<<s, 1>>] = NewObject(canon[s])]
      /\ UNCHANGED <<canon, fork, reorg, started, pc, at, blobs, rewards, db, faults, dirty>>
  BY DEF DownloadBlock, chain, procs, transitions
<1>2. gen \in [Slots -> 0..2] /\ IsHeap(heap)
  BY DEF Shape
<1>3. <<s, 1>> \in Objects
  BY Basics
<1>4. /\ heap'[<<s, 1>>] = NewObject(canon[s])
      /\ \A o \in Objects : o # <<s, 1>> => heap'[o] = heap[o]
  BY <1>1, <1>2, <1>3, PutObject
<1> QED
  BY <1>1, <1>2, <1>4

LEMMA ReplaceDoes ==
    ASSUME Shape, ReplaceBlock
    PROVE  LET s == reorg.i IN
           /\ s \in Slots /\ reorg.step = "slot" /\ gen[s] # 0 /\ ~Active(s)
           /\ gen'[s] = 2 /\ \A t \in Slots : t # s => gen'[t] = gen[t]
           /\ heap'[<<s, 2>>] = NewObject(canon[s])
           /\ \A o \in Objects : o # <<s, 2>> => heap'[o] = heap[o]
           /\ UNCHANGED <<canon, fork, started, blobs, rewards>>
           /\ \/ /\ Held(s) = canon[s] /\ reorg' = Walked
                 /\ UNCHANGED <<pc, at, db, faults, dirty>>
              \/ /\ Held(s) # canon[s]
                 /\ reorg' = [reorg EXCEPT !.step = "process"]
                 /\ pc' = [pc EXCEPT ![0] = "block"] /\ at' = [at EXCEPT ![0] = <<s, 2>>]
                 /\ faults' >= faults
                 /\ dirty' \in {dirty, dirty \union {s}}
                 /\ s \in dirty' \/ Empty(db', s)
                 /\ \A t \in Slots : t # s => Keeps(db, db', t)
                 /\ db'.rewards = db.rewards
                 /\ \A x \in db'.orphans : x \in db.orphans \/ x = <<s, Held(s)>>
<1> DEFINE s == reorg.i
<1> DEFINE old == Held(s)
<1> DEFINE d == IF old = Missed THEN db ELSE PersistOrphans(db, s, old)
<1>1. /\ reorg.step = "slot" /\ gen[s] # 0 /\ SlotDone(s)
      /\ gen' = [gen EXCEPT ![s] = 2]
      /\ heap' = [heap EXCEPT ![<<s, 2>>] = NewObject(canon[s])]
      /\ UNCHANGED <<canon, fork, started, blobs, rewards>>
  BY DEF ReplaceBlock, chain, transitions
<1>2. gen \in [Slots -> 0..2] /\ IsHeap(heap) /\ reorg \in Walks /\ IsDb(db) /\ faults \in Nat
  BY DEF Shape
<1>3. s \in Slots /\ ~Active(s)
  BY <1>1, <1>2 DEF Walks, Idle, SlotDone
<1>4. <<s, 2>> \in Objects
  BY <1>3, Basics
<1>5. /\ heap'[<<s, 2>>] = NewObject(canon[s])
      /\ \A o \in Objects : o # <<s, 2>> => heap'[o] = heap[o]
  BY <1>1, <1>2, <1>4, PutObject
<1>6. gen'[s] = 2 /\ \A t \in Slots : t # s => gen'[t] = gen[t]
  BY <1>1, <1>2, <1>3
<1>7. CASE old = canon[s]
  <2>1. reorg' = Walked /\ UNCHANGED <<pc, at, db, faults, dirty>>
    BY <1>7 DEF ReplaceBlock, Held
  <2> QED
    BY <1>1, <1>3, <1>5, <1>6, <1>7, <2>1
<1>8. CASE old # canon[s]
  <2>1. PICK n \in Fails : \E done \in (IF Failed(n) THEN 0..3 ELSE {4}) :
          /\ faults' = n /\ db' = DeleteBlockMetrics(d, s, done)
          /\ dirty' = IF done < 4 THEN dirty \union {s} ELSE dirty
          /\ pc' = [pc EXCEPT ![0] = "block"] /\ at' = [at EXCEPT ![0] = <<s, 2>>]
          /\ reorg' = [reorg EXCEPT !.step = "process"]
    BY <1>8 DEF ReplaceBlock, Held
  <2>2. PICK done \in 0..4 :
          /\ db' = DeleteBlockMetrics(d, s, done)
          /\ dirty' = IF done < 4 THEN dirty \union {s} ELSE dirty
    BY <2>1
  <2>3. /\ IsDb(d) /\ d.rewards = db.rewards
        /\ \A x \in d.orphans : x \in db.orphans \/ x = <<s, old>>
        /\ \A t \in Slots : Keeps(db, d, t)
    <3>1. CASE old = Missed
      BY <1>2, <3>1, KeepsSame
    <3>2. CASE old # Missed
      BY <1>2, <1>3, <3>2, OrphansWritten
    <3> QED
      BY <3>1, <3>2
  <2> HIDE DEF d
  <2>4. /\ db'.orphans = d.orphans /\ db'.rewards = d.rewards
        /\ \A t \in Slots : t # s => Keeps(d, db', t)
        /\ done = 4 => Empty(db', s)
    BY <1>3, <2>2, <2>3, MetricsDeleted
  <2>5. \A t \in Slots : t # s => Keeps(db, db', t)
    BY <2>3, <2>4, KeepsTwice
  <2>6. s \in dirty' \/ Empty(db', s)
    BY <2>2, <2>4
  <2>7. faults' >= faults
    BY <1>2, <2>1, FailsAre
  <2> QED
    BY <1>1, <1>3, <1>5, <1>6, <1>8, <2>1, <2>2, <2>3, <2>4, <2>5, <2>6, <2>7
<1> QED
  BY <1>7, <1>8

\* The step of the walk that follows leaves the slot it was at, and no other.
LEMMA WalkLeaves ==
    ASSUME reorg \in Walks, reorg.step # "idle", NEW s \in Slots, Ahead(s), s # reorg.i,
           reorg' \in {NextSlot, Walked, [reorg EXCEPT !.step = "process"]}
    PROVE  Ahead(s)'
<1>1. /\ reorg \in [i : Nat, end : Nat, step : {"idle", "slot", "process", "state"}]
      /\ reorg.end <= s /\ s < reorg.i /\ s \in Nat /\ reorg.i \in Nat /\ reorg.end \in Nat
  BY Basics DEF Walks, Idle, Ahead
<1>2. reorg.i # reorg.end /\ s <= reorg.i - 1
  BY <1>1
<1>3. \/ reorg' = [reorg EXCEPT !.i = reorg.i - 1, !.step = "slot"]
      \/ reorg' = [reorg EXCEPT !.step = "state"]
      \/ reorg' = [reorg EXCEPT !.step = "process"]
  BY <1>2 DEF NextSlot, Walked
<1>4. /\ reorg'.end = reorg.end /\ reorg'.step # "idle"
      /\ \/ reorg'.i = reorg.i - 1 /\ reorg'.step = "slot"
         \/ reorg'.i = reorg.i
  BY <1>1, <1>3
<1>5. s < reorg'.i \/ (s = reorg'.i /\ reorg'.step = "slot")
  BY <1>1, <1>2, <1>4
<1> QED
  BY <1>1, <1>4, <1>5 DEF Ahead

\* Outside a step of its own a processer has the cached object.
LEMMA HasCached ==
    ASSUME Shape, ProcsInOrder, NEW p \in Procs, pc[p] \notin {"idle", "block"}
    PROVE  /\ SlotOf(p) \in Slots /\ gen[SlotOf(p)] # 0
           /\ at[p] = <<SlotOf(p), gen[SlotOf(p)]>>
           /\ heap[at[p]].block = Held(SlotOf(p)) /\ Active(SlotOf(p))
<1>0. SlotOf(p) \in Slots /\ at[p] = <<SlotOf(p), at[p][2]>>
  BY AtSlot
<1>1. at[p] = <<SlotOf(p), gen[SlotOf(p)]>> /\ gen[SlotOf(p)] # 0
  <2>1. CASE p \in Slots
    <3>1. at[p] = <<p, 1>> /\ SlotOf(p) = p
      BY <2>1 DEF ProcsInOrder, SlotOf
    <3>2. gen[p] # 0 /\ gen[p] # 2 /\ gen[p] \in 0..2
      BY <2>1 DEF ProcsInOrder, Shape
    <3>3. gen[p] = 1
      BY <3>2
    <3> QED
      BY <3>1, <3>3
  <2>2. CASE p = 0
    <3>1. at[0] = <<reorg.i, 2>> /\ gen[reorg.i] = 2
      BY <2>2 DEF ProcsInOrder
    <3> QED
      BY <2>2, <3>1 DEF SlotOf
  <2> QED
    BY <2>1, <2>2 DEF Procs
<1>2. Active(SlotOf(p))
  BY DEF Active, Shape
<1> QED
  BY <1>0, <1>1, <1>2 DEF Held

LEMMA BeforeReorgStep ==
    ASSUME Shape, BeforeReorg, ProcsInOrder, [Next]_vars
    PROVE  BeforeReorg'
<1> SUFFICES ASSUME fork' = 1
             PROVE  /\ reorg' = Idle /\ db'.orphans = {}
                    /\ \A o \in Objects : heap'[o].block \in {None, canon'[o[1]]}
  BY DEF BeforeReorg
<1>0. reorg = Idle => reorg.step = "idle"
  BY DEF Idle
<1>1. ASSUME NEW a \in 0..LastSlot, NEW p \in SUBSET Slots, ChainReorg(a, p) PROVE FALSE
  BY <1>1, ReorgDoes
<1>2. ASSUME NEW s \in Slots, StartSlot(s)
      PROVE  UNCHANGED <<canon, fork, reorg, heap, db>>
  BY <1>2 DEF StartSlot, chain
<1>3. ASSUME NEW s \in Slots, DownloadBlock(s)
      PROVE  /\ UNCHANGED <<canon, fork, reorg, db>>
             /\ \A o \in Objects : heap'[o].block \in {heap[o].block, canon[o[1]]}
  <2>1. <<s, 1>>[1] = s /\ NewObject(canon[s]).block = canon[s]
    BY NewIsObject
  <2> QED
    BY <1>3, <2>1, DownloadDoes
<1>4. CASE ReplaceBlock
  BY <1>0, <1>4, ReplaceDoes DEF BeforeReorg
<1>5. CASE Still
  BY <1>0, <1>5 DEF Still, BeforeReorg
<1>6. ASSUME NEW p \in Procs, WriteBlock(p)
      PROVE  /\ UNCHANGED <<canon, fork, reorg>> /\ db'.orphans = db.orphans
             /\ \A o \in Objects : heap'[o].block = heap[o].block
  <2> DEFINE o == <<SlotOf(p), gen[SlotOf(p)]>>
  <2>1. o \in Objects /\ heap' = [heap EXCEPT ![o].processed = TRUE] /\ db'.orphans = db.orphans
    BY <1>6, WriteBlockDoes DEF Writes
  <2>2. \A x \in Objects : heap'[x].block = heap[x].block
    BY <2>1, SetProcessed DEF Shape
  <2> QED
    BY <1>6, <2>1, <2>2 DEF WriteBlock, chain
<1>7. ASSUME NEW p \in Procs, Moves(p),
             \/ NoReceipts(p) \/ ProcessTransactions(p) \/ FuluBlobs(p) \/ WriteRest(p)
             \/ BlobSidecars(p) \/ FuluCommitments(p)
      PROVE  db'.orphans = db.orphans
  <2>1. NoReceipts(p) \/ FuluBlobs(p) => db' = db
    BY DEF NoReceipts, FuluBlobs
  <2> QED
    BY <1>7, <2>1, TransactionsDo, WriteRestDoes, SidecarsDo DEF Writes
<1> QED
  BY <1>1, <1>2, <1>3, <1>4, <1>5, <1>6, <1>7, StepKinds DEF BeforeReorg, Moves

LEMMA CachedOrAheadStep ==
    ASSUME Shape, BeforeReorg, ProcsInOrder, CachedOrAhead, [Next]_vars
    PROVE  CachedOrAhead'
<1> SUFFICES ASSUME NEW s \in Slots, gen'[s] # 0
             PROVE  Current(s)' \/ Ahead(s)'
  BY DEF CachedOrAhead
<1>0. gen[s] # 0 => <<s, gen[s]>> \in Objects
  <2>1. gen[s] \in 0..2
    BY DEF Shape
  <2>2. gen[s] # 0 => gen[s] \in {1, 2}
    BY <2>1
  <2> QED
    BY <2>2, Basics
<1>1. gen[s] # 0 => Current(s) \/ Ahead(s)
  BY DEF CachedOrAhead
<1>2. ASSUME gen'[s] = gen[s], canon'[s] = canon[s],
             \A o \in Objects : heap'[o].block = heap[o].block
      PROVE  Current(s) => Current(s)'
  BY <1>0, <1>2 DEF Current, Held
<1>3. ASSUME NEW a \in 0..LastSlot, NEW p \in SUBSET Slots, ChainReorg(a, p)
      PROVE  Current(s)' \/ Ahead(s)'
  <2>1. gen' = gen /\ heap' = heap /\ fork = 1
    BY <1>3, ReorgDoes
  <2>2. Current(s)
    <3>1. reorg = Idle
      BY <2>1 DEF BeforeReorg
    <3>2. ~Ahead(s)
      BY <3>1 DEF Ahead, Idle
    <3> QED
      BY <1>1, <2>1, <3>2
  <2>3. CASE s <= a
    <3>1. canon'[s] = canon[s]
      BY <1>3, <2>3, ReorgDoes
    <3> QED
      BY <1>2, <2>1, <2>2, <3>1
  <2>4. CASE ~(s <= a)
    <3>1. a < s
      BY <2>4, Basics, BlockAssumption
    <3>2. reorg'.step = "slot" /\ reorg'.end <= s /\ s <= reorg'.i
      BY <1>3, <2>1, <3>1, ReorgDoes
    <3>3. reorg' \in Walks
      BY ShapeStep DEF Shape
    <3>4. reorg'.i \in Nat /\ s \in Nat
      BY <3>3, Basics DEF Walks
    <3>5. s < reorg'.i \/ s = reorg'.i
      BY <3>2, <3>4
    <3> QED
      BY <3>2, <3>5 DEF Ahead
  <2> QED
    BY <2>3, <2>4
<1>4. ASSUME NEW t \in Slots, StartSlot(t) PROVE Current(s)' \/ Ahead(s)'
  <2>1. UNCHANGED <<canon, reorg, gen, heap>>
    BY <1>4 DEF StartSlot, chain
  <2> QED
    BY <1>1, <2>1 DEF Current, Held, Ahead
<1>5. ASSUME NEW t \in Slots, DownloadBlock(t) PROVE Current(s)' \/ Ahead(s)'
  <2>1. CASE s = t
    <3>1. heap'[<<s, gen'[s]>>].block = canon'[s]
      <4>1. gen'[s] = 1 /\ heap'[<<s, 1>>] = NewObject(canon[s]) /\ canon' = canon
        BY <1>5, <2>1, DownloadDoes
      <4>2. NewObject(canon[s]).block = canon[s]
        BY NewIsObject
      <4> QED
        BY <4>1, <4>2
    <3> QED
      BY <3>1 DEF Current, Held
  <2>2. CASE s # t
    <3>1. gen'[s] = gen[s] /\ canon' = canon /\ reorg' = reorg
      BY <1>5, <2>2, DownloadDoes
    <3>2. heap'[<<s, gen[s]>>] = heap[<<s, gen[s]>>]
      BY <1>0, <1>5, <2>2, <3>1, DownloadDoes
    <3> QED
      BY <1>1, <3>1, <3>2 DEF Current, Held, Ahead
  <2> QED
    BY <2>1, <2>2
<1>6. CASE ReplaceBlock
  <2>0. /\ gen'[reorg.i] = 2 /\ heap'[<<reorg.i, 2>>] = NewObject(canon[reorg.i])
        /\ canon' = canon /\ reorg.step = "slot"
        /\ reorg' \in {Walked, [reorg EXCEPT !.step = "process"]}
    BY <1>6, ReplaceDoes
  <2>1. CASE s = reorg.i
    <3>1. heap'[<<s, gen'[s]>>].block = canon'[s]
      <4>1. NewObject(canon[s]).block = canon[s]
        BY NewIsObject
      <4> QED
        BY <2>0, <2>1, <4>1
    <3> QED
      BY <3>1 DEF Current, Held
  <2>2. CASE s # reorg.i
    <3>1. gen'[s] = gen[s]
      BY <1>6, <2>2, ReplaceDoes
    <3>2. heap'[<<s, gen[s]>>] = heap[<<s, gen[s]>>]
      BY <1>0, <1>6, <2>2, <3>1, ReplaceDoes
    <3>3. Current(s) => Current(s)'
      BY <2>0, <3>1, <3>2 DEF Current, Held
    <3>4. Ahead(s) => Ahead(s)'
      BY <2>0, <2>2, WalkLeaves DEF Shape
    <3> QED
      BY <1>1, <3>1, <3>3, <3>4
  <2> QED
    BY <2>1, <2>2
<1>7. CASE Still
  <2>1. Current(s) => Current(s)'
    BY <1>2, <1>7 DEF Still
  <2>2. Ahead(s) => Ahead(s)'
    <3>1. CASE reorg' = reorg
      BY <3>1 DEF Ahead
    <3>2. CASE reorg.step \in {"process", "state"} /\ reorg' \in {Walked, NextSlot}
      <4>1. Ahead(s) => s # reorg.i /\ reorg.step # "idle"
        <5>1. CASE reorg = Idle
          BY <5>1 DEF Ahead, Idle
        <5>2. CASE reorg # Idle
          <6>1. reorg.i \in Slots
            BY <5>2 DEF Shape, Walks
          <6>2. reorg.i \in Nat /\ s \in Nat
            BY <6>1, Basics
          <6> QED
            BY <3>2, <6>2 DEF Ahead
        <5> QED
          BY <5>1, <5>2
      <4> QED
        BY <3>2, <4>1, WalkLeaves DEF Shape
    <3> QED
      BY <1>7, <3>1, <3>2 DEF Still
  <2> QED
    BY <1>1, <1>7, <2>1, <2>2 DEF Still
<1>8. ASSUME NEW p \in Procs, WriteBlock(p) PROVE Current(s)' \/ Ahead(s)'
  <2>1. UNCHANGED <<canon, reorg, gen>>
    BY <1>8 DEF WriteBlock, chain, cache
  <2>2. \A o \in Objects : heap'[o].block = heap[o].block
    <3> DEFINE x == <<SlotOf(p), gen[SlotOf(p)]>>
    <3>1. x \in Objects /\ heap' = [heap EXCEPT ![x].processed = TRUE]
      BY <1>8, WriteBlockDoes
    <3> QED
      BY <3>1, SetProcessed DEF Shape
  <2> QED
    BY <1>1, <1>2, <2>1, <2>2 DEF Ahead
<1>9. ASSUME NEW p \in Procs, Moves(p) PROVE Current(s)' \/ Ahead(s)'
  BY <1>1, <1>2, <1>9 DEF Moves, Ahead
<1> QED
  BY <1>3, <1>4, <1>5, <1>6, <1>7, <1>8, <1>9, StepKinds

LEMMA ProcsInOrderStep ==
    ASSUME Shape, BeforeReorg, ProcsInOrder, [Next]_vars
    PROVE  ProcsInOrder'
<1> DEFINE Own1(s) ==
        /\ at'[s] = <<s, 1>>
        /\ gen'[s] # 0 => s \in started'
        /\ s \notin started' => pc'[s] = "idle"
        /\ s \in started' /\ gen'[s] = 0 => pc'[s] = "block"
        /\ gen'[s] = 2 => pc'[s] = "idle"
<1> DEFINE Reorged ==
        pc'[0] # "idle" => reorg'.step = "process" /\ at'[0] = <<reorg'.i, 2>> /\ gen'[reorg'.i] = 2
<1> SUFFICES (\A s \in Slots : Own1(s)) /\ Reorged
  BY DEF ProcsInOrder
<1>0. /\ pc \in [Procs -> Labels] /\ at \in [Procs -> Objects] /\ gen \in [Slots -> 0..2]
      /\ 0 \notin Slots /\ Procs = Slots \union {0}
  BY Basics DEF Shape
<1>1. ASSUME NEW a \in 0..LastSlot, NEW p \in SUBSET Slots, ChainReorg(a, p)
      PROVE  (\A s \in Slots : Own1(s)) /\ Reorged
  <2>1. fork = 1 /\ UNCHANGED <<started, gen, pc, at>>
    BY <1>1, ReorgDoes
  <2>2. pc[0] = "idle"
    BY <2>1 DEF BeforeReorg, ProcsInOrder, Idle
  <2> QED
    BY <2>1, <2>2 DEF ProcsInOrder
<1>2. ASSUME NEW t \in Slots, StartSlot(t) PROVE (\A s \in Slots : Own1(s)) /\ Reorged
  <2>1. /\ t \notin started /\ started' = started \union {t} /\ pc' = [pc EXCEPT ![t] = "block"]
        /\ UNCHANGED <<reorg, gen, at>>
    BY <1>2 DEF StartSlot
  <2>2. pc'[t] = "block" /\ \A p \in Procs : p # t => pc'[p] = pc[p]
    BY <1>0, <2>1
  <2> QED
    BY <1>0, <2>1, <2>2 DEF ProcsInOrder
<1>3. ASSUME NEW t \in Slots, DownloadBlock(t) PROVE (\A s \in Slots : Own1(s)) /\ Reorged
  <2>1. /\ t \in started /\ gen[t] = 0 /\ gen'[t] = 1
        /\ \A s \in Slots : s # t => gen'[s] = gen[s]
        /\ UNCHANGED <<reorg, started, pc, at>>
    BY <1>3, DownloadDoes
  <2>2. \A s \in Slots : Own1(s)
    BY <2>1 DEF ProcsInOrder
  <2>3. Reorged
    <3>1. reorg \in Walks /\ (reorg.step = "process" => reorg.i \in Slots)
      BY DEF Shape, Walks, Idle
    <3> QED
      BY <2>1, <3>1 DEF ProcsInOrder
  <2> QED
    BY <2>2, <2>3
<1>4. CASE ReplaceBlock
  <2> DEFINE i == reorg.i
  <2>1. /\ i \in Slots /\ reorg.step = "slot" /\ gen[i] # 0 /\ ~Active(i)
        /\ gen'[i] = 2 /\ \A t \in Slots : t # i => gen'[t] = gen[t]
        /\ started' = started
    BY <1>4, ReplaceDoes
  <2>2. pc[0] = "idle"
    BY <2>1 DEF ProcsInOrder
  <2>3. pc[i] = "idle"
    BY <1>0, <2>1 DEF Active, SlotOf, ProcsInOrder
  <2>4. \A s \in Slots : pc'[s] = pc[s] /\ at'[s] = at[s]
    BY <1>0, <1>4, ReplaceDoes
  <2>5. \A s \in Slots : Own1(s)
    BY <2>1, <2>3, <2>4 DEF ProcsInOrder
  <2>6. Reorged
    <3>1. CASE pc' = pc
      BY <2>2, <3>1
    <3>2. CASE reorg' = [reorg EXCEPT !.step = "process"] /\ at' = [at EXCEPT ![0] = <<i, 2>>]
      <4>1. reorg'.step = "process" /\ reorg'.i = i
        BY <3>2 DEF Shape, Walks
      <4>2. at'[0] = <<i, 2>>
        BY <1>0, <3>2
      <4> QED
        BY <2>1, <4>1, <4>2
    <3> QED
      BY <1>4, <3>1, <3>2, ReplaceDoes
  <2> QED
    BY <2>5, <2>6
<1>5. CASE Still
  <2>1. UNCHANGED <<started, gen, pc, at>>
    BY <1>5 DEF Still
  <2>2. reorg' = reorg \/ pc[0] = "idle"
    BY <1>5 DEF Still, ProcsInOrder
  <2> QED
    BY <2>1, <2>2 DEF ProcsInOrder
<1>6. ASSUME NEW p \in Procs, WriteBlock(p) PROVE (\A s \in Slots : Own1(s)) /\ Reorged
  <2>1. /\ pc[p] = "block" /\ gen[SlotOf(p)] # 0
        /\ at' = [at EXCEPT ![p] = <<SlotOf(p), gen[SlotOf(p)]>>]
        /\ pc' = [pc EXCEPT ![p] = "receipts"] /\ UNCHANGED <<reorg, gen, started>>
    BY <1>6, WriteBlockDoes DEF WriteBlock, cache
  <2>2. /\ at'[p] = <<SlotOf(p), gen[SlotOf(p)]>> /\ pc'[p] = "receipts"
        /\ \A q \in Procs : q # p => at'[q] = at[q] /\ pc'[q] = pc[q]
    BY <1>0, <2>1
  <2>3. ASSUME p \in Slots PROVE SlotOf(p) = p /\ gen[p] = 1
    <3>1. at[p] = <<p, 1>> /\ gen[p] # 2 /\ gen[p] \in 0..2
      BY <1>0, <2>1, <2>3 DEF ProcsInOrder
    <3> QED
      BY <2>1, <3>1 DEF SlotOf
  <2>4. ASSUME p = 0 PROVE SlotOf(p) = reorg.i /\ gen[reorg.i] = 2 /\ reorg.step = "process"
    BY <2>1, <2>4 DEF ProcsInOrder, SlotOf
  <2> QED
    BY <1>0, <2>1, <2>2, <2>3, <2>4 DEF ProcsInOrder
<1>7. ASSUME NEW p \in Procs, Moves(p) PROVE (\A s \in Slots : Own1(s)) /\ Reorged
  <2>1. PICK x \in Labels : pc' = [pc EXCEPT ![p] = x]
    BY <1>7 DEF Moves
  <2>2. pc[p] \notin {"idle", "block"} /\ UNCHANGED <<reorg, started, gen, at>>
    BY <1>7 DEF Moves
  <2>3. \A q \in Procs : q # p => pc'[q] = pc[q]
    BY <1>0, <2>1
  <2> QED
    BY <1>0, <2>2, <2>3 DEF ProcsInOrder
<1> QED
  BY <1>1, <1>2, <1>3, <1>4, <1>5, <1>6, <1>7, StepKinds

-----------------------------------------------------------------------------
(* The rows of the chain.                                                  *)

\* A processer of a block of the chain has its transactions and its blobs.
OneBlock ==
    \A p \in Procs :
        pc[p] \in {"blobs", "commitments"} /\ Obj(p).block = canon[SlotOf(p)] =>
            /\ Obj(p).txs = Txs(canon[SlotOf(p)], SlotOf(p))
            /\ pc[p] = "commitments" => blobs[p] = canon[SlotOf(p)]

\* The rows of a slot are those of the block of the chain once that is cached,
\* unless a delete failed, and no block of the chain is an orphan.
OnlyChain ==
    /\ \A s \in Slots : gen[s] = 0 => Empty(db, s)
    /\ \A s \in Slots \ dirty : Current(s) => OnlyOf(db, s, canon[s])
    /\ \A x \in db.orphans : x[2] # canon[x[1]]

\* The processers of slot s are past the given steps.
Past(s, steps) == \A p \in Procs : SlotOf(p) = s => pc[p] \notin steps

\* The rows that the processers of slot s have left behind are all there.
Complete(s) ==
    /\ Past(s, {"block"}) => db.blocks[s] = canon[s]
    /\ Past(s, {"block", "receipts"}) => Own(db, s) = TxRows(s, canon[s], Txs(canon[s], s))
    /\ Past(s, {"block", "receipts", "blobs", "commitments"}) =>
           BlobsAt(db, s) = BlobRows(s, canon[s], canon[s], Txs(canon[s], s))

AllWritten == faults = 0 => \A s \in started \ dirty : Current(s) => Complete(s)

\* Two processers never have the same object.
LEMMA OwnObjects ==
    ASSUME ProcsInOrder, NEW p \in Procs, NEW q \in Procs, p # q,
           pc[p] # "idle", pc[q] # "idle"
    PROVE  at[p] # at[q]
<1>1. \A s \in Slots : at[s] = <<s, 1>>
  BY DEF ProcsInOrder
<1>2. pc[0] # "idle" => at[0] = <<reorg.i, 2>>
  BY DEF ProcsInOrder
<1> QED
  BY <1>1, <1>2 DEF Procs

\* A block that was on the chain before a reorg and is there after it stayed.
LEMMA ReorgKeeps ==
    ASSUME Shape, BeforeReorg, NEW a \in 0..LastSlot, NEW p \in SUBSET Slots, ChainReorg(a, p),
           NEW o \in Objects, heap[o].block = canon'[o[1]]
    PROVE  canon'[o[1]] = canon[o[1]]
<1>1. o[1] \in Slots
  BY Basics
<1>2. canon'[o[1]] # None /\ fork = 1
  BY <1>1, ReorgDoes
<1>3. heap[o].block \in {None, canon[o[1]]}
  BY <1>2 DEF BeforeReorg
<1> QED
  BY <1>2, <1>3

\* The receipts of a block of the chain are those of its transactions.
LEMMA ReceiptsOfChain ==
    ASSUME NEW s
    PROVE  GetBlockReceipts(canon[s], s) = Txs(canon[s], s)
BY DEF GetBlockReceipts, Receipts

LEMMA OneBlockStep ==
    ASSUME Shape, BeforeReorg, ProcsInOrder, OneBlock, [Next]_vars
    PROVE  OneBlock'
<1> DEFINE Good(p) ==
        pc'[p] \in {"blobs", "commitments"} /\ heap'[at'[p]].block = canon'[at'[p][1]] =>
            /\ heap'[at'[p]].txs = Txs(canon'[at'[p][1]], at'[p][1])
            /\ pc'[p] = "commitments" => blobs'[p] = canon'[at'[p][1]]
<1> SUFFICES ASSUME NEW p \in Procs,
                    pc'[p] \in {"blobs", "commitments"},
                    heap'[at'[p]].block = canon'[at'[p][1]]
             PROVE  Good(p)
  BY DEF OneBlock, Obj, SlotOf
<1>0. /\ pc \in [Procs -> Labels] /\ at \in [Procs -> Objects] /\ DOMAIN blobs = Procs
      /\ IsHeap(heap) /\ at[p] \in Objects /\ at[p][1] \in Slots
  BY AtSlot DEF Shape, SlotOf
<1>1. ASSUME pc[p] \in {"blobs", "commitments"}
      PROVE  /\ gen[at[p][1]] # 0 /\ at[p] = <<at[p][1], gen[at[p][1]]>> /\ Active(at[p][1])
             /\ heap[at[p]].block = canon[at[p][1]] =>
                  /\ heap[at[p]].txs = Txs(canon[at[p][1]], at[p][1])
                  /\ pc[p] = "commitments" => blobs[p] = canon[at[p][1]]
  BY <1>1, HasCached DEF SlotOf, OneBlock, Obj
<1>2. ASSUME pc'[p] = pc[p], at'[p] = at[p], blobs'[p] = blobs[p],
             canon'[at[p][1]] = canon[at[p][1]], heap'[at[p]].block = heap[at[p]].block,
             heap'[at[p]].txs = heap[at[p]].txs
      PROVE  Good(p)
  BY <1>1, <1>2
<1>3. ASSUME NEW a \in 0..LastSlot, NEW q \in SUBSET Slots, ChainReorg(a, q) PROVE Good(p)
  <2>1. UNCHANGED <<heap, pc, at, blobs>>
    BY <1>3, ReorgDoes
  <2>2. canon'[at[p][1]] = canon[at[p][1]]
    BY <1>0, <1>3, <2>1, ReorgKeeps
  <2> QED
    BY <1>2, <2>1, <2>2
<1>4. ASSUME NEW t \in Slots, StartSlot(t) PROVE Good(p)
  <2>1. pc' = [pc EXCEPT ![t] = "block"] /\ UNCHANGED <<canon, heap, at, blobs>>
    BY <1>4 DEF StartSlot, chain
  <2>2. pc'[p] = pc[p]
    BY <1>0, <2>1
  <2> QED
    BY <1>2, <2>1, <2>2
<1>5. ASSUME NEW t \in Slots, DownloadBlock(t) PROVE Good(p)
  <2>1. /\ gen[t] = 0 /\ UNCHANGED <<canon, pc, at, blobs>>
        /\ \A o \in Objects : o # <<t, 1>> => heap'[o] = heap[o]
    BY <1>5, DownloadDoes
  <2>2. at[p] # <<t, 1>>
    BY <1>1, <2>1
  <2> QED
    BY <1>0, <1>2, <2>1, <2>2
<1>6. CASE ReplaceBlock
  <2>1. /\ ~Active(reorg.i) /\ UNCHANGED <<canon, blobs>>
        /\ \A o \in Objects : o # <<reorg.i, 2>> => heap'[o] = heap[o]
        /\ \/ UNCHANGED <<pc, at>>
           \/ pc' = [pc EXCEPT ![0] = "block"] /\ at' = [at EXCEPT ![0] = <<reorg.i, 2>>]
    BY <1>6, ReplaceDoes
  <2>2. pc'[p] = pc[p] /\ at'[p] = at[p]
    BY <1>0, <2>1
  <2>3. at[p] # <<reorg.i, 2>>
    BY <1>1, <2>1, <2>2
  <2> QED
    BY <1>0, <1>2, <2>1, <2>2, <2>3
<1>7. CASE Still
  <2>1. /\ UNCHANGED <<canon, pc, at, blobs>> /\ heap'[at[p]].block = heap[at[p]].block
        /\ heap'[at[p]].txs = heap[at[p]].txs \/ ~Active(at[p][1])
    BY <1>0, <1>7 DEF Still
  <2>2. heap'[at[p]].txs = heap[at[p]].txs
    BY <1>1, <2>1
  <2> QED
    BY <1>2, <2>1, <2>2
<1>8. ASSUME NEW q \in Procs, WriteBlock(q) PROVE Good(p)
  <2> DEFINE o == <<SlotOf(q), gen[SlotOf(q)]>>
  <2>1. /\ o \in Objects /\ heap' = [heap EXCEPT ![o].processed = TRUE]
        /\ at' = [at EXCEPT ![q] = o] /\ pc' = [pc EXCEPT ![q] = "receipts"]
    BY <1>8, WriteBlockDoes
  <2>2. UNCHANGED <<canon, blobs>>
    BY <1>8 DEF WriteBlock, chain
  <2>3. pc'[p] = pc[p] /\ at'[p] = at[p]
    BY <1>0, <2>1
  <2>4. heap'[at[p]].block = heap[at[p]].block /\ heap'[at[p]].txs = heap[at[p]].txs
    BY <1>0, <2>1, SetProcessed
  <2> QED
    BY <1>2, <2>2, <2>3, <2>4
<1>9. ASSUME NEW q \in Procs, Moves(q),
             \/ NoReceipts(q) \/ ProcessTransactions(q) \/ FuluBlobs(q) \/ WriteRest(q)
             \/ BlobSidecars(q) \/ FuluCommitments(q)
      PROVE  Good(p)
  <2>0. at[q] \in Objects
    BY <1>0
  <2>1. CASE NoReceipts(q)
    <3>1. /\ pc' = [pc EXCEPT ![q] = "rest"] /\ heap' = [heap EXCEPT ![at[q]].fails = @ + 1]
          /\ UNCHANGED <<canon, at, blobs>>
      BY <2>1, NoReceiptsDoes
    <3>2. heap'[at[p]].block = heap[at[p]].block /\ heap'[at[p]].txs = heap[at[p]].txs
      BY <1>0, <2>0, <3>1, AddFail
    <3>3. pc'[p] = pc[p]
      BY <1>0, <3>1
    <3> QED
      BY <1>2, <3>1, <3>2, <3>3
  <2>2. CASE ProcessTransactions(q)
    <3> DEFINE txs == GetBlockReceipts(heap[at[q]].block, SlotOf(q))
    <3>1. /\ heap' = [heap EXCEPT ![at[q]].txs = txs] /\ UNCHANGED <<canon, at, blobs>>
          /\ pc[q] = "receipts"
          /\ pc' = [pc EXCEPT ![q] = "rest"] \/ pc' = [pc EXCEPT ![q] = "blobs"]
      BY <2>2, TransactionsDo
    <3>2. /\ \A x \in Objects : x # at[q] => heap'[x] = heap[x]
          /\ heap'[at[q]].block = heap[at[q]].block /\ heap'[at[q]].txs = txs
      BY <1>0, <2>0, <3>1, SetTxs
    <3>3. CASE p = q
      <4>1. pc'[p] = "blobs"
        BY <1>0, <3>1, <3>3
      <4>2. heap[at[p]].block = canon[at[p][1]]
        BY <3>1, <3>2, <3>3
      <4>3. txs = Txs(canon[at[p][1]], at[p][1])
        BY <3>3, <4>2, ReceiptsOfChain DEF SlotOf
      <4> QED
        BY <3>1, <3>2, <3>3, <4>1, <4>3
    <3>4. CASE p # q
      <4>1. pc'[p] = pc[p]
        BY <1>0, <3>1, <3>4
      <4>2. at[p] # at[q]
        BY <3>1, <3>4, <4>1, OwnObjects
      <4> QED
        BY <1>0, <1>2, <3>1, <3>2, <4>1, <4>2
    <3> QED
      BY <3>3, <3>4
  <2>3. CASE FuluBlobs(q)
    <3>1. /\ pc[q] = "blobs" /\ pc' = [pc EXCEPT ![q] = "commitments"]
          /\ blobs' = [blobs EXCEPT ![q] = canon[SlotOf(q)]] /\ UNCHANGED <<canon, heap, at>>
      BY <2>3 DEF FuluBlobs, chain
    <3>2. CASE p = q
      BY <1>0, <1>1, <3>1, <3>2 DEF SlotOf
    <3>3. CASE p # q
      <4>1. pc'[p] = pc[p] /\ blobs'[p] = blobs[p]
        BY <1>0, <3>1, <3>3
      <4> QED
        BY <1>2, <3>1, <4>1
    <3> QED
      BY <3>2, <3>3
  <2>4. CASE WriteRest(q) \/ BlobSidecars(q) \/ FuluCommitments(q)
    <3>1. /\ pc' = [pc EXCEPT ![q] = "rest"] \/ pc' = [pc EXCEPT ![q] = "idle"]
          /\ UNCHANGED <<canon, heap, at, blobs>>
      BY <2>4, WriteRestDoes, SidecarsDo
    <3>2. pc'[p] = pc[p]
      BY <1>0, <3>1
    <3> QED
      BY <1>2, <3>1, <3>2
  <2> QED
    BY <1>9, <2>1, <2>2, <2>3, <2>4
<1>10. Good(p)
  BY <1>3, <1>4, <1>5, <1>6, <1>7, <1>8, <1>9, StepKinds
<1> QED
  BY <1>10

\* Once at a time: what a processer writes of a block of the chain.
Written(p, s, b, d, e) ==
    \/ /\ pc[p] = "block" /\ pc'[p] = "receipts"
       /\ e.blocks[s] = b /\ Own(e, s) = Own(d, s) /\ BlobsAt(e, s) = BlobsAt(d, s)
    \/ /\ pc[p] = "receipts" /\ pc'[p] \in {"blobs", "rest"}
       /\ e.blocks[s] = d.blocks[s] /\ Own(e, s) = TxRows(s, b, Txs(b, s))
       /\ BlobsAt(e, s) = BlobsAt(d, s)
       /\ pc'[p] = "rest" => BlobsAt(e, s) = BlobRows(s, b, b, Txs(b, s))
    \/ /\ pc[p] \in {"blobs", "commitments"} /\ pc'[p] = "rest"
       /\ e.blocks[s] = d.blocks[s] /\ Own(e, s) = Own(d, s)
       /\ BlobsAt(e, s) = BlobRows(s, b, b, Txs(b, s))
    \/ /\ \/ pc[p] = "blobs" /\ pc'[p] = "commitments"
          \/ pc[p] = "rest" /\ pc'[p] = "idle"
       /\ e.blocks[s] = d.blocks[s] /\ Own(e, s) = Own(d, s) /\ BlobsAt(e, s) = BlobsAt(d, s)

\* A missed slot has no blobs.
LEMMA NoBlobs ==
    ASSUME NEW s, NEW c, NEW txs
    PROVE  BlobRows(s, Missed, c, txs) = {}
BY DEF BlobRows, BlobCount

LEMMA ProcesserDoes ==
    ASSUME Shape, ProcsInOrder, OneBlock, NEW p \in Procs,
           \/ WriteBlock(p)
           \/ /\ Moves(p)
              /\ \/ NoReceipts(p) \/ ProcessTransactions(p) \/ FuluBlobs(p) \/ WriteRest(p)
                 \/ BlobSidecars(p) \/ FuluCommitments(p)
    PROVE  LET s == SlotOf(p)
               b == canon[s]
           IN
           /\ s \in Slots /\ gen[s] # 0 /\ at'[p][1] = s
           /\ UNCHANGED <<canon, gen, started, dirty>>
           /\ \A o \in Objects : heap'[o].block = heap[o].block
           /\ \A q \in Procs : q # p => pc'[q] = pc[q] /\ at'[q] = at[q]
           /\ db'.orphans = db.orphans /\ faults' >= faults
           /\ \A t \in Slots : t # s => Keeps(db, db', t)
           /\ Current(s) /\ OnlyOf(db, s, b) =>
                /\ OnlyOf(db', s, b)
                /\ faults' = faults => Written(p, s, b, db, db')
<1> DEFINE s == SlotOf(p)
<1> DEFINE b == canon[s]
<1>0. /\ pc \in [Procs -> Labels] /\ at \in [Procs -> Objects] /\ IsHeap(heap) /\ IsDb(db)
      /\ faults \in Nat /\ s \in Slots /\ b.fork \in Nat
  BY AtSlot DEF Shape
<1>1. CASE WriteBlock(p)
  <2> DEFINE o == <<s, gen[s]>>
  <2>1. /\ o \in Objects /\ gen[s] # 0 /\ pc[p] = "block" /\ faults' >= faults
        /\ at' = [at EXCEPT ![p] = o] /\ pc' = [pc EXCEPT ![p] = "receipts"]
        /\ heap' = [heap EXCEPT ![o].processed = TRUE]
        /\ Writes(db, db', s, heap[o].block)
        /\ faults' = faults => db'.blocks[s] = heap[o].block
        /\ Own(db', s) = Own(db, s) /\ BlobsAt(db', s) = BlobsAt(db, s)
    BY <1>1, WriteBlockDoes
  <2>2. UNCHANGED <<canon, gen, started, dirty>>
    BY <1>1 DEF WriteBlock, chain, cache
  <2>3. \A x \in Objects : heap'[x].block = heap[x].block
    BY <1>0, <2>1, SetProcessed
  <2>4. /\ at'[p] = o /\ o[1] = s /\ pc'[p] = "receipts"
        /\ \A q \in Procs : q # p => pc'[q] = pc[q] /\ at'[q] = at[q]
    BY <1>0, <2>1
  <2>5. Current(s) => heap[o].block = b
    BY DEF Current, Held
  <2>6. ASSUME Current(s), OnlyOf(db, s, b)
        PROVE  OnlyOf(db', s, b) /\ (faults' = faults => Written(p, s, b, db, db'))
    <3>1. Writes(db, db', s, b) /\ (faults' = faults => db'.blocks[s] = b)
      BY <2>1, <2>5, <2>6
    <3> QED
      BY <2>1, <2>4, <2>6, <3>1 DEF Writes, Written
  <2> QED
    BY <1>0, <2>1, <2>2, <2>3, <2>4, <2>6 DEF Writes
<1>2. ASSUME Moves(p),
             \/ NoReceipts(p) \/ ProcessTransactions(p) \/ FuluBlobs(p) \/ WriteRest(p)
             \/ BlobSidecars(p) \/ FuluCommitments(p)
      PROVE  /\ gen[s] # 0 /\ at'[p][1] = s
             /\ UNCHANGED <<canon, gen, started, dirty>>
             /\ \A o \in Objects : heap'[o].block = heap[o].block
             /\ \A q \in Procs : q # p => pc'[q] = pc[q] /\ at'[q] = at[q]
             /\ Current(s) => heap[at[p]].block = b
  <2>1. pc[p] \notin {"idle", "block"} /\ UNCHANGED <<canon, gen, started, at, dirty>>
    BY <1>2 DEF Moves
  <2>2. gen[s] # 0 /\ heap[at[p]].block = Held(s)
    BY <2>1, HasCached
  <2>3. PICK x \in Labels : pc' = [pc EXCEPT ![p] = x]
    BY <1>2 DEF Moves
  <2>4. \A q \in Procs : q # p => pc'[q] = pc[q]
    BY <1>0, <2>3
  <2> QED
    BY <1>2, <2>1, <2>2, <2>4 DEF Moves, Current, SlotOf
<1>3. CASE Moves(p) /\ NoReceipts(p)
  <2>1. db' = db /\ faults' = faults + 1
    BY <1>3, NoReceiptsDoes
  <2>2. \A t \in Slots : Keeps(db, db', t)
    BY <2>1, KeepsSame
  <2>3. faults' # faults /\ faults' >= faults
    BY <1>0, <2>1
  <2> QED
    BY <1>0, <1>2, <1>3, <2>1, <2>2, <2>3
<1>4. CASE Moves(p) /\ ProcessTransactions(p)
  <2> DEFINE c == heap[at[p]].block
  <2> DEFINE txs == GetBlockReceipts(c, s)
  <2>1. /\ pc[p] = "receipts" /\ faults' >= faults
        /\ Writes(db, db', s, c)
        /\ db'.blocks = db.blocks /\ BlobsAt(db', s) = BlobsAt(db, s)
        /\ faults' = faults => Own(db', s) = Own(db, s) \union TxRows(s, c, txs)
        /\ \/ pc' = [pc EXCEPT ![p] = "rest"] /\ (faults' # faults \/ c = Missed)
           \/ pc' = [pc EXCEPT ![p] = "blobs"] /\ c # Missed
    BY <1>4, TransactionsDo
  <2>2. ASSUME Current(s), OnlyOf(db, s, b)
        PROVE  OnlyOf(db', s, b) /\ (faults' = faults => Written(p, s, b, db, db'))
    <3>1. c = b /\ txs = Txs(b, s)
      <4>1. c = b
        BY <1>2, <1>4, <2>2
      <4> QED
        BY <4>1, ReceiptsOfChain
    <3>2. OnlyOf(db', s, b)
      BY <2>1, <2>2, <3>1 DEF Writes
    <3>3. ASSUME faults' = faults PROVE Written(p, s, b, db, db')
      <4>1. Own(db', s) = TxRows(s, b, Txs(b, s))
        BY <2>1, <2>2, <3>1, <3>3 DEF OnlyOf
      <4>2. pc'[p] \in {"blobs", "rest"} /\ (pc'[p] = "rest" => b = Missed)
        BY <1>0, <2>1, <3>1, <3>3
      <4>3. b = Missed => BlobsAt(db', s) = BlobRows(s, b, b, Txs(b, s))
        <5>1. b = Missed => BlobRows(s, b, b, Txs(b, s)) = {}
          BY NoBlobs
        <5> QED
          BY <3>2, <5>1 DEF OnlyOf
      <4> QED
        BY <2>1, <4>1, <4>2, <4>3 DEF Written
    <3> QED
      BY <3>2, <3>3
  <2> QED
    BY <1>0, <1>2, <1>4, <2>1, <2>2 DEF Writes
<1>5. CASE Moves(p) /\ FuluBlobs(p)
  <2>1. /\ pc[p] = "blobs" /\ pc' = [pc EXCEPT ![p] = "commitments"]
        /\ UNCHANGED <<db, faults>>
    BY <1>5 DEF FuluBlobs
  <2>2. pc'[p] = "commitments"
    BY <1>0, <2>1
  <2>3. \A t \in Slots : Keeps(db, db', t)
    BY <2>1, KeepsSame
  <2>4. Written(p, s, b, db, db')
    BY <2>1, <2>2 DEF Written
  <2>5. faults' >= faults
    BY <1>0, <2>1
  <2> QED
    BY <1>0, <1>2, <1>5, <2>1, <2>3, <2>4, <2>5
<1>6. CASE Moves(p) /\ WriteRest(p)
  <2>1. /\ pc[p] = "rest" /\ pc' = [pc EXCEPT ![p] = "idle"] /\ Writes(db, db', s, b)
        /\ db'.blocks = db.blocks /\ Own(db', s) = Own(db, s)
        /\ BlobsAt(db', s) = BlobsAt(db, s) /\ faults' = faults
    BY <1>6, WriteRestDoes
  <2>2. pc'[p] = "idle"
    BY <1>0, <2>1
  <2>3. Written(p, s, b, db, db')
    BY <2>1, <2>2 DEF Written
  <2>4. faults' >= faults
    BY <1>0, <2>1
  <2> QED
    BY <1>0, <1>2, <1>6, <2>1, <2>3, <2>4 DEF Writes
<1>7. CASE Moves(p) /\ (BlobSidecars(p) \/ FuluCommitments(p))
  <2> DEFINE c == IF pc[p] = "blobs" THEN canon[s] ELSE blobs[p]
  <2> DEFINE rows == BlobRows(s, c, canon[s], heap[at[p]].txs)
  <2>1. /\ pc[p] \in {"blobs", "commitments"} /\ pc' = [pc EXCEPT ![p] = "rest"]
        /\ faults' >= faults /\ db'.orphans = db.orphans
        /\ \A t \in Slots : t # s => Keeps(db, db', t)
        /\ db'.blocks = db.blocks /\ Own(db', s) = Own(db, s)
        /\ BlobsAt(db', s) \subseteq BlobsAt(db, s) \union rows
        /\ faults' = faults /\ ~panicked' => rows \subseteq BlobsAt(db', s)
        /\ \A x : rows \subseteq BlobRows(s, x, x, Txs(x, s)) => Writes(db, db', s, x)
    BY <1>7, SidecarsDo
  <2>2. ASSUME Current(s), OnlyOf(db, s, b)
        PROVE  OnlyOf(db', s, b) /\ (faults' = faults => Written(p, s, b, db, db'))
    <3>1. heap[at[p]].block = b
      BY <1>2, <1>7, <2>2
    <3>2. heap[at[p]].txs = Txs(b, s) /\ c = b
      BY <2>1, <3>1 DEF OneBlock, Obj
    <3>3. rows = BlobRows(s, b, b, Txs(b, s))
      BY <3>2
    <3>4. OnlyOf(db', s, b)
      BY <2>1, <2>2, <3>3 DEF Writes
    <3>5. ~panicked'
      <4>1. CASE BlobSidecars(p)
        BY <4>1 DEF BlobSidecars
      <4>2. CASE FuluCommitments(p)
        <5>1. pc[p] = "commitments" /\ blobs[p] = b
          BY <3>2, <4>2 DEF FuluCommitments
        <5>2. ~(BlobCount(b) < BlobCount(b))
          <6>1. BlobCount(b) \in Int
            BY <1>0 DEF BlobCount
          <6> QED
            BY <6>1
        <5>3. panicked' => BlobCount(canon[s]) < BlobCount(blobs[p])
          BY <4>2 DEF FuluCommitments
        <5> QED
          BY <5>1, <5>2, <5>3
      <4> QED
        BY <1>7, <4>1, <4>2
    <3>6. faults' = faults => BlobsAt(db', s) = rows
      BY <2>1, <2>2, <3>3, <3>5 DEF OnlyOf
    <3>7. pc'[p] = "rest"
      BY <1>0, <2>1
    <3> QED
      BY <2>1, <3>3, <3>4, <3>6, <3>7 DEF Written
  <2> QED
    BY <1>0, <1>2, <1>7, <2>1, <2>2
<1> QED
  BY <1>1, <1>3, <1>4, <1>5, <1>6, <1>7

\* A step that leaves the object and the block of slot s alone.
LEMMA CurrentBefore ==
    ASSUME Shape, NEW s \in Slots, Current(s)', gen'[s] = gen[s], canon'[s] = canon[s],
           \A o \in Objects : o = <<s, gen[s]>> => heap'[o].block = heap[o].block
    PROVE  Current(s)
<1>1. gen[s] # 0 /\ gen[s] \in 0..2
  BY DEF Current, Shape
<1>2. gen[s] \in {1, 2}
  BY <1>1
<1>3. <<s, gen[s]>> \in Objects
  BY <1>2, Basics
<1> QED
  BY <1>1, <1>3 DEF Current, Held

\* The same for the reorg itself.
LEMMA CurrentBeforeReorg ==
    ASSUME Shape, BeforeReorg, NEW a \in 0..LastSlot, NEW p \in SUBSET Slots, ChainReorg(a, p),
           NEW s \in Slots, Current(s)'
    PROVE  Current(s) /\ canon'[s] = canon[s]
<1> DEFINE o == <<s, gen[s]>>
<1>1. gen' = gen /\ heap' = heap
  BY ReorgDoes
<1>2. gen[s] # 0 /\ gen[s] \in 0..2
  BY <1>1 DEF Current, Shape
<1>3. gen[s] \in {1, 2}
  BY <1>2
<1>4. o \in Objects /\ o[1] = s
  BY <1>3, Basics
<1>5. heap[o].block = canon'[s]
  BY <1>1 DEF Current, Held
<1>6. canon'[s] = canon[s]
  BY <1>4, <1>5, ReorgKeeps
<1> QED
  BY <1>2, <1>5, <1>6 DEF Current, Held

LEMMA OnlyChainStep ==
    ASSUME Shape, BeforeReorg, ProcsInOrder, OneBlock, OnlyChain, [Next]_vars
    PROVE  OnlyChain'
<1> DEFINE Good(s) ==
        /\ gen'[s] = 0 => Empty(db', s)
        /\ s \notin dirty' /\ Current(s)' => OnlyOf(db', s, canon'[s])
<1> DEFINE Orphans == \A x \in db'.orphans : x[2] # canon'[x[1]]
<1> SUFFICES (\A s \in Slots : Good(s)) /\ Orphans
  BY DEF OnlyChain, Empty, OnlyOf, Own, BlobsAt
<1>0. /\ \A s \in Slots : gen[s] = 0 => Empty(db, s)
      /\ \A s \in Slots : s \notin dirty /\ Current(s) => OnlyOf(db, s, canon[s])
      /\ \A x \in db.orphans : x[2] # canon[x[1]]
  BY DEF OnlyChain
\* A step that leaves the slot alone.
<1>1. ASSUME NEW s \in Slots, gen'[s] = gen[s], canon'[s] = canon[s],
             \A o \in Objects : o = <<s, gen[s]>> => heap'[o].block = heap[o].block,
             dirty \subseteq dirty', Keeps(db, db', s)
      PROVE  Good(s)
  <2>1. Current(s)' => Current(s)
    BY <1>1, CurrentBefore
  <2> QED
    BY <1>0, <1>1, <2>1, KeepsAll
<1>2. ASSUME NEW a \in 0..LastSlot, NEW p \in SUBSET Slots, ChainReorg(a, p)
      PROVE  (\A s \in Slots : Good(s)) /\ Orphans
  <2>1. fork = 1 /\ UNCHANGED <<gen, heap, db, dirty>>
    BY <1>2, ReorgDoes
  <2>2. ASSUME NEW s \in Slots PROVE Good(s)
    <3>1. Current(s)' => Current(s) /\ canon'[s] = canon[s]
      BY <1>2, CurrentBeforeReorg
    <3> QED
      BY <1>0, <2>1, <3>1
  <2>3. db.orphans = {}
    BY <2>1 DEF BeforeReorg
  <2> QED
    BY <2>1, <2>2, <2>3
<1>3. ASSUME NEW t \in Slots, StartSlot(t) PROVE (\A s \in Slots : Good(s)) /\ Orphans
  <2>1. UNCHANGED <<canon, gen, heap, db, dirty>>
    BY <1>3 DEF StartSlot, chain
  <2>2. \A s \in Slots : Keeps(db, db', s)
    BY <2>1, KeepsSame
  <2> QED
    BY <1>0, <1>1, <2>1, <2>2
<1>4. ASSUME NEW t \in Slots, DownloadBlock(t) PROVE (\A s \in Slots : Good(s)) /\ Orphans
  <2>1. /\ gen[t] = 0 /\ gen'[t] = 1 /\ UNCHANGED <<canon, db, dirty>>
        /\ \A s \in Slots : s # t => gen'[s] = gen[s]
        /\ \A o \in Objects : o # <<t, 1>> => heap'[o] = heap[o]
    BY <1>4, DownloadDoes
  <2>2. Good(t)
    BY <1>0, <2>1, EmptyIsOnly
  <2>3. ASSUME NEW s \in Slots, s # t PROVE Good(s)
    <3>1. Keeps(db, db', s)
      BY <2>1, KeepsSame
    <3> QED
      BY <1>1, <2>1, <2>3, <3>1
  <2> QED
    BY <1>0, <2>1, <2>2, <2>3
<1>5. CASE ReplaceBlock
  <2>0. PICK i \in Slots : i = reorg.i
    BY <1>5, ReplaceDoes
  <2>1. /\ i \in Slots /\ gen[i] # 0 /\ gen'[i] = 2 /\ UNCHANGED canon
        /\ \A s \in Slots : s # i => gen'[s] = gen[s]
        /\ \A o \in Objects : o # <<i, 2>> => heap'[o] = heap[o]
        /\ \/ Held(i) = canon[i] /\ UNCHANGED <<db, dirty>>
           \/ /\ Held(i) # canon[i] /\ dirty \subseteq dirty'
              /\ i \in dirty' \/ Empty(db', i)
              /\ \A s \in Slots : s # i => Keeps(db, db', s)
              /\ \A x \in db'.orphans : x \in db.orphans \/ x = <<i, Held(i)>>
    BY <1>5, <2>0, ReplaceDoes
  <2>2. Good(i)
    <3>1. CASE Held(i) = canon[i] /\ UNCHANGED <<db, dirty>>
      <4>1. Current(i)
        BY <2>1, <3>1 DEF Current
      <4> QED
        BY <1>0, <2>1, <3>1, <4>1
    <3>2. CASE i \in dirty'
      BY <2>1, <3>2
    <3>3. CASE Empty(db', i)
      BY <3>3, EmptyIsOnly
    <3> QED
      BY <2>1, <3>1, <3>2, <3>3
  <2>3. ASSUME NEW s \in Slots, s # i PROVE Good(s)
    <3>1. Keeps(db, db', s) /\ dirty \subseteq dirty'
      BY <2>1, <2>3, KeepsSame
    <3> QED
      BY <1>1, <2>1, <2>3, <3>1
  <2>4. Orphans
    BY <1>0, <2>1
  <2> QED
    BY <2>2, <2>3, <2>4
<1>6. CASE Still
  <2>1. /\ UNCHANGED <<canon, gen, dirty>> /\ db'.orphans = db.orphans
        /\ \A o \in Objects : heap'[o].block = heap[o].block
    BY <1>6 DEF Still
  <2>2. \A s \in Slots : Keeps(db, db', s)
    BY <1>6, KeepsSame DEF Still
  <2> QED
    BY <1>0, <1>1, <2>1, <2>2
<1>7. ASSUME NEW p \in Procs,
             \/ WriteBlock(p)
             \/ /\ Moves(p)
                /\ \/ NoReceipts(p) \/ ProcessTransactions(p) \/ FuluBlobs(p) \/ WriteRest(p)
                   \/ BlobSidecars(p) \/ FuluCommitments(p)
      PROVE  (\A s \in Slots : Good(s)) /\ Orphans
  <2>0. PICK t \in Slots : t = SlotOf(p)
    BY AtSlot
  <2>1. /\ t \in Slots /\ gen[t] # 0 /\ UNCHANGED <<canon, gen, dirty>>
        /\ \A o \in Objects : heap'[o].block = heap[o].block
        /\ db'.orphans = db.orphans
        /\ \A s \in Slots : s # t => Keeps(db, db', s)
        /\ Current(t) /\ OnlyOf(db, t, canon[t]) => OnlyOf(db', t, canon[t])
    BY <1>7, <2>0, ProcesserDoes
  <2>2. Good(t)
    <3>1. Current(t)' => Current(t)
      BY <2>1, CurrentBefore
    <3> QED
      BY <1>0, <2>1, <3>1
  <2>3. \A s \in Slots : s # t => Good(s)
    BY <1>1, <2>1
  <2> QED
    BY <1>0, <2>1, <2>2, <2>3
<1> QED
  BY <1>2, <1>3, <1>4, <1>5, <1>6, <1>7, StepKinds

\* The rows of a slot that the step leaves alone are as complete as before.
LEMMA CompleteKept ==
    ASSUME NEW s, Complete(s), Keeps(db, db', s), canon'[s] = canon[s],
           \A q \in Procs : SlotOf(q) = s =>
               pc[q] = "idle" \/ (pc'[q] = pc[q] /\ at'[q][1] = s)
    PROVE  Complete(s)'
<1>1. \A x : x \subseteq Labels \ {"idle"} /\ Past(s, x)' => Past(s, x)
  BY DEF Past, SlotOf, Labels
<1>2. /\ Past(s, {"block"})' => Past(s, {"block"})
      /\ Past(s, {"block", "receipts"})' => Past(s, {"block", "receipts"})
      /\ Past(s, {"block", "receipts", "blobs", "commitments"})' =>
             Past(s, {"block", "receipts", "blobs", "commitments"})
  BY <1>1 DEF Labels
<1>3. /\ db'.blocks[s] = db.blocks[s] /\ Own(db, s)' = Own(db, s)
      /\ BlobsAt(db, s)' = BlobsAt(db, s)
  BY DEF Keeps, Own, BlobsAt
<1>4. /\ TxRows(s, canon[s], Txs(canon[s], s))' = TxRows(s, canon[s], Txs(canon[s], s))
      /\ BlobRows(s, canon[s], canon[s], Txs(canon[s], s))'
         = BlobRows(s, canon[s], canon[s], Txs(canon[s], s))
  BY DEF TxRows, Txs, BlobRows, BlobCount
<1> QED
  BY <1>2, <1>3, <1>4 DEF Complete

\* What a processer has written is complete after its step.
LEMMA CompleteWritten ==
    ASSUME Shape, NEW p \in Procs, NEW s \in Slots, s = SlotOf(p), at'[p][1] = s,
           \A q \in Procs : q # p => pc'[q] = pc[q] /\ at'[q] = at[q],
           canon'[s] = canon[s], Complete(s), Written(p, s, canon[s], db, db')
    PROVE  Complete(s)'
<1> DEFINE b == canon[s]
<1>1. ASSUME NEW x, pc[p] \notin x, Past(s, x)' PROVE Past(s, x)
  BY <1>1 DEF Past, SlotOf
<1>2. ASSUME NEW x, Past(s, x)' PROVE pc'[p] \notin x
  BY <1>2 DEF Past, SlotOf
<1>3. SUFFICES
        /\ Past(s, {"block"})' => db'.blocks[s] = b
        /\ Past(s, {"block", "receipts"})' => Own(db', s) = TxRows(s, b, Txs(b, s))
        /\ Past(s, {"block", "receipts", "blobs", "commitments"})' =>
               BlobsAt(db', s) = BlobRows(s, b, b, Txs(b, s))
  BY DEF Complete, Own, BlobsAt, TxRows, Txs, BlobRows, BlobCount
<1>4. /\ Past(s, {"block"})' /\ pc[p] # "block" => db.blocks[s] = b
      /\ Past(s, {"block", "receipts"})' /\ pc[p] \notin {"block", "receipts"} =>
             Own(db, s) = TxRows(s, b, Txs(b, s))
      /\ Past(s, {"block", "receipts", "blobs", "commitments"})'
             /\ pc[p] \notin {"block", "receipts", "blobs", "commitments"} =>
             BlobsAt(db, s) = BlobRows(s, b, b, Txs(b, s))
  <2>1. pc[p] # "block" => pc[p] \notin {"block"}
    OBVIOUS
  <2> QED
    BY <1>1, <2>1 DEF Complete
<1>5. /\ Past(s, {"block"})' => pc'[p] # "block"
      /\ Past(s, {"block", "receipts"})' => pc'[p] \notin {"block", "receipts"}
      /\ Past(s, {"block", "receipts", "blobs", "commitments"})'
             => pc'[p] \notin {"block", "receipts", "blobs", "commitments"}
  BY <1>2
<1> QED
  BY <1>4, <1>5 DEF Written

LEMMA AllWrittenStep ==
    ASSUME Shape, BeforeReorg, ProcsInOrder, OneBlock, OnlyChain, AllWritten, [Next]_vars
    PROVE  AllWritten'
<1> SUFFICES ASSUME faults' = 0, NEW s \in Slots, s \in started', s \notin dirty', Current(s)'
             PROVE  Complete(s)'
  BY ShapeStep DEF AllWritten, Shape
<1>0. /\ pc \in [Procs -> Labels] /\ at \in [Procs -> Objects] /\ faults \in Nat
      /\ 0 \notin Slots /\ Procs = Slots \union {0}
  BY Basics DEF Shape
<1>1. faults = 0 /\ s \in started /\ s \notin dirty /\ Current(s) => Complete(s)
  BY DEF AllWritten
<1>2. ASSUME NEW a \in 0..LastSlot, NEW p \in SUBSET Slots, ChainReorg(a, p)
      PROVE  Complete(s)'
  <2>1. UNCHANGED <<started, gen, heap, pc, at, db, faults, dirty>>
    BY <1>2, ReorgDoes
  <2>2. Current(s) /\ canon'[s] = canon[s]
    BY <1>2, CurrentBeforeReorg
  <2>3. Keeps(db, db', s)
    BY <2>1, KeepsSame
  <2>4. \A q \in Procs : SlotOf(q) = s => pc'[q] = pc[q] /\ at'[q][1] = s
    BY <2>1 DEF SlotOf
  <2> QED
    BY <1>1, <2>1, <2>2, <2>3, <2>4, CompleteKept
<1>3. ASSUME NEW t \in Slots, StartSlot(t) PROVE Complete(s)'
  <2>1. /\ t \notin started /\ started' = started \union {t} /\ pc' = [pc EXCEPT ![t] = "block"]
        /\ UNCHANGED <<canon, gen, heap, at, db, faults, dirty>>
    BY <1>3 DEF StartSlot, chain
  <2>2. Current(s)
    BY <2>1, CurrentBefore
  <2>3. s # t
    BY <2>1, <2>2 DEF ProcsInOrder, Current
  <2>4. Keeps(db, db', s)
    BY <2>1, KeepsSame
  <2>5. \A q \in Procs : SlotOf(q) = s => pc'[q] = pc[q] /\ at'[q][1] = s
    <3>1. SlotOf(t) = t
      BY DEF ProcsInOrder, SlotOf
    <3> QED
      BY <1>0, <2>1, <2>3, <3>1 DEF SlotOf
  <2> QED
    BY <1>1, <2>1, <2>2, <2>3, <2>4, <2>5, CompleteKept
<1>4. ASSUME NEW t \in Slots, DownloadBlock(t) PROVE Complete(s)'
  <2>1. /\ t \in started /\ gen[t] = 0
        /\ UNCHANGED <<canon, started, pc, at, db, faults, dirty>>
        /\ \A x \in Slots : x # t => gen'[x] = gen[x]
        /\ \A o \in Objects : o # <<t, 1>> => heap'[o] = heap[o]
    BY <1>4, DownloadDoes
  <2>2. CASE s = t
    <3>1. pc'[t] = "block" /\ at'[t][1] = t /\ t \in Procs
      BY <1>0, <2>1 DEF ProcsInOrder
    <3>2. \A x : "block" \in x => ~Past(s, x)'
      BY <2>2, <3>1 DEF Past, SlotOf
    <3> QED
      BY <3>2 DEF Complete
  <2>3. CASE s # t
    <3>1. gen'[s] = gen[s]
      BY <2>1, <2>3
    <3>2. Current(s)
      BY <2>1, <2>3, <3>1, CurrentBefore
    <3>3. Keeps(db, db', s)
      BY <2>1, KeepsSame
    <3>4. \A q \in Procs : SlotOf(q) = s => pc'[q] = pc[q] /\ at'[q][1] = s
      BY <2>1 DEF SlotOf
    <3> QED
      BY <1>1, <2>1, <3>2, <3>3, <3>4, CompleteKept
  <2> QED
    BY <2>2, <2>3
<1>5. CASE ReplaceBlock
  <2>0. PICK i \in Slots : i = reorg.i
    BY <1>5, ReplaceDoes
  <2>1. /\ gen[i] # 0 /\ UNCHANGED <<canon, started>> /\ reorg.step = "slot"
        /\ \A x \in Slots : x # i => gen'[x] = gen[x]
        /\ \A o \in Objects : o # <<i, 2>> => heap'[o] = heap[o]
        /\ \/ Held(i) = canon[i] /\ UNCHANGED <<pc, at, db, faults, dirty>>
           \/ /\ Held(i) # canon[i] /\ dirty \subseteq dirty' /\ faults' >= faults
              /\ pc' = [pc EXCEPT ![0] = "block"] /\ at' = [at EXCEPT ![0] = <<i, 2>>]
              /\ \A x \in Slots : x # i => Keeps(db, db', x)
    BY <1>5, <2>0, ReplaceDoes
  <2>2. faults = 0 /\ s \in started /\ s \notin dirty
    BY <1>0, <2>1
  <2>3. CASE s = i /\ Held(i) # canon[i]
    <3>1. pc'[0] = "block" /\ at'[0][1] = s
      BY <1>0, <2>1, <2>3
    <3>2. \A x : "block" \in x => ~Past(s, x)'
      BY <1>0, <3>1 DEF Past, SlotOf
    <3> QED
      BY <3>2 DEF Complete
  <2>4. CASE s = i /\ Held(i) = canon[i]
    <3>1. Current(s) /\ UNCHANGED <<pc, at, db>>
      BY <2>1, <2>4 DEF Current
    <3>2. Keeps(db, db', s)
      BY <3>1, KeepsSame
    <3>3. \A q \in Procs : SlotOf(q) = s => pc'[q] = pc[q] /\ at'[q][1] = s
      BY <3>1 DEF SlotOf
    <3> QED
      BY <1>1, <2>1, <2>2, <3>1, <3>2, <3>3, CompleteKept
  <2>5. CASE s # i
    <3>1. gen'[s] = gen[s] /\ \A o \in Objects : o = <<s, gen[s]>> => heap'[o].block = heap[o].block
      BY <2>1, <2>5
    <3>2. Current(s)
      BY <2>1, <3>1, CurrentBefore
    <3>3. Keeps(db, db', s)
      BY <2>1, <2>5, KeepsSame
    <3>4. pc[0] = "idle"
      BY <2>1 DEF ProcsInOrder
    <3>5. \A q \in Procs : SlotOf(q) = s => pc[q] = "idle" \/ (pc'[q] = pc[q] /\ at'[q][1] = s)
      <4>1. \A q \in Slots : pc'[q] = pc[q] /\ at'[q] = at[q]
        BY <1>0, <2>1
      <4> QED
        BY <1>0, <3>4, <4>1 DEF SlotOf
    <3> QED
      BY <1>1, <2>1, <2>2, <3>2, <3>3, <3>5, CompleteKept
  <2> QED
    BY <2>3, <2>4, <2>5
<1>6. CASE Still
  <2>1. /\ UNCHANGED <<canon, started, gen, pc, at, dirty>> /\ faults' >= faults
        /\ \A o \in Objects : heap'[o].block = heap[o].block
    BY <1>6 DEF Still
  <2>2. Current(s) /\ faults = 0
    BY <1>0, <2>1, CurrentBefore
  <2>3. Keeps(db, db', s)
    BY <1>6, KeepsSame DEF Still
  <2>4. \A q \in Procs : SlotOf(q) = s => pc'[q] = pc[q] /\ at'[q][1] = s
    BY <2>1 DEF SlotOf
  <2> QED
    BY <1>1, <2>1, <2>2, <2>3, <2>4, CompleteKept
<1>7. ASSUME NEW p \in Procs,
             \/ WriteBlock(p)
             \/ /\ Moves(p)
                /\ \/ NoReceipts(p) \/ ProcessTransactions(p) \/ FuluBlobs(p) \/ WriteRest(p)
                   \/ BlobSidecars(p) \/ FuluCommitments(p)
      PROVE  Complete(s)'
  <2>0. PICK t \in Slots : t = SlotOf(p)
    BY AtSlot
  <2>1. /\ at'[p][1] = t /\ UNCHANGED <<canon, gen, started, dirty>>
        /\ \A o \in Objects : heap'[o].block = heap[o].block
        /\ \A q \in Procs : q # p => pc'[q] = pc[q] /\ at'[q] = at[q]
        /\ faults' >= faults
        /\ \A x \in Slots : x # t => Keeps(db, db', x)
        /\ Current(t) /\ OnlyOf(db, t, canon[t]) /\ faults' = faults =>
               Written(p, t, canon[t], db, db')
    BY <1>7, <2>0, ProcesserDoes
  <2>2. Current(s) /\ faults = 0
    BY <1>0, <2>1, CurrentBefore
  <2>3. Complete(s)
    BY <1>1, <2>1, <2>2
  <2>4. CASE s = t
    <3>1. OnlyOf(db, s, canon[s])
      BY <2>1, <2>2 DEF OnlyChain
    <3>2. Written(p, s, canon[s], db, db')
      BY <2>1, <2>2, <2>4, <3>1
    <3> QED
      BY <2>0, <2>1, <2>3, <2>4, <3>2, CompleteWritten
  <2>5. CASE s # t
    <3>1. \A q \in Procs : SlotOf(q) = s => pc'[q] = pc[q] /\ at'[q][1] = s
      BY <2>0, <2>1, <2>5 DEF SlotOf
    <3> QED
      BY <2>1, <2>3, <2>5, <3>1, CompleteKept
  <2> QED
    BY <2>4, <2>5
<1> QED
  BY <1>2, <1>3, <1>4, <1>5, <1>6, <1>7, StepKinds

\* The inductive invariant of the rows.
Inv ==
    /\ Shape /\ BeforeReorg /\ CachedOrAhead /\ ProcsInOrder
    /\ OneBlock /\ OnlyChain /\ AllWritten

LEMMA InvInit == Init => Inv
<1> SUFFICES ASSUME Init PROVE Inv
  OBVIOUS
<1>1. Shape
  BY ShapeInit
<1>2. /\ fork = 1 /\ reorg = Idle /\ started = {} /\ gen = [s \in Slots |-> 0]
      /\ pc = [p \in Procs |-> "idle"]
      /\ \A o \in Objects : heap[o] = NewObject(None)
      /\ at = [p \in Procs |-> <<IF p = 0 THEN 1 ELSE p, 1>>]
  BY DEF Init, Procs
<1>3. /\ db.blocks = [s \in Slots |-> None] /\ db.transactions = {} /\ db.blobs = {}
      /\ db.withdrawals = [i \in Slots |-> [slot |-> 0, block |-> None]] /\ db.orphans = {}
  BY DEF Init
<1>4. BeforeReorg
  <2>1. NewObject(None).block = None
    BY NewIsObject
  <2> QED
    BY <1>2, <1>3, <2>1 DEF BeforeReorg
<1>5. CachedOrAhead
  BY <1>2 DEF CachedOrAhead
<1>6. ProcsInOrder
  BY <1>2, Basics DEF ProcsInOrder
<1>7. OneBlock
  BY <1>2 DEF OneBlock
<1>8. OnlyChain
  <2>1. ASSUME NEW s \in Slots PROVE Empty(db, s)
    <3>1. 0 # s
      BY Basics
    <3> QED
      BY <1>3, <3>1 DEF Empty, Own, BlobsAt
  <2> QED
    BY <1>2, <1>3, <2>1 DEF OnlyChain, Current
<1>9. AllWritten
  BY <1>2 DEF AllWritten
<1> QED
  BY <1>1, <1>4, <1>5, <1>6, <1>7, <1>8, <1>9 DEF Inv

LEMMA InvStep == Inv /\ [Next]_vars => Inv'
BY ShapeStep, BeforeReorgStep, CachedOrAheadStep, ProcsInOrderStep, OneBlockStep, OnlyChainStep,
   AllWrittenStep DEF Inv

LEMMA InvAlways == Spec => []Inv
BY InvInit, InvStep, PTL DEF Spec

LEMMA InvMeansRows == Inv => RowsOfChain
<1> SUFFICES ASSUME Inv, Quiet, NEW s \in started, s \notin dirty
             PROVE  /\ OnlyOf(db, s, canon[s]) /\ <<s, canon[s]>> \notin db.orphans
                    /\ faults = 0 =>
                         /\ db.blocks[s] = canon[s]
                         /\ Own(db, s) = TxRows(s, canon[s], Txs(canon[s], s))
                         /\ BlobsAt(db, s) = BlobRows(s, canon[s], canon[s], Txs(canon[s], s))
  BY DEF RowsOfChain, OnlyOf, Own, BlobsAt, TxRows
<1>1. /\ reorg = Idle /\ \A p \in Procs : pc[p] = "idle"
      /\ s \in Slots
  BY DEF Quiet, Inv, Shape
<1>2. gen[s] # 0
  BY <1>1 DEF Inv, ProcsInOrder, Procs
<1>3. Current(s)
  BY <1>1, <1>2 DEF Inv, CachedOrAhead, Ahead, Idle
<1>4. OnlyOf(db, s, canon[s])
  BY <1>1, <1>3 DEF Inv, OnlyChain
<1>5. <<s, canon[s]>> \notin db.orphans
  BY DEF Inv, OnlyChain
<1>6. faults = 0 => Complete(s)
  BY <1>3 DEF Inv, AllWritten
<1>7. /\ Past(s, {"block"}) /\ Past(s, {"block", "receipts"})
      /\ Past(s, {"block", "receipts", "blobs", "commitments"})
  BY <1>1 DEF Past
<1> QED
  BY <1>4, <1>5, <1>6, <1>7 DEF Complete

\* When HandleReorg and ProcessBlock are done, the tables hold the rows of the
\* blocks of the chain only, and without faults all of them, for every number of
\* slots and of failing calls and for every reorg.
THEOREM RowsAreOfTheChain == Spec => []RowsOfChain
BY InvAlways, InvMeansRows, PTL

-----------------------------------------------------------------------------
(* The fees.                                                               *)

\* The row of the rewards of a block of the chain lacks fees only after
\* failures that recoverBlockReceipts could not make good.
Excused(r) ==
    r.block = canon[r.slot] /\ r.fees # Txs(r.block, r.slot)
        => r.object.fails >= (IF r.object.processed THEN 2 ELSE 1)

\* An object of the chain that ProcessBlock had has its transactions, or a
\* failure is counted, or its receipts are being asked for.
Receipted(o) ==
    heap[o].block = canon[o[1]] =>
        /\ heap[o].txs \in {{}, Txs(canon[o[1]], o[1])}
        /\ heap[o].processed =>
             \/ \E p \in Procs : pc[p] = "receipts" /\ at[p] = o
             \/ heap[o].txs = Txs(canon[o[1]], o[1])
             \/ heap[o].fails >= 1

RewardRows == rewards.done \union db.rewards

ReceiptsKept ==
    /\ \A o \in Objects : Receipted(o)
    /\ \A r \in RewardRows :
        /\ Excused(r)
        /\ fork = 1 => r.block \in {None, canon[r.slot]}

\* The rows of the rewards and the objects that a step leaves alone.
LEMMA ReceiptedKept ==
    ASSUME NEW o \in Objects, Receipted(o), canon'[o[1]] = canon[o[1]],
           heap'[o].block = heap[o].block, heap'[o].txs = heap[o].txs,
           heap'[o].fails = heap[o].fails, heap'[o].processed = heap[o].processed,
           \A p \in Procs : pc[p] = "receipts" /\ at[p] = o => pc'[p] = "receipts" /\ at'[p] = o
    PROVE  Receipted(o)'
BY DEF Receipted, Txs

LEMMA RewardsKept ==
    ASSUME ReceiptsKept, canon' = canon, fork' = fork, RewardRows' \subseteq RewardRows
    PROVE  \A r \in RewardRows' : Excused(r)' /\ (fork' = 1 => r.block \in {None, canon'[r.slot]})
BY DEF ReceiptsKept, Excused, Txs

LEMMA ReceiptsKeptStep ==
    ASSUME Shape, BeforeReorg, ProcsInOrder, ReceiptsKept, [Next]_vars
    PROVE  ReceiptsKept'
<1> DEFINE Rows ==
        \A r \in RewardRows' : Excused(r)' /\ (fork' = 1 => r.block \in {None, canon'[r.slot]})
<1> SUFFICES (\A o \in Objects : Receipted(o)') /\ Rows
  BY DEF ReceiptsKept
<1>0. /\ pc \in [Procs -> Labels] /\ at \in [Procs -> Objects] /\ IsHeap(heap)
      /\ DOMAIN rewards = {"gens", "done"} /\ 0 \notin Slots /\ Procs = Slots \union {0}
  BY Basics DEF Shape
<1>1. \A o \in Objects : Receipted(o)
  BY DEF ReceiptsKept
\* Steps that do nothing to the rows of the rewards, and those that keep the
\* objects and the processers that ask for receipts as well.
<1>2. ASSUME UNCHANGED <<canon, fork, rewards>>, db'.rewards = db.rewards PROVE Rows
  BY <1>2, RewardsKept DEF RewardRows
<1>3. ASSUME UNCHANGED canon,
             \A p \in Procs : pc[p] = "receipts" => pc'[p] = pc[p] /\ at'[p] = at[p],
             NEW o \in Objects,
             heap'[o].block = heap[o].block, heap'[o].txs = heap[o].txs,
             heap'[o].fails = heap[o].fails, heap'[o].processed = heap[o].processed
      PROVE  Receipted(o)'
  BY <1>1, <1>3, ReceiptedKept
<1>4. ASSUME UNCHANGED canon, NEW o \in Objects,
             heap'[o].txs = {}, heap'[o].processed = FALSE
      PROVE  Receipted(o)'
  BY <1>4 DEF Receipted
<1>5. ASSUME NEW a \in 0..LastSlot, NEW q \in SUBSET Slots, ChainReorg(a, q)
      PROVE  (\A o \in Objects : Receipted(o)') /\ Rows
  <2>1. fork = 1 /\ fork' = 2 /\ UNCHANGED <<heap, pc, at, rewards, db>>
    BY <1>5, ReorgDoes
  <2>2. ASSUME NEW o \in Objects PROVE Receipted(o)'
    <3>1. heap[o].block = canon'[o[1]] => canon'[o[1]] = canon[o[1]]
      BY <1>5, ReorgKeeps
    <3> QED
      BY <1>1, <2>1, <3>1 DEF Receipted, Txs
  <2>3. ASSUME NEW r \in RewardRows' PROVE Excused(r)'
    <3>1. r \in RewardRows /\ r.slot \in Slots
      BY <2>1, <2>3 DEF RewardRows, Shape
    <3>2. canon'[r.slot] # None
      BY <1>5, <3>1, ReorgDoes
    <3>3. Excused(r) /\ r.block \in {None, canon[r.slot]}
      BY <2>1, <3>1 DEF ReceiptsKept
    <3> QED
      BY <3>2, <3>3 DEF Excused, Txs
  <2> QED
    BY <2>1, <2>2, <2>3
<1>6. ASSUME NEW t \in Slots, StartSlot(t) PROVE (\A o \in Objects : Receipted(o)') /\ Rows
  <2>1. /\ t \notin started /\ pc' = [pc EXCEPT ![t] = "block"]
        /\ UNCHANGED <<canon, fork, heap, at, rewards, db>>
    BY <1>6 DEF StartSlot, chain, transitions
  <2>2. pc[t] = "idle"
    BY <2>1 DEF ProcsInOrder
  <2>3. \A p \in Procs : pc[p] = "receipts" => pc'[p] = pc[p] /\ at'[p] = at[p]
    BY <1>0, <2>1, <2>2
  <2> QED
    BY <1>2, <1>3, <2>1, <2>3
<1>7. ASSUME NEW t \in Slots, DownloadBlock(t) PROVE (\A o \in Objects : Receipted(o)') /\ Rows
  <2>1. /\ heap'[<<t, 1>>] = NewObject(canon[t])
        /\ \A o \in Objects : o # <<t, 1>> => heap'[o] = heap[o]
        /\ UNCHANGED <<canon, fork, pc, at, rewards, db>>
    BY <1>7, DownloadDoes
  <2>2. heap'[<<t, 1>>].txs = {} /\ heap'[<<t, 1>>].processed = FALSE
    BY <2>1, NewIsObject
  <2>3. ASSUME NEW o \in Objects PROVE Receipted(o)'
    <3>1. CASE o = <<t, 1>>
      BY <1>4, <2>1, <2>2, <3>1
    <3>2. CASE o # <<t, 1>>
      BY <1>3, <2>1, <3>2
    <3> QED
      BY <3>1, <3>2
  <2> QED
    BY <1>2, <2>1, <2>3
<1>8. ASSUME DownloadState \/ BlockReplaced \/ UNCHANGED vars
      PROVE  (\A o \in Objects : Receipted(o)') /\ Rows
  <2>1. UNCHANGED <<canon, fork, heap, pc, at, rewards, db>>
    BY <1>8 DEF DownloadState, BlockReplaced, vars, chain, cache, procs, transitions
  <2> QED
    BY <1>2, <1>3, <2>1
<1>9. CASE StartRewards
  <2>1. UNCHANGED <<canon, fork, heap, pc, at, db>> /\ rewards'.done = rewards.done
    BY <1>0, <1>9 DEF StartRewards, chain, cache, procs
  <2>2. Rows
    BY <2>1, RewardsKept DEF RewardRows
  <2> QED
    BY <1>3, <2>1, <2>2
<1>10. CASE CountRewards \/ ReplaceState
  <2>1. /\ heap' \in {heap, Counted(heap, state.gens), Counted(heap, gen)}
        /\ UNCHANGED <<canon, fork, pc, at, rewards, db>>
    BY <1>10 DEF CountRewards, ReplaceState, chain, cache, procs, transitions
  <2>2. \A o \in Objects :
          /\ heap'[o].block = heap[o].block /\ heap'[o].txs = heap[o].txs
          /\ heap'[o].fails = heap[o].fails /\ heap'[o].processed = heap[o].processed
    BY <1>0, <2>1, CountedKeeps
  <2> QED
    BY <1>2, <1>3, <2>1, <2>2
<1>11. ASSUME NEW s \in Slots, BlockReward(s) PROVE (\A o \in Objects : Receipted(o)') /\ Rows
  <2>0. PICK o \in Objects : o = <<s, rewards.gens[s]>> /\ o[1] = s
    <3>1. rewards.gens[s] \in Gens
      BY <1>11 DEF BlockReward, Shape
    <3> QED
      BY <3>1, Basics
  <2>1. PICK r \in RecoverBlockReceipts(o) :
          /\ heap' = [heap EXCEPT ![o] = r.obj]
          /\ rewards' = [rewards EXCEPT !.done = @ \union {RewardRow(s, r.obj)}]
          /\ db' = IF s = LastSlot
                   THEN PersistBlockRewards(db, rewards.done \union {RewardRow(s, r.obj)}) ELSE db
    BY <1>11, <2>0 DEF BlockReward
  <2>2. ~Active(s) /\ UNCHANGED <<canon, fork, pc, at>>
    BY <1>11 DEF BlockReward, chain, cache, procs
  <2>3. \A p \in Procs : pc[p] # "receipts" \/ at[p] # o
    BY <1>0, <2>0, <2>2 DEF Active, SlotOf
  <2> DEFINE b == canon[s]
  <2>4. /\ heap'[o] = r.obj /\ \A x \in Objects : x # o => heap'[x] = heap[x]
        /\ r.obj.block = heap[o].block /\ r.obj.processed = heap[o].processed
        /\ \/ /\ r.obj.txs = heap[o].txs /\ r.obj.fails = heap[o].fails
              /\ heap[o].txs # {} \/ Txs(heap[o].block, s) = {}
           \/ /\ r.obj.txs = heap[o].txs /\ r.obj.fails = heap[o].fails + 1
           \/ /\ r.obj.txs = GetBlockReceipts(heap[o].block, s)
              /\ r.obj.fails = heap[o].fails
    BY <2>0, <2>1, Recovered
  <2>5. heap[o].fails \in Nat
    BY <1>0 DEF IsHeap
  <2>6. ASSUME r.obj.block = b
        PROVE  /\ r.obj.txs \in {{}, Txs(b, s)}
               /\ r.obj.txs # Txs(b, s) => r.obj.fails >= 1
               /\ r.obj.txs # Txs(b, s) /\ r.obj.processed => r.obj.fails >= 2
    <3>1. /\ heap[o].txs \in {{}, Txs(b, s)}
          /\ heap[o].processed => heap[o].txs = Txs(b, s) \/ heap[o].fails >= 1
      BY <1>1, <2>0, <2>3, <2>4, <2>6 DEF Receipted
    <3>2. \/ r.obj.txs = Txs(b, s)
          \/ r.obj.txs = heap[o].txs /\ r.obj.fails = heap[o].fails + 1
      BY <2>4, <2>6, <3>1, ReceiptsOfChain
    <3> QED
      BY <2>4, <2>5, <3>1, <3>2
  <2>7. ASSUME NEW x \in Objects PROVE Receipted(x)'
    <3>1. CASE x = o
      <4>1. heap'[x].block = b =>
              /\ heap'[x].txs \in {{}, Txs(b, s)}
              /\ heap'[x].txs # Txs(b, s) => heap'[x].fails >= 1
        BY <2>4, <2>6, <3>1
      <4> QED
        BY <2>0, <2>2, <3>1, <4>1 DEF Receipted, Txs
    <3>2. CASE x # o
      BY <1>3, <2>2, <2>4, <3>2
    <3> QED
      BY <3>1, <3>2
  <2> DEFINE new == RewardRow(s, r.obj)
  <2>8. /\ new.slot = s /\ new.block = r.obj.block /\ new.fees = r.obj.txs /\ new.object = r.obj
    BY DEF RewardRow
  <2> HIDE DEF new
  <2>9. RewardRows' \subseteq RewardRows \union {new}
    <3>1. rewards'.done = rewards.done \union {new}
      BY <1>0, <2>1 DEF new
    <3>2. db'.rewards \subseteq db.rewards \union rewards'.done
      <4>1. CASE s = LastSlot
        BY <2>1, <3>1, <4>1 DEF PersistBlockRewards, Shape, IsDb, Tables, new
      <4>2. CASE s # LastSlot
        BY <2>1, <4>2
      <4> QED
        BY <4>1, <4>2
    <3> QED
      BY <3>1, <3>2 DEF RewardRows
  <2>10. Excused(new) /\ (fork = 1 => new.block \in {None, canon[new.slot]})
    BY <2>0, <2>4, <2>6, <2>8 DEF Excused, BeforeReorg
  <2>11. \A x \in RewardRows' : Excused(x) /\ (fork = 1 => x.block \in {None, canon[x.slot]})
    BY <2>9, <2>10 DEF ReceiptsKept
  <2>12. Rows
    BY <2>2, <2>11 DEF Excused, Txs
  <2> QED
    BY <2>7, <2>12
<1>12. CASE ReplaceBlock
  <2>0. PICK i \in Slots : i = reorg.i
    BY <1>12, ReplaceDoes
  <2>1. /\ reorg.step = "slot" /\ UNCHANGED <<canon, fork, rewards>>
        /\ heap'[<<i, 2>>] = NewObject(canon[i])
        /\ \A o \in Objects : o # <<i, 2>> => heap'[o] = heap[o]
        /\ \/ UNCHANGED <<pc, at>>
           \/ pc' = [pc EXCEPT ![0] = "block"] /\ at' = [at EXCEPT ![0] = <<i, 2>>]
        /\ db'.rewards = db.rewards
    BY <1>12, <2>0, ReplaceDoes
  <2>2. pc[0] = "idle"
    BY <2>1 DEF ProcsInOrder
  <2>3. \A p \in Procs : pc[p] = "receipts" => pc'[p] = pc[p] /\ at'[p] = at[p]
    BY <1>0, <2>1, <2>2
  <2>4. heap'[<<i, 2>>].txs = {} /\ heap'[<<i, 2>>].processed = FALSE
    BY <2>1, NewIsObject
  <2>5. ASSUME NEW o \in Objects PROVE Receipted(o)'
    <3>1. CASE o = <<i, 2>>
      BY <1>4, <2>1, <2>4, <3>1
    <3>2. CASE o # <<i, 2>>
      BY <1>3, <2>1, <2>3, <3>2
    <3> QED
      BY <3>1, <3>2
  <2> QED
    BY <1>2, <2>1, <2>5
<1>13. ASSUME NEW p \in Procs, WriteBlock(p) PROVE (\A o \in Objects : Receipted(o)') /\ Rows
  <2>0. PICK o \in Objects : o = <<SlotOf(p), gen[SlotOf(p)]>>
    BY <1>13, WriteBlockDoes
  <2>1. /\ pc[p] = "block" /\ db'.rewards = db.rewards
        /\ at' = [at EXCEPT ![p] = o] /\ pc' = [pc EXCEPT ![p] = "receipts"]
        /\ heap' = [heap EXCEPT ![o].processed = TRUE]
    BY <1>13, <2>0, WriteBlockDoes DEF Writes
  <2>2. UNCHANGED <<canon, fork, rewards>>
    BY <1>13 DEF WriteBlock, chain, transitions
  <2>3. /\ \A x \in Objects : x # o => heap'[x] = heap[x]
        /\ heap'[o].block = heap[o].block /\ heap'[o].txs = heap[o].txs
    BY <1>0, <2>1, SetProcessed
  <2>4. pc'[p] = "receipts" /\ at'[p] = o
    BY <1>0, <2>1
  <2>5. \A q \in Procs : pc[q] = "receipts" => pc'[q] = pc[q] /\ at'[q] = at[q]
    BY <1>0, <2>1
  <2>6. ASSUME NEW x \in Objects PROVE Receipted(x)'
    <3>1. CASE x = o
      BY <1>1, <2>2, <2>3, <2>4, <3>1 DEF Receipted, Txs
    <3>2. CASE x # o
      BY <1>3, <2>2, <2>3, <2>5, <3>2
    <3> QED
      BY <3>1, <3>2
  <2> QED
    BY <1>2, <2>1, <2>2, <2>6
<1>14. ASSUME NEW p \in Procs, NoReceipts(p) PROVE (\A o \in Objects : Receipted(o)') /\ Rows
  <2>0. PICK o \in Objects : o = at[p]
    BY <1>0
  <2>1. /\ pc' = [pc EXCEPT ![p] = "rest"] /\ heap' = [heap EXCEPT ![o].fails = @ + 1]
        /\ UNCHANGED <<canon, fork, at, rewards, db>>
    BY <1>14, <2>0, NoReceiptsDoes
  <2>2. /\ \A x \in Objects : x # o => heap'[x] = heap[x]
        /\ heap'[o].block = heap[o].block /\ heap'[o].txs = heap[o].txs
        /\ heap'[o].fails = heap[o].fails + 1
    BY <1>0, <2>1, AddFail
  <2>3. heap'[o].fails >= 1
    BY <1>0, <2>2 DEF IsHeap
  <2>4. \A q \in Procs : q # p => pc'[q] = pc[q] /\ at'[q] = at[q]
    BY <1>0, <2>1
  <2>5. ASSUME NEW x \in Objects PROVE Receipted(x)'
    <3>1. CASE x = o
      BY <1>1, <2>1, <2>2, <2>3, <3>1 DEF Receipted, Txs
    <3>2. CASE x # o
      BY <1>1, <2>0, <2>1, <2>2, <2>4, <3>2, ReceiptedKept
    <3> QED
      BY <3>1, <3>2
  <2> QED
    BY <1>2, <2>1, <2>5
<1>15. ASSUME NEW p \in Procs, ProcessTransactions(p)
       PROVE  (\A o \in Objects : Receipted(o)') /\ Rows
  <2>0. PICK o \in Objects : o = at[p]
    BY <1>0
  <2> DEFINE txs == GetBlockReceipts(heap[o].block, SlotOf(p))
  <2>1. /\ heap' = [heap EXCEPT ![o].txs = txs] /\ UNCHANGED <<canon, fork, at, rewards>>
        /\ pc' = [pc EXCEPT ![p] = "rest"] \/ pc' = [pc EXCEPT ![p] = "blobs"]
        /\ db'.rewards = db.rewards
    BY <1>15, <2>0, TransactionsDo DEF Writes
  <2>2. /\ \A x \in Objects : x # o => heap'[x] = heap[x]
        /\ heap'[o].block = heap[o].block /\ heap'[o].txs = txs
    BY <1>0, <2>1, SetTxs
  <2>3. \A q \in Procs : q # p => pc'[q] = pc[q] /\ at'[q] = at[q]
    BY <1>0, <2>1
  <2>4. heap[o].block = canon[o[1]] => txs = Txs(canon[o[1]], o[1])
    BY <2>0, ReceiptsOfChain DEF SlotOf
  <2>5. ASSUME NEW x \in Objects PROVE Receipted(x)'
    <3>1. CASE x = o
      BY <2>1, <2>2, <2>4, <3>1 DEF Receipted, Txs
    <3>2. CASE x # o
      BY <1>1, <2>0, <2>1, <2>2, <2>3, <3>2, ReceiptedKept
    <3> QED
      BY <3>1, <3>2
  <2> QED
    BY <1>2, <2>1, <2>5
<1>16. ASSUME NEW p \in Procs,
              FuluBlobs(p) \/ WriteRest(p) \/ BlobSidecars(p) \/ FuluCommitments(p)
       PROVE  (\A o \in Objects : Receipted(o)') /\ Rows
  <2>1. /\ pc[p] # "receipts" /\ \E x : pc' = [pc EXCEPT ![p] = x]
        /\ UNCHANGED <<canon, fork, heap, at, rewards>> /\ db'.rewards = db.rewards
    <3>1. CASE FuluBlobs(p)
      BY <3>1 DEF FuluBlobs, chain, transitions
    <3>2. CASE WriteRest(p)
      BY <3>2, WriteRestDoes DEF Writes
    <3>3. CASE BlobSidecars(p) \/ FuluCommitments(p)
      BY <3>3, SidecarsDo
    <3> QED
      BY <1>16, <3>1, <3>2, <3>3
  <2>2. \A q \in Procs : pc[q] = "receipts" => pc'[q] = pc[q] /\ at'[q] = at[q]
    BY <1>0, <2>1
  <2> QED
    BY <1>2, <1>3, <2>1, <2>2
<1> QED
  BY <1>5, <1>6, <1>7, <1>8, <1>9, <1>10, <1>11, <1>12, <1>13, <1>14, <1>15, <1>16
  DEF Next, Procs

LEMMA ReceiptsKeptInit == Init => ReceiptsKept
<1> SUFFICES ASSUME Init PROVE ReceiptsKept
  OBVIOUS
<1>1. \A o \in Objects : heap[o] = NewObject(None)
  BY DEF Init
<1>2. NewObject(None).txs = {} /\ NewObject(None).processed = FALSE
  BY NewIsObject
<1>3. rewards.done = {} /\ db.rewards = {}
  BY DEF Init
<1> QED
  BY <1>1, <1>2, <1>3 DEF ReceiptsKept, Receipted, RewardRows

LEMMA FeesInvAlways == Spec => [](Inv /\ ReceiptsKept)
<1>1. Init => Inv /\ ReceiptsKept
  BY InvInit, ReceiptsKeptInit
<1>2. Inv /\ ReceiptsKept /\ [Next]_vars => (Inv /\ ReceiptsKept)'
  BY InvStep, ReceiptsKeptStep DEF Inv
<1> QED
  BY <1>1, <1>2, PTL DEF Spec

\* The row of the rewards of a block of the chain has all its fees unless the
\* receipts failed when the fees were added up, and once before that if
\* ProcessBlock had the object.
THEOREM FeesAreRecovered == Spec => []FeesRecovered
<1>1. Inv /\ ReceiptsKept => FeesRecovered
  BY DEF ReceiptsKept, RewardRows, Excused, FeesRecovered
<1> QED
  BY <1>1, FeesInvAlways, PTL
=============================================================================
