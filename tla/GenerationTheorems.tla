------------------------- MODULE GenerationTheorems -------------------------
(* What Generation guarantees of a document's row, for every value of the   *)
(* constants: the row itself, that no work is lost when no consumer stalls, *)
(* and the lifecycle of a document that has a single run.                   *)
EXTENDS GenerationProofs

-----------------------------------------------------------------------------
(* The rows.  A commit writes a whole row, so what every snapshot satisfies *)
(* every row does: the invariant speaks of both.                            *)

\* The row says where document d is, and what put it there.
RowFine(d, row) ==
    /\ row.pdf <=> row.status = "DONE"
    /\ row.finished <=> Terminal(row)
    /\ row.started <=> row.queuedAt # None
    /\ row.status \in {"absent", "PENDING"} => ~row.started
    /\ row.status \in {"PROCESSING", "DONE"} => row.started
    /\ row.started => DocOf(row.queuedAt) = d /\ InLog(Main, row.queuedAt)

RowsFine == \A d \in Docs : RowFine(d, rows[d])

Reads(w) == worker[w].pc \in {"claiming", "rendering", "abandoning"}

SnapshotsFine == \A w \in Workers : Reads(w) => RowFine(DocOf(worker[w].req), worker[w].row)

\* A record reached a topic through every topic before it.
Chain ==
    \A t \in Topics, r \in Requests :
      DocOf(r) \in Docs /\ InLog(t, r) => \A u \in Main..t : InLog(u, r)

\* A busy worker's record is in its topic, and it abandons in the last only.
WorkerInLog ==
    \A w \in Workers : Busy(w) =>
      /\ InLog(worker[w].topic, worker[w].req)
      /\ worker[w].pc = "abandoning" => worker[w].topic = Dlq

RowsInv == RowsFine /\ SnapshotsFine /\ Chain /\ WorkerInLog /\ FailedOnlyWhenExhausted

LEMMA InLogKept ==
    ASSUME Core, LogGrows, DocsKept, NEW t \in Topics, NEW r \in Requests, DocOf(r) \in Docs,
           InLog(t, r)
    PROVE  InLog(t, r)'
<1> DEFINE p == PartOf(t, r)
<1>1. p \in Partitions /\ p' = p
  BY PartOfType DEF DocsKept, PartOf, DocOf
<1>2. PICK i \in 1..Len(log[t][p]) : log[t][p][i] = r
  BY DEF InLog
<1>3. i \in 1..Len(log'[t][p]) /\ log'[t][p][i] = r
  <2> HIDE DEF p
  <2>1. Len(log[t][p]) \in Nat /\ Len(log'[t][p]) \in Nat
    BY <1>1 DEF Core, TypeOK, LogGrows
  <2>2. Len(log[t][p]) <= Len(log'[t][p]) /\ log'[t][p][i] = log[t][p][i]
    BY <1>1, <1>2 DEF LogGrows
  <2> QED
    BY <1>2, <2>1, <2>2
<1> QED
  BY <1>1, <1>3 DEF InLog

LEMMA RowFineKept ==
    ASSUME Core, LogGrows, DocsKept, NEW d \in Docs, NEW row \in Row, RowFine(d, row)
    PROVE  RowFine(d, row)'
<1>1. row.started => row.queuedAt \in Requests
  BY DEF RowFine, Row
<1>2. row.started => DocOf(row.queuedAt)' = d /\ InLog(Main, row.queuedAt)'
  BY <1>1, InLogKept, TopicsFacts DEF RowFine, DocsKept
<1> QED
  BY <1>2 DEF RowFine, Terminal

\* The rows the worker writes are fine if the rows it read were.
LEMMA WrittenRowsFine ==
    ASSUME NEW d \in Docs, NEW row \in Row, RowFine(d, row)
    PROVE  /\ row.status = "PROCESSING" => RowFine(d, MarkAsDone(row))
           /\ row.status \in {"PENDING", "PROCESSING"} => RowFine(d, MarkAsFailed(row))
           /\ \A r \in Requests : row.status = "PENDING" /\ DocOf(r) = d /\ InLog(Main, r)
                => RowFine(d, MarkAsProcessing(row, r))
<1>1. ASSUME row.status = "PROCESSING"
      PROVE  RowFine(d, MarkAsDone(row))
  BY <1>1 DEF RowFine, MarkAsDone, Row, Terminal
<1>2. ASSUME row.status \in {"PENDING", "PROCESSING"}
      PROVE  RowFine(d, MarkAsFailed(row))
  BY <1>2 DEF RowFine, MarkAsFailed, Row, Terminal
<1>3. ASSUME NEW r \in Requests, row.status = "PENDING", DocOf(r) = d, InLog(Main, r)
      PROVE  RowFine(d, MarkAsProcessing(row, r))
  BY <1>3, NoneAssumption DEF RowFine, MarkAsProcessing, Row, Terminal
<1> QED
  BY <1>1, <1>2, <1>3

\* A request every topic has seen.
Exhausted(d) == \E r \in Requests : DocOf(r) = d /\ \A t \in Topics : InLog(t, r)

\* The rows are fine after a step that writes fine rows only.
LEMMA RowsKept ==
    ASSUME Core, RowsFine, FailedOnlyWhenExhausted, LogGrows, DocsKept,
           \A d \in Docs : \/ rows'[d] = rows[d]
                          \/ /\ rows'[d] \in Row
                             /\ RowFine(d, rows'[d])
                             /\ rows'[d].status = "FAILED" => Exhausted(d)
    PROVE  RowsFine' /\ FailedOnlyWhenExhausted'
<1>1. ASSUME NEW d \in Docs
      PROVE  RowFine(d, rows[d])'
  <2>1. rows'[d] \in Row /\ RowFine(d, rows'[d])
    BY DEF Core, TypeOK, RowsFine
  <2> DEFINE row == rows'[d]
  <2>2. \A x \in Row : RowFine(d, x) => RowFine(d, x)'
    BY RowFineKept
  <2> QED
    BY <2>1, <2>2 DEF RowFine, Terminal
<1>2. \A d \in Docs : Exhausted(d) => Exhausted(d)'
  BY InLogKept DEF Exhausted, DocsKept
<1>3. \A d \in Docs : rows'[d].status = "FAILED" => Exhausted(d)
  BY DEF FailedOnlyWhenExhausted, Exhausted
<1> QED
  BY <1>1, <1>2, <1>3 DEF RowsFine, FailedOnlyWhenExhausted, Exhausted

\* The workers' snapshots and records are fine after a step in which a worker
\* keeps what it holds or takes what is fine.
LEMMA SnapshotsKept ==
    ASSUME Core, Core', SnapshotsFine, WorkerInLog, LogGrows, DocsKept,
           \A w \in Workers : Busy(w)' =>
             \/ /\ Busy(w)
                /\ worker'[w].req = worker[w].req /\ worker'[w].topic = worker[w].topic
                /\ worker'[w].pc = "failed"
             \/ /\ Busy(w)
                /\ worker'[w].req = worker[w].req /\ worker'[w].topic = worker[w].topic
                /\ worker'[w].pc = worker[w].pc /\ worker'[w].row = worker[w].row
             \/ /\ worker'[w].req \in Requests /\ DocOf(worker'[w].req) \in Docs
                /\ InLog(worker'[w].topic, worker'[w].req)
                /\ worker'[w].pc = "abandoning" => worker'[w].topic = Dlq
                /\ Reads(w)' => RowFine(DocOf(worker'[w].req), worker'[w].row)
    PROVE  SnapshotsFine' /\ WorkerInLog'
<1> SUFFICES ASSUME NEW w \in Workers, Busy(w)'
             PROVE  /\ Reads(w)' => RowFine(DocOf(worker[w].req), worker[w].row)'
                    /\ InLog(worker[w].topic, worker[w].req)'
                    /\ worker'[w].pc = "abandoning" => worker'[w].topic = Dlq
  BY DEF SnapshotsFine, WorkerInLog, Reads, Busy
<1> DEFINE r == worker'[w].req
           t == worker'[w].topic
           row == worker'[w].row
<1>1. /\ r \in Requests /\ DocOf(r) \in Docs
      /\ worker'[w].pc = "abandoning" => t = Dlq
      /\ InLog(t, r)
      /\ Reads(w)' => RowFine(DocOf(r), row)
  BY DEF Core, WorkerOK, SnapshotsFine, WorkerInLog, Reads, Busy
<1>2. t \in Topics /\ row \in Row
  BY DEF Core, TypeOK, Worker
<1>3. \A d \in Docs, x \in Row : RowFine(d, x) => RowFine(d, x)'
  BY RowFineKept
<1>4. \A u \in Topics, q \in Requests : DocOf(q) \in Docs /\ InLog(u, q) => InLog(u, q)'
  BY InLogKept
<1>5. InLog(worker[w].topic, worker[w].req)'
  BY <1>1, <1>2, <1>4 DEF InLog, PartOf, DocOf
<1>6. req'[r].doc = DocOf(r)
  BY <1>1 DEF DocsKept, DocOf
<1>7. ASSUME Reads(w)'
      PROVE  RowFine(DocOf(worker[w].req), worker[w].row)'
  <2>1. RowFine(DocOf(r), row)
    BY <1>1, <1>7
  <2>2. \A d \in Docs, x \in Row :
          RowFine(d, x)' /\ d = req'[r].doc /\ x = row => RowFine(DocOf(worker[w].req), worker[w].row)'
    BY DEF RowFine, Terminal, DocOf, InLog, PartOf
  <2> QED
    BY <2>1, <2>2, <1>1, <1>2, <1>3, <1>6
<1> QED
  BY <1>1, <1>5, <1>7

\* A log that did not change holds no request it did not hold.
LEMMA InLogWas ==
    ASSUME Core, DocsKept, UNCHANGED log, NEW t \in Topics, NEW r \in Requests,
           DocOf(r)' \in Docs, InLog(t, r)'
    PROVE  DocOf(r) \in Docs /\ DocOf(r)' = DocOf(r) /\ InLog(t, r)
<1>1. PICK i \in 1..Len(log[t][PartOf(t, r)']) : log[t][PartOf(t, r)'][i] = r
  BY DEF InLog
<1>2. PartOf(t, r)' \in Partitions
  BY PartitionsAssumption DEF PartOf
<1>3. DocOf(r) \in Docs
  BY <1>1, <1>2 DEF Core, LogOK
<1> QED
  BY <1>1, <1>3 DEF DocsKept, InLog, PartOf

\* A log that was appended to holds one request more.
LEMMA InLogWasOrNew ==
    ASSUME Core, LogGrows, UNCHANGED req,
           NEW t \in Topics, NEW r \in Requests, DocOf(r) \in Docs, AppendTo(t, r),
           NEW v \in Topics, NEW s \in Requests, DocOf(s) \in Docs, InLog(v, s)'
    PROVE  InLog(v, s) \/ (v = t /\ s = r)
<1> SUFFICES ASSUME ~InLog(v, s)
             PROVE  v = t /\ s = r
  OBVIOUS
<1> DEFINE p == PartOf(v, s)
<1>1. p \in Partitions /\ p' = p
  BY PartOfType DEF PartOf, DocOf
<1>2. PICK i \in 1..Len(log'[v][p]) : log'[v][p][i] = s
  BY <1>1 DEF InLog
<1> HIDE DEF p
<1>3. i \notin 1..Len(log[v][p])
  BY <1>1, <1>2 DEF InLog, p, LogGrows
<1>4. Len(log'[v][p]) \in Nat /\ Len(log[v][p]) \in Nat
  BY <1>1 DEF Core, TypeOK, LogGrows
<1>5. v = t /\ p = PartOf(t, r)
  BY <1>1, <1>2, <1>3, AppendFacts DEF Core, TypeOK
<1>6. i = Len(log[v][p]) + 1
  BY <1>2, <1>3, <1>4, <1>5, AppendFacts DEF Core, TypeOK
<1>7. log'[v][p][i] = r
  BY <1>5, <1>6, AppendFacts DEF Core, TypeOK
<1> QED
  BY <1>2, <1>5, <1>7

LEMMA ChainKept ==
    ASSUME Core, Chain, LogGrows, DocsKept, UNCHANGED log
    PROVE  Chain'
<1> SUFFICES ASSUME NEW t \in Topics, NEW r \in Requests, DocOf(r)' \in Docs, InLog(t, r)',
                    NEW u \in Main..t
             PROVE  InLog(u, r)'
  BY DEF Chain
<1>1. DocOf(r) \in Docs /\ InLog(t, r)
  BY InLogWas
<1>2. u \in Topics
  BY AttemptsAssumption DEF Topics, Main, Dlq
<1>3. InLog(u, r)
  BY <1>1 DEF Chain
<1> QED
  BY <1>1, <1>2, <1>3, InLogKept

LEMMA ChainAppended ==
    ASSUME Core, Chain, LogGrows, UNCHANGED req,
           NEW t \in Topics, NEW r \in Requests, DocOf(r) \in Docs, AppendTo(t, r),
           \A u \in Main..t : u # t => InLog(u, r)
    PROVE  Chain'
<1>0. DocsKept
  BY SameReqKeepsDocs
<1> SUFFICES ASSUME NEW v \in Topics, NEW s \in Requests, DocOf(s) \in Docs, InLog(v, s)',
                    NEW u \in Main..v
             PROVE  InLog(u, s)'
  BY DEF Chain, DocOf
<1>1. u \in Topics
  BY AttemptsAssumption DEF Topics, Main, Dlq
<1>2. CASE InLog(v, s)
  BY <1>0, <1>1, <1>2, InLogKept DEF Chain
<1>3. CASE v = t /\ s = r
  <2>1. CASE u = t
    BY <1>3, <2>1
  <2>2. CASE u # t
    BY <1>3, <2>2, <1>0, <1>1, InLogKept
  <2> QED
    BY <2>1, <2>2
<1> QED
  BY <1>2, <1>3, InLogWasOrNew

-----------------------------------------------------------------------------
(* Each step keeps the rows' invariant.                                     *)

LEMMA RowsInit ==
    ASSUME Init
    PROVE  RowsInv
<1>1. \A t \in Topics, p \in Partitions : Len(log[t][p]) = 0
  BY DEF Init
<1>2. \A w \in Workers : ~Busy(w) /\ ~Reads(w)
  BY DEF Init, Idle, Busy, Reads
<1>3. RowsFine /\ FailedOnlyWhenExhausted
  BY DEF Init, RowsFine, RowFine, AbsentRow, Terminal, FailedOnlyWhenExhausted
<1>4. Chain
  BY <1>1, PartOfType DEF Chain, InLog
<1> QED
  BY <1>2, <1>3, <1>4 DEF RowsInv, SnapshotsFine, WorkerInLog

\* A step of the request path.
LEMMA RequestRows ==
    ASSUME Core, Core', RowsInv, LogGrows, DocsKept, RequestStep
    PROVE  RowsInv'
<1> USE DEF RowsInv
<1>1. UNCHANGED worker
  BY DEF RequestStep, Create, Generate, BrokerAppends, Accept, NotQueued
<1>2. SnapshotsFine' /\ WorkerInLog'
  BY <1>1, SnapshotsKept DEF Busy
<1>3. RowsFine' /\ FailedOnlyWhenExhausted'
  <2>1. \A d \in Docs : rows'[d] = rows[d] \/ rows'[d] = CreatedRow
    BY DEF RequestStep, Create, Generate, BrokerAppends, Accept, NotQueued, Core, TypeOK
  <2>2. \A d \in Docs : RowFine(d, CreatedRow)
    BY DEF RowFine, CreatedRow, AbsentRow, Terminal
  <2>3. CreatedRow.status # "FAILED"
    BY DEF CreatedRow, AbsentRow
  <2> QED
    BY <2>1, <2>2, <2>3, RowTypes, RowsKept
<1>4. Chain'
  <2>1. CASE UNCHANGED log
    BY <2>1, ChainKept
  <2>2. ASSUME NEW r \in Requests, BrokerAppends(r)
        PROVE  Chain'
    BY <2>2, MadeHasDoc, TopicsFacts, ChainAppended, AttemptsAssumption
    DEF BrokerAppends, Main
  <2> QED
    BY <2>1, <2>2 DEF RequestStep, Create, Generate, Accept, NotQueued
<1> QED
  BY <1>2, <1>3, <1>4

\* A record is taken or skipped, or a partition loses its consumer.
LEMMA DeliveryRows ==
    ASSUME Core, Core', RowsInv, LogGrows, DocsKept,
           NEW t \in Topics, NEW p \in Partitions, Poll(t, p) \/ GroupStep(t, p)
    PROVE  RowsInv'
<1> USE DEF RowsInv
<1>1. UNCHANGED <<rows, log>>
  BY DEF Poll, GroupStep, Skip, Deliver, ReadFails, Crash, Pause
<1>2. Chain' /\ RowsFine' /\ FailedOnlyWhenExhausted'
  BY <1>1, ChainKept, RowsKept
<1>3. ASSUME NEW w \in Workers, Skip(w, t, p)
      PROVE  SnapshotsFine' /\ WorkerInLog'
  BY <1>3, SnapshotsKept DEF Skip, Busy
<1>4. ASSUME NEW w \in Workers, Deliver(w, t, p) \/ ReadFails(w, t, p)
      PROVE  SnapshotsFine' /\ WorkerInLog'
  <2> DEFINE r == log[t][p][pos[t][p] + 1]
  <2>1. /\ pos[t][p] < Len(log[t][p]) /\ r \in Requests /\ DocOf(r) \in Docs
        /\ PartOf(t, r) = p
    BY <1>4, NextRecord DEF Deliver, ReadFails, Deliverable
  <2>2. InLog(t, r)
    <3>1. pos[t][p] + 1 \in 1..Len(log[t][p])
      BY <2>1 DEF Core, TypeOK
    <3> QED
      BY <3>1, <2>1 DEF InLog
  <2>3. /\ worker'[w].req = r /\ worker'[w].topic = t
        /\ worker'[w].pc = "failed" \/ (/\ worker'[w].pc = PcAfterRead(t, rows[DocOf(r)])
                                        /\ worker'[w].row = rows[DocOf(r)])
        /\ \A v \in Workers \ {w} : worker'[v] = worker[v]
    BY <1>4 DEF Deliver, ReadFails, Core, TypeOK
  <2>4. /\ worker'[w].pc = "abandoning" => t = Dlq
        /\ Reads(w)' => worker'[w].row = rows[DocOf(r)]
    BY <2>3 DEF PcAfterRead, Reads
  <2>5. RowFine(DocOf(r), rows[DocOf(r)])
    BY <2>1 DEF RowsFine
  <2>6. \A v \in Workers : Busy(v)' =>
          \/ /\ Busy(v)
             /\ worker'[v].req = worker[v].req /\ worker'[v].topic = worker[v].topic
             /\ worker'[v].pc = worker[v].pc /\ worker'[v].row = worker[v].row
          \/ /\ worker'[v].req \in Requests /\ DocOf(worker'[v].req) \in Docs
             /\ InLog(worker'[v].topic, worker'[v].req)
             /\ worker'[v].pc = "abandoning" => worker'[v].topic = Dlq
             /\ Reads(v)' => RowFine(DocOf(worker'[v].req), worker'[v].row)
    BY <2>1, <2>2, <2>3, <2>4, <2>5 DEF Busy
  <2> QED
    BY <2>6, SnapshotsKept
<1>5. ASSUME GroupStep(t, p)
      PROVE  SnapshotsFine' /\ WorkerInLog'
  <2>1. \A w \in Workers : worker'[w] \in {worker[w], Idle, [worker[w] EXCEPT !.zombie = TRUE]}
    BY <1>5 DEF GroupStep, Crash, Pause
  <2>2. \A w \in Workers : Busy(w)' =>
          /\ Busy(w)
          /\ worker'[w].req = worker[w].req /\ worker'[w].topic = worker[w].topic
          /\ worker'[w].pc = worker[w].pc /\ worker'[w].row = worker[w].row
    <3> SUFFICES ASSUME NEW w \in Workers, Busy(w)', worker'[w] = [worker[w] EXCEPT !.zombie = TRUE]
                 PROVE  /\ Busy(w)
                        /\ worker'[w].req = worker[w].req /\ worker'[w].topic = worker[w].topic
                        /\ worker'[w].pc = worker[w].pc /\ worker'[w].row = worker[w].row
      BY <2>1 DEF Busy, Idle
    <3>1. worker[w] \in Worker
      BY DEF Core, TypeOK
    <3> QED
      BY <3>1 DEF Worker, Busy
  <2> QED
    BY <2>2, SnapshotsKept
<1> QED
  BY <1>2, <1>3, <1>4, <1>5 DEF Poll

\* What a busy worker holds, in one place.
LEMMA BusyFacts ==
    ASSUME Core, RowsInv, NEW w \in Workers, Busy(w)
    PROVE  /\ worker[w] \in Worker /\ worker[w].topic \in Topics /\ worker[w].row \in Row
           /\ worker[w].req \in Requests /\ DocOf(worker[w].req) \in Docs
           /\ \A u \in Main..worker[w].topic : InLog(u, worker[w].req)
           /\ InLog(Main, worker[w].req)
<1>1. /\ worker[w] \in Worker /\ worker[w].topic \in Topics /\ worker[w].row \in Row
      /\ worker[w].req \in Requests /\ DocOf(worker[w].req) \in Docs
  BY DEF Core, TypeOK, WorkerOK, Worker
<1>2. \A u \in Main..worker[w].topic : InLog(u, worker[w].req)
  BY <1>1 DEF RowsInv, Chain, WorkerInLog
<1>3. Main \in Main..worker[w].topic
  BY <1>1, AttemptsAssumption DEF Topics, Main, Dlq
<1> QED
  BY <1>1, <1>2, <1>3

\* The commits of a worker: what they write is fine.
LEMMA CommitRows ==
    ASSUME Core, RowsInv, LogGrows, DocsKept,
           NEW w \in Workers, Claim(w) \/ Store(w) \/ Abandon(w)
    PROVE  RowsFine' /\ FailedOnlyWhenExhausted'
<1> DEFINE r == worker[w].req
           d == DocOf(r)
           row == worker[w].row
<1> USE DEF RowsInv
<1>1. Busy(w) /\ Reads(w)
  BY DEF Claim, Store, Abandon, Busy, Reads
<1>2. /\ r \in Requests /\ d \in Docs /\ row \in Row
      /\ RowFine(d, row) /\ InLog(Main, r)
      /\ \A u \in Main..worker[w].topic : InLog(u, r)
  BY <1>1, BusyFacts DEF SnapshotsFine
<1>3. ASSUME NEW new \in Row, Save(r, new), RowFine(d, new), new.status = "FAILED" => Exhausted(d)
      PROVE  RowsFine' /\ FailedOnlyWhenExhausted'
  <2>1. rows'[d] = new /\ \A e \in Docs \ {d} : rows'[e] = rows[e]
    BY <1>2, <1>3 DEF Save, Core, TypeOK
  <2> HIDE DEF d
  <2>2. \A e \in Docs : \/ rows'[e] = rows[e]
                       \/ /\ rows'[e] \in Row
                          /\ RowFine(e, rows'[e])
                          /\ rows'[e].status = "FAILED" => Exhausted(e)
    BY <2>1, <1>3
  <2> QED
    BY <2>2, RowsKept
<1>4. ASSUME Claim(w)
      PROVE  RowsFine' /\ FailedOnlyWhenExhausted'
  <2>1. Save(r, MarkAsProcessing(row, r)) /\ row.status = "PENDING"
    BY <1>1, <1>4 DEF Claim, Core, WorkerOK
  <2>2. RowFine(d, MarkAsProcessing(row, r)) /\ MarkAsProcessing(row, r) \in Row
    BY <1>2, <2>1, WrittenRowsFine, RowTypes
  <2>3. MarkAsProcessing(row, r).status # "FAILED"
    BY <1>2 DEF MarkAsProcessing, Row
  <2> QED
    BY <1>3, <2>1, <2>2, <2>3
<1>5. ASSUME Store(w)
      PROVE  RowsFine' /\ FailedOnlyWhenExhausted'
  <2>1. Save(r, MarkAsDone(row)) /\ row.status = "PROCESSING"
    BY <1>1, <1>5 DEF Store, Core, WorkerOK
  <2>2. RowFine(d, MarkAsDone(row)) /\ MarkAsDone(row) \in Row
    BY <1>2, <2>1, WrittenRowsFine, RowTypes
  <2>3. MarkAsDone(row).status # "FAILED"
    BY <1>2 DEF MarkAsDone, Row
  <2> QED
    BY <1>3, <2>1, <2>2, <2>3
<1>6. ASSUME Abandon(w)
      PROVE  RowsFine' /\ FailedOnlyWhenExhausted'
  <2>1. Save(r, MarkAsFailed(row)) /\ row.status \in {"PENDING", "PROCESSING"}
    BY <1>1, <1>6 DEF Abandon, Core, WorkerOK
  <2>2. RowFine(d, MarkAsFailed(row)) /\ MarkAsFailed(row) \in Row
    BY <1>2, <2>1, WrittenRowsFine, RowTypes
  <2>3. Exhausted(d)
    <3>1. worker[w].topic = Dlq
      BY <1>1, <1>6 DEF Abandon, WorkerInLog
    <3> QED
      BY <1>2, <3>1 DEF Exhausted, Topics
  <2> QED
    BY <1>3, <2>1, <2>2, <2>3
<1> QED
  BY <1>4, <1>5, <1>6

\* A failed record joins the next topic.
LEMMA RouteChain ==
    ASSUME Core, RowsInv, LogGrows, UNCHANGED req, NEW w \in Workers, Busy(w),
           AppendTo(NextTopic(worker[w].topic), worker[w].req)
    PROVE  Chain'
<1> DEFINE t == worker[w].topic
<1>1. /\ t \in Topics /\ worker[w].req \in Requests /\ DocOf(worker[w].req) \in Docs
      /\ \A u \in Main..t : InLog(u, worker[w].req)
      /\ NextTopic(t) \in Topics
  BY BusyFacts, TopicsFacts
<1>2. \A u \in Main..NextTopic(t) : u # NextTopic(t) => u \in Main..t
  BY <1>1, AttemptsAssumption DEF NextTopic, Topics, Main, Dlq
<1> QED
  BY <1>1, <1>2, ChainAppended DEF RowsInv

LEMMA WorkRows ==
    ASSUME Core, Core', RowsInv, LogGrows, DocsKept, NEW w \in Workers, Work(w) \/ Die(w)
    PROVE  RowsInv'
<1> USE DEF RowsInv
<1>1. RowsFine' /\ FailedOnlyWhenExhausted'
  <2>1. CASE Claim(w) \/ Store(w) \/ Abandon(w)
    BY <2>1, CommitRows
  <2>2. CASE UNCHANGED rows
    BY <2>2, RowsKept
  <2> QED
    BY <2>1, <2>2 DEF Work, AttemptFails, Route, RouteFails, Die
<1>2. Chain'
  <2>1. CASE UNCHANGED log
    BY <2>1, ChainKept
  <2>2. CASE /\ Route(w) \/ RouteFails(w)
             /\ AppendTo(NextTopic(worker[w].topic), worker[w].req)
    BY <2>2, RouteChain DEF Route, RouteFails, Busy
  <2> QED
    BY <2>1, <2>2 DEF Work, Claim, Store, Abandon, AttemptFails, Route, RouteFails, Die
<1>3. SnapshotsFine' /\ WorkerInLog'
  <2>1. worker \in [Workers -> Worker]
    BY DEF Core, TypeOK
  <2>2. CASE worker' = [worker EXCEPT ![w] = Idle]
    BY <2>1, <2>2, SnapshotsKept DEF Busy, Idle
  <2>3. CASE AttemptFails(w)
    BY <2>1, <2>3, SnapshotsKept DEF AttemptFails, GoOn, Busy
  <2>4. CASE Claim(w)
    <3> DEFINE r == worker[w].req
               row == worker[w].row
               new == MarkAsProcessing(row, r)
    <3>1. Busy(w) /\ Reads(w) /\ row.status = "PENDING"
      BY <2>4 DEF Claim, Busy, Reads, Core, WorkerOK
    <3>2. /\ r \in Requests /\ DocOf(r) \in Docs /\ row \in Row
          /\ RowFine(DocOf(r), row) /\ InLog(Main, r) /\ InLog(worker[w].topic, r)
      BY <3>1, BusyFacts DEF SnapshotsFine, WorkerInLog
    <3>3. RowFine(DocOf(r), new)
      BY <3>1, <3>2, WrittenRowsFine
    <3> HIDE DEF new
    <3>4. /\ worker'[w].req = r /\ worker'[w].topic = worker[w].topic
          /\ worker'[w].pc = "rendering" /\ worker'[w].row = new
          /\ \A v \in Workers \ {w} : worker'[v] = worker[v]
      BY <2>1, <2>4 DEF Claim, GoOn, new
    <3>5. \A v \in Workers : Busy(v)' =>
            \/ /\ Busy(v)
               /\ worker'[v].req = worker[v].req /\ worker'[v].topic = worker[v].topic
               /\ worker'[v].pc = worker[v].pc /\ worker'[v].row = worker[v].row
            \/ /\ worker'[v].req \in Requests /\ DocOf(worker'[v].req) \in Docs
               /\ InLog(worker'[v].topic, worker'[v].req)
               /\ worker'[v].pc = "abandoning" => worker'[v].topic = Dlq
               /\ Reads(v)' => RowFine(DocOf(worker'[v].req), worker'[v].row)
      BY <3>2, <3>3, <3>4 DEF Busy
    <3> QED
      BY <3>5, SnapshotsKept
  <2> QED
    BY <2>2, <2>3, <2>4 DEF Work, Store, Abandon, Route, RouteFails, Die, Finish
<1> QED
  BY <1>1, <1>2, <1>3

LEMMA RowsStep ==
    ASSUME Core, RowsInv, [Next]_vars
    PROVE  RowsInv'
<1>1. Core' /\ LogGrows /\ DocsKept
  BY CoreStep, StepGrows
<1>2. CASE UNCHANGED vars
  <2> USE DEF RowsInv
  <2>1. UNCHANGED <<rows, log, worker>>
    BY <1>2 DEF vars
  <2>2. SnapshotsFine' /\ WorkerInLog'
    BY <1>1, <2>1, SnapshotsKept DEF Busy
  <2> QED
    BY <1>1, <2>1, <2>2, RowsKept, ChainKept
<1>3. CASE Next
  BY <1>1, <1>3, RequestRows, DeliveryRows, WorkRows DEF Next
<1> QED
  BY <1>2, <1>3

LEMMA RowsInvariant == Spec => []RowsInv
<1>1. Init => RowsInv
  BY RowsInit
<1>2. Core /\ RowsInv /\ [Next]_vars => RowsInv'
  BY RowsStep
<1> QED
  BY <1>1, <1>2, CoreInvariant, PTL DEF Spec

\* The content a document serves and its status agree, whatever overwrote what.
THEOREM ServedIffDone == Spec => []PdfServedIffDone
<1>1. RowsInv => PdfServedIffDone
  BY DEF RowsInv, RowsFine, RowFine, PdfServedIffDone, PdfServed
<1> QED
  BY <1>1, RowsInvariant, PTL

\* A row's stamps tell where the document is and which request put it there.
THEOREM StampsTrue == Spec => []StampsTellTheRun
<1>1. RowsInv => StampsTellTheRun
  BY DEF RowsInv, RowsFine, RowFine, StampsTellTheRun
<1> QED
  BY <1>1, RowsInvariant, PTL

\* FAILED means that some request failed every attempt the topics give it.
THEOREM FailedMeansExhausted == Spec => []FailedOnlyWhenExhausted
<1>1. RowsInv => FailedOnlyWhenExhausted
  BY DEF RowsInv
<1> QED
  BY <1>1, RowsInvariant, PTL

-----------------------------------------------------------------------------
(* No work is lost while no consumer stalls.                                *)

\* Without stalls every busy worker is the consumer of its partition.
NoZombies == \A w \in Workers : ~worker[w].zombie

LEMMA NoZombiesStep ==
    ASSUME Core, NoZombies, ~CanPause \/ faults' = 0, [Next]_vars
    PROVE  NoZombies'
<1>1. worker \in [Workers -> Worker]
  BY DEF Core, TypeOK
<1>2. ASSUME NEW w \in Workers, Work(w) \/ Die(w)
      PROVE  NoZombies'
  BY <1>1, <1>2
  DEF NoZombies, Work, Claim, Store, Abandon, AttemptFails, Route, RouteFails, Die, GoOn, Finish, Idle
<1>3. ASSUME NEW t \in Topics, NEW p \in Partitions, Poll(t, p) \/ GroupStep(t, p)
      PROVE  NoZombies'
  <2>1. ASSUME NEW w \in Workers, Skip(w, t, p) \/ Deliver(w, t, p) \/ ReadFails(w, t, p)
        PROVE  NoZombies'
    <3>1. CASE UNCHANGED worker
      BY <3>1 DEF NoZombies
    <3>2. ASSUME NEW a, worker' = [worker EXCEPT ![w] = a], ~a.zombie
          PROVE  NoZombies'
      BY <1>1, <3>2 DEF NoZombies
    <3>3. CASE Deliver(w, t, p)
      <4> DEFINE r == log[t][p][pos[t][p] + 1]
                 a == [pc |-> PcAfterRead(t, rows[DocOf(r)]), topic |-> t, req |-> r,
                       row |-> rows[DocOf(r)], zombie |-> FALSE]
      <4>1. worker' = [worker EXCEPT ![w] = a]
        BY <3>3 DEF Deliver
      <4>2. ~a.zombie
        OBVIOUS
      <4> QED
        BY <3>2, <4>1, <4>2
    <3>4. CASE ReadFails(w, t, p)
      <4> DEFINE a == [pc |-> "failed", topic |-> t, req |-> log[t][p][pos[t][p] + 1],
                       row |-> AbsentRow, zombie |-> FALSE]
      <4>1. worker' = [worker EXCEPT ![w] = a]
        BY <3>4 DEF ReadFails
      <4>2. ~a.zombie
        OBVIOUS
      <4> QED
        BY <3>2, <4>1, <4>2
    <3> QED
      BY <2>1, <3>1, <3>3, <3>4 DEF Skip
  <2>2. CASE Crash(t, p)
    BY <2>2 DEF NoZombies, Crash, Idle
  <2>3. CASE Pause(t, p)
    BY <2>3 DEF Pause, Fault, Core, TypeOK
  <2> QED
    BY <1>3, <2>1, <2>2, <2>3 DEF Poll, GroupStep
<1>4. CASE UNCHANGED worker
  BY <1>4 DEF NoZombies
<1> QED
  BY <1>2, <1>3, <1>4
  DEF Next, RequestStep, Create, Generate, BrokerAppends, Accept, NotQueued, vars

\* Record i of topic t is one for d, still ahead of its consumer.
Ahead(d, t, i) ==
    LET p == PartitionOf[t][d]
    IN  i \in (pos[t][p] + 1)..Len(log[t][p]) /\ DocOf(log[t][p][i]) = d

\* A record still ahead stays there until its consumer is done with it.
LEMMA AheadKept ==
    ASSUME Core, LogGrows, DocsKept, pos' \in [Topics -> [Partitions -> Nat]],
           NEW d \in Docs, NEW t \in Topics, NEW i \in Nat, Ahead(d, t, i),
           pos'[t][PartitionOf[t][d]] < i
    PROVE  Outstanding(d)'
<1> DEFINE p == PartitionOf[t][d]
<1>1. p \in Partitions
  BY PartitionsAssumption
<1>2. /\ pos[t][p] \in Nat /\ pos'[t][p] \in Nat
      /\ Len(log[t][p]) \in Nat /\ Len(log'[t][p]) \in Nat
  BY <1>1 DEF Core, TypeOK, LogGrows
<1>3. i \in 1..Len(log[t][p]) /\ DocOf(log[t][p][i]) = d
  BY <1>2 DEF Ahead
<1>4. Len(log[t][p]) <= Len(log'[t][p]) /\ log'[t][p][i] = log[t][p][i]
  BY <1>1, <1>3 DEF LogGrows
<1>5. log[t][p][i] \in Requests
  BY <1>1, <1>3 DEF Core, TypeOK
<1>6. req'[log'[t][p][i]].doc = d
  BY <1>3, <1>4, <1>5 DEF DocsKept, DocOf
<1>7. i \in (pos'[t][p] + 1)..Len(log'[t][p])
  BY <1>2, <1>3, <1>4
<1> QED
  BY <1>6, <1>7 DEF Outstanding, DocOf

LEMMA OutstandingIsAhead ==
    ASSUME Core, NEW d \in Docs, Outstanding(d)
    PROVE  \E t \in Topics, i \in Nat : Ahead(d, t, i)
<1>1. PICK t \in Topics : \E i \in (pos[t][PartitionOf[t][d]] + 1)..Len(log[t][PartitionOf[t][d]]) :
                          DocOf(log[t][PartitionOf[t][d]][i]) = d
  BY DEF Outstanding
<1>2. PartitionOf[t][d] \in Partitions
  BY PartitionsAssumption
<1>3. PICK i \in (pos[t][PartitionOf[t][d]] + 1)..Len(log[t][PartitionOf[t][d]]) :
           DocOf(log[t][PartitionOf[t][d]][i]) = d
  BY <1>1
<1>4. i \in Nat
  BY <1>2, <1>3 DEF Core, TypeOK
<1> QED
  BY <1>3, <1>4 DEF Ahead

\* No consumer moved on: what was outstanding still is.
LEMMA OutstandingKept ==
    ASSUME Core, LogGrows, DocsKept, pos' \in [Topics -> [Partitions -> Nat]],
           \A t \in Topics, p \in Partitions : pos'[t][p] <= pos[t][p],
           NEW d \in Docs, Outstanding(d)
    PROVE  Outstanding(d)'
<1>1. PICK t \in Topics, i \in Nat : Ahead(d, t, i)
  BY OutstandingIsAhead
<1>2. PartitionOf[t][d] \in Partitions
  BY PartitionsAssumption
<1>3. pos'[t][PartitionOf[t][d]] < i
  BY <1>1, <1>2 DEF Ahead, Core, TypeOK
<1> QED
  BY <1>1, <1>3, AheadKept

\* One consumer moved past one record: what was outstanding still is, but for
\* the document of that record.
LEMMA OutstandingPast ==
    ASSUME Core, LogGrows, DocsKept, NEW t \in Topics, NEW p \in Partitions,
           pos[t][p] < Len(log[t][p]), pos' = [pos EXCEPT ![t][p] = @ + 1],
           NEW d \in Docs, d # DocOf(log[t][p][pos[t][p] + 1]), Outstanding(d)
    PROVE  Outstanding(d)'
<1>1. PICK u \in Topics, i \in Nat : Ahead(d, u, i)
  BY OutstandingIsAhead
<1> DEFINE q == PartitionOf[u][d]
<1>2. q \in Partitions
  BY PartitionsAssumption
<1>3. pos' \in [Topics -> [Partitions -> Nat]]
  BY DEF Core, TypeOK
<1>4. pos[u][q] \in Nat /\ pos[u][q] < i
  BY <1>1, <1>2 DEF Ahead, Core, TypeOK
<1>5. pos'[u][q] < i
  <2>1. CASE u = t /\ q = p
    <3>1. i # pos[t][p] + 1
      BY <1>1, <2>1 DEF Ahead
    <3> QED
      BY <1>2, <1>4, <2>1, <3>1 DEF Core, TypeOK
  <2>2. CASE ~(u = t /\ q = p)
    BY <1>2, <1>4, <2>2 DEF Core, TypeOK
  <2> QED
    BY <2>1, <2>2
<1> QED
  BY <1>1, <1>3, <1>5, AheadKept

\* The record at the end of a partition is ahead of its consumer.
LEMMA AppendedOutstanding ==
    ASSUME Core, LogGrows, UNCHANGED req, NEW t \in Topics, NEW r \in Requests,
           NEW d \in Docs, d = DocOf(r), AppendTo(t, r), pos' \in [Topics -> [Partitions -> Nat]],
           pos'[t][PartOf(t, r)] <= Len(log[t][PartOf(t, r)])
    PROVE  Outstanding(d)'
<1> DEFINE p == PartOf(t, r)
           i == Len(log[t][p]) + 1
<1>1. p \in Partitions
  BY PartOfType
<1>2. Len(log'[t][p]) = i /\ log'[t][p][i] = r
  BY AppendFacts DEF Core, TypeOK
<1>3. Len(log[t][p]) \in Nat /\ pos'[t][p] \in Nat
  BY <1>1 DEF Core, TypeOK
<1>4. i \in (pos'[t][p] + 1)..Len(log'[t][p])
  BY <1>2, <1>3
<1>5. p = PartitionOf[t][d]
  BY DEF PartOf
<1> HIDE DEF p, i
<1> QED
  BY <1>2, <1>4, <1>5 DEF Outstanding, DocOf

\* The record of a busy worker is still ahead of its consumer.
LEMMA BusyOutstanding ==
    ASSUME Core, NoZombies, NEW w \in Workers, Busy(w)
    PROVE  Outstanding(DocOf(worker[w].req))
<1> DEFINE t == worker[w].topic
           r == worker[w].req
           p == PartOf(t, r)
           i == pos[t][p] + 1
<1>1. t \in Topics /\ r \in Requests /\ DocOf(r) \in Docs
  BY DEF Core, TypeOK, WorkerOK, Worker
<1>2. p \in Partitions /\ p = PartitionOf[t][DocOf(r)]
  BY <1>1, PartOfType DEF PartOf
<1>3. Owns(w, t, p)
  BY DEF NoZombies, Owns
<1>4. pos[t][p] < Len(log[t][p]) /\ log[t][p][i] = r
  BY <1>1, <1>2, <1>3 DEF Core, HoldsRecord
<1>5. pos[t][p] \in Nat /\ Len(log[t][p]) \in Nat
  BY <1>1, <1>2 DEF Core, TypeOK
<1>6. i \in (pos[t][p] + 1)..Len(log[t][p])
  BY <1>4, <1>5
<1> HIDE DEF p, i
<1> QED
  BY <1>1, <1>2, <1>4, <1>6 DEF Outstanding

LEMMA QueuedWas ==
    ASSUME Core, DocsKept, UNCHANGED log, NEW d \in Docs, Queued(d)'
    PROVE  Queued(d)
<1>1. PICK r \in Requests : DocOf(r)' = d /\ InLog(Main, r)'
  BY DEF Queued
<1> QED
  BY <1>1, InLogWas, TopicsFacts DEF Queued

LEMMA QueuedWasOrNew ==
    ASSUME Core, LogGrows, UNCHANGED req, NEW t \in Topics, NEW r \in Requests,
           DocOf(r) \in Docs, AppendTo(t, r), NEW d \in Docs, d # DocOf(r), Queued(d)'
    PROVE  Queued(d)
<1>1. PICK s \in Requests : DocOf(s)' = d /\ InLog(Main, s)'
  BY DEF Queued
<1>2. DocOf(s) = d /\ s # r
  BY <1>1 DEF DocOf
<1>3. InLog(Main, s)
  BY <1>1, <1>2, InLogWasOrNew, TopicsFacts
<1> QED
  BY <1>2, <1>3 DEF Queued

\* No record was written and no consumer moved on.  A row may have changed, but
\* for one that is finished only if a record is ahead for it.
LEMMA StillUnlost ==
    ASSUME Core, LogGrows, DocsKept, UnfinishedIsOutstanding, UNCHANGED log,
           pos' \in [Topics -> [Partitions -> Nat]],
           \A t \in Topics, p \in Partitions : pos'[t][p] <= pos[t][p],
           \A d \in Docs : Terminal(rows[d]) => Terminal(rows'[d]) \/ Outstanding(d)
    PROVE  UnfinishedIsOutstanding'
<1> SUFFICES ASSUME NEW d \in Docs, Queued(d)', ~Terminal(rows'[d])
             PROVE  Outstanding(d)'
  BY DEF UnfinishedIsOutstanding
<1>1. Outstanding(d)
  BY QueuedWas DEF UnfinishedIsOutstanding
<1> QED
  BY <1>1, OutstandingKept

\* A record was written, and no consumer moved on.
LEMMA AppendUnlost ==
    ASSUME Core, LogGrows, UnfinishedIsOutstanding, UNCHANGED <<rows, req, pos>>,
           NEW t \in Topics, NEW r \in Requests, DocOf(r) \in Docs, AppendTo(t, r)
    PROVE  UnfinishedIsOutstanding'
<1>1. DocsKept
  BY SameReqKeepsDocs
<1>2. /\ pos' \in [Topics -> [Partitions -> Nat]]
      /\ \A u \in Topics, p \in Partitions : pos'[u][p] <= pos[u][p]
      /\ PartOf(t, r) \in Partitions
      /\ pos'[t][PartOf(t, r)] <= Len(log[t][PartOf(t, r)])
  BY PartOfType DEF Core, TypeOK
<1> SUFFICES ASSUME NEW d \in Docs, Queued(d)', ~Terminal(rows[d])
             PROVE  Outstanding(d)'
  BY DEF UnfinishedIsOutstanding
<1>3. CASE d = DocOf(r)
  BY <1>2, <1>3, AppendedOutstanding
<1>4. CASE d # DocOf(r)
  <2>1. Outstanding(d)
    BY <1>4, QueuedWasOrNew DEF UnfinishedIsOutstanding
  <2> QED
    BY <1>1, <1>2, <2>1, OutstandingKept
<1> QED
  BY <1>3, <1>4

\* A consumer moved on past a record, and its document is taken care of.
LEMMA PastUnlost ==
    ASSUME Core, LogGrows, DocsKept, UnfinishedIsOutstanding,
           NEW t \in Topics, NEW p \in Partitions, pos[t][p] < Len(log[t][p]),
           pos' = [pos EXCEPT ![t][p] = @ + 1],
           NEW e \in Docs, e = DocOf(log[t][p][pos[t][p] + 1]),
           Terminal(rows'[e]) \/ Outstanding(e)',
           \A d \in Docs \ {e} : rows'[d] = rows[d],
           \A d \in Docs \ {e} : Queued(d)' => Queued(d)
    PROVE  UnfinishedIsOutstanding'
<1> SUFFICES ASSUME NEW d \in Docs, Queued(d)', ~Terminal(rows'[d])
             PROVE  Outstanding(d)'
  BY DEF UnfinishedIsOutstanding
<1>1. CASE d = e
  BY <1>1
<1>2. CASE d # e
  <2>1. Outstanding(d)
    BY <1>2 DEF UnfinishedIsOutstanding
  <2> QED
    BY <1>2, <2>1, OutstandingPast
<1> QED
  BY <1>1, <1>2

\* The steps that leave every row and every log as they are, and no consumer
\* moves on.
LEMMA QuietUnlost ==
    ASSUME Core, LogGrows, DocsKept, UnfinishedIsOutstanding, UNCHANGED <<rows, log, pos>>
    PROVE  UnfinishedIsOutstanding'
<1>1. /\ pos' \in [Topics -> [Partitions -> Nat]]
      /\ \A t \in Topics, p \in Partitions : pos'[t][p] <= pos[t][p]
  BY DEF Core, TypeOK
<1> QED
  BY <1>1, StillUnlost

LEMMA RequestUnlost ==
    ASSUME Core, LogGrows, DocsKept, UnfinishedIsOutstanding, RequestStep
    PROVE  UnfinishedIsOutstanding'
<1>1. ASSUME NEW d \in Docs, Create(d)
      PROVE  UnfinishedIsOutstanding'
  <2>1. /\ pos' \in [Topics -> [Partitions -> Nat]]
        /\ \A t \in Topics, p \in Partitions : pos'[t][p] <= pos[t][p]
    BY <1>1 DEF Core, TypeOK, Create
  <2>2. \A e \in Docs : Terminal(rows[e]) => Terminal(rows'[e])
    BY <1>1 DEF Core, TypeOK, Create, Terminal
  <2> QED
    BY <1>1, <2>1, <2>2, StillUnlost DEF Create
<1>2. ASSUME NEW r \in Requests, BrokerAppends(r)
      PROVE  UnfinishedIsOutstanding'
  <2>1. DocOf(r) \in Docs
    BY <1>2, MadeHasDoc DEF BrokerAppends
  <2> QED
    BY <1>2, <2>1, AppendUnlost, TopicsFacts DEF BrokerAppends
<1>3. CASE UNCHANGED <<rows, log, pos>>
  BY <1>3, QuietUnlost
<1> QED
  BY <1>1, <1>2, <1>3 DEF RequestStep, Generate, Accept, NotQueued

LEMMA DeliveryUnlost ==
    ASSUME Core, LogGrows, DocsKept, UnfinishedIsOutstanding, ~CanPause,
           NEW t \in Topics, NEW p \in Partitions, Poll(t, p) \/ GroupStep(t, p)
    PROVE  UnfinishedIsOutstanding'
<1>1. ASSUME NEW w \in Workers, Skip(w, t, p)
      PROVE  UnfinishedIsOutstanding'
  <2>0. pos[t][p] < Len(log[t][p])
    BY <1>1 DEF Skip, Deliverable
  <2>1. PICK e \in Docs : e = DocOf(log[t][p][pos[t][p] + 1])
    BY <2>0, NextRecord
  <2>2. /\ pos' = [pos EXCEPT ![t][p] = @ + 1]
        /\ rows' = rows /\ log' = log /\ Terminal(rows'[e])
    BY <1>1, <2>1 DEF Skip, IsDuplicate
  <2>3. \A d \in Docs \ {e} : Queued(d)' => Queued(d)
    BY <2>2, QueuedWas
  <2>4. \A d \in Docs \ {e} : rows'[d] = rows[d]
    BY <2>2
  <2> QED
    BY <2>0, <2>1, <2>2, <2>3, <2>4, PastUnlost
<1>2. ASSUME NEW w \in Workers, Deliver(w, t, p) \/ ReadFails(w, t, p)
      PROVE  UnfinishedIsOutstanding'
  BY <1>2, QuietUnlost DEF Deliver, ReadFails
<1>3. CASE Crash(t, p)
  <2>1. PICK offset \in 0..pos[t][p] : Rewind(t, p, offset)
    BY <1>3 DEF Crash
  <2>2. /\ pos' \in [Topics -> [Partitions -> Nat]]
        /\ \A u \in Topics, q \in Partitions : pos'[u][q] <= pos[u][q]
    BY <2>1 DEF Core, TypeOK, Rewind
  <2> QED
    BY <1>3, <2>2, StillUnlost DEF Crash
<1>4. CASE Pause(t, p)
  BY <1>4 DEF Pause
<1> QED
  BY <1>1, <1>2, <1>3, <1>4 DEF Poll, GroupStep

LEMMA MarkedTerminal ==
    ASSUME NEW row \in Row
    PROVE  Terminal(MarkAsDone(row)) /\ Terminal(MarkAsFailed(row))
BY DEF Terminal, MarkAsDone, MarkAsFailed, Row

\* A delivery that ends: its document is finished, or its record is in the next
\* topic.
LEMMA FinishUnlost ==
    ASSUME Core, Core', NoZombies, LogGrows, UNCHANGED req, UnfinishedIsOutstanding,
           NEW w \in Workers, Store(w) \/ Abandon(w) \/ Route(w)
    PROVE  UnfinishedIsOutstanding'
<1> DEFINE t == worker[w].topic
           r == worker[w].req
           p == PartOf(t, r)
<1>0. PICK e \in Docs : e = DocOf(r)
  BY DEF Core, WorkerOK, Store, Abandon, Route, Busy
<1>1. /\ Busy(w) /\ t \in Topics /\ r \in Requests /\ Owns(w, t, p)
      /\ DocsKept
  BY SameReqKeepsDocs
  DEF Core, TypeOK, WorkerOK, Worker, Store, Abandon, Route, Busy, NoZombies, Owns
<1>2. p \in Partitions
  BY <1>0, <1>1, PartOfType
<1>3. pos[t][p] < Len(log[t][p]) /\ r = log[t][p][pos[t][p] + 1]
  BY <1>1, <1>2 DEF Core, HoldsRecord
<1>4. pos' = [pos EXCEPT ![t][p] = @ + 1]
  BY DEF Store, Abandon, Route, Finish, NoZombies
<1>5. CASE Store(w) \/ Abandon(w)
  <2>1. /\ Terminal(rows'[e])
        /\ \A d \in Docs \ {e} : rows'[d] = rows[d]
    <3>1. rows \in [Docs -> Row] /\ worker[w].row \in Row
      BY DEF Core, TypeOK, Worker
    <3>2. PICK row \in Row : Terminal(row) /\ Save(r, row)
      BY <1>5, <3>1, RowTypes, MarkedTerminal, <1>1 DEF Store, Abandon
    <3> QED
      BY <1>0, <3>1, <3>2 DEF Save
  <2>2. \A d \in Docs \ {e} : Queued(d)' => Queued(d)
    BY <1>1, <1>5, QueuedWas DEF Store, Abandon
  <2> QED
    BY <1>0, <1>1, <1>2, <1>3, <1>4, <2>1, <2>2, PastUnlost
<1>6. CASE Route(w)
  <2> DEFINE n == NextTopic(t)
  <2>1. n \in Topics /\ AppendTo(n, r) /\ rows' = rows
    BY <1>1, <1>6, TopicsFacts DEF Route
  <2>2. PartOf(n, r) \in Partitions
    BY <1>0, <1>1, <2>1, PartOfType
  <2>3. pos' \in [Topics -> [Partitions -> Nat]]
    BY DEF Core, TypeOK
  <2>4. pos'[n][PartOf(n, r)] <= Len(log[n][PartOf(n, r)])
    <3>1. /\ pos[t][p] \in Nat /\ Len(log[t][p]) \in Nat
          /\ pos[n][PartOf(n, r)] <= Len(log[n][PartOf(n, r)])
      BY <1>1, <1>2, <2>1, <2>2 DEF Core, TypeOK
    <3>2. pos \in [Topics -> [Partitions -> Nat]]
      BY DEF Core, TypeOK
    <3> HIDE DEF p, n
    <3>3. CASE n = t /\ PartOf(n, r) = p
      BY <1>1, <1>2, <1>3, <1>4, <3>1, <3>2, <3>3
    <3>4. CASE ~(n = t /\ PartOf(n, r) = p)
      BY <1>1, <1>2, <1>4, <2>1, <2>2, <3>1, <3>2, <3>4
    <3> QED
      BY <3>3, <3>4
  <2>5. Outstanding(e)'
    BY <1>0, <1>1, <2>1, <2>3, <2>4, AppendedOutstanding
  <2>6. \A d \in Docs \ {e} : Queued(d)' => Queued(d)
    BY <1>0, <1>1, <2>1, QueuedWasOrNew
  <2>7. \A d \in Docs \ {e} : rows'[d] = rows[d]
    BY <2>1
  <2> QED
    BY <1>0, <1>1, <1>2, <1>3, <1>4, <2>5, <2>6, <2>7, PastUnlost
<1> QED
  BY <1>5, <1>6

LEMMA WorkUnlost ==
    ASSUME Core, Core', NoZombies, LogGrows, DocsKept, UnfinishedIsOutstanding,
           NEW w \in Workers, Work(w) \/ Die(w)
    PROVE  UnfinishedIsOutstanding'
<1>1. CASE Store(w) \/ Abandon(w) \/ Route(w)
  BY <1>1, FinishUnlost DEF Store, Abandon, Route
<1>2. CASE Claim(w)
  <2> DEFINE e == DocOf(worker[w].req)
  <2>1. Busy(w) /\ Outstanding(e)
    BY <1>2, BusyOutstanding DEF Claim, Busy
  <2>2. \A d \in Docs : d # e => rows'[d] = rows[d]
    BY <1>2 DEF Claim, Save, Core, TypeOK
  <2>3. /\ pos' \in [Topics -> [Partitions -> Nat]]
        /\ \A u \in Topics, q \in Partitions : pos'[u][q] <= pos[u][q]
    BY <1>2 DEF Core, TypeOK, Claim
  <2> QED
    BY <1>2, <2>1, <2>2, <2>3, StillUnlost DEF Claim
<1>3. CASE /\ RouteFails(w)
           /\ AppendTo(NextTopic(worker[w].topic), worker[w].req)
  <2>1. /\ worker[w].req \in Requests /\ DocOf(worker[w].req) \in Docs
        /\ NextTopic(worker[w].topic) \in Topics
    BY <1>3, TopicsFacts DEF RouteFails, Busy, Core, TypeOK, WorkerOK, Worker
  <2> QED
    BY <1>3, <2>1, AppendUnlost DEF RouteFails
<1>4. CASE UNCHANGED <<rows, log, pos>>
  BY <1>4, QuietUnlost
<1> QED
  BY <1>1, <1>2, <1>3, <1>4 DEF Work, AttemptFails, RouteFails, Die

LEMMA UnlostStep ==
    ASSUME Core, NoZombies, UnfinishedIsOutstanding, ~CanPause, [Next]_vars
    PROVE  UnfinishedIsOutstanding'
<1>1. Core' /\ LogGrows /\ DocsKept
  BY CoreStep, StepGrows
<1>2. CASE UNCHANGED vars
  BY <1>1, <1>2, QuietUnlost DEF vars
<1>3. CASE Next
  BY <1>1, <1>3, RequestUnlost, DeliveryUnlost, WorkUnlost DEF Next
<1> QED
  BY <1>2, <1>3

\* While no consumer stalls, a document whose event the broker took is finished
\* or has a record still to be delivered: no crash, redelivery, duplicate, failed
\* publication or blind commit leaves one PENDING or PROCESSING for good.
THEOREM NoWorkLost == ~CanPause => (Spec => []UnfinishedIsOutstanding)
<1> SUFFICES ASSUME ~CanPause
             PROVE  Spec => []UnfinishedIsOutstanding
  OBVIOUS
<1> DEFINE Inv == NoZombies /\ UnfinishedIsOutstanding
<1>1. Init => Inv
  <2>1. ASSUME Init
        PROVE  \A t \in Topics, p \in Partitions : Len(log[t][p]) = 0
    BY <2>1 DEF Init
  <2>2. ASSUME Init, NEW d \in Docs
        PROVE  ~Queued(d)
    BY <2>1, <2>2, NoneAssumption DEF Init, Queued, DocOf
  <2> QED
    BY <2>2 DEF Init, NoZombies, Idle, UnfinishedIsOutstanding
<1>2. Core /\ Inv /\ [Next]_vars => Inv'
  BY NoZombiesStep, UnlostStep
<1> QED
  BY <1>1, <1>2, CoreInvariant, PTL DEF Spec

-----------------------------------------------------------------------------
(* Without faults a request is in one place at a time, so a document with a *)
(* single request has a single delivery, whose snapshot is its row.         *)

\* The dead-letter handler has not failed.
DlqAbandons ==
    \A w \in Workers : Busy(w) /\ worker[w].topic = Dlq => worker[w].pc = "abandoning"

\* No topic holds a request twice.
OnlyOnce ==
    \A t \in Topics, p \in Partitions : \A i, j \in 1..Len(log[t][p]) :
      log[t][p][i] = log[t][p][j] => i = j

\* The consumer of topic t is done with a record of r.
Behind(t, r) == \E i \in 1..pos[t][PartOf(t, r)] : log[t][PartOf(t, r)][i] = r

\* A request is in the next topic only when its consumer is done with it in
\* this one.
PassedOn ==
    \A t \in Topics \ {Dlq}, r \in Requests :
      DocOf(r) \in Docs /\ InLog(t + 1, r) => Behind(t, r)

\* At most one request of d is in the main topic.
OnlyRun(d) ==
    \A r, s \in Requests :
      DocOf(r) = d /\ InLog(Main, r) /\ DocOf(s) = d /\ InLog(Main, s) => r = s

\* What a worker read of such a document is still its row.
SnapshotsCurrent ==
    \A w \in Workers : Reads(w) /\ OnlyRun(DocOf(worker[w].req)) =>
      worker[w].row = rows[DocOf(worker[w].req)]

Calm == NoZombies /\ DlqAbandons /\ OnlyOnce /\ PassedOn /\ SnapshotsCurrent

\* Two workers are never busy with the same request.
LEMMA NotAhead ==
    ASSUME Core, RowsInv, NoZombies, OnlyOnce, PassedOn,
           NEW v \in Workers, NEW w \in Workers, Busy(v), Busy(w),
           worker[v].req = worker[w].req, worker[v].topic < worker[w].topic
    PROVE  FALSE
<1> DEFINE t == worker[v].topic
           u == worker[w].topic
           r == worker[v].req
           p == PartOf(t, r)
<1>1. /\ t \in Topics /\ u \in Topics /\ r \in Requests /\ DocOf(r) \in Docs
      /\ \A k \in Main..u : InLog(k, r)
  BY BusyFacts
<1>2. p \in Partitions
  BY <1>1, PartOfType
<1>3. t + 1 \in Main..u /\ t # Dlq
  BY <1>1, AttemptsAssumption DEF Topics, Main, Dlq
<1>4. Behind(t, r)
  BY <1>1, <1>3 DEF PassedOn
<1>5. Owns(v, t, p)
  BY DEF Owns, NoZombies
<1>6. pos[t][p] < Len(log[t][p]) /\ log[t][p][pos[t][p] + 1] = r
  BY <1>1, <1>2, <1>5 DEF Core, HoldsRecord
<1>7. PICK i \in 1..pos[t][p] : log[t][p][i] = r
  BY <1>4 DEF Behind
<1> HIDE DEF p, t, u, r
<1>8. pos[t][p] \in Nat /\ Len(log[t][p]) \in Nat
  BY <1>1, <1>2 DEF Core, TypeOK
<1>9. i \in 1..Len(log[t][p]) /\ pos[t][p] + 1 \in 1..Len(log[t][p]) /\ i # pos[t][p] + 1
  BY <1>6, <1>8
<1> QED
  BY <1>1, <1>2, <1>6, <1>7, <1>9 DEF OnlyOnce

LEMMA SoleHandler ==
    ASSUME Core, RowsInv, NoZombies, OnlyOnce, PassedOn,
           NEW v \in Workers, NEW w \in Workers, Busy(v), Busy(w),
           worker[v].req = worker[w].req
    PROVE  v = w
<1>1. /\ worker[v].topic \in Topics /\ worker[w].topic \in Topics
      /\ worker[v].req \in Requests /\ DocOf(worker[v].req) \in Docs
  BY BusyFacts
<1>2. ~(worker[v].topic < worker[w].topic) /\ ~(worker[w].topic < worker[v].topic)
  BY NotAhead
<1>3. worker[v].topic = worker[w].topic
  <2>1. \A t, u \in Topics : ~(t < u) /\ ~(u < t) => t = u
    BY TopicsFacts
  <2> QED
    BY <1>1, <1>2, <2>1
<1>4. PartOf(worker[v].topic, worker[v].req) \in Partitions
  BY <1>1, PartOfType
<1> QED
  BY <1>1, <1>3, <1>4 DEF Core, SoleOwner, Owns, NoZombies

\* A document with a single request has a single delivery.
LEMMA SoleRun ==
    ASSUME Core, RowsInv, NoZombies, OnlyOnce, PassedOn,
           NEW v \in Workers, NEW w \in Workers, Busy(v), Busy(w),
           DocOf(worker[v].req) = DocOf(worker[w].req), OnlyRun(DocOf(worker[v].req))
    PROVE  v = w
<1>1. worker[v].req = worker[w].req
  BY BusyFacts DEF OnlyRun
<1> QED
  BY <1>1, SoleHandler

\* A log that grew holds no single request less.
LEMMA OnlyRunWas ==
    ASSUME Core, LogGrows, DocsKept, NEW d \in Docs, OnlyRun(d)'
    PROVE  OnlyRun(d)
<1> SUFFICES ASSUME NEW r \in Requests, NEW s \in Requests,
                    DocOf(r) = d, InLog(Main, r), DocOf(s) = d, InLog(Main, s)
             PROVE  r = s
  BY DEF OnlyRun
<1>1. InLog(Main, r)' /\ InLog(Main, s)'
  BY InLogKept, TopicsFacts
<1>2. DocOf(r)' = d /\ DocOf(s)' = d
  BY DEF DocsKept
<1> QED
  BY <1>1, <1>2 DEF OnlyRun

\* What keeps the snapshots current: a worker goes on with its own, or reads.
LEMMA CurrentKept ==
    ASSUME Core, Core', LogGrows, DocsKept, SnapshotsCurrent,
           \A w \in Workers : Reads(w)' =>
             LET d == DocOf(worker[w].req)'
             IN  \/ worker'[w].row = rows'[d]
                 \/ /\ Reads(w) /\ worker'[w].row = worker[w].row
                    /\ worker'[w].req = worker[w].req
                    /\ OnlyRun(d) => rows'[d] = rows[d]
    PROVE  SnapshotsCurrent'
<1> SUFFICES ASSUME NEW w \in Workers, Reads(w)', OnlyRun(DocOf(worker[w].req))'
             PROVE  worker'[w].row = rows'[DocOf(worker[w].req)']
  BY DEF SnapshotsCurrent
<1>1. Busy(w)'
  BY DEF Busy, Reads
<1>2. worker'[w].req \in Requests /\ DocOf(worker[w].req)' \in Docs
  BY <1>1 DEF Core, WorkerOK
<1> DEFINE d == DocOf(worker[w].req)'
<1>3. OnlyRun(d)
  <2>1. PICK e \in Docs : e = d
    BY <1>2
  <2>2. OnlyRun(e)'
    BY <2>1 DEF OnlyRun
  <2> QED
    BY <2>1, <2>2, OnlyRunWas
<1>4. Reads(w) /\ worker'[w].req = worker[w].req => DocOf(worker[w].req) = d
  BY <1>2 DEF Core, WorkerOK, Reads, Busy, DocsKept, DocOf
<1> HIDE DEF d
<1>5. \/ worker'[w].row = rows'[d]
      \/ /\ Reads(w) /\ worker'[w].row = worker[w].row
         /\ worker'[w].req = worker[w].req
         /\ OnlyRun(d) => rows'[d] = rows[d]
  BY DEF d
<1>6. worker'[w].row = rows'[d]
  BY <1>3, <1>4, <1>5 DEF SnapshotsCurrent
<1> QED
  BY <1>6 DEF d

\* A log that did not change, and consumers that moved on.
LEMMA PlacesKept ==
    ASSUME Core, Core', LogGrows, DocsKept, OnlyOnce, PassedOn, UNCHANGED log,
           \A t \in Topics, p \in Partitions : pos[t][p] <= pos'[t][p]
    PROVE  OnlyOnce' /\ PassedOn'
<1>1. OnlyOnce'
  BY DEF OnlyOnce
<1>2. ASSUME NEW t \in Topics \ {Dlq}, NEW r \in Requests, DocOf(r)' \in Docs, InLog(t + 1, r)'
      PROVE  Behind(t, r)'
  <2>0. t + 1 \in Topics
    BY AttemptsAssumption DEF Topics, Main, Dlq
  <2>1. DocOf(r) \in Docs /\ DocOf(r)' = DocOf(r) /\ InLog(t + 1, r)
    BY <1>2, <2>0, InLogWas
  <2> DEFINE p == PartOf(t, r)
  <2>2. p \in Partitions /\ p' = p
    BY <2>1, PartOfType DEF PartOf
  <2>3. PICK i \in 1..pos[t][p] : log[t][p][i] = r
    BY <2>1 DEF PassedOn, Behind
  <2> HIDE DEF p
  <2>4. pos[t][p] \in Nat /\ pos'[t][p] \in Nat /\ pos[t][p] <= pos'[t][p]
    BY <2>2 DEF Core, TypeOK
  <2>5. i \in 1..pos'[t][p] /\ log'[t][p][i] = r
    BY <2>3, <2>4
  <2> QED
    BY <2>2, <2>5 DEF Behind, p
<1> QED
  BY <1>1, <1>2 DEF PassedOn

\* A record that is appended to a topic that does not hold its request yet, by
\* a consumer that is done with it in the topic before.
LEMMA PlacesAppended ==
    ASSUME Core, Core', LogGrows, UNCHANGED req, OnlyOnce, PassedOn,
           \A t \in Topics, p \in Partitions : pos[t][p] <= pos'[t][p],
           NEW t \in Topics, NEW r \in Requests, DocOf(r) \in Docs, AppendTo(t, r),
           ~InLog(t, r), \A u \in Topics : u + 1 = t => Behind(u, r)'
    PROVE  OnlyOnce' /\ PassedOn'
<1>0. DocsKept
  BY SameReqKeepsDocs
<1>1. ASSUME NEW u \in Topics, NEW p \in Partitions,
             NEW i \in 1..Len(log'[u][p]), NEW j \in 1..Len(log'[u][p]),
             log'[u][p][i] = log'[u][p][j]
      PROVE  i = j
  <2>1. Len(log[u][p]) \in Nat
    BY DEF Core, TypeOK
  <2>2. CASE u = t /\ p = PartOf(t, r)
    <3>1. /\ Len(log'[t][p]) = Len(log[t][p]) + 1
          /\ log'[t][p][Len(log[t][p]) + 1] = r
      BY <2>2, AppendFacts DEF Core, TypeOK
    <3>2. \A k \in 1..Len(log[t][p]) : log'[t][p][k] = log[t][p][k] /\ log'[t][p][k] # r
      BY <2>2 DEF LogGrows, InLog
    <3>3. \A k \in 1..Len(log'[t][p]) : k \in 1..Len(log[t][p]) \/ k = Len(log[t][p]) + 1
      BY <2>1, <2>2, <3>1
    <3>4. CASE i \in 1..Len(log[t][p]) /\ j \in 1..Len(log[t][p])
      BY <1>1, <2>2, <3>2, <3>4 DEF OnlyOnce
    <3>5. CASE ~(i \in 1..Len(log[t][p]) /\ j \in 1..Len(log[t][p]))
      BY <1>1, <2>2, <3>1, <3>2, <3>3, <3>5
    <3> QED
      BY <3>4, <3>5
  <2>3. CASE ~(u = t /\ p = PartOf(t, r))
    <3>1. log'[u][p] = log[u][p]
      BY <2>3, AppendFacts DEF Core, TypeOK
    <3> QED
      BY <1>1, <3>1 DEF OnlyOnce
  <2> QED
    BY <2>2, <2>3
<1>2. ASSUME NEW u \in Topics \ {Dlq}, NEW s \in Requests, DocOf(s) \in Docs, InLog(u + 1, s)'
      PROVE  Behind(u, s)'
  <2>0. u + 1 \in Topics
    BY AttemptsAssumption DEF Topics, Main, Dlq
  <2>1. CASE u + 1 = t /\ s = r
    BY <2>1
  <2>2. CASE InLog(u + 1, s)
    <3> DEFINE p == PartOf(u, s)
    <3>1. p \in Partitions /\ p' = p
      BY <1>2, PartOfType DEF PartOf, DocOf
    <3>2. PICK i \in 1..pos[u][p] : log[u][p][i] = s
      BY <1>2, <2>2 DEF PassedOn, Behind
    <3> HIDE DEF p
    <3>3. /\ pos[u][p] \in Nat /\ pos'[u][p] \in Nat /\ pos[u][p] <= pos'[u][p]
          /\ Len(log[u][p]) \in Nat /\ pos[u][p] <= Len(log[u][p])
      BY <3>1 DEF Core, TypeOK
    <3>4. i \in 1..pos'[u][p] /\ i \in 1..Len(log[u][p])
      BY <3>2, <3>3
    <3>5. log'[u][p][i] = s
      BY <3>1, <3>2, <3>4 DEF LogGrows
    <3> QED
      BY <3>1, <3>4, <3>5 DEF Behind, p
  <2> QED
    BY <1>2, <2>0, <2>1, <2>2, InLogWasOrNew
<1> QED
  BY <1>1, <1>2 DEF OnlyOnce, PassedOn, DocOf

-----------------------------------------------------------------------------
(* Each step keeps the calm.                                                *)

LEMMA RequestCalm ==
    ASSUME Core, Core', RowsInv, LogGrows, DocsKept, Calm, RequestStep
    PROVE  Calm'
<1>1. UNCHANGED <<pos, worker>>
  BY DEF RequestStep, Create, Generate, BrokerAppends, Accept, NotQueued
<1>2. NoZombies' /\ DlqAbandons'
  BY <1>1 DEF Calm, NoZombies, DlqAbandons, Busy
<1>3. \A t \in Topics, p \in Partitions : pos[t][p] <= pos'[t][p]
  BY <1>1 DEF Core, TypeOK
<1>4. OnlyOnce' /\ PassedOn'
  <2>1. ASSUME NEW r \in Requests, BrokerAppends(r)
        PROVE  OnlyOnce' /\ PassedOn'
    <3>1. DocOf(r) \in Docs /\ Main \in Topics
      BY <2>1, MadeHasDoc, TopicsFacts DEF BrokerAppends
    <3>2. \A u \in Topics : u + 1 # Main
      BY AttemptsAssumption DEF Topics, Main, Dlq
    <3> QED
      BY <1>3, <2>1, <3>1, <3>2, PlacesAppended DEF BrokerAppends, Calm
  <2>2. CASE UNCHANGED log
    BY <1>3, <2>2, PlacesKept DEF Calm
  <2> QED
    BY <2>1, <2>2 DEF RequestStep, Create, Generate, Accept, NotQueued
<1>5. ASSUME NEW w \in Workers, Reads(w)'
      PROVE  /\ Reads(w) /\ worker'[w].row = worker[w].row /\ worker'[w].req = worker[w].req
             /\ rows'[DocOf(worker[w].req)'] = rows[DocOf(worker[w].req)']
  <2>1. Reads(w) /\ Busy(w)
    BY <1>1, <1>5 DEF Reads, Busy
  <2>2. PICK e \in Docs : e = DocOf(worker[w].req) /\ e = DocOf(worker[w].req)'
    BY <1>1, <2>1 DEF Core, WorkerOK, DocsKept, DocOf
  <2>3. rows[e].status # "absent"
    BY <2>1, <2>2 DEF Core, WorkerOK, ReqOK
  <2>4. rows'[e] = rows[e]
    BY <2>3 DEF RequestStep, Create, Generate, BrokerAppends, Accept, NotQueued, Core, TypeOK
  <2> QED
    BY <1>1, <2>1, <2>2, <2>4
<1>6. SnapshotsCurrent'
  BY <1>5, CurrentKept DEF Calm
<1> QED
  BY <1>2, <1>4, <1>6 DEF Calm

LEMMA DeliveryCalm ==
    ASSUME Core, Core', RowsInv, LogGrows, DocsKept, Calm, NoZombies', faults' = 0,
           NEW t \in Topics, NEW p \in Partitions, Poll(t, p) \/ GroupStep(t, p)
    PROVE  Calm'
<1>1. PICK w \in Workers : Skip(w, t, p) \/ Deliver(w, t, p)
  BY DEF Poll, GroupStep, ReadFails, Crash, Pause, Fault, Core, TypeOK
<1>2. \A u \in Topics, q \in Partitions : pos[u][q] <= pos'[u][q]
  <2>1. pos \in [Topics -> [Partitions -> Nat]]
    BY DEF Core, TypeOK
  <2>2. pos' = [pos EXCEPT ![t][p] = @ + 1] \/ pos' = pos
    BY <1>1 DEF Skip, Deliver
  <2> QED
    BY <2>1, <2>2
<1>3. OnlyOnce' /\ PassedOn'
  BY <1>1, <1>2, PlacesKept DEF Calm, Skip, Deliver
<1>4. CASE Skip(w, t, p)
  <2>1. DlqAbandons'
    BY <1>4 DEF Skip, Calm, DlqAbandons, Busy
  <2>2. SnapshotsCurrent'
    BY <1>4 DEF Skip, Calm, SnapshotsCurrent, Reads, OnlyRun, InLog, PartOf, DocOf
  <2> QED
    BY <1>3, <2>1, <2>2 DEF Calm
<1>5. CASE Deliver(w, t, p)
  <2> DEFINE r == log[t][p][pos[t][p] + 1]
             row == rows[DocOf(r)]
  <2>1. /\ worker'[w] = [pc |-> PcAfterRead(t, row), topic |-> t, req |-> r,
                         row |-> row, zombie |-> FALSE]
        /\ \A v \in Workers \ {w} : worker'[v] = worker[v]
        /\ UNCHANGED <<rows, req>>
    BY <1>5 DEF Deliver, Core, TypeOK
  <2>2. DlqAbandons'
    BY <2>1 DEF Calm, DlqAbandons, Busy, PcAfterRead
  <2>3. \A v \in Workers : Reads(v)' =>
          \/ worker'[v].row = rows'[DocOf(worker[v].req)']
          \/ Reads(v) /\ worker'[v] = worker[v]
    BY <2>1 DEF Reads, DocOf
  <2>4. SnapshotsCurrent'
    BY <2>1, <2>3, CurrentKept DEF Calm
  <2> QED
    BY <1>3, <2>2, <2>4 DEF Calm
<1> QED
  BY <1>1, <1>4, <1>5

\* A commit or the end of a delivery leaves the other deliveries' rows alone.
LEMMA OthersCurrent ==
    ASSUME Core, Core', RowsInv, LogGrows, UNCHANGED req, Calm,
           NEW w \in Workers, Busy(w),
           \A v \in Workers \ {w} : worker'[v] = worker[v],
           \A d \in Docs \ {DocOf(worker[w].req)} : rows'[d] = rows[d],
           Reads(w)' => worker'[w].row = rows'[DocOf(worker'[w].req)]
    PROVE  SnapshotsCurrent'
<1>0. DocsKept
  BY SameReqKeepsDocs
<1>1. ASSUME NEW v \in Workers, v # w, Reads(v)', OnlyRun(DocOf(worker[v].req))
      PROVE  rows'[DocOf(worker[v].req)] = rows[DocOf(worker[v].req)]
  <2>1. Busy(v) /\ DocOf(worker[v].req) \in Docs
    BY <1>1 DEF Reads, Busy, Core, WorkerOK
  <2>2. DocOf(worker[v].req) # DocOf(worker[w].req)
    BY <1>1, <2>1, SoleRun DEF Calm
  <2> QED
    BY <2>1, <2>2
<1>2. ASSUME NEW v \in Workers, Reads(v)'
      PROVE  LET d == DocOf(worker[v].req)'
             IN  \/ worker'[v].row = rows'[d]
                 \/ /\ Reads(v) /\ worker'[v].row = worker[v].row
                    /\ worker'[v].req = worker[v].req
                    /\ OnlyRun(d) => rows'[d] = rows[d]
  <2>1. CASE v = w
    BY <1>2, <2>1 DEF DocOf
  <2>2. CASE v # w
    <3>1. worker'[v] = worker[v] /\ DocOf(worker[v].req)' = DocOf(worker[v].req)
      BY <2>2 DEF DocOf
    <3> QED
      BY <1>1, <1>2, <2>2, <3>1 DEF Reads
  <2> QED
    BY <2>1, <2>2
<1> QED
  BY <1>0, <1>2, CurrentKept DEF Calm

LEMMA FinishForward ==
    ASSUME Core, NEW w \in Workers, Busy(w), Finish(w), NoZombies
    PROVE  LET t == worker[w].topic
               p == PartOf(t, worker[w].req)
           IN  /\ \A u \in Topics, q \in Partitions : pos[u][q] <= pos'[u][q]
               /\ pos'[t][p] = pos[t][p] + 1
               /\ pos[t][p] < Len(log[t][p])
               /\ log[t][p][pos[t][p] + 1] = worker[w].req
               /\ worker'[w] = Idle
               /\ \A v \in Workers \ {w} : worker'[v] = worker[v]
<1> DEFINE t == worker[w].topic
           p == PartOf(t, worker[w].req)
<1>1. t \in Topics /\ p \in Partitions /\ Owns(w, t, p)
  BY PartOfType DEF Core, TypeOK, WorkerOK, Worker, Owns, NoZombies
<1>2. pos' = [pos EXCEPT ![t][p] = @ + 1] /\ worker' = [worker EXCEPT ![w] = Idle]
  BY DEF Finish, NoZombies
<1>3. pos[t][p] < Len(log[t][p]) /\ log[t][p][pos[t][p] + 1] = worker[w].req
  BY <1>1 DEF Core, HoldsRecord
<1>4. pos \in [Topics -> [Partitions -> Nat]] /\ worker \in [Workers -> Worker]
  BY DEF Core, TypeOK
<1> HIDE DEF t, p
<1>5. pos'[t][p] = pos[t][p] + 1 /\ \A u \in Topics, q \in Partitions : pos[u][q] <= pos'[u][q]
  BY <1>1, <1>2, <1>4
<1> QED
  BY <1>2, <1>3, <1>4, <1>5 DEF t, p

LEMMA FinishCalm ==
    ASSUME Core, Core', RowsInv, LogGrows, DocsKept, Calm, NoZombies',
           NEW w \in Workers, Store(w) \/ Abandon(w) \/ Route(w)
    PROVE  Calm'
<1>0. Busy(w) /\ Finish(w) /\ UNCHANGED req
  BY DEF Store, Abandon, Route, Busy
<1>1. PICK t \in Topics, r \in Requests : t = worker[w].topic /\ r = worker[w].req
  BY <1>0, BusyFacts
<1>2. DocOf(r) \in Docs
  BY <1>0, <1>1, BusyFacts
<1>3. PICK p \in Partitions : p = PartOf(t, r) /\ p = PartOf(t, r)'
  BY <1>0, <1>2, PartOfType DEF PartOf, DocOf
<1>4. t \in Topics /\ r \in Requests /\ DocOf(r) \in Docs /\ p \in Partitions
  BY <1>2
<1>5. /\ \A u \in Topics, q \in Partitions : pos[u][q] <= pos'[u][q]
      /\ pos'[t][p] = pos[t][p] + 1
      /\ pos[t][p] < Len(log[t][p])
      /\ log[t][p][pos[t][p] + 1] = r
      /\ worker'[w] = Idle
      /\ \A v \in Workers \ {w} : worker'[v] = worker[v]
  BY <1>0, <1>1, <1>3, FinishForward DEF Calm
<1>6. DlqAbandons'
  BY <1>5 DEF Calm, DlqAbandons, Busy, Idle
<1>7. \A d \in Docs \ {DocOf(r)} : rows'[d] = rows[d]
  BY <1>1 DEF Store, Abandon, Route, Save, Core, TypeOK
<1>8. SnapshotsCurrent'
  BY <1>0, <1>5, <1>7, <1>1, OthersCurrent DEF Reads, Idle
<1>9. OnlyOnce' /\ PassedOn'
  <2>1. CASE Store(w) \/ Abandon(w)
    BY <1>5, <2>1, PlacesKept DEF Calm, Store, Abandon
  <2>2. CASE Route(w)
    <3>1. t # Dlq /\ t + 1 \in Topics /\ AppendTo(t + 1, r)
      BY <1>0, <1>1, <2>2, AttemptsAssumption
      DEF Route, Calm, DlqAbandons, NextTopic, Topics, Main, Dlq
    <3>2. pos[t][p] \in Nat /\ Len(log[t][p]) \in Nat /\ Len(log'[t][p]) \in Nat
      BY <1>4 DEF Core, TypeOK, LogGrows
    <3>3. ~Behind(t, r)
      <4> SUFFICES ASSUME NEW i \in 1..pos[t][p], log[t][p][i] = r
                   PROVE  FALSE
        BY <1>3 DEF Behind
      <4>1. i \in 1..Len(log[t][p]) /\ pos[t][p] + 1 \in 1..Len(log[t][p]) /\ i # pos[t][p] + 1
        BY <1>5, <3>2
      <4> QED
        BY <1>4, <1>5, <4>1 DEF Calm, OnlyOnce
    <3>4. ~InLog(t + 1, r)
      BY <1>4, <3>1, <3>3 DEF Calm, PassedOn
    <3>5. Behind(t, r)'
      <4>1. pos[t][p] + 1 \in 1..pos'[t][p] /\ pos[t][p] + 1 \in 1..Len(log[t][p])
        BY <1>5, <3>2
      <4>2. log'[t][p][pos[t][p] + 1] = r
        BY <1>4, <1>5, <4>1 DEF LogGrows
      <4> QED
        BY <1>3, <4>1, <4>2 DEF Behind
    <3>6. \A u \in Topics : u + 1 = t + 1 => u = t
      BY <1>4, TopicsFacts
    <3> QED
      BY <1>0, <1>4, <1>5, <3>1, <3>4, <3>5, <3>6, PlacesAppended DEF Calm
  <2> QED
    BY <2>1, <2>2
<1> QED
  BY <1>6, <1>8, <1>9 DEF Calm

LEMMA WorkCalm ==
    ASSUME Core, Core', RowsInv, LogGrows, DocsKept, Calm, NoZombies', faults' = 0,
           NEW w \in Workers, Work(w) \/ Die(w)
    PROVE  Calm'
<1>0. worker \in [Workers -> Worker]
  BY DEF Core, TypeOK
<1>1. CASE Store(w) \/ Abandon(w) \/ Route(w)
  BY <1>1, FinishCalm
<1>2. CASE Claim(w) \/ AttemptFails(w)
  <2>1. /\ Busy(w)
        /\ worker'[w].req = worker[w].req /\ worker'[w].topic = worker[w].topic
        /\ \A v \in Workers \ {w} : worker'[v] = worker[v]
    BY <1>0, <1>2 DEF Claim, AttemptFails, GoOn, Busy
  <2>2. \A d \in Docs \ {DocOf(worker[w].req)} : rows'[d] = rows[d]
    BY <1>2 DEF Claim, AttemptFails, Save, Core, TypeOK
  <2>3. Reads(w)' => worker'[w].row = rows'[DocOf(worker'[w].req)]
    <3>1. CASE Claim(w)
      <4>1. DocOf(worker[w].req) \in Docs /\ rows \in [Docs -> Row]
        BY <2>1, BusyFacts DEF Core, TypeOK
      <4> QED
        BY <1>0, <2>1, <3>1, <4>1 DEF Claim, Save, GoOn
    <3>2. CASE AttemptFails(w)
      BY <1>0, <3>2 DEF AttemptFails, GoOn, Reads
    <3> QED
      BY <1>2, <3>1, <3>2
  <2>4. UNCHANGED <<req, log, pos>>
    BY <1>2 DEF Claim, AttemptFails
  <2>5. SnapshotsCurrent'
    BY <2>1, <2>2, <2>3, <2>4, OthersCurrent
  <2>6. OnlyOnce' /\ PassedOn'
    <3>1. \A t \in Topics, p \in Partitions : pos[t][p] <= pos'[t][p]
      BY <2>4 DEF Core, TypeOK
    <3> QED
      BY <2>4, <3>1, PlacesKept DEF Calm
  <2>7. worker[w].topic # Dlq
    BY <1>2, <2>1 DEF Calm, DlqAbandons, Claim, AttemptFails, Fault, Core, TypeOK
  <2>8. DlqAbandons'
    <3> SUFFICES ASSUME NEW v \in Workers, Busy(v)', worker'[v].topic = Dlq
                 PROVE  worker'[v].pc = "abandoning"
      BY DEF DlqAbandons
    <3>1. v # w
      BY <2>1, <2>7
    <3> QED
      BY <2>1, <3>1 DEF Calm, DlqAbandons, Busy
  <2> QED
    BY <2>5, <2>6, <2>8 DEF Calm
<1> QED
  BY <1>1, <1>2 DEF Work, RouteFails, Die, Fault, Calm, NoZombies, Core, TypeOK

LEMMA CalmStep ==
    ASSUME Core, RowsInv, Calm, [Next]_vars, faults' = 0
    PROVE  Calm'
<1>1. Core' /\ LogGrows /\ DocsKept /\ NoZombies'
  BY CoreStep, StepGrows, NoZombiesStep DEF Calm
<1>2. CASE UNCHANGED vars
  <2>1. OnlyOnce' /\ PassedOn'
    BY <1>2 DEF vars, Calm, OnlyOnce, PassedOn, Behind, InLog, PartOf, DocOf
  <2>2. NoZombies' /\ DlqAbandons' /\ SnapshotsCurrent'
    BY <1>2 DEF vars, Calm, NoZombies, DlqAbandons, SnapshotsCurrent, Reads, Busy, OnlyRun,
                InLog, PartOf, DocOf
  <2> QED
    BY <2>1, <2>2 DEF Calm
<1>3. CASE Next
  BY <1>1, <1>3, RequestCalm, DeliveryCalm, WorkCalm DEF Next
<1> QED
  BY <1>2, <1>3

\* Faults are never taken back.
LEMMA FaultsGrow ==
    ASSUME Core, [Next]_vars, faults' = 0
    PROVE  faults = 0
<1>1. ASSUME NEW w \in Workers, Work(w) \/ Die(w)
      PROVE  faults' = faults \/ faults' = faults + 1
  BY <1>1 DEF Work, Claim, Store, Abandon, AttemptFails, Route, RouteFails, Die, Fault
<1>2. ASSUME NEW t \in Topics, NEW p \in Partitions, Poll(t, p) \/ GroupStep(t, p)
      PROVE  faults' = faults \/ faults' = faults + 1
  BY <1>2 DEF Poll, GroupStep, Skip, Deliver, ReadFails, Crash, Pause, Fault
<1>3. CASE RequestStep \/ UNCHANGED vars
  BY <1>3 DEF RequestStep, Create, Generate, BrokerAppends, Accept, NotQueued, vars
<1>4. faults' = faults \/ faults' = faults + 1
  BY <1>1, <1>2, <1>3 DEF Next
<1> QED
  BY <1>4 DEF Core, TypeOK

\* A row of a document with a single delivery takes the steps its own snapshot
\* allows.
LEMMA LifecycleStep ==
    ASSUME Core, RowsInv, Calm, [Next]_vars, faults' = 0, NEW d \in Docs, OnlyRun(d)
    PROVE  \/ rows'[d].status = rows[d].status
           \/ <<rows[d].status, rows'[d].status>> \in LifecycleSteps
<1>0. rows \in [Docs -> Row]
  BY DEF Core, TypeOK
<1>1. ASSUME NEW e \in Docs, Create(e)
      PROVE  \/ rows'[d].status = rows[d].status
             \/ <<rows[d].status, rows'[d].status>> \in LifecycleSteps
  BY <1>0, <1>1 DEF Create, CreatedRow, AbsentRow, LifecycleSteps, Row
<1>2. ASSUME NEW w \in Workers, Claim(w) \/ Store(w) \/ Abandon(w)
      PROVE  \/ rows'[d].status = rows[d].status
             \/ <<rows[d].status, rows'[d].status>> \in LifecycleSteps
  <2>1. /\ Busy(w) /\ worker[w].row \in Row /\ DocOf(worker[w].req) \in Docs
        /\ Reads(w)
    BY <1>2, BusyFacts DEF Claim, Store, Abandon, Busy, Reads
  <2>2. CASE d # DocOf(worker[w].req)
    BY <1>0, <1>2, <2>2 DEF Claim, Store, Abandon, Save
  <2>3. CASE d = DocOf(worker[w].req)
    <3>1. worker[w].row = rows[d]
      BY <2>1, <2>3 DEF Calm, SnapshotsCurrent
    <3>2. CASE Claim(w)
      <4>1. rows[d].status = "PENDING"
        BY <2>1, <3>1, <3>2 DEF Core, WorkerOK, Claim
      <4>2. rows'[d].status = "PROCESSING"
        BY <1>0, <2>1, <2>3, <3>2 DEF Claim, Save, MarkAsProcessing, Row
      <4> QED
        BY <4>1, <4>2 DEF LifecycleSteps
    <3>3. CASE Store(w)
      <4>1. rows[d].status = "PROCESSING"
        BY <2>1, <3>1, <3>3 DEF Core, WorkerOK, Store
      <4>2. rows'[d].status = "DONE"
        BY <1>0, <2>1, <2>3, <3>3 DEF Store, Save, MarkAsDone, Row
      <4> QED
        BY <4>1, <4>2 DEF LifecycleSteps
    <3>4. CASE Abandon(w)
      <4>1. rows[d].status \in {"PENDING", "PROCESSING"}
        BY <2>1, <3>1, <3>4 DEF Core, WorkerOK, Abandon
      <4>2. rows'[d].status = "FAILED"
        BY <1>0, <2>1, <2>3, <3>4 DEF Abandon, Save, MarkAsFailed, Row
      <4> QED
        BY <4>1, <4>2 DEF LifecycleSteps
    <3> QED
      BY <1>2, <3>2, <3>3, <3>4
  <2> QED
    BY <2>2, <2>3
<1>3. CASE UNCHANGED rows
  BY <1>3
<1>4. CASE RequestStep
  BY <1>1, <1>3, <1>4 DEF RequestStep, Generate, BrokerAppends, Accept, NotQueued
<1>5. ASSUME NEW t \in Topics, NEW p \in Partitions, Poll(t, p) \/ GroupStep(t, p)
      PROVE  UNCHANGED rows
  BY <1>5 DEF Poll, GroupStep, Skip, Deliver, ReadFails, Crash, Pause
<1>6. ASSUME NEW w \in Workers, Work(w) \/ Die(w)
      PROVE  Claim(w) \/ Store(w) \/ Abandon(w) \/ UNCHANGED rows
  BY <1>6 DEF Work, AttemptFails, Route, RouteFails, Die
<1> QED
  BY <1>2, <1>3, <1>4, <1>5, <1>6 DEF Next, vars

\* Until the first fault, a document with a single event in the main topic only
\* takes a transition Document.java guards: the retries of one request never
\* overlap, however many consumers there are.
THEOREM SingleRunIsGuarded == Spec => SingleRunFollowsLifecycle
<1> DEFINE Inv == faults = 0 => Calm
<1>1. Init => Inv
  <2>1. ASSUME Init
        PROVE  \A t \in Topics, p \in Partitions : Len(log[t][p]) = 0
    BY <2>1 DEF Init
  <2>2. ASSUME Init, NEW t \in Topics, NEW r \in Requests
        PROVE  DocOf(r) \notin Docs
    BY <2>2, NoneAssumption DEF Init, DocOf
  <2> QED
    BY <2>1, <2>2 DEF Init, Calm, NoZombies, DlqAbandons, OnlyOnce, PassedOn, SnapshotsCurrent,
                      Reads, Busy, Idle
<1>2. Core /\ RowsInv /\ Inv /\ [Next]_vars => Inv'
  BY FaultsGrow, CalmStep
<1>3. Core /\ RowsInv /\ Inv /\ [Next]_vars =>
        [faults' = 0 =>
           \A d \in Docs :
             (\A r, s \in Requests :
                DocOf(r) = d /\ InLog(Main, r) /\ DocOf(s) = d /\ InLog(Main, s) => r = s)
             => \/ rows'[d].status = rows[d].status
                \/ <<rows[d].status, rows'[d].status>> \in LifecycleSteps]_vars
  BY FaultsGrow, LifecycleStep DEF OnlyRun
<1> QED
  BY <1>1, <1>2, <1>3, CoreInvariant, RowsInvariant, PTL DEF Spec, SingleRunFollowsLifecycle
=============================================================================
