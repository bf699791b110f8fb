-------------------------- MODULE GenerationProofs --------------------------
(* Theorems about Generation, for every number of documents, requests,      *)
(* workers, partitions, attempts and faults.                                *)
EXTENDS Generation, TLAPS

-----------------------------------------------------------------------------
(* The core of every inductive invariant: the types, and what a worker that *)
(* is in the middle of a delivery holds.                                    *)

\* A request whose event was handed to the producer.
Sent(r) == req[r].state \in {"sending", "accepted", "unqueued"}

\* A record lies in the partition its document's key goes to.
LogOK == \A t \in Topics, p \in Partitions : \A i \in 1..Len(log[t][p]) :
           /\ DocOf(log[t][p][i]) \in Docs
           /\ Sent(log[t][p][i])
           /\ PartOf(t, log[t][p][i]) = p

\* A request is about a document once it is made, and a request that was not
\* refused about one that exists.
ReqOK == \A r \in Requests :
           /\ req[r].state = "new" <=> DocOf(r) = None
           /\ Sent(r) => rows[DocOf(r)].status # "absent"

\* A busy worker handles a record, and with a row it may write.
WorkerOK ==
    \A w \in Workers : Busy(w) =>
      /\ worker[w].req \in Requests
      /\ DocOf(worker[w].req) \in Docs
      /\ Sent(worker[w].req)
      /\ worker[w].pc = "claiming" => worker[w].row.status = "PENDING"
      /\ worker[w].pc = "rendering" => worker[w].row.status = "PROCESSING"
      /\ worker[w].pc = "abandoning" => worker[w].row.status \in {"PENDING", "PROCESSING"}

\* It is the first record its consumer is not done with, unless it lost the
\* partition, and no other consumer of the partition is busy with it.
HoldsRecord ==
    \A w \in Workers, t \in Topics, p \in Partitions : Owns(w, t, p) =>
      /\ pos[t][p] < Len(log[t][p])
      /\ log[t][p][pos[t][p] + 1] = worker[w].req

SoleOwner ==
    \A v, w \in Workers, t \in Topics, p \in Partitions :
      Owns(v, t, p) /\ Owns(w, t, p) => v = w

Core == TypeOK /\ LogOK /\ ReqOK /\ WorkerOK /\ HoldsRecord /\ SoleOwner

-----------------------------------------------------------------------------
(* Facts about the operators the model is built from.                       *)

LEMMA TopicsFacts ==
    /\ Topics \subseteq Nat
    /\ Main \in Topics
    /\ \A t \in Topics : NextTopic(t) \in Topics
BY AttemptsAssumption DEF Topics, Main, Dlq, NextTopic

LEMMA PartOfType ==
    ASSUME NEW t \in Topics, NEW r \in Requests, DocOf(r) \in Docs
    PROVE  PartOf(t, r) \in Partitions
BY PartitionsAssumption DEF PartOf

LEMMA RowTypes ==
    /\ AbsentRow \in Row /\ CreatedRow \in Row
    /\ \A row \in Row : \A r \in Requests :
         /\ MarkAsProcessing(row, r) \in Row
         /\ MarkAsDone(row) \in Row
         /\ MarkAsFailed(row) \in Row
BY DEF AbsentRow, CreatedRow, Row, Statuses, MarkAsProcessing, MarkAsDone, MarkAsFailed

\* What an append leaves of a log, and what it adds.
LEMMA AppendFacts ==
    ASSUME log \in [Topics -> [Partitions -> Seq(Requests)]],
           NEW t \in Topics, NEW r \in Requests, DocOf(r) \in Docs, AppendTo(t, r)
    PROVE  /\ log' \in [Topics -> [Partitions -> Seq(Requests)]]
           /\ \A u \in Topics, p \in Partitions :
                /\ (u # t \/ p # PartOf(t, r)) => log'[u][p] = log[u][p]
                /\ Len(log[u][p]) <= Len(log'[u][p])
                /\ \A i \in 1..Len(log[u][p]) : log'[u][p][i] = log[u][p][i]
           /\ LET p == PartOf(t, r)
              IN  /\ Len(log'[t][p]) = Len(log[t][p]) + 1
                  /\ log'[t][p][Len(log[t][p]) + 1] = r
<1> DEFINE q == PartOf(t, r)
<1>0. q \in Partitions
  BY PartOfType
<1>1. log' = [log EXCEPT ![t][q] = Append(@, r)]
  BY DEF AppendTo
<1>2. log[t][q] \in Seq(Requests)
  BY <1>0
<1>3. /\ Append(log[t][q], r) \in Seq(Requests)
      /\ Len(Append(log[t][q], r)) = Len(log[t][q]) + 1
      /\ \A i \in 1..Len(log[t][q]) : Append(log[t][q], r)[i] = log[t][q][i]
      /\ Append(log[t][q], r)[Len(log[t][q]) + 1] = r
  BY <1>2
<1>4. log'[t][q] = Append(log[t][q], r)
  BY <1>0, <1>1
<1>5. \A u \in Topics, p \in Partitions :
        (u # t \/ p # q) => log'[u][p] = log[u][p]
  BY <1>0, <1>1
<1>6. log' \in [Topics -> [Partitions -> Seq(Requests)]]
  BY <1>0, <1>1, <1>3
<1>7. ASSUME NEW u \in Topics, NEW p \in Partitions
      PROVE  /\ Len(log[u][p]) <= Len(log'[u][p])
             /\ \A i \in 1..Len(log[u][p]) : log'[u][p][i] = log[u][p][i]
  <2>1. Len(log[u][p]) \in Nat
    OBVIOUS
  <2>2. CASE u = t /\ p = q
    BY <2>1, <2>2, <1>3, <1>4
  <2>3. CASE u # t \/ p # q
    BY <2>1, <2>3, <1>5
  <2> QED
    BY <2>2, <2>3
<1>8. /\ Len(log'[t][q]) = Len(log[t][q]) + 1
      /\ log'[t][q][Len(log[t][q]) + 1] = r
  BY <1>3, <1>4
<1> QED
  BY <1>5, <1>6, <1>7, <1>8

-----------------------------------------------------------------------------
(* What every step has in common.                                           *)

\* A request never changes the document it is about, and what was handed to the
\* producer stays so.
DocsKept == \A r \in Requests : /\ DocOf(r) \in Docs => DocOf(r)' = DocOf(r)
                                /\ Sent(r) => Sent(r)'

\* Logs only grow at their ends.
LogGrows ==
    /\ log' \in [Topics -> [Partitions -> Seq(Requests)]]
    /\ \A t \in Topics, p \in Partitions :
         /\ Len(log[t][p]) <= Len(log'[t][p])
         /\ \A i \in 1..Len(log[t][p]) : log'[t][p][i] = log[t][p][i]

LEMMA SameLogGrows ==
    ASSUME TypeOK, UNCHANGED log
    PROVE  LogGrows
BY DEF TypeOK, LogGrows

LEMMA SameReqKeepsDocs ==
    ASSUME UNCHANGED req
    PROVE  DocsKept
BY DEF DocsKept, DocOf, Sent

LEMMA SameLogOK ==
    ASSUME TypeOK, LogOK, UNCHANGED log, DocsKept
    PROVE  LogOK'
<1> SUFFICES ASSUME NEW t \in Topics, NEW p \in Partitions, NEW i \in 1..Len(log[t][p])
             PROVE  /\ DocOf(log[t][p][i])' \in Docs
                    /\ Sent(log[t][p][i])'
                    /\ PartOf(t, log[t][p][i])' = p
  BY DEF LogOK, DocOf, Sent, PartOf
<1>1. log[t][p][i] \in Requests
  BY DEF TypeOK
<1> QED
  BY <1>1 DEF LogOK, DocsKept, DocOf, Sent, PartOf

LEMMA AppendLogOK ==
    ASSUME TypeOK, LogOK, UNCHANGED req,
           NEW t \in Topics, NEW r \in Requests, DocOf(r) \in Docs, Sent(r), AppendTo(t, r)
    PROVE  LogGrows /\ LogOK'
<1>1. LogGrows
  BY AppendFacts DEF TypeOK, LogGrows
<1>2. ASSUME NEW u \in Topics, NEW p \in Partitions, NEW i \in 1..Len(log'[u][p])
      PROVE  /\ DocOf(log'[u][p][i]) \in Docs /\ Sent(log'[u][p][i])
             /\ PartOf(u, log'[u][p][i]) = p
  <2>1. CASE u = t /\ p = PartOf(t, r) /\ i = Len(log[u][p]) + 1
    BY <2>1, AppendFacts DEF TypeOK
  <2>2. CASE ~(u = t /\ p = PartOf(t, r) /\ i = Len(log[u][p]) + 1)
    <3>1. Len(log[u][p]) \in Nat
      BY DEF TypeOK
    <3>2. i \in 1..Len(log[u][p])
      <4>1. CASE u = t /\ p = PartOf(t, r)
        BY <3>1, <4>1, <2>2, AppendFacts DEF TypeOK
      <4>2. CASE ~(u = t /\ p = PartOf(t, r))
        BY <4>2, AppendFacts DEF TypeOK
      <4> QED
        BY <4>1, <4>2
    <3>3. log'[u][p][i] = log[u][p][i]
      BY <1>1, <3>2 DEF LogGrows
    <3> QED
      BY <3>2, <3>3 DEF LogOK
  <2> QED
    BY <2>1, <2>2
<1> QED
  BY <1>1, <1>2 DEF LogOK, DocOf, Sent, PartOf

\* The record at a consumer's position stays there.
LEMMA GrowsAt ==
    ASSUME TypeOK, LogGrows, NEW t \in Topics, NEW p \in Partitions,
           pos[t][p] < Len(log[t][p])
    PROVE  /\ pos[t][p] < Len(log'[t][p])
           /\ log'[t][p][pos[t][p] + 1] = log[t][p][pos[t][p] + 1]
<1>1. pos[t][p] \in Nat /\ Len(log[t][p]) \in Nat /\ Len(log'[t][p]) \in Nat
  BY DEF TypeOK, LogGrows
<1>2. pos[t][p] + 1 \in 1..Len(log[t][p])
  BY <1>1
<1>3. /\ Len(log[t][p]) <= Len(log'[t][p])
      /\ \A i \in 1..Len(log[t][p]) : log'[t][p][i] = log[t][p][i]
  BY DEF LogGrows
<1>4. log'[t][p][pos[t][p] + 1] = log[t][p][pos[t][p] + 1]
  BY <1>2, <1>3
<1> QED
  BY <1>1, <1>3, <1>4

\* What the workers hold survives a step of anybody else.
LEMMA HandsKept ==
    ASSUME Core, LogGrows, DocsKept, UNCHANGED <<pos, worker>>
    PROVE  WorkerOK' /\ HoldsRecord' /\ SoleOwner'
<1>1. WorkerOK'
  BY DEF Core, WorkerOK, DocsKept, Busy, DocOf, Sent
<1>2. \A w \in Workers, t \in Topics, p \in Partitions : Owns(w, t, p)' => Owns(w, t, p)
  BY DEF Core, WorkerOK, Owns, Busy, PartOf, DocsKept, DocOf, Sent
<1>3. ASSUME NEW w \in Workers, NEW t \in Topics, NEW p \in Partitions, Owns(w, t, p)'
      PROVE  /\ pos[t][p] < Len(log'[t][p])
             /\ log'[t][p][pos[t][p] + 1] = worker[w].req
  <2>1. /\ pos[t][p] < Len(log[t][p])
        /\ log[t][p][pos[t][p] + 1] = worker[w].req
    BY <1>2, <1>3 DEF Core, HoldsRecord
  <2> QED
    BY <2>1, GrowsAt DEF Core
<1>4. HoldsRecord'
  BY <1>3 DEF HoldsRecord
<1>5. SoleOwner'
  BY <1>2 DEF Core, SoleOwner
<1> QED
  BY <1>1, <1>4, <1>5

-----------------------------------------------------------------------------
(* The core holds initially and every step keeps it.                        *)

LEMMA CoreInit ==
    ASSUME Init
    PROVE  Core
<1>1. \A t \in Topics, p \in Partitions : Len(log[t][p]) = 0
  BY DEF Init
<1>2. Idle \in Worker
  BY TopicsFacts, RowTypes DEF Idle, Worker, Pcs
<1>3. \A w \in Workers : ~Busy(w)
  BY DEF Init, Idle, Busy
<1>4. TypeOK
  BY <1>1, <1>2, FaultsAssumption, RowTypes DEF Init, TypeOK, Answers
<1>5. LogOK
  BY <1>1 DEF LogOK
<1>6. ReqOK
  BY NoneAssumption DEF Init, ReqOK, DocOf, Sent
<1>7. WorkerOK /\ HoldsRecord /\ SoleOwner
  BY <1>3 DEF WorkerOK, HoldsRecord, SoleOwner, Owns
<1> QED
  BY <1>4, <1>5, <1>6, <1>7 DEF Core

LEMMA CreateCore ==
    ASSUME Core, NEW d \in Docs, Create(d)
    PROVE  Core'
<1> USE DEF Create
<1>1. LogGrows /\ DocsKept
  BY SameLogGrows, SameReqKeepsDocs DEF Core
<1>2. TypeOK'
  BY RowTypes DEF Core, TypeOK
<1>3. ReqOK'
  BY DEF Core, ReqOK, TypeOK, DocOf, Sent, CreatedRow, AbsentRow, Row
<1> QED
  BY <1>1, <1>2, <1>3, HandsKept, SameLogOK DEF Core

LEMMA GenerateCore ==
    ASSUME Core, NEW r \in Requests, NEW d \in Docs, Generate(r, d)
    PROVE  Core'
<1> USE DEF Generate
<1>1. DocsKept
  BY NoneAssumption DEF Core, TypeOK, ReqOK, DocsKept, DocOf, Sent
<1>2. LogGrows
  BY SameLogGrows DEF Core
<1>3. TypeOK'
  BY DEF Core, TypeOK, Answers
<1>4. ReqOK'
  BY NoneAssumption DEF Core, ReqOK, TypeOK, DocOf, Sent
<1> QED
  BY <1>1, <1>2, <1>3, <1>4, HandsKept, SameLogOK DEF Core

\* A request that is sending or was answered 503 is about a document.
LEMMA MadeHasDoc ==
    ASSUME Core, NEW r \in Requests, req[r].state # "new"
    PROVE  DocOf(r) \in Docs
BY DEF Core, TypeOK, ReqOK, DocOf, Sent

LEMMA BrokerAppendsCore ==
    ASSUME Core, NEW r \in Requests, BrokerAppends(r)
    PROVE  Core'
<1> USE DEF BrokerAppends
<1>1. DocOf(r) \in Docs /\ Sent(r)
  BY MadeHasDoc DEF Sent
<1>2. LogGrows /\ LogOK' /\ DocsKept
  BY <1>1, AppendLogOK, SameReqKeepsDocs, TopicsFacts DEF Core
<1>3. TypeOK'
  <2>1. \A t \in Topics, p \in Partitions : pos'[t][p] <= Len(log'[t][p])
    BY <1>2 DEF Core, TypeOK, LogGrows
  <2> QED
    BY <1>2, <2>1 DEF Core, TypeOK, LogGrows
<1>4. ReqOK'
  BY DEF Core, ReqOK, DocOf, Sent
<1> QED
  BY <1>2, <1>3, <1>4, HandsKept DEF Core

LEMMA AnswerCore ==
    ASSUME Core, NEW r \in Requests, Accept(r) \/ NotQueued(r)
    PROVE  Core'
<1> USE DEF Accept, NotQueued
<1>0. req \in [Requests -> [state : Answers, doc : Docs \cup {None}]]
  BY DEF Core, TypeOK
<1>1. DocsKept
  <2>1. \A s \in Requests : req'[s].doc = req[s].doc /\ (Sent(s) => Sent(s)')
    BY <1>0 DEF Sent
  <2> QED
    BY <2>1 DEF DocsKept, DocOf
<1>2. LogGrows
  BY SameLogGrows DEF Core
<1>3. TypeOK'
  BY DEF Core, TypeOK, Answers
<1>4. ReqOK'
  BY DEF Core, ReqOK, TypeOK, DocOf, Sent
<1> QED
  BY <1>1, <1>2, <1>3, <1>4, HandsKept, SameLogOK DEF Core

\* The record at a consumer's position is one of a document that exists, and
\* it lies in the partition of that document.
LEMMA NextRecord ==
    ASSUME Core, NEW t \in Topics, NEW p \in Partitions, pos[t][p] < Len(log[t][p])
    PROVE  LET r == log[t][p][pos[t][p] + 1]
           IN  /\ r \in Requests
               /\ DocOf(r) \in Docs
               /\ Sent(r)
               /\ PartOf(t, r) = p
               /\ rows[DocOf(r)] \in Row
               /\ rows[DocOf(r)].status # "absent"
<1>1. pos[t][p] + 1 \in 1..Len(log[t][p])
  BY DEF Core, TypeOK
<1> QED
  BY <1>1 DEF Core, TypeOK, LogOK, ReqOK

LEMMA SkipCore ==
    ASSUME Core, NEW w \in Workers, NEW t \in Topics, NEW p \in Partitions, Skip(w, t, p)
    PROVE  Core'
<1> USE DEF Skip, Deliverable
<1>1. LogGrows /\ DocsKept
  BY SameLogGrows, SameReqKeepsDocs DEF Core
<1>2. TypeOK'
  BY DEF Core, TypeOK
<1>3. ReqOK' /\ WorkerOK' /\ SoleOwner'
  BY DEF Core, ReqOK, WorkerOK, SoleOwner, Owns, Busy, PartOf, DocOf, Sent
<1>4. \A v \in Workers, u \in Topics, q \in Partitions :
        Owns(v, u, q)' => Owns(v, u, q) /\ ~(u = t /\ q = p)
  BY DEF Owns, Busy, PartOf, DocOf, Sent
<1>5. \A u \in Topics, q \in Partitions : ~(u = t /\ q = p) => pos'[u][q] = pos[u][q]
  BY DEF Core, TypeOK
<1>6. HoldsRecord'
  BY <1>4, <1>5 DEF Core, HoldsRecord
<1> QED
  BY <1>1, <1>2, <1>3, <1>6, SameLogOK DEF Core

\* A worker that takes the record at the consumer's position of (t, p).
LEMMA TakeCore ==
    ASSUME Core, NEW w \in Workers, NEW t \in Topics, NEW p \in Partitions,
           NEW pc \in Pcs \ {"idle"}, NEW row \in Row, Deliverable(w, t, p),
           pc = "claiming" => row.status = "PENDING",
           pc = "rendering" => row.status = "PROCESSING",
           pc = "abandoning" => row.status \in {"PENDING", "PROCESSING"},
           worker' = [worker EXCEPT ![w] =
                        [pc |-> pc, topic |-> t, req |-> log[t][p][pos[t][p] + 1],
                         row |-> row, zombie |-> FALSE]],
           faults' \in 0..MaxFaults,
           UNCHANGED <<rows, req, log, pos, committed>>
    PROVE  Core'
<1> DEFINE r == log[t][p][pos[t][p] + 1]
<1> USE DEF Deliverable
<1>0. r \in Requests /\ DocOf(r) \in Docs /\ Sent(r) /\ PartOf(t, r) = p
  BY NextRecord
<1>1. LogGrows /\ DocsKept
  BY SameLogGrows, SameReqKeepsDocs DEF Core
<1>2. /\ worker' \in [Workers -> Worker]
      /\ worker'[w] = [pc |-> pc, topic |-> t, req |-> r, row |-> row, zombie |-> FALSE]
      /\ \A v \in Workers \ {w} : worker'[v] = worker[v]
  BY <1>0 DEF Core, TypeOK, Worker
<1>3. TypeOK'
  BY <1>2 DEF Core, TypeOK
<1>4. ReqOK'
  BY DEF Core, ReqOK, DocOf, Sent
<1>5. WorkerOK'
  BY <1>0, <1>2 DEF Core, WorkerOK, Busy, DocOf, Sent
<1>6. \A v \in Workers, u \in Topics, q \in Partitions :
        Owns(v, u, q)' => (v = w /\ u = t /\ q = p) \/ (v # w /\ Owns(v, u, q))
  BY <1>0, <1>2 DEF Owns, Busy, PartOf, DocOf, Sent
<1>7. HoldsRecord'
  BY <1>2, <1>6 DEF Core, HoldsRecord
<1>8. SoleOwner'
  BY <1>6 DEF Core, SoleOwner
<1> QED
  BY <1>1, <1>3, <1>4, <1>5, <1>7, <1>8, SameLogOK DEF Core

LEMMA DeliverCore ==
    ASSUME Core, NEW w \in Workers, NEW t \in Topics, NEW p \in Partitions, Deliver(w, t, p)
    PROVE  Core'
<1> DEFINE row == rows[DocOf(log[t][p][pos[t][p] + 1])]
<1>1. row \in Row /\ row.status \in {"PENDING", "PROCESSING"}
  BY NextRecord DEF Deliver, Deliverable, IsDuplicate, Terminal, Row, Statuses
<1>2. PcAfterRead(t, row) \in Pcs \ {"idle"}
  BY DEF PcAfterRead, Pcs
<1> QED
  BY <1>1, <1>2, TakeCore DEF Deliver, PcAfterRead, Core, TypeOK

LEMMA ReadFailsCore ==
    ASSUME Core, NEW w \in Workers, NEW t \in Topics, NEW p \in Partitions, ReadFails(w, t, p)
    PROVE  Core'
<1>1. faults' \in 0..MaxFaults
  BY FaultsAssumption DEF ReadFails, Fault, Core, TypeOK
<1>2. AbsentRow \in Row /\ "failed" \in Pcs \ {"idle"}
  BY RowTypes DEF Pcs
<1> QED
  BY <1>1, <1>2, TakeCore DEF ReadFails

\* The end of a delivery, whether it published its record or not.
LEMMA FinishCore ==
    ASSUME Core, NEW w \in Workers, Busy(w), Finish(w), LogGrows, UNCHANGED <<req, committed>>
    PROVE  /\ pos' \in [Topics -> [Partitions -> Nat]]
           /\ worker' \in [Workers -> Worker]
           /\ \A t \in Topics, p \in Partitions :
                pos[t][p] <= pos'[t][p] /\ pos'[t][p] <= Len(log'[t][p])
           /\ WorkerOK' /\ HoldsRecord' /\ SoleOwner'
<1> DEFINE t == worker[w].topic
           p == PartOf(t, worker[w].req)
<1>1. /\ worker[w] \in Worker /\ t \in Topics /\ p \in Partitions
      /\ ~worker[w].zombie => Owns(w, t, p)
  BY PartOfType DEF Core, TypeOK, WorkerOK, Worker, Owns
<1>2. /\ worker' \in [Workers -> Worker]
      /\ worker' = [worker EXCEPT ![w] = Idle]
  BY TopicsFacts, RowTypes DEF Core, TypeOK, Finish, Idle, Worker, Pcs
<1>3. \A v \in Workers : Busy(v)' => v # w /\ Busy(v) /\ worker'[v] = worker[v]
  BY <1>2 DEF Busy, Idle, Core, TypeOK
<1>4. \A v \in Workers, u \in Topics, q \in Partitions :
        Owns(v, u, q)' => v # w /\ Owns(v, u, q)
  BY <1>3 DEF Owns, PartOf, DocOf, Sent
<1>5. \A v \in Workers, u \in Topics, q \in Partitions :
        Owns(v, u, q)' => pos'[u][q] = pos[u][q]
  <2>1. CASE worker[w].zombie
    BY <2>1 DEF Finish
  <2>2. CASE ~worker[w].zombie
    <3>1. \A v \in Workers, u \in Topics, q \in Partitions :
            Owns(v, u, q)' => ~(u = t /\ q = p)
      BY <2>2, <1>1, <1>4 DEF Core, SoleOwner
    <3>2. pos' = [pos EXCEPT ![t][p] = @ + 1]
      BY <2>2 DEF Finish
    <3>3. \A u \in Topics, q \in Partitions : ~(u = t /\ q = p) => pos'[u][q] = pos[u][q]
      BY <3>2 DEF Core, TypeOK
    <3> QED
      BY <3>1, <3>3
  <2> QED
    BY <2>1, <2>2
<1>6. /\ pos' \in [Topics -> [Partitions -> Nat]]
      /\ \A u \in Topics, q \in Partitions :
           pos[u][q] <= pos'[u][q] /\ pos'[u][q] <= Len(log[u][q])
  <2>1. CASE worker[w].zombie
    BY <2>1 DEF Finish, Core, TypeOK
  <2>2. CASE ~worker[w].zombie
    <3>1. pos' = [pos EXCEPT ![t][p] = @ + 1] /\ pos[t][p] < Len(log[t][p])
      BY <2>2, <1>1 DEF Finish, Core, HoldsRecord
    <3> QED
      BY <3>1, <1>1 DEF Core, TypeOK
  <2> QED
    BY <2>1, <2>2
<1>7. \A u \in Topics, q \in Partitions :
        /\ pos[u][q] <= pos'[u][q] /\ pos'[u][q] <= Len(log'[u][q])
  BY <1>6 DEF LogGrows, Core, TypeOK
<1>8. WorkerOK'
  BY <1>3 DEF Core, WorkerOK, DocOf, Sent
<1>9. ASSUME NEW v \in Workers, NEW u \in Topics, NEW q \in Partitions, Owns(v, u, q)'
      PROVE  /\ pos'[u][q] < Len(log'[u][q])
             /\ log'[u][q][pos'[u][q] + 1] = worker'[v].req
  <2>1. /\ pos[u][q] < Len(log[u][q])
        /\ log[u][q][pos[u][q] + 1] = worker[v].req
    BY <1>4, <1>9 DEF Core, HoldsRecord
  <2>2. pos'[u][q] = pos[u][q] /\ worker'[v] = worker[v]
    BY <1>3, <1>5, <1>9 DEF Owns
  <2> QED
    BY <2>1, <2>2, GrowsAt DEF Core
<1>10. HoldsRecord'
  BY <1>9 DEF HoldsRecord
<1>11. SoleOwner'
  BY <1>4 DEF Core, SoleOwner
<1> QED
  BY <1>2, <1>6, <1>7, <1>8, <1>10, <1>11

\* A worker that goes on with its record, its record and partition unchanged.
LEMMA GoesOnCore ==
    ASSUME Core, NEW w \in Workers, Busy(w), NEW pc \in Pcs \ {"idle"}, NEW row \in Row,
           pc = "claiming" => row.status = "PENDING",
           pc = "rendering" => row.status = "PROCESSING",
           pc = "abandoning" => row.status \in {"PENDING", "PROCESSING"},
           GoOn(w, pc, row), UNCHANGED <<req, log, pos>>
    PROVE  /\ worker' \in [Workers -> Worker]
           /\ WorkerOK' /\ HoldsRecord' /\ SoleOwner'
<1>0. worker \in [Workers -> Worker]
  BY DEF Core, TypeOK
<1>1. /\ worker'[w] = [pc |-> pc, topic |-> worker[w].topic, req |-> worker[w].req,
                       row |-> row, zombie |-> worker[w].zombie]
      /\ \A v \in Workers \ {w} : worker'[v] = worker[v]
  BY <1>0 DEF GoOn
<1>2. /\ worker'[w] \in Worker
      /\ worker'[w].pc = pc /\ worker'[w].row = row
      /\ worker'[w].topic = worker[w].topic /\ worker'[w].req = worker[w].req
      /\ worker'[w].zombie = worker[w].zombie
  <2>1. worker[w] \in Worker /\ pc \in Pcs
    BY <1>0
  <2> QED
    BY <2>1, <1>1 DEF Worker
<1>3. worker' \in [Workers -> Worker]
  BY <1>0, <1>2 DEF GoOn
<1>4. ASSUME NEW v \in Workers, Busy(v)'
      PROVE  /\ worker'[v].req \in Requests
             /\ DocOf(worker'[v].req) \in Docs /\ Sent(worker'[v].req)
             /\ worker'[v].pc = "claiming" => worker'[v].row.status = "PENDING"
             /\ worker'[v].pc = "rendering" => worker'[v].row.status = "PROCESSING"
             /\ worker'[v].pc = "abandoning" => worker'[v].row.status \in {"PENDING", "PROCESSING"}
  <2>1. CASE v = w
    BY <2>1, <1>2 DEF Core, WorkerOK
  <2>2. CASE v # w
    BY <2>2, <1>1, <1>4 DEF Core, WorkerOK, Busy
  <2> QED
    BY <2>1, <2>2
<1>5. WorkerOK'
  BY <1>4 DEF WorkerOK, DocOf, Sent
<1>6. \A v \in Workers, t \in Topics, p \in Partitions :
        Owns(v, t, p)' => Owns(v, t, p) /\ worker'[v].req = worker[v].req
  BY <1>1, <1>2 DEF Owns, Busy, PartOf, DocOf, Sent
<1>7. HoldsRecord'
  <2> SUFFICES ASSUME NEW v \in Workers, NEW t \in Topics, NEW p \in Partitions, Owns(v, t, p)'
               PROVE  pos[t][p] < Len(log[t][p]) /\ log[t][p][pos[t][p] + 1] = worker'[v].req
    BY DEF HoldsRecord
  <2> QED
    BY <1>6 DEF Core, HoldsRecord
<1>8. SoleOwner'
  BY <1>6 DEF Core, SoleOwner
<1> QED
  BY <1>3, <1>5, <1>7, <1>8

LEMMA ClaimCore ==
    ASSUME Core, NEW w \in Workers, Claim(w)
    PROVE  Core'
<1> DEFINE r == worker[w].req
           row == MarkAsProcessing(worker[w].row, r)
<1>0. /\ Busy(w) /\ worker[w] \in Worker
      /\ r \in Requests /\ DocOf(r) \in Docs
      /\ worker[w].row \in Row
  BY DEF Claim, Busy, Core, TypeOK, WorkerOK, Worker
<1>1. row \in Row /\ row.status = "PROCESSING"
  BY <1>0, RowTypes DEF MarkAsProcessing, Row
<1>2. LogGrows /\ DocsKept
  BY SameLogGrows, SameReqKeepsDocs DEF Core, Claim
<1>3. /\ worker' \in [Workers -> Worker]
      /\ WorkerOK' /\ HoldsRecord' /\ SoleOwner'
  BY <1>0, <1>1, GoesOnCore DEF Claim, Pcs
<1>4. rows' = [rows EXCEPT ![DocOf(r)] = row]
  BY DEF Claim, Save
<1>5. TypeOK'
  BY <1>1, <1>3, <1>4 DEF Core, TypeOK, Claim
<1>6. ReqOK'
  BY <1>0, <1>1, <1>4 DEF Core, ReqOK, TypeOK, Claim, DocOf, Sent
<1>7. LogOK'
  BY <1>2, SameLogOK DEF Core, Claim
<1> QED
  BY <1>3, <1>5, <1>6, <1>7 DEF Core

\* A commit of any row that exists, and the end of the delivery.
LEMMA SaveAndFinishCore ==
    ASSUME Core, NEW w \in Workers, Busy(w), NEW row \in Row, row.status # "absent",
           Save(worker[w].req, row), Finish(w), UNCHANGED <<req, log, committed, faults>>
    PROVE  Core'
<1> DEFINE r == worker[w].req
<1>1. r \in Requests /\ DocOf(r) \in Docs
  BY DEF Core, WorkerOK
<1>2. LogGrows /\ DocsKept
  BY SameLogGrows, SameReqKeepsDocs DEF Core
<1>3. /\ pos' \in [Topics -> [Partitions -> Nat]]
      /\ worker' \in [Workers -> Worker]
      /\ \A t \in Topics, p \in Partitions :
           pos[t][p] <= pos'[t][p] /\ pos'[t][p] <= Len(log'[t][p])
      /\ WorkerOK' /\ HoldsRecord' /\ SoleOwner'
  BY <1>2, FinishCore
<1>4. rows' = [rows EXCEPT ![DocOf(r)] = row]
  BY DEF Save
<1>5. \A t \in Topics, p \in Partitions : committed[t][p] <= pos'[t][p]
  BY <1>3 DEF Core, TypeOK
<1>6. TypeOK'
  BY <1>1, <1>3, <1>4, <1>5 DEF Core, TypeOK
<1>7. ReqOK'
  BY <1>1, <1>4 DEF Core, ReqOK, TypeOK, DocOf, Sent
<1> QED
  BY <1>2, <1>3, <1>6, <1>7, SameLogOK DEF Core

LEMMA StoreCore ==
    ASSUME Core, NEW w \in Workers, Store(w)
    PROVE  Core'
<1>1. Busy(w) /\ worker[w].row \in Row
  BY DEF Store, Busy, Core, TypeOK, Worker
<1>2. /\ MarkAsDone(worker[w].row) \in Row
      /\ MarkAsDone(worker[w].row).status # "absent"
  BY <1>1 DEF MarkAsDone, Row, Statuses
<1> QED
  BY <1>1, <1>2, SaveAndFinishCore DEF Store

LEMMA AbandonCore ==
    ASSUME Core, NEW w \in Workers, Abandon(w)
    PROVE  Core'
<1>1. Busy(w) /\ worker[w].row \in Row
  BY DEF Abandon, Busy, Core, TypeOK, Worker
<1>2. /\ MarkAsFailed(worker[w].row) \in Row
      /\ MarkAsFailed(worker[w].row).status # "absent"
  BY <1>1 DEF MarkAsFailed, Row, Statuses
<1> QED
  BY <1>1, <1>2, SaveAndFinishCore DEF Abandon

LEMMA AttemptFailsCore ==
    ASSUME Core, NEW w \in Workers, AttemptFails(w)
    PROVE  Core'
<1>0. Busy(w)
  BY DEF AttemptFails, Busy
<1>1. LogGrows /\ DocsKept
  BY SameLogGrows, SameReqKeepsDocs DEF Core, AttemptFails
<1>2. faults' \in 0..MaxFaults
  BY FaultsAssumption DEF AttemptFails, Fault, Core, TypeOK
<1>3. /\ worker' \in [Workers -> Worker]
      /\ WorkerOK' /\ HoldsRecord' /\ SoleOwner'
  BY <1>0, RowTypes, GoesOnCore DEF AttemptFails, Pcs
<1>4. TypeOK'
  BY <1>2, <1>3 DEF Core, TypeOK, AttemptFails
<1>5. ReqOK'
  BY DEF Core, ReqOK, AttemptFails, DocOf, Sent
<1>6. LogOK'
  BY <1>1, SameLogOK DEF Core, AttemptFails
<1> QED
  BY <1>3, <1>4, <1>5, <1>6 DEF Core

LEMMA RouteCore ==
    ASSUME Core, NEW w \in Workers, Route(w)
    PROVE  Core' /\ LogGrows
<1> DEFINE t == worker[w].topic
           r == worker[w].req
<1>0. /\ Busy(w) /\ r \in Requests /\ DocOf(r) \in Docs /\ Sent(r)
      /\ NextTopic(t) \in Topics
  BY TopicsFacts DEF Route, Busy, Core, TypeOK, WorkerOK, Worker
<1>1. LogGrows /\ LogOK'
  BY <1>0, AppendLogOK DEF Core, Route
<1>2. /\ pos' \in [Topics -> [Partitions -> Nat]]
      /\ worker' \in [Workers -> Worker]
      /\ \A u \in Topics, p \in Partitions :
           pos[u][p] <= pos'[u][p] /\ pos'[u][p] <= Len(log'[u][p])
      /\ WorkerOK' /\ HoldsRecord' /\ SoleOwner'
  BY <1>0, <1>1, FinishCore DEF Route
<1>3. \A u \in Topics, p \in Partitions : committed[u][p] <= pos'[u][p]
  BY <1>2 DEF Core, TypeOK
<1>4. TypeOK'
  BY <1>1, <1>2, <1>3 DEF Core, TypeOK, Route, LogGrows
<1>5. ReqOK'
  BY DEF Core, ReqOK, Route, DocOf, Sent
<1> QED
  BY <1>1, <1>2, <1>4, <1>5 DEF Core

\* A delivery that ends without moving its consumer.
LEMMA LetGoCore ==
    ASSUME Core, LogGrows, UNCHANGED <<rows, req, pos, committed>>, faults' \in 0..MaxFaults,
           LogOK', NEW w \in Workers, worker' = [worker EXCEPT ![w] = Idle]
    PROVE  Core'
<1>0. Idle \in Worker /\ Idle.pc = "idle"
  BY TopicsFacts, RowTypes DEF Idle, Worker, Pcs
<1>1. worker' \in [Workers -> Worker]
  BY <1>0 DEF Core, TypeOK
<1>2. \A v \in Workers : Busy(v)' => Busy(v) /\ worker'[v] = worker[v]
  BY <1>0 DEF Core, TypeOK, Busy
<1>3. \A v \in Workers, t \in Topics, p \in Partitions :
        Owns(v, t, p)' => Owns(v, t, p) /\ worker'[v] = worker[v]
  BY <1>2 DEF Owns, PartOf, DocOf, Sent
<1>4. WorkerOK'
  BY <1>2 DEF Core, WorkerOK, DocOf, Sent
<1>5. ASSUME NEW v \in Workers, NEW t \in Topics, NEW p \in Partitions, Owns(v, t, p)'
      PROVE  pos[t][p] < Len(log'[t][p]) /\ log'[t][p][pos[t][p] + 1] = worker'[v].req
  <2>1. /\ pos[t][p] < Len(log[t][p])
        /\ log[t][p][pos[t][p] + 1] = worker'[v].req
    BY <1>3, <1>5 DEF Core, HoldsRecord
  <2> QED
    BY <2>1, GrowsAt DEF Core
<1>6. HoldsRecord' /\ SoleOwner'
  BY <1>3, <1>5 DEF Core, HoldsRecord, SoleOwner
<1>7. \A t \in Topics, p \in Partitions : pos[t][p] <= Len(log'[t][p])
  BY DEF Core, TypeOK, LogGrows
<1>8. TypeOK'
  BY <1>1, <1>7 DEF Core, TypeOK, LogGrows
<1>9. ReqOK'
  BY DEF Core, ReqOK, DocOf, Sent
<1> QED
  BY <1>4, <1>6, <1>8, <1>9 DEF Core

LEMMA RouteFailsCore ==
    ASSUME Core, NEW w \in Workers, RouteFails(w)
    PROVE  Core' /\ LogGrows
<1>0. /\ worker[w].req \in Requests /\ DocOf(worker[w].req) \in Docs /\ Sent(worker[w].req)
      /\ NextTopic(worker[w].topic) \in Topics
  BY TopicsFacts DEF RouteFails, Busy, Core, TypeOK, WorkerOK, Worker
<1>1. LogGrows /\ LogOK'
  BY <1>0, AppendLogOK, SameLogGrows, SameReqKeepsDocs, SameLogOK DEF Core, RouteFails
<1>2. faults' \in 0..MaxFaults
  BY FaultsAssumption DEF RouteFails, Fault, Core, TypeOK
<1> QED
  BY <1>1, <1>2, LetGoCore DEF RouteFails

LEMMA DieCore ==
    ASSUME Core, NEW w \in Workers, Die(w)
    PROVE  Core'
<1>1. LogGrows /\ LogOK'
  BY SameLogGrows, SameReqKeepsDocs, SameLogOK DEF Core, Die
<1>2. faults' \in 0..MaxFaults
  BY FaultsAssumption DEF Die, Fault, Core, TypeOK
<1> QED
  BY <1>1, <1>2, LetGoCore DEF Die

\* A partition that goes back to a committed offset, its owner gone.
LEMMA RewindCore ==
    ASSUME Core, NEW t \in Topics, NEW p \in Partitions, Fault,
           \E offset \in 0..pos[t][p] : Rewind(t, p, offset),
           worker' \in [Workers -> Worker],
           \A w \in Workers : ~Owns(w, t, p) => worker'[w] = worker[w],
           \A w \in Workers : Owns(w, t, p) =>
             worker'[w] \in {Idle, [worker[w] EXCEPT !.zombie = TRUE]},
           UNCHANGED <<rows, req, log>>
    PROVE  Core'
<1>1. LogGrows /\ LogOK'
  BY SameLogGrows, SameReqKeepsDocs, SameLogOK DEF Core
<1>2. faults' \in 0..MaxFaults
  BY FaultsAssumption DEF Fault, Core, TypeOK
<1>3. PICK offset \in 0..pos[t][p] : Rewind(t, p, offset)
  OBVIOUS
<1>4. /\ pos' \in [Topics -> [Partitions -> Nat]]
      /\ committed' \in [Topics -> [Partitions -> Nat]]
      /\ \A u \in Topics, q \in Partitions :
           /\ ~(u = t /\ q = p) => pos'[u][q] = pos[u][q]
           /\ committed'[u][q] <= pos'[u][q]
           /\ pos'[u][q] <= Len(log[u][q])
  BY <1>3 DEF Core, TypeOK, Rewind
<1>5. TypeOK'
  BY <1>2, <1>4 DEF Core, TypeOK
<1>6. \A w \in Workers : Busy(w)' =>
        /\ Busy(w)
        /\ worker'[w].pc = worker[w].pc /\ worker'[w].req = worker[w].req
        /\ worker'[w].row = worker[w].row /\ worker'[w].topic = worker[w].topic
        /\ Owns(w, t, p) => worker'[w].zombie
  <2> SUFFICES ASSUME NEW w \in Workers, Busy(w)', Owns(w, t, p)
               PROVE  /\ worker'[w].pc = worker[w].pc /\ worker'[w].req = worker[w].req
                      /\ worker'[w].row = worker[w].row /\ worker'[w].topic = worker[w].topic
                      /\ worker'[w].zombie
    BY DEF Busy, Owns
  <2>1. worker'[w] = [worker[w] EXCEPT !.zombie = TRUE]
    BY DEF Busy, Idle
  <2>2. worker[w] \in Worker
    BY DEF Core, TypeOK
  <2> QED
    BY <2>1, <2>2 DEF Worker
<1>7. \A w \in Workers, u \in Topics, q \in Partitions :
        Owns(w, u, q)' => /\ Owns(w, u, q) /\ ~(u = t /\ q = p)
                          /\ worker'[w].req = worker[w].req
  <2> SUFFICES ASSUME NEW w \in Workers, NEW u \in Topics, NEW q \in Partitions, Owns(w, u, q)'
               PROVE  /\ Owns(w, u, q) /\ ~(u = t /\ q = p)
                      /\ worker'[w].req = worker[w].req
    OBVIOUS
  <2>1. Busy(w)' /\ ~worker'[w].zombie
    BY DEF Owns
  <2>2. ~Owns(w, t, p) /\ worker'[w] = worker[w]
    BY <1>6, <2>1
  <2>3. Owns(w, u, q)
    BY <2>2 DEF Owns, Busy, PartOf, DocOf, Sent
  <2> QED
    BY <2>2, <2>3
<1>8. WorkerOK'
  BY <1>6 DEF Core, WorkerOK, DocOf, Sent
<1>9. HoldsRecord'
  <2> SUFFICES ASSUME NEW w \in Workers, NEW u \in Topics, NEW q \in Partitions, Owns(w, u, q)'
               PROVE  pos'[u][q] < Len(log[u][q]) /\ log[u][q][pos'[u][q] + 1] = worker'[w].req
    BY DEF HoldsRecord
  <2>1. Owns(w, u, q) /\ pos'[u][q] = pos[u][q] /\ worker'[w].req = worker[w].req
    BY <1>4, <1>7
  <2>2. pos[u][q] < Len(log[u][q]) /\ log[u][q][pos[u][q] + 1] = worker[w].req
    BY <2>1 DEF Core, HoldsRecord
  <2> QED
    BY <2>1, <2>2
<1>10. SoleOwner'
  BY <1>7 DEF Core, SoleOwner
<1>11. ReqOK'
  BY DEF Core, ReqOK, DocOf, Sent
<1> QED
  BY <1>1, <1>5, <1>8, <1>9, <1>10, <1>11 DEF Core

LEMMA CrashCore ==
    ASSUME Core, NEW t \in Topics, NEW p \in Partitions, Crash(t, p)
    PROVE  Core'
<1>1. Idle \in Worker
  BY TopicsFacts, RowTypes DEF Idle, Worker, Pcs
<1>2. worker' \in [Workers -> Worker]
  BY <1>1 DEF Crash, Core, TypeOK
<1> QED
  BY <1>2, RewindCore DEF Crash

LEMMA PauseCore ==
    ASSUME Core, NEW t \in Topics, NEW p \in Partitions, Pause(t, p)
    PROVE  Core'
<1>1. \A w \in Workers : [worker[w] EXCEPT !.zombie = TRUE] \in Worker
  BY DEF Core, TypeOK, Worker
<1>2. worker' \in [Workers -> Worker]
  BY <1>1 DEF Pause, Core, TypeOK
<1>3. /\ \A w \in Workers : ~Owns(w, t, p) => worker'[w] = worker[w]
      /\ \A w \in Workers : Owns(w, t, p) => worker'[w] = [worker[w] EXCEPT !.zombie = TRUE]
  BY DEF Pause
<1> QED
  BY <1>2, <1>3, RewindCore DEF Pause

LEMMA CoreStep ==
    ASSUME Core, [Next]_vars
    PROVE  Core'
<1>1. ASSUME NEW d \in Docs, Create(d)
      PROVE  Core'
  BY <1>1, CreateCore
<1>2. ASSUME NEW r \in Requests, NEW d \in Docs, Generate(r, d)
      PROVE  Core'
  BY <1>2, GenerateCore
<1>3. ASSUME NEW r \in Requests, BrokerAppends(r) \/ Accept(r) \/ NotQueued(r)
      PROVE  Core'
  BY <1>3, BrokerAppendsCore, AnswerCore
<1>4. ASSUME NEW t \in Topics, NEW p \in Partitions, Poll(t, p)
      PROVE  Core'
  BY <1>4, SkipCore, DeliverCore, ReadFailsCore DEF Poll
<1>5. ASSUME NEW w \in Workers, Work(w)
      PROVE  Core'
  BY <1>5, ClaimCore, StoreCore, AbandonCore, AttemptFailsCore, RouteCore, RouteFailsCore DEF Work
<1>6. ASSUME NEW t \in Topics, NEW p \in Partitions, GroupStep(t, p)
      PROVE  Core'
  BY <1>6, CrashCore, PauseCore DEF GroupStep
<1>7. ASSUME NEW w \in Workers, Die(w)
      PROVE  Core'
  BY <1>7, DieCore
<1>8. CASE UNCHANGED vars
  BY <1>8 DEF vars, Core, TypeOK, LogOK, ReqOK, WorkerOK, HoldsRecord, SoleOwner, Owns, Busy,
              PartOf, DocOf, Sent
<1> QED
  BY <1>1, <1>2, <1>3, <1>4, <1>5, <1>6, <1>7, <1>8 DEF Next, RequestStep

\* Every step keeps the documents of the requests and only appends to the logs.
LEMMA StepGrows ==
    ASSUME Core, [Next]_vars
    PROVE  LogGrows /\ DocsKept
<1> USE DEF Core
<1>1. ASSUME NEW r \in Requests, NEW d \in Docs, Generate(r, d)
      PROVE  LogGrows /\ DocsKept
  BY <1>1, SameLogGrows, NoneAssumption DEF Generate, TypeOK, ReqOK, DocsKept, DocOf, Sent
<1>2. ASSUME NEW r \in Requests, BrokerAppends(r)
      PROVE  LogGrows /\ DocsKept
  BY <1>2, MadeHasDoc, AppendLogOK, SameReqKeepsDocs, TopicsFacts DEF BrokerAppends, Sent
<1>3. ASSUME NEW r \in Requests, Accept(r) \/ NotQueued(r)
      PROVE  LogGrows /\ DocsKept
  <2>1. \A s \in Requests : req'[s].doc = req[s].doc /\ (Sent(s) => Sent(s)')
    <3>1. req \in [Requests -> [state : Answers, doc : Docs \cup {None}]]
      BY DEF TypeOK
    <3> QED
      BY <1>3, <3>1 DEF Accept, NotQueued, Sent
  <2> QED
    BY <1>3, <2>1, SameLogGrows DEF Accept, NotQueued, DocsKept, DocOf
<1>4. ASSUME NEW w \in Workers, Route(w) \/ RouteFails(w)
      PROVE  LogGrows /\ DocsKept
  BY <1>4, RouteCore, RouteFailsCore, SameReqKeepsDocs DEF Route, RouteFails
<1>5. CASE UNCHANGED <<req, log>>
  BY <1>5, SameLogGrows, SameReqKeepsDocs
<1> QED
  BY <1>1, <1>2, <1>3, <1>4, <1>5
  DEF Next, RequestStep, Poll, Work, GroupStep, vars, Create, Skip, Deliver, ReadFails, Claim,
      Store, Abandon, AttemptFails, Crash, Pause, Die

LEMMA CoreInvariant == Spec => []Core
<1>1. Init => Core
  BY CoreInit
<1>2. Core /\ [Next]_vars => Core'
  BY CoreStep
<1> QED
  BY <1>1, <1>2, PTL DEF Spec

\* Every variable keeps its type, and no partition is ever consumed past its
\* end or committed past its consumer, through crashes, stalls and redeliveries.
THEOREM TypeCorrect == Spec => []TypeOK
<1>1. Core => TypeOK
  BY DEF Core
<1> QED
  BY <1>1, CoreInvariant, PTL
=============================================================================
