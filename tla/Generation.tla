----------------------------- MODULE Generation -----------------------------
(***************************************************************************)
(* PDF generation, from POST /v1/documents/{id}/generate to the settled    *)
(* document: the request path (DocumentService, KafkaDocumentEventPublisher*)
(* ), the topics of the worker (@RetryableTopic: the main topic, two retry *)
(* topics and the dead-letter topic), the consumers of those topics        *)
(* (DocumentGenerationConsumer, PdfGenerationService) and the documents    *)
(* table (Document).                                                       *)
(*                                                                         *)
(* A topic partition is an append-only log.  `pos' is the position of its  *)
(* current consumer, `committed' an offset it was rewound to.  A           *)
(* transaction of the worker is two steps, the read and the commit: a row  *)
(* has no version and is written whole, so a commit overwrites whatever    *)
(* was committed since its read.                                           *)
(***************************************************************************)
EXTENDS Naturals, Sequences

CONSTANTS
    Docs,           \* documents, each a row of some tenant's schema
    Requests,       \* calls of POST /generate
    Workers,        \* consumer threads, of every instance of the application
    Attempts,       \* deliveries before the dead-letter topic, 3 in the code
    Partitions,     \* partition numbers
    PartitionOf,    \* [Topics -> [Docs -> Partitions]]: where a document's key goes
    MaxFaults,      \* bound on crashes, failed publications and failed abandons
    CanPause,       \* TRUE: a consumer may stall past max.poll.interval.ms
    None            \* no request, no document

\* The topics a record goes through, in order: the main one, one for each
\* retry, the dead letters.
Main == 1
Dlq == Attempts + 1
Topics == Main..Dlq

ASSUME AttemptsAssumption == Attempts \in Nat \ {0}
ASSUME PartitionsAssumption == PartitionOf \in [Topics -> [Docs -> Partitions]]
ASSUME FaultsAssumption == MaxFaults \in Nat /\ CanPause \in BOOLEAN
ASSUME NoneAssumption == None \notin Docs /\ None \notin Requests

VARIABLES
    rows,           \* the documents table
    req,            \* what each call of /generate is about and was answered
    log,            \* log[t][p]: the records of partition p of topic t
    pos,            \* pos[t][p]: how many of them their consumer is done with
    committed,      \* committed[t][p]: the offset the group was last known to hold
    worker,         \* what each consumer thread is doing
    faults          \* faults so far, at most MaxFaults

vars == <<rows, req, log, pos, committed, worker, faults>>

-----------------------------------------------------------------------------
(* The document: its row and the transitions of Document.java.  Timestamps *)
(* are kept as set or not, except queuedAt, which names its request.       *)

Statuses == {"absent", "PENDING", "PROCESSING", "DONE", "FAILED"}

Row == [status : Statuses, queuedAt : Requests \cup {None},
        started : BOOLEAN, finished : BOOLEAN, pdf : BOOLEAN]

AbsentRow == [status |-> "absent", queuedAt |-> None,
              started |-> FALSE, finished |-> FALSE, pdf |-> FALSE]

CreatedRow == [AbsentRow EXCEPT !.status = "PENDING"]

MarkAsProcessing(row, r) ==
    [row EXCEPT !.status = "PROCESSING", !.queuedAt = r, !.started = TRUE]

MarkAsDone(row) ==
    [row EXCEPT !.status = "DONE", !.finished = TRUE, !.pdf = TRUE]

MarkAsFailed(row) ==
    [row EXCEPT !.status = "FAILED", !.finished = TRUE]

Terminal(row) == row.status \in {"DONE", "FAILED"}

\* Broken variant: anything that was started is a duplicate.
IsDuplicateStarted(row) == row.status # "PENDING"

\* What a second request for a document, or a second delivery, finds: nothing
\* to do.
IsDuplicate(row) == Terminal(row)

\* GET /pdf answers 200 from the content alone, whatever the status says.
PdfServed(row) == row.pdf

-----------------------------------------------------------------------------
(* Topics and workers.                                                     *)

\* Where the framework publishes a record whose delivery failed.  A failing
\* dead-letter handler gets its record again through the same topic.
NextTopic(t) == IF t = Dlq THEN Dlq ELSE t + 1

DocOf(r) == req[r].doc

\* The partition of topic t that holds the records of request r: the key is
\* the document's id.
PartOf(t, r) == PartitionOf[t][DocOf(r)]

InLog(t, r) == \E i \in 1..Len(log[t][PartOf(t, r)]) : log[t][PartOf(t, r)][i] = r

AppendTo(t, r) == log' = [log EXCEPT ![t][PartOf(t, r)] = Append(@, r)]

Idle == [pc |-> "idle", topic |-> Main, req |-> None,
         row |-> AbsentRow, zombie |-> FALSE]

Busy(w) == worker[w].pc # "idle"

\* Broken variant: the changed columns only.
SaveChanged(r, row) ==
    rows' = [rows EXCEPT ![DocOf(r)] =
               [status |-> row.status,
                queuedAt |-> IF row.queuedAt = None THEN @.queuedAt ELSE row.queuedAt,
                started |-> @.started \/ row.started,
                finished |-> @.finished \/ row.finished,
                pdf |-> @.pdf \/ row.pdf]]

\* A commit of the worker: an UPDATE of every column, not of the changed ones.
Save(r, row) == rows' = [rows EXCEPT ![DocOf(r)] = row]

\* w handles a record of partition p of topic t as its rightful consumer.
Owns(w, t, p) == /\ Busy(w)
                 /\ ~worker[w].zombie
                 /\ worker[w].topic = t
                 /\ p = PartOf(t, worker[w].req)

\* w goes on with its record.
GoOn(w, pc, row) ==
    worker' = [worker EXCEPT ![w] =
                 [pc |-> pc, topic |-> worker[w].topic, req |-> worker[w].req,
                  row |-> row, zombie |-> worker[w].zombie]]

\* The delivery of w's record ends: its consumer moves on to the next record.
\* A consumer that lost the partition meanwhile moves nothing.
Finish(w) ==
    LET t == worker[w].topic
        p == PartOf(t, worker[w].req)
    IN  /\ worker' = [worker EXCEPT ![w] = Idle]
        /\ pos' = IF worker[w].zombie THEN pos
                                      ELSE [pos EXCEPT ![t][p] = @ + 1]

\* One more fault, if the bound allows it.
Fault == faults < MaxFaults /\ faults' = faults + 1

-----------------------------------------------------------------------------
Init ==
    /\ rows = [d \in Docs |-> AbsentRow]
    /\ req = [r \in Requests |-> [state |-> "new", doc |-> None]]
    /\ log = [t \in Topics |-> [p \in Partitions |-> <<>>]]
    /\ pos = [t \in Topics |-> [p \in Partitions |-> 0]]
    /\ committed = [t \in Topics |-> [p \in Partitions |-> 0]]
    /\ worker = [w \in Workers |-> Idle]
    /\ faults = 0

-----------------------------------------------------------------------------
(* The request path.                                                       *)

\* POST /v1/documents.
Create(d) ==
    /\ rows[d].status = "absent"
    /\ rows' = [rows EXCEPT ![d] = CreatedRow]
    /\ UNCHANGED <<req, log, pos, committed, worker, faults>>

\* POST /generate reads the document: one that does not exist is a 404 and one
\* that is not PENDING a 409; a PENDING one has its event handed to the producer.
Generate(r, d) ==
    /\ req[r].state = "new"
    /\ req' = [req EXCEPT ![r] =
                 [state |-> IF rows[d].status = "PENDING" THEN "sending" ELSE "refused",
                  doc |-> d]]
    /\ UNCHANGED <<rows, log, pos, committed, worker, faults>>

\* The broker writes the event.  Nothing recalls a request that is already on
\* its way to the broker when the caller's wait ends.
BrokerAppends(r) ==
    /\ req[r].state \in {"sending", "unqueued"}
    /\ ~InLog(Main, r)
    /\ AppendTo(Main, r)
    /\ UNCHANGED <<rows, req, pos, committed, worker, faults>>

\* The acknowledgement arrives in time: 202.
Accept(r) ==
    /\ req[r].state = "sending"
    /\ InLog(Main, r)
    /\ req' = [req EXCEPT ![r].state = "accepted"]
    /\ UNCHANGED <<rows, log, pos, committed, worker, faults>>

\* No acknowledgement in time, an error from the producer or an interrupt:
\* GenerationNotQueuedException, 503.
NotQueued(r) ==
    /\ req[r].state = "sending"
    /\ req' = [req EXCEPT ![r].state = "unqueued"]
    /\ UNCHANGED <<rows, log, pos, committed, worker, faults>>

-----------------------------------------------------------------------------
(* The worker.                                                             *)

\* What a delivery makes of the row it reads: the dead-letter handler is about
\* to mark it FAILED, the consumer to claim it or to render it again.
PcAfterRead(t, row) == IF t = Dlq THEN "abandoning"
                       ELSE IF row.status = "PENDING" THEN "claiming"
                       ELSE "rendering"

\* Broken variant: two consumers of a group share a partition.
DeliverableShared(w, t, p) == ~Busy(w) /\ pos[t][p] < Len(log[t][p])

\* The next record of partition p of topic t, for an idle worker.
Deliverable(w, t, p) ==
    /\ ~Busy(w)
    /\ \A v \in Workers : ~Owns(v, t, p)
    /\ pos[t][p] < Len(log[t][p])

\* A record of a finished document is a duplicate: skipped, not retried, by
\* generateSync and by abandonGeneration alike.
Skip(w, t, p) ==
    /\ Deliverable(w, t, p)
    /\ IsDuplicate(rows[DocOf(log[t][p][pos[t][p] + 1])])
    /\ pos' = [pos EXCEPT ![t][p] = @ + 1]
    /\ UNCHANGED <<rows, req, log, committed, worker, faults>>

\* A record of an unfinished document: its row is read, and kept detached.
Deliver(w, t, p) ==
    LET r == log[t][p][pos[t][p] + 1]
        row == rows[DocOf(r)]
    IN  /\ Deliverable(w, t, p)
        /\ ~IsDuplicate(row)
        /\ worker' = [worker EXCEPT ![w] =
                        [pc |-> PcAfterRead(t, row), topic |-> t, req |-> r,
                         row |-> row, zombie |-> FALSE]]
        /\ UNCHANGED <<rows, req, log, pos, committed, faults>>

\* The database refuses the read.
ReadFails(w, t, p) ==
    /\ Deliverable(w, t, p)
    /\ worker' = [worker EXCEPT ![w] =
                    [pc |-> "failed", topic |-> t, req |-> log[t][p][pos[t][p] + 1],
                     row |-> AbsentRow, zombie |-> FALSE]]
    /\ Fault
    /\ UNCHANGED <<rows, req, log, pos, committed>>

\* The first transaction of generateSync commits the claim it read PENDING.
Claim(w) ==
    LET row == MarkAsProcessing(worker[w].row, worker[w].req)
    IN  /\ worker[w].pc = "claiming"
        /\ Save(worker[w].req, row)
        /\ GoOn(w, "rendering", row)
        /\ UNCHANGED <<req, log, pos, committed, faults>>

\* The render succeeded and the second transaction merges the detached
\* document, every column of it, as the first transaction left it.
Store(w) ==
    /\ worker[w].pc = "rendering"
    /\ Save(worker[w].req, MarkAsDone(worker[w].row))
    /\ Finish(w)
    /\ UNCHANGED <<req, log, committed, faults>>

\* abandonGeneration commits.
Abandon(w) ==
    /\ worker[w].pc = "abandoning"
    /\ Save(worker[w].req, MarkAsFailed(worker[w].row))
    /\ Finish(w)
    /\ UNCHANGED <<req, log, committed, faults>>

\* Broken variant: the first failure is final.
AttemptFailsForGood(w) ==
    /\ worker[w].pc \in {"claiming", "rendering"}
    /\ Save(worker[w].req, MarkAsFailed(worker[w].row))
    /\ Finish(w)
    /\ UNCHANGED <<req, log, committed, faults>>

\* The template, the renderer or a transaction throws.  In the dead-letter
\* handler that can only be the database, and counts as a fault.
AttemptFails(w) ==
    /\ worker[w].pc \in {"claiming", "rendering", "abandoning"}
    /\ GoOn(w, "failed", AbsentRow)
    /\ IF worker[w].topic = Dlq THEN Fault ELSE UNCHANGED faults
    /\ UNCHANGED <<rows, req, log, pos, committed>>

\* The framework publishes the failed record to the next topic and moves on.
Route(w) ==
    /\ worker[w].pc = "failed"
    /\ AppendTo(NextTopic(worker[w].topic), worker[w].req)
    /\ Finish(w)
    /\ UNCHANGED <<rows, req, committed, faults>>

\* That publication is not confirmed, written or not: the record stays where
\* it is and is delivered again.
RouteFails(w) ==
    /\ worker[w].pc = "failed"
    /\ Fault
    /\ \/ AppendTo(NextTopic(worker[w].topic), worker[w].req)
       \/ UNCHANGED log
    /\ worker' = [worker EXCEPT ![w] = Idle]
    /\ UNCHANGED <<rows, req, pos, committed>>

-----------------------------------------------------------------------------
(* The consumer group.                                                     *)

\* Broken variant: an offset committed before its record was handled.
RewindAhead(t, p, offset) ==
    /\ offset \in committed[t][p]..pos[t][p]
    /\ committed' = [committed EXCEPT ![t][p] = offset + 1]
    /\ pos' = [pos EXCEPT ![t][p] = offset + 1]

\* The offset the group holds for a partition when its consumer goes: offsets
\* are committed once in a while, after the records of a poll, so it is any
\* offset from the last known one to the consumer's position.
Rewind(t, p, offset) ==
    /\ offset \in committed[t][p]..pos[t][p]
    /\ committed' = [committed EXCEPT ![t][p] = offset]
    /\ pos' = [pos EXCEPT ![t][p] = offset]

\* The consumer of a partition dies, with the delivery it was in the middle of;
\* the next owner starts from the committed offset.
Crash(t, p) ==
    /\ Fault
    /\ \E offset \in 0..pos[t][p] : Rewind(t, p, offset)
    /\ worker' = [w \in Workers |-> IF Owns(w, t, p) THEN Idle ELSE worker[w]]
    /\ UNCHANGED <<rows, req, log>>

\* The consumer of a partition stalls: the group gives the partition away while
\* the delivery is still running, and the delivery will run to its end.
Pause(t, p) ==
    /\ CanPause
    /\ Fault
    /\ \E w \in Workers : Owns(w, t, p)
    /\ \E offset \in 0..pos[t][p] : Rewind(t, p, offset)
    /\ worker' = [w \in Workers |-> IF Owns(w, t, p)
                                    THEN [worker[w] EXCEPT !.zombie = TRUE]
                                    ELSE worker[w]]
    /\ UNCHANGED <<rows, req, log>>

\* A consumer that lost its partition dies before its delivery ends.  Its stall
\* was the fault.
Die(w) ==
    /\ worker[w].zombie
    /\ worker' = [worker EXCEPT ![w] = Idle]
    /\ UNCHANGED <<rows, req, log, pos, committed, faults>>

-----------------------------------------------------------------------------
RequestStep == \/ \E d \in Docs : Create(d)
               \/ \E r \in Requests, d \in Docs : Generate(r, d)
               \/ \E r \in Requests : BrokerAppends(r) \/ Accept(r) \/ NotQueued(r)

Poll(t, p) == \E w \in Workers : Skip(w, t, p) \/ Deliver(w, t, p) \/ ReadFails(w, t, p)

Work(w) == Claim(w) \/ Store(w) \/ Abandon(w) \/ AttemptFails(w) \/ Route(w) \/ RouteFails(w)

GroupStep(t, p) == Crash(t, p) \/ Pause(t, p)

Next == \/ RequestStep
        \/ \E t \in Topics, p \in Partitions : Poll(t, p) \/ GroupStep(t, p)
        \/ \E w \in Workers : Work(w) \/ Die(w)

Spec == Init /\ [][Next]_vars

\* Consumers keep polling and threads keep running.  Nobody owes a request, an
\* acknowledgement or a fault.
FairSpec == /\ Spec
            /\ \A t \in Topics, p \in Partitions : WF_vars(Poll(t, p))
            /\ \A w \in Workers : WF_vars(Work(w))

-----------------------------------------------------------------------------
(* Properties.                                                             *)

Pcs == {"idle", "claiming", "rendering", "abandoning", "failed"}

Worker == [pc : Pcs, topic : Topics, req : Requests \cup {None},
           row : Row, zombie : BOOLEAN]

Answers == {"new", "sending", "accepted", "unqueued", "refused"}

\* Type invariant: every variable has its type, a partition is committed no
\* further than it is consumed and consumed no further than it is written.
TypeOK ==
    /\ rows \in [Docs -> Row]
    /\ req \in [Requests -> [state : Answers, doc : Docs \cup {None}]]
    /\ log \in [Topics -> [Partitions -> Seq(Requests)]]
    /\ pos \in [Topics -> [Partitions -> Nat]]
    /\ committed \in [Topics -> [Partitions -> Nat]]
    /\ worker \in [Workers -> Worker]
    /\ faults \in 0..MaxFaults
    /\ \A t \in Topics, p \in Partitions :
          /\ committed[t][p] <= pos[t][p]
          /\ pos[t][p] <= Len(log[t][p])

\* GET /pdf decides by the content and documents its 409 by the status: they
\* agree on every row, however the deliveries of two requests, a redelivery
\* and an abandon overwrote each other.
PdfServedIffDone == \A d \in Docs : PdfServed(rows[d]) <=> rows[d].status = "DONE"

\* A row's stamps tell where it is and what put it there: finished exactly when
\* DONE or FAILED, started and queued together, never while PENDING and always
\* once PROCESSING or DONE, and queuedAt is the time of a request for this very
\* document whose event the broker holds.
StampsTellTheRun ==
    \A d \in Docs :
      LET row == rows[d]
      IN  /\ row.finished <=> Terminal(row)
          /\ row.started <=> row.queuedAt # None
          /\ row.status \in {"absent", "PENDING"} => ~row.started
          /\ row.status \in {"PROCESSING", "DONE"} => row.started
          /\ row.started => /\ DocOf(row.queuedAt) = d
                            /\ InLog(Main, row.queuedAt)

\* A document is FAILED only after one of its requests failed every attempt:
\* its event went through the main topic, both retries and the dead letters.
FailedOnlyWhenExhausted ==
    \A d \in Docs : rows[d].status = "FAILED" =>
      \E r \in Requests : DocOf(r) = d /\ \A t \in Topics : InLog(t, r)

\* Some event for d is in the main topic.
Queued(d) == \E r \in Requests : DocOf(r) = d /\ InLog(Main, r)

\* Some record for d is still ahead of the consumer of its partition.
Outstanding(d) ==
    \E t \in Topics :
      LET p == PartitionOf[t][d]
      IN  \E i \in (pos[t][p] + 1)..Len(log[t][p]) : DocOf(log[t][p][i]) = d

\* The transitions Document.java guards.
LifecycleSteps == {<<"absent", "PENDING">>, <<"PENDING", "PROCESSING">>, <<"PENDING", "FAILED">>,
                   <<"PROCESSING", "DONE">>, <<"PROCESSING", "FAILED">>}

\* Where nothing is delivered twice the lifecycle is the one Document guards:
\* a document with a single event in the main topic, while no fault happened,
\* only ever takes a transition of markAsProcessing, markAsDone or markAsFailed
\* from a status those accept, whatever its retries did.
SingleRunFollowsLifecycle ==
    [][faults' = 0 =>
         \A d \in Docs :
           (\A r, s \in Requests :
              DocOf(r) = d /\ InLog(Main, r) /\ DocOf(s) = d /\ InLog(Main, s) => r = s)
           => \/ rows'[d].status = rows[d].status
              \/ <<rows[d].status, rows'[d].status>> \in LifecycleSteps]_vars

\* No work is lost: a document whose event the broker took is finished, or a
\* record for it is still to be delivered.  Skipping duplicates, the blind
\* commits, failed publications, crashes and redeliveries from the committed
\* offset never leave one PENDING or PROCESSING with nothing behind it.  It
\* needs ~CanPause: a stalled consumer may overwrite a finished row and die.
UnfinishedIsOutstanding ==
    \A d \in Docs : Queued(d) => Terminal(rows[d]) \/ Outstanding(d)

\* An accepted request settles: once /generate answered 202, its document is
\* eventually DONE or FAILED for good.
AcceptedSettles ==
    \A d \in Docs :
      (\E r \in Requests : req[r].state = "accepted" /\ DocOf(r) = d) ~> []Terminal(rows[d])

\* "The broker did not confirm a generation request, so it was not queued and
\* nothing will run" (GenerationNotQueuedException): no run is one of a request
\* that was answered 503.
NotQueuedNeverRuns ==
    \A d \in Docs : rows[d].started => req[rows[d].queuedAt].state # "unqueued"

\* "Document must be PENDING to start processing", and "Cannot mark document as
\* FAILED from state DONE" (Document): a DONE or FAILED document keeps its status.
TerminalIsFinal ==
    [][\A d \in Docs : Terminal(rows[d]) => rows'[d].status = rows[d].status]_vars
=============================================================================
