------------------------------- MODULE Follow -------------------------------
(***************************************************************************)
(* The console's reader of a run (console/follow.js): the answer of a      *)
(* generate call starts a follow, which reads the document back on a       *)
(* backoff until it is settled, and the note under the response offers to  *)
(* check again where the reading stopped.                                  *)
(*                                                                         *)
(* The page is one thread.  What interleaves is what it waits for: timers, *)
(* answers on their way, frames, and the reader's clicks on a note painted *)
(* some frames ago.  Around it stand the document and its worker, and the  *)
(* tenant's budget of requests, which others spend as well.                *)
(***************************************************************************)
EXTENDS Naturals, Sequences, FiniteSets

CONSTANTS
    FollowDocs,     \* documents
    Nil,            \* no note, no call, no answer
    Delays,         \* reads of a run: the length of FOLLOW_DELAYS, 9 in the code
    Reserve,        \* FOLLOW_RESERVE, 2 in the code
    FollowLimit,    \* requests the tenant's window admits
    MaxFollows,     \* bound on the generate calls that are followed
    MaxRuns         \* bound on the runs of all follows together

ASSUME NumbersAssumption == /\ Delays \in Nat \ {0} /\ Reserve \in Nat
                            /\ FollowLimit \in Nat /\ MaxFollows \in Nat /\ MaxRuns \in Nat
ASSUME NilAssumption == /\ Nil \notin [doc : FollowDocs, answer : {"PENDING", "PROCESSING",
                                            "DONE", "FAILED", "accepted", "refused"}]
                        /\ Nil \notin Nat

VARIABLES
    status,         \* the status of each document
    budget,         \* requests the tenant may still make now
    follows,        \* the follow objects, in the order of their creation
    followRun,      \* the counter that numbers their runs
    timers,         \* set timeouts: the next read, or the end of a Retry-After
    reads,          \* fetches on their way, with the answer once the server gave it
    generating,     \* the generate call that is executing
    note,           \* the follow in responseNotes
    slot,           \* what the last frame painted for it
    others          \* history: requests served since the last read of a follow's run

followVars ==
    <<status, budget, follows, followRun, timers, reads, generating, note, slot, others>>
server == <<status, budget>>
page == <<follows, followRun, timers, reads>>

-----------------------------------------------------------------------------
States == {"PENDING", "PROCESSING", "DONE", "FAILED"}

isTerminal(s) == s \in {"DONE", "FAILED"}

\* How far along the lifecycle a state is.
Rank(s) == IF s = "PENDING" THEN 0 ELSE IF s = "PROCESSING" THEN 1 ELSE 2

Phases == {"following", "ended", "paused", "rate-limited", "saving-budget", "error",
           "no-credential"}

ReadAnswers == [status : {200}, state : States, remaining : Nat] \cup [status : {429}]
ASSUME AnswersAssumption == Nil \notin ReadAnswers

Failure == [status |-> 503]     \* any other answer, or none

Follows == [doc : FollowDocs, state : States, phase : Phases, reads : Nat, run : Nat]
Timers == [kind : {"read", "resume"}, follow : Nat, run : Nat, attempt : Nat]
Reads == [follow : Nat, run : Nat, attempt : Nat, answer : ReadAnswers \cup {Nil}]
GenerateCalls == [doc : FollowDocs, answer : States \cup {"accepted", "refused"}]
Slots == [doc : FollowDocs, state : States, phase : Phases, reads : Nat, target : Nat]

FollowTypeOK ==
    /\ status \in [FollowDocs -> States]
    /\ budget \in 0..FollowLimit
    /\ follows \in Seq(Follows)
    /\ followRun \in Nat
    /\ timers \subseteq Timers
    /\ reads \subseteq Reads
    /\ generating \in GenerateCalls \cup {Nil}
    /\ note \in DOMAIN follows \cup {Nil}
    /\ slot \in Slots \cup {Nil}
    /\ others \in [1..MaxFollows -> 0..(Reserve + 1)]

FollowInit ==
    /\ status = [d \in FollowDocs |-> "PENDING"]
    /\ budget = FollowLimit
    /\ follows = <<>>
    /\ followRun = 0
    /\ timers = {}
    /\ reads = {}
    /\ generating = Nil
    /\ note = Nil
    /\ slot = Nil
    /\ others = [f \in 1..MaxFollows |-> 0]

-----------------------------------------------------------------------------
(* The server: documents move along their lifecycle, the window gives and  *)
(* takes.                                                                   *)

\* A request that passed the limiter counts for every follow it was not a
\* read of, up to what the reserve can tell apart.
Counted(mine) ==
    [f \in 1..MaxFollows |->
        IF f = mine THEN 0 ELSE IF others[f] > Reserve THEN others[f] ELSE others[f] + 1]

\* A consumer claims the document, or settles it.
Progress(d) ==
    /\ \/ status[d] = "PENDING" /\ status' = [status EXCEPT ![d] = "PROCESSING"]
       \/ /\ status[d] = "PROCESSING"
          /\ \E s \in {"DONE", "FAILED"} : status' = [status EXCEPT ![d] = s]
    /\ UNCHANGED <<budget, page, generating, note, slot, others>>

\* A request leaves the window.
Refill ==
    /\ budget < FollowLimit
    /\ budget' = budget + 1
    /\ UNCHANGED <<status, page, generating, note, slot, others>>

\* The tenant makes a request of its own, here or elsewhere.
Spend ==
    /\ budget > 0
    /\ budget' = budget - 1
    /\ others' = Counted(Nil)
    /\ UNCHANGED <<status, page, generating, note, slot>>

\* The server's answer to a read.
Serve(r) ==
    /\ r \in reads /\ r.answer = Nil
    /\ LET f == r.follow
           Answered(a) == reads' = (reads \ {r}) \cup {[r EXCEPT !.answer = a]}
       IN \/ /\ budget > 0
             /\ budget' = budget - 1
             /\ others' = Counted(IF r.run = follows[f].run THEN f ELSE Nil)
             /\ Answered([status |-> 200, state |-> status[follows[f].doc],
                          remaining |-> budget - 1])
          \/ /\ budget = 0
             /\ Answered([status |-> 429])
             /\ UNCHANGED <<budget, others>>
    /\ UNCHANGED <<status, follows, followRun, timers, generating, note, slot>>

-----------------------------------------------------------------------------
(* The page: runs, timers and reads.                                        *)

Timer(kind, f, run, attempt) ==
    [kind |-> kind, follow |-> f, run |-> run, attempt |-> attempt]

\* Broken variant: a restart does not number its run.
RestartSameRun(f, left) ==
    /\ follows' = [follows EXCEPT ![f].phase = "following"]
    /\ timers' = left \cup {Timer("read", f, follows[f].run, 0)}
    /\ UNCHANGED <<followRun, reads>>

\* A new run of a follow, its first read after the first delay; left are the
\* timers that stay set.
restartFollow(f, left) ==
    /\ followRun' = followRun + 1
    /\ follows' = [follows EXCEPT ![f].run = followRun + 1, ![f].phase = "following"]
    /\ timers' = left \cup {Timer("read", f, followRun + 1, 0)}
    /\ reads' = reads

\* A read goes out with the key Authorize holds; the reader may have logged out
\* by then.  fs are the follows as they are by now.
readState(fs, f, attempt) ==
    \/ /\ follows' = [fs EXCEPT ![f].reads = @ + 1]
       /\ reads' = reads \cup {[follow |-> f, run |-> fs[f].run, attempt |-> attempt,
                                answer |-> Nil]}
    \/ /\ follows' = [fs EXCEPT ![f].phase = "no-credential"]
       /\ reads' = reads

\* A timeout of the next read or of Retry-After.  One of an older run does
\* nothing.
Fire(t) ==
    /\ t \in timers
    /\ \/ /\ t.run # follows[t.follow].run
          /\ timers' = timers \ {t}
          /\ UNCHANGED <<follows, followRun, reads>>
       \/ /\ t.run = follows[t.follow].run
          /\ t.kind = "read"
          /\ timers' = timers \ {t}
          /\ readState(follows, t.follow, t.attempt)
          /\ UNCHANGED followRun
       \/ /\ t.run = follows[t.follow].run
          /\ t.kind = "resume"
          /\ followRun < MaxRuns
          /\ restartFollow(t.follow, timers \ {t})
    /\ UNCHANGED <<server, generating, note, slot, others>>

\* Broken variant: the budget is not looked at.
NextPhaseSpends(s, a, attempt) ==
    IF isTerminal(s) THEN "ended"
    ELSE IF attempt + 1 >= Delays THEN "paused" ELSE "following"

\* Where a 200 leaves the run: s is the state it now shows.
NextPhase(s, a, attempt) ==
    IF isTerminal(s) THEN "ended"
    ELSE IF a.remaining <= Reserve THEN "saving-budget"
    ELSE IF attempt + 1 >= Delays THEN "paused"
    ELSE "following"

\* What an answer to a read does to its follow.
Taken(r, a, follow) ==
    CASE a.status = 429 -> [follow EXCEPT !.phase = "rate-limited"]
      [] a.status = 503 -> [follow EXCEPT !.phase = "error"]
      [] a.status = 200 -> [follow EXCEPT !.state = a.state,
                                          !.phase = NextPhase(a.state, a, r.attempt)]

\* Broken variant: the end of the backoff is counted once more.
SetsOneLess(r, a) ==
    IF a.status = 429 THEN {Timer("resume", r.follow, r.run, 0)}
    ELSE IF a.status = 200 /\ NextPhase(a.state, a, r.attempt + 1) = "following"
    THEN {Timer("read", r.follow, r.run, r.attempt + 1)}
    ELSE {}

\* The timeout it sets: the limiter always names a Retry-After with its 429.
Sets(r, a) ==
    IF a.status = 429 THEN {Timer("resume", r.follow, r.run, 0)}
    ELSE IF a.status = 200 /\ NextPhase(a.state, a, r.attempt) = "following"
    THEN {Timer("read", r.follow, r.run, r.attempt + 1)}
    ELSE {}

\* Broken variant: every answer counts.
ListensToAll(r) == TRUE

\* An answer counts only for the run that asked.
Listens(r) == follows[r.follow].run = r.run

\* The fetch settles: with the server's answer, or with a failure, whether the
\* server had seen it or not.
Arrive(r) ==
    /\ r \in reads
    /\ reads' = reads \ {r}
    /\ \/ ~Listens(r) /\ UNCHANGED <<follows, timers>>
       \/ /\ Listens(r)
          /\ \E a \in {r.answer, Failure} \ {Nil} :
                 /\ follows' = [follows EXCEPT ![r.follow] = Taken(r, a, @)]
                 /\ timers' = timers \cup Sets(r, a)
    /\ UNCHANGED <<server, followRun, generating, note, slot, others>>

-----------------------------------------------------------------------------
(* The page: the generate call and the note.                                *)

\* The reader executes a generate call, and the server answers it: 202 for a
\* PENDING document, 409 with the state it is in for another, or a refusal, of
\* which the limiter's takes nothing.
Execute(d) ==
    /\ generating = Nil
    /\ Len(follows) < MaxFollows /\ followRun < MaxRuns
    /\ \/ /\ budget > 0
          /\ budget' = budget - 1
          /\ others' = Counted(Nil)
          /\ \E a \in {IF status[d] = "PENDING" THEN "accepted" ELSE status[d], "refused"} :
                 generating' = [doc |-> d, answer |-> a]
       \/ /\ generating' = [doc |-> d, answer |-> "refused"]
          /\ UNCHANGED <<budget, others>>
    /\ UNCHANGED <<status, page, note, slot>>

\* Broken variant: every follow starts at the second state, as the default of
\* a 409 has it.
StartedAhead(d, s) ==
    [doc |-> d, state |-> IF s = "PENDING" THEN "PROCESSING" ELSE s, phase |-> "following",
     reads |-> 0, run |-> followRun + 1]

\* Broken variant: whatever the answer said.
StartedAsTold(d, s) ==
    [doc |-> d, state |-> generating.answer, phase |-> "following", reads |-> 0,
     run |-> followRun + 1]

\* A new follow.
Started(d, s) == [doc |-> d, state |-> s, phase |-> "following", reads |-> 0, run |-> followRun + 1]

\* An accepted call starts a run at the first state, without a read.
startFollow ==
    /\ generating.answer = "accepted"
    /\ follows' = Append(follows, Started(generating.doc, "PENDING"))
    /\ followRun' = followRun + 1
    /\ timers' = timers \cup {Timer("read", Len(follows) + 1, followRun + 1, 0)}
    /\ reads' = reads
    /\ note' = Len(follows) + 1

\* A 409 names the state the document is in, and is followed from a read at
\* once.
resumeFollow ==
    /\ generating.answer \in States
    /\ followRun' = followRun + 1
    /\ readState(Append(follows, Started(generating.doc, generating.answer)), Len(follows) + 1, 0)
    /\ timers' = timers
    /\ note' = Len(follows) + 1

\* The answer reaches the store: its note replaces the last one, with a follow
\* or without.
captureResponses ==
    /\ generating # Nil
    /\ generating' = Nil
    /\ \/ startFollow
       \/ resumeFollow
       \/ /\ generating.answer = "refused"
          /\ note' = Nil
          /\ UNCHANGED page
    /\ UNCHANGED <<server, slot, others>>

\* The signature of a painted note: what decides whether it is painted anew.
Signature(f) == [doc |-> follows[f].doc, state |-> follows[f].state,
                 phase |-> follows[f].phase, reads |-> follows[f].reads]

SlotShows(f) ==
    /\ slot # Nil
    /\ [doc |-> slot.doc, state |-> slot.state, phase |-> slot.phase, reads |-> slot.reads]
         = Signature(f)

Painted(f) == [doc |-> follows[f].doc, state |-> follows[f].state, phase |-> follows[f].phase,
               reads |-> follows[f].reads, target |-> f]

\* A frame.
paintResponseNotes ==
    /\ \/ note = Nil /\ slot # Nil /\ slot' = Nil
       \/ note # Nil /\ ~SlotShows(note) /\ slot' = Painted(note)
    /\ UNCHANGED <<server, page, generating, note, others>>

\* "Check again" is offered where a run stopped and does not resume by itself.
OffersRetry(phase) == phase \in {"paused", "saving-budget", "error"}

\* The reader presses it, in the note as it was painted.  The note is hidden
\* while a call executes.
CheckAgain ==
    /\ slot # Nil /\ OffersRetry(slot.phase)
    /\ generating = Nil
    /\ followRun < MaxRuns
    /\ restartFollow(slot.target, timers)
    /\ UNCHANGED <<server, generating, note, slot, others>>

-----------------------------------------------------------------------------
FollowNext ==
    \/ \E d \in FollowDocs : Progress(d) \/ Execute(d)
    \/ Refill \/ Spend
    \/ \E r \in reads : Serve(r) \/ Arrive(r)
    \/ \E t \in timers : Fire(t)
    \/ captureResponses \/ paintResponseNotes \/ CheckAgain

FollowSpec == FollowInit /\ [][FollowNext]_followVars

\* Timeouts fire, fetches are answered or fail, and their answers are handled.
Waited == (\E t \in timers : Fire(t)) \/ (\E r \in reads : Serve(r) \/ Arrive(r))

FollowFairSpec == FollowSpec /\ WF_followVars(Waited)

-----------------------------------------------------------------------------
(* Properties.                                                              *)

\* What goes on for a follow: the timeouts and reads of its present run.
Continuations(f) ==
    {t \in timers : t.follow = f /\ t.run = follows[f].run}
      \cup {r \in reads : r.follow = f /\ r.run = follows[f].run}

\* A follow that says it is checking, or resuming by itself, is waiting for
\* exactly one thing; one that says it stopped waits for none.  Neither a click
\* on an old note nor an answer that comes late forks a run or loses it.
OneChain ==
    \A f \in DOMAIN follows :
        Cardinality(Continuations(f)) =
            IF follows[f].phase \in {"following", "rate-limited"} THEN 1 ELSE 0

\* A follow never shows a state its document has not reached, and one that has
\* ended shows the outcome: a document does not settle twice here.
ShownIsTrue ==
    \A f \in DOMAIN follows :
        /\ Rank(follows[f].state) <= Rank(status[follows[f].doc])
        /\ follows[f].phase = "ended" => follows[f].state = status[follows[f].doc]

\* What a follow shows never goes back, however its reads are answered.
NeverBack ==
    [][\A f \in DOMAIN follows : Rank(follows[f].state) <= Rank(follows'[f].state)]_followVars

\* The backoff leaves the last requests to the reader: whenever a run is about
\* to read again by itself, more than the reserve is left, but for what others
\* took since the run read last.  Only the first read of a run is not asked.
ReserveIsTheReaders ==
    \A f \in DOMAIN follows : \A c \in Continuations(f) :
        (c.attempt > 0 /\ (c \in reads => c.answer = Nil)) => budget + others[f] > Reserve

\* Reading comes to a stop: at an outcome, a refusal, the budget or the end of
\* the backoff.
ReadingStops ==
    \A f \in 1..MaxFollows :
        (f \in DOMAIN follows /\ follows[f].phase = "following")
          ~> (f \in DOMAIN follows /\ follows[f].phase # "following")
=============================================================================
