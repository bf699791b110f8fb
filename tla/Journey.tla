------------------------------- MODULE Journey -------------------------------
(***************************************************************************)
(* Run all steps (console/journey.js): the walkthrough, run the way a      *)
(* reader would do it.                                                     *)
(*                                                                         *)
(* A run is one thread of timers: it waits for the step's button, pauses,  *)
(* clicks, waits for the answer, waits for the evidence that the step is   *)
(* done, pauses, and looks for the next step.  Every timer checks that its *)
(* run is still the one of the page.  The reader keeps every control       *)
(* meanwhile: Stop, another run, the blocks, Execute, logging out.         *)
(***************************************************************************)
EXTENDS Naturals, Sequences, FiniteSets, SequencesExt, FiniteSetsExt

CONSTANTS
    Journey,        \* config.journey: records [done, chain]; done is "held", "run" or "answered"
    Documented,     \* the steps whose operation the document has
    Polls,          \* polls of a condition before its deadline (30 s every 120 ms)
    MaxRunsStarted, \* bound on the runs of all steps
    MaxReads        \* bound on what the reader does meanwhile

ASSUME JourneyAssumption == /\ Len(Journey) > 0 /\ Documented \subseteq DOMAIN Journey
                            /\ Polls \in Nat \ {0}
                            /\ MaxRunsStarted \in Nat /\ MaxReads \in Nat

VARIABLES
    autopilot,      \* the run of the page by number, 0 when there is none
    step,           \* run.step of each run, 0 before its first
    thread,         \* the timer each run has pending
    blockOpen,      \* steps whose operation is open, with its button
    calling,        \* steps whose call is out: the button is disabled
    lastAnswers,    \* the last answer to each step's operation
    evidence,       \* credentials held and the state of the followed run
    walk,           \* progress as the rail, the strip and the panel paint it
    unpainted,      \* a frame is queued
    clicked,        \* history: the last click of a run, and whether their number is odd
    reader          \* bound

journeyVars == <<autopilot, step, thread, blockOpen, calling, lastAnswers, evidence,
                 walk, unpainted, clicked, reader>>
world == <<blockOpen, calling, lastAnswers, evidence>>
Steps == DOMAIN Journey
JourneyRuns == 1 .. MaxRunsStarted

-----------------------------------------------------------------------------
Gone == [at |-> "gone", polls |-> 0, heard |-> FALSE]
\* Threw: an exception ended the timer and left the run standing.
Threw == [Gone EXCEPT !.at = "threw"]
\* heard: lastAnswers[key] is another than when the step began.
Wait(at, heard) == [at |-> at, polls |-> Polls, heard |-> heard]

stepDone(i) == CASE Journey[i].done = "held" -> i \in evidence.held
                 [] Journey[i].done = "run" -> evidence.follow = "done"
                 [] OTHER -> lastAnswers[i] = "ok"

\* In a chain a later step proves the earlier ones.
Proves(i, j) == i <= j /\ stepDone(j) /\ (i = j \/ \A k \in i .. j : Journey[k].chain)
DoneSteps == {i \in Steps : \E j \in Steps : Proves(i, j)}

journeyState == LET undone == Steps \ DoneSteps
                IN  [done |-> DoneSteps, next |-> IF undone = {} THEN 0 ELSE Min(undone)]

\* What the rail, the strip, the panel and the button draw from.
paintJourney == [state |-> journeyState, run |-> autopilot # 0]

JourneyInit ==
    /\ autopilot = 0
    /\ step = [r \in JourneyRuns |-> 0] /\ thread = [r \in JourneyRuns |-> Gone]
    /\ blockOpen = {} /\ calling = {} /\ lastAnswers = [i \in Steps |-> "none"]
    /\ evidence = [held |-> {}, follow |-> "none"]
    /\ walk = paintJourney /\ unpainted = FALSE
    /\ clicked = [odd |-> FALSE, run |-> 0, step |-> 0] /\ reader = 0

-----------------------------------------------------------------------------
(* The run.                                                                 *)

stopJourney == autopilot' = 0 /\ unpainted' = TRUE

Ends(r) == /\ stopJourney /\ thread' = [thread EXCEPT ![r] = Gone]
           /\ UNCHANGED <<step, world, clicked>>

\* A run goes on to the next step not done, unless it has just tried that one.
StopsAtUnlessDone(r, next) == next = 0
StopsAt(r, next) == next = 0 \/ next = step[r]

nextJourneyStep(r) ==
    LET next == journeyState.next
    IN  IF StopsAt(r, next) THEN Ends(r)
        ELSE IF next \notin Documented
        THEN /\ stopJourney /\ step' = [step EXCEPT ![r] = next]
             /\ thread' = [thread EXCEPT ![r] = Gone]
             /\ UNCHANGED <<world, clicked>>
        ELSE \* openOperation opens it
             /\ step' = [step EXCEPT ![r] = next]
             /\ thread' = [thread EXCEPT ![r] = Wait("button", FALSE)]
             /\ blockOpen' = blockOpen \cup {next}
             /\ unpainted' = TRUE
             /\ UNCHANGED <<autopilot, calling, lastAnswers, evidence, clicked>>

runJourney ==
    /\ autopilot = 0 /\ journeyState.next # 0
    /\ \E r \in JourneyRuns :
        /\ step[r] = 0 /\ \A q \in JourneyRuns : q < r => step[q] # 0
        /\ unpainted' = TRUE
        /\ LET next == journeyState.next IN
           /\ step' = [step EXCEPT ![r] = next]
           /\ IF next \in Documented
              THEN /\ autopilot' = r /\ blockOpen' = blockOpen \cup {next}
                   /\ thread' = [thread EXCEPT ![r] = Wait("button", FALSE)]
              ELSE UNCHANGED <<autopilot, blockOpen, thread>>
    /\ UNCHANGED <<calling, lastAnswers, evidence, walk, clicked, reader>>

\* The condition a wait polls, and where it goes once met.
Met(r) == LET i == step[r] IN
    CASE thread[r].at = "button" -> i \in blockOpen \ calling
      [] thread[r].at = "answer" -> thread[r].heard
      [] thread[r].at = "evidence" -> stepDone(i)

\* A document that failed is not waited for.
Failed(r) == /\ thread[r].at = "evidence" /\ Journey[step[r]].done = "run"
             /\ evidence.follow = "failed"

Goes(r, at) == /\ thread' = [thread EXCEPT ![r] = Wait(at, thread[r].heard)]
               /\ UNCHANGED <<autopilot, step, world, unpainted, clicked>>

\* whileRunning: polls until met, or stops the run at the deadline.
PollsOn(r) == /\ thread' = [thread EXCEPT ![r].polls = @ - 1]
              /\ UNCHANGED <<autopilot, step, world, unpainted, clicked>>

MissesForever(r) == IF Failed(r) THEN Ends(r) ELSE thread[r].polls > 1 /\ PollsOn(r)

Misses(r) == IF thread[r].polls > 0 /\ ~Failed(r) THEN PollsOn(r) ELSE Ends(r)

whileRunning(r) ==
    /\ thread[r].at \in {"button", "answer", "evidence"}
    /\ IF ~Met(r) THEN Misses(r)
       ELSE IF thread[r].at = "button" THEN Goes(r, "click")
       ELSE IF thread[r].at = "evidence" THEN Goes(r, "pause")
       ELSE IF lastAnswers[step[r]] = "ok" THEN Goes(r, "evidence") ELSE Ends(r)

\* After a pause it fills the body and clicks whatever the block is by now: a
\* closed one has no button, and a disabled button takes no click.
ClickStep(r) ==
    LET i == step[r]
    IN  /\ thread[r].at = "click"
        /\ IF i \notin blockOpen
           THEN /\ thread' = [thread EXCEPT ![r] = Threw]
                /\ UNCHANGED <<autopilot, step, world, unpainted, clicked>>
           ELSE /\ thread' = [thread EXCEPT ![r] = Wait("answer", thread[r].heard)]
                /\ calling' = calling \cup {i}
                /\ clicked' = [odd |-> ~clicked.odd, run |-> r, step |-> i]
                /\ UNCHANGED <<autopilot, step, blockOpen, lastAnswers, evidence, unpainted>>

\* The check every timer makes.
AnyRun(r) == autopilot # 0
IsCurrent(r) == autopilot = r

JourneyTimer(r) ==
    /\ thread[r].at \notin {"gone", "threw"}
    /\ IF ~IsCurrent(r)
       THEN /\ thread' = [thread EXCEPT ![r] = Gone]
            /\ UNCHANGED <<autopilot, step, world, unpainted, clicked>>
       ELSE \/ whileRunning(r) \/ ClickStep(r)
            \/ thread[r].at = "pause" /\ nextJourneyStep(r)
    /\ UNCHANGED <<walk, reader>>

-----------------------------------------------------------------------------
(* The page and the reader around it.                                       *)

\* An answer, or none: the store's subscriber notes it, and what it hands on is
\* held, or followed, when the next timer looks.
StepAnswers(i, ok) ==
    /\ i \in calling /\ calling' = calling \ {i}
    /\ lastAnswers' = [lastAnswers EXCEPT ![i] = IF ok THEN "ok" ELSE "refused"]
    /\ thread' = [r \in JourneyRuns |-> IF thread[r] \notin {Gone, Threw} /\ step[r] = i THEN [thread[r] EXCEPT !.heard = TRUE]
                                       ELSE thread[r]]
    /\ evidence' = IF ~ok THEN evidence
                   ELSE IF Journey[i].done = "held" THEN [evidence EXCEPT !.held = @ \cup {i}]
                   ELSE IF Journey[i].done = "run" THEN [evidence EXCEPT !.follow = "running"]
                   ELSE evidence
    /\ unpainted' = TRUE
    /\ UNCHANGED <<autopilot, step, blockOpen, walk, clicked, reader>>

\* The followed run ends; module Follow has the steps on the way.
FollowEnds(how) ==
    /\ evidence.follow = "running" /\ evidence' = [evidence EXCEPT !.follow = how]
    /\ unpainted' = TRUE
    /\ UNCHANGED <<autopilot, step, thread, blockOpen, calling, lastAnswers, walk, clicked, reader>>

Reader == reader < MaxReads /\ reader' = reader + 1

StopRun == /\ autopilot # 0 /\ Reader /\ stopJourney
           /\ UNCHANGED <<step, thread, world, walk, clicked>>

ToggleStep(i) ==
    /\ Reader
    /\ blockOpen' = IF i \in blockOpen THEN blockOpen \ {i} ELSE blockOpen \cup {i}
    /\ unpainted' = TRUE
    /\ UNCHANGED <<autopilot, step, thread, calling, lastAnswers, evidence, walk, clicked>>

ExecuteStep(i) ==
    /\ Reader /\ i \in blockOpen \ calling
    /\ calling' = calling \cup {i}
    /\ unpainted' = TRUE
    /\ UNCHANGED <<autopilot, step, thread, blockOpen, lastAnswers, evidence, walk, clicked>>

LogsOut(i) ==
    /\ Reader /\ i \in evidence.held
    /\ evidence' = [evidence EXCEPT !.held = @ \ {i}]
    /\ unpainted' = TRUE
    /\ UNCHANGED <<autopilot, step, thread, blockOpen, calling, lastAnswers, walk, clicked>>

JourneyFrame == /\ unpainted /\ unpainted' = FALSE
                /\ walk' = paintJourney
                /\ UNCHANGED <<autopilot, step, thread, world, clicked, reader>>

RunsOn == \E r \in JourneyRuns : JourneyTimer(r)
JourneyNext ==
    \/ RunsOn \/ runJourney \/ StopRun \/ JourneyFrame
    \/ \E i \in Steps : \/ \E ok \in BOOLEAN : StepAnswers(i, ok)
                        \/ ToggleStep(i) \/ ExecuteStep(i) \/ LogsOut(i)
    \/ \E how \in {"done", "failed"} : FollowEnds(how)

\* Timers that are set fire; nothing is asked of the server or the reader.
JourneyFair == WF_journeyVars(RunsOn)
JourneySpec == JourneyInit /\ [][JourneyNext]_journeyVars /\ JourneyFair

-----------------------------------------------------------------------------
\* Types; and once a frame is painted the rail, the strip and the panel count
\* the steps that are done now and the button knows whether a run is going.
JourneyOK ==
    /\ autopilot \in 0 .. MaxRunsStarted
    /\ step \in [JourneyRuns -> Steps \cup {0}] /\ blockOpen \cup calling \subseteq Steps
    /\ ~unpainted => walk = paintJourney

\* A click is made by the run the page shows, the runs act one after the other,
\* and no run makes the call of a step twice in a row: a step that is not done
\* after its answer stops it (journey.nextJourneyStep, whileRunning).
JourneyActsForItself ==
    [][clicked' # clicked => /\ clicked'.run = autopilot
                             /\ clicked'.run >= clicked.run
                             /\ clicked'.run = clicked.run => clicked'.step # clicked.step
      ]_journeyVars

\* Whatever the server does, a run comes to an end: done, refused, at a deadline.
\* One way is left out, a block closed in the pause before its click, and the
\* next property is about it.
JourneyEnds == \A r \in JourneyRuns : (autopilot = r) ~> (autopilot # r \/ thread[r] = Threw)

\* "The first step that is not done stops the run where it is" (state.js:14-16).
StepNotDoneStopsTheRun == \A r \in JourneyRuns : (autopilot = r) ~> (autopilot # r)
=============================================================================
