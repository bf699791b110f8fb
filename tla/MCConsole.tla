------------------------------ MODULE MCConsole -------------------------------
(***************************************************************************)
(* The parts of the page that Follow leaves out, and the demo's API, on    *)
(* one small instance each.  They share no variable, so a behaviour walks  *)
(* one of them, chosen at the start, while the others rest: their product  *)
(* would show nothing that the parts do not.                               *)
(***************************************************************************)
EXTENDS Answers, Carry, Operation, Journey, Window, Places, Controls, Demo, TLC

CONSTANTS bearer, apiKey, t1, t2, t3, k1, login, create, a, b, c1, c2

\* Credentials and answers: a login hands a token, a create needs one and hands a key.
MCIssued == t1 :> bearer @@ t3 :> bearer @@ t2 :> bearer @@ k1 :> apiKey
MCExpiry == t1 :> 1 @@ t3 :> Nothing @@ t2 :> 2 @@ k1 :> Nothing
MCHands == login :> bearer @@ create :> apiKey
MCNeeds == login :> Nothing @@ create :> bearer

\* Descriptions: a collection with a create and three ids to carry, one of them
\* in an operation without an operationId; with every way to say who may call.
Op(tags, id, security, takesId, models, responses) ==
    [tags |-> tags, id |-> id, security |-> security, takesId |-> takesId,
     models |-> models, responses |-> responses]
Refused == [causes |-> {"no key", "bad key"}, headers |-> {"X-Request-Id"}]
Limited == [causes |-> {"too many"}, headers |-> {"X-Request-Id", "Retry-After"}]
Given == [causes |-> {}, headers |-> {"X-Request-Id"}]
NotThere == [causes |-> {"bad key", "not ready"}, headers |-> {}]
Docs == <<"documents">>
Item == <<"documents", Id>>
PdfOf == <<"documents", Id, "pdf">>
Login == <<"login">>
MCDocument(security, pdf) ==
    [at |-> Docs :> [post |-> Op(<<"Documents">>, "create", Absent, FALSE, {"Document"}, 201 :> Given @@ 401 :> Refused),
                     get |-> Op(<<"Documents", "Lists">>, "list", Absent, FALSE, {}, 200 :> Given @@ 429 :> Limited)]
         @@ Item :> [get |-> Op(<<"Documents">>, "read", Absent, TRUE, {"Document"}, 404 :> NotThere),
                     put |-> Op(<<>>, Absent, <<{bearer}, {apiKey}>>, TRUE, {}, 200 :> Given)]
         @@ PdfOf :> [get |-> pdf]
         @@ Login :> [post |-> Op(<<"Access">>, "login", <<>>, FALSE, {}, 200 :> Given)],
     security |-> security, models |-> {"Document"}]
Empty == [at |-> <<>>, security |-> Absent, models |-> {}]
MCDocuments == {Empty} \cup {MCDocument(s, Op(<<"Documents">>, "pdf", own, TRUE, {}, 429 :> Limited @@ 409 :> NotThere)) :
                   s \in {Absent, <<>>, <<{apiKey}>>}, own \in {Absent, <<{}>>, <<{bearer, apiKey}>>}}
MCSources == {<<Login, "post">>}

\* A journey of a step of each kind, the last two a chain, as config.journey's.
MCJourney == <<[done |-> "held", chain |-> FALSE], [done |-> "answered", chain |-> TRUE],
               [done |-> "run", chain |-> TRUE]>>
MCDocumented == 1 .. 3

MCTagOfBlock == a :> "s" @@ b :> "t"
MCQueries == {{"rail", "legend"}, {}}

-----------------------------------------------------------------------------
VARIABLE part       \* the part this behaviour is about

consoleVars == <<part, vars, carryVars, opVars, journeyVars, windowVars, placesVars, controlsVars, demoVars>>

Init ==
    /\ part \in {"answers", "carry", "operation", "journey", "window", "places", "controls", "demo"}
    /\ AnswersInit /\ CarryInit /\ OperationInit /\ JourneyInit /\ WindowInit /\ PlacesInit
    /\ ControlsInit /\ DemoInit
    \* a part at rest rests in one of its initial states
    /\ part # "carry" => doc = Empty
    /\ part # "window" => ~visible /\ server = "up"
    /\ part # "places" => tagsOpen = {}
    /\ part # "controls" => screen = [phone |-> FALSE, short |-> FALSE, storage |-> TRUE]
    /\ part # "demo" => storage = TRUE

AnswersStep == part = "answers" /\ AnswersNext
             /\ UNCHANGED <<part, carryVars, opVars, journeyVars, windowVars, placesVars, controlsVars, demoVars>>
CarryStep == part = "carry" /\ CarryNext
           /\ UNCHANGED <<part, vars, opVars, journeyVars, windowVars, placesVars, controlsVars, demoVars>>
OperationStep == part = "operation" /\ OperationNext
               /\ UNCHANGED <<part, vars, carryVars, journeyVars, windowVars, placesVars, controlsVars, demoVars>>
JourneyStep == part = "journey" /\ JourneyNext
             /\ UNCHANGED <<part, vars, carryVars, opVars, windowVars, placesVars, controlsVars, demoVars>>
WindowStep == part = "window" /\ WindowNext
            /\ UNCHANGED <<part, vars, carryVars, opVars, journeyVars, placesVars, controlsVars, demoVars>>
PlacesStep == part = "places" /\ PlacesNext
            /\ UNCHANGED <<part, vars, carryVars, opVars, journeyVars, windowVars, controlsVars, demoVars>>
ControlsStep == part = "controls" /\ ControlsNext
              /\ UNCHANGED <<part, vars, carryVars, opVars, journeyVars, windowVars, placesVars, demoVars>>
DemoStep == part = "demo" /\ DemoNext
          /\ UNCHANGED <<part, vars, carryVars, opVars, journeyVars, windowVars, placesVars, controlsVars>>

Next == AnswersStep \/ CarryStep \/ OperationStep \/ JourneyStep \/ WindowStep \/ PlacesStep \/ ControlsStep \/ DemoStep

\* JourneyFair and WindowFair, for the part that moves.
Fair == /\ WF_journeyVars(part = "journey" /\ RunsOn)
        /\ WF_windowVars(part = "window" /\ LoadingGoesOn)
        /\ WF_windowVars(part = "window" /\ HealthGoesOn)

Spec == Init /\ [][Next]_consoleVars /\ Fair

\* For the runs about one part alone.
AnswersOnly == Init /\ part = "answers" /\ [][Next]_consoleVars
OperationOnly == Init /\ part = "operation" /\ [][Next]_consoleVars
JourneyOnly == Init /\ part = "journey" /\ [][Next]_consoleVars /\ JourneyFair

-----------------------------------------------------------------------------
\* Every part's types and invariants of its own, each stated in its module.
ConsoleOK == /\ AnswersOK /\ CarryOK /\ OperationOK /\ JourneyOK /\ WindowOK
             /\ PlacesOK /\ ControlsOK /\ DemoOK
=============================================================================
