------------------------------- MODULE Answers -------------------------------
(***************************************************************************)
(* What answers leave behind (console/responses.js): a credential filled   *)
(* in or offered, an id carried into the operations that take it, a        *)
(* refusal explained; and the bar that says what a call will send.         *)
(*                                                                         *)
(* A subscriber of Swagger's store sees each answer once.  What it notes   *)
(* is turned into words when a frame is painted, from what Authorize holds *)
(* then; a slot is only redrawn when its signature changed.                *)
(***************************************************************************)
EXTENDS Credentials

CONSTANTS
    Ops,            \* operations of the document
    Hands,          \* Hands[op]: the scheme its answer hands a credential for
    Needs,          \* Needs[op]: the first scheme it requires
    MaxCalls        \* bound on calls

ASSUME CallsAssumption == /\ \A op \in Ops : {Hands[op], Needs[op]} \subseteq Schemes \cup {Nothing}
                          /\ MaxCalls \in Nat
                          /\ Nothing \notin {"applied", "offered"}

VARIABLES
    calls,          \* calls[op]: the credential the call on its way was sent with
    notes,          \* responseNotes, and whether Swagger draws the response
    slots,          \* the notes as painted, with the credential their button offers
    sends,          \* what the action bar says each operation sends
    handed,         \* history: how many credentials each operation's answers handed on
    made            \* bound: calls made

page == <<calls, notes, slots, sends, handed, made>>
vars == <<now, held, expiryTarget, expiryTimer, behind, tag, dialog, changes, page>>
session == <<now, timers, shown>>

-----------------------------------------------------------------------------
Idle == [out |-> FALSE, sent |-> Nothing]
NoNotes == [drawn |-> FALSE, credential |-> Nothing, denied |-> Nothing]
NoSlot == [denied |-> Nothing, credential |-> Nothing, offers |-> Nothing]

\* The cause of a refusal, decided from what is held now.
denialState(op) ==
    LET denied == notes[op].denied
        h == held[Needs[op]]
    IN  IF denied = Nothing THEN Nothing
        ELSE IF StateOf(h) # "held" THEN StateOf(h)
        ELSE IF h = denied.sentWith THEN "refused" ELSE "resolved"

\* A handed credential is the one applied, an offer, or no longer mentioned.
noteState(op) == LET v == notes[op].credential
                 IN  IF v = Nothing \/ held[Hands[op]] = Nothing THEN Nothing
                     ELSE IF held[Hands[op]] = v THEN "applied" ELSE "offered"

\* The signature of a slot, without the parts of the carried id (module Carry)
\* and of the follow (module Follow).
Signature(op) == IF notes[op].drawn THEN <<denialState(op), noteState(op)>>
                 ELSE <<Nothing, Nothing>>

SlotSignature(slot) == <<slot.denied, slot.credential>>

\* A slot whose signature has not changed is kept, its button and all.
PaintedSlotOnce(op) ==
    LET sig == Signature(op)
    IN  IF (slots[op].denied = Nothing) = (sig[1] = Nothing) /\ slots[op].credential = sig[2]
        THEN slots[op]
        ELSE [denied |-> sig[1], credential |-> sig[2],
              offers |-> IF sig[2] = "offered" THEN notes[op].credential ELSE Nothing]

PaintedSlot(op) ==
    LET sig == Signature(op)
    IN  IF SlotSignature(slots[op]) = sig THEN slots[op]
        ELSE [denied |-> sig[1], credential |-> sig[2],
              offers |-> IF sig[2] = "offered" THEN notes[op].credential ELSE Nothing]

SendsNow(op) == IF calls[op].out THEN "running" ELSE IF Needs[op] = Nothing THEN "public"
                ELSE StateOf(held[Needs[op]])

paintResponseNotes == slots' = [op \in Ops |-> PaintedSlot(op)]
paintActionBars == sends' = [op \in Ops |-> SendsNow(op)]

-----------------------------------------------------------------------------
AnswersInit ==
    /\ CredentialsInit
    /\ calls = [op \in Ops |-> Idle] /\ notes = [op \in Ops |-> NoNotes]
    /\ slots = [op \in Ops |-> NoSlot] /\ sends = [op \in Ops |-> SendsNow(op)]
    /\ handed = [op \in Ops |-> 0] /\ made = 0

\* Swagger sends what Authorize holds, expired or not.  Execute is disabled while the call is out.
Execute(op) ==
    /\ ~calls[op].out /\ made < MaxCalls
    /\ calls' = [calls EXCEPT ![op] = [out |-> TRUE,
                     sent |-> IF Needs[op] = Nothing THEN Nothing ELSE held[Needs[op]]]]
    /\ made' = made + 1
    /\ schedule
    /\ UNCHANGED <<held, session, changes, notes, slots, sends, handed>>

\* captureCredential: an empty scheme is filled.
captureCredential(op, v) ==
    held' = IF v # Nothing /\ held[Hands[op]] = Nothing
            THEN [held EXCEPT ![Hands[op]] = v] ELSE held

\* captureDenial: what is held when the refusal arrives.
captureDenial(op) == IF Needs[op] = Nothing THEN Nothing
                     ELSE [sentWith |-> held[Needs[op]],
                           sent |-> calls[op].sent]     \* history: what the call went out with

Settles(op) == /\ calls[op].out
               /\ calls' = [calls EXCEPT ![op] = Idle]
               /\ schedule
               /\ UNCHANGED <<session, changes, slots, sends, made>>

\* captureResponses, for an answer that hands something on.
ArriveOk(op) ==
    \E v \in IF Hands[op] = Nothing THEN {Nothing} ELSE {c \in Credentials : Issued[c] = Hands[op] /\ ~isExpired(c)} :
        /\ Settles(op) /\ (Needs[op] # Nothing => calls[op].sent # Nothing)
        /\ captureCredential(op, v)
        /\ notes' = [notes EXCEPT ![op] = [drawn |-> TRUE, credential |-> v, denied |-> Nothing]]
        /\ handed' = [handed EXCEPT ![op] = IF v = Nothing THEN @ ELSE @ + 1]

\* ... and for a 401, a 403 or any other answer, or none.
ArriveNotOk(op) ==
    \E denied \in {captureDenial(op), Nothing} :
        /\ Settles(op)
        /\ notes' = [notes EXCEPT ![op] = [NoNotes EXCEPT !.drawn = TRUE, !.denied = denied]]
        /\ UNCHANGED <<held, handed>>

\* Swagger's Clear takes the response away; the note is remembered.
ClearResponse(op) ==
    /\ notes[op].drawn /\ ~calls[op].out
    /\ notes' = [notes EXCEPT ![op].drawn = FALSE]
    /\ schedule
    /\ UNCHANGED <<held, session, changes, calls, slots, sends, handed, made>>

\* "Use this token", as painted.
UseThis(op) ==
    /\ slots[op].offers # Nothing /\ changes < MaxChanges
    /\ Holds(Hands[op], slots[op].offers)
    /\ changes' = changes + 1
    /\ UNCHANGED <<session, page>>

\* The bar's own interval repaints it while a call is out.
BarTick == /\ \E op \in Ops : sends[op] = "running"
           /\ paintActionBars
           /\ UNCHANGED <<held, session, behind, changes, calls, notes, slots, handed, made>>

Frame == /\ behind > 0 /\ behind' = 0
         /\ paintTopbar /\ paintCredentials /\ paintResponseNotes /\ paintActionBars
         /\ UNCHANGED <<now, held, changes, calls, notes, handed, made>>

AnswersNext == \/ CredentialsNext /\ UNCHANGED page
               \/ \E op \in Ops : \/ Execute(op) \/ ArriveOk(op) \/ ArriveNotOk(op)
                                  \/ ClearResponse(op) \/ UseThis(op)
               \/ BarTick \/ Frame

AnswersSpec == AnswersInit /\ [][AnswersNext]_vars

-----------------------------------------------------------------------------
(* Safety.                                                                  *)

AnswersOK ==
    /\ CredentialsOK
    /\ \A op \in Ops : calls[op].sent \in Credentials \cup {Nothing}
    /\ \A op \in Ops : slots[op].offers \in Credentials \cup {Nothing}
    /\ made \in 0 .. MaxCalls

\* A token that expired while no timer was left to say so: it expires further
\* ahead than a browser's timer can wait, the timer was cut short, and armExpiry
\* does not aim again at the target it has.
Unnoticed(v) == isExpired(v) /\ Expiry[v] > MaxTimer
                /\ expiryTarget # Nothing /\ expiryTimer = Nothing

\* What has expired is not shown as working: once no frame is pending and no
\* timer is due, the tag and the bars say what is held and whether it still works,
\* but for the token of a timer that was cut short (auth.armExpiry).
ExpiryIsShown == Quiet =>
    /\ \A s \in Schemes : tag[s] = StateOf(held[s]) \/ Unnoticed(held[s])
    /\ \A op \in Ops : \/ sends[op] = SendsNow(op)
                       \/ Needs[op] # Nothing /\ Unnoticed(held[Needs[op]])

\* "Expiry triggers no store event, so one timer repaints at the nearest expiry
\* ahead" (auth.js:95-96): the tag says of every credential what it is.
ExpiryRepaints == Quiet => \A s \in Schemes : tag[s] = StateOf(held[s])

\* The note of a refusal, against what its call was sent with.
DenialIsTrue(op) ==
    LET says == slots[op].denied
        denied == notes[op].denied
        h == held[Needs[op]]
    IN  IF ~notes[op].drawn \/ denied = Nothing THEN says = Nothing
        ELSE /\ says \in {"missing", "expired", "refused", "resolved"}
             /\ says = "missing" <=> h = Nothing
             /\ Unnoticed(h) \/ (says = "expired" <=> isExpired(h))
             /\ denied.sentWith = denied.sent /\ says \in {"refused", "resolved"} =>
                    (says = "refused" <=> h = denied.sent)

\* The note of a credential that an answer handed on, and its button.
OfferIsTrue(op) ==
    LET says == slots[op].credential
        v == notes[op].credential
        h == held[Hands[op]]
    IN  IF ~notes[op].drawn \/ v = Nothing THEN says = Nothing /\ slots[op].offers = Nothing
        ELSE /\ says = "applied" <=> h = v
             /\ says = "offered" <=> h \notin {v, Nothing}
             /\ slots[op].offers # Nothing <=> says = "offered"
             /\ says = "offered" /\ handed[op] = 1 => slots[op].offers = v

\* The notes under the responses say what is true of Authorize now, whichever
\* way it changed since they were painted: an answer, a click, a logout in the
\* dialog, an expiry.  A refusal is the held credential's if its call went out with
\* it (where Authorize did not change before the answer), and a button applies
\* what the answer handed on (where no other answer of the operation had).
NotesTellTheState == Quiet => \A op \in Ops : DenialIsTrue(op) /\ OfferIsTrue(op)

\* "Record the scheme, what Authorize held when the call went out" and "refused
\* as sent" (responses.js:133-134, 149-150): what the page calls refused was sent.
RefusedAsSent == Quiet => \A op \in Ops :
    slots[op].denied = "refused" => held[Needs[op]] = notes[op].denied.sent

\* "accepting applies the response token" (credentials.js of the design
\* scenarios): what the button applies is what the answer above it handed on.
OfferIsTheAnswers == Quiet => \A op \in Ops :
    slots[op].credential = "offered" => slots[op].offers = notes[op].credential
=============================================================================
