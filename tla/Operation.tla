------------------------------ MODULE Operation ------------------------------
(***************************************************************************)
(* An open operation between one call and the next: the editor of its      *)
(* body, the sheet of its last answer (console/result.js), the calls it    *)
(* remembers (console/history.js) and the answer told on its row and in    *)
(* the statusbar.                                                          *)
(*                                                                         *)
(* Swagger's store keeps one request and one response per operation.  The  *)
(* page looks at them when a frame is painted, some time after they        *)
(* changed.                                                                *)
(***************************************************************************)
EXTENDS Naturals, Sequences, FiniteSets, SequencesExt

CONSTANTS
    Operations,     \* operations of the page
    Texts,          \* what the editor may hold; Example is what it starts with
    Example,
    Valid,          \* those that parse and match the schema
    None,           \* no request, response, sheet or budget
    HISTORY_SIZE,   \* 5 in the code
    MaxSent         \* bound on the calls of the page together

ASSUME OperationAssumption == /\ Example \in Texts /\ Valid \subseteq Texts
                              /\ HISTORY_SIZE \in Nat \ {0} /\ MaxSent \in Nat
                              /\ None \notin Nat
                              /\ None \notin [call : Nat, body : Texts]
                              /\ None \notin [call : Nat, status : Nat \cup {None}, budget : Nat \cup {None}]
                              /\ None \notin [signature : Seq(Nat \cup {None}), call : Nat, tone : {"wait", "bad", "ok"}, request : Texts]

VARIABLES
    open,           \* blocks that are open
    text,           \* what each editor holds
    editing,        \* blocks that show the editor over the sent request
    verdict,        \* what the line under each editor says
    request,        \* Swagger's last request: its number and body
    pending,        \* operations whose call is out
    response,       \* Swagger's last response: its call, status and budget
    latest,         \* runtime.latestAnswer and latestBudget
    sheet,          \* the result sheet as painted
    row,            \* the mark on each row as painted
    bar,            \* the statusbar as painted
    callHistory,    \* newest first
    historySeen,    \* the response captured last
    stale,          \* a frame is queued
    sent            \* history: the body of every call, by number

opVars == <<open, text, editing, verdict, request, pending, response, latest, sheet, row,
            bar, callHistory, historySeen, stale, sent>>
editorVars == <<text, editing, verdict>>
paintedVars == <<sheet, row, bar, callHistory, historySeen>>

-----------------------------------------------------------------------------
\* The tone of a status; no answer at all reads as wait, like a 5xx.
toneOf(status) == IF status \in {None, 429, 503} THEN "wait" ELSE IF status = 409 THEN "bad" ELSE "ok"
Statuses == {None, 201, 409}

validity(t) == IF t \in Valid THEN "ok" ELSE "bad"

\* An answer carries a request id of its own; no answer carries nothing.
SignatureOfStatus(r) == <<r.status>>

SheetSignature(r) == IF r.status = None THEN <<None>> ELSE <<r.status, r.call>>

OperationInit ==
    /\ open = {} /\ editing = {} /\ pending = {}
    /\ text = [op \in Operations |-> Example]
    /\ verdict = [op \in Operations |-> validity(Example)]
    /\ request = [op \in Operations |-> None] /\ response = request
    /\ sheet = request /\ row = request /\ historySeen = request
    /\ callHistory = [op \in Operations |-> <<>>]
    /\ latest = [answer |-> None, budget |-> None] /\ bar = [status |-> None, tone |-> None, budget |-> None]
    /\ stale = FALSE /\ sent = <<>>

\* A block opens or closes: React builds its body anew, without the sheet.
Toggle(op) ==
    /\ open' = IF op \in open THEN open \ {op} ELSE open \cup {op}
    /\ sheet' = [sheet EXCEPT ![op] = None]
    /\ stale' = TRUE
    /\ UNCHANGED <<editorVars, request, pending, response, latest, row, bar, callHistory, historySeen, sent>>

\* Typing, Format, Reset to example and Load all go through the area's own
\* input event, which checks the text at once.
setAreaValue(op, t) == text' = [text EXCEPT ![op] = t] /\ verdict' = [verdict EXCEPT ![op] = validity(t)]

Type(op) == \E t \in Texts :
    /\ op \in open /\ (sheet[op] = None \/ op \in editing) /\ t # text[op]
    /\ setAreaValue(op, t)
    /\ UNCHANGED <<open, editing, request, pending, response, latest, paintedVars, stale, sent>>

Edit(op) ==
    /\ op \in open /\ sheet[op] # None
    /\ editing' = editing \cup {op}
    /\ UNCHANGED <<open, text, verdict, request, pending, response, latest, paintedVars, stale, sent>>

\* One click in the history panel puts a body back.
Load(op) == \E i \in DOMAIN callHistory[op] :
    /\ op \in open
    /\ editing' = editing \cup {op}
    /\ setAreaValue(op, callHistory[op][i].body)
    /\ UNCHANGED <<open, request, pending, response, latest, paintedVars, stale, sent>>

\* Swagger sends what the editor holds, valid or not.
ExecuteBody(op) ==
    /\ op \in open \ pending /\ Len(sent) < MaxSent
    /\ sent' = Append(sent, text[op])
    /\ request' = [request EXCEPT ![op] = [call |-> Len(sent) + 1, body |-> text[op]]]
    /\ pending' = pending \cup {op}
    /\ stale' = TRUE
    /\ UNCHANGED <<open, editorVars, response, latest, paintedVars>>

\* The store takes the answer, and rememberAnswer runs in the same dispatch.
\* An answer without a budget leaves the last one standing.
rememberAnswer(op, r) == latest' = [answer |-> [op |-> op, status |-> r.status],
                                    budget |-> IF r.budget = None THEN latest.budget ELSE r.budget]

Answer(op) == \E status \in Statuses :
    LET r == [call |-> request[op].call, status |-> status,
              budget |-> IF status = None THEN None ELSE request[op].call]
    IN  /\ op \in pending
        /\ pending' = pending \ {op}
        /\ response' = [response EXCEPT ![op] = r]
        /\ rememberAnswer(op, r)
        /\ stale' = TRUE
        /\ UNCHANGED <<open, editorVars, request, paintedVars, sent>>

-----------------------------------------------------------------------------
(* A frame.                                                                 *)

\* An open operation with a response has a sheet; a sheet whose signature is
\* that of the response is kept.
Redrawn == {op \in open : /\ response[op] # None
                          /\ \/ sheet[op] = None
                             \/ sheet[op].signature # SheetSignature(response[op])}

paintResults ==
    /\ sheet' = [op \in Operations |->
          IF op \in Redrawn
          THEN [signature |-> SheetSignature(response[op]), call |-> response[op].call,
                tone |-> toneOf(response[op].status), request |-> request[op].body]
          ELSE IF op \in open THEN sheet[op] ELSE None]
    /\ editing' = editing \ (Redrawn \cup (Operations \ open)
                             \cup {op \in Operations : response[op] = None})

\* The body is the request's in the store when the frame is painted.
EditorsBody(op) == text[op]
BodyOf(op) == request[op].body

Entry(op) == [call |-> response[op].call, tone |-> toneOf(response[op].status), body |-> BodyOf(op)]

Captured(op) == IF response[op] = None \/ historySeen[op] = response[op].call THEN callHistory[op]
                ELSE LET calls == <<Entry(op)>> \o callHistory[op]
                     IN  SubSeq(calls, 1, IF Len(calls) < HISTORY_SIZE THEN Len(calls) ELSE HISTORY_SIZE)

captureHistory ==
    /\ callHistory' = [op \in Operations |-> Captured(op)]
    /\ historySeen' = [op \in Operations |-> IF response[op] = None THEN None ELSE response[op].call]

paintLastAnswers ==
    row' = [op \in Operations |-> IF response[op] = None THEN None ELSE toneOf(response[op].status)]

paintStatusTelemetry ==
    bar' = IF latest.answer = None THEN bar
           ELSE [status |-> latest.answer.status, tone |-> toneOf(latest.answer.status), budget |-> latest.budget]

OperationFrame ==
    /\ stale /\ stale' = FALSE
    /\ paintResults /\ captureHistory /\ paintLastAnswers /\ paintStatusTelemetry
    /\ UNCHANGED <<open, text, verdict, request, pending, response, latest, sent>>

OperationNext == OperationFrame \/ \E op \in Operations :
    Toggle(op) \/ Type(op) \/ Edit(op) \/ Load(op) \/ ExecuteBody(op) \/ Answer(op)

-----------------------------------------------------------------------------
OperationOK == /\ text \in [Operations -> Texts]
               /\ editing \subseteq Operations /\ pending \subseteq Operations
               /\ sent \in Seq(Texts) /\ \A op \in Operations : Len(callHistory[op]) <= HISTORY_SIZE

\* Wherever the last answer is told, it is the same one.  Once a frame is painted
\* and no call is out, the sheet of an open operation is its answer's, over the
\* body that call sent, the row says its tone, and the statusbar tells the answer
\* that came last of all with the last budget any had (result.paintResults,
\* statusbar.paintStatusTelemetry).  An answer that never came has no signature
\* of its own: see the README.
SheetIsTheAnswer == ~stale =>
    /\ latest.answer # None => bar.status = latest.answer.status /\ bar.budget = latest.budget
    /\ \A op \in open \ pending : response[op] # None /\ response[op].status # None =>
        /\ sheet[op] # None /\ sheet[op].call = response[op].call
        /\ sheet[op].request = sent[response[op].call]
        /\ row[op] = sheet[op].tone

\* The history lists each call once, the newest first.  Once a frame is painted and
\* no call is out, its first entry is the answer the row tells, with the body that
\* call sent.  An older one may hold the body of a call made after its own, which
\* went out before the frame of its answer, but never an earlier body
\* (history.captureHistory; see the README).
HistoryHasTheAnswer ==
    \A op \in Operations :
      LET history == callHistory[op]
      IN  /\ \A i, j \in DOMAIN history : i < j => history[i].call > history[j].call
          /\ \A i \in DOMAIN history :
                \E n \in history[i].call .. Len(sent) : history[i].body = sent[n]
          /\ ~stale /\ op \notin pending /\ response[op] # None =>
                /\ history # <<>>
                /\ history[1].call = response[op].call
                /\ history[1].body = sent[response[op].call]
                /\ history[1].tone = row[op]

\* "The last few calls each operation made: ... and the body it sent" (history.js:11-12).
HistoryHoldsWhatWasSent ==
    \A op \in Operations : \A i \in DOMAIN callHistory[op] :
        callHistory[op][i].body = sent[callHistory[op][i].call]
=============================================================================
