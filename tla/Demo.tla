--------------------------------- MODULE Demo ---------------------------------
(***************************************************************************)
(* The API answered inside the page (demo/api.js), for the static demo.    *)
(*                                                                         *)
(* It keeps tenants and documents in this browser's storage, the calls of  *)
(* the last minute in memory, and no timer at all: what a document is now  *)
(* is derived from when its generation was requested.                      *)
(***************************************************************************)
EXTENDS Integers, Sequences, FiniteSets, Filtering

CONSTANTS
    Names,          \* tenants, by name: a name is taken once
    MaxDocuments,   \* bound on the documents created
    Missing,        \* no tenant, no document, no time
    QueuedFor,      \* facts.queuedMs
    RenderingFor,   \* facts.renderingMs
    RateLimit,      \* facts.rateLimit
    WINDOW,         \* WINDOW_MS
    MaxTime         \* bound on the clock

ASSUME DemoAssumption == /\ {MaxDocuments, RenderingFor, MaxTime} \subseteq Nat
                         /\ {QueuedFor, RateLimit, WINDOW} \subseteq Nat \ {0}
                         /\ Missing \notin Names /\ Missing \notin Nat

VARIABLES
    time,           \* Date.now
    storage,        \* localStorage works in this browser
    tenants,        \* state.tenants: "none", "active" or "inactive"
    documents,      \* state.documents by number: the tenant and requestedAt
    hits,           \* the times of each tenant's calls, oldest first
    delivered       \* history: the last answer with a document in it

demoVars == <<time, storage, tenants, documents, hits, delivered>>

DocumentIds == 1 .. MaxDocuments
Callers == Names \cup {"nobody", "unknown", "admin", "expired"}
Nowhere == [tenant |-> Missing, requestedAt |-> Missing]
Exists(d) == documents[d].tenant # Missing

\* caller: a credential at all, then a valid one, then one for this route, then
\* an active tenant.
caller(who, route) ==
    IF who \in {"nobody", "unknown", "expired"} \/ (who # "admin" /\ tenants[who] = "none") THEN 401
    ELSE IF (route = "admin") # (who = "admin") THEN 403
    ELSE IF who # "admin" /\ tenants[who] = "inactive" THEN 403
    ELSE 200

\* documentView: derived, never scheduled.
documentView(d) ==
    LET asked == documents[d].requestedAt
    IN  IF ~Exists(d) THEN "none"
        ELSE IF asked = Missing \/ time < asked + QueuedFor THEN "PENDING"
        ELSE IF time < asked + QueuedFor + RenderingFor THEN "PROCESSING" ELSE "DONE"

DemoInit ==
    /\ time = 0 /\ storage \in BOOLEAN
    /\ tenants = [n \in Names |-> "none"] /\ documents = [d \in DocumentIds |-> Nowhere]
    /\ hits = [n \in Names |-> <<>>]
    /\ delivered = [to |-> Missing, of |-> {}, file |-> FALSE]

-----------------------------------------------------------------------------
(* Tenants.                                                                 *)

Admin == \E who \in Callers : caller(who, "admin") = 200

\* createTenant refuses a name that is taken, deactivated or not.
createTenant(n) ==
    /\ Admin /\ tenants[n] = "none"
    /\ tenants' = [tenants EXCEPT ![n] = "active"]
    /\ UNCHANGED <<time, storage, documents, hits, delivered>>

SetActive(n, active) ==
    /\ Admin /\ tenants[n] # "none"
    /\ tenants' = [tenants EXCEPT ![n] = IF active THEN "active" ELSE "inactive"]
    /\ UNCHANGED <<time, storage, documents, hits, delivered>>

-----------------------------------------------------------------------------
(* Documents: the budget first, then the call.                              *)

\* Calls of the last minute.
InWindow(n) == Those(hits[n], {t \in Nat : time - t < WINDOW})
RemainingOf(n) == RateLimit - Len(InWindow(n))
ResetOf(n) == IF InWindow(n) = <<>> THEN 0 ELSE InWindow(n)[1] + WINDOW - time

budget(n) == /\ RemainingOf(n) > 0
             /\ hits' = [hits EXCEPT ![n] = Append(InWindow(n), time)]

\* A refused call only drops the calls that left the window.
TooMany(n) ==
    /\ caller(n, "tenant") = 200 /\ RemainingOf(n) <= 0
    /\ hits' = [hits EXCEPT ![n] = InWindow(n)]
    /\ UNCHANGED <<time, storage, tenants, documents, delivered>>

Spends(n) == caller(n, "tenant") = 200 /\ budget(n) /\ UNCHANGED <<time, storage, tenants>>

Deliver(n, docs, file) == delivered' = [to |-> n, of |-> docs, file |-> file]

createDocument(n) ==
    /\ Spends(n)
    /\ \E d \in DocumentIds :
        /\ \A e \in DocumentIds : Exists(e) <=> e < d
        /\ documents' = [documents EXCEPT ![d] = [tenant |-> n, requestedAt |-> Missing]]
        /\ Deliver(n, {d}, FALSE)

Own(n) == {d \in DocumentIds : documents[d].tenant = n}

\* listDocuments: a page of them, the newest first.
Place(n, d) == Cardinality({e \in Own(n) : e >= d})
OnPage(n, page, size) ==
    {d \in Own(n) : page * size < Place(n, d) /\ Place(n, d) <= page * size + size}

listDocuments(n) ==
    /\ Spends(n) /\ UNCHANGED documents
    /\ \E page \in 0 .. 1, size \in 1 .. 2 : Deliver(n, OnPage(n, page, size), FALSE)

\* A document is found for its tenant only.
FindsAny(n, d) == Exists(d)
FindsOwn(n, d) == documents[d].tenant = n

ReadDocument(n, d) ==
    /\ Spends(n) /\ FindsOwn(n, d)
    /\ Deliver(n, {d}, FALSE) /\ UNCHANGED documents

\* A second request while PENDING is accepted; the first one is what runs.
generate(n, d) ==
    /\ Spends(n) /\ FindsOwn(n, d) /\ documentView(d) = "PENDING"
    /\ documents' = [documents EXCEPT ![d].requestedAt = IF @ = Missing THEN time ELSE @]
    /\ UNCHANGED delivered

Pdf(n, d) ==
    /\ Spends(n) /\ FindsOwn(n, d) /\ documentView(d) = "DONE"
    /\ Deliver(n, {d}, TRUE) /\ UNCHANGED documents

\* Any other call spends its budget and is refused: no such document, a bad
\* field, a document in the wrong state.
RefusedCall(n) == Spends(n) /\ UNCHANGED <<documents, delivered>>

-----------------------------------------------------------------------------
\* load: what was saved, each change as it was made, or nothing at all; the
\* calls of the last minute are forgotten.
Reload ==
    /\ hits' = [n \in Names |-> <<>>]
    /\ IF storage THEN UNCHANGED <<tenants, documents>>
       ELSE /\ tenants' = [n \in Names |-> "none"]
            /\ documents' = [d \in DocumentIds |-> Nowhere]
    /\ UNCHANGED <<time, storage, delivered>>

TimePasses == /\ time < MaxTime /\ time' = time + 1
              /\ UNCHANGED <<storage, tenants, documents, hits, delivered>>

DemoNext ==
    \/ \E n \in Names : createTenant(n) \/ \E active \in BOOLEAN : SetActive(n, active)
    \/ \E n \in Callers :
        \/ TooMany(n) \/ createDocument(n) \/ listDocuments(n) \/ RefusedCall(n)
        \/ \E d \in DocumentIds : ReadDocument(n, d) \/ generate(n, d) \/ Pdf(n, d)
    \/ Reload \/ TimePasses

DemoSpec == DemoInit /\ [][DemoNext]_demoVars

-----------------------------------------------------------------------------
\* Types; a tenant's budget is never overspent within one page; and the pages of
\* a list hold every document of it once (api.js budget, listDocuments).
DemoOK ==
    /\ tenants \in [Names -> {"none", "active", "inactive"}]
    /\ documents \in [DocumentIds -> [tenant : Names \cup {Missing}, requestedAt : Nat \cup {Missing}]]
    /\ \A n \in Names : /\ hits[n] \in Seq(Nat) /\ RemainingOf(n) \in 0 .. RateLimit
                        /\ ResetOf(n) \in 0 .. WINDOW
    /\ \A n \in Names, size \in 1 .. 2 : \A d \in Own(n) :
          Cardinality({page \in 0 .. MaxDocuments : d \in OnPage(n, page, size)}) = 1

Promise == INSTANCE DocumentLifecycle WITH
    Documents <- DocumentIds, Tenants <- Names, None <- Missing,
    owner <- [d \in DocumentIds |-> documents[d].tenant],
    state <- [d \in DocumentIds |-> documentView(d)],
    requested <- {d \in DocumentIds : documents[d].requestedAt # Missing},
    handed <- delivered

\* "The rules are the API's own" (api.js:6): what the page answers of documents,
\* with no server, no timers and across reloads, is what the API promises of them.
DemoFollowsLifecycle == Promise!Spec
=============================================================================
