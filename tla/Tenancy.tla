------------------------------ MODULE Tenancy ------------------------------
(***************************************************************************)
(* Which schema a thread works in: the request's way through the filters   *)
(* of the security chain (TenantFilter, JwtAuthenticationFilter,           *)
(* RateLimitFilter, the route rules of SecurityConfig), the tenant of the  *)
(* thread (TenantContext, and TenantContextDecorator for an event), and    *)
(* the pooled connections whose search_path follows it                     *)
(* (SchemaMultiTenantConnectionProvider).                                  *)
(*                                                                         *)
(* Threads and connections are pooled: each serves one job after another,  *)
(* for one tenant after another.  A thread holds a connection for one      *)
(* transaction, in which it sees the tables of the connection's            *)
(* search_path and no other: `tenants' in the public schema, `documents'   *)
(* in each tenant's.                                                       *)
(***************************************************************************)
EXTENDS Naturals

CONSTANTS
    Tenants,        \* registered tenants; each names its schema and its API key
    Threads,        \* request threads
    Consumers,      \* threads that handle events of the broker
    Conns,          \* connections of the pool
    MaxFailures,    \* bound on connections that fail
    Public,         \* the schema of a connection nobody set
    Unknown,        \* an API key of no tenant
    Closed,         \* no scope is open
    Nothing         \* no tenant, no key, no connection

ASSUME TenantsAssumption == /\ {Public, Unknown, Closed, Nothing} \cap Tenants = {}
                            /\ Nothing \notin {Unknown, Closed}
ASSUME ThreadsAssumption == Threads \cap Consumers = {}
ASSUME ConnsAssumption == Nothing \notin Conns
ASSUME FailuresAssumption == MaxFailures \in Nat

VARIABLES
    active,         \* the tenants table: which tenants are active
    job,            \* what each thread is doing
    context,        \* TenantContext of each thread
    scope,          \* the tenant its open scope will restore, or Closed
    switch,         \* what a switch of a tenant has read
    path,           \* search_path of each connection
    lost,           \* connections that were checked out and never returned
    failures        \* failures so far, at most MaxFailures

tenancyVars == <<active, job, context, scope, switch, path, lost, failures>>

-----------------------------------------------------------------------------
(* Threads, their tenant, their connection.                                *)

Schemas == Tenants \cup {Public}

AllThreads == Threads \cup Consumers

Routes == {"documents", "tenants", "deactivate", "reactivate", "other"}

\* Routes of TenantController: they work on the tenants table.
TenantRoutes == {"tenants", "deactivate", "reactivate"}
SwitchRoutes == {"deactivate", "reactivate"}

\* A thread at stage pc of its job, with so many transactions left.
At(pc, route, key, token, conn, left) ==
    [pc |-> pc, route |-> route, key |-> key, token |-> token, conn |-> conn, left |-> left]

NoJob == At("idle", "other", Nothing, "none", Nothing, 0)

NoSwitch == [target |-> Nothing, saw |-> FALSE, alone |-> FALSE]

\* Connections of the pool that nobody holds.
FreeOrLost == {c \in Conns : \A w \in AllThreads : job[w].conn # c}

Free == {c \in FreeOrLost : c \notin lost}

\* The tenant the resolver answers for a thread.
Resolved(w) == IF context[w] = Nothing THEN Public ELSE context[w]

\* Broken variant: the path its last user left.
PathKept(w, c) == path[c]

\* The search_path a connection has once w has it.
PathOf(w, c) == Resolved(w)

\* The roles its credentials granted so far.
Roles(w) == (IF scope[w] # Closed THEN {"TENANT"} ELSE {})
            \cup (IF job[w].token = "valid" THEN {"ADMIN"} ELSE {})

\* Broken variant: the tenant stays with the thread.
ContextKept(w) == context[w]

\* The tenant of the thread once the scope of its job, if it opened one, is closed.
Restored(w) == IF scope[w] = Closed THEN context[w] ELSE scope[w]

\* TenantContext.open.
Open(w, t) ==
    /\ scope' = [scope EXCEPT ![w] = context[w]]
    /\ context' = [context EXCEPT ![w] = t]

\* The job of w is over, served or refused: its scope closes on every way out.
\* Nothing is left of it but what it committed.
End(w) ==
    /\ job' = [job EXCEPT ![w] = NoJob]
    /\ context' = [context EXCEPT ![w] = Restored(w)]
    /\ scope' = [scope EXCEPT ![w] = Closed]
    /\ switch' = [switch EXCEPT ![w] = NoSwitch]

\* The connection goes back to the pool with the public path; if resetting
\* it fails, it does not go back at all.
Release(c) ==
    \/ /\ path' = [path EXCEPT ![c] = Public]
       /\ UNCHANGED <<lost, failures>>
    \/ /\ failures < MaxFailures
       /\ failures' = failures + 1
       /\ lost' = lost \cup {c}
       /\ UNCHANGED path

-----------------------------------------------------------------------------
TenancyInit ==
    /\ active = [t \in Tenants |-> TRUE]
    /\ job = [w \in AllThreads |-> NoJob]
    /\ context = [w \in AllThreads |-> Nothing]
    /\ scope = [w \in AllThreads |-> Closed]
    /\ switch = [w \in AllThreads |-> NoSwitch]
    /\ path = [c \in Conns |-> Public]
    /\ lost = {}
    /\ failures = 0

-----------------------------------------------------------------------------
(* The filters.                                                            *)

\* A request arrives.  Without an API key the tenant filter hands it on.  What
\* else it carries is chosen where it is first looked at.
Receive(w, key) ==
    /\ job[w].pc = "idle"
    /\ job' = [job EXCEPT ![w] = At(IF key = Nothing THEN "authenticate" ELSE "lookup",
                                    "other", key, "none", Nothing, 1)]
    /\ UNCHANGED <<active, context, scope, switch, path, lost, failures>>

\* The tenant filter looks its key up: an unknown key is a 401, an inactive
\* tenant a 403, and an active one gets a scope around the rest of the request
\* and ROLE_TENANT.
Lookup(w) ==
    LET t == job[w].key
    IN  /\ job[w].pc = "lookup"
        /\ job[w].conn # Nothing
        /\ IF path[job[w].conn] = Public /\ t \in Tenants /\ active[t]
           THEN /\ job' = [job EXCEPT ![w] = At("authenticate", "other", t, "none", Nothing, 1)]
                /\ Open(w, t)
                /\ UNCHANGED switch
           ELSE End(w)
        /\ Release(job[w].conn)
        /\ UNCHANGED active

\* The bearer token adds ROLE_ADMIN to what the key granted; a bad one is a 401.
Authenticate(w, token) ==
    /\ job[w].pc = "authenticate"
    /\ IF token = "invalid"
       THEN End(w)
       ELSE /\ job' = [job EXCEPT ![w] = At("limit", "other", job[w].key, token, Nothing, 1)]
            /\ UNCHANGED <<context, scope, switch>>
    /\ UNCHANGED <<active, path, lost, failures>>

\* The limiter asks for a thread with a tenant, and may refuse: 429 or 503.
RateLimit(w) ==
    /\ job[w].pc = "limit"
    /\ \/ /\ job' = [job EXCEPT ![w] = At("authorize", "other", job[w].key, job[w].token, Nothing, 1)]
          /\ UNCHANGED <<context, scope, switch>>
       \/ /\ context[w] # Nothing
          /\ End(w)
    /\ UNCHANGED <<active, path, lost, failures>>

\* Broken variant: whoever is authenticated may go anywhere.
AuthorizedAnywhere(route, roles) == roles # {}

\* The route rules: 401 or 403 for the rest.
Authorized(route, roles) ==
    IF route = "documents" THEN "TENANT" \in roles
    ELSE route \in TenantRoutes => "ADMIN" \in roles

\* The rules admit the request to its route, or it is over.  It is over too on
\* every route that touches no table: one that is open to all, or that nobody
\* handles.
Authorize(w, route, target) ==
    /\ job[w].pc = "authorize"
    /\ IF route # "other" /\ Authorized(route, Roles(w))
       THEN /\ job' = [job EXCEPT ![w] = At("handler", route, job[w].key, job[w].token, Nothing, 1)]
            /\ switch' = [switch EXCEPT ![w] =
                            [target |-> IF route \in SwitchRoutes THEN target ELSE Nothing,
                             saw |-> FALSE, alone |-> FALSE]]
            /\ UNCHANGED <<context, scope>>
       ELSE End(w)
    /\ UNCHANGED <<active, path, lost, failures>>

-----------------------------------------------------------------------------
(* Events.                                                                 *)

\* A record of tenant t: the decorator opens a scope around its handling, which
\* is one transaction (dead letters, duplicates) or two with a render between.
Consume(w, t, transactions) ==
    /\ job[w].pc = "idle"
    /\ job' = [job EXCEPT ![w] = At("handler", "documents", t, "none", Nothing, transactions)]
    /\ Open(w, t)
    /\ UNCHANGED <<active, switch, path, lost, failures>>

-----------------------------------------------------------------------------
(* Transactions.                                                           *)

\* A transaction begins: a connection is checked out and its path set.
Checkout(w, c) ==
    /\ job[w].pc \in {"lookup", "handler"}
    /\ job[w].conn = Nothing
    /\ c \in Free
    /\ job' = [job EXCEPT ![w] = At(job[w].pc, job[w].route, job[w].key, job[w].token,
                                    c, job[w].left)]
    /\ path' = [path EXCEPT ![c] = PathOf(w, c)]
    /\ UNCHANGED <<active, context, scope, switch, lost, failures>>

\* No connection became free in time: the job fails.
CheckoutTimesOut(w) ==
    /\ job[w].pc \in {"lookup", "handler"}
    /\ job[w].conn = Nothing
    /\ Free = {}
    /\ End(w)
    /\ UNCHANGED <<active, path, lost, failures>>

\* The connection fails between its checkout and the commit: nothing is
\* committed, the job fails.  If it was the SET of the path that failed, nobody
\* returns the connection.
ConnectionFails(w) ==
    /\ job[w].conn # Nothing
    /\ failures < MaxFailures
    /\ failures' = failures + 1
    /\ End(w)
    /\ \/ /\ path' = [path EXCEPT ![job[w].conn] = Public]
          /\ UNCHANGED lost
       \/ /\ lost' = lost \cup {job[w].conn}
          /\ UNCHANGED path
    /\ UNCHANGED active

\* A transaction on the documents of the path: there is no such table in the
\* public schema.  An event may have another one to go.
Documents(w) ==
    /\ job[w].pc = "handler"
    /\ job[w].route = "documents"
    /\ job[w].conn # Nothing
    /\ \/ /\ path[job[w].conn] # Public
          /\ job[w].left = 2
          /\ job' = [job EXCEPT ![w] = At("handler", "documents", job[w].key, "none", Nothing, 1)]
          /\ UNCHANGED <<context, scope, switch>>
       \/ End(w)
    /\ Release(job[w].conn)
    /\ UNCHANGED active

\* Reading the tenants, or one of them.
ReadTenants(w) ==
    /\ job[w].pc = "handler"
    /\ job[w].route = "tenants"
    /\ job[w].conn # Nothing
    /\ End(w)
    /\ Release(job[w].conn)
    /\ UNCHANGED active

\* w has read the tenant t and not yet committed.
Switching(w, t) == job[w].pc = "commit" /\ switch[w].target = t

\* deactivate and reactivate read their tenant.  Whoever switches the same
\* tenant at the same time is not alone any more.
ReadTenant(w) ==
    LET t == switch[w].target
        others == {v \in AllThreads \ {w} : Switching(v, t)}
    IN  /\ job[w].pc = "handler"
        /\ job[w].route \in SwitchRoutes
        /\ job[w].conn # Nothing
        /\ IF path[job[w].conn] = Public
           THEN /\ job' = [job EXCEPT ![w] = At("commit", job[w].route, job[w].key, job[w].token,
                                                job[w].conn, 1)]
                /\ switch' = [v \in AllThreads |->
                                [target |-> switch[v].target,
                                 saw |-> IF v = w THEN active[t] ELSE switch[v].saw,
                                 alone |-> IF v = w THEN others = {}
                                           ELSE switch[v].alone /\ v \notin others]]
                /\ UNCHANGED <<context, scope, path, lost, failures>>
           ELSE End(w) /\ Release(job[w].conn)
        /\ UNCHANGED active

\* Broken variant: the row as it was read.
SwitchedBack(w) == switch[w].saw

\* What a switch leaves in the row: only a row that was seen to differ is
\* written.
Switched(w) ==
    LET wanted == job[w].route = "reactivate"
    IN  IF switch[w].saw = wanted THEN active[switch[w].target] ELSE wanted

\* and commit what changed.
CommitTenant(w) ==
    /\ job[w].pc = "commit"
    /\ active' = [active EXCEPT ![switch[w].target] = Switched(w)]
    /\ End(w)
    /\ Release(job[w].conn)

-----------------------------------------------------------------------------
\* A migration of t borrows a connection of the same pool, without the provider:
\* what it leaves in the search_path stays there.
Migrate(t, c) ==
    /\ c \in Free
    /\ path' = [path EXCEPT ![c] = t]
    /\ UNCHANGED <<active, job, context, scope, switch, lost, failures>>

Filters(w) ==
    \/ \E key \in Tenants \cup {Unknown, Nothing} : Receive(w, key)
    \/ Lookup(w)
    \/ \E token \in {"none", "valid", "invalid"} : Authenticate(w, token)
    \/ RateLimit(w)
    \/ \E route \in Routes, target \in Tenants : Authorize(w, route, target)

Transaction(w) == \/ \E c \in Conns : Checkout(w, c)
                  \/ CheckoutTimesOut(w) \/ ConnectionFails(w)
                  \/ Documents(w) \/ ReadTenants(w) \/ ReadTenant(w) \/ CommitTenant(w)

TenancyNext ==
    \/ \E w \in Threads : Filters(w)
    \/ \E w \in Consumers, t \in Tenants, n \in 1..2 : Consume(w, t, n)
    \/ \E w \in AllThreads : Transaction(w)
    \/ \E t \in Tenants, c \in Conns : Migrate(t, c)

TenancySpec == TenancyInit /\ [][TenancyNext]_tenancyVars

-----------------------------------------------------------------------------
(* Properties.                                                             *)

Stages == {"idle", "lookup", "authenticate", "limit", "authorize", "handler", "commit"}

Job == [pc : Stages, route : Routes, key : Tenants \cup {Unknown, Nothing},
        token : {"none", "valid", "invalid"}, conn : Conns \cup {Nothing}, left : 0..2]

Switch == [target : Tenants \cup {Nothing}, saw : BOOLEAN, alone : BOOLEAN]

\* Type invariant: every variable has its type, a connection is held by one
\* thread at most, and a held one is not lost.
TenancyTypeOK ==
    /\ active \in [Tenants -> BOOLEAN]
    /\ job \in [AllThreads -> Job]
    /\ context \in [AllThreads -> Tenants \cup {Nothing}]
    /\ scope \in [AllThreads -> Tenants \cup {Nothing, Closed}]
    /\ switch \in [AllThreads -> Switch]
    /\ path \in [Conns -> Schemas]
    /\ lost \subseteq Conns
    /\ failures \in 0..MaxFailures
    /\ \A w \in AllThreads : job[w].conn # Nothing =>
          /\ job[w].conn \notin lost
          /\ \A v \in AllThreads : job[v].conn = job[w].conn => v = w

\* "A pooled thread cannot carry one request's tenant into the next": the tenant
\* of a thread is the one whose scope its present job opened, and none without,
\* after every refusal, failure and success.
ContextIsTheJobs ==
    \A w \in AllThreads : context[w] = IF scope[w] = Closed THEN Nothing ELSE job[w].key

\* What reaches a controller: a document route only behind the key of a tenant,
\* in the scope of that tenant, a tenant route only behind a valid token,
\* whatever else the request carried.
GrantedByCredential ==
    \A w \in Threads : job[w].pc \in {"handler", "commit"} =>
      /\ job[w].route = "documents" => job[w].key \in Tenants /\ context[w] = job[w].key
      /\ job[w].route \in TenantRoutes => job[w].token = "valid"

\* The schema a transaction is meant for: the tenants table is in the public
\* one, the documents are in their tenant's.
Home(w) == IF job[w].route = "documents" THEN job[w].key ELSE Public

\* Every transaction runs in the schema it is meant for: the documents of a
\* tenant are only read or written behind its key or an event that carries it,
\* and a key or a tenant is looked up where the tenants are, whatever the thread
\* and the connection served before, failed at or were left with.  An
\* administrator who also carries a tenant's key is the exception.
Isolation ==
    \A w \in AllThreads : job[w].conn # Nothing =>
      \/ path[job[w].conn] = Home(w)
      \/ job[w].route \in TenantRoutes /\ job[w].key # Nothing

\* "Returns all tenants. Requires JWT authentication" (TenantController), and
\* "a request carrying both credentials holds both roles, rather than the token
\* silently replacing the tenant key" (JwtAuthenticationFilter): every request
\* with a valid token that reached a tenant route finds the tenants table.
AdminFindsTenants ==
    \A w \in Threads :
      job[w].conn # Nothing /\ job[w].pc = "handler" /\ job[w].route \in TenantRoutes =>
        path[job[w].conn] = Public

\* A switch that was alone leaves the tenant as it says when it is over.
TakesEffect ==
    \A w \in AllThreads :
      switch[w].alone /\ job'[w].pc # "commit" /\ failures' = failures =>
        active'[switch[w].target] = (job[w].route = "reactivate")

\* deactivate and reactivate race: a switch that no other switch of its tenant
\* overlapped, from its read to its commit, leaves the tenant as it says, whether
\* it wrote the row or saw nothing to write.
SwitchTakesEffect == [][TakesEffect]_tenancyVars
=============================================================================
