--------------------------- MODULE TenancyProofs ---------------------------
(***************************************************************************)
(* Proofs about Tenancy, for any sets of tenants, threads and connections. *)
(***************************************************************************)
EXTENDS Tenancy, TLAPS

Assumptions == /\ {Public, Unknown, Closed, Nothing} \cap Tenants = {}
               /\ Nothing \notin {Unknown, Closed}
               /\ Threads \cap Consumers = {}
               /\ Nothing \notin Conns
               /\ MaxFailures \in Nat

LEMMA AllAssumptions == Assumptions
BY TenantsAssumption, ThreadsAssumption, ConnsAssumption, FailuresAssumption DEF Assumptions

-----------------------------------------------------------------------------
(* Types.                                                                  *)

\* The variables that say which tenant a thread works for.
TenantTypes == /\ context \in [AllThreads -> Tenants \cup {Nothing}]
               /\ scope \in [AllThreads -> Tenants \cup {Nothing, Closed}]

LEMMA AtType ==
    ASSUME NEW pc \in Stages, NEW route \in Routes, NEW key \in Tenants \cup {Unknown, Nothing},
           NEW token \in {"none", "valid", "invalid"}, NEW conn \in Conns \cup {Nothing},
           NEW left \in 0..2
    PROVE  At(pc, route, key, token, conn, left) \in Job
BY DEF At, Job

LEMMA IdleType == NoJob \in Job /\ NoJob.conn = Nothing
BY DEF NoJob, At, Job, Stages, Routes

LEMMA NoSwitchType == NoSwitch \in Switch
BY DEF NoSwitch, Switch

LEMMA RestoredType ==
    ASSUME TenancyTypeOK, NEW w \in AllThreads
    PROVE  Restored(w) \in Tenants \cup {Nothing}
BY DEF TenancyTypeOK, Restored

\* A connection that goes back keeps the types of what it touches.
LEMMA ReleaseTypes ==
    ASSUME TenancyTypeOK, NEW c \in Conns, Release(c)
    PROVE  /\ path' \in [Conns -> Schemas]
           /\ lost' \subseteq Conns
           /\ lost' \subseteq lost \cup {c}
           /\ failures' \in 0..MaxFailures
BY AllAssumptions DEF TenancyTypeOK, Release, Schemas, Assumptions

\* What is left to show for a step in which only w's job changes, and no
\* connection is lost but w's.
LEMMA OneJobTypes ==
    ASSUME TenancyTypeOK, NEW w \in AllThreads, NEW j \in Job,
           job' = [job EXCEPT ![w] = j],
           TenantTypes', switch' \in [AllThreads -> Switch],
           active' \in [Tenants -> BOOLEAN],
           path' \in [Conns -> Schemas],
           lost' \subseteq Conns, failures' \in 0..MaxFailures,
           lost' \subseteq lost \cup {job[w].conn},
           \/ j.conn = Nothing
           \/ j.conn = job[w].conn /\ lost' = lost
           \/ j.conn \in Free /\ lost' = lost
    PROVE  TenancyTypeOK'
<1>1. job' \in [AllThreads -> Job]
  BY DEF TenancyTypeOK
<1>2. ASSUME NEW u \in AllThreads, job'[u].conn # Nothing
      PROVE  /\ job'[u].conn \notin lost'
             /\ \A v \in AllThreads : job'[v].conn = job'[u].conn => v = u
  <2>1. \A v \in AllThreads : v # w => job'[v] = job[v]
    BY DEF TenancyTypeOK
  <2>2. job'[w] = j
    BY DEF TenancyTypeOK
  <2>3. CASE u = w
    <3>1. CASE j.conn = job[w].conn /\ lost' = lost
      BY <2>1, <2>2, <2>3, <1>2, <3>1 DEF TenancyTypeOK
    <3>2. CASE j.conn \in Free /\ lost' = lost
      BY <2>1, <2>2, <2>3, <1>2, <3>2 DEF TenancyTypeOK, Free, FreeOrLost
    <3> QED BY <1>2, <2>2, <2>3, <3>1, <3>2
  <2>4. CASE u # w
    <3>1. job[u].conn # Nothing /\ job[u].conn \notin lost /\ job[u].conn # job[w].conn
      BY <2>1, <2>4, <1>2 DEF TenancyTypeOK
    <3>2. job'[u].conn # j.conn
      BY <2>1, <2>4, <1>2, <3>1 DEF TenancyTypeOK, Free, FreeOrLost
    <3> QED BY <2>1, <2>2, <2>4, <3>1, <3>2 DEF TenancyTypeOK
  <2> QED BY <2>3, <2>4
<1> QED BY <1>1, <1>2 DEF TenancyTypeOK, TenantTypes

\* A job that ends is idle, and its connection is nobody's.
LEMMA EndTypes ==
    ASSUME TenancyTypeOK, NEW w \in AllThreads, End(w),
           active' \in [Tenants -> BOOLEAN],
           path' \in [Conns -> Schemas],
           lost' \subseteq Conns, failures' \in 0..MaxFailures,
           lost' \subseteq lost \cup {job[w].conn}
    PROVE  TenancyTypeOK'
<1>1. TenantTypes'
  BY RestoredType DEF TenancyTypeOK, End, TenantTypes
<1>2. switch' \in [AllThreads -> Switch]
  BY NoSwitchType DEF TenancyTypeOK, End
<1> QED BY <1>1, <1>2, IdleType, OneJobTypes DEF End

-----------------------------------------------------------------------------
(* The inductive invariant: what a job's stage says of its tenant, its     *)
(* connection and its roles, and what a switch that is alone can rely on.  *)

\* The schema the scope of a thread stands for.
ScopeSchema(w) == IF scope[w] = Closed THEN Public ELSE job[w].key

JobOK(w) ==
    /\ context[w] = IF scope[w] = Closed THEN Nothing ELSE job[w].key
    /\ scope[w] # Closed => job[w].key \in Tenants /\ scope[w] = Nothing
    /\ job[w].pc \in {"idle", "lookup"} => scope[w] = Closed
    /\ job[w].pc \in {"idle", "lookup", "authenticate", "limit", "authorize"} =>
          job[w].route = "other"
    /\ job[w].pc \in {"authenticate", "limit", "authorize"} => job[w].conn = Nothing
    /\ job[w].conn # Nothing => /\ job[w].pc # "idle"
                            /\ path[job[w].conn] = ScopeSchema(w)
    /\ job[w].route = "documents" => scope[w] # Closed
    /\ job[w].route \in TenantRoutes => job[w].token = "valid"
    /\ job[w].route \in SwitchRoutes => switch[w].target \in Tenants
    /\ job[w].pc = "handler" => job[w].route # "other"
    /\ job[w].pc = "commit" => job[w].conn # Nothing /\ job[w].route \in SwitchRoutes

SwitchOK(w) ==
    switch[w].alone =>
      /\ job[w].pc = "commit"
      /\ switch[w].saw = active[switch[w].target]
      /\ \A v \in AllThreads : Switching(v, switch[w].target) => v = w

JobsOK == \A w \in AllThreads : JobOK(w)

SwitchesOK == \A w \in AllThreads : SwitchOK(w)

Inv == TenancyTypeOK /\ JobsOK /\ SwitchesOK

\* Reading a tenant keeps the type of what the switches know.
LEMMA ReadTypes ==
    ASSUME TenancyTypeOK, JobsOK, NEW w \in AllThreads, ReadTenant(w), path[job[w].conn] = Public
    PROVE  switch' \in [AllThreads -> Switch]
<1> DEFINE t == switch[w].target
           others == {v \in AllThreads \ {w} : Switching(v, t)}
           saw(v) == IF v = w THEN active[t] ELSE switch[v].saw
           alone(v) == IF v = w THEN others = {} ELSE switch[v].alone /\ v \notin others
           s(v) == [target |-> switch[v].target, saw |-> saw(v), alone |-> alone(v)]
<1>1. switch' = [v \in AllThreads |-> s(v)]
  BY DEF ReadTenant
<1>2. t \in Tenants
  BY DEF JobsOK, JobOK, ReadTenant
<1>3. ASSUME NEW v \in AllThreads PROVE s(v) \in Switch
  <2>1. switch[v].target \in Tenants \cup {Nothing}
    BY DEF TenancyTypeOK, Switch
  <2>2. saw(v) \in BOOLEAN
    <3>1. switch[v].saw \in BOOLEAN
      BY DEF TenancyTypeOK, Switch
    <3>2. active[t] \in BOOLEAN
      BY <1>2 DEF TenancyTypeOK
    <3> QED BY <3>1, <3>2, Zenon
  <2>3. alone(v) \in BOOLEAN
    <3> HIDE DEF others
    <3> QED BY Zenon
  <2> HIDE DEF saw, alone
  <2> QED BY <2>1, <2>2, <2>3 DEF Switch
<1> HIDE DEF s
<1> QED BY <1>1, <1>3

LEMMA TypeStep ==
    ASSUME TenancyTypeOK, JobsOK, [TenancyNext]_tenancyVars
    PROVE  TenancyTypeOK'
<1>0. Threads \subseteq AllThreads /\ Consumers \subseteq AllThreads
  BY DEF AllThreads
<1>1. ASSUME NEW w \in Threads, NEW key \in Tenants \cup {Unknown, Nothing}, Receive(w, key)
      PROVE  TenancyTypeOK'
  <2> DEFINE j == At(IF key = Nothing THEN "authenticate" ELSE "lookup", "other", key, "none", Nothing, 1)
  <2>1. j \in Job /\ j.conn = Nothing
    BY DEF At, Job, Stages, Routes
  <2> QED BY <1>0, <1>1, <2>1, OneJobTypes DEF Receive, TenancyTypeOK, TenantTypes
<1>2. ASSUME NEW w \in Threads, Lookup(w)
      PROVE  TenancyTypeOK'
  <2> DEFINE t == job[w].key
             j == At("authenticate", "other", t, "none", Nothing, 1)
  <2>1. job[w].conn \in Conns /\ Release(job[w].conn) /\ active' = active
    BY <1>0, <1>2 DEF TenancyTypeOK, Job, Lookup
  <2>2. CASE End(w)
    BY <1>0, <2>1, <2>2, ReleaseTypes, EndTypes DEF TenancyTypeOK
  <2>3. CASE ~End(w)
    <3>1. t \in Tenants /\ job' = [job EXCEPT ![w] = j] /\ Open(w, t) /\ switch' = switch
      BY <1>2, <2>3 DEF Lookup
    <3>2. j \in Job /\ j.conn = Nothing
      BY <3>1 DEF At, Job, Stages, Routes
    <3>3. TenantTypes'
      BY <1>0, <3>1 DEF TenancyTypeOK, TenantTypes, Open
    <3> QED BY <1>0, <2>1, <3>1, <3>2, <3>3, ReleaseTypes, OneJobTypes DEF TenancyTypeOK
  <2> QED BY <2>2, <2>3
<1>3. ASSUME NEW w \in Threads, NEW token \in {"none", "valid", "invalid"}, Authenticate(w, token)
      PROVE  TenancyTypeOK'
  <2> DEFINE j == At("limit", "other", job[w].key, token, Nothing, 1)
  <2>1. CASE token = "invalid"
    BY <1>0, <1>3, <2>1, EndTypes DEF Authenticate, TenancyTypeOK
  <2>2. CASE token # "invalid"
    <3>1. j \in Job /\ j.conn = Nothing
      BY <1>0 DEF TenancyTypeOK, Job, At, Stages, Routes
    <3> QED BY <1>0, <1>3, <2>2, <3>1, OneJobTypes DEF Authenticate, TenancyTypeOK, TenantTypes
  <2> QED BY <2>1, <2>2
<1>4. ASSUME NEW w \in Threads, RateLimit(w)
      PROVE  TenancyTypeOK'
  <2> DEFINE j == At("authorize", "other", job[w].key, job[w].token, Nothing, 1)
  <2>1. CASE End(w)
    BY <1>0, <1>4, <2>1, EndTypes DEF RateLimit, TenancyTypeOK
  <2>2. CASE ~End(w)
    <3>1. j \in Job /\ j.conn = Nothing
      BY <1>0 DEF TenancyTypeOK, Job, At, Stages, Routes
    <3> QED BY <1>0, <1>4, <2>2, <3>1, OneJobTypes DEF RateLimit, TenancyTypeOK, TenantTypes
  <2> QED BY <2>1, <2>2
<1>5. ASSUME NEW w \in Threads, NEW route \in Routes, NEW target \in Tenants,
             Authorize(w, route, target)
      PROVE  TenancyTypeOK'
  <2> DEFINE j == At("handler", route, job[w].key, job[w].token, Nothing, 1)
  <2>1. CASE End(w)
    BY <1>0, <1>5, <2>1, EndTypes DEF Authorize, TenancyTypeOK
  <2>2. CASE ~End(w)
    <3>1. j \in Job /\ j.conn = Nothing
      BY <1>0 DEF TenancyTypeOK, Job, At, Stages, Routes
    <3>2. switch' \in [AllThreads -> Switch]
      <4> DEFINE s == [target |-> IF route \in SwitchRoutes THEN target ELSE Nothing,
                       saw |-> FALSE, alone |-> FALSE]
      <4>1. s \in Switch
        BY DEF Switch
      <4>2. switch' = [switch EXCEPT ![w] = s]
        BY <1>5, <2>2 DEF Authorize
      <4> HIDE DEF s
      <4> QED BY <4>1, <4>2 DEF TenancyTypeOK
    <3> QED BY <1>0, <1>5, <2>2, <3>1, <3>2, OneJobTypes DEF Authorize, TenancyTypeOK, TenantTypes
  <2> QED BY <2>1, <2>2
<1>6. ASSUME NEW w \in Consumers, NEW t \in Tenants, NEW n \in 1..2, Consume(w, t, n)
      PROVE  TenancyTypeOK'
  <2> DEFINE j == At("handler", "documents", t, "none", Nothing, n)
  <2>1. j \in Job /\ j.conn = Nothing
    BY DEF At, Job, Stages, Routes
  <2>2. TenantTypes'
    BY <1>0, <1>6 DEF TenancyTypeOK, TenantTypes, Consume, Open
  <2> QED BY <1>0, <1>6, <2>1, <2>2, OneJobTypes DEF Consume, TenancyTypeOK
<1>7. ASSUME NEW w \in AllThreads, NEW c \in Conns, Checkout(w, c)
      PROVE  TenancyTypeOK'
  <2> DEFINE j == At(job[w].pc, job[w].route, job[w].key, job[w].token, c, job[w].left)
  <2>1. j \in Job /\ j.conn = c
    BY DEF TenancyTypeOK, Job, At
  <2>2. path' \in [Conns -> Schemas]
    BY <1>7 DEF TenancyTypeOK, Checkout, PathOf, Resolved, Schemas
  <2> QED BY <1>7, <2>1, <2>2, OneJobTypes DEF Checkout, TenancyTypeOK, TenantTypes
<1>8. ASSUME NEW w \in AllThreads, CheckoutTimesOut(w)
      PROVE  TenancyTypeOK'
  BY <1>8, EndTypes DEF TenancyTypeOK, CheckoutTimesOut
<1>9. ASSUME NEW w \in AllThreads, ConnectionFails(w)
      PROVE  TenancyTypeOK'
  <2>1. path' \in [Conns -> Schemas] /\ lost' \subseteq lost \cup {job[w].conn}
    BY <1>9 DEF TenancyTypeOK, Job, ConnectionFails, Schemas
  <2>2. lost' \subseteq Conns /\ failures' \in 0..MaxFailures
    BY <1>9, AllAssumptions DEF TenancyTypeOK, Job, ConnectionFails, Assumptions
  <2> QED BY <1>9, <2>1, <2>2, EndTypes DEF ConnectionFails, TenancyTypeOK
<1>10. ASSUME NEW w \in AllThreads, Documents(w)
       PROVE  TenancyTypeOK'
  <2> DEFINE j == At("handler", "documents", job[w].key, "none", Nothing, 1)
  <2>1. job[w].conn \in Conns /\ Release(job[w].conn) /\ active' = active
    BY <1>10 DEF TenancyTypeOK, Job, Documents
  <2>2. CASE End(w)
    BY <2>1, <2>2, ReleaseTypes, EndTypes DEF TenancyTypeOK
  <2>3. CASE ~End(w)
    <3>1. job' = [job EXCEPT ![w] = j] /\ UNCHANGED <<context, scope, switch>>
      BY <1>10, <2>3 DEF Documents
    <3>2. j \in Job /\ j.conn = Nothing
      BY DEF TenancyTypeOK, Job, At, Stages, Routes
    <3> QED BY <2>1, <3>1, <3>2, ReleaseTypes, OneJobTypes DEF TenancyTypeOK, TenantTypes
  <2> QED BY <2>2, <2>3
<1>11. ASSUME NEW w \in AllThreads, ReadTenants(w)
       PROVE  TenancyTypeOK'
  <2>1. job[w].conn \in Conns
    BY <1>11 DEF TenancyTypeOK, Job, ReadTenants
  <2> QED BY <1>11, <2>1, ReleaseTypes, EndTypes DEF ReadTenants, TenancyTypeOK
<1>12. ASSUME NEW w \in AllThreads, ReadTenant(w)
       PROVE  TenancyTypeOK'
  <2> DEFINE j == At("commit", job[w].route, job[w].key, job[w].token, job[w].conn, 1)
  <2>1. CASE path[job[w].conn] # Public
    <3>1. job[w].conn \in Conns /\ Release(job[w].conn) /\ End(w) /\ active' = active
      BY <1>12, <2>1 DEF TenancyTypeOK, Job, ReadTenant
    <3> QED BY <3>1, ReleaseTypes, EndTypes DEF TenancyTypeOK
  <2>2. CASE path[job[w].conn] = Public
    <3>1. j \in Job /\ j.conn = job[w].conn
      BY DEF TenancyTypeOK, Job, At, Stages
    <3>2. job' = [job EXCEPT ![w] = j] /\ UNCHANGED <<active, context, scope, path, lost, failures>>
      BY <1>12, <2>2 DEF ReadTenant
    <3>3. switch' \in [AllThreads -> Switch]
      BY <1>12, <2>2, ReadTypes
    <3> QED BY <3>1, <3>2, <3>3, OneJobTypes DEF TenancyTypeOK, TenantTypes
  <2> QED BY <2>1, <2>2
<1>13. ASSUME NEW w \in AllThreads, CommitTenant(w)
       PROVE  TenancyTypeOK'
  <2>1. job[w].conn \in Conns /\ Release(job[w].conn) /\ End(w)
    BY <1>13 DEF TenancyTypeOK, Job, CommitTenant, JobsOK, JobOK
  <2>2. active' \in [Tenants -> BOOLEAN]
    <3>1. switch[w].target \in Tenants
      BY <1>13 DEF CommitTenant, JobsOK, JobOK
    <3>2. Switched(w) \in BOOLEAN
      <4>1. active[switch[w].target] \in BOOLEAN
        BY <3>1 DEF TenancyTypeOK
      <4>2. (job[w].route = "reactivate") \in BOOLEAN
        OBVIOUS
      <4> QED BY <4>1, <4>2, Zenon DEF Switched
    <3> QED BY <1>13, <3>1, <3>2 DEF CommitTenant, TenancyTypeOK
  <2> QED BY <2>1, <2>2, ReleaseTypes, EndTypes
<1>14. ASSUME NEW t \in Tenants, NEW c \in Conns, Migrate(t, c)
       PROVE  TenancyTypeOK'
  <2>1. path' \in [Conns -> Schemas]
    BY <1>14 DEF TenancyTypeOK, Migrate, Schemas
  <2> QED BY <1>14, <2>1 DEF TenancyTypeOK, Migrate
<1>15. CASE UNCHANGED tenancyVars
  BY <1>15 DEF TenancyTypeOK, tenancyVars
<1> QED BY <1>1, <1>2, <1>3, <1>4, <1>5, <1>6, <1>7, <1>8, <1>9, <1>10, <1>11, <1>12,
           <1>13, <1>14, <1>15 DEF TenancyNext, Filters, Transaction
-----------------------------------------------------------------------------
(* Jobs.                                                                   *)

\* A step of w leaves the other threads' jobs in order: it only touches the
\* path of a connection that none of them holds.
LEMMA OthersJobs ==
    ASSUME TenancyTypeOK, JobsOK, NEW w \in AllThreads, NEW v \in AllThreads, v # w,
           job'[v] = job[v], context'[v] = context[v], scope'[v] = scope[v],
           switch'[v].target = switch[v].target,
           \A c \in Conns : c # job[w].conn /\ c \notin Free => path'[c] = path[c]
    PROVE  JobOK(v)'
<1>1. JobOK(v)
  BY DEF JobsOK
<1>2. job[v].conn # Nothing => path'[job[v].conn] = path[job[v].conn]
  BY DEF TenancyTypeOK, Job, Free, FreeOrLost
<1> QED BY <1>1, <1>2 DEF JobOK, ScopeSchema

\* A job that ends leaves every thread in order.
LEMMA EndJobs ==
    ASSUME TenancyTypeOK, JobsOK, NEW w \in AllThreads, End(w),
           \A c \in Conns : c # job[w].conn => path'[c] = path[c]
    PROVE  JobsOK'
<1>1. JobOK(w)'
  <2>1. job'[w] = NoJob /\ scope'[w] = Closed /\ context'[w] = Restored(w)
    BY DEF End, TenancyTypeOK
  <2>2. Restored(w) = Nothing
    BY DEF Restored, JobsOK, JobOK
  <2> QED BY <2>1, <2>2 DEF JobOK, NoJob, At, TenantRoutes, SwitchRoutes
<1>2. ASSUME NEW v \in AllThreads, v # w PROVE JobOK(v)'
  BY <1>2, OthersJobs DEF End, TenancyTypeOK
<1> QED BY <1>1, <1>2 DEF JobsOK

\* The reset of a connection leaves the paths of the others.
LEMMA ReleasePath ==
    ASSUME TenancyTypeOK, NEW c \in Conns, Release(c)
    PROVE  \A d \in Conns : d # c => path'[d] = path[d]
BY DEF TenancyTypeOK, Release

LEMMA JobStep ==
    ASSUME TenancyTypeOK, JobsOK, [TenancyNext]_tenancyVars
    PROVE  JobsOK'
<1>0. Threads \subseteq AllThreads /\ Consumers \subseteq AllThreads
  BY DEF AllThreads
<1>1. ASSUME NEW w \in Threads, NEW key \in Tenants \cup {Unknown, Nothing}, Receive(w, key)
      PROVE  JobsOK'
  <2> DEFINE j == At(IF key = Nothing THEN "authenticate" ELSE "lookup", "other", key, "none", Nothing, 1)
  <2>1. job'[w] = j
    BY <1>0, <1>1 DEF Receive, TenancyTypeOK
  <2>2. JobOK(w)'
    BY <1>0, <1>1, <2>1 DEF JobsOK, JobOK, Receive, At, TenantRoutes, SwitchRoutes
  <2>3. ASSUME NEW v \in AllThreads, v # w PROVE JobOK(v)'
    BY <1>0, <1>1, <2>3, OthersJobs DEF Receive, TenancyTypeOK
  <2> QED BY <2>2, <2>3 DEF JobsOK
<1>2. ASSUME NEW w \in Threads, Lookup(w)
      PROVE  JobsOK'
  <2> DEFINE t == job[w].key
             j == At("authenticate", "other", t, "none", Nothing, 1)
  <2>1. job[w].conn \in Conns /\ Release(job[w].conn)
    BY <1>0, <1>2 DEF TenancyTypeOK, Job, Lookup
  <2>2. CASE End(w)
    BY <1>0, <2>1, <2>2, ReleasePath, EndJobs
  <2>3. CASE ~End(w)
    <3>1. t \in Tenants /\ job' = [job EXCEPT ![w] = j] /\ Open(w, t) /\ switch' = switch
      BY <1>2, <2>3 DEF Lookup
    <3>2. job'[w] = j /\ context'[w] = t /\ scope'[w] = context[w]
      BY <1>0, <3>1 DEF Open, TenancyTypeOK
    <3>3. context[w] = Nothing
      BY <1>0, <1>2 DEF JobsOK, JobOK, Lookup
    <3>4. JobOK(w)'
      BY <3>1, <3>2, <3>3, AllAssumptions
         DEF JobOK, At, TenantRoutes, SwitchRoutes, Assumptions
    <3>5. ASSUME NEW v \in AllThreads, v # w PROVE JobOK(v)'
      BY <1>0, <2>1, <3>1, <3>5, ReleasePath, OthersJobs DEF Open, TenancyTypeOK
    <3> QED BY <3>4, <3>5 DEF JobsOK
  <2> QED BY <2>2, <2>3
<1>3. ASSUME NEW w \in Threads, NEW token \in {"none", "valid", "invalid"}, Authenticate(w, token)
      PROVE  JobsOK'
  <2> DEFINE j == At("limit", "other", job[w].key, token, Nothing, 1)
  <2>1. CASE token = "invalid"
    BY <1>0, <1>3, <2>1, EndJobs DEF Authenticate
  <2>2. CASE token # "invalid"
    <3>1. job' = [job EXCEPT ![w] = j] /\ UNCHANGED <<context, scope, switch, path>>
      BY <1>3, <2>2 DEF Authenticate
    <3>2. job'[w] = j
      BY <1>0, <3>1 DEF TenancyTypeOK
    <3>3. JobOK(w)'
      BY <1>0, <3>1, <3>2 DEF JobsOK, JobOK, At, TenantRoutes, SwitchRoutes
    <3>4. ASSUME NEW v \in AllThreads, v # w PROVE JobOK(v)'
      BY <1>0, <3>1, <3>4, OthersJobs DEF TenancyTypeOK
    <3> QED BY <3>3, <3>4 DEF JobsOK
  <2> QED BY <2>1, <2>2
<1>4. ASSUME NEW w \in Threads, RateLimit(w)
      PROVE  JobsOK'
  <2> DEFINE j == At("authorize", "other", job[w].key, job[w].token, Nothing, 1)
  <2>1. CASE End(w)
    BY <1>0, <1>4, <2>1, EndJobs DEF RateLimit
  <2>2. CASE ~End(w)
    <3>1. job' = [job EXCEPT ![w] = j] /\ UNCHANGED <<context, scope, switch, path>>
      BY <1>4, <2>2 DEF RateLimit
    <3>2. job'[w] = j
      BY <1>0, <3>1 DEF TenancyTypeOK
    <3>3. JobOK(w)'
      BY <1>0, <3>1, <3>2 DEF JobsOK, JobOK, At, TenantRoutes, SwitchRoutes
    <3>4. ASSUME NEW v \in AllThreads, v # w PROVE JobOK(v)'
      BY <1>0, <3>1, <3>4, OthersJobs DEF TenancyTypeOK
    <3> QED BY <3>3, <3>4 DEF JobsOK
  <2> QED BY <2>1, <2>2
<1>5. ASSUME NEW w \in Threads, NEW route \in Routes, NEW target \in Tenants,
             Authorize(w, route, target)
      PROVE  JobsOK'
  <2> DEFINE j == At("handler", route, job[w].key, job[w].token, Nothing, 1)
  <2>1. CASE End(w)
    BY <1>0, <1>5, <2>1, EndJobs DEF Authorize
  <2>2. CASE ~End(w)
    <3> DEFINE s == [target |-> IF route \in SwitchRoutes THEN target ELSE Nothing,
                     saw |-> FALSE, alone |-> FALSE]
    <3>1. /\ job' = [job EXCEPT ![w] = j] /\ UNCHANGED <<context, scope, path>>
          /\ switch' = [switch EXCEPT ![w] = s]
          /\ route # "other" /\ Authorized(route, Roles(w))
      BY <1>5, <2>2 DEF Authorize
    <3>2. job'[w] = j /\ switch'[w] = s
      BY <1>0, <3>1 DEF TenancyTypeOK
    <3>3. route = "documents" => scope[w] # Closed
      BY <3>1 DEF Authorized, Roles
    <3>4. route \in TenantRoutes => job[w].token = "valid"
      BY <3>1 DEF Authorized, Roles, TenantRoutes
    <3>5. JobOK(w)'
      BY <1>0, <3>1, <3>2, <3>3, <3>4 DEF JobsOK, JobOK, At
    <3>6. ASSUME NEW v \in AllThreads, v # w PROVE JobOK(v)'
      BY <1>0, <3>1, <3>6, OthersJobs DEF TenancyTypeOK
    <3> QED BY <3>5, <3>6 DEF JobsOK
  <2> QED BY <2>1, <2>2
<1>6. ASSUME NEW w \in Consumers, NEW t \in Tenants, NEW n \in 1..2, Consume(w, t, n)
      PROVE  JobsOK'
  <2> DEFINE j == At("handler", "documents", t, "none", Nothing, n)
  <2>1. /\ job'[w] = j /\ context'[w] = t /\ scope'[w] = context[w]
        /\ UNCHANGED <<switch, path>>
    BY <1>0, <1>6 DEF Consume, Open, TenancyTypeOK
  <2>2. context[w] = Nothing
    BY <1>0, <1>6 DEF JobsOK, JobOK, Consume
  <2>3. JobOK(w)'
    BY <2>1, <2>2, AllAssumptions DEF JobOK, At, TenantRoutes, SwitchRoutes, Assumptions
  <2>4. ASSUME NEW v \in AllThreads, v # w PROVE JobOK(v)'
    BY <1>0, <1>6, <2>4, OthersJobs DEF Consume, Open, TenancyTypeOK
  <2> QED BY <2>3, <2>4 DEF JobsOK
<1>7. ASSUME NEW w \in AllThreads, NEW c \in Conns, Checkout(w, c)
      PROVE  JobsOK'
  <2> DEFINE j == At(job[w].pc, job[w].route, job[w].key, job[w].token, c, job[w].left)
  <2>1. job'[w] = j /\ path'[c] = PathOf(w, c) /\ UNCHANGED <<context, scope, switch>>
    BY <1>7 DEF Checkout, TenancyTypeOK
  <2>2. PathOf(w, c) = ScopeSchema(w)
    BY AllAssumptions DEF PathOf, Resolved, ScopeSchema, JobsOK, JobOK, Assumptions
  <2>3. JobOK(w)'
    <3>1. JobOK(w)
      BY DEF JobsOK
    <3>2. job[w].pc \in {"lookup", "handler"}
      BY <1>7 DEF Checkout
    <3> QED BY <2>1, <2>2, <3>1, <3>2 DEF JobOK, ScopeSchema, At
  <2>4. ASSUME NEW v \in AllThreads, v # w PROVE JobOK(v)'
    <3>1. \A d \in Conns : d # c => path'[d] = path[d]
      BY <1>7 DEF Checkout, TenancyTypeOK
    <3> QED BY <1>7, <2>4, <3>1, OthersJobs DEF Checkout, TenancyTypeOK
  <2> QED BY <2>3, <2>4 DEF JobsOK
<1>8. ASSUME NEW w \in AllThreads, CheckoutTimesOut(w)
      PROVE  JobsOK'
  BY <1>8, EndJobs DEF CheckoutTimesOut
<1>9. ASSUME NEW w \in AllThreads, ConnectionFails(w)
      PROVE  JobsOK'
  <2>1. \A c \in Conns : c # job[w].conn => path'[c] = path[c]
    BY <1>9 DEF ConnectionFails, TenancyTypeOK
  <2> QED BY <1>9, <2>1, EndJobs DEF ConnectionFails
<1>10. ASSUME NEW w \in AllThreads, Documents(w)
       PROVE  JobsOK'
  <2> DEFINE j == At("handler", "documents", job[w].key, "none", Nothing, 1)
  <2>1. job[w].conn \in Conns /\ Release(job[w].conn)
    BY <1>10 DEF TenancyTypeOK, Job, Documents
  <2>2. CASE End(w)
    BY <2>1, <2>2, ReleasePath, EndJobs
  <2>3. CASE ~End(w)
    <3>1. job' = [job EXCEPT ![w] = j] /\ UNCHANGED <<context, scope, switch>>
      BY <1>10, <2>3 DEF Documents
    <3>2. job'[w] = j
      BY <3>1 DEF TenancyTypeOK
    <3>3. JobOK(w)'
      BY <1>10, <3>1, <3>2 DEF JobsOK, JobOK, Documents, At, TenantRoutes, SwitchRoutes
    <3>4. ASSUME NEW v \in AllThreads, v # w PROVE JobOK(v)'
      BY <2>1, <3>1, <3>4, ReleasePath, OthersJobs DEF TenancyTypeOK
    <3> QED BY <3>3, <3>4 DEF JobsOK
  <2> QED BY <2>2, <2>3
<1>11. ASSUME NEW w \in AllThreads, ReadTenants(w)
       PROVE  JobsOK'
  <2>1. job[w].conn \in Conns
    BY <1>11 DEF TenancyTypeOK, Job, ReadTenants
  <2> QED BY <1>11, <2>1, ReleasePath, EndJobs DEF ReadTenants
<1>12. ASSUME NEW w \in AllThreads, ReadTenant(w)
       PROVE  JobsOK'
  <2> DEFINE j == At("commit", job[w].route, job[w].key, job[w].token, job[w].conn, 1)
  <2>1. CASE path[job[w].conn] # Public
    <3>1. job[w].conn \in Conns /\ Release(job[w].conn) /\ End(w)
      BY <1>12, <2>1 DEF TenancyTypeOK, Job, ReadTenant
    <3> QED BY <3>1, ReleasePath, EndJobs
  <2>2. CASE path[job[w].conn] = Public
    <3>1. job' = [job EXCEPT ![w] = j] /\ UNCHANGED <<context, scope, path>>
      BY <1>12, <2>2 DEF ReadTenant
    <3>2. job'[w] = j
      BY <3>1 DEF TenancyTypeOK
    <3>3. \A v \in AllThreads : switch'[v].target = switch[v].target
      BY <1>12, <2>2 DEF ReadTenant
    <3>4. JobOK(w)'
      <4>1. JobOK(w) /\ job[w].conn # Nothing /\ job[w].route \in SwitchRoutes
            /\ job[w].pc = "handler"
        BY <1>12 DEF JobsOK, ReadTenant
      <4> QED BY <3>1, <3>2, <3>3, <4>1 DEF JobOK, ScopeSchema, At, SwitchRoutes
    <3>5. ASSUME NEW v \in AllThreads, v # w PROVE JobOK(v)'
      BY <3>1, <3>3, <3>5, OthersJobs DEF TenancyTypeOK
    <3> QED BY <3>4, <3>5 DEF JobsOK
  <2> QED BY <2>1, <2>2
<1>13. ASSUME NEW w \in AllThreads, CommitTenant(w)
       PROVE  JobsOK'
  <2>1. job[w].conn \in Conns /\ Release(job[w].conn) /\ End(w)
    BY <1>13 DEF TenancyTypeOK, Job, CommitTenant, JobsOK, JobOK
  <2> QED BY <2>1, ReleasePath, EndJobs
<1>14. ASSUME NEW t \in Tenants, NEW c \in Conns, Migrate(t, c)
       PROVE  JobsOK'
  <2>1. UNCHANGED <<job, context, scope, switch>>
    BY <1>14 DEF Migrate
  <2>2. ASSUME NEW v \in AllThreads PROVE JobOK(v)'
    <3>1. job[v].conn # Nothing => path'[job[v].conn] = path[job[v].conn]
      BY <1>14 DEF Migrate, TenancyTypeOK, Job, Free, FreeOrLost
    <3> QED BY <2>1, <3>1 DEF JobsOK, JobOK, ScopeSchema
  <2> QED BY <2>2 DEF JobsOK
<1>15. CASE UNCHANGED tenancyVars
  BY <1>15 DEF tenancyVars, JobsOK, JobOK, ScopeSchema
<1> QED BY <1>1, <1>2, <1>3, <1>4, <1>5, <1>6, <1>7, <1>8, <1>9, <1>10, <1>11, <1>12,
           <1>13, <1>14, <1>15 DEF TenancyNext, Filters, Transaction
-----------------------------------------------------------------------------
(* Switches.                                                               *)

\* The step leaves every tenant as it is but the one that w commits.
Others(w) == \A t \in Tenants :
                active'[t] = active[t] \/ (job[w].pc = "commit" /\ switch[w].target = t)

\* A step of w after which it is not at its commit: the switches of the other
\* threads are as alone as they were, and what they saw is still there unless w
\* committed the same tenant.
LEMMA OtherSwitches ==
    ASSUME TenancyTypeOK, JobsOK, SwitchesOK, NEW w \in AllThreads,
           job'[w].pc # "commit", ~switch'[w].alone,
           \A v \in AllThreads : v # w => job'[v] = job[v] /\ switch'[v] = switch[v],
           Others(w)
    PROVE  SwitchesOK'
<1> USE DEF Others
<1> SUFFICES ASSUME NEW u \in AllThreads, switch'[u].alone PROVE SwitchOK(u)'
  BY DEF SwitchesOK, SwitchOK
<1>1. u # w /\ job'[u] = job[u] /\ switch'[u] = switch[u] /\ switch[u].alone
  OBVIOUS
<1>2. /\ job[u].pc = "commit"
      /\ switch[u].saw = active[switch[u].target]
      /\ \A v \in AllThreads : Switching(v, switch[u].target) => v = u
  BY <1>1 DEF SwitchesOK, SwitchOK
<1>3. switch[u].target \in Tenants
  BY <1>2 DEF JobsOK, JobOK
<1>4. active'[switch[u].target] = active[switch[u].target]
  BY <1>1, <1>2, <1>3 DEF Switching
<1>5. \A v \in AllThreads : Switching(v, switch[u].target)' => v = u
  BY <1>1, <1>2 DEF Switching
<1> QED BY <1>1, <1>2, <1>4, <1>5 DEF SwitchOK

\* A job that ends.
LEMMA EndSwitches ==
    ASSUME TenancyTypeOK, JobsOK, SwitchesOK, NEW w \in AllThreads, End(w),
           Others(w)
    PROVE  SwitchesOK'
<1>1. job'[w] = NoJob /\ switch'[w] = NoSwitch
  BY DEF End, TenancyTypeOK
<1>2. job'[w].pc # "commit" /\ ~switch'[w].alone
  BY <1>1 DEF NoJob, At, NoSwitch
<1>3. \A v \in AllThreads : v # w => job'[v] = job[v] /\ switch'[v] = switch[v]
  BY DEF End, TenancyTypeOK
<1> QED BY <1>2, <1>3, OtherSwitches

\* A job that ends without a commit.
LEMMA EndSwitchesSame ==
    ASSUME TenancyTypeOK, JobsOK, SwitchesOK, NEW w \in AllThreads, End(w), active' = active
    PROVE  SwitchesOK'
<1>1. Others(w)
  BY DEF Others
<1> QED BY <1>1, EndSwitches

\* A step that moves a job on to a stage that is not its commit.
LEMMA MoveSwitches ==
    ASSUME TenancyTypeOK, JobsOK, SwitchesOK, NEW w \in AllThreads, NEW j,
           job[w].pc # "commit", j.pc # "commit",
           job' = [job EXCEPT ![w] = j], UNCHANGED <<active, switch>>
    PROVE  SwitchesOK'
<1>1. ~switch[w].alone
  BY DEF SwitchesOK, SwitchOK
<1>2. job'[w].pc # "commit"
  BY DEF TenancyTypeOK
<1>3. \A v \in AllThreads : v # w => job'[v] = job[v] /\ switch'[v] = switch[v]
  BY DEF TenancyTypeOK
<1>4. Others(w) /\ ~switch'[w].alone
  BY <1>1 DEF Others
<1> QED BY <1>2, <1>3, <1>4, OtherSwitches

LEMMA SwitchStep ==
    ASSUME TenancyTypeOK, JobsOK, SwitchesOK, [TenancyNext]_tenancyVars
    PROVE  SwitchesOK'
<1>0. Threads \subseteq AllThreads /\ Consumers \subseteq AllThreads
  BY DEF AllThreads
<1>1. ASSUME NEW w \in Threads, NEW key \in Tenants \cup {Unknown, Nothing}, Receive(w, key)
      PROVE  SwitchesOK'
  <2> DEFINE j == At(IF key = Nothing THEN "authenticate" ELSE "lookup", "other", key, "none", Nothing, 1)
  <2>1. j.pc # "commit"
    BY DEF At
  <2> QED BY <1>0, <1>1, <2>1, MoveSwitches DEF Receive
<1>2. ASSUME NEW w \in Threads, Lookup(w)
      PROVE  SwitchesOK'
  <2> DEFINE j == At("authenticate", "other", job[w].key, "none", Nothing, 1)
  <2>1. j.pc # "commit"
    BY DEF At
  <2> QED BY <1>0, <1>2, <2>1, MoveSwitches, EndSwitchesSame DEF Lookup
<1>3. ASSUME NEW w \in Threads, NEW token \in {"none", "valid", "invalid"}, Authenticate(w, token)
      PROVE  SwitchesOK'
  <2> DEFINE j == At("limit", "other", job[w].key, token, Nothing, 1)
  <2>1. j.pc # "commit"
    BY DEF At
  <2> QED BY <1>0, <1>3, <2>1, MoveSwitches, EndSwitchesSame DEF Authenticate
<1>4. ASSUME NEW w \in Threads, RateLimit(w)
      PROVE  SwitchesOK'
  <2> DEFINE j == At("authorize", "other", job[w].key, job[w].token, Nothing, 1)
  <2>1. j.pc # "commit"
    BY DEF At
  <2> QED BY <1>0, <1>4, <2>1, MoveSwitches, EndSwitchesSame DEF RateLimit
<1>5. ASSUME NEW w \in Threads, NEW route \in Routes, NEW target \in Tenants,
             Authorize(w, route, target)
      PROVE  SwitchesOK'
  <2> DEFINE j == At("handler", route, job[w].key, job[w].token, Nothing, 1)
             s == [target |-> IF route \in SwitchRoutes THEN target ELSE Nothing,
                   saw |-> FALSE, alone |-> FALSE]
  <2>1. CASE End(w)
    BY <1>0, <1>5, <2>1, EndSwitchesSame DEF Authorize
  <2>2. CASE ~End(w)
    <3>1. /\ job' = [job EXCEPT ![w] = j] /\ switch' = [switch EXCEPT ![w] = s]
          /\ active' = active
      BY <1>5, <2>2 DEF Authorize
    <3>2. job'[w].pc # "commit" /\ ~switch'[w].alone
      BY <1>0, <3>1 DEF TenancyTypeOK, At
    <3>3. \A v \in AllThreads : v # w => job'[v] = job[v] /\ switch'[v] = switch[v]
      BY <3>1 DEF TenancyTypeOK
    <3>4. Others(w)
      BY <3>1 DEF Others
    <3> QED BY <1>0, <3>2, <3>3, <3>4, OtherSwitches
  <2> QED BY <2>1, <2>2
<1>6. ASSUME NEW w \in Consumers, NEW t \in Tenants, NEW n \in 1..2, Consume(w, t, n)
      PROVE  SwitchesOK'
  <2> DEFINE j == At("handler", "documents", t, "none", Nothing, n)
  <2>1. j.pc # "commit"
    BY DEF At
  <2> QED BY <1>0, <1>6, <2>1, MoveSwitches DEF Consume
<1>7. ASSUME NEW w \in AllThreads, NEW c \in Conns, Checkout(w, c)
      PROVE  SwitchesOK'
  <2> DEFINE j == At(job[w].pc, job[w].route, job[w].key, job[w].token, c, job[w].left)
  <2>1. j.pc # "commit" /\ job[w].pc # "commit"
    BY <1>7 DEF At, Checkout
  <2> QED BY <1>7, <2>1, MoveSwitches DEF Checkout
<1>8. ASSUME NEW w \in AllThreads, CheckoutTimesOut(w)
      PROVE  SwitchesOK'
  BY <1>8, EndSwitchesSame DEF CheckoutTimesOut
<1>9. ASSUME NEW w \in AllThreads, ConnectionFails(w)
      PROVE  SwitchesOK'
  BY <1>9, EndSwitchesSame DEF ConnectionFails
<1>10. ASSUME NEW w \in AllThreads, Documents(w)
       PROVE  SwitchesOK'
  <2> DEFINE j == At("handler", "documents", job[w].key, "none", Nothing, 1)
  <2>1. j.pc # "commit"
    BY DEF At
  <2> QED BY <1>10, <2>1, MoveSwitches, EndSwitchesSame DEF Documents
<1>11. ASSUME NEW w \in AllThreads, ReadTenants(w)
       PROVE  SwitchesOK'
  BY <1>11, EndSwitchesSame DEF ReadTenants
<1>12. ASSUME NEW w \in AllThreads, ReadTenant(w)
       PROVE  SwitchesOK'
  <2> DEFINE t == switch[w].target
             others == {v \in AllThreads \ {w} : Switching(v, t)}
             j == At("commit", job[w].route, job[w].key, job[w].token, job[w].conn, 1)
  <2>1. CASE path[job[w].conn] # Public
    BY <1>12, <2>1, EndSwitchesSame DEF ReadTenant
  <2>2. CASE path[job[w].conn] = Public
    <3>1. /\ job'[w] = j /\ active' = active
          /\ \A v \in AllThreads : v # w => job'[v] = job[v]
      BY <1>12, <2>2 DEF ReadTenant, TenancyTypeOK
    <3>2. \A v \in AllThreads : switch'[v].target = switch[v].target
      BY <1>12, <2>2 DEF ReadTenant
    <3>3. switch'[w].saw = active[t] /\ switch'[w].alone = (others = {})
      BY <1>12, <2>2 DEF ReadTenant
    <3>4. \A v \in AllThreads : v # w =>
             /\ switch'[v].saw = switch[v].saw
             /\ switch'[v].alone = (switch[v].alone /\ v \notin others)
      BY <1>12, <2>2 DEF ReadTenant
    <3>5. SwitchOK(w)'
      <4>1. job'[w].pc = "commit" /\ switch'[w].saw = active'[switch'[w].target]
        BY <3>1, <3>2, <3>3 DEF At
      <4>2. ASSUME others = {}, NEW v \in AllThreads, v # w, Switching(v, t)' PROVE FALSE
        <5>1. Switching(v, t)
          BY <3>1, <3>2, <4>2 DEF Switching
        <5> QED BY <4>2, <5>1
      <4> QED BY <3>2, <3>3, <4>1, <4>2 DEF SwitchOK, Switching
    <3>6. ASSUME NEW u \in AllThreads, u # w PROVE SwitchOK(u)'
      <4> SUFFICES ASSUME switch'[u].alone PROVE SwitchOK(u)'
        BY DEF SwitchOK
      <4>1. switch[u].alone /\ ~Switching(u, t)
        BY <3>4, <3>6
      <4>2. /\ job[u].pc = "commit"
            /\ switch[u].saw = active[switch[u].target]
            /\ \A v \in AllThreads : Switching(v, switch[u].target) => v = u
        BY <4>1 DEF SwitchesOK, SwitchOK
      <4>3. switch[u].target # t
        BY <4>1, <4>2 DEF Switching
      <4>4. \A v \in AllThreads : Switching(v, switch[u].target)' => v = u
        BY <3>1, <3>2, <4>2, <4>3 DEF Switching
      <4> QED BY <3>1, <3>2, <3>4, <3>6, <4>2, <4>4 DEF SwitchOK, Switching
    <3> QED BY <3>5, <3>6 DEF SwitchesOK
  <2> QED BY <2>1, <2>2
<1>13. ASSUME NEW w \in AllThreads, CommitTenant(w)
       PROVE  SwitchesOK'
  <2>1. Others(w)
    BY <1>13 DEF CommitTenant, TenancyTypeOK, Others
  <2> QED BY <1>13, <2>1, EndSwitches DEF CommitTenant
<1>14. ASSUME NEW t \in Tenants, NEW c \in Conns, Migrate(t, c)
       PROVE  SwitchesOK'
  BY <1>14 DEF Migrate, SwitchesOK, SwitchOK, Switching
<1>15. CASE UNCHANGED tenancyVars
  BY <1>15 DEF tenancyVars, SwitchesOK, SwitchOK, Switching
<1> QED BY <1>1, <1>2, <1>3, <1>4, <1>5, <1>6, <1>7, <1>8, <1>9, <1>10, <1>11, <1>12,
           <1>13, <1>14, <1>15 DEF TenancyNext, Filters, Transaction

-----------------------------------------------------------------------------
(* The theorems.                                                           *)

LEMMA InitInv == TenancyInit => Inv
<1> SUFFICES ASSUME TenancyInit PROVE Inv
  OBVIOUS
<1>1. job \in [AllThreads -> Job] /\ switch \in [AllThreads -> Switch]
  BY IdleType, NoSwitchType DEF TenancyInit
<1>2. TenancyTypeOK
  BY <1>1, AllAssumptions DEF TenancyInit, TenancyTypeOK, Schemas, NoJob, At, Assumptions
<1>3. JobsOK
  BY DEF TenancyInit, JobsOK, JobOK, NoJob, At, TenantRoutes, SwitchRoutes
<1>4. SwitchesOK
  BY DEF TenancyInit, SwitchesOK, SwitchOK, NoSwitch
<1> QED BY <1>2, <1>3, <1>4 DEF Inv

\* The invariant that stands behind the rest: stage, scope, connection and roles
\* of every job agree (the filter chain of SecurityConfig, TenantContext and the
\* connection provider).
THEOREM Invariance == TenancySpec => []Inv
<1>1. Inv /\ [TenancyNext]_tenancyVars => Inv'
  BY TypeStep, JobStep, SwitchStep DEF Inv
<1> QED BY InitInv, <1>1, PTL DEF TenancySpec

\* Types, and a connection of the pool is held by one thread at most and never
\* handed out again once it was lost.
THEOREM TypeCorrect == TenancySpec => []TenancyTypeOK
<1>1. Inv => TenancyTypeOK
  BY DEF Inv
<1> QED BY Invariance, <1>1, PTL

\* A pooled thread carries no tenant from one job into the next
\* (TenantContext.open, TenantFilter, TenantContextDecorator).
THEOREM ContextConfined == TenancySpec => []ContextIsTheJobs
<1>1. Inv => ContextIsTheJobs
  BY DEF Inv, JobsOK, JobOK, ContextIsTheJobs
<1> QED BY Invariance, <1>1, PTL

\* A transaction sees the schema it is meant for, whoever had its connection
\* before (SchemaMultiTenantConnectionProvider, TenantIdentifierResolver).
THEOREM Isolated == TenancySpec => []Isolation
<1>1. Inv => Isolation
  <2> SUFFICES ASSUME Inv, NEW w \in AllThreads, job[w].conn # Nothing,
                      path[job[w].conn] # Home(w)
               PROVE  job[w].route \in TenantRoutes /\ job[w].key # Nothing
    BY DEF Isolation
  <2>1. JobOK(w) /\ job[w] \in Job
    BY DEF Inv, JobsOK, TenancyTypeOK
  <2>2. path[job[w].conn] = ScopeSchema(w)
    BY <2>1 DEF JobOK
  <2>3. job[w].route # "documents"
    BY <2>1, <2>2 DEF JobOK, Home, ScopeSchema
  <2>4. scope[w] # Closed
    BY <2>2, <2>3 DEF Home, ScopeSchema
  <2>5. job[w].key \in Tenants /\ job[w].pc \in {"handler", "commit"}
    BY <2>1, <2>4 DEF JobOK, Job, Stages
  <2>6. job[w].key # Nothing /\ job[w].route # "other"
    BY <2>1, <2>5, AllAssumptions DEF Assumptions, JobOK, SwitchRoutes
  <2> QED BY <2>1, <2>3, <2>5, <2>6 DEF Job, Routes, TenantRoutes
<1> QED BY Invariance, <1>1, PTL

\* What a controller serves was granted by the credential its routes ask for,
\* whatever else the request carried (SecurityConfig, JwtAuthenticationFilter).
THEOREM Granted == TenancySpec => []GrantedByCredential
<1>1. Inv => GrantedByCredential
  BY DEF Inv, JobsOK, JobOK, GrantedByCredential, AllThreads
<1> QED BY Invariance, <1>1, PTL

\* deactivate and reactivate that nothing overlapped take effect, for all the
\* switches that raced before (TenantService, Tenant).
THEOREM SwitchesTakeEffect == TenancySpec => SwitchTakesEffect
<1>1. Inv /\ [TenancyNext]_tenancyVars => [TakesEffect]_tenancyVars
  <2> SUFFICES ASSUME Inv, TenancyNext, NEW w \in AllThreads, switch[w].alone,
                      job'[w].pc # "commit", failures' = failures
               PROVE  active'[switch[w].target] = (job[w].route = "reactivate")
    BY DEF TakesEffect
  <2>1. /\ job[w].pc = "commit"
        /\ switch[w].saw = active[switch[w].target]
        /\ switch[w].target \in Tenants
    BY DEF Inv, SwitchesOK, SwitchOK, JobsOK, JobOK
  <2>2. CommitTenant(w)
    <3>1. ASSUME NEW v \in AllThreads, v # w,
                 \/ Filters(v)
                 \/ \E t \in Tenants, n \in 1..2 : Consume(v, t, n)
                 \/ Transaction(v)
          PROVE  FALSE
      <4>1. \E j : job' = [job EXCEPT ![v] = j]
        BY <3>1 DEF Filters, Receive, Lookup, Authenticate, RateLimit, Authorize, Consume,
                    Transaction, Checkout, CheckoutTimesOut, ConnectionFails, Documents,
                    ReadTenants, ReadTenant, CommitTenant, End
      <4>2. job'[w] = job[w]
        BY <3>1, <4>1 DEF Inv, TenancyTypeOK
      <4> QED BY <2>1, <4>2
    <3>2. ~Filters(w) /\ \A t \in Tenants, n \in 1..2 : ~Consume(w, t, n)
      BY <2>1 DEF Filters, Receive, Lookup, Authenticate, RateLimit, Authorize, Consume
    <3>3. ~ConnectionFails(w)
      BY DEF ConnectionFails, Inv, TenancyTypeOK
    <3>4. ~\E t \in Tenants, c \in Conns : Migrate(t, c)
      BY <2>1 DEF Migrate
    <3>5. Transaction(w)
      BY <3>1, <3>2, <3>4 DEF TenancyNext, AllThreads
    <3> QED BY <2>1, <3>3, <3>5
            DEF Transaction, Checkout, CheckoutTimesOut, Documents, ReadTenants, ReadTenant
  <2>3. active[switch[w].target] \in BOOLEAN /\ active'[switch[w].target] = Switched(w)
    BY <2>1, <2>2 DEF Inv, TenancyTypeOK, CommitTenant
  <2> QED BY <2>1, <2>3 DEF Switched
<1> QED BY Invariance, <1>1, PTL DEF TenancySpec, SwitchTakesEffect
=============================================================================
