---------------------------- MODULE Provisioning ----------------------------
(***************************************************************************)
(* How a tenant comes to have a schema: the creation of a tenant           *)
(* (TenantService.create, TenantProvisioner) and the migration of all      *)
(* tenants when an instance of the program starts (TenantMigrationsRunner).*)
(* Several instances, of several versions of the changelog, share one      *)
(* database, as in a rolling deployment; any of them may crash.            *)
(*                                                                         *)
(* A creation is one transaction that writes the row at its commit.  Before*)
(* that it makes the schema and migrates it, on other connections, outside *)
(* the transaction and under a lock of the process.                        *)
(***************************************************************************)
EXTENDS Naturals, FiniteSets

CONSTANTS
    Instances,      \* processes of the program; each one's starting thread has its name
    Version,        \* the last change set in each instance's changelog
    Newest,         \* the last change set that any of them has
    Creations,      \* requests that create a tenant; each one's thread has its name
    Schemas,        \* schema names
    Names,          \* tenant names
    None,
    PoolSize,       \* connections of each instance's pool
    MaxStarts       \* bound on the starts of all instances together

Versions == 0..Newest

ASSUME InstancesAssumption == /\ Instances \cap Creations = {}
                              /\ Version \in [Instances -> Versions]
ASSUME FiniteAssumption == IsFiniteSet(Instances) /\ IsFiniteSet(Creations)
ASSUME PoolAssumption == PoolSize \in [Instances -> Nat \ {0}]
ASSUME BoundAssumption == Newest \in Nat /\ MaxStarts \in Nat
ASSUME NoneAssumption == None \notin Instances \cup Creations \cup Schemas \cup Names

Threads == Instances \cup Creations

VARIABLES
    tenants,        \* the tenants table; by is the instance that wrote the row
    version,        \* change sets applied to each schema
    made,           \* schemas that exist
    locked,         \* schemas whose DATABASECHANGELOGLOCK is taken
    up,             \* where the life of each instance is
    listed,         \* the schemas an instance read from the table when it started,
    todo,           \*   and those of them it has still to migrate
    mutex,          \* who holds the MIGRATION_LOCK of each instance
    free,           \* idle connections of each instance's pool
    lost,           \* and those that were taken from it and never returned
    thread,         \* each thread: where it is, and the tenant it works on
    starts

vars == <<tenants, version, made, locked, up, listed, todo, mutex, free, lost, thread, starts>>
database == <<tenants, version, made, locked>>
instance == <<up, listed, todo>>
pool == <<free, lost>>

-----------------------------------------------------------------------------
Stages == {"idle",        \* no work, or none yet
           "begun",       \* in its transaction, about to make the schema
           "locking",     \* about to take the process's lock
           "connecting",  \* has it, about to borrow a connection for Liquibase
           "waiting",     \* has one, about to take the schema's lock
           "changing",    \* has it, applying change sets
           "migrated",    \* the migration returned
           "done", "refused"}

\* Where a thread is inside Liquibase, and where it holds its connection.
Migrating == {"connecting", "waiting", "changing"}
Connected == {"waiting", "changing"}
Working == {"begun", "locking", "migrated"} \cup Migrating

TypeOK ==
    /\ tenants \subseteq [name : Names, schema : Schemas, by : Instances]
    /\ version \in [Schemas -> Versions]
    /\ made \subseteq Schemas
    /\ locked \subseteq Schemas
    /\ up \in [Instances -> {"down", "starting", "serving"}]
    /\ listed \in [Instances -> SUBSET Schemas]
    /\ todo \in [Instances -> SUBSET Schemas]
    /\ mutex \in [Instances -> Threads \cup {None}]
    /\ free \in [Instances -> Nat] /\ lost \in [Instances -> Nat]
    /\ \A i \in Instances : free[i] + lost[i] <= PoolSize[i]
    /\ thread \in [Threads -> [stage : Stages, at : Instances \cup {None},
                               schema : Schemas \cup {None}, name : Names \cup {None}]]
    /\ starts \in 0..MaxStarts

Idle == [stage |-> "idle", at |-> None, schema |-> None, name |-> None]

Init ==
    /\ tenants = {}
    /\ version = [s \in Schemas |-> 0]
    /\ made = {}
    /\ locked = {}
    /\ up = [i \in Instances |-> "down"]
    /\ listed = [i \in Instances |-> {}]
    /\ todo = [i \in Instances |-> {}]
    /\ mutex = [i \in Instances |-> None]
    /\ free = PoolSize
    /\ lost = [i \in Instances |-> 0]
    /\ thread = [t \in Threads |-> Idle]
    /\ starts = 0

At(t, stage) == thread[t].stage = stage
Host(t) == thread[t].at
Goes(t, stage) == thread' = [thread EXCEPT ![t].stage = stage]

\* Broken variant: a rollback keeps the transaction's connection.
OwnedNone(t) == 0

\* A creation's transaction holds a connection from its begin to its end.
Owned(t) == IF t \in Creations THEN 1 ELSE 0

-----------------------------------------------------------------------------
(* The end of a thread's work, well or badly.                              *)

\* A transaction's connection goes back to the pool when its path was reset,
\* and never if that statement fails; what Liquibase borrowed always does.
GivesBack(t, borrowed) ==
    \E k \in 0..Owned(t) :
        /\ free' = [free EXCEPT ![Host(t)] = @ + k + borrowed]
        /\ lost' = [lost EXCEPT ![Host(t)] = @ + (Owned(t) - k)]

\* Broken variant: a failure keeps the process's lock.
UnlockedOnSuccess(t, ok) == IF ok THEN [mutex EXCEPT ![Host(t)] = None] ELSE mutex

\* finally: the lock of the process is given back.
Unlocked(t, ok) == IF mutex[Host(t)] = t THEN [mutex EXCEPT ![Host(t)] = None] ELSE mutex

\* An exception: Liquibase's connection and lock are given back, the
\* transaction of a creation is rolled back, and an instance that was starting
\* stops.
Fails(t) ==
    /\ mutex' = Unlocked(t, FALSE)
    /\ locked' = IF At(t, "changing") THEN locked \ {thread[t].schema} ELSE locked
    /\ GivesBack(t, IF thread[t].stage \in Connected THEN 1 ELSE 0)
    /\ \/ /\ t \in Creations
          /\ Goes(t, "refused")
          /\ UNCHANGED instance
       \/ /\ t \in Instances
          /\ thread' = [thread EXCEPT ![t] = Idle]
          /\ up' = [up EXCEPT ![t] = "down"]
          /\ listed' = [listed EXCEPT ![t] = {}]
          /\ todo' = [todo EXCEPT ![t] = {}]
    /\ UNCHANGED <<tenants, version, starts>>

\* The process dies.  Its transactions are rolled back and its connections
\* closed, but a lock it wrote into a schema's table stays there.
Crash(i) ==
    /\ up[i] # "down"
    /\ up' = [up EXCEPT ![i] = "down"]
    /\ listed' = [listed EXCEPT ![i] = {}]
    /\ todo' = [todo EXCEPT ![i] = {}]
    /\ mutex' = [mutex EXCEPT ![i] = None]
    /\ free' = [free EXCEPT ![i] = PoolSize[i]]
    /\ lost' = [lost EXCEPT ![i] = 0]
    /\ thread' = [t \in Threads |->
                     IF t = i THEN Idle
                     ELSE IF Host(t) = i /\ thread[t].stage \in Working
                     THEN [thread[t] EXCEPT !.stage = "refused"]
                     ELSE thread[t]]
    /\ UNCHANGED <<database, starts>>

-----------------------------------------------------------------------------
(* A migration: TenantProvisioner.runMigrations.                            *)

\* Broken variant: the lock is of the instance of the class that took it.
MutexFree(t) == TRUE

CanLock(t) == mutex[Host(t)] = None

\* MIGRATION_LOCK.lock(), which waits without a limit.
Lock(t) ==
    /\ At(t, "locking")
    /\ CanLock(t)
    /\ mutex' = [mutex EXCEPT ![Host(t)] = t]
    /\ Goes(t, "connecting")
    /\ UNCHANGED <<database, instance, pool, starts>>

\* Liquibase borrows a connection of the pool, or waits for one in vain.
Connect(t) ==
    /\ At(t, "connecting")
    /\ \/ /\ free[Host(t)] > 0
          /\ free' = [free EXCEPT ![Host(t)] = @ - 1]
          /\ Goes(t, "waiting")
          /\ UNCHANGED <<database, instance, mutex, lost, starts>>
       \/ /\ free[Host(t)] = 0
          /\ Fails(t)
          /\ UNCHANGED made

\* The connection and the process's lock are given back.
Returns(t) ==
    /\ free' = [free EXCEPT ![Host(t)] = @ + 1]
    /\ mutex' = Unlocked(t, TRUE)
    /\ Goes(t, "migrated")
    /\ UNCHANGED <<tenants, version, made, instance, lost, starts>>

\* Broken variant: the last change set is applied again.
UpToDateLate(t) == version[thread[t].schema] > Version[Host(t)]

\* Nothing of this instance's changelog is left to apply.
UpToDate(t) == version[thread[t].schema] >= Version[Host(t)]

\* Liquibase takes the schema's lock, or gives up after minutes.  With nothing
\* to apply it may not ask for it.
LockSchema(t) ==
    /\ At(t, "waiting")
    /\ \/ /\ thread[t].schema \notin locked
          /\ locked' = locked \cup {thread[t].schema}
          /\ Goes(t, "changing")
          /\ UNCHANGED <<tenants, version, made, instance, mutex, pool, starts>>
       \/ /\ thread[t].schema \in locked
          /\ Fails(t)
          /\ UNCHANGED made
       \/ /\ UpToDate(t)
          /\ Returns(t)
          /\ UNCHANGED locked

\* One change set, in a transaction of its own: it is applied, or it fails.
ChangeSet(t) ==
    /\ At(t, "changing")
    /\ ~UpToDate(t)
    /\ \/ /\ version' = [version EXCEPT ![thread[t].schema] = @ + 1]
          /\ UNCHANGED <<tenants, made, locked, instance, mutex, pool, thread, starts>>
       \/ Fails(t) /\ UNCHANGED made

\* All are applied, and the schema's lock is given back too.
MigrationReturns(t) ==
    /\ At(t, "changing")
    /\ UpToDate(t)
    /\ locked' = locked \ {thread[t].schema}
    /\ Returns(t)

-----------------------------------------------------------------------------
(* An instance starts: TenantMigrationsRunner, before the port is open.     *)

\* The context is built, and the runner reads the table.
Start(i) ==
    /\ up[i] = "down"
    /\ starts < MaxStarts
    /\ starts' = starts + 1
    /\ up' = [up EXCEPT ![i] = "starting"]
    /\ listed' = [listed EXCEPT ![i] = {r.schema : r \in tenants}]
    /\ todo' = [todo EXCEPT ![i] = {r.schema : r \in tenants}]
    /\ thread' = [thread EXCEPT ![i].at = i]
    /\ UNCHANGED <<database, mutex, pool>>

\* It takes the next schema.
NextSchema(i) ==
    /\ up[i] = "starting" /\ At(i, "idle")
    /\ \E s \in todo[i] :
           thread' = [thread EXCEPT ![i].stage = "locking", ![i].schema = s]
    /\ UNCHANGED <<database, instance, mutex, pool, starts>>

\* It is done with one.
Migrated(i) ==
    /\ up[i] = "starting" /\ At(i, "migrated")
    /\ todo' = [todo EXCEPT ![i] = @ \ {thread[i].schema}]
    /\ Goes(i, "idle")
    /\ UNCHANGED <<database, up, listed, mutex, pool, starts>>

\* Broken variant: the port opens while tenants are still migrated.
MayOpenEarly(i) == TRUE

MayOpen(i) == todo[i] = {} /\ At(i, "idle")

\* The web server accepts requests.
Open(i) ==
    /\ up[i] = "starting"
    /\ MayOpen(i)
    /\ up' = [up EXCEPT ![i] = "serving"]
    /\ UNCHANGED <<database, listed, todo, mutex, pool, thread, starts>>

-----------------------------------------------------------------------------
(* A tenant is created: TenantService.create.                               *)

\* Where a creation that asks for this tenant is.
Asked(stage, i, n, s) == [stage |-> stage, at |-> i, schema |-> s, name |-> n]

\* The transaction begins, with a connection or, in vain, without; one whose
\* path cannot be set is never returned.
Create(c, i, n, s) ==
    /\ up[i] = "serving" /\ At(c, "idle")
    /\ \/ /\ free[i] > 0
          /\ free' = [free EXCEPT ![i] = @ - 1]
          /\ \/ /\ thread' = [thread EXCEPT ![c] = Asked("begun", i, n, s)]
                /\ lost' = lost
             \/ /\ thread' = [thread EXCEPT ![c] = Asked("refused", i, n, s)]
                /\ lost' = [lost EXCEPT ![i] = @ + 1]
       \/ /\ free[i] = 0
          /\ thread' = [thread EXCEPT ![c] = Asked("refused", i, n, s)]
          /\ UNCHANGED pool
    /\ UNCHANGED <<database, instance, mutex, starts>>

\* CREATE SCHEMA IF NOT EXISTS, on a second connection that is given back at
\* once.  It fails without one, or in the database, before or after the schema
\* was made: each statement commits by itself.
CreateSchema(c) ==
    /\ At(c, "begun")
    /\ \/ /\ free[Host(c)] > 0
          /\ made' = made \cup {thread[c].schema}
          /\ \/ /\ Goes(c, "locking")
                /\ UNCHANGED <<tenants, version, locked, instance, mutex, pool, starts>>
             \/ Fails(c)
       \/ Fails(c) /\ UNCHANGED made

\* Broken variant: the row of another tenant does not count.
AcceptedAlways(n, s) == TRUE

\* The table's unique constraints.
Accepted(n, s) == \A r \in tenants : r.name # n /\ r.schema # s

\* Broken variant: the row is written when it is saved, before its schema.
WritesEarly(c) == thread[c].stage \in {"begun", "migrated"}

\* Hibernate writes the new row when the transaction commits.
Writes(c) == At(c, "migrated")

\* The commit: 201, or 409 from a unique constraint, or an error.
Commit(c) ==
    /\ Writes(c)
    /\ \/ /\ Accepted(thread[c].name, thread[c].schema)
          /\ tenants' = tenants \cup {[name |-> thread[c].name, schema |-> thread[c].schema,
                                       by |-> Host(c)]}
          /\ GivesBack(c, 0)
          /\ Goes(c, "done")
          /\ UNCHANGED <<version, made, locked, instance, mutex, starts>>
       \/ Fails(c) /\ UNCHANGED made

-----------------------------------------------------------------------------
\* The step a working thread takes by itself.
Work(t) ==
    \/ Lock(t) \/ Connect(t) \/ LockSchema(t) \/ ChangeSet(t) \/ MigrationReturns(t)
    \/ t \in Instances /\ (NextSchema(t) \/ Migrated(t) \/ Open(t))
    \/ t \in Creations /\ (CreateSchema(t) \/ Commit(t))

Next ==
    \/ \E t \in Threads : Work(t)
    \/ \E i \in Instances : Start(i) \/ Crash(i)
    \/ \E c \in Creations, i \in Instances, n \in Names, s \in Schemas : Create(c, i, n, s)

Spec == Init /\ [][Next]_vars

\* Threads go on: statements, waits and change sets end, well or badly.
FairSpec == Spec /\ \A t \in Threads : WF_vars(Work(t))

-----------------------------------------------------------------------------
(* Properties.                                                              *)

\* A tenant in the table can be routed to: its schema exists, all the change
\* sets its creator knew are applied, and it is no other tenant's.  A creation
\* that fails or loses a race leaves no row, however far it got.
RoutableIsMigrated ==
    \A r \in tenants :
        /\ r.schema \in made
        /\ version[r.schema] >= Version[r.by]
        /\ \A q \in tenants : (q.schema = r.schema \/ q.name = r.name) => q = r

\* One Liquibase run at a time in a process, and one in a schema over all
\* processes, those that crashed included.
OneMigrationAtATime ==
    \A t, u \in Threads :
        (t # u /\ thread[t].stage \in Migrating /\ thread[u].stage \in Migrating) =>
            /\ Host(t) # Host(u)
            /\ (At(t, "changing") /\ At(u, "changing")) => thread[t].schema # thread[u].schema

\* The connections an instance's transactions hold, and those its migrations do.
Transactions(i) == {c \in Creations : Host(c) = i /\ thread[c].stage \in Working}
Borrowers(i) == {t \in Threads : Host(t) = i /\ thread[t].stage \in Connected}
Held(i) == Cardinality(Transactions(i)) + Cardinality(Borrowers(i))

\* Every connection is in its pool or held by a thread, on every way out of a
\* creation or a migration, but for those whose path could not be changed.
ConnectionsAddUp == \A i \in Instances : free[i] + lost[i] + Held(i) = PoolSize[i]

\* An instance serves a schema behind its own changelog only where an older
\* instance added the tenant after this one listed the tenants.
StaleOnlyIfAddedLate ==
    \A i \in Instances : up[i] = "serving" =>
        \A r \in tenants : version[r.schema] >= Version[i] \/
            (r.schema \notin listed[i] /\ Version[r.by] < Version[i])

\* Every creation is answered or dies with its instance, and no starting
\* instance waits for ever: a wait that nobody will end, for a connection or
\* for a lock that a crash left behind, ends as a failure.
WorkEnds ==
    /\ \A c \in Creations : (thread[c].stage \in Working) ~> (thread[c].stage \notin Working)
    /\ \A i \in Instances : (up[i] = "starting") ~> (up[i] # "starting")

\* The claim that a runner that completed has every tenant's schema migrated,
\* "and so safe to serve".
SafeToServe ==
    \A i \in Instances : up[i] = "serving" =>
        \A r \in tenants : version[r.schema] >= Version[i]
=============================================================================
