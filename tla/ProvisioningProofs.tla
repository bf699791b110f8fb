------------------------- MODULE ProvisioningProofs -------------------------
(***************************************************************************)
(* Proofs about Provisioning, for any instances, versions, pools, creations *)
(* and bounds.  The invariant Inv says what a thread's stage implies: for   *)
(* its instance (Placed), for the locks (Locks), for its schema (Schemed),  *)
(* and for the connections of its pool (ConnectionsAddUp).                  *)
(***************************************************************************)
EXTENDS Provisioning, FiniteSetTheorems, TLAPS

-----------------------------------------------------------------------------
(* The inductive invariant.                                                 *)

\* TypeOK but for the size of the pools, which follows from ConnectionsAddUp.
Types ==
    /\ tenants \subseteq [name : Names, schema : Schemas, by : Instances]
    /\ version \in [Schemas -> Versions]
    /\ made \subseteq Schemas
    /\ locked \subseteq Schemas
    /\ up \in [Instances -> {"down", "starting", "serving"}]
    /\ listed \in [Instances -> SUBSET Schemas]
    /\ todo \in [Instances -> SUBSET Schemas]
    /\ mutex \in [Instances -> Threads \cup {None}]
    /\ free \in [Instances -> Nat]
    /\ lost \in [Instances -> Nat]
    /\ thread \in [Threads -> [stage : Stages, at : Instances \cup {None},
                               schema : Schemas \cup {None}, name : Names \cup {None}]]
    /\ starts \in 0..MaxStarts

\* Where a thread with work is: the runner on an instance that starts, a
\* creation on one that serves.
Placed ==
    /\ \A i \in Instances :
        /\ thread[i].at \in {i, None}
        /\ up[i] # "down" => thread[i].at = i
        /\ thread[i].stage \notin {"begun", "done", "refused"}
        /\ thread[i].stage # "idle" =>
            thread[i].at = i /\ up[i] = "starting" /\ thread[i].schema \in Schemas
    /\ \A c \in Creations : thread[c].stage \in Working =>
        /\ thread[c].at \in Instances /\ up[thread[c].at] = "serving"
        /\ thread[c].schema \in Schemas /\ thread[c].name \in Names

\* Who is inside Liquibase has the process's lock, who applies change sets the
\* schema's as well.
Locks ==
    \A t \in Threads :
        /\ thread[t].stage \in Migrating => mutex[thread[t].at] = t
        /\ thread[t].stage = "changing" =>
            /\ thread[t].schema \in locked
            /\ \A u \in Threads \ {t} :
                   thread[u].stage = "changing" => thread[u].schema # thread[t].schema

\* What has been done to the schema of a thread, and of a tenant.
Schemed ==
    /\ \A c \in Creations :
        thread[c].stage \in Working \ {"begun"} => thread[c].schema \in made
    /\ \A t \in Threads :
        thread[t].stage = "migrated" => version[thread[t].schema] >= Version[thread[t].at]
    /\ RoutableIsMigrated

\* What the runner of an instance has done so far.
Listed ==
    \A i \in Instances :
        /\ up[i] # "down" =>
               \A s \in listed[i] : s \in todo[i] \/ version[s] >= Version[i]
        /\ up[i] = "serving" => todo[i] = {}

Inv == Types /\ Placed /\ Locks /\ Schemed /\ Listed /\ ConnectionsAddUp

-----------------------------------------------------------------------------
(* Connections.                                                             *)

\* The connections a thread holds, by its stage.
Holds(t) == (IF t \in Creations /\ thread[t].stage \in Working THEN 1 ELSE 0)
              + (IF thread[t].stage \in Connected THEN 1 ELSE 0)

\* A set counts one element apart from the others.
LEMMA CountOne ==
    ASSUME NEW S, IsFiniteSet(S), NEW x
    PROVE  /\ IsFiniteSet(S \ {x})
           /\ Cardinality(S \ {x}) \in Nat
           /\ Cardinality(S) = Cardinality(S \ {x}) + (IF x \in S THEN 1 ELSE 0)
<1>1. CASE x \in S
  <2>1. IsFiniteSet(S \ {x}) /\ Cardinality(S \ {x}) = Cardinality(S) - 1
    BY <1>1, FS_RemoveElement
  <2>2. Cardinality(S) \in Nat /\ Cardinality(S \ {x}) \in Nat
    BY <2>1, FS_CardinalityType
  <2> QED BY <1>1, <2>1, <2>2
<1>2. CASE x \notin S
  <2>1. S \ {x} = S
    BY <1>2
  <2>2. IsFiniteSet(S \ {x}) /\ Cardinality(S \ {x}) = Cardinality(S)
    BY <2>1
  <2>3. Cardinality(S) \in Nat
    BY FS_CardinalityType
  <2> QED BY <1>2, <2>2, <2>3
<1> QED BY <1>1, <1>2

\* There are finitely many threads, so finitely many hold a connection.
LEMMA HoldersFinite ==
    ASSUME NEW i
    PROVE  IsFiniteSet(Transactions(i)) /\ IsFiniteSet(Borrowers(i))
<1>1. IsFiniteSet(Threads)
  BY FiniteAssumption, FS_Union DEF Threads
<1>2. Transactions(i) \subseteq Creations /\ Borrowers(i) \subseteq Threads
  BY DEF Transactions, Borrowers
<1> QED BY <1>1, <1>2, FiniteAssumption, FS_Subset

\* A thread that takes or gives back what its stage says it holds keeps the
\* pools' accounts.
LEMMA Accounts ==
    ASSUME Types, ConnectionsAddUp,
           free' \in [Instances -> Nat], lost' \in [Instances -> Nat],
           NEW t \in Threads, NEW h \in Instances,
           \A u \in Threads \ {t} : thread'[u] = thread[u],
           thread[t].stage \in Working => thread[t].at = h,
           thread'[t].stage \in Working => thread'[t].at = h,
           \A i \in Instances \ {h} : free'[i] = free[i] /\ lost'[i] = lost[i],
           free'[h] + lost'[h] + Holds(t)' = free[h] + lost[h] + Holds(t)
    PROVE  ConnectionsAddUp'
<1> SUFFICES ASSUME NEW i \in Instances
             PROVE  free'[i] + lost'[i] + Held(i)' = PoolSize[i]
  BY DEF ConnectionsAddUp
<1>1. free[i] + lost[i] + Held(i) = PoolSize[i]
  BY DEF ConnectionsAddUp
<1>2. Connected \subseteq Working
  BY DEF Connected, Working, Migrating
<1>3. Creations \subseteq Threads
  BY DEF Threads
<1>4. CASE i # h
  <2>1. Transactions(i)' = Transactions(i)
    BY <1>3, <1>4 DEF Transactions, Host
  <2>2. Borrowers(i)' = Borrowers(i)
    BY <1>2, <1>4 DEF Borrowers, Host
  <2> QED BY <1>1, <1>4, <2>1, <2>2 DEF Held
<1>5. CASE i = h
  <2>1. Transactions(i)' \ {t} = Transactions(i) \ {t}
    BY <1>3 DEF Transactions, Host
  <2>2. Borrowers(i)' \ {t} = Borrowers(i) \ {t}
    BY DEF Borrowers, Host
  <2>3. /\ t \in Transactions(i) <=> (t \in Creations /\ thread[t].stage \in Working)
        /\ t \in Borrowers(i) <=> thread[t].stage \in Connected
    BY <1>2, <1>5 DEF Transactions, Borrowers, Host
  <2>4. /\ t \in Transactions(i)' <=> (t \in Creations /\ thread'[t].stage \in Working)
        /\ t \in Borrowers(i)' <=> thread'[t].stage \in Connected
    BY <1>2, <1>5 DEF Transactions, Borrowers, Host
  <2>5. /\ IsFiniteSet(Transactions(i)) /\ IsFiniteSet(Borrowers(i))
        /\ IsFiniteSet(Transactions(i)') /\ IsFiniteSet(Borrowers(i)')
    <3>1. IsFiniteSet(Threads)
      BY FiniteAssumption, FS_Union DEF Threads
    <3>2. Transactions(i)' \subseteq Creations /\ Borrowers(i)' \subseteq Threads
      BY DEF Transactions, Borrowers
    <3> QED BY <3>1, <3>2, HoldersFinite, FiniteAssumption, FS_Subset
  <2> DEFINE M == Cardinality(Transactions(i) \ {t})
             N == Cardinality(Borrowers(i) \ {t})
  <2>6. /\ M \in Nat /\ N \in Nat
        /\ Cardinality(Transactions(i)) = M + (IF t \in Transactions(i) THEN 1 ELSE 0)
        /\ Cardinality(Borrowers(i)) = N + (IF t \in Borrowers(i) THEN 1 ELSE 0)
    BY <2>5, CountOne
  <2>7. /\ Cardinality(Transactions(i)') = M + (IF t \in Transactions(i)' THEN 1 ELSE 0)
        /\ Cardinality(Borrowers(i)') = N + (IF t \in Borrowers(i)' THEN 1 ELSE 0)
    <3>1. /\ Cardinality(Transactions(i)') =
               Cardinality(Transactions(i)' \ {t}) + (IF t \in Transactions(i)' THEN 1 ELSE 0)
          /\ Cardinality(Borrowers(i)') =
               Cardinality(Borrowers(i)' \ {t}) + (IF t \in Borrowers(i)' THEN 1 ELSE 0)
      BY <2>5, CountOne
    <3> QED BY <2>1, <2>2, <3>1
  <2> HIDE DEF M, N
  <2>8. Held(i) = M + N + Holds(t)
    BY <2>3, <2>6 DEF Held, Holds
  <2>9. Held(i)' = M + N + Holds(t)'
    BY <2>4, <2>6, <2>7 DEF Held, Holds
  <2>10. Holds(t) \in Nat /\ Holds(t)' \in Nat /\ free[i] \in Nat /\ free'[i] \in Nat
        /\ lost[i] \in Nat /\ lost'[i] \in Nat
    BY DEF Holds, Types
  <2> QED BY <1>1, <1>5, <2>6, <2>8, <2>9, <2>10
<1> QED BY <1>4, <1>5

-----------------------------------------------------------------------------
(* One thread's step.                                                       *)

\* What is known of a thread that has work.
LEMMA AtWork ==
    ASSUME Types, Placed, NEW t \in Threads, thread[t].stage \in Working
    PROVE  /\ thread[t].at \in Instances /\ thread[t].schema \in Schemas
           /\ t \in Instances => t \notin Creations /\ thread[t].at = t /\ up[t] = "starting"
           /\ t \in Creations => /\ t \notin Instances
                                 /\ up[thread[t].at] = "serving" /\ thread[t].name \in Names
BY InstancesAssumption DEF Placed, Threads, Working, Migrating

\* A thread goes to another stage and nothing else of any thread changes.
LEMMA Moved ==
    ASSUME Types, NEW t \in Threads, NEW s \in Stages, Goes(t, s)
    PROVE  /\ thread' \in [Threads -> [stage : Stages, at : Instances \cup {None},
                                        schema : Schemas \cup {None}, name : Names \cup {None}]]
           /\ thread'[t].stage = s /\ thread'[t].at = thread[t].at
           /\ thread'[t].schema = thread[t].schema /\ thread'[t].name = thread[t].name
           /\ \A u \in Threads \ {t} : thread'[u] = thread[u]
BY DEF Types, Goes

\* What a thread gives back comes to its pool, or is lost to it.
LEMMA GivenBack ==
    ASSUME Types, NEW t \in Threads, thread[t].at \in Instances, NEW n \in Nat,
           GivesBack(t, n)
    PROVE  /\ free' \in [Instances -> Nat] /\ lost' \in [Instances -> Nat]
           /\ \A i \in Instances \ {thread[t].at} : free'[i] = free[i] /\ lost'[i] = lost[i]
           /\ free'[thread[t].at] + lost'[thread[t].at]
                = free[thread[t].at] + lost[thread[t].at] + Owned(t) + n
<1>1. PICK k \in 0..Owned(t) :
          /\ free' = [free EXCEPT ![thread[t].at] = @ + k + n]
          /\ lost' = [lost EXCEPT ![thread[t].at] = @ + (Owned(t) - k)]
  BY DEF GivesBack, Host
<1>2. /\ free \in [Instances -> Nat] /\ lost \in [Instances -> Nat]
      /\ free[thread[t].at] \in Nat /\ lost[thread[t].at] \in Nat
  BY DEF Types
<1>3. k \in Nat /\ Owned(t) \in Nat /\ Owned(t) - k \in Nat
  BY DEF Owned
<1>4. /\ free[thread[t].at] + k + n \in Nat
      /\ lost[thread[t].at] + (Owned(t) - k) \in Nat
      /\ free[thread[t].at] + k + n + (lost[thread[t].at] + (Owned(t) - k))
            = free[thread[t].at] + lost[thread[t].at] + Owned(t) + n
  BY <1>2, <1>3
<1> QED BY <1>1, <1>2, <1>4

\* An exception, at any stage of the work.
LEMMA FailsStep ==
    ASSUME Inv, NEW t \in Threads, thread[t].stage \in Working, Fails(t),
           made \subseteq made', made' \subseteq Schemas
    PROVE  Inv'
<1> USE DEF Inv
<1>1. /\ thread[t].at \in Instances /\ thread[t].schema \in Schemas
      /\ t \in Instances => t \notin Creations /\ thread[t].at = t /\ up[t] = "starting"
      /\ t \in Creations => t \notin Instances /\ up[thread[t].at] = "serving"
  BY AtWork
<1>2. /\ thread' \in [Threads -> [stage : Stages, at : Instances \cup {None},
                                   schema : Schemas \cup {None}, name : Names \cup {None}]]
      /\ thread'[t].stage = IF t \in Creations THEN "refused" ELSE "idle"
      /\ thread'[t].at \in {thread[t].at, None}
      /\ \A u \in Threads \ {t} : thread'[u] = thread[u]
  <2>1. CASE t \in Creations
    <3>1. Goes(t, "refused")
      BY <1>1, <2>1 DEF Fails
    <3> QED BY <2>1, <3>1, Moved DEF Stages
  <2>2. CASE t \in Instances
    <3>1. thread' = [thread EXCEPT ![t] = Idle]
      BY <1>1, <2>2 DEF Fails
    <3> QED BY <1>1, <2>2, <3>1 DEF Types, Idle, Stages
  <2> QED BY <2>1, <2>2 DEF Threads
<1>3. /\ up' = IF t \in Instances THEN [up EXCEPT ![t] = "down"] ELSE up
      /\ listed' = IF t \in Instances THEN [listed EXCEPT ![t] = {}] ELSE listed
      /\ todo' = IF t \in Instances THEN [todo EXCEPT ![t] = {}] ELSE todo
  BY <1>1 DEF Fails, instance
<1>4. UNCHANGED <<tenants, version, starts>>
  BY DEF Fails
<1>5. /\ mutex' = IF mutex[thread[t].at] = t THEN [mutex EXCEPT ![thread[t].at] = None] ELSE mutex
      /\ locked' = IF thread[t].stage = "changing" THEN locked \ {thread[t].schema} ELSE locked
  BY DEF Fails, Unlocked, Host, At
<1>6. /\ free' \in [Instances -> Nat] /\ lost' \in [Instances -> Nat]
      /\ \A i \in Instances \ {thread[t].at} : free'[i] = free[i] /\ lost'[i] = lost[i]
      /\ free'[thread[t].at] + lost'[thread[t].at]
           = free[thread[t].at] + lost[thread[t].at] + Holds(t)
  <2> DEFINE n == IF thread[t].stage \in Connected THEN 1 ELSE 0
  <2>1. n \in Nat /\ Holds(t) = Owned(t) + n /\ Owned(t) \in Nat
    BY DEF Owned, Holds
  <2>2. GivesBack(t, n)
    BY DEF Fails
  <2>3. free[thread[t].at] \in Nat /\ lost[thread[t].at] \in Nat
    BY <1>1 DEF Types
  <2> HIDE DEF n
  <2>4. free[thread[t].at] + lost[thread[t].at] + Owned(t) + n
          = free[thread[t].at] + lost[thread[t].at] + Holds(t)
    BY <2>1, <2>3
  <2> QED BY <1>1, <2>1, <2>2, <2>4, GivenBack
<1>7. Holds(t) \in Nat /\ Holds(t)' = 0
  BY <1>1, <1>2 DEF Holds, Working, Migrating, Connected
<1>8. Types'
  BY <1>1, <1>2, <1>3, <1>4, <1>5, <1>6, <1>7 DEF Types
<1>9. Placed'
  <2>1. \A i \in Instances : up'[i] = IF i = t THEN "down" ELSE up[i]
    BY <1>3 DEF Types
  <2> QED BY <1>1, <1>2, <2>1 DEF Placed, Threads, Working, Migrating
<1>10. Locks'
  <2>1. \A i \in Instances :
            mutex'[i] = IF i = thread[t].at /\ mutex[i] = t THEN None ELSE mutex[i]
    BY <1>5 DEF Types
  <2>2. \A u \in Threads : thread[u].stage \in Migrating => thread[u].at \in Instances
    BY AtWork DEF Working
  <2> QED BY <1>2, <1>5, <2>1, <2>2 DEF Locks, Migrating
<1>11. Schemed'
  <2>1. RoutableIsMigrated'
    BY <1>4 DEF Schemed, RoutableIsMigrated
  <2> QED BY <1>2, <1>4, <2>1 DEF Schemed, Threads, Working, Migrating
<1>12. Listed'
  BY <1>3, <1>4 DEF Listed, Types
<1>13. ConnectionsAddUp'
  <2>1. free'[thread[t].at] + lost'[thread[t].at] + Holds(t)'
          = free[thread[t].at] + lost[thread[t].at] + Holds(t)
    BY <1>1, <1>6, <1>7
  <2>2. thread'[t].stage \notin Working
    BY <1>2 DEF Working, Migrating
  <2> QED BY <1>1, <1>2, <1>6, <2>1, <2>2, Accounts
<1> QED BY <1>8, <1>9, <1>10, <1>11, <1>12, <1>13

\* A migration that returns, with or without the schema's lock.
LEMMA ReturnsStep ==
    ASSUME Inv, NEW t \in Threads, thread[t].stage \in Connected, UpToDate(t), Returns(t),
           locked' = IF thread[t].stage = "changing" THEN locked \ {thread[t].schema} ELSE locked
    PROVE  Inv'
<1> USE DEF Inv
<1>1. thread[t].stage \in Working /\ thread[t].stage \in Migrating
  BY DEF Connected, Working, Migrating
<1>2. /\ thread[t].at \in Instances /\ thread[t].schema \in Schemas
      /\ t \in Instances => t \notin Creations /\ thread[t].at = t /\ up[t] = "starting"
      /\ t \in Creations => /\ t \notin Instances
                            /\ up[thread[t].at] = "serving" /\ thread[t].name \in Names
  BY <1>1, AtWork
<1>3. /\ thread' \in [Threads -> [stage : Stages, at : Instances \cup {None},
                                   schema : Schemas \cup {None}, name : Names \cup {None}]]
      /\ thread'[t].stage = "migrated" /\ thread'[t].at = thread[t].at
      /\ thread'[t].schema = thread[t].schema /\ thread'[t].name = thread[t].name
      /\ \A u \in Threads \ {t} : thread'[u] = thread[u]
  BY Moved DEF Returns, Stages
<1>4. UNCHANGED <<tenants, version, made, up, listed, todo, lost, starts>>
  BY DEF Returns, instance
<1>5. free' = [free EXCEPT ![thread[t].at] = @ + 1]
  BY DEF Returns, Host
<1>6. mutex' = [mutex EXCEPT ![thread[t].at] = None]
  BY <1>1 DEF Returns, Unlocked, Host, Locks
<1>7. Types'
  BY <1>2, <1>3, <1>4, <1>5, <1>6 DEF Types
<1>8. Placed'
  BY <1>1, <1>2, <1>3, <1>4 DEF Placed, Threads, Working, Migrating
<1>9. Locks'
  <2>1. \A i \in Instances : mutex'[i] = IF i = thread[t].at THEN None ELSE mutex[i]
    BY <1>6 DEF Types
  <2>2. \A u \in Threads : thread[u].stage \in Migrating => thread[u].at \in Instances
    BY AtWork DEF Working
  <2>3. locked' = IF thread[t].stage = "changing" THEN locked \ {thread[t].schema} ELSE locked
    OBVIOUS
  <2> QED BY <1>1, <1>3, <2>1, <2>2, <2>3 DEF Locks, Migrating
<1>10. Schemed'
  <2>1. RoutableIsMigrated'
    BY <1>4 DEF Schemed, RoutableIsMigrated
  <2>2. version[thread[t].schema] >= Version[thread[t].at]
    BY DEF UpToDate, Host
  <2> QED BY <1>1, <1>3, <1>4, <2>1, <2>2 DEF Schemed, Threads, Working, Migrating
<1>11. Listed'
  BY <1>4 DEF Listed
<1>12. ConnectionsAddUp'
  <2>1. /\ free' \in [Instances -> Nat] /\ free[thread[t].at] \in Nat
        /\ lost' \in [Instances -> Nat] /\ lost' = lost /\ lost[thread[t].at] \in Nat
        /\ \A i \in Instances \ {thread[t].at} : free'[i] = free[i]
        /\ free'[thread[t].at] = free[thread[t].at] + 1
    BY <1>2, <1>4, <1>5 DEF Types
  <2>2. /\ Holds(t) = (IF t \in Creations THEN 1 ELSE 0) + 1
        /\ Holds(t)' = (IF t \in Creations THEN 1 ELSE 0) + 0
    BY <1>1, <1>3 DEF Holds, Working, Migrating, Connected
  <2>3. free'[thread[t].at] + lost'[thread[t].at] + Holds(t)'
          = free[thread[t].at] + lost[thread[t].at] + Holds(t)
    BY <2>1, <2>2
  <2> QED BY <1>2, <1>3, <2>1, <2>3, Accounts
<1> QED BY <1>7, <1>8, <1>9, <1>10, <1>11, <1>12

\* The lock of the process is taken.
LEMMA LockStep ==
    ASSUME Inv, NEW t \in Threads, Lock(t)
    PROVE  Inv'
<1> USE DEF Inv
<1>1. thread[t].stage = "locking" /\ mutex[thread[t].at] = None
  BY DEF Lock, At, CanLock, Host
<1>2. /\ thread[t].at \in Instances /\ thread[t].schema \in Schemas
      /\ t \in Instances => t \notin Creations /\ thread[t].at = t /\ up[t] = "starting"
      /\ t \in Creations => /\ t \notin Instances
                            /\ up[thread[t].at] = "serving" /\ thread[t].name \in Names
  BY <1>1, AtWork DEF Working
<1>3. /\ thread' \in [Threads -> [stage : Stages, at : Instances \cup {None},
                                   schema : Schemas \cup {None}, name : Names \cup {None}]]
      /\ thread'[t].stage = "connecting" /\ thread'[t].at = thread[t].at
      /\ thread'[t].schema = thread[t].schema /\ thread'[t].name = thread[t].name
      /\ \A u \in Threads \ {t} : thread'[u] = thread[u]
  BY Moved DEF Lock, Stages
<1>4. UNCHANGED <<tenants, version, made, locked, up, listed, todo, free, lost, starts>>
  BY DEF Lock, database, instance, pool
<1>5. mutex' = [mutex EXCEPT ![thread[t].at] = t]
  BY DEF Lock, Host
<1>6. Types'
  BY <1>2, <1>3, <1>4, <1>5 DEF Types
<1>7. Placed'
  BY <1>1, <1>2, <1>3, <1>4 DEF Placed, Threads, Working, Migrating
<1>8. Locks'
  <2>1. \A i \in Instances : mutex'[i] = IF i = thread[t].at THEN t ELSE mutex[i]
    BY <1>5 DEF Types
  <2>2. \A u \in Threads : /\ thread[u].stage \in Migrating => thread[u].at \in Instances
                           /\ u # None
    BY AtWork, NoneAssumption DEF Working, Threads
  <2> QED BY <1>1, <1>2, <1>3, <1>4, <2>1, <2>2 DEF Locks, Migrating
<1>9. Schemed'
  <2>1. RoutableIsMigrated'
    BY <1>4 DEF Schemed, RoutableIsMigrated
  <2> QED BY <1>1, <1>3, <1>4, <2>1 DEF Schemed, Threads, Working, Migrating
<1>10. Listed'
  BY <1>4 DEF Listed
<1>11. ConnectionsAddUp'
  <2>1. Holds(t)' = Holds(t)
    BY <1>1, <1>3 DEF Holds, Working, Migrating, Connected
  <2>2. /\ free' \in [Instances -> Nat] /\ free' = free
        /\ lost' \in [Instances -> Nat] /\ lost' = lost
    BY <1>4 DEF Types
  <2> QED BY <1>2, <1>3, <2>1, <2>2, Accounts
<1> QED BY <1>6, <1>7, <1>8, <1>9, <1>10, <1>11

\* A connection is borrowed, or is not to be had.
LEMMA ConnectStep ==
    ASSUME Inv, NEW t \in Threads, Connect(t)
    PROVE  Inv'
<1> USE DEF Inv
<1>1. thread[t].stage = "connecting"
  BY DEF Connect, At
<1>2. CASE Fails(t) /\ UNCHANGED made
  BY <1>1, <1>2, FailsStep DEF Working, Migrating, Types
<1>3. CASE /\ free[Host(t)] > 0
           /\ free' = [free EXCEPT ![Host(t)] = @ - 1]
           /\ Goes(t, "waiting")
           /\ UNCHANGED <<database, instance, mutex, lost, starts>>
  <2>1. /\ thread[t].at \in Instances /\ thread[t].schema \in Schemas
        /\ t \in Instances => t \notin Creations /\ thread[t].at = t /\ up[t] = "starting"
        /\ t \in Creations => /\ t \notin Instances
                              /\ up[thread[t].at] = "serving" /\ thread[t].name \in Names
    BY <1>1, AtWork DEF Working, Migrating
  <2>2. /\ thread' \in [Threads -> [stage : Stages, at : Instances \cup {None},
                                     schema : Schemas \cup {None}, name : Names \cup {None}]]
        /\ thread'[t].stage = "waiting" /\ thread'[t].at = thread[t].at
        /\ thread'[t].schema = thread[t].schema /\ thread'[t].name = thread[t].name
        /\ \A u \in Threads \ {t} : thread'[u] = thread[u]
    BY <1>3, Moved DEF Stages
  <2>3. UNCHANGED <<tenants, version, made, locked, up, listed, todo, mutex, lost, starts>>
    BY <1>3 DEF database, instance
  <2>4. /\ free' \in [Instances -> Nat] /\ free[thread[t].at] \in Nat
        /\ lost' \in [Instances -> Nat] /\ lost' = lost /\ lost[thread[t].at] \in Nat
        /\ \A i \in Instances \ {thread[t].at} : free'[i] = free[i]
        /\ free'[thread[t].at] = free[thread[t].at] - 1
    BY <1>3, <2>1, <2>3 DEF Types, Host
  <2>5. Types'
    BY <2>2, <2>3, <2>4 DEF Types
  <2>6. Placed'
    BY <1>1, <2>1, <2>2, <2>3 DEF Placed, Threads, Working, Migrating
  <2>7. Locks'
    BY <1>1, <2>1, <2>2, <2>3 DEF Locks, Migrating, Threads
  <2>8. Schemed'
    <3>1. RoutableIsMigrated'
      BY <2>3 DEF Schemed, RoutableIsMigrated
    <3> QED BY <1>1, <2>2, <2>3, <3>1 DEF Schemed, Threads, Working, Migrating
  <2>9. Listed'
    BY <2>3 DEF Listed
  <2>10. ConnectionsAddUp'
    <3>1. /\ Holds(t) = (IF t \in Creations THEN 1 ELSE 0) + 0
          /\ Holds(t)' = (IF t \in Creations THEN 1 ELSE 0) + 1
      BY <1>1, <2>2 DEF Holds, Working, Migrating, Connected
    <3>2. free'[thread[t].at] + lost'[thread[t].at] + Holds(t)'
            = free[thread[t].at] + lost[thread[t].at] + Holds(t)
      BY <2>4, <3>1
    <3> QED BY <2>1, <2>2, <2>4, <3>2, Accounts
  <2> QED BY <2>5, <2>6, <2>7, <2>8, <2>9, <2>10
<1> QED BY <1>2, <1>3 DEF Connect

\* The lock of the schema is taken, or waited for in vain, or not needed.
LEMMA LockSchemaStep ==
    ASSUME Inv, NEW t \in Threads, LockSchema(t)
    PROVE  Inv'
<1> USE DEF Inv
<1>1. thread[t].stage = "waiting"
  BY DEF LockSchema, At
<1>2. CASE Fails(t) /\ UNCHANGED made
  BY <1>1, <1>2, FailsStep DEF Working, Migrating, Types
<1>3. CASE UpToDate(t) /\ Returns(t) /\ UNCHANGED locked
  BY <1>1, <1>3, ReturnsStep DEF Connected
<1>4. CASE /\ thread[t].schema \notin locked
           /\ locked' = locked \cup {thread[t].schema}
           /\ Goes(t, "changing")
           /\ UNCHANGED <<tenants, version, made, instance, mutex, pool, starts>>
  <2>1. /\ thread[t].at \in Instances /\ thread[t].schema \in Schemas
        /\ t \in Instances => t \notin Creations /\ thread[t].at = t /\ up[t] = "starting"
        /\ t \in Creations => /\ t \notin Instances
                              /\ up[thread[t].at] = "serving" /\ thread[t].name \in Names
    BY <1>1, AtWork DEF Working, Migrating
  <2>2. /\ thread' \in [Threads -> [stage : Stages, at : Instances \cup {None},
                                     schema : Schemas \cup {None}, name : Names \cup {None}]]
        /\ thread'[t].stage = "changing" /\ thread'[t].at = thread[t].at
        /\ thread'[t].schema = thread[t].schema /\ thread'[t].name = thread[t].name
        /\ \A u \in Threads \ {t} : thread'[u] = thread[u]
    BY <1>4, Moved DEF Stages
  <2>3. UNCHANGED <<tenants, version, made, up, listed, todo, mutex, free, lost, starts>>
    BY <1>4 DEF instance, pool
  <2>4. Types'
    BY <1>4, <2>1, <2>2, <2>3 DEF Types
  <2>5. Placed'
    BY <1>1, <2>1, <2>2, <2>3 DEF Placed, Threads, Working, Migrating
  <2>6. Locks'
    BY <1>1, <1>4, <2>1, <2>2, <2>3 DEF Locks, Migrating, Threads
  <2>7. Schemed'
    <3>1. RoutableIsMigrated'
      BY <2>3 DEF Schemed, RoutableIsMigrated
    <3> QED BY <1>1, <2>2, <2>3, <3>1 DEF Schemed, Threads, Working, Migrating
  <2>8. Listed'
    BY <2>3 DEF Listed
  <2>9. ConnectionsAddUp'
    <3>1. Holds(t)' = Holds(t)
      BY <1>1, <2>2 DEF Holds, Working, Migrating, Connected
    <3>2. free' \in [Instances -> Nat] /\ lost' \in [Instances -> Nat]
      BY <2>3 DEF Types
    <3> QED BY <2>1, <2>2, <2>3, <3>1, <3>2, Accounts
  <2> QED BY <2>4, <2>5, <2>6, <2>7, <2>8, <2>9
<1> QED BY <1>2, <1>3, <1>4 DEF LockSchema

\* A change set is applied, to a schema that is only ever more up to date.
LEMMA ChangeSetStep ==
    ASSUME Inv, NEW t \in Threads, ChangeSet(t)
    PROVE  Inv'
<1> USE DEF Inv
<1>1. thread[t].stage = "changing" /\ ~UpToDate(t)
  BY DEF ChangeSet, At
<1>2. CASE Fails(t) /\ UNCHANGED made
  BY <1>1, <1>2, FailsStep DEF Working, Migrating, Types
<1>3. CASE /\ version' = [version EXCEPT ![thread[t].schema] = @ + 1]
           /\ UNCHANGED <<tenants, made, locked, instance, mutex, pool, thread, starts>>
  <2>1. /\ thread[t].at \in Instances /\ thread[t].schema \in Schemas
        /\ t \in Instances => t \notin Creations /\ thread[t].at = t /\ up[t] = "starting"
        /\ t \in Creations => /\ t \notin Instances
                              /\ up[thread[t].at] = "serving" /\ thread[t].name \in Names
    BY <1>1, AtWork DEF Working, Migrating
  <2>2. UNCHANGED <<tenants, made, locked, up, listed, todo, mutex, free, lost, thread, starts>>
    BY <1>3 DEF instance, pool
  <2>3. version[thread[t].schema] \in 0..Newest /\ Version[thread[t].at] \in 0..Newest
    BY <2>1, InstancesAssumption DEF Types, Versions
  <2>4. version[thread[t].schema] < Version[thread[t].at]
    BY <1>1, <2>3 DEF UpToDate, Host
  <2>5. version' \in [Schemas -> Versions]
    <3>1. version[thread[t].schema] + 1 \in 0..Newest
      BY <2>3, <2>4, BoundAssumption
    <3> QED BY <1>3, <3>1 DEF Types, Versions
  <2>6. \A s \in Schemas, n \in 0..Newest : version[s] >= n => version'[s] >= n
    BY <1>3, BoundAssumption DEF Types, Versions
  <2>7. Types'
    BY <2>2, <2>5 DEF Types
  <2>8. Placed'
    BY <2>2 DEF Placed
  <2>9. Locks'
    BY <2>2 DEF Locks
  <2>10. Schemed'
    <3>1. \A u \in Threads : thread[u].stage = "migrated" =>
              thread[u].schema \in Schemas /\ Version[thread[u].at] \in 0..Newest
      BY AtWork, InstancesAssumption DEF Working, Versions
    <3>2. \A r \in tenants : r.schema \in Schemas /\ Version[r.by] \in 0..Newest
      BY InstancesAssumption DEF Types, Versions
    <3>3. RoutableIsMigrated'
      BY <2>2, <2>6, <3>2 DEF Schemed, RoutableIsMigrated
    <3> QED BY <2>2, <2>6, <3>1, <3>3 DEF Schemed
  <2>11. Listed'
    <3>1. \A i \in Instances : listed[i] \subseteq Schemas /\ Version[i] \in 0..Newest
      BY InstancesAssumption DEF Types, Versions
    <3> QED BY <2>2, <2>6, <3>1 DEF Listed
  <2>12. ConnectionsAddUp'
    BY <2>2 DEF ConnectionsAddUp, Held, Transactions, Borrowers, Host
  <2> QED BY <2>7, <2>8, <2>9, <2>10, <2>11, <2>12
<1> QED BY <1>2, <1>3 DEF ChangeSet

\* The end of a migration that had the schema's lock.
LEMMA MigrationReturnsStep ==
    ASSUME Inv, NEW t \in Threads, MigrationReturns(t)
    PROVE  Inv'
BY ReturnsStep DEF MigrationReturns, At, Connected

-----------------------------------------------------------------------------
(* The steps of a starting instance.                                        *)

\* The runner reads the table.
LEMMA StartStep ==
    ASSUME Inv, NEW i \in Instances, Start(i)
    PROVE  Inv'
<1> USE DEF Inv
<1>1. up[i] = "down" /\ thread[i].stage = "idle"
  BY DEF Start, Placed, Types
<1>2. i \in Threads /\ i \notin Creations
  BY InstancesAssumption DEF Threads
<1>3. /\ thread' \in [Threads -> [stage : Stages, at : Instances \cup {None},
                                   schema : Schemas \cup {None}, name : Names \cup {None}]]
      /\ thread'[i].stage = "idle" /\ thread'[i].at = i
      /\ \A u \in Threads \ {i} : thread'[u] = thread[u]
  BY <1>1, <1>2 DEF Start, Types
<1>4. UNCHANGED <<tenants, version, made, locked, mutex, free, lost>>
  BY DEF Start, database, pool
<1>5. /\ up' = [up EXCEPT ![i] = "starting"]
      /\ listed' = [listed EXCEPT ![i] = {r.schema : r \in tenants}]
      /\ todo' = [todo EXCEPT ![i] = {r.schema : r \in tenants}]
      /\ starts' \in 0..MaxStarts
  BY BoundAssumption DEF Start, Types
<1>6. Types'
  <2>1. {r.schema : r \in tenants} \subseteq Schemas
    BY DEF Types
  <2> QED BY <1>3, <1>4, <1>5, <2>1 DEF Types
<1>7. Placed'
  BY <1>1, <1>2, <1>3, <1>5 DEF Placed, Threads, Types
<1>8. Locks'
  BY <1>1, <1>3, <1>4 DEF Locks, Migrating, Threads
<1>9. Schemed'
  <2>1. RoutableIsMigrated'
    BY <1>4 DEF Schemed, RoutableIsMigrated
  <2> QED BY <1>1, <1>2, <1>3, <1>4, <2>1 DEF Schemed, Threads, Working, Migrating
<1>10. Listed'
  BY <1>4, <1>5 DEF Listed, Types
<1>11. ConnectionsAddUp'
  <2>1. Holds(i)' = Holds(i)
    BY <1>1, <1>2, <1>3 DEF Holds, Connected
  <2>2. /\ free' \in [Instances -> Nat] /\ free' = free
        /\ lost' \in [Instances -> Nat] /\ lost' = lost
    BY <1>4 DEF Types
  <2>3. thread[i].stage \notin Working
    BY <1>1 DEF Working, Migrating
  <2> QED BY <1>2, <1>3, <2>1, <2>2, <2>3, Accounts
<1> QED BY <1>6, <1>7, <1>8, <1>9, <1>10, <1>11

\* The runner takes the next schema.
LEMMA NextSchemaStep ==
    ASSUME Inv, NEW i \in Instances, NextSchema(i)
    PROVE  Inv'
<1> USE DEF Inv
<1>1. up[i] = "starting" /\ thread[i].stage = "idle" /\ i \in Threads /\ i \notin Creations
  BY InstancesAssumption DEF NextSchema, At, Threads
<1>2. PICK s \in todo[i] :
          thread' = [thread EXCEPT ![i].stage = "locking", ![i].schema = s]
  BY DEF NextSchema
<1>3. UNCHANGED <<tenants, version, made, locked, up, listed, todo, mutex, free, lost, starts>>
  BY DEF NextSchema, database, instance, pool
<1>4. /\ thread' \in [Threads -> [stage : Stages, at : Instances \cup {None},
                                   schema : Schemas \cup {None}, name : Names \cup {None}]]
      /\ thread'[i].stage = "locking" /\ thread'[i].at = thread[i].at
      /\ thread'[i].schema \in Schemas
      /\ \A u \in Threads \ {i} : thread'[u] = thread[u]
  BY <1>1, <1>2 DEF Types, Stages
<1>5. Types'
  BY <1>3, <1>4 DEF Types
<1>6. Placed'
  BY <1>1, <1>3, <1>4 DEF Placed, Threads
<1>7. Locks'
  BY <1>1, <1>3, <1>4 DEF Locks, Migrating, Threads
<1>8. Schemed'
  <2>1. RoutableIsMigrated'
    BY <1>3 DEF Schemed, RoutableIsMigrated
  <2> QED BY <1>1, <1>3, <1>4, <2>1 DEF Schemed, Threads
<1>9. Listed'
  BY <1>3 DEF Listed
<1>10. ConnectionsAddUp'
  <2>1. Holds(i)' = Holds(i)
    BY <1>1, <1>4 DEF Holds, Connected
  <2>2. /\ free' \in [Instances -> Nat] /\ free' = free
        /\ lost' \in [Instances -> Nat] /\ lost' = lost
    BY <1>3 DEF Types
  <2>3. thread[i].stage \notin Working
    BY <1>1 DEF Working, Migrating
  <2>4. thread'[i].at = i
    BY <1>1, <1>4, <1>6 DEF Placed
  <2> QED BY <1>1, <1>4, <2>1, <2>2, <2>3, <2>4, Accounts
<1> QED BY <1>5, <1>6, <1>7, <1>8, <1>9, <1>10

\* The runner is done with a schema: it is up to date, so it may be crossed off.
LEMMA MigratedStep ==
    ASSUME Inv, NEW i \in Instances, Migrated(i)
    PROVE  Inv'
<1> USE DEF Inv
<1>1. thread[i].stage = "migrated" /\ i \in Threads /\ i \notin Creations
  BY InstancesAssumption DEF Migrated, At, Threads
<1>2. thread[i].at = i /\ thread[i].schema \in Schemas /\ up[i] = "starting"
  BY <1>1 DEF Placed
<1>3. UNCHANGED <<tenants, version, made, locked, up, listed, mutex, free, lost, starts>>
  BY DEF Migrated, database, pool
<1>4. todo' = [todo EXCEPT ![i] = @ \ {thread[i].schema}]
  BY DEF Migrated
<1>5. /\ thread' \in [Threads -> [stage : Stages, at : Instances \cup {None},
                                   schema : Schemas \cup {None}, name : Names \cup {None}]]
      /\ thread'[i].stage = "idle" /\ thread'[i].at = thread[i].at
      /\ \A u \in Threads \ {i} : thread'[u] = thread[u]
  BY <1>1, Moved DEF Migrated, Stages
<1>6. Types'
  BY <1>3, <1>4, <1>5 DEF Types
<1>7. Placed'
  BY <1>1, <1>3, <1>5 DEF Placed, Threads
<1>8. Locks'
  BY <1>1, <1>3, <1>5 DEF Locks, Migrating, Threads
<1>9. Schemed'
  <2>1. RoutableIsMigrated'
    BY <1>3 DEF Schemed, RoutableIsMigrated
  <2> QED BY <1>1, <1>3, <1>5, <2>1 DEF Schemed, Threads
<1>10. Listed'
  <2>1. version[thread[i].schema] >= Version[i]
    BY <1>1, <1>2 DEF Schemed
  <2> QED BY <1>2, <1>3, <1>4, <2>1 DEF Listed, Types
<1>11. ConnectionsAddUp'
  <2>1. Holds(i)' = Holds(i)
    BY <1>1, <1>5 DEF Holds, Connected
  <2>2. /\ free' \in [Instances -> Nat] /\ free' = free
        /\ lost' \in [Instances -> Nat] /\ lost' = lost
    BY <1>3 DEF Types
  <2> QED BY <1>1, <1>2, <1>5, <2>1, <2>2, Accounts
<1> QED BY <1>6, <1>7, <1>8, <1>9, <1>10, <1>11

\* The port opens: there is nothing left to do.
LEMMA OpenStep ==
    ASSUME Inv, NEW i \in Instances, Open(i)
    PROVE  Inv'
<1> USE DEF Inv
<1>1. up[i] = "starting" /\ todo[i] = {} /\ thread[i].stage = "idle"
  BY DEF Open, MayOpen, At
<1>2. up' = [up EXCEPT ![i] = "serving"]
  BY DEF Open
<1>3. UNCHANGED <<tenants, version, made, locked, listed, todo, mutex, free, lost, thread, starts>>
  BY DEF Open, database, pool
<1>4. Types'
  BY <1>2, <1>3 DEF Types
<1>5. Placed'
  BY <1>1, <1>2, <1>3 DEF Placed, Types
<1>6. Locks'
  BY <1>3 DEF Locks
<1>7. Schemed'
  BY <1>3 DEF Schemed, RoutableIsMigrated
<1>8. Listed'
  BY <1>1, <1>2, <1>3 DEF Listed, Types
<1>9. ConnectionsAddUp'
  BY <1>3 DEF ConnectionsAddUp, Held, Transactions, Borrowers, Host
<1> QED BY <1>4, <1>5, <1>6, <1>7, <1>8, <1>9

-----------------------------------------------------------------------------
(* The steps of a creation, and a crash.                                    *)

\* A transaction begins, or finds no connection.
LEMMA CreateStep ==
    ASSUME Inv, NEW c \in Creations, NEW i \in Instances, NEW n \in Names, NEW s \in Schemas,
           Create(c, i, n, s)
    PROVE  Inv'
<1> USE DEF Inv
<1>1. up[i] = "serving" /\ thread[c].stage = "idle" /\ c \in Threads /\ c \notin Instances
  BY InstancesAssumption DEF Create, At, Threads
<1>2. UNCHANGED <<tenants, version, made, locked, up, listed, todo, mutex, starts>>
  BY DEF Create, database, instance
<1>3. /\ thread' \in [Threads -> [stage : Stages, at : Instances \cup {None},
                                   schema : Schemas \cup {None}, name : Names \cup {None}]]
      /\ thread'[c].stage \in {"begun", "refused"} /\ thread'[c].at = i
      /\ thread'[c].schema = s /\ thread'[c].name = n
      /\ \A u \in Threads \ {c} : thread'[u] = thread[u]
  BY <1>1 DEF Create, Asked, Types, Stages
<1>4. /\ free' \in [Instances -> Nat] /\ lost' \in [Instances -> Nat]
      /\ \A j \in Instances \ {i} : free'[j] = free[j] /\ lost'[j] = lost[j]
      /\ free'[i] + lost'[i] + (IF thread'[c].stage = "begun" THEN 1 ELSE 0) = free[i] + lost[i]
  <2>1. /\ free \in [Instances -> Nat] /\ lost \in [Instances -> Nat]
        /\ free[i] \in Nat /\ lost[i] \in Nat
    BY DEF Types
  <2>2. CASE free[i] > 0
    <3>1. /\ free' = [free EXCEPT ![i] = @ - 1]
          /\ \/ thread'[c].stage = "begun" /\ lost' = lost
             \/ thread'[c].stage = "refused" /\ lost' = [lost EXCEPT ![i] = @ + 1]
      BY <1>1, <2>2 DEF Create, Asked, Types
    <3> QED BY <2>1, <2>2, <3>1
  <2>3. CASE free[i] = 0
    <3>1. free' = free /\ lost' = lost /\ thread'[c].stage = "refused"
      BY <1>1, <2>3 DEF Create, Asked, Types, pool
    <3> QED BY <2>1, <3>1
  <2> QED BY <2>1, <2>2, <2>3
<1>5. Types'
  BY <1>2, <1>3, <1>4 DEF Types
<1>6. Placed'
  BY <1>1, <1>2, <1>3 DEF Placed, Threads
<1>7. Locks'
  BY <1>2, <1>3 DEF Locks, Migrating
<1>8. Schemed'
  <2>1. RoutableIsMigrated'
    BY <1>2 DEF Schemed, RoutableIsMigrated
  <2> QED BY <1>2, <1>3, <2>1 DEF Schemed, Threads, Working, Migrating
<1>9. Listed'
  BY <1>2 DEF Listed
<1>10. ConnectionsAddUp'
  <2>1. Holds(c) = 0 /\ Holds(c)' = IF thread'[c].stage = "begun" THEN 1 ELSE 0
    BY <1>1, <1>3 DEF Holds, Working, Migrating, Connected
  <2>2. free'[i] + lost'[i] + Holds(c)' = free[i] + lost[i] + Holds(c)
    <3>1. free[i] \in Nat /\ lost[i] \in Nat /\ free'[i] \in Nat /\ lost'[i] \in Nat
      BY <1>4 DEF Types
    <3> QED BY <1>4, <2>1, <3>1
  <2>3. thread[c].stage \notin Working
    BY <1>1 DEF Working, Migrating
  <2> QED BY <1>1, <1>3, <1>4, <2>2, <2>3, Accounts
<1> QED BY <1>5, <1>6, <1>7, <1>8, <1>9, <1>10

\* The schema is made, whether or not the creation goes on.
LEMMA CreateSchemaStep ==
    ASSUME Inv, NEW c \in Creations, CreateSchema(c)
    PROVE  Inv'
<1> USE DEF Inv
<1>1. thread[c].stage = "begun" /\ c \in Threads
  BY DEF CreateSchema, At, Threads
<1>2. /\ thread[c].at \in Instances /\ thread[c].schema \in Schemas /\ c \notin Instances
      /\ up[thread[c].at] = "serving" /\ thread[c].name \in Names
  BY <1>1, AtWork DEF Working
<1>3. made \subseteq made' /\ made' \subseteq Schemas
  BY <1>2 DEF CreateSchema, Types
<1>4. CASE Fails(c)
  BY <1>1, <1>3, <1>4, FailsStep DEF Working
<1>5. CASE /\ made' = made \cup {thread[c].schema}
           /\ Goes(c, "locking")
           /\ UNCHANGED <<tenants, version, locked, instance, mutex, pool, starts>>
  <2>1. UNCHANGED <<tenants, version, locked, up, listed, todo, mutex, free, lost, starts>>
    BY <1>5 DEF instance, pool
  <2>2. /\ thread' \in [Threads -> [stage : Stages, at : Instances \cup {None},
                                     schema : Schemas \cup {None}, name : Names \cup {None}]]
        /\ thread'[c].stage = "locking" /\ thread'[c].at = thread[c].at
        /\ thread'[c].schema = thread[c].schema /\ thread'[c].name = thread[c].name
        /\ \A u \in Threads \ {c} : thread'[u] = thread[u]
    BY <1>1, <1>5, Moved DEF Stages
  <2>3. Types'
    BY <1>3, <2>1, <2>2 DEF Types
  <2>4. Placed'
    BY <1>1, <1>2, <2>1, <2>2 DEF Placed, Threads
  <2>5. Locks'
    BY <1>1, <2>1, <2>2 DEF Locks, Migrating
  <2>6. Schemed'
    <3>1. RoutableIsMigrated'
      BY <1>3, <2>1 DEF Schemed, RoutableIsMigrated
    <3> QED BY <1>1, <1>3, <1>5, <2>1, <2>2, <3>1 DEF Schemed, Threads
  <2>7. Listed'
    BY <2>1 DEF Listed
  <2>8. ConnectionsAddUp'
    <3>1. Holds(c)' = Holds(c)
      BY <1>1, <2>2 DEF Holds, Working, Connected
    <3>2. /\ free' \in [Instances -> Nat] /\ free' = free
          /\ lost' \in [Instances -> Nat] /\ lost' = lost
      BY <2>1 DEF Types
    <3> QED BY <1>1, <1>2, <2>2, <3>1, <3>2, Accounts
  <2> QED BY <2>3, <2>4, <2>5, <2>6, <2>7, <2>8
<1> QED BY <1>4, <1>5 DEF CreateSchema

\* The transaction commits the row of a migrated schema, or fails.
LEMMA CommitStep ==
    ASSUME Inv, NEW c \in Creations, Commit(c)
    PROVE  Inv'
<1> USE DEF Inv
<1>1. thread[c].stage = "migrated" /\ c \in Threads
  BY DEF Commit, Writes, At, Threads
<1>2. /\ thread[c].at \in Instances /\ thread[c].schema \in Schemas /\ c \notin Instances
      /\ up[thread[c].at] = "serving" /\ thread[c].name \in Names
  BY <1>1, AtWork DEF Working
<1>3. CASE Fails(c) /\ UNCHANGED made
  BY <1>1, <1>3, FailsStep DEF Working, Types
<1>4. CASE /\ Accepted(thread[c].name, thread[c].schema)
           /\ tenants' = tenants \cup {[name |-> thread[c].name, schema |-> thread[c].schema,
                                        by |-> Host(c)]}
           /\ GivesBack(c, 0)
           /\ Goes(c, "done")
           /\ UNCHANGED <<version, made, locked, instance, mutex, starts>>
  <2>1. UNCHANGED <<version, made, locked, up, listed, todo, mutex, starts>>
    BY <1>4 DEF instance, pool
  <2>2. /\ thread' \in [Threads -> [stage : Stages, at : Instances \cup {None},
                                     schema : Schemas \cup {None}, name : Names \cup {None}]]
        /\ thread'[c].stage = "done"
        /\ \A u \in Threads \ {c} : thread'[u] = thread[u]
    BY <1>1, <1>4, Moved DEF Stages
  <2> DEFINE row == [name |-> thread[c].name, schema |-> thread[c].schema, by |-> thread[c].at]
  <2>3. tenants' = tenants \cup {row} /\ row \in [name : Names, schema : Schemas, by : Instances]
    BY <1>2, <1>4 DEF Host
  <2>4. /\ row.schema \in made /\ version[row.schema] >= Version[row.by]
        /\ \A r \in tenants : r.name # row.name /\ r.schema # row.schema
    BY <1>1, <1>4 DEF Schemed, Accepted, Working
  <2>5. /\ free' \in [Instances -> Nat] /\ lost' \in [Instances -> Nat]
        /\ \A i \in Instances \ {thread[c].at} : free'[i] = free[i] /\ lost'[i] = lost[i]
        /\ free'[thread[c].at] + lost'[thread[c].at]
             = free[thread[c].at] + lost[thread[c].at] + Owned(c) + 0
    BY <1>1, <1>2, <1>4, GivenBack
  <2> HIDE DEF row
  <2>6. Types'
    BY <2>1, <2>2, <2>3, <2>5 DEF Types
  <2>7. Placed'
    BY <1>2, <2>1, <2>2 DEF Placed, Threads, Working, Migrating
  <2>8. Locks'
    BY <2>1, <2>2 DEF Locks, Migrating
  <2>9. Schemed'
    <3>1. RoutableIsMigrated'
      BY <2>1, <2>3, <2>4 DEF Schemed, RoutableIsMigrated
    <3> QED BY <2>1, <2>2, <3>1 DEF Schemed, Threads, Working, Migrating
  <2>10. Listed'
    BY <2>1 DEF Listed
  <2>11. ConnectionsAddUp'
    <3>1. Holds(c) = 1 /\ Holds(c)' = 0
      BY <1>1, <2>2 DEF Holds, Working, Migrating, Connected
    <3>2. /\ free'[thread[c].at] \in Nat /\ lost'[thread[c].at] \in Nat
          /\ free[thread[c].at] \in Nat /\ lost[thread[c].at] \in Nat
      BY <1>2, <2>5 DEF Types
    <3>4. free'[thread[c].at] + lost'[thread[c].at] + Holds(c)'
            = free[thread[c].at] + lost[thread[c].at] + Holds(c)
      BY <2>5, <3>1, <3>2 DEF Owned
    <3>3. thread'[c].stage \notin Working
      BY <2>2 DEF Working, Migrating
    <3> QED BY <1>1, <1>2, <2>2, <2>5, <3>3, <3>4, Accounts
  <2> QED BY <2>6, <2>7, <2>8, <2>9, <2>10, <2>11
<1> QED BY <1>3, <1>4 DEF Commit

\* An instance dies with all its threads.
LEMMA CrashStep ==
    ASSUME Inv, NEW i \in Instances, Crash(i)
    PROVE  Inv'
<1> USE DEF Inv
<1>1. UNCHANGED <<tenants, version, made, locked, starts>>
  BY DEF Crash, database
<1>2. /\ up' = [up EXCEPT ![i] = "down"]
      /\ listed' = [listed EXCEPT ![i] = {}] /\ todo' = [todo EXCEPT ![i] = {}]
      /\ mutex' = [mutex EXCEPT ![i] = None] /\ free' = [free EXCEPT ![i] = PoolSize[i]]
      /\ lost' = [lost EXCEPT ![i] = 0]
  BY DEF Crash
<1>3. i \in Threads /\ thread'[i] = Idle
  BY DEF Crash, Threads
<1>4. \A t \in Threads :
          thread[t].at = i => thread'[t].stage \notin Working
  BY DEF Crash, Host, Idle, Working, Migrating, Types
<1>5. \A t \in Threads : thread[t].at # i /\ t # i => thread'[t] = thread[t]
  BY DEF Crash, Host
<1>6. \A t \in Threads \ {i} : /\ thread'[t].at = thread[t].at
                               /\ thread'[t].stage \in {thread[t].stage, "refused"}
                               /\ thread'[t].schema = thread[t].schema
                               /\ thread'[t].name = thread[t].name
  BY DEF Crash, Types
<1>7. thread' \in [Threads -> [stage : Stages, at : Instances \cup {None},
                                   schema : Schemas \cup {None}, name : Names \cup {None}]]
  BY DEF Crash, Types, Idle, Stages
<1>8. Types'
  BY <1>1, <1>2, <1>7, PoolAssumption DEF Types
<1>9. \A j \in Instances \ {i} : thread[j].at # i
  BY NoneAssumption DEF Placed
<1>10. Placed'
  <2>1. \A j \in Instances : up'[j] = IF j = i THEN "down" ELSE up[j]
    BY <1>2 DEF Types
  <2>2. \A j \in Instances \ {i} : thread'[j] = thread[j]
    BY <1>5, <1>9 DEF Threads
  <2>3. \A c \in Creations : thread'[c].stage \in Working =>
            thread'[c] = thread[c] /\ thread[c].at # i
    BY <1>4, <1>5, InstancesAssumption DEF Threads
  <2> QED BY <1>3, <2>1, <2>2, <2>3 DEF Placed, Idle
<1>11. \A t \in Threads : thread'[t].stage \in Working => thread'[t] = thread[t] /\ thread[t].at # i
  BY <1>3, <1>4, <1>5 DEF Idle, Working, Migrating
<1>12. Locks'
  <2>1. \A t \in Threads : thread'[t].stage \in Migrating =>
            thread'[t] = thread[t] /\ thread[t].at \in Instances \ {i}
    BY <1>11, AtWork DEF Working
  <2> QED BY <1>1, <1>2, <2>1 DEF Locks, Migrating, Types
<1>13. Schemed'
  <2>1. RoutableIsMigrated'
    BY <1>1 DEF Schemed, RoutableIsMigrated
  <2> QED BY <1>1, <1>11, <2>1 DEF Schemed, Threads, Working
<1>14. Listed'
  BY <1>1, <1>2 DEF Listed, Types
<1>15. ConnectionsAddUp'
  <2> SUFFICES ASSUME NEW j \in Instances
               PROVE  free'[j] + lost'[j] + Held(j)' = PoolSize[j]
    BY DEF ConnectionsAddUp
  <2>1. free[j] + lost[j] + Held(j) = PoolSize[j] /\ PoolSize[j] \in Nat
    BY PoolAssumption DEF ConnectionsAddUp
  <2>2. Connected \subseteq Working /\ Creations \subseteq Threads
    BY DEF Connected, Working, Migrating, Threads
  <2>3. CASE j = i
    <3>1. Transactions(j)' = {} /\ Borrowers(j)' = {}
      BY <1>11, <2>2, <2>3 DEF Transactions, Borrowers, Host
    <3>2. Held(j)' = 0
      BY <3>1, FS_EmptySet DEF Held
    <3>3. free'[j] = PoolSize[j] /\ lost'[j] = 0
      BY <1>2, <2>3 DEF Types
    <3> QED BY <2>1, <3>2, <3>3
  <2>4. CASE j # i
    <3>1. \A t \in Threads : thread[t].at = j /\ thread[t].stage \in Working =>
              thread'[t] = thread[t]
      <4>1. thread[i].at # j
        BY <2>4, NoneAssumption DEF Placed
      <4> QED BY <1>5, <2>4, <4>1
    <3>2. Transactions(j)' = Transactions(j) /\ Borrowers(j)' = Borrowers(j)
      BY <1>11, <2>2, <3>1 DEF Transactions, Borrowers, Host
    <3>3. free'[j] = free[j] /\ lost'[j] = lost[j]
      BY <1>2, <2>4 DEF Types
    <3> QED BY <2>1, <3>2, <3>3 DEF Held
  <2> QED BY <2>3, <2>4
<1> QED BY <1>8, <1>10, <1>12, <1>13, <1>14, <1>15

-----------------------------------------------------------------------------
(* The theorems.                                                            *)

LEMMA InitInv ==
    ASSUME Init
    PROVE  Inv
<1>1. Types
  BY BoundAssumption, PoolAssumption
  DEF Init, Types, Versions, Idle, Stages
<1>2. \A t \in Threads : thread[t] = Idle
  BY DEF Init
<1>3. Placed
  BY <1>2 DEF Init, Placed, Idle, Threads, Working, Migrating
<1>4. Locks
  BY <1>2 DEF Locks, Idle, Migrating
<1>5. Schemed
  BY <1>2 DEF Init, Schemed, RoutableIsMigrated, Idle, Threads, Working, Migrating
<1>6. Listed
  BY DEF Init, Listed
<1>7. ConnectionsAddUp
  <2> SUFFICES ASSUME NEW i \in Instances
               PROVE  free[i] + lost[i] + Held(i) = PoolSize[i]
    BY DEF ConnectionsAddUp
  <2>1. Transactions(i) = {} /\ Borrowers(i) = {}
    BY <1>2 DEF Transactions, Borrowers, Idle, Threads, Connected, Working, Migrating
  <2>2. Held(i) = 0
    BY <2>1, FS_EmptySet DEF Held
  <2>3. free[i] = PoolSize[i] /\ lost[i] = 0 /\ PoolSize[i] \in Nat
    BY PoolAssumption DEF Init
  <2> QED BY <2>2, <2>3
<1> QED BY <1>1, <1>3, <1>4, <1>5, <1>6, <1>7 DEF Inv

LEMMA NextInv ==
    ASSUME Inv, [Next]_vars
    PROVE  Inv'
<1>1. CASE UNCHANGED vars
  BY <1>1 DEF vars, Inv, Types, Placed, Locks, Schemed, RoutableIsMigrated, Listed,
              ConnectionsAddUp, Held, Transactions, Borrowers, Host
<1>2. ASSUME NEW t \in Threads, Work(t)
      PROVE  Inv'
  BY <1>2, LockStep, ConnectStep, LockSchemaStep, ChangeSetStep, MigrationReturnsStep,
     NextSchemaStep, MigratedStep, OpenStep, CreateSchemaStep, CommitStep DEF Work
<1>3. ASSUME NEW i \in Instances, Start(i) \/ Crash(i)
      PROVE  Inv'
  BY <1>3, StartStep, CrashStep
<1>4. ASSUME NEW c \in Creations, NEW i \in Instances, NEW n \in Names, NEW s \in Schemas,
             Create(c, i, n, s)
      PROVE  Inv'
  BY <1>4, CreateStep
<1> QED BY <1>1, <1>2, <1>3, <1>4 DEF Next

\* The invariant holds in every reachable state.
THEOREM Invariance == Spec => []Inv
BY InitInv, NextInv, PTL DEF Spec

\* Types, and no pool has more idle connections than it has connections: what
\* is given back was taken.
THEOREM TypeCorrect == Spec => []TypeOK
<1>1. ASSUME Inv
      PROVE  TypeOK
  <2>1. \A i \in Instances : free[i] + lost[i] <= PoolSize[i]
    <3> SUFFICES ASSUME NEW i \in Instances
                 PROVE  free[i] + lost[i] <= PoolSize[i]
      OBVIOUS
    <3>1. Held(i) \in Nat
      <4>1. Cardinality(Transactions(i)) \in Nat /\ Cardinality(Borrowers(i)) \in Nat
        BY HoldersFinite, FS_CardinalityType
      <4> QED BY <4>1 DEF Held
    <3>2. free[i] \in Nat /\ lost[i] \in Nat /\ free[i] + lost[i] + Held(i) = PoolSize[i]
      BY <1>1 DEF Inv, Types, ConnectionsAddUp
    <3> QED BY <3>1, <3>2
  <2> QED BY <1>1, <2>1 DEF Inv, Types, TypeOK
<1> QED BY <1>1, Invariance, PTL

\* A tenant in the table has a schema of its own, migrated as far as its
\* creator's changelog goes, whatever failed, crashed or raced.
THEOREM Routable == Spec => []RoutableIsMigrated
<1>1. Inv => RoutableIsMigrated
  BY DEF Inv, Schemed
<1> QED BY <1>1, Invariance, PTL

\* One Liquibase run at a time in a process, and one in a schema.
THEOREM OneAtATime == Spec => []OneMigrationAtATime
<1>1. ASSUME Inv
      PROVE  OneMigrationAtATime
  BY <1>1 DEF Inv, Locks, OneMigrationAtATime, Host, At
<1> QED BY <1>1, Invariance, PTL

\* Every connection is idle, held or among those whose path could not be
\* changed, on every way out of a creation or a migration, in pools of any size.
THEOREM NoConnectionLost == Spec => []ConnectionsAddUp
<1>1. Inv => ConnectionsAddUp
  BY DEF Inv
<1> QED BY <1>1, Invariance, PTL

\* An instance serves a schema behind its changelog only for a tenant that an
\* older instance added after it had listed the tenants.
THEOREM StaleOnlyIfLate == Spec => []StaleOnlyIfAddedLate
<1>1. ASSUME Inv
      PROVE  StaleOnlyIfAddedLate
  <2> SUFFICES ASSUME NEW i \in Instances, up[i] = "serving", NEW r \in tenants,
                      ~(version[r.schema] >= Version[i])
               PROVE  r.schema \notin listed[i] /\ Version[r.by] < Version[i]
    BY DEF StaleOnlyIfAddedLate
  <2>1. r.schema \notin listed[i]
    BY <1>1 DEF Inv, Listed
  <2>2. version[r.schema] >= Version[r.by]
    BY <1>1 DEF Inv, Schemed, RoutableIsMigrated
  <2>3. version[r.schema] \in Nat /\ Version[r.by] \in Nat /\ Version[i] \in Nat
    BY <1>1, InstancesAssumption, BoundAssumption DEF Inv, Types, Versions
  <2> QED BY <2>1, <2>2, <2>3
<1> QED BY <1>1, Invariance, PTL
=============================================================================
