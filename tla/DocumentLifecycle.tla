-------------------------- MODULE DocumentLifecycle ---------------------------
(***************************************************************************)
(* What the API promises of a document, whoever answers for it: it belongs *)
(* to the tenant that created it, its state only moves forward, to DONE or *)
(* FAILED and no further, and only once its generation was asked for, and  *)
(* what is handed out is its owner's, the file not before it is DONE.      *)
(***************************************************************************)
EXTENDS Naturals

CONSTANTS
    Documents,      \* documents that may come to exist
    Tenants,        \* tenants that may own them
    None            \* no tenant, no document

VARIABLES
    owner,          \* the tenant of each document
    state,          \* "none", or the status the API answers with
    requested,      \* documents whose generation was accepted
    handed          \* what was handed out last: to whom, of which documents, the file or not

lifecycleVars == <<owner, state, requested, handed>>

Rank == [none |-> 0, PENDING |-> 1, PROCESSING |-> 2, DONE |-> 3, FAILED |-> 3]

TypeOK ==
    /\ owner \in [Documents -> Tenants \cup {None}]
    /\ state \in [Documents -> DOMAIN Rank]
    /\ requested \subseteq Documents
    /\ handed \in [to : Tenants \cup {None}, of : SUBSET Documents, file : BOOLEAN]

Init ==
    /\ owner = [d \in Documents |-> None] /\ state = [d \in Documents |-> "none"]
    /\ requested = {} /\ handed = [to |-> None, of |-> {}, file |-> FALSE]

Hand(t, docs, file) ==
    /\ \A d \in docs : owner'[d] = t /\ state'[d] # "none" /\ (file => state'[d] = "DONE")
    /\ handed' = [to |-> t, of |-> docs, file |-> file]

Create(d, t) ==
    /\ state[d] = "none"
    /\ owner' = [owner EXCEPT ![d] = t] /\ state' = [state EXCEPT ![d] = "PENDING"]
    /\ Hand(t, {d}, FALSE)
    /\ UNCHANGED requested

\* Accepted while PENDING, any number of times.
Request(d, t) ==
    /\ state[d] = "PENDING" /\ owner[d] = t
    /\ requested' = requested \cup {d}
    /\ UNCHANGED <<owner, state, handed>>

Read(t, docs, file) == Hand(t, docs, file) /\ UNCHANGED <<owner, state, requested>>

\* Rendering goes on; whoever looks seldom sees a document skip a state.
Advance ==
    /\ state' \in [Documents -> DOMAIN Rank]
    /\ \A d \in Documents : state'[d] # state[d] => d \in requested /\ Rank[state[d]] < Rank[state'[d]]
    /\ UNCHANGED <<owner, requested, handed>>

\* A store that is lost is lost whole.
Forget == owner' = [d \in Documents |-> None] /\ state' = [d \in Documents |-> "none"]
          /\ requested' = {} /\ UNCHANGED handed

Next ==
    \/ \E d \in Documents, t \in Tenants : Create(d, t) \/ Request(d, t)
    \/ \E t \in Tenants, docs \in SUBSET Documents, file \in BOOLEAN : Read(t, docs, file)
    \/ Advance \/ Forget

Spec == Init /\ [][Next]_lifecycleVars
=============================================================================
