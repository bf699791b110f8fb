---------------------------- MODULE RateLimiter ----------------------------
(***************************************************************************)
(* The sliding window of one tenant: a Redis sorted set, the script that   *)
(* prunes, counts and adds in one step (RateLimiterService), and the       *)
(* filter that turns its answer into a passed request, a 429 or a 503      *)
(* (RateLimitFilter).  Another tenant's window is another key; a request   *)
(* without a tenant never asks.                                            *)
(*                                                                         *)
(* The script runs without interleaving, on Redis's own clock, once for    *)
(* every time the client's command reaches it: after the caller's timeout  *)
(* too, and a second time when the driver reconnects before the answer and *)
(* sends the command again.                                                *)
(***************************************************************************)
EXTENDS Integers, Sequences, FiniteSetsExt

CONSTANTS
    Calls,          \* requests of the tenant; each draws a UUID, its member of the set
    Limit,          \* requests per window, 20 unless configured
    Window,         \* length of the window in ticks of Redis's clock, 60 000 ms in the code
    Second,         \* ticks in a second
    MaxTime,        \* bound on the clock
    MaxResends,     \* bound on commands that reach Redis a second time
    MaxRestarts     \* bound on restarts of Redis

ASSUME CallsAssumption == IsFiniteSet(Calls)
ASSUME WindowAssumption == Limit \in Nat /\ Window \in Nat \ {0} /\ Second \in Nat \ {0}
ASSUME BoundsAssumption == MaxTime \in Nat /\ MaxResends \in Nat /\ MaxRestarts \in Nat

VARIABLES
    now,            \* Redis's clock
    members,        \* the sorted set: its members,
    score,          \*   and their scores, 0 for a call that is no member
    expireAt,       \* when the key expires
    call,           \* how far each request got
    runs,           \* every run of the script so far, with what it returned
    restarts,       \* restarts of Redis so far
    since           \* runs before the last of them

vars == <<now, members, score, expireAt, call, runs, restarts, since>>

-----------------------------------------------------------------------------
(* The script.                                                             *)

\* Redis hides a key that has expired.
Stored == IF now > expireAt THEN {} ELSE members

\* ZREMRANGEBYSCORE -inf .. now - window: the bound is inclusive.
Kept == {c \in Stored : score[c] + Window > now}

\* Broken variant: one more than the limit.
AdmittedOneMore == Cardinality(Kept) <= Limit

Admitted == Cardinality(Kept) < Limit

\* Broken variant: only with the one that creates the key.
ExpiryOfFirst == IF Kept = {} THEN now + Window ELSE expireAt

\* PEXPIRE, with every member that is added.
Expiry == IF Admitted THEN now + Window ELSE expireAt

\* The count the script returns.  A member that is added again is counted twice.
Count == Cardinality(Kept) + (IF Admitted THEN 1 ELSE 0)

\* The oldest score of a set, or the time if it is empty.
Oldest(S, scores) == IF S = {} THEN now ELSE Min({scores[c] : c \in S})

\* Broken variant: what was left before this request.
RemainingBefore(count) == Max({0, Limit - count + 1})

\* RateLimitDecision: what is left, and the seconds until the oldest request
\* leaves the window, rounded up, never 0.
Remaining(count) == Max({0, Limit - count})

\* Broken variant: rounded down.
ResetRoundedDown(oldest) == Max({1, Max({0, oldest + Window - now}) \div Second})

Reset(oldest) ==
    Max({1, (Max({0, oldest + Window - now}) + Second - 1) \div Second})

RunsOf(c) == {i \in 1..Len(runs) : runs[i].call = c}

\* The command of c reaches Redis: for the first time, even if nobody waits for
\* the answer any more, or again while somebody does.
Resends == Len(runs) - Cardinality({runs[i].call : i \in 1..Len(runs)})
Reaches(c) ==
    \/ call[c] \in {"asking", "unavailable"} /\ RunsOf(c) = {}
    \/ call[c] = "asking" /\ Resends < MaxResends

RunScript(c) ==
    LET newMembers == IF Admitted THEN Kept \cup {c} ELSE Kept
        newScore == [d \in Calls |-> IF d = c /\ Admitted THEN now
                                     ELSE IF d \in Kept THEN score[d] ELSE 0]
    IN  /\ Reaches(c)
        /\ members' = newMembers
        /\ score' = newScore
        /\ expireAt' = Expiry
        /\ runs' = Append(runs, [call |-> c, at |-> now, allowed |-> Admitted,
                                 remaining |-> Remaining(Count),
                                 reset |-> Reset(Oldest(newMembers, newScore))])
        /\ UNCHANGED <<now, call, restarts, since>>

-----------------------------------------------------------------------------
(* The filter.  A request that has not come yet is one whose command has   *)
(* not reached Redis: nothing happens before the filter asks.              *)

\* The answer to the last run arrives: the request is handed on, or a 429.
Answer(c) ==
    /\ call[c] = "asking"
    /\ RunsOf(c) # {}
    /\ call' = [call EXCEPT ![c] = IF runs[Max(RunsOf(c))].allowed THEN "passed" ELSE "refused"]
    /\ UNCHANGED <<now, members, score, expireAt, runs, restarts, since>>

\* No answer within the timeout, or a broken connection: the limit fails closed,
\* with a 503, whether or not the script ran.
Unavailable(c) ==
    /\ call[c] = "asking"
    /\ call' = [call EXCEPT ![c] = "unavailable"]
    /\ UNCHANGED <<now, members, score, expireAt, runs, restarts, since>>

-----------------------------------------------------------------------------
(* Redis.                                                                  *)

Tick ==
    /\ now < MaxTime
    /\ now' = now + 1
    /\ UNCHANGED <<members, score, expireAt, call, runs, restarts, since>>

\* Redis comes back with what its last snapshot held of the set.
Restart ==
    /\ restarts < MaxRestarts
    /\ restarts' = restarts + 1
    /\ \E saved \in SUBSET members :
         /\ members' = saved
         /\ score' = [c \in Calls |-> IF c \in saved THEN score[c] ELSE 0]
    /\ since' = Len(runs)
    /\ UNCHANGED <<now, expireAt, call, runs>>

-----------------------------------------------------------------------------
Init ==
    /\ now = 0
    /\ members = {}
    /\ score = [c \in Calls |-> 0]
    /\ expireAt = 0
    /\ call = [c \in Calls |-> "asking"]
    /\ runs = <<>>
    /\ restarts = 0
    /\ since = 0

Next ==
    \/ \E c \in Calls : RunScript(c) \/ Answer(c) \/ Unavailable(c)
    \/ Tick
    \/ Restart

Spec == Init /\ [][Next]_vars

-----------------------------------------------------------------------------
(* Properties.                                                             *)

Run == [call : Calls, at : Nat, allowed : BOOLEAN, remaining : Nat, reset : Nat]

\* Type invariant: no score and no run lies in the future, no more is stored than
\* the limit, and the key outlives its members' stay in the window.
TypeOK ==
    /\ now \in Nat
    /\ members \subseteq Calls
    /\ score \in [Calls -> Nat]
    /\ expireAt \in Nat
    /\ call \in [Calls -> {"asking", "passed", "refused", "unavailable"}]
    /\ runs \in Seq(Run)
    /\ restarts \in Nat
    /\ since \in 0..Len(runs)
    /\ \A c \in Calls : score[c] <= now
    /\ \A c \in members : score[c] + Window <= expireAt
    /\ Cardinality(members) <= Limit
    /\ \A i \in 1..Len(runs) : runs[i].at <= now

\* The requests the script admitted in the window that starts at t, since Redis
\* last restarted.
AdmittedIn(t) ==
    {c \in Calls : \E i \in (since + 1)..Len(runs) :
                     /\ runs[i].call = c
                     /\ runs[i].allowed
                     /\ t <= runs[i].at
                     /\ runs[i].at < t + Window}

\* One window for all instances, exact and not approximated by buckets: whatever
\* minute one looks at, no more than Limit requests were admitted in it, however
\* many calls, timeouts and repeated commands were under way.
SlidingWindow == \A t \in 0..now : Cardinality(AdmittedIn(t)) <= Limit

\* RateLimit-Remaining never promises too much: before anybody is refused after
\* a run that announced n requests left, n others were admitted.
RemainingIsKept ==
    \A i, j \in 1..Len(runs) :
      i < j /\ ~runs[j].allowed =>
        runs[i].remaining <=
          Cardinality({runs[k].call : k \in {k \in (i + 1)..j : runs[k].allowed}})

\* The requests that hold a slot of the window and did so at time t.
HeldSince(t) == {c \in members : score[c] <= t /\ score[c] + Window > now}

\* The last run that admitted the call of run j before run i.
LastBefore(j, i) ==
    /\ runs[j].allowed
    /\ \A k \in (j + 1)..i : runs[k].call # runs[j].call \/ ~runs[k].allowed

\* Retry-After is neither short nor long: when the seconds of a 429 are over, a
\* slot that was taken then is free, unless others took it after, and until
\* the last of those seconds none of the slots taken then had left the window.
RetryAfterFreesASlot ==
    \A i \in (since + 1)..Len(runs) : ~runs[i].allowed =>
      /\ now >= runs[i].at + runs[i].reset * Second =>
           Cardinality(HeldSince(runs[i].at)) < Limit
      /\ \A j \in (since + 1)..(i - 1) :
           LastBefore(j, i) /\ runs[j].at + Window > runs[i].at =>
             runs[j].at + Window > runs[i].at + (runs[i].reset - 1) * Second
=============================================================================
