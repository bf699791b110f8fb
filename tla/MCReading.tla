------------------------------ MODULE MCReading -----------------------------
(***************************************************************************)
(* The window that the limiter keeps for a tenant, and the follow that     *)
(* spends what the limiter says is left of it, on one small instance each. *)
(* The two share no variable, so a behaviour walks one of them, chosen at  *)
(* the start, while the other rests.                                       *)
(***************************************************************************)
EXTENDS RateLimiter, Follow, TLC

VARIABLE part       \* the part this behaviour is about

readingVars == <<part, vars, followVars>>

ReadingInit == part \in {"limiter", "follow"} /\ Init /\ FollowInit

LimiterStep == part = "limiter" /\ Next /\ UNCHANGED <<part, followVars>>
FollowStep == part = "follow" /\ FollowNext /\ UNCHANGED <<part, vars>>

ReadingNext == LimiterStep \/ FollowStep

ReadingSpec == ReadingInit /\ [][ReadingNext]_readingVars

\* Both parts' types and invariants of their own.
ReadingOK == TypeOK /\ FollowTypeOK

\* Calls are alike.
CallsSymmetric == Permutations(Calls)
=============================================================================
