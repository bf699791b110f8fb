----------------------------- MODULE MCFollowed -----------------------------
(***************************************************************************)
(* The life of a generation on both sides of the network, on one small     *)
(* instance each: the requests the worker settles, and the follow that     *)
(* reads a document back.  The two share no variable, so a behaviour walks *)
(* one of them, chosen at the start, while the other rests, and owes the   *)
(* fairness of the one it walks.                                           *)
(***************************************************************************)
EXTENDS MCGeneration, Follow

VARIABLE part       \* the part this behaviour is about

followedVars == <<part, vars, followVars>>

FollowedInit == part \in {"generation", "follow"} /\ Init /\ FollowInit

GenerationStep == part = "generation" /\ Next /\ UNCHANGED <<part, followVars>>
FollowStep == part = "follow" /\ FollowNext /\ UNCHANGED <<part, vars>>

FollowedNext == GenerationStep \/ FollowStep

\* A step of the generation, or of the follow, that its specification owes.
Polled(t, p) == part = "generation" /\ Poll(t, p) /\ UNCHANGED <<part, followVars>>
Worked(w) == part = "generation" /\ Work(w) /\ UNCHANGED <<part, followVars>>
Awaited == part = "follow" /\ Waited /\ UNCHANGED <<part, vars>>

FollowedSpec ==
    /\ FollowedInit
    /\ [][FollowedNext]_followedVars
    /\ \A t \in Topics, p \in Partitions : WF_followedVars(Polled(t, p))
    /\ \A w \in Workers : WF_followedVars(Worked(w))
    /\ WF_followedVars(Awaited)
=============================================================================
