------------------------------ MODULE MCServer ------------------------------
(***************************************************************************)
(* The schemas the application's threads work in, and the generations they *)
(* are asked for, on one small instance each.  The two share no variable,  *)
(* so a behaviour walks one of them, chosen at the start, while the other  *)
(* rests: their product would show nothing that the parts do not.          *)
(***************************************************************************)
EXTENDS MCTenancy, MCGeneration

VARIABLE part       \* the part this behaviour is about

serverVars == <<part, tenancyVars, vars>>

ServerInit == part \in {"tenancy", "generation"} /\ TenancyInit /\ Init

TenancyStep == part = "tenancy" /\ TenancyNext /\ UNCHANGED <<part, vars>>
GenerationStep == part = "generation" /\ Next /\ UNCHANGED <<part, tenancyVars>>

\* Bounded faults bring a generation to rest; the threads of a pool never rest.
GenerationRests == part = "generation" /\ UNCHANGED serverVars

ServerNext == TenancyStep \/ GenerationStep \/ GenerationRests

ServerSpec == ServerInit /\ [][ServerNext]_serverVars

\* Both parts' types and invariants of their own.
ServerOK == TenancyTypeOK /\ TypeOK
=============================================================================
