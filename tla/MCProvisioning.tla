--------------------------- MODULE MCProvisioning ---------------------------
(* Provisioning for TLC: an old and a new instance, whose changelogs differ  *)
(* by one change set.  Two creations exhaust the old one's pool.             *)
EXTENDS Provisioning

CONSTANTS old, new

MCVersion == [i \in Instances |-> IF i = old THEN 1 ELSE 2]
MCPoolSize == [i \in Instances |-> IF i = old THEN 2 ELSE 3]
=============================================================================
