--------------------------- MODULE MCPreSyncHook ---------------------------
(***************************************************************************)
(* Instances of PreSyncHook for TLC: three releases of two revisions each. *)
(* The third takes away what the first declares, as e2b3c4d5f6a7 and       *)
(* drop_alertenrichment do once no image that serves declares it.          *)
(***************************************************************************)
EXTENDS PreSyncHookInv

ThreeReleases == 1..3
BuiltAt  == [i \in 1..3 |-> 2 * i]
KeptTill == [i \in 1..3 |-> IF i = 1 THEN 4 ELSE 6]
=============================================================================
