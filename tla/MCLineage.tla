------------------------------ MODULE MCLineage ------------------------------
(***************************************************************************)
(* The targets operators choose, for TLC.                                  *)
(***************************************************************************)
EXTENDS Lineage

Named(ids) == {r \in HistoryRev : History[r].id \in ids}

(***************************************************************************)
(* 59991b568c7d and every revision after it: the lowest target a database  *)
(* at the tip can be rolled back to and rolled out again, for its own      *)
(* downgrade is empty and 0dafe96ea97f's below it raises.                  *)
(***************************************************************************)
Releases == {r \in HistoryRev : \E f \in Named({"59991b568c7d"}) : f <= r}

(* One that lies below 0dafe96ea97f, whose downgrade raises. *)
TooFar == Named({"e663a98b1142", "derive_alert_suppression"})
=============================================================================
