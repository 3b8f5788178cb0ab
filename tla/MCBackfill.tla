----------------------------- MODULE MCBackfill -----------------------------
(***************************************************************************)
(* Instances of Backfill for TLC.                                          *)
(***************************************************************************)
EXTENDS Backfill

(***************************************************************************)
(* Dismissed until a date, with a note; assigned, with a status of the     *)
(* user's own and a dismissal for good, whose dismissUntil is no date;     *)
(* dismissed, with status and assignee there and empty; a dismissUntil     *)
(* that does not cast.                                                     *)
(***************************************************************************)
SomeSayings == {{"dismissed", "until", "note"},
                {"status", "dismissed", "untilText", "assignee"},
                {"dismissed", "noStatus", "noAssignee"},
                {"untilBad"}}
=============================================================================
