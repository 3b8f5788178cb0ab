---------------------------- MODULE ConvergeSpec ----------------------------
(***************************************************************************)
(* What the project promises of a database, and nothing about how: which   *)
(* revisions are applied changes only by converging on the target of one   *)
(* of the command lines it is run with, whole walks at a time              *)
(* (migration-job.yaml: "in ONE transaction"), and backwards only with     *)
(* --allow-destructive.  No process, lock, row of alembic_version or fault *)
(* is visible at this level.                                               *)
(***************************************************************************)
EXTENDS RevisionMap

CONSTANTS Requests, Stamps

VARIABLE applied   \* the revisions the database has

Init == \E rows \in Stamps : applied = Applied(rows)

(* A release. *)
Advance(t) == applied' = applied \cup Anc[t]

(* A rollback keeps t, and what a branch parallel to t has. *)
Retreat(t) == t \in applied /\ applied' = applied \ Above(t)

(* Some of a release, as far as a crash between two of its commits let it. *)
AdvancePartly(t) ==
  /\ applied \subseteq applied' /\ applied' \subseteq applied \cup Anc[t]
  /\ \A r \in applied' : Anc[r] \subseteq applied'

RetreatPartly(t) ==
  /\ t \in applied
  /\ applied' \subseteq applied /\ applied \ Above(t) \subseteq applied'
  /\ \A r \in applied' : Anc[r] \subseteq applied'

Converge(q) ==
  LET t == Resolve(q.image, q.target) IN
  /\ q.cmd = "run" /\ t # NONE
  /\ Advance(t) \/ (q.allow /\ Retreat(t))

ConvergePartly(q) ==
  LET t == Resolve(q.image, q.target) IN
  /\ q.cmd = "run" /\ t # NONE
  /\ AdvancePartly(t) \/ (q.allow /\ RetreatPartly(t))

(* One transaction per walk. *)
Spec == Init /\ [][\E q \in Requests : Converge(q)]_applied

(* What is left of it when scripts commit on their own. *)
PartlySpec == Init /\ [][\E q \in Requests : ConvergePartly(q)]_applied
=============================================================================
