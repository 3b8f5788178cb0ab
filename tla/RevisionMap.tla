---------------------------- MODULE RevisionMap ----------------------------
(***************************************************************************)
(* The graph of migration scripts and the arithmetic the CLI does on it:   *)
(* which way to walk, which revisions a walk crosses, and how alembic      *)
(* moves the rows of alembic_version over one of them.                     *)
(*                                                                         *)
(* Revisions are numbered in the order alembic walks them, so a script's   *)
(* down_revision is a set of smaller numbers (a merge has two, the base    *)
(* none).  0 is free to stand for what is not a revision: the target name  *)
(* "head" and the reading of an unstamped database.                        *)
(***************************************************************************)
EXTENDS Naturals, FiniteSets

CONSTANTS
  Rev,    \* every revision ever written
  Down,   \* Down[r]: the down_revision of script r, as a set
  Anc     \* Anc[r]: r and all its ancestors

ASSUME RevAssumption == Rev \in SUBSET (Nat \ {0}) /\ IsFiniteSet(Rev)

ASSUME DownAssumption ==
  /\ Down \in [Rev -> SUBSET Rev]
  /\ \A r \in Rev : \A d \in Down[r] : d < r

(* Down is acyclic, so this has one solution: the reflexive ancestors. *)
ASSUME AncAssumption ==
  /\ Anc \in [Rev -> SUBSET Rev]
  /\ \A r \in Rev : Anc[r] = {r} \cup UNION {Anc[d] : d \in Down[r]}

HEAD == 0   \* the default of --target
NONE == 0   \* get_db_revision(): no alembic_version table, or an empty one

-----------------------------------------------------------------------------
(* The revisions a set of alembic_version rows says are applied. *)
Applied(rows) == UNION {Anc[r] : r \in rows}

(* The rows alembic_version holds when exactly the revisions S are applied. *)
Tips(S) == {r \in S : \A c \in S : r \notin Down[c]}

(* What is built on revision t. *)
Above(t) == {r \in Rev : t \in Anc[r] \ {r}}

(* No row implies another. *)
Antichain(rows) == \A a, b \in rows : a \in Anc[b] => a = b

(***************************************************************************)
(* A condition on the graph, for the proofs: a parent that another parent  *)
(* of the same script implies, as one of 90e3eababbf0's does, is implied   *)
(* by every row that can stand beside that script's.                       *)
(***************************************************************************)
ShortcutsImplied ==
  \A r \in Rev : \A d, e \in Down[r] :
    d \in Anc[e] \ {e} =>
      \A s \in Rev : s \in Anc[r] \/ r \in Anc[s] \/ d \in Anc[s]

(***************************************************************************)
(* An image is the set of scripts it ships.  "head" names its only tip;    *)
(* with two tips get_revision raises, as it does on a name the image does  *)
(* not have (NONE here: _resolve refuses).                                 *)
(***************************************************************************)
Resolve(image, target) ==
  IF target # HEAD
  THEN IF target \in image THEN target ELSE NONE
  ELSE IF \E h \in image : Tips(image) = {h}
       THEN CHOOSE h \in image : Tips(image) = {h}
       ELSE NONE

(***************************************************************************)
(* iterate_revisions raises on a descendant the image has never heard of,  *)
(* which _is_ancestor turns into False.                                    *)
(***************************************************************************)
IsAncestor(image, candidate, descendant) ==
  descendant \in image /\ candidate \in Anc[descendant]

(* Mutant: a database past the target will do. *)
DirectionNeverDown(image, row, target) ==
  IF row # NONE /\ IsAncestor(image, target, row) THEN "converged" ELSE "upgrade"

(* _direction; "divergent" is its final raise. *)
Direction(image, row, target) ==
  IF row = NONE THEN "upgrade"
  ELSE IF row = target THEN "converged"
  ELSE IF IsAncestor(image, row, target) THEN "upgrade"
  ELSE IF IsAncestor(image, target, row) THEN "downgrade"
  ELSE "divergent"

-----------------------------------------------------------------------------
(***************************************************************************)
(* The revisions alembic.command.upgrade / downgrade cross.  A downgrade   *)
(* to t undoes the applied descendants of t's children, and leaves what is *)
(* applied on a parallel branch alone.                                     *)
(***************************************************************************)
UpgradePath(rows, t) == Anc[t] \ Applied(rows)

DowngradePath(rows, t) ==
  {r \in Applied(rows) : \E c \in Anc[r] : t \in Down[c]}

(* Mutants: the walk is asked for head whatever the target; and for one    *)
(* revision less than the target on the way down.                          *)
PathToHead(way, rows, t) ==
  IF way = "upgrade" THEN Rev \ Applied(rows) ELSE DowngradePath(rows, t)

PathInclusive(way, rows, t) ==
  IF way = "upgrade" THEN UpgradePath(rows, t)
  ELSE {r \in Applied(rows) : t \in Anc[r]}

Path(way, rows, t) ==
  IF way = "upgrade" THEN UpgradePath(rows, t) ELSE DowngradePath(rows, t)

(* Mutant: in any order. *)
IsNextAny(way, path, r) == r \in path

(* r is the revision of path alembic runs next: parents first on the way up. *)
IsNext(way, path, r) ==
  /\ r \in path
  /\ \A q \in path : IF way = "upgrade" THEN r <= q ELSE q <= r

(* Mutant: parents another row implies are written again. *)
RowsDownAll(rows, r) == (rows \ {r}) \cup Down[r]

(* Mutant: a merge takes the place of one of its parents only. *)
RowsUpFirst(rows, r) ==
  (rows \ {d \in Down[r] : \A e \in Down[r] : d <= e}) \cup {r}

(***************************************************************************)
(* alembic's HeadMaintainer, one revision at a time: insert, update, merge *)
(* on the way up; delete, update, unmerge on the way down, where a parent  *)
(* some remaining row already implies is not written again.                *)
(***************************************************************************)
RowsUp(rows, r) == (rows \ Down[r]) \cup {r}

RowsDown(rows, r) ==
  LET others  == rows \ {r}
      implied == IF others # {} THEN Applied(others)
                 ELSE UNION {Anc[d] \ {d} : d \in Down[r]}
  IN  others \cup (Down[r] \ implied)

Restamp(way, rows, r) ==
  IF way = "upgrade" THEN RowsUp(rows, r) ELSE RowsDown(rows, r)
=============================================================================
