---------------------------- MODULE EventColumn ----------------------------
(***************************************************************************)
(* 5dfe012ad560 copies alert.event, row by row, into columns of its own;   *)
(* 2b4dd4b88121, next in the same walk, drops it.  The copying takes only  *)
(* rows that nobody has locked and ends when it finds none, whatever it    *)
(* has passed over; it commits by hand, after which the rest of the walk   *)
(* is rolled back (KeepMigrate, "orphan").  The application's old code     *)
(* inserts alerts, and refers to them by foreign key, meanwhile.           *)
(* Processes run one at a time, as KeepMigrate shows.                      *)
(***************************************************************************)
EXTENDS Naturals, FiniteSets

CONSTANTS
  Alerts,      \* the rows of alert there may come to be
  Batch,       \* BATCH_SIZE
  MaxKills     \* bound: processes killed

ASSUME EventAssumption ==
  /\ IsFiniteSet(Alerts)
  /\ Batch \in Nat \ {0} /\ MaxKills \in Nat

VARIABLES
  row,      \* row[a]: "none", "raw" (event and no extra_data), "copied"
  held,     \* rows a transaction of the application has inserted or locked
  event,    \* the column is there
  stamped,  \* 0: e4ad6ddc7e90, 2: both revisions after it
  pc,       \* where the process is
  mode,     \* of its transaction, as in KeepMigrate
  batch,    \* rows copied in it and not committed
  locked,   \* it holds ACCESS EXCLUSIVE on alert
  kills

vars == <<row, held, event, stamped, pc, mode, batch, locked, kills>>

Labels == {"idle", "alter", "loop", "commit", "drop", "end"}

(* There are alerts already, and the column, for years. *)
Init ==
  /\ row \in [Alerts -> {"none", "raw"}]
  /\ held = {}
  /\ event = TRUE /\ stamped = 0
  /\ pc = "idle" /\ mode = "txn" /\ batch = {} /\ locked = FALSE
  /\ kills = 0

-----------------------------------------------------------------------------
(* The application *)

(***************************************************************************)
(* An insert, or a lock on the row (FOR KEY SHARE, of a foreign key to     *)
(* it): either waits for a table lock, and neither row is seen by a        *)
(* SELECT ... FOR UPDATE SKIP LOCKED until the transaction is over.        *)
(***************************************************************************)
Touch(a) ==
  /\ event /\ ~locked /\ a \notin held
  /\ held' = held \cup {a}
  /\ row' = [row EXCEPT ![a] = IF @ = "none" THEN "raw" ELSE @]
  /\ UNCHANGED <<event, stamped, pc, mode, batch, locked, kills>>

Release(a) ==
  /\ a \in held
  /\ held' = held \ {a}
  /\ UNCHANGED <<row, event, stamped, pc, mode, batch, locked, kills>>

-----------------------------------------------------------------------------
(* The process *)

Start ==
  /\ pc = "idle" /\ stamped = 0
  /\ pc' = "alter" /\ mode' = "txn"
  /\ UNCHANGED <<row, held, event, stamped, batch, locked, kills>>

(* Mutant: without the "idempotent guard" there is no ALTER TABLE. *)
AlterNot ==
  /\ pc = "alter"
  /\ pc' = "loop"
  /\ UNCHANGED <<row, held, event, stamped, mode, batch, locked, kills>>

(* ADD COLUMN IF NOT EXISTS: takes the lock even where the column exists. *)
Alter ==
  /\ pc = "alter" /\ held = {}
  /\ locked' = TRUE /\ pc' = "loop"
  /\ UNCHANGED <<row, held, event, stamped, mode, batch, kills>>

(* What the SELECT of the batch may take: LIMIT without ORDER BY. *)
Free == {a \in Alerts : row[a] = "raw"} \ held

Takes(b) ==
  /\ b \subseteq Free
  /\ Cardinality(b) = IF Cardinality(Free) < Batch THEN Cardinality(Free) ELSE Batch

(* One turn of the loop; rowcount = 0 leaves it. *)
CopyBatch ==
  /\ pc = "loop"
  /\ \E b \in SUBSET Alerts :
       /\ Takes(b)
       /\ batch' = b
       /\ pc' = IF b = {} THEN "drop" ELSE "commit"
  /\ UNCHANGED <<row, held, event, stamped, mode, locked, kills>>

Copied == [a \in Alerts |-> IF a \in batch THEN "copied" ELSE row[a]]

(* Mutant: as an autocommit_block, which gives alembic its transaction back. *)
CommitInBlock ==
  /\ pc = "commit"
  /\ row' = Copied /\ batch' = {}
  /\ locked' = FALSE
  /\ pc' = "loop"
  /\ UNCHANGED <<held, event, stamped, mode, kills>>

(* conn.commit() *)
Commit ==
  /\ pc = "commit"
  /\ row' = Copied /\ batch' = {}
  /\ locked' = FALSE /\ mode' = "orphan"
  /\ pc' = "loop"
  /\ UNCHANGED <<held, event, stamped, kills>>

(* 2b4dd4b88121: DROP COLUMN waits for everybody. *)
Drop ==
  /\ pc = "drop"
  /\ locked \/ held = {}
  /\ locked' = TRUE /\ pc' = "end"
  /\ UNCHANGED <<row, held, event, stamped, mode, batch, kills>>

(* Mutant: conn.commit() comes before the check of rowcount. *)
EndRolledBack ==
  /\ pc = "end"
  /\ UNCHANGED <<event, stamped>>
  /\ locked' = FALSE /\ pc' = "idle"
  /\ UNCHANGED <<row, held, mode, batch, kills>>

(* The walk is committed with both restamps, or is rolled back with them. *)
End ==
  /\ pc = "end"
  /\ event' = (event /\ mode = "orphan")
  /\ stamped' = IF mode = "orphan" THEN stamped ELSE 2
  /\ locked' = FALSE /\ pc' = "idle"
  /\ UNCHANGED <<row, held, mode, batch, kills>>

(* Mutant: what was not committed comes back. *)
KillForgetsNothing ==
  /\ pc # "idle" /\ kills < MaxKills
  /\ kills' = kills + 1
  /\ locked' = FALSE /\ pc' = "idle"
  /\ UNCHANGED <<row, held, event, stamped, mode, batch>>

(* Killed: the server rolls back, or completes a COMMIT under way. *)
Kill ==
  /\ pc # "idle" /\ kills < MaxKills
  /\ kills' = kills + 1
  /\ row' \in {row} \cup (IF pc = "commit" THEN {Copied} ELSE {})
  /\ batch' = {} /\ locked' = FALSE /\ pc' = "idle"
  /\ UNCHANGED <<held, event, stamped, mode>>

-----------------------------------------------------------------------------
Process == Start \/ Alter \/ CopyBatch \/ Commit \/ Drop \/ End

Next == Process \/ Kill \/ \E a \in Alerts : Touch(a) \/ Release(a)

Spec == Init /\ [][Next]_vars

-----------------------------------------------------------------------------
(* Properties *)

(* Every variable stays in its range; a batch is there to be committed. *)
TypeOK ==
  /\ row \in [Alerts -> {"none", "raw", "copied"}]
  /\ held \in SUBSET Alerts /\ batch \in SUBSET Alerts
  /\ event \in BOOLEAN /\ stamped \in {0, 2}
  /\ pc \in Labels /\ mode \in {"txn", "orphan"} /\ locked \in BOOLEAN
  /\ kills \in 0..MaxKills
  /\ batch # {} => pc = "commit"

(***************************************************************************)
(* The column never goes while a row is not copied, although the copying   *)
(* passes over locked rows.  What keeps it so is nothing the scripts say:  *)
(* the ALTER TABLE that does nothing locks everybody out until the first   *)
(* conn.commit(), and after that commit the DROP is rolled back.           *)
(***************************************************************************)
EventKept == ~event => \A a \in Alerts : row[a] # "raw"

(***************************************************************************)
(* A walk that copies anything is lost beyond the copying, but syncs that  *)
(* start and end again and again get past the two revisions at last, where *)
(* alerts stop coming: one of them finds nothing to copy.                  *)
(***************************************************************************)
SyncsGetThere ==
  (([]<>(pc # "idle")) /\ ([]<>(pc = "idle"))) => <>(stamped = 2)
=============================================================================
