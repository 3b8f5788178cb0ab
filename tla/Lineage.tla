------------------------------- MODULE Lineage -------------------------------
(***************************************************************************)
(* The scripts of this repository walked up and down by runs of the CLI on *)
(* one PostgreSQL database.  KeepMigrate has the processes, the lock and   *)
(* the faults over scripts of a few kinds; here there is one process at a  *)
(* time (OneWalker) and no fault, and the scripts are the real ones: what  *)
(* fails is what cannot run on the catalog it finds.  The database holds   *)
(* no rows, so a script that fails on its data runs here.                  *)
(***************************************************************************)
EXTENDS Scripts, Naturals, Sequences

CONSTANT Targets   \* what operators pass as --target

-----------------------------------------------------------------------------
(* The revision map a history is: a script's number is its place. *)
DownOf(history) ==
  [r \in DOMAIN history |->
     {d \in DOMAIN history : history[d].id \in history[r].parents}]

AncOf(down) ==
  LET anc[n \in 0..Len(down)] ==
        IF n = 0 THEN <<>>
        ELSE LET below == anc[n-1]
             IN  Append(below, {n} \cup UNION {below[d] : d \in down[n]})
  IN  anc[Len(down)]

HistoryRev  == DOMAIN History
HistoryDown == DownOf(History)
HistoryAnc  == AncOf(HistoryDown)

INSTANCE RevisionMap WITH Rev <- HistoryRev, Down <- HistoryDown, Anc <- HistoryAnc

(***************************************************************************)
(* It is one: what RevisionMap assumes of its constants, and what the      *)
(* proof that alembic_version holds the tips asks of merges.               *)
(***************************************************************************)
ASSUME HistoryAssumption ==
  /\ Targets \subseteq HistoryRev
  /\ Len(History) \in Nat /\ HistoryRev = 1..Len(History)
  /\ HistoryAnc \in [HistoryRev -> SUBSET HistoryRev]
  /\ \A r \in HistoryRev :
       /\ {History[d].id : d \in HistoryDown[r]} = History[r].parents
       /\ \A d \in HistoryDown[r] : d < r
       /\ HistoryAnc[r] = {r} \cup UNION {HistoryAnc[d] : d \in HistoryDown[r]}
  /\ ShortcutsImplied

(***************************************************************************)
(* And how scripts are written: an edit makes objects, and drops no table  *)
(* it makes something for.                                                 *)
(***************************************************************************)
ASSUME EditsAssumption ==
  \A r \in HistoryRev : \A edits \in {History[r].up, History[r].back} :
    /\ Len(edits) \in Nat
    /\ \A i \in 1..Len(edits) : \A o \in edits[i].makes :
         /\ Len(o) \in 1..4 /\ (Len(o) = 1 => o = <<o[1]>>)
         /\ <<o[1]>> \notin edits[i].drops
         /\ Len(o) = 4 => <<o[4]>> \notin edits[i].drops

-----------------------------------------------------------------------------
VARIABLES
  rows,     \* alembic_version
  schema,   \* the catalog
  stuck     \* the step the last run failed at: its way and its revision

vars == <<rows, schema, stuck>>

NoStep == <<>>

-----------------------------------------------------------------------------
(* Whether the database accepts edit e of the catalog c. *)
Fits(e, c) ==
  /\ e.needs \subseteq c
  /\ e.bars \cap c = {}
  /\ \A o \in e.makes :
       /\ Len(o) > 1 => <<o[1]>> \in c \cup e.makes
       /\ Len(o) = 4 => <<o[4]>> \in c \cup e.makes
  /\ \A o \in c : Len(o) = 4 /\ <<o[4]>> \in e.drops => <<o[1]>> \in e.drops

(* Mutant: what belongs to a dropped table stays. *)
EditedAlone(e, c) == (c \ e.drops) \cup e.makes

(* A dropped table takes along all that belongs to it. *)
Edited(e, c) ==
  {o \in c : o \notin e.drops /\ <<o[1]>> \notin e.drops} \cup e.makes

(* A script after one edit more, if all have fitted or may be passed over. *)
Continued(e, at) ==
  IF at.fits /\ Fits(e, at.schema)
  THEN [fits |-> TRUE, schema |-> Edited(e, at.schema)]
  ELSE [fits |-> at.fits /\ ~e.must, schema |-> at.schema]

(* One script, up to its end or to the first edit that does not fit. *)
Executed(edits, c) ==
  LET after[n \in 0..Len(edits)] ==
        IF n = 0 THEN [fits |-> TRUE, schema |-> c]
        ELSE Continued(edits[n], after[n-1])
  IN  after[Len(edits)]

Blocks(way, script) ==
  \/ script.commits = "block"
  \/ way = "upgrade" /\ script.commits = "block up"

(* After its own COMMIT a script's driver sends no BEGIN: each statement   *)
(* commits by itself, until a block ends with a new transaction.           *)
Alone(way, script, at) ==
  \/ at.alone /\ ~Blocks(way, script)
  \/ way = "upgrade" /\ script.commits = "raw"

(* What is committed when a script has run and its row is stamped, ran and *)
(* stamped being the catalog and the rows then.  An autocommit block       *)
(* commits what came before it and itself; the row that is stamped next    *)
(* belongs to a new transaction.                                           *)
Saved(way, script, at, ran, stamped) ==
  IF Alone(way, script, at) THEN [rows |-> stamped, schema |-> ran]
  ELSE IF Blocks(way, script) THEN [rows |-> at.rows, schema |-> ran]
  ELSE at.saved

(***************************************************************************)
(* One revision of a walk.  at.rows and at.schema are what the walk's      *)
(* transaction sees, at.saved what it has committed.  Where statements     *)
(* commit by themselves, those before the one that fails are committed,    *)
(* and so are the revisions crossed before.                                *)
(***************************************************************************)
Crossed(way, r, script, at, ran, stamped) ==
  IF ran.fits
  THEN [rows |-> stamped, schema |-> ran.schema, stuck |-> NoStep,
        alone |-> Alone(way, script, at),
        saved |-> Saved(way, script, at, ran.schema, stamped)]
  ELSE [at EXCEPT !.stuck = <<way, r>>,
                  !.saved = IF Alone(way, script, at) \/ Blocks(way, script)
                            THEN [rows |-> at.rows, schema |-> ran.schema]
                            ELSE @]

EditsOf(way, script) == IF way = "upgrade" THEN script.up ELSE script.back

Cross(way, r, at) ==
  Crossed(way, r, History[r], at,
          Executed(EditsOf(way, History[r]), at.schema),
          Restamp(way, at.rows, r))

(***************************************************************************)
(* A walk passes every revision of the history, parents first on the way   *)
(* up, and runs those of its path, up to the one that fails.  The history  *)
(* is passed in stretches: one recursion over all of it is too deep for    *)
(* TLC.                                                                    *)
(***************************************************************************)
Stretch == 12
Stretches == Len(History) \div Stretch + 1

Nth(way, n) == IF way = "upgrade" THEN n ELSE Len(History) + 1 - n

Passed(way, path, n, at) ==
  LET r == Nth(way, n)
  IN  IF at.stuck = NoStep /\ r \in path THEN Cross(way, r, at) ELSE at

(* The k-th stretch, from at. *)
Along(way, path, k, at) ==
  LET on[i \in 0..Stretch] ==
        IF i = 0 THEN at ELSE Passed(way, path, Stretch * (k-1) + i, on[i-1])
  IN  IF at.stuck = NoStep THEN on[Stretch] ELSE at

Departure(rs, c) ==
  [rows |-> rs, schema |-> c, saved |-> [rows |-> rs, schema |-> c],
   alone |-> FALSE, stuck |-> NoStep]

(* A walk over path from a database with these rows and this catalog. *)
Walked(way, path, rs, c) ==
  LET after[k \in 0..Stretches] ==
        IF k = 0 THEN Departure(rs, c) ELSE Along(way, path, k, after[k-1])
  IN  after[Stretches]

-----------------------------------------------------------------------------
(* get_db_revision takes the first row the server returns. *)
Readings == IF rows = {} THEN {NONE} ELSE rows

(* A walk that ends commits all of it, one that fails keeps what it had    *)
(* committed.                                                              *)
Settle(end) ==
  LET kept == IF end.stuck = NoStep THEN end ELSE end.saved
  IN  /\ rows'   = kept.rows
      /\ schema' = kept.schema
      /\ stuck'  = end.stuck

Run(way, t) ==
  \/ /\ way \in {"upgrade", "downgrade"}
     /\ Settle(Walked(way, Path(way, rows, t), rows, schema))
  \/ /\ way = "converged"
     /\ stuck' = NoStep
     /\ UNCHANGED <<rows, schema>>

(***************************************************************************)
(* keep-migrate --target t --allow-destructive, from the reading to the    *)
(* exit.  A divergent target is refused and changes nothing.               *)
(***************************************************************************)
Converge(t) == \E row \in Readings : Run(Direction(HistoryRev, row, t), t)

Init ==
  /\ rows = {}
  /\ schema = {}
  /\ stuck = NoStep

Next == \E t \in Targets : Converge(t)

Spec == Init /\ [][Next]_vars

-----------------------------------------------------------------------------
(* Nothing in a catalog belongs or refers to a table that is not there. *)
WellBuilt(c) ==
  \A o \in c :
    /\ Len(o) \in 1..4
    /\ <<o[1]>> \in c
    /\ Len(o) = 4 => <<o[4]>> \in c

(***************************************************************************)
(* The rows are revisions of the map, a failed run names one, and no walk  *)
(* leaves a catalog with a loose end: what a DROP TABLE takes along, and   *)
(* what its foreign keys keep it from taking.                              *)
(***************************************************************************)
TypeOK ==
  /\ rows \subseteq HistoryRev
  /\ stuck # NoStep =>
       stuck[1] \in {"upgrade", "downgrade"} /\ stuck[2] \in HistoryRev
  /\ WellBuilt(schema)

(***************************************************************************)
(* Whatever was walked, alembic_version holds the tips of what is applied: *)
(* HeadMaintainer's merging and unmerging of rows over the ten merges of   *)
(* the history, the redundant 90e3eababbf0 among them.                     *)
(***************************************************************************)
RowsAreTips == rows = Tips(Applied(rows))

(***************************************************************************)
(* The scripts change which revisions are applied as ConvergeSpec says: a  *)
(* run, one that fails at a script too, moves the database towards its     *)
(* target and nowhere else, and leaves no revision without those it stands *)
(* on.                                                                     *)
(***************************************************************************)
Commands ==
  [cmd : {"run"}, image : {HistoryRev}, target : Targets, allow : {TRUE}]

Whole == INSTANCE ConvergeSpec
           WITH Rev <- HistoryRev, Down <- HistoryDown, Anc <- HistoryAnc,
                Requests <- Commands, Stamps <- {{}}, applied <- Applied(rows)

WalksTowardsTarget == Whole!PartlySpec

(***************************************************************************)
(* A run that exits 0 went the whole way: alembic_version says that all of *)
(* a target is applied and, after a rollback, nothing built on it,         *)
(* whatever merges and branches the walk crossed.                          *)
(***************************************************************************)
ExitZeroIsThere ==
  [][stuck' = NoStep => \E q \in Commands : Whole!Converge(q)]_vars

(***************************************************************************)
(* No walk meets a catalog one of its scripts cannot run on: a downgrade() *)
(* undoes enough of its upgrade() for that to run again, needs nothing an  *)
(* earlier walk has lost, and no script needs what a parallel branch makes.*)
(***************************************************************************)
EveryWalkRuns == stuck = NoStep

(***************************************************************************)
(* What /readyz compares, and the indexes: after a run that exits 0, by    *)
(* whatever way the database came there, its tables, columns and indexes   *)
(* are those of a fresh database built from the revisions it is stamped    *)
(* with, so that a release can be rolled back and rolled out again.        *)
(***************************************************************************)
Shape(c) == {o \in c : Len(o) \in {1, 2} \/ o[3] = "index"}

ConvergedIsBuilt ==
  stuck = NoStep =>
    Shape(schema) = Shape(Walked("upgrade", Applied(rows), {}, {}).schema)
=============================================================================
