---------------------------- MODULE KeepMigrate ----------------------------
(***************************************************************************)
(* The keep-migrate process (keep_migrations/cli.py and runtime.py, run    *)
(* through migrations/env.py) as the PreSync Job starts it, several times  *)
(* and possibly at once, against one PostgreSQL database.                  *)
(*                                                                         *)
(* A process reads the stamped revision, takes the advisory lock, reads    *)
(* again, and has alembic walk the revision graph.  The lock is held by    *)
(* one database session of the process and the walk runs on another, so    *)
(* each can be lost without the other.                                     *)
(***************************************************************************)
EXTENDS RevisionMap

CONSTANTS
  Jobs,         \* the processes: each is one run of the Job
  Free,         \* "no session holds the advisory lock"
  Requests,     \* the command lines a sync may give: see RequestType
  Stamps,       \* the contents alembic_version may have at first
  Kind,         \* Kind[r]: how upgrade() of r treats the transaction
  EmptyDown,    \* the revisions whose downgrade() is "pass"
  Drops,        \* <<way, r>>: walking r this way emits a destructive marker
  Inspects,     \* <<way, r>>: the script needs a live connection
  Driver,       \* the driver the connection string names
  Populated,    \* the alert table has rows
  LockPolls,    \* polls of the lock before MIGRATION_LOCK_TIMEOUT passes
  Faults,       \* the kinds of fault the environment may inject ...
  MaxFaults     \* ... and how many of them in one behaviour

Ways == {"upgrade", "downgrade"}

(***************************************************************************)
(* How an upgrade() treats the transaction alembic opened around the walk: *)
(*   plain     leaves it alone                                             *)
(*   index     CREATE INDEX CONCURRENTLY IF NOT EXISTS in autocommit_block *)
(*   backfill  batches, each committed, in autocommit_block                *)
(*   manual    batches, each followed by conn.commit()                     *)
(*   raw       executes the SQL statement COMMIT, and catches what fails   *)
(*             after it                                                    *)
(***************************************************************************)
Kinds == {"plain", "index", "backfill", "manual", "raw"}

RequestType == [cmd : {"run", "sql", "check"}, image : SUBSET Rev,
                target : Rev \cup {HEAD}, allow : BOOLEAN]

ASSUME JobsAssumption == Free \notin Jobs

ASSUME RequestsAssumption == Requests \subseteq RequestType

ASSUME ScriptsAssumption ==
  /\ Stamps \in SUBSET SUBSET Rev
  /\ Kind \in [Rev -> Kinds]
  /\ EmptyDown \in SUBSET Rev
  /\ Drops \in SUBSET (Ways \X Rev)
  /\ Inspects \in SUBSET (Ways \X Rev)

ASSUME EnvironmentAssumption ==
  /\ Driver \in {"psycopg2", "psycopg"}
  /\ Populated \in BOOLEAN
  /\ LockPolls \in Nat
  /\ MaxFaults \in Nat

VARIABLES
  stamped,   \* the committed rows of alembic_version
  schema,    \* schema[r]: how much of what upgrade() of r builds is committed
  lock,      \* the process whose session holds the advisory lock
  pc,        \* pc[j]: where process j is
  req,       \* req[j]: its command line
  way,       \* way[j]: the direction it last derived
  polls,     \* polls[j]: how often it has slept waiting for the lock
  plan,      \* plan[j]: the revisions its walk has still to cross
  heads,     \* heads[j]: alembic's own copy of the rows, in memory
  mode,      \* mode[j]: what becomes of the statements of its walk
  tx,        \* tx[j]: what its walk has written and not committed
  outcome,   \* outcome[j]: how it ended
  faults     \* faults injected so far

db      == <<stamped, schema>>
vars    == <<stamped, schema, lock, pc, req, way, polls, plan, heads, mode,
             tx, outcome, faults>>

(***************************************************************************)
(* "flawed": with an index PostgreSQL will not use, or without what a      *)
(* statement that failed should have made.  A kill alone leaves "part".    *)
(***************************************************************************)
Levels   == {"none", "part", "full", "flawed"}
Outcomes == {"none", "converged", "walked", "dryrun", "refused", "failed",
             "killed"}

(***************************************************************************)
(* Modes.  "txn": writes wait for alembic's commit.  "auto": each          *)
(* statement commits by itself.  "orphan": after conn.commit() SQLAlchemy  *)
(* has begun a transaction alembic knows nothing of and will not commit.   *)
(***************************************************************************)
Modes == {"txn", "auto", "orphan"}

Walking == {"step", "block", "rest", "stamp"}
Alive   == {"read", "lock", "reread", "begin", "unlock", "exit"} \cup Walking
Zombies == {"zombie", "zfirst", "zrest"}
Labels  == {"idle", "done", "dead"} \cup Alive \cup Zombies

NoTx   == [del |-> {}, ins |-> {}, eff |-> [r \in Rev |-> "same"]]
NoReq  == [cmd |-> "run", image |-> {}, target |-> HEAD, allow |-> FALSE]
TxType == [del : SUBSET Rev, ins : SUBSET Rev,
           eff : [Rev -> Levels \cup {"same"}]]

(* Exit codes: a ClickException and an uncaught exception both give 1. *)
ExitCode(o) == IF o \in {"converged", "walked", "dryrun"} THEN 0 ELSE 1

Target(j) == Resolve(req[j].image, req[j].target)

-----------------------------------------------------------------------------
(* The database as a walk sees it: what is committed, under its own writes. *)
Overlay(eff) == [r \in Rev |-> IF eff[r] = "same" THEN schema[r] ELSE eff[r]]
View(j)      == Overlay(tx[j].eff)
Rows(j)      == (stamped \ tx[j].del) \cup tx[j].ins

Init ==
  /\ stamped \in Stamps
  /\ schema  = [r \in Rev |-> IF r \in Applied(stamped) THEN "full" ELSE "none"]
  /\ lock    = Free
  /\ pc      = [j \in Jobs |-> "idle"]
  /\ req     = [j \in Jobs |-> NoReq]
  /\ way     = [j \in Jobs |-> "upgrade"]
  /\ polls   = [j \in Jobs |-> 0]
  /\ plan    = [j \in Jobs |-> {}]
  /\ heads   = [j \in Jobs |-> {}]
  /\ mode    = [j \in Jobs |-> "txn"]
  /\ tx      = [j \in Jobs |-> NoTx]
  /\ outcome = [j \in Jobs |-> "none"]
  /\ faults  = 0

Goto(j, label) == pc' = [pc EXCEPT ![j] = label]
End(j, label, o) == Goto(j, label) /\ outcome' = [outcome EXCEPT ![j] = o]

-----------------------------------------------------------------------------
(* main, up to the lock *)

(* A sync starts a process; _resolve refuses a target the image lacks. *)
Start(j) ==
  /\ pc[j] = "idle"
  /\ \E q \in Requests :
       /\ req' = [req EXCEPT ![j] = q]
       /\ IF Resolve(q.image, q.target) = NONE
          THEN End(j, "done", "refused")
          ELSE Goto(j, "read") /\ UNCHANGED outcome
  /\ UNCHANGED <<stamped, schema, lock, way, polls, plan, heads, mode, tx, faults>>

(* get_db_revision: .first() of however many rows there are. *)
Readings == IF stamped = {} THEN {NONE} ELSE stamped

(* Mutant: the guard is not re-applied under the lock. *)
UnguardedBeforeLock(j, dir) == pc[j] = "read" /\ dir = "downgrade" /\ ~req[j].allow

(* _refuse_unguarded_downgrade *)
Unguarded(j, dir) == dir = "downgrade" /\ ~req[j].allow

(***************************************************************************)
(* The lines alembic prints offline for the path dir over crossed, as far  *)
(* as _destructive_reason tells them apart.  PostgreSQL's DDL is           *)
(* transactional, so a BEGIN and a COMMIT are among them; a merge and a    *)
(* first revision write alembic_version with INSERT or DELETE.             *)
(***************************************************************************)
Lines(dir, crossed) ==
  {"begin", "commit"}
    \cup {"restamp" : r \in crossed}
    \cup {"bookkeeping" : r \in {c \in crossed : Cardinality(Down[c]) # 1}}
    \cup {"ddl"  : r \in {c \in crossed : dir = "upgrade" \/ c \notin EmptyDown}}
    \cup {"drop" : r \in {c \in crossed : <<dir, c>> \in Drops}}

(* _destructive_reason: a marker anywhere, or nothing but restamps. *)
Destructive(lines) == "drop" \in lines \/ lines \subseteq {"restamp"}

(***************************************************************************)
(* --sql and --check render the path from the one row read, offline.  A    *)
(* script that wants a connection has none there and raises.               *)
(***************************************************************************)
DryRun(j, row, dir) ==
  LET crossed == Path(dir, {row} \ {NONE}, Target(j))
  IN  IF ({dir} \X crossed) \cap Inspects # {} THEN "failed"
      ELSE IF /\ req[j].cmd = "check" /\ ~req[j].allow
              /\ Destructive(Lines(dir, crossed))
           THEN "refused"
           ELSE "dryrun"

Decide(j) ==
  /\ pc[j] = "read"
  /\ \E row \in Readings :
       LET dir == Direction(req[j].image, row, Target(j)) IN
       \/ dir = "converged" /\ End(j, "done", "converged") /\ UNCHANGED way
       \/ dir = "divergent" /\ End(j, "done", "refused") /\ UNCHANGED way
       \/ /\ dir \in Ways /\ req[j].cmd # "run"
          /\ End(j, "done", DryRun(j, row, dir))
          /\ UNCHANGED way
       \/ /\ req[j].cmd = "run" /\ Unguarded(j, dir)
          /\ End(j, "done", "refused")
          /\ UNCHANGED way
       \/ /\ dir \in Ways /\ req[j].cmd = "run" /\ ~Unguarded(j, dir)
          /\ Goto(j, "lock")
          /\ way' = [way EXCEPT ![j] = dir]
          /\ UNCHANGED outcome
  /\ UNCHANGED <<stamped, schema, lock, req, polls, plan, heads, mode, tx, faults>>

-----------------------------------------------------------------------------
(* migration_lock *)

AcquireLock(j) ==
  /\ pc[j] = "lock" /\ lock = Free
  /\ lock' = j
  /\ Goto(j, "reread")
  /\ UNCHANGED <<stamped, schema, req, way, polls, plan, heads, mode, tx, outcome, faults>>

(* Mutant: the deadline is never looked at. *)
PollLockForEver(j) ==
  /\ pc[j] = "lock" /\ lock # Free
  /\ polls' = [polls EXCEPT ![j] = @ + 1]
  /\ UNCHANGED <<stamped, schema, lock, pc, req, way, plan, heads, mode, tx, outcome, faults>>

PollLock(j) ==
  /\ pc[j] = "lock" /\ lock # Free /\ polls[j] < LockPolls
  /\ polls' = [polls EXCEPT ![j] = @ + 1]
  /\ UNCHANGED <<stamped, schema, lock, pc, req, way, plan, heads, mode, tx, outcome, faults>>

(* Mutant: past the deadline it migrates anyway, as the gateway used to. *)
ProceedWithoutLock(j) ==
  /\ pc[j] = "lock" /\ lock # Free /\ polls[j] = LockPolls
  /\ Goto(j, "reread")
  /\ UNCHANGED <<stamped, schema, lock, req, way, polls, plan, heads, mode, tx, outcome, faults>>

(* The deadline has passed: LockUnavailable, which main turns into exit 1. *)
GiveUpLock(j) ==
  /\ pc[j] = "lock" /\ lock # Free /\ polls[j] = LockPolls
  /\ End(j, "exit", "refused")
  /\ UNCHANGED <<stamped, schema, lock, req, way, polls, plan, heads, mode, tx, faults>>

(* Leaving the context manager runs pg_advisory_unlock whatever happened. *)
Unlock(j) ==
  /\ pc[j] = "unlock"
  /\ lock' = IF lock = j THEN Free ELSE lock
  /\ Goto(j, "exit")
  /\ UNCHANGED <<stamped, schema, req, way, polls, plan, heads, mode, tx, outcome, faults>>

(* Mutant: the session outlives the process. *)
ExitKeepingLock(j) ==
  /\ pc[j] = "exit"
  /\ tx' = [tx EXCEPT ![j] = NoTx]
  /\ Goto(j, "done")
  /\ UNCHANGED <<stamped, schema, lock, req, way, polls, plan, heads, mode, outcome, faults>>

(* The process ends and its pooled sessions with it. *)
Exit(j) ==
  /\ pc[j] = "exit"
  /\ lock' = IF lock = j THEN Free ELSE lock
  /\ tx' = [tx EXCEPT ![j] = NoTx]
  /\ Goto(j, "done")
  /\ UNCHANGED <<stamped, schema, req, way, polls, plan, heads, mode, outcome, faults>>

-----------------------------------------------------------------------------
(* _converge: decide again under the lock, then hand over to alembic *)

Redecide(j) ==
  /\ pc[j] = "reread"
  /\ \E row \in Readings :
       LET dir == Direction(req[j].image, row, Target(j)) IN
       \/ dir = "converged" /\ End(j, "unlock", "converged") /\ UNCHANGED way
       \/ /\ dir = "divergent" \/ Unguarded(j, dir)
          /\ End(j, "unlock", "refused")
          /\ UNCHANGED way
       \/ /\ dir \in Ways /\ ~Unguarded(j, dir)
          /\ Goto(j, "begin")
          /\ way' = [way EXCEPT ![j] = dir]
          /\ UNCHANGED outcome
  /\ UNCHANGED <<stamped, schema, lock, req, polls, plan, heads, mode, tx, faults>>

(* alembic reads every row, not the first, and cannot place an unknown one. *)
BeginWalk(j) ==
  /\ pc[j] = "begin"
  /\ IF stamped \subseteq req[j].image
     THEN /\ heads' = [heads EXCEPT ![j] = stamped]
          /\ plan'  = [plan EXCEPT ![j] = Path(way[j], stamped, Target(j))]
          /\ mode'  = [mode EXCEPT ![j] = "txn"]
          /\ Goto(j, "step")
          /\ UNCHANGED outcome
     ELSE /\ End(j, "unlock", "failed")
          /\ UNCHANGED <<heads, plan, mode>>
  /\ UNCHANGED <<stamped, schema, lock, req, way, polls, tx, faults>>

-----------------------------------------------------------------------------
(* The walk, statement by statement *)

(* Mutant: the walk's connection is in autocommit all along. *)
WriteThrough(j, r, v) == schema' = [schema EXCEPT ![r] = v] /\ UNCHANGED tx

(* What a statement that writes level v of revision r leaves behind. *)
Write(j, r, v) ==
  IF mode[j] = "auto"
  THEN schema' = [schema EXCEPT ![r] = v] /\ UNCHANGED tx
  ELSE tx' = [tx EXCEPT ![j].eff[r] = v] /\ UNCHANGED schema

(* Commit what the walk has pending, with level v of r added to it. *)
CommitWith(j, eff) ==
  /\ stamped' = Rows(j)
  /\ schema'  = Overlay(eff)
  /\ tx'      = [tx EXCEPT ![j] = NoTx]

(* Mutant: the failed transaction is left open. *)
RaiseWithoutRollback(j) == End(j, "unlock", "failed") /\ UNCHANGED tx

(* Mutant: the walk is tried again, for as long as it takes. *)
RaiseAndRetry(j) ==
  /\ Goto(j, "begin") /\ UNCHANGED outcome
  /\ tx' = [tx EXCEPT ![j] = NoTx]

(***************************************************************************)
(* A statement fails: PostgreSQL undoes the transaction it was part of,    *)
(* the exception leaves the walk, and main exits 1.                        *)
(***************************************************************************)
Raise(j) ==
  /\ End(j, "unlock", "failed")
  /\ tx' = [tx EXCEPT ![j] = NoTx]

(***************************************************************************)
(* alembic ends its transaction.  One begun after conn.commit() is not     *)
(* its own and stays open until the connection is collected, which nothing *)
(* closes: past pg_advisory_unlock, up to the end of the process.          *)
(***************************************************************************)
LetGo(j) ==
  \/ tx' = [tx EXCEPT ![j] = NoTx]
  \/ mode[j] = "orphan" /\ UNCHANGED tx

(* An exception of alembic's own leaves the walk. *)
Abandon(j) == End(j, "unlock", "failed") /\ LetGo(j)

(* The scripts that run inside autocommit_block. *)
InBlock(dir, r) ==
  /\ Kind[r] \in {"index", "backfill"}
  /\ dir = "upgrade" \/ r \notin EmptyDown

(* The rows a restamp of r takes out of alembic_version and puts in. *)
Gone(j, r) == heads[j] \ Restamp(way[j], heads[j], r)
Come(j, r) == Restamp(way[j], heads[j], r) \ heads[j]

(***************************************************************************)
(* PostgreSQL holds a statement back while another session has written its *)
(* object or its row and has not committed.                                *)
(***************************************************************************)
HeldUp(j, r, k) ==
  IF pc[j] = "stamp"
  THEN Gone(j, r) \cap tx[k].del # {} \/ Come(j, r) \cap tx[k].ins # {}
  ELSE tx[k].eff[r] # "same"

Blocked(j, r) == \E k \in Jobs \ {j} : HeldUp(j, r, k)

WaitsFor(j, k) ==
  \E r \in plan[j] : /\ IsNext(way[j], plan[j], r)
                     /\ ~(pc[j] = "step" /\ InBlock(way[j], r))
                     /\ HeldUp(j, r, k)

(* Mutant: CREATE INDEX without IF NOT EXISTS. *)
FirstStrict(dir, r, v) ==
  IF dir = "upgrade" THEN IF v = "none" THEN "part" ELSE "raises" ELSE "none"

(* Mutant: a backfill stops after its first batch. *)
RestOneBatch(dir, r, v) ==
  IF dir = "upgrade" THEN IF Kind[r] \in {"backfill", "manual"} THEN v ELSE "full"
  ELSE "none"

(***************************************************************************)
(* The level of r after the first statement and after the rest of a        *)
(* script that finds it at v.  A plain script has no IF NOT EXISTS: it     *)
(* raises on what is there already.  The others tolerate it, and           *)
(* IF NOT EXISTS takes an INVALID index for the one it wants.  Backwards,  *)
(* an index build drops index by index IF EXISTS, a backfill takes all of  *)
(* it back in one UPDATE, and the others fail on what is not there.        *)
(***************************************************************************)
First(dir, r, v) ==
  CASE dir = "upgrade" /\ v = "none" -> "part"
    [] dir = "upgrade" /\ v # "none" -> IF Kind[r] = "plain" THEN "raises" ELSE v
    [] dir = "downgrade" /\ r \in EmptyDown -> v
    [] dir = "downgrade" /\ r \notin EmptyDown ->
         IF Kind[r] = "index" THEN IF v = "none" THEN v ELSE "part"
         ELSE IF Kind[r] = "backfill" THEN "none"
         ELSE IF v = "none" \/ (v = "flawed" /\ Kind[r] = "raw") THEN "raises" ELSE "part"

Rest(dir, r, v) ==
  IF dir = "upgrade" THEN IF v = "flawed" /\ Kind[r] = "index" THEN v ELSE "full"
  ELSE IF r \in EmptyDown THEN v ELSE "none"

(* autocommit_block commits the transaction; a closed one it cannot. *)
EnterBlock(j, r) ==
  /\ pc[j] = "step" /\ IsNext(way[j], plan[j], r) /\ InBlock(way[j], r)
  /\ IF mode[j] = "orphan"
     THEN Abandon(j) /\ UNCHANGED <<stamped, schema, mode>>
     ELSE /\ CommitWith(j, tx[j].eff)
          /\ mode' = [mode EXCEPT ![j] = "auto"]
          /\ Goto(j, "block")
          /\ UNCHANGED outcome
  /\ UNCHANGED <<lock, req, way, polls, plan, heads, faults>>

(* The statement COMMIT, which psycopg2 does not notice and psycopg does. *)
CommitsRaw(dir, r) == dir = "upgrade" /\ Kind[r] = "raw"

(* conn.commit() after a batch; with no batch to do it is not reached. *)
CommitsByHand(dir, r, v) ==
  dir = "upgrade" /\ Kind[r] = "manual" /\ Populated /\ v # "full"

Begin(j, r) ==
  LET v == View(j)[r]
      w == First(way[j], r, v)
  IN
  /\ pc[j] = IF InBlock(way[j], r) THEN "block" ELSE "step"
  /\ IsNext(way[j], plan[j], r)
  /\ ~Blocked(j, r)
  /\ IF w = "raises"
     THEN Raise(j) /\ UNCHANGED <<stamped, schema, mode>>
     ELSE /\ Goto(j, "rest")
          /\ UNCHANGED outcome
          /\ \/ /\ CommitsRaw(way[j], r)
                /\ CommitWith(j, [tx[j].eff EXCEPT ![r] = w])
                /\ mode' = [mode EXCEPT ![j] =
                              IF Driver = "psycopg2" THEN "auto" ELSE @]
             \/ /\ CommitsByHand(way[j], r, v)
                /\ CommitWith(j, [tx[j].eff EXCEPT ![r] = w])
                /\ mode' = [mode EXCEPT ![j] = "orphan"]
             \/ /\ ~CommitsRaw(way[j], r) /\ ~CommitsByHand(way[j], r, v)
                /\ IF w = v THEN UNCHANGED <<schema, tx>> ELSE Write(j, r, w)
                /\ UNCHANGED <<stamped, mode>>
  /\ UNCHANGED <<lock, req, way, polls, plan, heads, faults>>

(* The rest of the script; autocommit_block then opens a new transaction. *)
Finish(j, r) ==
  LET v == View(j)[r]
      w == Rest(way[j], r, v)
  IN
  /\ pc[j] = "rest" /\ IsNext(way[j], plan[j], r)
  /\ ~Blocked(j, r)
  /\ IF CommitsByHand(way[j], r, v)
     THEN CommitWith(j, [tx[j].eff EXCEPT ![r] = w])
     ELSE /\ IF w = v THEN UNCHANGED <<schema, tx>> ELSE Write(j, r, w)
          /\ UNCHANGED stamped
  /\ mode' = [mode EXCEPT ![j] = IF InBlock(way[j], r) THEN "txn" ELSE @]
  /\ Goto(j, "stamp")
  /\ UNCHANGED <<lock, req, way, polls, plan, heads, outcome, faults>>

(* Mutant: alembic_version is written on a session of its own. *)
WriteRowsAtOnce(j, gone, come) == stamped' = (stamped \ gone) \cup come /\ UNCHANGED tx

WriteRows(j, gone, come) ==
  IF mode[j] = "auto"
  THEN stamped' = (stamped \ gone) \cup come /\ UNCHANGED tx
  ELSE /\ tx' = [tx EXCEPT ![j].del = @ \cup gone,
                           ![j].ins = (@ \ gone) \cup come]
       /\ UNCHANGED stamped

(***************************************************************************)
(* HeadMaintainer rewrites alembic_version.  It raises when a row it       *)
(* replaces is not there, or one it writes already is.                     *)
(***************************************************************************)
Stamp(j, r) ==
  /\ pc[j] = "stamp" /\ IsNext(way[j], plan[j], r)
  /\ ~Blocked(j, r)
  /\ IF ~(Gone(j, r) \subseteq Rows(j)) \/ Come(j, r) \cap Rows(j) # {}
     THEN Abandon(j) /\ UNCHANGED <<stamped, plan, heads>>
     ELSE /\ WriteRows(j, Gone(j, r), Come(j, r))
          /\ heads' = [heads EXCEPT ![j] = Restamp(way[j], @, r)]
          /\ plan'  = [plan EXCEPT ![j] = @ \ {r}]
          /\ Goto(j, "step")
          /\ UNCHANGED outcome
  /\ UNCHANGED <<schema, lock, req, way, polls, mode, faults>>

(* Of two walks that wait for each other, PostgreSQL makes one raise. *)
DeadlockDetected(j) ==
  /\ pc[j] \in Walking
  /\ \E k \in Jobs \ {j} : pc[k] \in Walking /\ WaitsFor(j, k) /\ WaitsFor(k, j)
  /\ Raise(j)
  /\ UNCHANGED <<stamped, schema, lock, req, way, polls, plan, heads, mode, faults>>

(* Leaving alembic's transaction commits it, if it is still the open one. *)
CommitWalk(j) ==
  /\ pc[j] = "step" /\ plan[j] = {}
  /\ IF mode[j] = "orphan"
     THEN LetGo(j) /\ UNCHANGED db
     ELSE CommitWith(j, tx[j].eff)
  /\ End(j, "unlock", "walked")
  /\ UNCHANGED <<lock, req, way, polls, plan, heads, mode, faults>>

-----------------------------------------------------------------------------
(* Faults *)

Fault(kind) == kind \in Faults /\ faults < MaxFaults /\ faults' = faults + 1

(* get_db_revision raises rather than report an unreachable database empty. *)
ReadFails(j) ==
  /\ Fault("read")
  /\ \/ pc[j] = "read" /\ End(j, "done", "failed")
     \/ pc[j] = "reread" /\ End(j, "unlock", "failed")
  /\ UNCHANGED <<stamped, schema, lock, req, way, polls, plan, heads, mode, tx>>

(* pg_try_advisory_lock or the commit after it raises, lock taken or not. *)
LockFails(j) ==
  /\ Fault("lock")
  /\ pc[j] = "lock"
  /\ lock' \in {lock, IF lock = Free THEN j ELSE lock}
  /\ End(j, "exit", "refused")
  /\ UNCHANGED <<stamped, schema, req, way, polls, plan, heads, mode, tx>>

(* A statement of the walk raises; an index build leaves INVALID behind. *)
StatementFails(j) ==
  /\ Fault("statement")
  /\ pc[j] \in Walking
  /\ Raise(j)
  /\ \/ UNCHANGED schema
     \/ \E r \in plan[j] :
          /\ pc[j] \in {"block", "rest"} /\ IsNext(way[j], plan[j], r)
          /\ Kind[r] = "index" /\ way[j] = "upgrade" /\ schema[r] \in {"none", "part"}
          /\ schema' = [schema EXCEPT ![r] = "flawed"]
  /\ UNCHANGED <<stamped, lock, req, way, polls, plan, heads, mode>>

(***************************************************************************)
(* A script that executes COMMIT catches what fails after it ("already     *)
(* exists.  It's ok"), whatever the reason.  Under psycopg2 no transaction *)
(* is there to be aborted, and the walk goes on to the restamp; under      *)
(* psycopg the restamp fails, which is StatementFails.                     *)
(***************************************************************************)
StatementSwallowed(j, r) ==
  /\ Fault("statement")
  /\ pc[j] = "rest" /\ IsNext(way[j], plan[j], r)
  /\ CommitsRaw(way[j], r) /\ mode[j] = "auto"
  /\ schema' = [schema EXCEPT ![r] = "flawed"]
  /\ Goto(j, "stamp")
  /\ UNCHANGED <<stamped, lock, req, way, polls, plan, heads, mode, tx, outcome>>

(* pg_advisory_unlock raises; the exception is logged and swallowed. *)
UnlockFails(j) ==
  /\ Fault("unlock")
  /\ pc[j] = "unlock"
  /\ Goto(j, "exit")
  /\ UNCHANGED <<stamped, schema, lock, req, way, polls, plan, heads, mode, tx, outcome>>

(* The session holding the lock is cut off; nothing looks at it again. *)
LockSessionDrops(j) ==
  /\ Fault("drop")
  /\ lock = j /\ pc[j] \in {"reread", "begin"} \cup Walking
  /\ lock' = Free
  /\ UNCHANGED <<stamped, schema, pc, req, way, polls, plan, heads, mode, tx, outcome>>

(***************************************************************************)
(* activeDeadlineSeconds, an eviction or a replaced hook kills the pod.    *)
(* The server notices each of its sessions by itself, and a statement it   *)
(* is executing runs on until then.                                        *)
(***************************************************************************)
Kill(j) ==
  /\ Fault("kill")
  /\ pc[j] \in Alive
  /\ LET after == IF pc[j] = "block" \/ (pc[j] = "step" /\ mode[j] = "auto") THEN "zfirst"
                  ELSE IF pc[j] = "rest" /\ mode[j] = "auto" THEN "zrest"
                  ELSE IF pc[j] \in Walking \/ tx[j] # NoTx THEN "zombie" ELSE "dead"
     IN  End(j, after, "killed")
  /\ UNCHANGED <<stamped, schema, lock, req, way, polls, plan, heads, mode, tx>>

(* The server ends the walk's session, rolling back what it had open. *)
ReapWalk(j) ==
  /\ pc[j] \in Zombies
  /\ tx' = [tx EXCEPT ![j] = NoTx]
  /\ Goto(j, "dead")
  /\ UNCHANGED <<stamped, schema, lock, req, way, polls, plan, heads, mode, outcome, faults>>

(* The statement in flight outside any transaction completes first. *)
OrphanStatement(j, r) ==
  /\ pc[j] \in {"zfirst", "zrest"} /\ IsNext(way[j], plan[j], r)
  /\ ~Blocked(j, r)
  /\ LET w == IF pc[j] = "zfirst" THEN First(way[j], r, schema[r])
              ELSE Rest(way[j], r, schema[r])
     IN  w # "raises" /\ schema' = [schema EXCEPT ![r] = w]
  /\ Goto(j, "zombie")
  /\ UNCHANGED <<stamped, lock, req, way, polls, plan, heads, mode, tx, outcome, faults>>

(* The server ends the session that held the lock. *)
ReapLock(j) ==
  /\ pc[j] \in Zombies \cup {"dead"} /\ lock = j
  /\ lock' = Free
  /\ UNCHANGED <<stamped, schema, pc, req, way, polls, plan, heads, mode, tx, outcome, faults>>

-----------------------------------------------------------------------------
Walk(j) ==
  \/ \E r \in plan[j] : EnterBlock(j, r) \/ Begin(j, r) \/ Finish(j, r) \/ Stamp(j, r)
  \/ CommitWalk(j) \/ DeadlockDetected(j)

(* What the process does by itself, and what the server does after it. *)
Run(j) ==
  \/ Decide(j) \/ AcquireLock(j) \/ PollLock(j) \/ GiveUpLock(j)
  \/ Redecide(j) \/ BeginWalk(j) \/ Walk(j) \/ Unlock(j) \/ Exit(j)

Reap(j) == ReapWalk(j) \/ ReapLock(j) \/ \E r \in plan[j] : OrphanStatement(j, r)

Mishap(j) ==
  \/ ReadFails(j) \/ LockFails(j) \/ StatementFails(j) \/ UnlockFails(j)
  \/ LockSessionDrops(j) \/ Kill(j)
  \/ \E r \in plan[j] : StatementSwallowed(j, r)

(* Every process has ended: the system may stop. *)
AllEnded ==
  /\ \A j \in Jobs : pc[j] \in {"done", "dead"}
  /\ lock = Free
  /\ UNCHANGED vars

Next == (\E j \in Jobs : Start(j) \/ Run(j) \/ Reap(j) \/ Mishap(j)) \/ AllEnded

Spec == Init /\ [][Next]_vars

(***************************************************************************)
(* A process that can take a step takes it, and the server reaps a dead    *)
(* client's sessions (TCP keepalive); nothing makes a sync happen or a     *)
(* fault occur.                                                            *)
(***************************************************************************)
Fairness == \A j \in Jobs :
  WF_vars(Run(j)) /\ WF_vars(ReapWalk(j)) /\ WF_vars(ReapLock(j))

FairSpec == Spec /\ Fairness

-----------------------------------------------------------------------------
(* Properties *)

(* Every variable stays in its range. *)
TypeOK ==
  /\ stamped \in SUBSET Rev
  /\ schema  \in [Rev -> Levels]
  /\ lock    \in Jobs \cup {Free}
  /\ pc      \in [Jobs -> Labels]
  /\ req     \in [Jobs -> RequestType]
  /\ way     \in [Jobs -> Ways]
  /\ polls   \in [Jobs -> 0..LockPolls]
  /\ plan    \in [Jobs -> SUBSET Rev]
  /\ heads   \in [Jobs -> SUBSET Rev]
  /\ mode    \in [Jobs -> Modes]
  /\ tx      \in [Jobs -> TxType]
  /\ outcome \in [Jobs -> Outcomes]
  /\ faults  \in 0..MaxFaults

(***************************************************************************)
(* "Never proceed without it" (LockUnavailable): from the second reading   *)
(* of the revision to the end of the walk, a process's session holds the   *)
(* advisory lock; so no two processes are in there together, however their *)
(* reads, waits, timeouts, failed unlocks and deaths interleave.           *)
(***************************************************************************)
UnderLock  == {"reread", "begin"} \cup Walking
OneWalker  == \A j \in Jobs : pc[j] \in UnderLock => lock = j

(***************************************************************************)
(* A statement of a walk is held up by nothing but what a killed process   *)
(* left open, which the server rolls back: no walk waits for a live one,   *)
(* on a table or on a row: "exactly the collision the lock exists to       *)
(* prevent" (LockUnavailable).  The lock of a killed process may be let go *)
(* before its transaction is; so may that of one whose scripts called      *)
(* conn.commit(), which is on its way out.                                 *)
(***************************************************************************)
Lingers(j) == pc[j] \in {"unlock", "exit"} /\ mode[j] = "orphan"

WaitsForTheDead ==
  \A j \in Jobs : \A k \in Jobs \ {j} :
    pc[j] \in Walking /\ WaitsFor(j, k) => pc[k] \in Zombies \/ Lingers(k)

(***************************************************************************)
(* A revision stops being applied only because a process that was given    *)
(* --allow-destructive walks to a target below it.  The consent is checked *)
(* before the lock and again under it, and the database may have moved     *)
(* either way while the process waited.                                    *)
(***************************************************************************)
Undoing(j, gone) ==
  /\ pc[j] \in Walking /\ req[j].cmd = "run" /\ req[j].allow
  /\ \A r \in gone : Target(j) \in Anc[r] \ {r}

UndoesByConsent ==
  LET gone == Applied(stamped) \ Applied(stamped')
  IN  gone # {} => \E j \in Jobs : Undoing(j, gone)

NoDowngradeWithoutConsent == [][UndoesByConsent]_vars

(***************************************************************************)
(* A revision becomes applied only on the way to the target some process   *)
(* was started with: never past it, whatever newer scripts the image has,  *)
(* and never by a --sql or --check run.                                    *)
(***************************************************************************)
AppliesUpToTarget ==
  LET come == Applied(stamped') \ Applied(stamped)
  IN  come # {} => \E j \in Jobs : /\ pc[j] \in Walking /\ req[j].cmd = "run"
                                   /\ come \subseteq Anc[Target(j)]

NothingPastTheTarget == [][AppliesUpToTarget]_vars

(***************************************************************************)
(* alembic_version holds the tips of what is applied and nothing else,     *)
(* through every merge, unmerge, partial rollback and crash.  A row that   *)
(* another row already implies makes alembic's next bookkeeping fail.      *)
(***************************************************************************)
RowsAreTips == Tips(Applied(stamped)) = stamped

(***************************************************************************)
(* What exit 0 tells Argo: when a process is about to exit 0 and still     *)
(* holds the lock, the target is stamped, nothing built on it is, and it   *)
(* and what it stands on are really in the schema.                         *)
(***************************************************************************)
ExitZeroMeansConverged ==
  \A j \in Jobs :
    pc[j] = "unlock" /\ lock = j /\ ExitCode(outcome[j]) = 0 =>
      /\ Target(j) \in stamped
      /\ \A r \in Applied(stamped) : Target(j) \in Anc[r] => r = Target(j)
      /\ \A r \in Anc[Target(j)] : schema[r] = "full"

(***************************************************************************)
(* The committed schema is exactly what alembic_version says, at every     *)
(* moment and through every crash.  It is the promise of one transaction   *)
(* per walk, for scripts that leave that transaction alone.                *)
(***************************************************************************)
SchemaMatchesStamp ==
  \A r \in Rev : schema[r] = IF r \in Applied(stamped) THEN "full" ELSE "none"

(***************************************************************************)
(* Of releases, whatever their scripts commit on their own and wherever    *)
(* they are killed: what is stamped has been built, but for what a failed  *)
(* statement left out that PostgreSQL or the script itself then passed     *)
(* over: an INVALID index, and what a script catches after a raw COMMIT.   *)
(* What has been begun but not stamped is one revision, the one the next   *)
(* run will begin with.                                                    *)
(***************************************************************************)
PassedOver(r) == Kind[r] \in {"index", "raw"}

StampedIsBuilt ==
  \A r \in Applied(stamped) : schema[r] = "full" \/ (schema[r] = "flawed" /\ PassedOver(r))

AheadByOneAtMost ==
  \A r \in Rev \ Applied(stamped) : schema[r] # "none" => Down[r] \subseteq Applied(stamped)

(***************************************************************************)
(* No walk fails by itself: whatever earlier processes left behind when    *)
(* they were killed, the next one's scripts and bookkeeping get over it.   *)
(* Claimed where the only fault is a kill.                                 *)
(***************************************************************************)
KillNeverWedges == \A j \in Jobs : outcome[j] = "failed" => req[j].cmd # "run"

(* Every process started ends: no wait, for lock or table, is for ever. *)
EveryRunEnds == \A j \in Jobs : (pc[j] = "read") ~> (pc[j] \in {"done", "dead"})

(* The advisory lock is never left behind, whatever became of its holder. *)
LockIsReleased == \A j \in Jobs : (lock = j) ~> (lock # j)

-----------------------------------------------------------------------------
(***************************************************************************)
(* All of it implements ConvergeSpec, which sees only what alembic_version *)
(* says is applied: in whole walks when every script leaves alembic's      *)
(* transaction alone, in parts of walks otherwise.                         *)
(***************************************************************************)
Promise == INSTANCE ConvergeSpec WITH applied <- Applied(stamped)

ConvergesInWholeWalks == Promise!Spec
ConvergesInParts      == Promise!PartlySpec
=============================================================================
