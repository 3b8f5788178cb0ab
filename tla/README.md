# keep-migrations in TLA+

The repository ships one program, `keep-migrate`. Argo runs it as a PreSync Job
on every sync; it compares a target revision with the one stamped in
`alembic_version`, takes a PostgreSQL advisory lock, decides again, and has
alembic walk the graph of migration scripts up or down. This directory is its
formal model: what the program does is in TLA+, TLC checks it on small graphs
with several processes and faults, and TLAPS proves its safety properties, and
that it keeps the promise of an abstract specification, for every graph and
number of processes. The 127
scripts themselves are there as data: every rollback and release over the
recent part of the history is walked, and what a walk over any part of it does
to the rows is proved. Around the program, the Argo application
it gates is modelled; inside it, the two places where scripts rewrite rows while
the application goes on writing.

## 1. The system

| component | state it keeps | operations | talks to |
|---|---|---|---|
| CLI (`keep_migrations/cli.py`, `direction.py`) | none of its own: command line, target, direction, exit code | `_resolve`, `_direction`, `_refuse_unguarded_downgrade`, `_offline_sql`/`_destructive_reason` (`--sql`, `--check`), `_converge` | runtime, alembic |
| runtime (`keep_migrations/runtime.py`) | one engine, one session for the advisory lock | `get_db_revision`, `migration_lock` (try, poll, give up, unlock, close) | PostgreSQL |
| alembic environment (`migrations/env.py`) | alembic's transaction and its own copy of the `alembic_version` rows, on a *second* session | `do_run_migrations`, `run_migrations_online`/`_offline` | scripts, PostgreSQL |
| migration scripts (`migrations/versions`, 127 files) | the schema and data they build | `upgrade()`, `downgrade()` | alembic's connection |
| backfills (c3d4e5f6a7b8, c4d5e6f7a8b9; 5dfe012ad560) | a cursor over a table; rows of `lastalert`, `alert` | page, update, commit, start over | PostgreSQL, at the same time as the application |
| PreSync Job (`chart/`) | values in git, the sync operation, the Job: deadline, no retry, fixed name | commit, sync, start, kill, replace, roll out | CLI by its command line and exit code; the Deployment it gates |
| gateway `/readyz` (another repository) | pods | compares live schema with its models | PostgreSQL |
| tests, image, CI | - | - | - |

What they share is the database: the rows of `alembic_version`, the schema, and
one advisory lock. What makes it hard:

- **Time of check.** The revision is read, then the lock waited for up to
  `MIGRATION_LOCK_TIMEOUT`, then the revision is read again. Whoever held the
  lock was migrating, in either direction.
- **Two sessions.** The lock lives in one session and the walk in another. Each
  can be lost, or linger after the process is killed, without the other.
- **Transactions that are not.** alembic opens one transaction around the walk.
  Scripts leave it alone (`plain`), suspend it (`autocommit_block`: `index`,
  `backfill`), call `conn.commit()` on it (`manual`: 5dfe012ad560) or execute
  the SQL statement `COMMIT` (`raw`: 90e2d22edc6a, 971abbbf0a2c). What a crash
  leaves behind depends on which.
- **A graph, not a list.** The history has ten merges. A rollback into a
  diamond leaves two rows in `alembic_version`; `get_db_revision` reads
  whichever comes first, alembic reads all of them.
- **Failure of parts.** A statement fails, a concurrent index build leaves an
  INVALID index, the unlock fails, the pod is killed, the server finishes the
  statement of a client that is gone.
- **A database in use.** Backfills page through tables that the application
  inserts into, updates and locks, and start over from the first key when killed.
- **Order between images and schema.** The Job changes the schema under the image
  that serves; a rollback is two commits, of which Argo takes the last it sees.

What makes each component correct:

- CLI: goes backwards only when told to, never past the target, tells the truth
  with exit 0; `--check` tells the truth about the walk.
- runtime: one walker at a time; the lock never outlives its holder; every wait ends.
- alembic environment: `alembic_version` holds the tips of what is applied;
  stamp and schema agree.
- scripts: what is stamped is built; a killed run can be resumed.
- backfills: no row is passed over, nothing a user said is lost, and the loops end.
- Job: every run ends, no crash wedges the next one, nothing is rolled out over a
  schema that is not what the same commit asks for, and no pod that serves lacks
  what its image declares.

## 2. The modules

| module | what it is |
|---|---|
| `RevisionMap` | the graph and its arithmetic: `Resolve`, `Direction`, the path of a walk, `HeadMaintainer`'s row bookkeeping. Constant-level, no state |
| `KeepMigrate` | the state machine: processes, database, lock, faults; and the properties |
| `KeepMigrateInv` | the inductive invariants, in named parts: `WalkInv`, and `ReachInv`, `TipsInv`, `SettledInv`, `Topping`, `ReleaseInv` upon it; `RaceInv`, which does without the lock |
| `ConvergeSpec` | the abstract promise: the set of applied revisions changes only by converging on a requested target |
| `MCKeepMigrate` | instances for TLC, and two claims of the docs that do not hold (`NothingPendingExitsZero`, `CheckSeesWholePath`) |
| `Scripts` | the scripts of `migrations/versions` as data, one definition each: parents, edits of the catalog both ways, commits of its own |
| `Lineage` | runs of the CLI over that history, one at a time, on one database |
| `MCLineage` | the targets TLC walks to |
| `PreSyncHook` | one Argo application: commits, syncs, the Job with its two limits, the Deployment and its pods. The Job's walk is a step of `ConvergeSpec` |
| `PreSyncHookInv` | its inductive invariant `HookInv` |
| `MCPreSyncHook` | three releases, the third of which takes away what the first declares |
| `Backfill` | the typed columns of `lastalert`: c1d2e3f4a5b6, c3d4e5f6a7b8 and c4d5e6f7a8b9, both directions, against the application's writes |
| `MCBackfill` | what users say of alerts |
| `EventColumn` | 5dfe012ad560 copies `alert.event` past locked rows, 2b4dd4b88121 drops it |
| `RevisionMapProofs` | lemmas about the graph operators |
| `KeepMigrateProofs` | types, mutual exclusion, consent; where a walk ends: the refinement of `ConvergeSpec`, the rows of `alembic_version` |
| `SchemaProofs` | schema against stamp, exit 0, kills that wedge nothing |
| `ReleaseProofs` | what releases leave, whatever their scripts commit, and whoever loses the lock |
| `LineageProofs` | runs over the real history: its rows, its catalog, the refinement of `ConvergeSpec` |
| `PreSyncHookProofs`, `BackfillProofs`, `EventColumnProofs` | the theorems about those modules |

### State and actions of KeepMigrate

| variable | in the code |
|---|---|
| `stamped`, `schema` | committed rows of `alembic_version`; how much of what each `upgrade()` builds is committed (`none`, `part`, `full`; `flawed`: gone on without what a failed statement should have made) |
| `lock` | the session holding `MIGRATION_LOCK_KEY` |
| `pc`, `req`, `way`, `polls`, `outcome` | a process: where it is, its command line, the direction it last derived, its sleeps, how it ends |
| `plan`, `heads` | alembic's remaining steps and its in-memory copy of the rows |
| `mode`, `tx` | what becomes of the walk's statements: `txn` (wait for commit), `auto` (commit one by one), `orphan` (will never be committed); and what is written but not committed |
| `faults` | faults so far |

| action | in the code |
|---|---|
| `Start` | the Job's command line; `_resolve` refuses an unknown target |
| `Decide` | `get_db_revision`, `_direction`, converged exit, `--sql`/`--check`, the guard |
| `AcquireLock`, `PollLock`, `GiveUpLock`, `Unlock`, `Exit` | `migration_lock`, one iteration of its loop at a time |
| `Redecide` | the second reading, direction and guard in `_converge` |
| `BeginWalk` | `alembic.command.upgrade`/`downgrade`: reads every row, plans the path, refuses rows the image does not know |
| `EnterBlock`, `Begin`, `Finish`, `Stamp` | per revision: `autocommit_block`, the first statement and the rest of the script, and the restamp |
| `CommitWalk` | leaving `context.begin_transaction()` |
| `StatementSwallowed` | a script that has executed `COMMIT` catches what fails after it (90e2d22edc6a.py:43, 971abbbf0a2c.py:116-131) and is restamped |
| `DeadlockDetected` | PostgreSQL aborts one of two walks that wait for each other, which only a lost lock session makes possible |
| `ReadFails`, `LockFails`, `StatementFails`, `UnlockFails`, `LockSessionDrops`, `Kill` | the faults |
| `ReapWalk`, `ReapLock`, `OrphanStatement` | the PostgreSQL server, after a process is gone |

Two levels of atomicity matter and are kept apart: a process's Python between
two statements is one step, while a script is two statements with a commit
possible after each. alembic and PostgreSQL are not under `src/` and are
modelled as `src/` uses them (external in the map): alembic's planning and row
bookkeeping, PostgreSQL's transactions, session locks, blocking DDL and the way
it notices dead clients.

Abstractions: a script is its kind, not its SQL; `part` stands for any number
of statements done but not all; a command line is one of a set; time is the
number of polls. A statement that fails undoes its transaction and ends the walk
(`Raise`), except after a raw `COMMIT` under psycopg2, where the two raw scripts
catch the exception and go on. The connection of the walk is never closed
(env.py:100): a transaction that alembic does not know of (`orphan`) may be open
until the process ends, past the unlocking (`LetGo`, `Lingers`). The `--check`
text scan is the set of *kinds* of lines it tells apart (`Lines`, `Destructive`).
psycopg2 and psycopg 3 differ in whether they notice a raw `COMMIT`; `Driver` chooses. `Populated` says whether the `alert`
table has rows, without which 5dfe012ad560 never reaches its `conn.commit()`.

### Scripts and Lineage

`KeepMigrate` asks what can go wrong between processes, whatever the scripts
do; `Lineage` asks whether the scripts fit each other. Its state is the
database, `rows` of `alembic_version` and `schema`, and how the last run ended
(`stuck`: nothing, or the step that failed). Its one action `Converge(t)` is a
whole run, from the reading of the revision to the exit: one process at a time
is what `MutualExclusion` proves of `KeepMigrate`. The graph arithmetic is the
same `RevisionMap`, instantiated with the real history.

A catalog is a set of tables, enum types, columns, indexes, constraints and
foreign keys. A script is two sequences of edits of it; an edit says what must
be there, what must not, what it takes away and what it makes, so that
`CREATE INDEX` and `CREATE INDEX IF NOT EXISTS` are different, and whether it may
be passed over (`IfFits`): renames that look at the columns first, and what the
two raw scripts catch. Most scripts are of a plain kind (`Addition`, `Removal`, `Alteration`, `Creation`, ...); those
whose `downgrade()` is not the mirror of their `upgrade()` are written out, with
a comment saying how. They are read on PostgreSQL, with the branch the scripts
take there. `Cross` is one revision of a walk and `Saved` what it commits: a
script in an `autocommit_block` commits what came before it and itself, ahead of its own
restamp; after a raw `COMMIT` (psycopg2) every statement commits, those before
one that fails included (`Crossed`).
`Walked` passes the revisions of the history in order and runs those of its
path, in stretches of twelve (`Along`): that changes nothing but how deep TLC's
evaluation nests. `Whole` is `ConvergeSpec` over the real history, with
`Applied(rows)` for what is applied and one command line for each target.

Left out of a script: types, defaults, nullability, the statements that touch
rows, and of a `CREATE TABLE` the columns and indexes no later script mentions
(they come and go with the table). The database holds no rows, so what fails on
data (a `NOT NULL` or unique constraint over what is there) runs here, and the
`conn.commit()` of 5dfe012ad560 is not reached; that one is `BackfillByHand`.

### PreSyncHook

| variable | in the code |
|---|---|
| `desired`, `op`, `commits` | the four values of the chart that move (gateway image, migrations image, target, `allowDestructive`): as last committed, and as the sync under way took them |
| `phase` | of the sync operation: `presync`, `rollout`, or how it ended |
| `job`, `age`, `waited` | the Job: where it is or how it ended; its time, and that of its wait for the lock, in polls |
| `holder` | of the advisory lock: nobody, the Job, or another (an old pod that migrates as it starts, a run by hand, the session of a killed Job); that other may move the schema too |
| `schema` | how far along the history the database is |
| `deployment`, `serving` | the image of the Deployment, the images with pods past `/readyz` |

| action | in the code |
|---|---|
| `Release`, `MoveApp`, `RollBackSchema` | commits: a release, an app rollback or roll forward, the second commit of a schema rollback |
| `StartSync` | the PreSync hook with `BeforeHookCreation`: the old Job goes as the new one comes |
| `PodStarts`, `TakeLock`, `GiveUp` | the first reading, the lock and the second reading, the timeout |
| `Walk`, `WalkEnds` | part of a walk, up to a commit of its own; exit 0 |
| `JobRaises`, `Evicted`, `Exceed` | exit 1, an eviction or a terminated sync, `activeDeadlineSeconds`; `backoffLimit: 0`, so no retry |
| `Apply`, `SyncFails`, `Healthy`, `Stuck` | how Argo takes the end of the Job, and of the rollout |
| `PodReady`, `OldPodsGone` | the pods of the rolling update |
| `Tick` | one poll interval |
| `OtherTakes`, `OtherWalks`, `OtherReleases` | another holder of the lock: it may walk part of the way of the operation's own command line |

`Walk` is `ConvergePartly` of `ConvergeSpec`, instantiated with the chain
1..Top: `Mixed` shows that `KeepMigrate` implements that, under kills and with
scripts that commit by themselves, so that `PreSyncHook` need not know how.
`TakeLock` and `PodStarts` use `ConvergeSpec`'s `Direction`. An image is two
numbers: what it needs is there from `Built[i]` to `Until[i]`. `Release` has
"every migration must be safe against the old code" (docs/chart.md) as its
guard: the walk stops short of what the image that serves declares. `Hasty` says
whether the second commit of a rollback may come before the first is rolled out.

`OtherWalks` is a run by hand of the values that are being synced, or the
`COMMIT` a Job had sent when it was killed: the schema the Job finds under the
lock is not the one it read before. Its limits: nobody runs other values by
hand, which no property here would survive (an operator can drop anything), and
a `COMMIT` that was sent lands before the next operation takes other values. An
old pod that migrates as it starts stops at what its own image needs, which is
there while it serves.

### Backfill

`last`, `enr` and `received` are the tables (`lastalert`, `alertenrichment`,
`alert`); `stamped`, `goal`, `way` the walk over three revisions, of which the
first stands for c1d2e3f4a5b6 and, since it does nothing to rows, for
c2d3e4f5a6b7 after it; `pc`, `cursor`, `upto` the paging loop; `seen` and `said`
the snapshot of the UPDATE under way. A row tells apart what the SQL does: which
alert its counters are of (`tracking`), whose assignee and note it has, and its
dismissal. What a user said is a
set of `Facts`: the keys of `enrichments` with a value, and apart from them a
`status` and an `assignee` that are there with none (`jsonb_exists` asks for the
key alone, so the row's own is overwritten: `emptied`), and a `dismissUntil` that
is no date (`untilText`) or only looks like one (`untilBad`).

`Select` is the query for the next page, `UpdateStarts` and `UpdateEnds` the
statement on it: it sees the tables as they were when it started (read
committed), but looks again at a row that was changed since, and leaves it out
when it no longer joins the alert it had. `UpdateRaises` is a statement with an
`untilBad` in its page: the cast fails, and with it the walk. `Undo` is a downgrade, `Kill` a killed
pod whose statement the server may complete. `Receive` and `Enrich` are the
application's *old* code, which knows nothing of the columns: the new image is
not there before the Job has succeeded. Three variables record history, for the
properties alone: `moved` and `late` are the rows the application wrote behind
the cursor, which no later batch of the same run comes back to; `torn` that a
rollback was killed between its reset and its restamp.

Left out: the statement of a killed process is over before the next process
starts (`KeepMigrate` has the ones that are not); the revisions after
c4d5e6f7a8b9 that use these columns (drop_alertenrichment, e2b3c4d5f6a7,
derive_alert_suppression).

### EventColumn

`row` says of each alert whether its `event` is copied, `held` which rows a
transaction of the application holds (an insert, or `FOR KEY SHARE` by a foreign
key), `locked` whether the walk has `ACCESS EXCLUSIVE` on the table, `mode`
whether alembic's transaction is still its own, as in `KeepMigrate`. `Alter` is
the `ADD COLUMN IF NOT EXISTS` at the top of 5dfe012ad560, `CopyBatch` and
`Commit` a turn of its loop, `Drop` 2b4dd4b88121, `End` the commit of the walk
or the silent rollback that `BackfillByHand` finds.

A walk that ends at 5dfe012ad560, one that has met a raw `COMMIT` before, and
the two downgrades are left out; the application does not rewrite the `event`
of an alert that was copied.

### Properties

The invariants and action properties are stated, with the code behaviour each is
about, at the end of the module they are of. In short:

- `OneWalker`, `WaitsForTheDead`, `LockIsReleased`, `EveryRunEnds`: the lock,
  and what it is for, that no walk waits for another's table (but for what a
  process on its way out still holds after `conn.commit()`).
- `NoDowngradeWithoutConsent`, `NothingPastTheTarget`: direction and consent,
  across the wait for the lock.
- `RowsAreTips`: alembic's bookkeeping over merges.
- `SchemaMatchesStamp` (transactional scripts), `StampedIsBuilt` and
  `AheadByOneAtMost` (any scripts): stamp against schema. `StampedIsBuilt` counts
  as built what PostgreSQL (an INVALID index) or a raw script (what it caught)
  passed over when a statement failed, and says that nothing else ever is missing.
- `ExitZeroMeansConverged`: the meaning of exit 0.
- `KillNeverWedges`: a killed run can be resumed.
- `EveryWalkRuns`, `ConvergedIsBuilt` (`Lineage`): no walk meets a catalog its
  scripts cannot run on, and wherever it ends the schema is that of a fresh
  build. `ExitZeroIsThere`, `WalksTowardsTarget`: the strong `ConvergeSpec` for
  the runs that exit 0, the weak one for all of them.
- `ServingWorks`, `RolloutOnConverged` (`PreSyncHook`): images against schema,
  through rollouts, failed Jobs and rollbacks; `WaitIsExplained`: which of two
  limits is met first; `SyncEnds`, `LastCommitTried`: no operation is stuck, and
  none is in the way of the last commit.
- `TrackingFits`, `OverridesInForce`, `AlertsNoteKept`, `BackfillEnds`
  (`Backfill`): no row left behind, nothing said lost, the loops end.
- `EventKept`, `SyncsGetThere` (`EventColumn`): no event is dropped uncopied, and
  the walk gets past it.
- `ConvergesInWholeWalks`, `ConvergesInParts`: refinement of `ConvergeSpec`
  (`applied <- Applied(stamped)`), in its strong and its weak form.

## 3. What is checked

The runs of `KeepMigrate` use four revisions (`LostLock` six): enough for a
merge with both its sides, or for a chain with a script of each kind between two
plain ones. In `LostLock` two pinned targets are on parallel branches, so that two
walks can both commit. `LockPolls = 1` lets a
waiter either get the lock after a wait or give up. No run takes more than three
minutes.

| run | instance | shows |
|---|---|---|
| `Diamond` | diamond, transactional scripts; 3 processes; 5 command lines; one fault of any kind but a lost lock session; 1.05 M states | `TipsInv` (and in it `WalkInv`, and that rows are tips), mutual exclusion, no waiting for the living, no walk past its target, exit 0, refinement by whole walks (which has consent in it) |
| `LostLock` | 2 processes on a braid of six revisions (two merges sharing a branch, as 3680b37fcc51 and merge_p2_alertstd do); 2 faults among a lock session that drops under the walk, a kill, a failed unlock, a failed statement; fairness; 207,000 states | two processes may walk at once: both up (`ReleasesAbreast`, which is `RaceInv` as long as nobody has the flag), or one of them down, where schema and consent survive (of these command lines: section 4 has others, and what becomes of the rows); every process ends and the lock is let go |
| `Releases` | chain of all kinds of script under psycopg2; releases; 2 kills or failures | `StampedIsBuilt`, `AheadByOneAtMost`, `ReleaseInv` with every transaction mode, a failed statement that the raw script catches among them; 596,000 states |
| `Mixed` | chain with index build and backfill in autocommit blocks, the backfill with an empty `downgrade()` as c4d5e6f7a8b9; releases, rollbacks, dry runs; 2 kills; 1.3 M states | `SettledInv`, no wedge, refinement in parts |
| `Lineage` | the real history from an empty database; 48 targets, 59991b568c7d to the tip, in any order; 244 states, 222,000 scripts run | over the recent history every rollback and every release runs, keeps the rows right at the merges, goes all the way, and ends in the schema of a fresh build |
| `Hook` | 3 releases over 6 revisions, 5 commits, a lock timeout of 2 polls, a deadline of 4, a pod that takes 1 to start, another holder of the lock that walks too; 48,000 states | no pod without its schema, no rollout over another, no unexplained kill, every sync ends, the last commit is tried |
| `Backfill` | 2 keys, 2 enrichments, pages of 1; 3 runs to any target, 2 writes, 1 kill; enrichments with empty keys and a date that does not cast; 1.9 M states | no row left behind, nothing said lost, the loops end |
| `EventColumn` | 3 alerts, batches of 2, 1 kill, any number of syncs; 1,400 states | no event dropped uncopied; syncs get past it |

`Lineage` stops at 59991b568c7d because the properties do: below it are
`downgrade()`s that cannot run (0dafe96ea97f, 83c1020be97d, 8a4ec08f2d6b,
87594ea6d308 and 8e5942040de6, on any database) or that leave behind what their
own `upgrade()` then stumbles over (273b29f368b7 an enum type, 938b1aa62d5c a
column, 16309df224d1 a backup table), and 59991b568c7d's own is empty and leaves
an index. From there up the names of two foreign keys and of one unique
constraint are all that a rollback and a release may change (885ff6b12fed,
drop_alertenrichment), which is why `ConvergedIsBuilt` compares tables, columns
and indexes: what the gateway's `/readyz` compares, and indexes besides.

Three processes are what it takes for one to hold the lock, one to wait and one
to move the database between the first's two readings; two faults are what it
takes for a recovery to be interrupted. Symmetry is over the processes, in runs
without liveness only. `LostLock` switches deadlock checking off because a
killed process may leave a zombie whose statement waits; the other runs of
`KeepMigrate` check it, with `AllEnded` as the one legitimate end, and so do
`Lineage` and `Hook`. `Backfill` and `EventColumn` really stop: out of runs and
writes, or with the column gone.

Five commits are what it takes for a release, a rollback of its app and its
schema, and another release over what that left, with one to spare that comes
while an operation is under way. Two keys with pages of one are two pages, with
a row on either side of the cursor; three runs are a release, a rollback and a
release; two writes are one before a page and one within it. Three alerts in
batches of two are a full batch, a short one and an empty one.

Fairness. In `LostLock` a process that can take a step takes it, and the server
eventually ends the sessions of a dead client. The code is straight-line Python
with a bounded poll loop, and PostgreSQL has TCP keepalive, so weak fairness on
`Run`, `ReapWalk` and `ReapLock` is all that is assumed. Nothing forces a sync
to start or a fault to happen, and nothing is assumed of zombies' statements.
In `Hook` Argo goes on with an operation and starts one for a commit it has not
tried, time passes, Kubernetes enforces the deadline, and a process that has the
lock free or its timeout passed does something about it; nothing makes a walk
end (its DDL may wait for the application's locks for ever), the holder of the
lock let go, or a pod get ready. In `Backfill` the process takes its next step;
the application need not do anything. `SyncsGetThere` assumes no fairness: it is
about behaviours in which syncs start and end again and again.

### What the repository says and the program does not do

Each of these is a run that TLC answers with a counterexample.

- `NothingPending`: "A run with nothing pending exits 0" (README.md). After a
  rollback into a diamond there are two rows, `.first()` may return the other
  one, and the run refuses as divergent.
- `BackfillByHand`: after `conn.commit()` in 5dfe012ad560 the rest of the walk
  is rolled back, and the process exits 0. c3d4e5f6a7b8 says in a comment why
  it does not do that.
- `FailedRollback`: a rollback to below 0dafe96ea97f fails there, always. It has
  crossed c2d3e4f5a6b7 by then, whose autocommit downgrade has committed its
  `DROP INDEX` statements; the restamp is rolled back. The next release starts
  after c2d3e4f5a6b7 and exits 0 with three indexes missing. No kill is needed.
- `CheckOneRow`: `--check` is to "exit non-zero if the path is destructive"
  (README.md:35), but with two rows in `alembic_version` it renders the path from
  the one that was read. After a rollback to one side of a diamond the check of a
  further one passes although the walk drops what is on the other side. On a
  chain, and for `--check head`, there is one row or nothing above the target.

Others are a run's cfg away. A statement that fails in 90e2d22edc6a after its
`COMMIT` (a lock timeout, a full disk) is caught as "already exists. It's ok."; the
walk restamps and exits 0 without the index, as 971abbbf0a2c does without an
index or a foreign key: `ExitZeroMeansConverged` in `BackfillByHand`, with revision 2
`raw` instead of `manual` and `"statement"` a fault. A rollback killed between an
autocommit downgrade and its restamp leaves what `FailedRollback` finds without a
kill, and the next run exits 0 over it (`ExitZeroMeansConverged` in `Mixed`). Any process
that finds its target stamped exits 0 before it looks at the lock (cli.py:231),
also while another with other values is walking; the property is about the
processes that hold the lock. The second shape `--check` refuses, "*only*
`UPDATE alembic_version`" (README.md:45-47), never occurs, because offline output for
PostgreSQL has `BEGIN;` and `COMMIT;` lines too: a downgrade over nothing but
empty `downgrade()` functions passes (`Destructive` and `Lines` in `KeepMigrate`).
A `dismissUntil` that looks like a date and is none (c4d5e6f7a8b9.py:72) fails
that release and every later one until it is mended. And with `Hasty = TRUE` in
`Hook` the second commit of a rollback may be the only one Argo sees, and
`ServingWorks` is violated: the two commits of docs/chart.md:160-163 are an ordering guarantee only for those who wait for the
first. c4d5e6f7a8b9.py:112 says that the downgrade of task 1.3 "already resets
these columns", but c3d4e5f6a7b8's leaves `status`, `dismiss_mode` and
`dismissed_until` alone: after a rollback to c2d3e4f5a6b7 they are still there,
and a dismissal taken back before the next release stays. That `event` is not
lost is an accident: what shuts the application out is an `ALTER TABLE` that
does nothing, and what saves the rows inserted after its lock is gone is that
`conn.commit()` has the `DROP COLUMN` rolled back. Mending 5dfe012ad560 with an
`autocommit_block` alone would lose them (`CommitInBlock` in `EventColumn`). The
lock wait and the walk share one deadline: a Job that waited 600 s has 300 s
left to walk (values.yaml:34,50).

Seen while reading: docs/chart.md speaks of `migrations.enabled` and
`migrations.dbSecretName`, which neither the template nor values.yaml has;
"`upgrade head` applies
every pending revision in ONE transaction" (migration-job.yaml:35) is not so with
an `autocommit_block` in the path, as docs/chart.md:164 says itself, which is why
`Mixed` refines `ConvergeSpec` in parts only; exit code 2 ("failed") is
never used, a failed walk exits 1 (cli.py:12, README.md:50); an *upgrade* that
drops a column runs without `--allow-destructive` (cli.py:45-47 speaks of "a
destructive path"); a dropped lock session goes unnoticed, so the walk does
proceed without the lock (runtime.py:113, run `LostLock` is what is left then);
closing the connection after a failed unlock returns it to the pool, and the
lock stays until the process ends (runtime.py:177); two of the "four" concurrent
index builds of docs/chart.md:167 are backfills; README.md counts 123 revisions
and 17 empty downgrades where there are 127 and 20;
cli.py:52 counts four downgrade paths that drop indexes and nothing else, of
which there are more than ten.

## 4. What is proved

`tlapm` checks every leaf of the eight proof modules. Every safety property that
a passing run checks is a theorem, on the conditions in the table, but for two
of `Lineage` (`EveryWalkRuns` and `ConvergedIsBuilt`, see below). D stands for
"no lock session is lost under a walk" (`"drop" \notin Faults`).

| theorem | says | if |
|---|---|---|
| `TypeCorrect` | `KeepMigrate`: `Spec => []TypeOK` | |
| `WalkCorrect`, `MutualExclusion`, `WaitsForNobodyAlive` | `[]WalkInv`, `[]OneWalker`, `[]WaitsForTheDead` | D |
| `ConsentNeeded`, `TargetNotPassed` | `NoDowngradeWithoutConsent`, `NothingPastTheTarget` | D |
| `ReachCorrect` | `[]ReachInv` | D |
| `PartsPromised` | `ConvergesInParts`: the weak `ConvergeSpec` is implemented | D |
| `WholeWalksPromised` | `ConvergesInWholeWalks`: the strong one | D, all scripts plain |
| `TipsCorrect`, `RowsAlwaysTips` | `[]TipsInv`, `[]RowsAreTips` | D, `ShortcutsImplied`, `StampsAreTips` |
| `SettledCorrect` | `[]SettledInv` | D, `OrderlyScripts` |
| `SchemaAlwaysMatches` | `[]SchemaMatchesStamp` | D, all plain, `OrderlyScripts` |
| `KillsNeverWedge` | `[]KillNeverWedges` | faults are kills, failed lock calls and failed unlocks; `OrderlyScripts`, `FullImages` |
| `ToppingCorrect` | `[]Topping` | D, `NoOwnCommits`, `ShortcutsImplied`, `StampsAreTips` |
| `ExitZeroConverged` | `[]ExitZeroMeansConverged` | D, all plain, `OrderlyScripts`, `ShortcutsImplied`, `StampsAreTips` |
| `ReleasesExitConverged` | `[]ExitZeroMeansConverged`, of releases | D, `ReleasesOnly`, `NoOwnCommits`, `ShortcutsImplied`, `StampsAreTips`; statements fail or there are index builds, not both |
| `ReleaseCorrect`, `StampedStaysBuilt`, `NeverFurtherAhead` | `[]ReleaseInv`, `[]StampedIsBuilt`, `[]AheadByOneAtMost` | D, `ReleasesOnly`; scripts of any kind (what a failed statement left out and was passed over counts as built: `PassedOver`) |
| `RaceUntilConsent` | `[]ReleasesAbreast` | all scripts plain, `StampsAreTips`; neither D nor `ReleasesOnly` |
| `RaceCorrect` | `[]RaceInv` | `ReleasesOnly`, all scripts plain, `StampsAreTips`; not D |
| `UnlockedReleasesKeepTips`, `UnlockedReleasesMatchSchema`, `UnlockedReleasesPromised` | `[]RowsAreTips`, `[]SchemaMatchesStamp`, `ConvergesInWholeWalks` | likewise |
| `TypeCorrect`, `TipsCorrect` (`LineageProofs`) | `Lineage`: `[]TypeOK`, `[]RowsAreTips` | |
| `HistoryPromised`, `ExitZeroArrives` | `WalksTowardsTarget`; `ExitZeroIsThere`, and that it is each run's own target | |
| `HookCorrect`, `HookTypeCorrect` | `PreSyncHook`: `[]HookInv`, `[]TypeOK` | the second commit of a rollback waits; nobody runs other values by hand (`OtherWalks`) |
| `ServingAlwaysWorks`, `RolloutBlocked` | `[]ServingWorks`, `RolloutOnConverged` | likewise |
| `WaitAlwaysExplained` | `WaitIsExplained` | likewise, and lock timeout and pod start are together below the deadline |
| `TrackingCorrect`, `BackfillTypes` | `Backfill`: `[]TrackingInv`, `[]TypeOK` | |
| `NoRowLeftBehind`, `NotesStayWithAlerts` | `[]TrackingFits`, `[]AlertsNoteKept` | |
| `OverridesCorrect`, `NothingSaidIsLost` | `[]OverrideInv`, `[]OverridesInForce` | |
| `EventCorrect`, `EventTypes`, `EventNeverLost` | `EventColumn`: `[]EventInv`, `[]TypeOK`, `[]EventKept` | |

### KeepMigrate: the graph

Everything holds for any finite graph, any set of processes and command lines,
either driver, and any number of faults. The assumptions are the named ASSUMEs:
revisions are numbered so that a script's parents come before it, `Anc` solves
its recursion equation, command lines are well formed. That `Anc` is then the
ancestor relation (transitive, antisymmetric, below its argument, each ancestor
reached by a child) is proved, each time from the least revision that would be a
counterexample (`FirstOf`, `AncBelow`, `AncTransitive`).

The conditions, and where the code stands:

- D: `LostLock` is a counterexample to `OneWalker` without it.
- `ShortcutsImplied`: if a script has a parent that another of its parents
  implies, every revision that can stand beside it implies that parent too.
  alembic stores such a parent as a row of its own when it unmerges; without the
  condition a row could remain that another row implies. 90e3eababbf0 is such a
  script. It is an ASSUME of `Lineage`, so TLC evaluates it on the real history.
- `StampsAreTips`: the database a run first sees is one alembic could have left.
- `NoOwnCommits`: no `conn.commit()`, no raw `COMMIT`. `BackfillByHand` is what
  they do to exit 0. `OrderlyScripts` is that, and where rollbacks are asked for,
  no plain script with an empty `downgrade()`, which leaves what its `upgrade()`
  made and then raises on. Twenty scripts have one; those that tolerate what they
  find (c4d5e6f7a8b9 in its autocommit block) and releases alone are within the
  condition.
- Statements fail or there are index builds, not both (`ReleasesExitConverged`):
  a concurrent build that fails leaves an INVALID index, which the retry takes
  for the one it wants and stamps, and then exits 0.
- `FullImages`: the processes that run all know every revision. An older image
  fails on rows it does not know, and is meant to.
- `ReleasesOnly`: nobody is given `--allow-destructive`. A downgrade that commits
  its statements ahead of its restamp leaves a stamp over what is gone, as
  `FailedRollback` shows.

Each instance of a passing run that checks one of these properties meets the conditions
of its theorem, but for `LostLock`, which has rollbacks beside its lost lock.

### KeepMigrate: the arguments

Consent and target are conditions on the *committed* rows, but the process
decides by a reading and commits much later, possibly in several parts.
`WalkInv` bridges that:

- `OneWalker`: under the lock nobody else commits, so `stamped` changes only by
  the walk itself. Proved with `LockStep` (who may change `lock`, and when).
- `Consented`: the guard's verdict is still true of `way` when the walk is on.
- `NothingOpen`: a process that is not walking has nothing uncommitted, so a
  walk starts from the committed rows.
- `OnCourse`: alembic's in-memory rows are what its transaction sees, whatever
  mode it is in; they lie between the committed rows and the target, and the
  plan is disjoint from (upgrade) or within (downgrade) what they imply. Keeping
  that over a restamp is the core: `RowsUpApplied` and `RowsDownApplied` say
  what one restamp does to the set of applied revisions, merges included, and
  `IsNext` that no ancestor of the restamped revision is still to come.

Then a commit, whole or partial, can only move `Applied(stamped)` towards the
walk's target (`CommitsOnCourse`), from which both action properties follow.

That the walk also *gets* there needs the converse, `Reaching`: the plan is all
that lies between the rows and the target, and the target of a downgrade is
applied from the second reading on. With an empty plan the target is reached,
which is `ConvergeSpec`'s step (`WholeWalksPromised`: of plain scripts nothing is
committed before, `OneTransaction`); a commit on the way is its weak step
(`PartsPromised`).

`TipsInv` adds that no row implies another. One restamp keeps that because the
one before it did, and because of what is left to walk (`RowsUpTips`,
`RowsDownTips`): a row that a merge replaces is not below another row, and a
parent that an unmerge brings back is not below one that stays.

`SettledInv` says where an uncommitted statement is: `BlocksOnly`, that one
commits by itself in an `autocommit_block` and nowhere else; `PlainSettled`, that
a plain script is in the schema exactly if it is applied, in two views at once,
the committed one and the walk's, which differ in the revision the walk is in
the middle of. `KillsNeverWedge` then goes through every way a process can fail:
each script finds a level it can start from, each restamp the rows it is about
to change. `Topping` is about the process rather than the walk: what is built on
its target, from the second reading to the exit.

`ReleaseInv` holds of every kind of script, and so says less: in the committed
schema and in what each walk sees, what is stamped is built, or `flawed` if it is
an index or a raw script (`Built`), and what is begun has its parents stamped
(`InOrder`); the statement that a killed process leaves
to the server belongs to the next revision (`OrphansInOrder`), which is why it
can come at any later time but not after a rollback.

`RaceInv` does without the lock: any number of walks go up at once, each in one
transaction and from a copy of the rows that others may have moved on from. What
keeps them apart is that PostgreSQL holds a statement back while another session
has written its object or its row, that a plain script raises on what is there
already, and that alembic raises when a row it replaces is gone or one it writes
is there. So no two walks have written the same revision (`Apart`), a walk has
written what it has crossed (`Wrote`), and its rows add that to what is committed
(`Beside`). Two set-theoretic lemmas carry it: `StampBeside`, for a walk that
restamps over rows another has committed, and `CommitBeside`, for a walk that
stands by while another commits. The promise of `ConvergeSpec` follows without D.
`RaceUntilConsent` has the same invariant where rollbacks may be asked for: no
step of a release needs more than that the others are releases too, and the
conclusion is void from the start of the first process with the flag.

`ReleasesExitConverged` puts two invariants together that neither would do alone:
`ReleaseInv`, that what is stamped is built or flawed, and
`Topping`, that the target is stamped. That nothing is flawed needs one more
(`NoneFlawed`): an index build is left so only where a statement fails.

### PreSyncHook

For any images with `Built[i] <= Until[i]`, any limits and number of commits.
`ServingWorks` is about the images that serve and the schema, but what a walk
may do to the schema depends on values committed earlier. `HookInv` ties them:
wherever the schema is not yet what the operation, or the last commit, asks for
(`SafeToWalk`), exactly one image serves, that of the Deployment, and it works
at both ends of the walk; as what an image needs is an interval of the history,
it works everywhere in between. Both images serve during a rollout, so a rollout
needs `Converged`, and a goal that moves needs the application at rest
(`GoalMovesAtRest`, `OneImageServes`), which is what `~Hasty` and the guard of
`Release` give. `WaitAlwaysExplained` has an invariant of its own: the age of a
waiting Job is at most the time of its start and of its wait.

### Backfill and EventColumn

For any finite tables, any batch size and any number of writes, runs and kills.
`TrackingInv` says of every row that c3d4e5f6a7b8 is past (`Covered`: stamped, or
behind the cursor) that its counters are those of its alert, unless it was moved
(`CoveredFit`); that an UPDATE under way has the alerts there are in its snapshot,
but for those moved (`SnapshotFits`); and that a row that is not there has none.
An empty page then means that the table is covered (`EmptyPage`, by the least
element of what is past the cursor). `NotesKept` says the same of notes, which
c4d5e6f7a8b9 may replace but not take away, and of assignees, which it takes away
where the enrichment has an empty one: `jsonb_exists` (line 76) asks for the key
alone. So `AlertsNoteKept` claims an alert's assignee only where the enrichment
has no such key.

`OverrideInv` is to c4d5e6f7a8b9 what `TrackingInv` is to c3d4e5f6a7b8, over the
other table: every enrichment it is past (`Heard`) and that was not written late
is in the row of its alert (`HeardFollowed`). A batch rewrites rows of
`lastalert` by fingerprint while it pages by the id of the enrichment, so it
must not come back to a row an earlier batch wrote. It does not, because a
fingerprint has one enrichment (`OneEnrichment`) and an enrichment in the
snapshot is still there and still of that alert (`SaidStays`, `SaidFits`).

`EventInv` says that the lock of the `ALTER` is held as long as the transaction
is alembic's (`LockedOut`, `LockKept`), so no row is held and an empty batch
means that nothing is left (`NothingLeft`); after the first commit the
transaction is an orphan, and `event` stays.

### Lineage

For any targets, after any number of runs and failures, which is more than the
run can visit: its targets stop where the scripts stop working. Three things
carry it.

- What a walk may rely on (`Walkable`): the path up holds, with a revision, what
  it stands on and is not applied yet, the path down all that is built on it. So
  after n revisions of the history `AppliedPast` says what is applied, and one
  restamp takes that one further (`RestampOnWay`, by the lemmas about restamps
  that serve `KeepMigrate`). `OnWay` says it of the walk's own rows, and that
  those it has committed, which a failure goes back to, are between the start and
  the target and have no row too many (`RowsOnWay`). It is kept by one revision
  (`PassedOnWay`) and hence, from the least revision or stretch that would be a
  counterexample, by all (`WalkedOnWay`), a walk that fails included.
- That a recursive function has the value its equation says (`ExecutedIs`,
  `StretchIs`, `StretchesIs`): TLA+ defines it as some function that satisfies
  the equation, so one has to be shown to exist. It is built one argument
  further, from the least n up to which there is none.
- That an edit keeps the catalog free of loose ends (`EditWellBuilt`): `Fits`
  refuses to drop a table a foreign key of another one refers to, and a script
  makes nothing for a table it drops, nor for one that is not there.

The graph and the scripts come in as `HistoryAssumption` and `EditsAssumption`
only: the one says that the history is a revision map whose redundant parents
are implied, the other what an edit looks like. TLC evaluates both on the 127
scripts, and a script added to `History` needs no new proof as long as they hold.

### Only model-checked

Rollbacks that lose their lock session (`LostLock`). What that run shows of them,
schema and consent, is a fact about its graph and its command lines, not a
theorem to be proved, and it claims nothing of their rows:
with two merges that share a parent (5 over 2 and 3, 6 over 2 and 4, both
stamped), two downgrades at once to 3 and to 4 each leave the shared parent to
the other's row, and then it is in the schema and no row implies it. No two
unrelated revisions of the real history have that shape. On the braid itself, a
rollback to 2 beside an upgrade to 5, from rows 3 and 4, leaves 2 as a row that
5 implies: `RowsAreTips` is violated. Both are a change of `LostLock`'s constants
away.

Nor is anything claimed of releases that lose the lock over scripts that run in
an `autocommit_block`: on the braid, with index builds and backfills, two of them
can break `RowsAreTips`. Both may run the same such script, since its objects
are there or not whoever makes them, and a walk that commits in the middle
leaves rows the other's plan did not reckon with: a revision whose parent is no
longer a row is inserted beside one that implies it. On a chain of such scripts
TLC finds no violation of `RowsAreTips`, `StampedIsBuilt`, `AheadByOneAtMost` and
`ConvergesInParts` (two processes, two faults).

`EveryWalkRuns` and `ConvergedIsBuilt`: they say of 127 scripts that each fits
the catalog all the others leave, which is a computation and not an argument,
and they are false below 59991b568c7d. Liveness: the
provers have no rule for fairness or ENABLED.

## 5. Not modelled, and the plan

Done, in this order: `RevisionMap`, `KeepMigrate`, `ConvergeSpec`, their runs, the
invariants and the theorems above, `Scripts` and `Lineage`; `PreSyncHook`,
`EventColumn` and `Backfill`, with their runs and proofs; the refinement of
`ConvergeSpec` and the other safety properties of `KeepMigrate`; the theorems
about `Lineage`. What the proofs leave, and why, is the end of section 4. What
the model could still grow by are the revisions after c4d5e6f7a8b9 that rewrite
the columns `Backfill` is about.

Left out: `list_migrations` (prints), logging, engine construction, MySQL and
SQLite (the lock is a no-op there and the scripts take other branches); the
gateway's code, in another repository: what its old images do at startup is one
more holder of the lock (`OtherTakes`, `OtherWalks`), and `/readyz` is `Works`; what scripts do
to rows inside alembic's transaction, where no other process sees half of it;
tests, image build and CI, which keep no state of the running system.
