---------------------------- MODULE PreSyncHook ----------------------------
(***************************************************************************)
(* One Argo application: the commits that change the chart's values        *)
(* (chart/values.yaml), the syncs that bring them to the cluster, the      *)
(* migration Job as their PreSync hook (chart/templates/migration-job.yaml)*)
(* and the pods of the gateway, whose /readyz compares the schema with     *)
(* what their image declares (docs/chart.md).                              *)
(*                                                                         *)
(* The history is the chain 1..Top here and the schema is how far along it *)
(* the database is.  What the Job may do to it is ConvergeSpec, which      *)
(* KeepMigrate implements.  Argo, Kubernetes and the gateway are modelled  *)
(* as the chart and its documentation use them.                            *)
(***************************************************************************)
EXTENDS Naturals, FiniteSets

CONSTANTS
  Images,       \* the releases of the gateway image, numbered as released
  Top,          \* the last revision of the history
  Built,        \* Built[i]: the last revision that image i needs
  Until,        \* Until[i]: the last one before what it needs is taken away
  First,        \* the image that serves at first
  LockTimeout,  \* KEEP_MIGRATION_LOCK_TIMEOUT_SECONDS, in polls of the lock
  Deadline,     \* activeDeadlineSeconds, likewise
  StartTicks,   \* how long the Job's pod takes to start at most, likewise
  Hasty,        \* the second commit of a rollback may come too early
  MaxCommits    \* bound: commits in one behaviour

ASSUME ImagesAssumption ==
  /\ Images \subseteq Nat /\ First \in Images
  /\ Top \in Nat
  /\ Built \in [Images -> 1..Top] /\ Until \in [Images -> 1..Top]
  /\ \A i \in Images : Built[i] <= Until[i]

ASSUME TimesAssumption ==
  /\ LockTimeout \in Nat /\ Deadline \in Nat /\ StartTicks \in Nat
  /\ Hasty \in BOOLEAN /\ MaxCommits \in Nat

VARIABLES
  desired,     \* the values in git, as of the last commit
  op,          \* the commit the last sync operation took
  phase,       \* where that operation is
  job,         \* where its Job is, or how it ended
  age,         \* how long the Job has been there
  waited,      \* how long it has been polling for the lock
  holder,      \* who holds the advisory lock
  schema,      \* the last revision the database has
  deployment,  \* the image of the Deployment
  serving,     \* the images with pods that have passed /readyz
  commits      \* commits so far

cluster == <<deployment, serving>>
clock   == <<age, waited>>
vars    == <<desired, op, phase, job, age, waited, holder, schema, deployment,
             serving, commits>>

HEAD == 0   \* target: head

(* The four values of the chart that move. *)
Values == [image : Images,      \* image.tag of the gateway
           tag : 1..Top,        \* migrations.image.tag: the last script it has
           target : 0..Top,     \* migrations.target
           allow : BOOLEAN]     \* migrations.allowDestructive

Phases  == {"presync", "rollout", "synced", "failed"}
Running == {"pending", "waiting", "walking"}
Ended   == {"succeeded", "refused", "timedout", "raised", "exceeded"}
Holders == {"free", "job", "other"}

-----------------------------------------------------------------------------
(* What the Job is given and what it may do *)

(* Mutant: the chart leaves the variable out, and the code's default applies. *)
PatienceByDefault == 6 * LockTimeout

(* The timeout of the lock that is in force. *)
Patience == LockTimeout

Chain == INSTANCE ConvergeSpec
           WITH Rev      <- 1..Top,
                Down     <- [r \in 1..Top |-> {r - 1} \ {0}],
                Anc      <- [r \in 1..Top |-> 1..r],
                Requests <- {}, Stamps <- {},
                applied  <- 1..schema

Goal(c) == IF c.target = HEAD THEN c.tag ELSE c.target

(* args: --target and --allow-destructive, resolved in the Job's image. *)
CommandLine(c) ==
  [cmd |-> "run", image |-> 1..c.tag, target |-> Goal(c), allow |-> c.allow]

(* A reading of the revision: the Job is over, or it has to walk. *)
Verdict(c) ==
  LET dir == Chain!Direction(1..c.tag, schema, Goal(c)) IN
  CASE dir = "converged"                -> "succeeded"
    [] dir = "upgrade"                  -> "walking"
    [] dir = "downgrade" /\ c.allow     -> "walking"
    [] OTHER                            -> "refused"

(* /readyz: every table and column this image declares is there. *)
Works(i, s) == Built[i] <= s /\ s <= Until[i]

Initial == [image |-> First, tag |-> Built[First], target |-> HEAD, allow |-> FALSE]

Init ==
  /\ desired = Initial /\ op = Initial
  /\ phase = "synced" /\ job = "succeeded"
  /\ age = 0 /\ waited = 0
  /\ holder = "free"
  /\ schema = Built[First]
  /\ deployment = First /\ serving = {First}
  /\ commits = 0

-----------------------------------------------------------------------------
(* Commits *)

Commit(c) ==
  /\ commits < MaxCommits
  /\ commits' = commits + 1
  /\ desired' = c
  /\ UNCHANGED <<op, phase, job, clock, holder, schema, cluster>>

(***************************************************************************)
(* What Argo shows when the last commit is where it ought to be: the pods  *)
(* that serve are those of its image, and of no other.                     *)
(***************************************************************************)
Settled ==
  /\ op = desired /\ phase \in {"synced", "failed"}
  /\ deployment = desired.image /\ serving = {deployment}

(* Mutant: a release takes away what the image that serves declares. *)
ReleaseContracts(i) ==
  LET tag == IF Built[i] > desired.tag THEN Built[i] ELSE desired.tag IN
  /\ Settled /\ phase = "synced"
  /\ i > desired.image
  /\ Commit([image |-> i, tag |-> tag, target |-> HEAD, allow |-> FALSE])

(***************************************************************************)
(* A release: a newer image with its migrations, target head.  "Every      *)
(* migration must be safe against the old code": what the image that now   *)
(* serves needs outlives the walk.                                         *)
(***************************************************************************)
Release(i) ==
  LET tag == IF Built[i] > desired.tag THEN Built[i] ELSE desired.tag IN
  /\ Settled /\ phase = "synced"
  /\ i > desired.image /\ tag <= Until[desired.image]
  /\ Commit([image |-> i, tag |-> tag, target |-> HEAD, allow |-> FALSE])

(* "Rolling the app back needs no schema change": image.tag and no more. *)
MoveApp(i) ==
  /\ i # desired.image /\ Built[i] <= desired.tag
  /\ Commit([desired EXCEPT !.image = i])

(***************************************************************************)
(* "Rolling the schema back is a second commit", after the app one, with   *)
(* allowDestructive or, forgotten, without.  A patient team waits for the  *)
(* first to be rolled out; the chart does not make it.                     *)
(***************************************************************************)
RollBackSchema ==
  /\ Settled \/ Hasty
  /\ \E allow \in BOOLEAN :
       Commit([image |-> desired.image, tag |-> desired.tag,
               target |-> Built[desired.image], allow |-> allow])

-----------------------------------------------------------------------------
(* Argo *)

(* Mutant: an operation that failed is in the way of the next. *)
StartSyncIfSynced ==
  /\ phase = "synced"
  /\ op' = desired
  /\ phase' = "presync"
  /\ job' = "pending" /\ age' = 0 /\ waited' = 0
  /\ UNCHANGED <<desired, holder, schema, cluster, commits>>

(***************************************************************************)
(* A sync takes the last commit there is, once the previous operation is   *)
(* over; it is also started by hand and by self-heal, with nothing new.    *)
(* BeforeHookCreation deletes the Job of the previous one.                 *)
(***************************************************************************)
StartSync ==
  /\ phase \in {"synced", "failed"}
  /\ op' = desired
  /\ phase' = "presync"
  /\ job' = "pending" /\ age' = 0 /\ waited' = 0
  /\ UNCHANGED <<desired, holder, schema, cluster, commits>>

(* "A failed migration leaves the Deployment untouched." *)
SyncFails ==
  /\ phase = "presync" /\ job \in Ended \ {"succeeded"}
  /\ phase' = "failed"
  /\ UNCHANGED <<desired, op, job, clock, holder, schema, cluster, commits>>

(* "For a Job, healthy means completed successfully": then the Sync phase. *)
Apply ==
  /\ phase = "presync" /\ job = "succeeded"
  /\ phase' = "rollout" /\ deployment' = op.image
  /\ UNCHANGED <<desired, op, job, clock, holder, schema, serving, commits>>

Healthy ==
  /\ phase = "rollout" /\ serving = {deployment}
  /\ phase' = "synced"
  /\ UNCHANGED <<desired, op, job, clock, holder, schema, cluster, commits>>

(* The Deployment's progress deadline passes, or the sync is terminated. *)
Stuck ==
  /\ phase = "rollout" /\ serving # {deployment}
  /\ phase' = "failed"
  /\ UNCHANGED <<desired, op, job, clock, holder, schema, cluster, commits>>

-----------------------------------------------------------------------------
(* The Deployment's pods *)

PodReady ==
  /\ Works(deployment, schema)
  /\ serving' = serving \cup {deployment}
  /\ serving' # serving
  /\ UNCHANGED <<desired, op, phase, job, clock, holder, schema, deployment, commits>>

OldPodsGone ==
  /\ deployment \in serving
  /\ \E i \in serving \ {deployment} : serving' = serving \ {i}
  /\ UNCHANGED <<desired, op, phase, job, clock, holder, schema, deployment, commits>>

-----------------------------------------------------------------------------
(* The Job *)

Ends(how) == job' = how /\ holder' = IF holder = "job" THEN "free" ELSE holder

(* The pod is scheduled, the image pulled, the revision read. *)
PodStarts ==
  /\ job = "pending" /\ age <= StartTicks
  /\ job' = IF Verdict(op) = "walking" THEN "waiting" ELSE Verdict(op)
  /\ UNCHANGED <<desired, op, phase, clock, holder, schema, cluster, commits>>

(* pg_try_advisory_lock succeeds, and the revision is read again. *)
TakeLock ==
  /\ job = "waiting" /\ holder = "free"
  /\ job' = Verdict(op)
  /\ holder' = IF Verdict(op) = "walking" THEN "job" ELSE "free"
  /\ UNCHANGED <<desired, op, phase, clock, schema, cluster, commits>>

(* "Another process has held the migration lock for more than Ns." *)
GiveUp ==
  /\ job = "waiting" /\ holder # "free" /\ waited >= Patience
  /\ Ends("timedout")
  /\ UNCHANGED <<desired, op, phase, clock, schema, cluster, commits>>

(* Some of the walk, up to a commit of its own or to the end of it. *)
Walk ==
  /\ job = "walking"
  /\ schema' \in 1..Top /\ schema' # schema
  /\ Chain!ConvergePartly(CommandLine(op))
  /\ UNCHANGED <<desired, op, phase, job, clock, holder, cluster, commits>>

(* Mutant: the process exits 0 when its walk has committed something. *)
WalkEndsEarly ==
  /\ job = "walking"
  /\ Ends("succeeded")
  /\ UNCHANGED <<desired, op, phase, clock, schema, cluster, commits>>

WalkEnds ==
  /\ job = "walking" /\ schema = Goal(op)
  /\ Ends("succeeded")
  /\ UNCHANGED <<desired, op, phase, clock, schema, cluster, commits>>

(* A script raises; backoffLimit 0 and restartPolicy Never: no retry. *)
JobRaises ==
  /\ job \in Running
  /\ Ends("raised")
  /\ UNCHANGED <<desired, op, phase, clock, schema, cluster, commits>>

(* Killed where it is: its sessions linger until the server notices. *)
Killed(how) ==
  /\ job' = how
  /\ holder' = IF holder = "job" THEN "other" ELSE holder
  /\ UNCHANGED <<desired, op, phase, clock, schema, cluster, commits>>

(* Evicted, or deleted as the sync operation is terminated. *)
Evicted == job \in Running /\ Killed("raised")

(* Mutant: the Job has no activeDeadlineSeconds. *)
ExceedNever == FALSE /\ UNCHANGED vars

Exceed == job \in Running /\ age = Deadline /\ Killed("exceeded")

(* Mutant: the timeout is looked at now and then. *)
TickOversleeping ==
  /\ job \in Running /\ age < Deadline
  /\ age' = age + 1
  /\ waited' = IF job = "waiting" THEN waited + 1 ELSE waited
  /\ UNCHANGED <<desired, op, phase, job, holder, schema, cluster, commits>>

(***************************************************************************)
(* A poll interval passes; the lock may have been free within it.  The     *)
(* process looks at its own timeout at every poll.                         *)
(***************************************************************************)
Tick ==
  /\ job \in Running /\ age < Deadline
  /\ job = "waiting" => waited < Patience
  /\ age' = age + 1
  /\ waited' = IF job = "waiting" THEN waited + 1 ELSE waited
  /\ UNCHANGED <<desired, op, phase, job, holder, schema, cluster, commits>>

(* An old pod that migrates as it starts, a run by hand. *)
OtherTakes ==
  /\ holder = "free" /\ holder' = "other"
  /\ UNCHANGED <<desired, op, phase, job, clock, schema, cluster, commits>>

(***************************************************************************)
(* What it does to the schema: a run by hand of the commit that is being   *)
(* synced, or a COMMIT the Job had sent when it was killed, before the     *)
(* next operation takes another.  An old pod stops at what the image that  *)
(* serves needs, which is there.  Nobody runs other values by hand.        *)
(***************************************************************************)
OtherWalks ==
  /\ holder = "other"
  /\ schema' \in 1..Top /\ schema' # schema
  /\ Chain!ConvergePartly(CommandLine(op))
  /\ UNCHANGED <<desired, op, phase, job, clock, holder, cluster, commits>>

OtherReleases ==
  /\ holder = "other" /\ holder' = "free"
  /\ UNCHANGED <<desired, op, phase, job, clock, schema, cluster, commits>>

-----------------------------------------------------------------------------
Committing == RollBackSchema \/ \E i \in Images : Release(i) \/ MoveApp(i)
Argo       == StartSync \/ SyncFails \/ Apply \/ Healthy \/ Stuck
Pods       == PodReady \/ OldPodsGone
Process    == PodStarts \/ TakeLock \/ GiveUp \/ Walk \/ WalkEnds
Mishaps    == JobRaises \/ Evicted \/ OtherTakes \/ OtherWalks \/ OtherReleases

Next == Committing \/ Argo \/ Pods \/ Process \/ Exceed \/ Tick \/ Mishaps

Spec == Init /\ [][Next]_vars

(***************************************************************************)
(* Argo goes on with an operation and starts one for a new commit, time    *)
(* passes, a process that need not wait takes its next step, Kubernetes    *)
(* enforces the deadline.  Nothing makes a walk end (its DDL may wait for  *)
(* the application's locks), the lock's holder let go, or a pod get ready. *)
(***************************************************************************)
Fairness ==
  /\ WF_vars(SyncFails) /\ WF_vars(Apply) /\ WF_vars(Healthy) /\ WF_vars(Stuck)
  /\ WF_vars(StartSync /\ op # desired)
  /\ WF_vars(Tick) /\ WF_vars(TakeLock \/ GiveUp) /\ WF_vars(Exceed)

FairSpec == Spec /\ Fairness

-----------------------------------------------------------------------------
(* Properties *)

(* Every variable stays in its range; the Job keeps to both its limits. *)
TypeOK ==
  /\ desired \in Values /\ op \in Values
  /\ phase \in Phases
  /\ job \in Running \cup Ended
  /\ age \in 0..Deadline /\ waited \in 0..LockTimeout
  /\ holder \in Holders
  /\ schema \in 1..Top
  /\ deployment \in Images /\ serving \in SUBSET Images
  /\ commits \in 0..MaxCommits

(***************************************************************************)
(* No pod that serves lacks a table or column its image declares: not      *)
(* while the DDL lands under the previous image, not during a rollout with *)
(* both images serving, not after a Job that failed half way, and not      *)
(* through a rollback of app and schema in two commits.                    *)
(***************************************************************************)
ServingWorks == \A i \in serving : Works(i, schema)

(***************************************************************************)
(* "It genuinely blocks": the image of the Deployment changes only over a  *)
(* schema that is what the same commit asks for, however Jobs fail, are    *)
(* killed part way, or are started again for a commit already tried.       *)
(***************************************************************************)
RolloutOnConverged == [][deployment' # deployment => schema = Goal(op)]_vars

(***************************************************************************)
(* With the timeout of the lock below the deadline of the Job by more than *)
(* its pod takes to start, a Job that never gets the lock ends by saying   *)
(* so: Kubernetes never kills it in the wait (values.yaml: "a bare         *)
(* DeadlineExceeded with nothing in the logs").                            *)
(***************************************************************************)
WaitIsExplained == [][job = "waiting" => job' # "exceeded"]_vars

(***************************************************************************)
(* Every sync operation ends, whatever the walk waits for, whoever holds   *)
(* the lock, and whether or not a pod ever gets ready; and the last commit *)
(* is tried, however many come while an operation is under way.            *)
(***************************************************************************)
SyncEnds == (phase = "presync" \/ phase = "rollout") ~> (phase = "synced" \/ phase = "failed")

LastCommitTried == (op # desired) ~> (op = desired)
=============================================================================
