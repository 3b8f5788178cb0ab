------------------------- MODULE PreSyncHookProofs -------------------------
(***************************************************************************)
(* For any history, releases, limits and number of commits: no pod that    *)
(* serves ever lacks what its image declares, provided the second commit   *)
(* of a rollback waits for the first; the Deployment changes only over a   *)
(* converged schema; and a wait for the lock is never cut off by the       *)
(* deadline, provided the timeout is below it by more than a pod takes to  *)
(* start.                                                                  *)
(***************************************************************************)
EXTENDS PreSyncHookInv, TLAPS

-----------------------------------------------------------------------------
(* Some of a walk lies between where it starts and its target. *)
LEMMA WalkBetween ==
  ASSUME schema \in 1..Top, schema' \in 1..Top, op \in Values,
         Goal(op) \in 1..op.tag,
         Chain!ConvergePartly(CommandLine(op))
  PROVE  \/ schema <= schema' /\ schema' <= Goal(op)
         \/ Goal(op) <= schema' /\ schema' <= schema
         \/ schema' = schema
<1> DEFINE t == Goal(op)
<1>1. op.tag \in 1..Top /\ Top \in Nat /\ t \in 1..Top /\ t # 0
  BY ImagesAssumption DEF Values
<1>2. Chain!Resolve(1..op.tag, t) = t
  BY <1>1 DEF Chain!Resolve, Chain!HEAD
<1>3. Chain!AdvancePartly(t) \/ Chain!RetreatPartly(t)
  BY <1>2 DEF Chain!ConvergePartly, CommandLine
<1>4. CASE Chain!AdvancePartly(t)
  <2>1. 1..schema \subseteq 1..schema' /\ 1..schema' \subseteq (1..schema) \cup (1..t)
    BY <1>1, <1>4 DEF Chain!AdvancePartly
  <2>2. schema \in 1..schema' /\ schema' \in (1..schema) \cup (1..t)
    BY <2>1, <1>1
  <2> QED
    BY <2>2, <1>1
<1>5. CASE Chain!RetreatPartly(t)
  <2>1. t \in 1..schema /\ 1..schema' \subseteq 1..schema
        /\ (1..schema) \ Chain!Above(t) \subseteq 1..schema'
    BY <1>5 DEF Chain!RetreatPartly
  <2>2. t \notin Chain!Above(t)
    BY <1>1 DEF Chain!Above
  <2>3. t \in 1..schema' /\ schema' \in 1..schema
    BY <2>1, <2>2, <1>1
  <2> QED
    BY <2>3, <1>1
<1> QED
  BY <1>3, <1>4, <1>5

(* A reading that ends the Job with success is a reading of the goal. *)
LEMMA VerdictOfGoal ==
  ASSUME NEW c \in Values, schema \in 1..Top
  PROVE  /\ Verdict(c) \in {"succeeded", "walking", "refused"}
         /\ Verdict(c) = "succeeded" => schema = Goal(c)
<1>1. schema # 0
  BY ImagesAssumption
<1>2. Chain!Direction(1..c.tag, schema, Goal(c)) = "converged" => schema = Goal(c)
  BY <1>1 DEF Chain!Direction, Chain!NONE
<1> QED
  BY <1>2 DEF Verdict

(* An image that works at both ends of a walk works in between. *)
LEMMA WorksBetween ==
  ASSUME NEW i \in Images, NEW a \in 1..Top, NEW b \in 1..Top, NEW s \in 1..Top,
         Works(i, a), Works(i, b),
         (a <= s /\ s <= b) \/ (b <= s /\ s <= a) \/ s = a
  PROVE  Works(i, s)
<1>1. Built[i] \in 1..Top /\ Until[i] \in 1..Top /\ Top \in Nat
  BY ImagesAssumption
<1> QED
  BY <1>1 DEF Works
-----------------------------------------------------------------------------
(* Initially and over every step *)

LEMMA HookInit == Init => HookInv
<1> SUFFICES ASSUME Init PROVE HookInv
  OBVIOUS
<1>1. First \in Images /\ Built[First] \in 1..Top /\ Until[First] \in 1..Top
      /\ Built[First] <= Until[First] /\ Top \in Nat
  BY ImagesAssumption
<1>2. desired = Initial /\ op = Initial /\ Initial \in Values /\ Goal(Initial) = Built[First]
      /\ Initial.image = First /\ Initial.tag = Built[First]
  BY <1>1 DEF Init, Initial, Values, Goal, HEAD
<1>3. TypeOK
  BY <1>1, <1>2, TimesAssumption DEF Init, TypeOK, Phases, Ended, Running, Holders
<1>4. Tags /\ JobInPreSync /\ Converged /\ OneImageServes /\ GoalMovesAtRest
  BY <1>1, <1>2
     DEF Init, Tags, JobInPreSync, Converged, OneImageServes, GoalMovesAtRest, Running
<1>5. SafeToWalk /\ ServingWorks
  BY <1>1, <1>2 DEF Init, SafeToWalk, ServingWorks, Works
<1> QED
  BY <1>3, <1>4, <1>5 DEF HookInv

(* A commit keeps to the chart's values. *)
LEMMA CommitType ==
  ASSUME TypeOK, NEW c \in Values, Commit(c)
  PROVE  TypeOK'
<1>1. commits' \in 0..MaxCommits
  BY TimesAssumption DEF Commit, TypeOK
<1> QED
  BY <1>1 DEF Commit, TypeOK, clock, cluster

LEMMA ReleaseStep ==
  ASSUME HookInv, NEW i \in Images, Release(i)
  PROVE  HookInv'
<1> DEFINE tag == IF Built[i] > desired.tag THEN Built[i] ELSE desired.tag
           c == [image |-> i, tag |-> tag, target |-> HEAD, allow |-> FALSE]
<1>1. /\ Settled /\ phase = "synced" /\ tag <= Until[desired.image]
      /\ Commit(c)
  BY DEF Release
<1>2. /\ desired \in Values /\ op \in Values /\ desired.tag \in 1..Top
      /\ Built[i] \in 1..Top /\ Top \in Nat /\ desired.image \in Images
      /\ Built[desired.image] \in 1..Top /\ Until[desired.image] \in 1..Top
      /\ schema \in 1..Top /\ op.tag \in 1..Top
  BY ImagesAssumption DEF HookInv, TypeOK, Values
<1>3. tag \in 1..Top /\ desired.tag <= tag /\ Built[i] <= tag
  BY <1>2
<1>4. c \in Values /\ Goal(c) = tag /\ c.tag = tag /\ c.image = i
  BY <1>2, <1>3 DEF Values, Goal, HEAD
<1>5. TypeOK'
  BY <1>1, <1>4, CommitType DEF HookInv
<1>6. desired' = c /\ UNCHANGED <<op, phase, job, schema, deployment, serving>>
  BY <1>1 DEF Commit, cluster
<1>7. schema = Goal(op) /\ op = desired /\ serving = {deployment}
      /\ deployment = desired.image /\ Works(deployment, schema)
  BY <1>1 DEF HookInv, Settled, Converged, OneImageServes, ServingWorks
<1>8. Tags'
  BY <1>2, <1>3, <1>4, <1>6 DEF HookInv, Tags, Goal
<1>9. Works(deployment, tag)
  BY <1>1, <1>2, <1>3, <1>7 DEF Works, HookInv, Tags
<1>10. SafeToWalk'
  BY <1>4, <1>6, <1>7, <1>9 DEF SafeToWalk, Works, Goal
<1>11. (JobInPreSync /\ Converged /\ OneImageServes /\ GoalMovesAtRest /\ ServingWorks)'
  BY <1>1, <1>6
     DEF HookInv, JobInPreSync, Converged, OneImageServes, GoalMovesAtRest, ServingWorks,
         Works, Goal
<1> QED
  BY <1>5, <1>8, <1>10, <1>11 DEF HookInv

LEMMA MoveAppStep ==
  ASSUME HookInv, NEW i \in Images, MoveApp(i)
  PROVE  HookInv'
<1> DEFINE c == [desired EXCEPT !.image = i]
<1>1. Built[i] <= desired.tag /\ Commit(c)
  BY DEF MoveApp
<1>2. desired \in Values
  BY DEF HookInv, TypeOK
<1>3. c \in Values /\ Goal(c) = Goal(desired) /\ c.tag = desired.tag /\ c.image = i
  BY <1>2 DEF Values, Goal
<1>4. TypeOK'
  BY <1>1, <1>3, CommitType DEF HookInv
<1>5. desired' = c /\ UNCHANGED <<op, phase, job, schema, deployment, serving>>
  BY <1>1 DEF Commit, cluster
<1>6. Goal(desired)' = Goal(desired) /\ Goal(op)' = Goal(op)
  BY <1>3, <1>5 DEF Goal
<1>7. Tags'
  BY <1>1, <1>3, <1>5, <1>6 DEF HookInv, Tags
<1>8. (JobInPreSync /\ Converged /\ OneImageServes /\ GoalMovesAtRest /\ ServingWorks)'
  BY <1>5, <1>6
     DEF HookInv, JobInPreSync, Converged, OneImageServes, GoalMovesAtRest, ServingWorks, Works
<1>9. SafeToWalk'
  BY <1>5, <1>6 DEF HookInv, SafeToWalk, Works
<1> QED
  BY <1>4, <1>7, <1>8, <1>9 DEF HookInv

LEMMA RollBackStep ==
  ASSUME HookInv, ~Hasty, RollBackSchema
  PROVE  HookInv'
<1>1. PICK allow \in BOOLEAN :
        Commit([image |-> desired.image, tag |-> desired.tag,
                target |-> Built[desired.image], allow |-> allow])
  BY DEF RollBackSchema
<1> DEFINE c == [image |-> desired.image, tag |-> desired.tag,
                 target |-> Built[desired.image], allow |-> allow]
<1>2. /\ desired \in Values /\ desired.image \in Images /\ Top \in Nat
      /\ Built[desired.image] \in 1..Top /\ Until[desired.image] \in 1..Top
      /\ Built[desired.image] <= Until[desired.image]
  BY ImagesAssumption DEF HookInv, TypeOK, Values
<1>3. c \in Values /\ Goal(c) = Built[desired.image]
      /\ c.tag = desired.tag /\ c.image = desired.image
  <2>1. Built[desired.image] \in 0..Top /\ Built[desired.image] # 0
        /\ desired.tag \in 1..Top
    BY <1>2 DEF Values
  <2>2. c \in Values
    BY <1>2, <2>1, Zenon DEF Values
  <2> QED
    BY <2>1, <2>2 DEF Goal, HEAD
<1>4. TypeOK'
  BY <1>1, <1>3, CommitType DEF HookInv
<1>5. desired' = c /\ UNCHANGED <<op, phase, job, schema, deployment, serving>>
  BY <1>1 DEF Commit, cluster
<1>6. op = desired /\ phase \in {"synced", "failed"} /\ deployment = desired.image
      /\ serving = {deployment} /\ Works(deployment, schema)
  BY DEF RollBackSchema, Settled, HookInv, ServingWorks
<1>7. Goal(op)' = Goal(op) /\ Goal(desired)' = Built[desired.image]
  BY <1>3, <1>5 DEF Goal
<1>8. Tags'
  <2>1. Built[desired.image] \in 1..desired.tag /\ desired.tag \in 1..Top
    BY <1>2 DEF HookInv, Tags, Values
  <2> QED
    BY <1>2, <1>3, <1>5, <1>7, <2>1 DEF HookInv, Tags
<1>9. (JobInPreSync /\ Converged /\ OneImageServes /\ GoalMovesAtRest /\ ServingWorks)'
  BY <1>5, <1>6, <1>7
     DEF HookInv, JobInPreSync, Converged, OneImageServes, GoalMovesAtRest, ServingWorks, Works
<1>10. Works(deployment, Goal(op)) /\ Works(deployment, Built[desired.image])
  BY <1>2, <1>6 DEF HookInv, SafeToWalk, Works
<1>11. SafeToWalk'
  BY <1>5, <1>6, <1>7, <1>10 DEF SafeToWalk, Works
<1> QED
  BY <1>4, <1>8, <1>9, <1>11 DEF HookInv
-----------------------------------------------------------------------------
(* Argo, the pods and the Job: nothing is committed, and the schema stays. *)

LEMMA StartSyncStep == ASSUME HookInv, StartSync PROVE HookInv'
<1> USE DEF StartSync, cluster
<1>1. TypeOK'
  BY TimesAssumption DEF HookInv, TypeOK, Phases, Running
<1>2. (Tags /\ JobInPreSync /\ Converged /\ OneImageServes /\ GoalMovesAtRest)'
  <2>1. desired.tag \in 1..Top
    BY DEF HookInv, TypeOK, Values
  <2>2. desired.tag <= desired.tag
    BY <2>1, ImagesAssumption
  <2> QED
    BY <2>2 DEF HookInv, Tags, JobInPreSync, Converged, OneImageServes, GoalMovesAtRest, Goal, Running
<1>3. (SafeToWalk /\ ServingWorks)'
  BY DEF HookInv, SafeToWalk, ServingWorks, Works, Goal
<1> QED
  BY <1>1, <1>2, <1>3 DEF HookInv

(* The other steps of Argo: the phase follows the Job and the pods. *)
LEMMA ArgoStep ==
  ASSUME HookInv, SyncFails \/ Apply \/ Healthy \/ Stuck
  PROVE  HookInv'
<1>1. UNCHANGED <<desired, op, job, schema, serving>>
  BY DEF SyncFails, Apply, Healthy, Stuck, cluster
<1>2. Goal(op)' = Goal(op) /\ Goal(desired)' = Goal(desired) /\ Tags'
  BY <1>1 DEF HookInv, Tags, Goal
<1>3. ServingWorks'
  BY <1>1 DEF HookInv, ServingWorks, Works
<1>4. CASE Apply
  <2>1. schema = Goal(op) /\ Goal(desired) = Goal(op) /\ op.image \in Images
    BY <1>4 DEF Apply, HookInv, Converged, GoalMovesAtRest, TypeOK, Values
  <2>2. TypeOK'
    BY <1>4, <2>1 DEF Apply, HookInv, TypeOK, Phases, clock
  <2> QED
    BY <1>1, <1>2, <1>3, <1>4, <2>1, <2>2
       DEF Apply, HookInv, JobInPreSync, Converged, OneImageServes, GoalMovesAtRest,
           SafeToWalk, Running
<1>5. CASE SyncFails \/ Healthy \/ Stuck
  <2>1. deployment' = deployment /\ TypeOK'
    BY <1>5 DEF SyncFails, Healthy, Stuck, HookInv, TypeOK, Phases, clock, cluster
  <2>2. SafeToWalk'
    BY <1>1, <1>2, <2>1 DEF HookInv, SafeToWalk, Works
  <2> QED
    BY <1>1, <1>2, <1>3, <1>5, <2>1, <2>2
       DEF SyncFails, Healthy, Stuck, HookInv, JobInPreSync, Converged, OneImageServes,
           GoalMovesAtRest, Ended, Running
<1> QED
  BY <1>4, <1>5

LEMMA PodStep == ASSUME HookInv, Pods PROVE HookInv'
<1>1. UNCHANGED <<desired, op, phase, job, clock, holder, schema, deployment, commits>>
  BY DEF Pods, PodReady, OldPodsGone
<1>2. serving' \subseteq serving \cup {deployment}
      /\ (deployment \in serving' \/ serving' = serving)
      /\ \A i \in serving' : Works(i, schema)
  BY DEF Pods, PodReady, OldPodsGone, HookInv, ServingWorks
<1>3. TypeOK'
  BY <1>1, <1>2 DEF HookInv, TypeOK, clock
<1>4. serving = {deployment} => serving' = {deployment}
  BY <1>2
<1>5. (Tags /\ JobInPreSync /\ Converged /\ OneImageServes /\ GoalMovesAtRest)'
  BY <1>1, <1>4
     DEF HookInv, Tags, JobInPreSync, Converged, OneImageServes, GoalMovesAtRest, Goal
<1>6. (SafeToWalk /\ ServingWorks)'
  BY <1>1, <1>2, <1>4 DEF HookInv, SafeToWalk, ServingWorks, Works, Goal
<1> QED
  BY <1>3, <1>5, <1>6 DEF HookInv

(* Where nothing is told apart but how the Job ends, it ends truthfully. *)
LEMMA JobStep ==
  ASSUME HookInv, TypeOK',
         UNCHANGED <<desired, op, phase, schema, deployment, serving>>,
         job' \in Running => job \in Running,
         phase = "presync" /\ job' = "succeeded" => schema = Goal(op)
  PROVE  HookInv'
<1>1. (Tags /\ JobInPreSync /\ Converged /\ OneImageServes /\ GoalMovesAtRest)'
  BY DEF HookInv, Tags, JobInPreSync, Converged, OneImageServes, GoalMovesAtRest, Goal
<1>2. (SafeToWalk /\ ServingWorks)'
  BY DEF HookInv, SafeToWalk, ServingWorks, Works, Goal
<1> QED
  BY <1>1, <1>2 DEF HookInv

(* A walk by the Job, or by another with the same values. *)
LEMMA WalkStep == ASSUME HookInv, Walk \/ OtherWalks PROVE HookInv'
<1>1. /\ schema' \in 1..Top /\ schema' # schema
      /\ Chain!ConvergePartly(CommandLine(op))
      /\ UNCHANGED <<desired, op, phase, job, deployment, serving>>
  BY DEF Walk, OtherWalks, cluster
<1>2. TypeOK'
  BY <1>1 DEF Walk, OtherWalks, HookInv, TypeOK, clock, cluster
<1>3. Goal(op)' = Goal(op) /\ Goal(desired)' = Goal(desired)
  BY <1>1 DEF Goal
<1>4. /\ schema \in 1..Top /\ op \in Values /\ Goal(op) \in 1..op.tag
      /\ op.tag \in 1..Top /\ desired.tag \in 1..Top /\ Top \in Nat
      /\ op.tag <= desired.tag /\ schema <= desired.tag
  BY ImagesAssumption DEF HookInv, TypeOK, Tags, Values
<1>5. \/ schema <= schema' /\ schema' <= Goal(op)
      \/ Goal(op) <= schema' /\ schema' <= schema
  BY <1>1, <1>4, WalkBetween
<1>6. Goal(op) # schema /\ Goal(op) \in 1..Top
  BY <1>1, <1>4, <1>5
<1>7. serving = {deployment} /\ deployment \in Images
      /\ Works(deployment, schema)
      /\ Works(deployment, Goal(op)) /\ Works(deployment, Goal(desired))
  BY <1>6 DEF HookInv, SafeToWalk, ServingWorks, TypeOK
<1>8. Works(deployment, schema')
  BY <1>1, <1>4, <1>5, <1>6, <1>7, WorksBetween
<1>9. Tags'
  BY <1>1, <1>3, <1>4, <1>5 DEF HookInv, Tags
<1>10. (JobInPreSync /\ Converged /\ OneImageServes /\ GoalMovesAtRest)'
  BY <1>1, <1>3, <1>6
     DEF HookInv, JobInPreSync, Converged, OneImageServes, GoalMovesAtRest
<1>11. (SafeToWalk /\ ServingWorks)'
  BY <1>1, <1>3, <1>7, <1>8 DEF SafeToWalk, ServingWorks, Works
<1> QED
  BY <1>2, <1>9, <1>10, <1>11 DEF HookInv

LEMMA ProcessStep == ASSUME HookInv, Process PROVE HookInv'
<1> USE DEF clock, cluster
<1>1. op \in Values /\ schema \in 1..Top
  BY DEF HookInv, TypeOK
<1>2. /\ Verdict(op) \in {"succeeded", "walking", "refused"}
      /\ Verdict(op) = "succeeded" => schema = Goal(op)
  BY <1>1, VerdictOfGoal
<1>3. CASE PodStarts
  <2>1. TypeOK'
    BY <1>2, <1>3 DEF PodStarts, HookInv, TypeOK, Running, Ended
  <2> QED
    BY <1>2, <1>3, <2>1, JobStep DEF PodStarts, Running
<1>4. CASE TakeLock
  <2>1. TypeOK'
    BY <1>2, <1>4 DEF TakeLock, HookInv, TypeOK, Running, Ended, Holders
  <2> QED
    BY <1>2, <1>4, <2>1, JobStep DEF TakeLock, Running
<1>5. CASE GiveUp
  <2>1. TypeOK'
    BY <1>5 DEF GiveUp, Ends, HookInv, TypeOK, Ended, Holders
  <2> QED
    BY <1>5, <2>1, JobStep DEF GiveUp, Ends, Running
<1>6. CASE Walk
  BY <1>6, WalkStep
<1>7. CASE WalkEnds
  <2>1. TypeOK'
    BY <1>7 DEF WalkEnds, Ends, HookInv, TypeOK, Ended, Holders
  <2> QED
    BY <1>7, <2>1, JobStep DEF WalkEnds, Ends, Running
<1> QED
  BY <1>3, <1>4, <1>5, <1>6, <1>7 DEF Process

(* The deadline, the clock, evictions, failures and other lock holders. *)
LEMMA MishapStep == ASSUME HookInv, Exceed \/ Tick \/ Mishaps PROVE HookInv'
<1> USE DEF clock, cluster
<1>1. CASE Exceed \/ Evicted \/ JobRaises
  <2>1. TypeOK'
    BY <1>1 DEF Exceed, Evicted, JobRaises, Killed, Ends, HookInv, TypeOK, Ended, Holders
  <2> QED
    BY <1>1, <2>1, JobStep DEF Exceed, Evicted, JobRaises, Killed, Ends, Running
<1>2. CASE Tick
  <2>1. age' \in 0..Deadline /\ waited' \in 0..LockTimeout
    BY <1>2, TimesAssumption DEF Tick, Patience, HookInv, TypeOK
  <2>2. TypeOK'
    BY <1>2, <2>1 DEF Tick, HookInv, TypeOK
  <2> QED
    BY <1>2, <2>2, JobStep DEF Tick, HookInv, Converged
<1>3. CASE OtherTakes \/ OtherReleases
  <2>1. TypeOK'
    BY <1>3 DEF OtherTakes, OtherReleases, HookInv, TypeOK, Holders
  <2> QED
    BY <1>3, <2>1, JobStep DEF OtherTakes, OtherReleases, HookInv, Converged
<1> QED
  BY <1>1, <1>2, <1>3, WalkStep DEF Mishaps

LEMMA HookStep == ASSUME HookInv, ~Hasty, [Next]_vars PROVE HookInv'
<1>1. CASE Committing
  BY <1>1, ReleaseStep, MoveAppStep, RollBackStep DEF Committing
<1>2. CASE Argo
  BY <1>2, StartSyncStep, ArgoStep DEF Argo
<1>3. CASE UNCHANGED vars
  BY <1>3
     DEF vars, HookInv, TypeOK, Tags, JobInPreSync, Converged, OneImageServes,
         GoalMovesAtRest, SafeToWalk, ServingWorks, Works, Goal
<1> QED
  BY <1>1, <1>2, <1>3, PodStep, ProcessStep, MishapStep DEF Next

-----------------------------------------------------------------------------
(* The invariant holds, however Jobs fail and whoever else has the lock. *)
THEOREM HookCorrect == ASSUME ~Hasty PROVE Spec => []HookInv
<1>1. HookInv /\ [Next]_vars => HookInv'
  BY HookStep
<1> QED
  BY <1>1, HookInit, PTL DEF Spec

(* Every variable keeps its type. *)
THEOREM HookTypeCorrect == ASSUME ~Hasty PROVE Spec => []TypeOK
<1>1. HookInv => TypeOK
  BY DEF HookInv
<1> QED
  BY <1>1, HookCorrect, PTL

(***************************************************************************)
(* No pod that serves lacks what its image declares, for any images whose  *)
(* migrations are "safe against the old code".                             *)
(***************************************************************************)
THEOREM ServingAlwaysWorks == ASSUME ~Hasty PROVE Spec => []ServingWorks
<1>1. HookInv => ServingWorks
  BY DEF HookInv
<1> QED
  BY <1>1, HookCorrect, PTL

(* The image of the Deployment changes over a converged schema only. *)
THEOREM RolloutBlocked == ASSUME ~Hasty PROVE Spec => RolloutOnConverged
<1>1. HookInv /\ [Next]_vars => [deployment' # deployment => schema = Goal(op)]_vars
  <2> SUFFICES ASSUME HookInv, Next, deployment' # deployment
               PROVE  schema = Goal(op)
    BY DEF vars
  <2>1. Apply
    BY DEF Next, Committing, RollBackSchema, Release, MoveApp, Commit, Argo, StartSync,
           SyncFails, Healthy, Stuck, Pods, PodReady, OldPodsGone, Process, PodStarts,
           TakeLock, GiveUp, Walk, WalkEnds, Exceed, Tick, Mishaps, JobRaises, Evicted,
           Killed, Ends, OtherTakes, OtherWalks, OtherReleases, cluster
  <2> QED
    BY <2>1 DEF Apply, HookInv, Converged
<1> QED
  BY <1>1, HookCorrect, PTL DEF Spec, RolloutOnConverged
-----------------------------------------------------------------------------
(* The two limits of the Job *)

(* What has passed since the Job was made: its pod's start, and the wait. *)
WaitInv ==
  /\ TypeOK
  /\ job = "pending" => waited = 0
  /\ job = "waiting" => age <= StartTicks + waited

LEMMA WaitStep == ASSUME HookInv, WaitInv, ~Hasty, [Next]_vars PROVE WaitInv'
<1> USE DEF clock, cluster
<1>1. TypeOK'
  BY HookStep DEF HookInv
<1>2. age \in Nat /\ waited \in Nat /\ StartTicks \in Nat
  BY TimesAssumption DEF WaitInv, TypeOK
<1>3. CASE StartSync
  BY <1>1, <1>3 DEF StartSync, WaitInv
<1>4. CASE PodStarts
  BY <1>1, <1>2, <1>4 DEF PodStarts, WaitInv
<1>5. CASE Tick
  BY <1>1, <1>2, <1>5 DEF Tick, WaitInv
<1>6. CASE UNCHANGED <<age, waited>> /\ job' \in {job} \cup Ended \cup {"walking"}
  BY <1>1, <1>6 DEF WaitInv, Ended
<1>7. CASE Next /\ ~StartSync /\ ~PodStarts /\ ~Tick
  <2>1. Verdict(op) \in Ended \cup {"walking"}
    BY VerdictOfGoal DEF HookInv, TypeOK, Ended
  <2>2. UNCHANGED <<age, waited>> /\ job' \in {job} \cup Ended \cup {"walking"}
    BY <1>7, <2>1
       DEF Next, Committing, RollBackSchema, Release, MoveApp, Commit, Argo, SyncFails,
           Apply, Healthy, Stuck, Pods, PodReady, OldPodsGone, Process, TakeLock, GiveUp,
           Walk, WalkEnds, Exceed, Mishaps, JobRaises, Evicted, Killed, Ends, OtherTakes,
           OtherWalks, OtherReleases, Ended
  <2> QED
    BY <2>2, <1>6
<1>8. CASE UNCHANGED vars
  BY <1>6, <1>8 DEF vars
<1> QED
  BY <1>3, <1>4, <1>5, <1>7, <1>8

(***************************************************************************)
(* A timeout below the deadline by more than a pod takes to start is met   *)
(* first: no Job is killed while it waits for the lock.                    *)
(***************************************************************************)
THEOREM WaitAlwaysExplained ==
  ASSUME ~Hasty, LockTimeout + StartTicks < Deadline
  PROVE  Spec => WaitIsExplained
<1>1. Init => WaitInv
  <2>1. HookInv => TypeOK
    BY DEF HookInv
  <2> QED
    BY <2>1, HookInit DEF Init, WaitInv
<1>2. HookInv /\ WaitInv /\ [Next]_vars => WaitInv'
  BY WaitStep
<1>3. WaitInv /\ [Next]_vars => [job = "waiting" => job' # "exceeded"]_vars
  <2> SUFFICES ASSUME WaitInv, Next, job = "waiting", job' = "exceeded"
               PROVE  FALSE
    BY DEF vars
  <2>1. Exceed
    <3>1. Verdict(op) # "exceeded"
      BY VerdictOfGoal DEF WaitInv, TypeOK
    <3> QED
      BY <3>1
         DEF Next, Committing, RollBackSchema, Release, MoveApp, Commit, Argo, StartSync,
             SyncFails, Apply, Healthy, Stuck, Pods, PodReady, OldPodsGone, Process,
             PodStarts, TakeLock, GiveUp, Walk, WalkEnds, Tick, Mishaps, JobRaises,
             Evicted, Killed, Ends, OtherTakes, OtherWalks, OtherReleases
  <2>2. age = Deadline /\ age <= StartTicks + waited /\ waited \in 0..LockTimeout
    BY <2>1 DEF Exceed, WaitInv, TypeOK
  <2> QED
    BY <2>2, TimesAssumption
<1> QED
  BY <1>1, <1>2, <1>3, HookCorrect, PTL DEF Spec, WaitIsExplained
=============================================================================
