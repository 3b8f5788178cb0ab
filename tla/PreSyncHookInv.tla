--------------------------- MODULE PreSyncHookInv ---------------------------
(***************************************************************************)
(* The inductive invariant behind ServingWorks and RolloutOnConverged, for *)
(* teams whose second commit waits for the first (Hasty = FALSE).          *)
(***************************************************************************)
EXTENDS PreSyncHook

(* The migrations image is append-only and never rolled back. *)
Tags ==
  /\ schema <= desired.tag /\ op.tag <= desired.tag
  /\ Built[desired.image] <= desired.tag
  /\ Goal(op) \in 1..op.tag /\ Goal(desired) \in 1..desired.tag

JobInPreSync == job \in Running => phase = "presync"

(* The Job has succeeded, and it was believed: the schema is the goal. *)
Converged ==
  /\ phase = "presync" /\ job = "succeeded" => schema = Goal(op)
  /\ phase \in {"rollout", "synced"} => schema = Goal(op)

OneImageServes == phase = "synced" => serving = {deployment}

(* Nothing but MoveApp is committed while an operation is under way. *)
GoalMovesAtRest == Goal(desired) # Goal(op) => phase \in {"synced", "failed"}

(***************************************************************************)
(* Where the schema is not what it will be, one image serves, and it works *)
(* at both ends of the walk; so it does in between.                        *)
(***************************************************************************)
SafeToWalk ==
  Goal(op) # schema \/ Goal(desired) # schema =>
    /\ serving = {deployment}
    /\ Works(deployment, Goal(op)) /\ Works(deployment, Goal(desired))

(***************************************************************************)
(* What the order of two commits and of the phases of a sync gives: all of *)
(* it is needed for one step of a walk to leave every pod that serves with *)
(* what its image declares.                                                *)
(***************************************************************************)
HookInv ==
  /\ TypeOK /\ Tags /\ JobInPreSync /\ Converged /\ OneImageServes
  /\ GoalMovesAtRest /\ SafeToWalk /\ ServingWorks
=============================================================================
