------------------------- MODULE KeepMigrateProofs -------------------------
(***************************************************************************)
(* KeepMigrate's safety, for every revision graph, number of processes,    *)
(* command line, mix of scripts and number of faults: types, mutual        *)
(* exclusion and consent, and where a walk ends: that it converges on its  *)
(* target, as ConvergeSpec promises, and leaves alembic_version with the   *)
(* tips of what is applied.                                                *)
(***************************************************************************)
EXTENDS KeepMigrateInv, RevisionMapProofs

LEMMA TargetType ==
  ASSUME TypeOK, NEW j \in Jobs
  PROVE  Target(j) \in Rev \cup {NONE}
  <1>1. req[j].image \in SUBSET Rev
    BY DEF TypeOK, RequestType
  <1> QED BY <1>1, ResolveType DEF Target

LEMMA NoTxType == NoTx \in TxType
  BY DEF NoTx, TxType

(* What a process's own view of the database ranges over. *)
LEMMA ViewType ==
  ASSUME TypeOK, NEW j \in Jobs
  PROVE  /\ tx[j] \in TxType
         /\ tx[j].del \in SUBSET Rev /\ tx[j].ins \in SUBSET Rev
         /\ tx[j].eff \in [Rev -> Levels \cup {"same"}]
         /\ Rows(j) \in SUBSET Rev
         /\ View(j) \in [Rev -> Levels]
  <1>1. tx[j] \in TxType
    BY DEF TypeOK
  <1>2. /\ tx[j].del \in SUBSET Rev /\ tx[j].ins \in SUBSET Rev
        /\ tx[j].eff \in [Rev -> Levels \cup {"same"}]
    BY <1>1 DEF TxType
  <1>3. Rows(j) \in SUBSET Rev
    BY <1>2 DEF TypeOK, Rows
  <1>4. View(j) \in [Rev -> Levels]
    BY <1>2 DEF TypeOK, View, Overlay
  <1> QED BY <1>1, <1>2, <1>3, <1>4

LEMMA OverlayType ==
  ASSUME TypeOK, NEW eff \in [Rev -> Levels \cup {"same"}]
  PROVE  Overlay(eff) \in [Rev -> Levels]
  BY DEF Overlay, TypeOK

LEMMA WriteType ==
  ASSUME TypeOK, NEW j \in Jobs, NEW r \in Rev, NEW w \in Levels, Write(j, r, w)
  PROVE  schema' \in [Rev -> Levels] /\ tx' \in [Jobs -> TxType]
  <1>1. CASE mode[j] = "auto"
    BY <1>1 DEF Write, TypeOK
  <1>2. CASE mode[j] # "auto"
    <2>1. [tx[j].eff EXCEPT ![r] = w] \in [Rev -> Levels \cup {"same"}]
      BY ViewType
    <2>2. [tx[j] EXCEPT !.eff = [tx[j].eff EXCEPT ![r] = w]] \in TxType
      BY <2>1, ViewType DEF TxType
    <2>3. tx' = [tx EXCEPT ![j] = [tx[j] EXCEPT !.eff = [tx[j].eff EXCEPT ![r] = w]]]
      BY <1>2 DEF Write
    <2> QED BY <1>2, <2>2, <2>3 DEF Write, TypeOK
  <1> QED BY <1>1, <1>2

LEMMA FirstType ==
  ASSUME NEW dir \in Ways, NEW r \in Rev, NEW v \in Levels
  PROVE  First(dir, r, v) \in Levels \cup {"raises"}
  BY DEF First, Ways, Levels

LEMMA RestType ==
  ASSUME NEW dir \in Ways, NEW r \in Rev, NEW v \in Levels
  PROVE  Rest(dir, r, v) \in Levels
  BY DEF Rest, Ways, Levels

LEMMA DryRunType ==
  ASSUME NEW j, NEW row, NEW dir
  PROVE  DryRun(j, row, dir) \in Outcomes
  BY DEF DryRun, Outcomes

-----------------------------------------------------------------------------
(* Type correctness, and the target every live process has. *)

Typed == TypeOK /\ TargetKnown

USE DEF Goto, End

LEMMA TypeInit == Init => Typed
  <1> SUFFICES ASSUME Init PROVE Typed
    OBVIOUS
  <1>1. NoReq \in RequestType
    BY DEF NoReq, RequestType
  <1>2. \A r \in Rev : schema[r] \in Levels
    BY DEF Init, Levels
  <1>3. TypeOK
    BY <1>1, <1>2, NoTxType, ScriptsAssumption, EnvironmentAssumption
       DEF Init, TypeOK, Ways, Modes, Outcomes, Labels, Levels
  <1>4. TargetKnown
    BY DEF Init, TargetKnown, Alive, Walking
  <1> QED BY <1>3, <1>4 DEF Typed

(* The process before the walk. *)
LEMMA TypeMain ==
  ASSUME Typed, NEW j \in Jobs,
         \/ Start(j) \/ Decide(j) \/ AcquireLock(j) \/ PollLock(j) \/ GiveUpLock(j)
         \/ Unlock(j) \/ Exit(j) \/ Redecide(j)
  PROVE  TypeOK'
  <1> USE DEF Typed
  <1>1. CASE Start(j)
    BY <1>1, RequestsAssumption DEF Start, TypeOK, Labels, Alive, Outcomes
  <1>2. CASE Decide(j)
    <2>1. \A row, dir : DryRun(j, row, dir) \in Outcomes
      BY DryRunType
    <2> QED BY <1>2, <2>1 DEF Decide, TypeOK, Labels, Alive, Outcomes
  <1>3. CASE AcquireLock(j)
    BY <1>3 DEF AcquireLock, TypeOK, Labels, Alive
  <1>4. CASE PollLock(j)
    BY <1>4, EnvironmentAssumption DEF PollLock, TypeOK
  <1>5. CASE GiveUpLock(j)
    BY <1>5 DEF GiveUpLock, TypeOK, Labels, Alive, Outcomes
  <1>6. CASE Unlock(j)
    BY <1>6 DEF Unlock, TypeOK, Labels, Alive
  <1>7. CASE Exit(j)
    BY <1>7, NoTxType DEF Exit, TypeOK, Labels, Alive
  <1>8. CASE Redecide(j)
    BY <1>8 DEF Redecide, TypeOK, Labels, Alive, Outcomes
  <1> QED BY <1>1, <1>2, <1>3, <1>4, <1>5, <1>6, <1>7, <1>8

(* The walk. *)
LEMMA TypeWalk ==
  ASSUME Typed, NEW j \in Jobs, BeginWalk(j) \/ Walk(j)
  PROVE  TypeOK'
  <1> USE DEF Typed
  <1>0. plan[j] \subseteq Rev /\ heads[j] \in SUBSET Rev /\ way[j] \in Ways
    BY DEF TypeOK
  <1>1. CASE BeginWalk(j)
    <2>1. Target(j) \in Rev
      BY <1>1 DEF BeginWalk, TargetKnown, Alive
    <2>2. Path(way[j], stamped, Target(j)) \in SUBSET Rev
      BY <2>1, PathType DEF TypeOK
    <2> QED BY <1>1, <2>2 DEF BeginWalk, TypeOK, Labels, Alive, Walking, Modes, Outcomes
  <1>2. ASSUME NEW r \in plan[j], EnterBlock(j, r) PROVE TypeOK'
    <2>1. Rows(j) \in SUBSET Rev /\ Overlay(tx[j].eff) \in [Rev -> Levels]
      BY ViewType, OverlayType
    <2> QED BY <1>2, <2>1, NoTxType
          DEF EnterBlock, CommitWith, Abandon, LetGo, TypeOK, Labels, Alive, Walking, Modes, Outcomes
  <1>3. ASSUME NEW r \in plan[j], Begin(j, r) PROVE TypeOK'
    <2> DEFINE v == View(j)[r]
               w == First(way[j], r, v)
    <2>1. v \in Levels /\ w \in Levels \cup {"raises"}
      BY <1>0, ViewType, FirstType
    <2>2. CASE w = "raises"
      BY <1>3, <2>2, NoTxType DEF Begin, Raise, TypeOK, Labels, Alive, Outcomes
    <2>3. CASE w # "raises"
      <3>1. [tx[j].eff EXCEPT ![r] = w] \in [Rev -> Levels \cup {"same"}]
        BY <1>0, <2>1, <2>3, ViewType
      <3>2. Overlay([tx[j].eff EXCEPT ![r] = w]) \in [Rev -> Levels]
        BY <3>1, OverlayType
      <3>3. /\ pc' = [pc EXCEPT ![j] = "rest"]
            /\ UNCHANGED <<outcome, lock, req, way, polls, plan, heads, faults>>
        BY <1>3, <2>3 DEF Begin
      <3>4. CASE CommitWith(j, [tx[j].eff EXCEPT ![r] = w]) /\ mode' \in [Jobs -> Modes]
        BY <3>2, <3>3, <3>4, NoTxType, ViewType
           DEF CommitWith, TypeOK, Labels, Alive, Walking
      <3>5. CASE /\ UNCHANGED <<stamped, mode>>
                 /\ IF w = v THEN UNCHANGED <<schema, tx>> ELSE Write(j, r, w)
        <4>1. schema' \in [Rev -> Levels] /\ tx' \in [Jobs -> TxType]
          BY <1>0, <2>1, <2>3, <3>5, WriteType DEF TypeOK
        <4> QED BY <3>3, <3>5, <4>1 DEF TypeOK, Labels, Alive, Walking
      <3>6. mode' \in [Jobs -> Modes]
        BY <1>3, <2>3 DEF Begin, TypeOK, Modes
      <3>7. \/ CommitWith(j, [tx[j].eff EXCEPT ![r] = w])
            \/ /\ UNCHANGED <<stamped, mode>>
               /\ IF w = v THEN UNCHANGED <<schema, tx>> ELSE Write(j, r, w)
        BY <1>3, <2>3 DEF Begin
      <3> QED BY <3>4, <3>5, <3>6, <3>7
    <2> QED BY <2>2, <2>3
  <1>4. ASSUME NEW r \in plan[j], Finish(j, r) PROVE TypeOK'
    <2> DEFINE v == View(j)[r]
               w == Rest(way[j], r, v)
    <2>1. v \in Levels /\ w \in Levels
      BY <1>0, ViewType, RestType
    <2>2. [tx[j].eff EXCEPT ![r] = w] \in [Rev -> Levels \cup {"same"}]
      BY <1>0, <2>1, ViewType
    <2>3. Overlay([tx[j].eff EXCEPT ![r] = w]) \in [Rev -> Levels]
      BY <2>2, OverlayType
    <2>4. stamped' \in SUBSET Rev /\ schema' \in [Rev -> Levels] /\ tx' \in [Jobs -> TxType]
      <3>1. CASE CommitWith(j, [tx[j].eff EXCEPT ![r] = w])
        BY <2>3, <3>1, NoTxType, ViewType DEF CommitWith, TypeOK
      <3>2. CASE /\ UNCHANGED stamped
                 /\ IF w = v THEN UNCHANGED <<schema, tx>> ELSE Write(j, r, w)
        BY <1>0, <2>1, <3>2, WriteType DEF TypeOK
      <3>3. \/ CommitWith(j, [tx[j].eff EXCEPT ![r] = w])
            \/ /\ UNCHANGED stamped
               /\ IF w = v THEN UNCHANGED <<schema, tx>> ELSE Write(j, r, w)
        BY <1>4 DEF Finish
      <3> QED BY <3>1, <3>2, <3>3
    <2> QED BY <1>4, <2>4 DEF Finish, TypeOK, Labels, Alive, Walking, Modes
  <1>5. ASSUME NEW r \in plan[j], Stamp(j, r) PROVE TypeOK'
    <2> DEFINE new  == Restamp(way[j], heads[j], r)
               gone == Gone(j, r)
               come == Come(j, r)
    <2>1. new \in SUBSET Rev
      BY <1>0, RestampType
    <2>2. CASE Abandon(j) /\ UNCHANGED <<stamped, plan, heads>>
      BY <1>5, <2>2, NoTxType DEF Stamp, Abandon, LetGo, TypeOK, Labels, Alive, Outcomes
    <2>3. CASE WriteRows(j, gone, come) /\ ~(Abandon(j) /\ UNCHANGED <<stamped, plan, heads>>)
      <3>1. stamped' \in SUBSET Rev /\ tx' \in [Jobs -> TxType]
        <4>1. gone \in SUBSET Rev /\ come \in SUBSET Rev
          BY <1>0, <2>1 DEF Gone, Come
        <4> HIDE DEF gone, come
        <4>2. CASE mode[j] = "auto"
          BY <2>3, <4>1, <4>2 DEF WriteRows, TypeOK
        <4>3. CASE mode[j] # "auto"
          <5>1. [tx[j] EXCEPT !.del = @ \cup gone,
                              !.ins = (@ \ gone) \cup come] \in TxType
            BY <4>1, ViewType DEF TxType
          <5>2. tx' = [tx EXCEPT ![j] = [tx[j] EXCEPT !.del = @ \cup gone,
                                                     !.ins = (@ \ gone) \cup come]]
            BY <2>3, <4>3 DEF WriteRows, TypeOK
          <5> QED BY <2>3, <4>3, <5>1, <5>2 DEF WriteRows, TypeOK
        <4> QED BY <4>2, <4>3
      <3> QED BY <1>0, <1>5, <2>1, <2>3, <3>1
            DEF Stamp, TypeOK, Labels, Alive, Walking
    <2> QED BY <1>5, <2>2, <2>3 DEF Stamp
  <1>6. CASE CommitWalk(j)
    <2>1. Rows(j) \in SUBSET Rev /\ Overlay(tx[j].eff) \in [Rev -> Levels]
      BY ViewType, OverlayType
    <2> QED BY <1>6, <2>1, NoTxType
          DEF CommitWalk, CommitWith, LetGo, db, TypeOK, Labels, Alive, Outcomes
  <1>7. CASE DeadlockDetected(j)
    BY <1>7, NoTxType DEF DeadlockDetected, Raise, TypeOK, Labels, Alive, Outcomes
  <1> QED BY <1>1, <1>2, <1>3, <1>4, <1>5, <1>6, <1>7 DEF Walk

(* What goes wrong, and what the server does about it. *)
LEMMA TypeFault ==
  ASSUME Typed, NEW j \in Jobs, Mishap(j) \/ Reap(j)
  PROVE  TypeOK'
  <1> USE DEF Typed
  <1>0. ASSUME NEW kind, Fault(kind) PROVE faults' \in 0..MaxFaults
    BY <1>0, EnvironmentAssumption DEF Fault, TypeOK
  <1>1. CASE ReadFails(j)
    BY <1>0, <1>1 DEF ReadFails, TypeOK, Labels, Alive, Outcomes
  <1>2. CASE LockFails(j)
    BY <1>0, <1>2 DEF LockFails, TypeOK, Labels, Alive, Outcomes
  <1>3. CASE StatementFails(j)
    <2>1. schema' \in [Rev -> Levels]
      BY <1>3 DEF StatementFails, TypeOK, Levels
    <2> QED BY <1>0, <1>3, <2>1, NoTxType
          DEF StatementFails, Raise, TypeOK, Labels, Alive, Outcomes
  <1>4. CASE UnlockFails(j)
    BY <1>0, <1>4 DEF UnlockFails, TypeOK, Labels, Alive
  <1>5. CASE LockSessionDrops(j)
    BY <1>0, <1>5 DEF LockSessionDrops, TypeOK
  <1>6. CASE Kill(j)
    BY <1>0, <1>6 DEF Kill, TypeOK, Labels, Zombies, Outcomes
  <1>7. CASE ReapWalk(j)
    BY <1>7, NoTxType DEF ReapWalk, TypeOK, Labels
  <1>8. CASE ReapLock(j)
    BY <1>8 DEF ReapLock, TypeOK
  <1>9. ASSUME NEW r \in plan[j], OrphanStatement(j, r) PROVE TypeOK'
    <2>1. r \in Rev /\ way[j] \in Ways /\ schema[r] \in Levels
      BY DEF TypeOK
    <2>2. /\ First(way[j], r, schema[r]) \in Levels \cup {"raises"}
          /\ Rest(way[j], r, schema[r]) \in Levels
      BY <2>1, FirstType, RestType
    <2>3. schema' \in [Rev -> Levels]
      BY <1>9, <2>1, <2>2 DEF OrphanStatement, TypeOK
    <2> QED BY <1>9, <2>3 DEF OrphanStatement, TypeOK, Labels, Zombies
  <1>10. ASSUME NEW r \in plan[j], StatementSwallowed(j, r) PROVE TypeOK'
    BY <1>0, <1>10 DEF StatementSwallowed, TypeOK, Labels, Alive, Walking, Levels
  <1> QED BY <1>1, <1>2, <1>3, <1>4, <1>5, <1>6, <1>7, <1>8, <1>9, <1>10 DEF Mishap, Reap

LEMMA TypeStep == Typed /\ [Next]_vars => TypeOK'
  <1> SUFFICES ASSUME Typed, [Next]_vars PROVE TypeOK'
    OBVIOUS
  <1>1. CASE UNCHANGED vars
    BY <1>1 DEF Typed, TypeOK, vars
  <1>2. CASE AllEnded
    BY <1>1, <1>2 DEF AllEnded
  <1>3. ASSUME NEW j \in Jobs, Start(j) \/ Run(j) \/ Reap(j) \/ Mishap(j) PROVE TypeOK'
    BY <1>3, TypeMain, TypeWalk, TypeFault DEF Run
  <1> QED BY <1>1, <1>2, <1>3 DEF Next

-----------------------------------------------------------------------------
(* Every step is one process's, and leaves what the others hold alone. *)

Step(j) == Start(j) \/ Run(j) \/ Reap(j) \/ Mishap(j)

LEMMA Frame ==
  ASSUME TypeOK, NEW j \in Jobs, Step(j), NEW k \in Jobs, k # j
  PROVE  /\ pc'[k] = pc[k] /\ req'[k] = req[k] /\ way'[k] = way[k]
         /\ plan'[k] = plan[k] /\ heads'[k] = heads[k] /\ tx'[k] = tx[k] /\ mode'[k] = mode[k]
  <1> USE DEF TypeOK
  <1>1. CASE Start(j)
    BY <1>1 DEF Start
  <1>2. CASE Decide(j) \/ Redecide(j)
    BY <1>2 DEF Decide, Redecide
  <1>3. CASE AcquireLock(j) \/ PollLock(j) \/ GiveUpLock(j) \/ Unlock(j) \/ Exit(j)
    BY <1>3 DEF AcquireLock, PollLock, GiveUpLock, Unlock, Exit
  <1>4. CASE BeginWalk(j)
    BY <1>4 DEF BeginWalk
  <1>5. ASSUME NEW r \in plan[j], EnterBlock(j, r)
        PROVE  /\ pc'[k] = pc[k] /\ req'[k] = req[k] /\ way'[k] = way[k]
               /\ plan'[k] = plan[k] /\ heads'[k] = heads[k] /\ tx'[k] = tx[k] /\ mode'[k] = mode[k]
    BY <1>5 DEF EnterBlock, Abandon, LetGo, CommitWith
  <1>6. ASSUME NEW r \in plan[j], Begin(j, r)
        PROVE  /\ pc'[k] = pc[k] /\ req'[k] = req[k] /\ way'[k] = way[k]
               /\ plan'[k] = plan[k] /\ heads'[k] = heads[k] /\ tx'[k] = tx[k] /\ mode'[k] = mode[k]
    BY <1>6 DEF Begin, Raise, CommitWith, Write
  <1>7. ASSUME NEW r \in plan[j], Finish(j, r)
        PROVE  /\ pc'[k] = pc[k] /\ req'[k] = req[k] /\ way'[k] = way[k]
               /\ plan'[k] = plan[k] /\ heads'[k] = heads[k] /\ tx'[k] = tx[k] /\ mode'[k] = mode[k]
    BY <1>7 DEF Finish, CommitWith, Write
  <1>8. ASSUME NEW r \in plan[j], Stamp(j, r)
        PROVE  /\ pc'[k] = pc[k] /\ req'[k] = req[k] /\ way'[k] = way[k]
               /\ plan'[k] = plan[k] /\ heads'[k] = heads[k] /\ tx'[k] = tx[k] /\ mode'[k] = mode[k]
    BY <1>8 DEF Stamp, Abandon, LetGo, WriteRows
  <1>9. CASE CommitWalk(j) \/ DeadlockDetected(j)
    BY <1>9 DEF CommitWalk, CommitWith, LetGo, DeadlockDetected, Raise
  <1>10. CASE Reap(j)
    BY <1>10 DEF Reap, ReapWalk, ReapLock, OrphanStatement
  <1>11. CASE ReadFails(j) \/ LockFails(j) \/ UnlockFails(j) \/ LockSessionDrops(j) \/ Kill(j)
    BY <1>11 DEF ReadFails, LockFails, UnlockFails, LockSessionDrops, Kill
  <1>12. CASE StatementFails(j) \/ \E r \in plan[j] : StatementSwallowed(j, r)
    BY <1>12 DEF StatementFails, StatementSwallowed, Raise
  <1> QED BY <1>1, <1>2, <1>3, <1>4, <1>5, <1>6, <1>7, <1>8, <1>9, <1>10, <1>11, <1>12
        DEF Step, Run, Walk, Mishap

(***************************************************************************)
(* A process's command line is set once; only a target that resolved lets  *)
(* it live, and it does not come back to life.                             *)
(***************************************************************************)
LEMMA LifeStep ==
  ASSUME TypeOK, NEW j \in Jobs, Step(j)
  PROVE  \/ /\ pc[j] = "idle" /\ pc'[j] \in {"read", "done"}
            /\ pc'[j] = "read" => Resolve(req'[j].image, req'[j].target) # NONE
         \/ /\ req'[j] = req[j]
            /\ pc'[j] \in Alive => pc[j] \in Alive
  <1> USE DEF TypeOK, Alive, Walking
  <1>1. CASE Start(j)
    BY <1>1 DEF Start
  <1>2. CASE Decide(j) \/ Redecide(j)
    BY <1>2 DEF Decide, Redecide
  <1>3. CASE AcquireLock(j) \/ PollLock(j) \/ GiveUpLock(j) \/ Unlock(j) \/ Exit(j)
    BY <1>3 DEF AcquireLock, PollLock, GiveUpLock, Unlock, Exit
  <1>4. CASE BeginWalk(j)
    BY <1>4 DEF BeginWalk
  <1>5. CASE Walk(j)
    BY <1>5 DEF Walk, EnterBlock, Begin, Finish, Stamp, CommitWalk, DeadlockDetected
  <1>6. CASE Reap(j)
    BY <1>6 DEF Reap, ReapWalk, ReapLock, OrphanStatement, Zombies
  <1>7. CASE Mishap(j)
    BY <1>7 DEF Mishap, ReadFails, LockFails, StatementFails, StatementSwallowed, UnlockFails,
                LockSessionDrops, Kill
  <1> QED BY <1>1, <1>2, <1>3, <1>4, <1>5, <1>6, <1>7 DEF Step, Run

LEMMA TargetStep == Typed /\ [Next]_vars => TargetKnown'
  <1> SUFFICES ASSUME Typed, [Next]_vars PROVE TargetKnown'
    OBVIOUS
  <1> USE DEF Typed, TargetKnown, Target
  <1>1. CASE UNCHANGED vars
    BY <1>1 DEF vars
  <1>2. CASE AllEnded
    BY <1>1, <1>2 DEF AllEnded
  <1>3. ASSUME NEW j \in Jobs, Step(j) PROVE TargetKnown'
    <2> SUFFICES ASSUME NEW k \in Jobs, pc'[k] \in Alive
                 PROVE  Resolve(req'[k].image, req'[k].target) \in Rev
      OBVIOUS
    <2>1. CASE k # j
      BY <1>3, <2>1, Frame
    <2>2. CASE k = j
      <3>1. req'[j].image \in SUBSET Rev
        BY TypeStep DEF TypeOK, RequestType
      <3>2. Resolve(req'[j].image, req'[j].target) \in Rev \cup {NONE}
        BY <3>1, ResolveType
      <3>3. "done" \notin Alive
        BY DEF Alive, Walking
      <3> QED BY <1>3, <2>2, <3>2, <3>3, LifeStep
    <2> QED BY <2>1, <2>2
  <1> QED BY <1>1, <1>2, <1>3 DEF Next, Step

(***************************************************************************)
(* Every variable of keep-migrate keeps its type; and whoever is past      *)
(* _resolve has a target that is a revision.                               *)
(***************************************************************************)
THEOREM TypeCorrect == Spec => []TypeOK
  <1>1. Typed /\ [Next]_vars => Typed'
    BY TypeStep, TargetStep DEF Typed
  <1>2. Typed => TypeOK
    BY DEF Typed
  <1> QED BY TypeInit, <1>1, <1>2, PTL DEF Spec

-----------------------------------------------------------------------------
(* Mutual exclusion, where the lock's session is not lost under the walk. *)

LEMMA LockStep ==
  ASSUME TypeOK, "drop" \notin Faults, NEW j \in Jobs, Step(j)
  PROVE  /\ \/ lock' = lock
            \/ lock = Free /\ lock' = j
            \/ lock = j /\ pc[j] \notin UnderLock /\ pc'[j] \notin UnderLock
         /\ pc'[j] \in UnderLock => pc[j] \in UnderLock \/ lock' = j
  <1> USE DEF TypeOK, UnderLock, Walking
  <1>1. CASE Start(j)
    BY <1>1 DEF Start
  <1>2. CASE Decide(j) \/ Redecide(j)
    BY <1>2 DEF Decide, Redecide
  <1>3. CASE AcquireLock(j) \/ PollLock(j) \/ GiveUpLock(j) \/ Unlock(j) \/ Exit(j)
    BY <1>3 DEF AcquireLock, PollLock, GiveUpLock, Unlock, Exit
  <1>4. CASE BeginWalk(j)
    BY <1>4 DEF BeginWalk
  <1>5. CASE Walk(j)
    <2>1. lock' = lock /\ pc[j] \in UnderLock
      BY <1>5 DEF Walk, EnterBlock, Begin, Finish, Stamp, CommitWalk, DeadlockDetected, InBlock
    <2> QED BY <2>1
  <1>6. CASE Reap(j)
    BY <1>6 DEF Reap, ReapWalk, ReapLock, OrphanStatement, Zombies
  <1>7. CASE Mishap(j)
    BY <1>7 DEF Mishap, ReadFails, LockFails, StatementFails, StatementSwallowed, Raise, UnlockFails,
                LockSessionDrops, Fault, Kill
  <1> QED BY <1>1, <1>2, <1>3, <1>4, <1>5, <1>6, <1>7 DEF Step, Run

LEMMA WalkerStep ==
  ASSUME TypeOK, OneWalker, "drop" \notin Faults, [Next]_vars
  PROVE  OneWalker'
  <1>1. CASE UNCHANGED vars
    BY <1>1 DEF vars, OneWalker
  <1>2. CASE AllEnded
    BY <1>1, <1>2 DEF AllEnded
  <1>3. ASSUME NEW j \in Jobs, Step(j) PROVE OneWalker'
    <2> SUFFICES ASSUME NEW k \in Jobs, pc'[k] \in UnderLock PROVE lock' = k
      BY DEF OneWalker
    <2>1. CASE k = j
      BY <1>3, <2>1, LockStep, JobsAssumption DEF OneWalker
    <2>2. CASE k # j
      BY <1>3, <2>2, LockStep, Frame, JobsAssumption DEF OneWalker
    <2> QED BY <2>1, <2>2
  <1> QED BY <1>1, <1>2, <1>3 DEF Next, Step

-----------------------------------------------------------------------------
(* Consent, and nothing left open. *)

LEMMA ConsentedStep ==
  ASSUME TypeOK, Consented, [Next]_vars
  PROVE  Consented'
  <1>1. CASE UNCHANGED vars
    BY <1>1 DEF vars, Consented
  <1>2. CASE AllEnded
    BY <1>1, <1>2 DEF AllEnded
  <1>3. ASSUME NEW j \in Jobs, Step(j) PROVE Consented'
    <2> SUFFICES ASSUME NEW k \in Jobs, pc'[k] \in {"lock"} \cup UnderLock
                 PROVE  /\ req'[k].cmd = "run"
                        /\ way'[k] = "downgrade" => req'[k].allow
      BY DEF Consented
    <2>1. CASE k # j
      BY <1>3, <2>1, Frame DEF Consented
    <2>2. CASE k = j
      <3> USE <2>2 DEF TypeOK, UnderLock, Walking
      <3>1. CASE Start(j)
        BY <3>1 DEF Start
      <3>2. CASE Decide(j)
        BY <3>2 DEF Decide, Unguarded
      <3>3. CASE Redecide(j)
        BY <3>3 DEF Redecide, Unguarded, Consented
      <3>4. CASE AcquireLock(j) \/ PollLock(j) \/ GiveUpLock(j) \/ Unlock(j) \/ Exit(j)
        BY <3>4 DEF AcquireLock, PollLock, GiveUpLock, Unlock, Exit, Consented
      <3>5. CASE BeginWalk(j)
        BY <3>5 DEF BeginWalk, Consented
      <3>6. CASE Walk(j)
        <4>1. pc[j] \in UnderLock /\ UNCHANGED <<req, way>>
          BY <3>6 DEF Walk, EnterBlock, Begin, Finish, Stamp, CommitWalk, DeadlockDetected, InBlock
        <4> QED BY <4>1 DEF Consented
      <3>7. CASE Reap(j)
        BY <3>7 DEF Reap, ReapWalk, ReapLock, OrphanStatement, Zombies
      <3>8. CASE Mishap(j)
        BY <3>8 DEF Mishap, ReadFails, LockFails, StatementFails, StatementSwallowed, Raise, UnlockFails,
                    LockSessionDrops, Kill, Consented
      <3> QED BY <1>3, <3>1, <3>2, <3>3, <3>4, <3>5, <3>6, <3>7, <3>8 DEF Step, Run
    <2> QED BY <2>1, <2>2
  <1> QED BY <1>1, <1>2, <1>3 DEF Next, Step

LEMMA NothingOpenStep ==
  ASSUME TypeOK, NothingOpen, [Next]_vars
  PROVE  NothingOpen'
  <1>1. CASE UNCHANGED vars
    BY <1>1 DEF vars, NothingOpen, Lingers
  <1>2. CASE AllEnded
    BY <1>1, <1>2 DEF AllEnded
  <1>3. ASSUME NEW j \in Jobs, Step(j) PROVE NothingOpen'
    <2> SUFFICES ASSUME NEW k \in Jobs, pc'[k] \notin Walking \cup Zombies
                 PROVE  tx'[k] = NoTx \/ Lingers(k)'
      BY DEF NothingOpen
    <2>1. CASE k # j
      BY <1>3, <2>1, Frame DEF NothingOpen, Lingers
    <2>2. CASE k = j
      <3> USE <2>2 DEF TypeOK, Walking, Zombies, Lingers
      <3>1. CASE Start(j) \/ Decide(j) \/ Redecide(j) \/ BeginWalk(j)
        BY <3>1 DEF Start, Decide, Redecide, BeginWalk, NothingOpen
      <3>2. CASE AcquireLock(j) \/ PollLock(j) \/ GiveUpLock(j) \/ Unlock(j) \/ Exit(j)
        BY <3>2 DEF AcquireLock, PollLock, GiveUpLock, Unlock, Exit, NothingOpen
      <3>3. ASSUME NEW r \in plan[j],
                   EnterBlock(j, r) \/ Begin(j, r) \/ Finish(j, r) \/ Stamp(j, r)
            PROVE  tx'[j] = NoTx \/ Lingers(j)'
        <4>1. (Raise(j) \/ Abandon(j)) /\ UNCHANGED mode
          BY <3>3 DEF EnterBlock, Begin, Finish, Stamp
        <4> QED BY <4>1 DEF Raise, Abandon, LetGo
      <3>4. CASE CommitWalk(j) \/ DeadlockDetected(j)
        BY <3>4 DEF CommitWalk, CommitWith, LetGo, DeadlockDetected, Raise
      <3>5. CASE Reap(j)
        BY <3>5 DEF Reap, ReapWalk, ReapLock, OrphanStatement, NothingOpen
      <3>6. CASE ReadFails(j) \/ LockFails(j) \/ UnlockFails(j) \/ LockSessionDrops(j)
        BY <3>6 DEF ReadFails, LockFails, UnlockFails, LockSessionDrops, NothingOpen
      <3>7. CASE StatementFails(j)
        BY <3>7 DEF StatementFails, Raise
      <3>9. ASSUME NEW r \in plan[j] PROVE ~StatementSwallowed(j, r)
        BY DEF StatementSwallowed
      <3>8. CASE Kill(j)
        <4>1. pc[j] \notin Walking \cup Zombies
          BY <3>8 DEF Kill, Alive
        <4> QED BY <3>8, <4>1 DEF Kill, NothingOpen
      <3> QED BY <1>3, <3>1, <3>2, <3>3, <3>4, <3>5, <3>6, <3>7, <3>8, <3>9
            DEF Step, Run, Walk, Mishap
    <2> QED BY <2>1, <2>2
  <1> QED BY <1>1, <1>2, <1>3 DEF Next, Step

-----------------------------------------------------------------------------
(* The course of a walk. *)

(* What is committed changes only by a walking process. *)
LEMMA CommittedStep ==
  ASSUME NEW j \in Jobs, Step(j), stamped' # stamped
  PROVE  Walk(j)
  <1>1. ~Start(j) /\ ~Decide(j) /\ ~Redecide(j) /\ ~BeginWalk(j)
    BY DEF Start, Decide, Redecide, BeginWalk
  <1>2. ~AcquireLock(j) /\ ~PollLock(j) /\ ~GiveUpLock(j) /\ ~Unlock(j) /\ ~Exit(j)
    BY DEF AcquireLock, PollLock, GiveUpLock, Unlock, Exit
  <1>3. ~Reap(j)
    BY DEF Reap, ReapWalk, ReapLock, OrphanStatement
  <1>4. ~Mishap(j)
    BY DEF Mishap, ReadFails, LockFails, StatementFails, StatementSwallowed, UnlockFails,
           LockSessionDrops, Kill
  <1> QED BY <1>1, <1>2, <1>3, <1>4 DEF Step, Run

(***************************************************************************)
(* A step of the walk that does not restamp: alembic's rows, its plan and  *)
(* what its transaction sees stay, and what is committed may catch up.     *)
(***************************************************************************)
LEMMA QuietStep ==
  ASSUME TypeOK, OnCourse, NEW j \in Jobs, NEW r \in plan[j],
         EnterBlock(j, r) \/ Begin(j, r) \/ Finish(j, r), pc'[j] \in Walking
  PROVE  /\ pc[j] \in Walking
         /\ UNCHANGED <<heads, plan, way, req>>
         /\ heads[j] = Rows(j)'
         /\ stamped' = stamped \/ stamped' = heads[j]
         /\ mode'[j] = "auto" => tx'[j] = NoTx
  <1> USE DEF TypeOK
  <1>1. pc[j] \in Walking
    BY DEF EnterBlock, Begin, Finish, Walking, InBlock
  <1>2. heads[j] = Rows(j) /\ (mode[j] = "auto" => tx[j] = NoTx)
    BY <1>1 DEF OnCourse
  <1>3. ~Raise(j) /\ ~Abandon(j)
    BY DEF Raise, Abandon, Walking
  <1>4. UNCHANGED <<heads, plan, way, req>>
    BY <1>3 DEF EnterBlock, Begin, Finish
  <1>5. ASSUME NEW eff, CommitWith(j, eff)
        PROVE  heads[j] = Rows(j)' /\ stamped' = heads[j] /\ tx'[j] = NoTx
    BY <1>2, <1>5 DEF CommitWith, Rows, NoTx
  <1>6. ASSUME UNCHANGED stamped, mode'[j] \in {"txn", mode[j]},
               NEW w, Write(j, r, w) \/ UNCHANGED tx
        PROVE  heads[j] = Rows(j)' /\ (mode'[j] = "auto" => tx'[j] = NoTx)
    <2>1. CASE UNCHANGED tx
      BY <1>2, <1>6, <2>1 DEF Rows
    <2>2. CASE ~UNCHANGED tx
      <3>1. mode[j] # "auto" /\ tx' = [tx EXCEPT ![j].eff[r] = w]
        BY <1>6, <2>2 DEF Write
      <3>2. tx'[j].del = tx[j].del /\ tx'[j].ins = tx[j].ins
        BY <3>1, ViewType DEF TxType
      <3> QED BY <1>2, <1>6, <3>1, <3>2 DEF Rows
    <2> QED BY <2>1, <2>2
  <1>7. CASE EnterBlock(j, r)
    BY <1>1, <1>3, <1>4, <1>5, <1>7 DEF EnterBlock
  <1>8. CASE Begin(j, r)
    BY <1>1, <1>3, <1>4, <1>5, <1>6, <1>8 DEF Begin
  <1>9. CASE Finish(j, r)
    <2>1. mode'[j] \in {"txn", mode[j]}
      BY <1>9 DEF Finish
    <2> QED BY <1>1, <1>3, <1>4, <1>5, <1>6, <1>9, <2>1 DEF Finish
  <1> QED BY <1>7, <1>8, <1>9

(* Restamping keeps alembic's rows the rows its transaction sees. *)
LEMMA StampRows ==
  ASSUME TypeOK, OnCourse, NEW j \in Jobs, NEW r \in plan[j],
         Stamp(j, r), pc'[j] \in Walking
  PROVE  /\ pc[j] \in Walking
         /\ UNCHANGED <<way, req, mode>>
         /\ heads'[j] = Restamp(way[j], heads[j], r)
         /\ plan'[j] = plan[j] \ {r}
         /\ heads'[j] = Rows(j)'
         /\ stamped' = stamped \/ stamped' = heads'[j]
         /\ mode[j] = "auto" => tx'[j] = NoTx
  <1> DEFINE new  == Restamp(way[j], heads[j], r)
             gone == Gone(j, r)
             come == Come(j, r)
  <1>1. pc[j] \in Walking
    BY DEF Stamp, Walking
  <1>2. heads[j] = Rows(j) /\ (mode[j] = "auto" => tx[j] = NoTx)
    BY <1>1 DEF OnCourse
  <1>3. ~Abandon(j)
    BY DEF Abandon, Walking, TypeOK
  <1>4. /\ WriteRows(j, gone, come)
        /\ UNCHANGED <<way, req, mode>>
        /\ heads'[j] = new /\ plan'[j] = plan[j] \ {r}
    BY <1>3 DEF Stamp, TypeOK
  <1>5. (heads[j] \ gone) \cup come = new
    BY DEF Gone, Come
  <1> HIDE DEF gone, come
  <1>6. CASE mode[j] = "auto"
    <2>1. stamped = heads[j] /\ tx'[j] = NoTx
      BY <1>2, <1>4, <1>6 DEF Rows, NoTx, WriteRows
    <2>2. stamped' = new
      BY <1>4, <1>5, <1>6, <2>1 DEF WriteRows
    <2>3. Rows(j)' = stamped'
      BY <2>1 DEF Rows, NoTx
    <2> QED BY <1>1, <1>4, <2>1, <2>2, <2>3
  <1>7. CASE mode[j] # "auto"
    <2>1. /\ tx'[j].del = tx[j].del \cup gone
          /\ tx'[j].ins = (tx[j].ins \ gone) \cup come
          /\ stamped' = stamped
      BY <1>4, <1>7, ViewType DEF WriteRows, TypeOK, TxType
    <2>2. Rows(j)' = (Rows(j) \ gone) \cup come
      BY <2>1 DEF Rows
    <2> QED BY <1>1, <1>2, <1>4, <1>5, <1>7, <2>1, <2>2
  <1> QED BY <1>6, <1>7

(***************************************************************************)
(* ... and the walk on course: the revision restamped on the way up is the *)
(* lowest of the plan, so none of what it stands on is still to be crossed.*)
(***************************************************************************)
LEMMA StampStep ==
  ASSUME TypeOK, TargetKnown, OnCourse, NEW j \in Jobs, NEW r \in plan[j],
         Stamp(j, r), pc'[j] \in Walking
  PROVE  /\ way[j] = "upgrade" => RisingTo(j, Target(j))'
         /\ way[j] = "downgrade" => SinkingTo(j, Target(j))'
  <1> DEFINE new == Restamp(way[j], heads[j], r)
  <1>1. /\ pc[j] \in Walking /\ UNCHANGED <<way, req>>
        /\ heads'[j] = new /\ plan'[j] = plan[j] \ {r}
        /\ stamped' = stamped \/ stamped' = heads'[j]
    BY StampRows
  <1>t. PICK t \in Rev : Target(j) = t
    BY <1>1 DEF TargetKnown, Alive
  <1>2. /\ Target(j)' = t /\ r \in Rev
        /\ plan[j] \subseteq Rev /\ heads[j] \in SUBSET Rev /\ IsNext(way[j], plan[j], r)
    BY <1>1, <1>t DEF Target, TypeOK, Stamp
  <1>3. CASE way[j] = "upgrade"
    <2>1. RisingTo(j, t)
      BY <1>1, <1>3, <1>t DEF OnCourse
    <2>2. Applied(new) = Applied(heads[j]) \cup Anc[r]
      BY <1>2, <1>3, RowsUpApplied DEF Restamp
    <2>3. Anc[r] \subseteq Anc[t]
      BY <1>2, <2>1, AncBasics DEF RisingTo
    <2>4. (plan[j] \ {r}) \cap Anc[r] = {}
      <3> SUFFICES ASSUME NEW q \in plan[j], q \in Anc[r], q # r PROVE FALSE
        OBVIOUS
      <3>1. q <= r /\ r <= q /\ q \in Nat /\ r \in Nat
        BY <1>2, <1>3, AncBasics, RevAssumption DEF IsNext
      <3> QED BY <3>1
    <2>5. RisingTo(j, t)'
      BY <1>1, <1>2, <2>1, <2>2, <2>3, <2>4 DEF RisingTo
    <2> QED BY <1>2, <1>3, <2>5 DEF RisingTo
  <1>4. CASE way[j] = "downgrade"
    <2>1. SinkingTo(j, t)
      BY <1>1, <1>4, <1>t DEF OnCourse
    <2>2. r \in Applied(heads[j]) /\ r \in Above(t)
      BY <2>1 DEF SinkingTo
    <2>3. /\ Applied(new) \subseteq Applied(heads[j])
          /\ Applied(heads[j]) \subseteq Applied(new) \cup {r}
      BY <1>2, <1>4, <2>2, RowsDownApplied DEF Restamp
    <2>4. plan'[j] \subseteq Above(t) \cap Applied(new)
      BY <1>1, <2>1, <2>3 DEF SinkingTo
    <2>5. SinkingTo(j, t)'
      BY <1>1, <1>2, <2>1, <2>2, <2>3, <2>4 DEF SinkingTo
    <2> QED BY <1>2, <1>4, <2>5 DEF SinkingTo
  <1>5. way[j] \in Ways
    BY DEF TypeOK
  <1> QED BY <1>3, <1>4

(* A walk starts from the committed rows, and is planned from them. *)
LEMMA BeginStep ==
  ASSUME TypeOK, TargetKnown, NothingOpen, NEW j \in Jobs,
         BeginWalk(j), pc'[j] \in Walking
  PROVE  /\ heads'[j] = Rows(j)'
         /\ mode'[j] # "auto"
         /\ way'[j] = "upgrade" => RisingTo(j, Target(j))'
         /\ way'[j] = "downgrade" => SinkingTo(j, Target(j))'
  <1> USE DEF TypeOK
  <1>1. pc[j] = "begin" /\ stamped \subseteq req[j].image
    BY DEF BeginWalk, Walking
  <1>2. PICK t \in Rev : Target(j) = t
    BY <1>1 DEF TargetKnown, Alive
  <1>3. /\ heads'[j] = stamped /\ stamped' = stamped
        /\ plan'[j] = Path(way[j], stamped, t)
        /\ mode'[j] = "txn" /\ UNCHANGED <<way, req, tx>>
    BY <1>1, <1>2 DEF BeginWalk
  <1>4. Target(j)' = t
    BY <1>2, <1>3 DEF Target
  <1>5. Rows(j)' = stamped
    BY <1>1, <1>3 DEF Rows, NothingOpen, Lingers, NoTx, Walking, Zombies
  <1>6. CASE way[j] = "upgrade"
    <2>1. RisingTo(j, t)'
      BY <1>3, <1>6 DEF RisingTo, Path, UpgradePath
    <2> QED BY <1>3, <1>4, <1>5, <1>6, <2>1 DEF RisingTo
  <1>7. CASE way[j] = "downgrade"
    <2>1. SinkingTo(j, t)'
      BY <1>3, <1>7, DowngradePathAbove DEF SinkingTo, Path
    <2> QED BY <1>3, <1>4, <1>5, <1>7, <2>1 DEF SinkingTo
  <1> QED BY <1>3, <1>5, <1>6, <1>7 DEF Ways

LEMMA OnCourseStep ==
  ASSUME TypeOK, TargetKnown, OneWalker, NothingOpen, OnCourse, [Next]_vars
  PROVE  OnCourse'
  <1> USE DEF TypeOK
  <1>1. CASE UNCHANGED vars
    BY <1>1 DEF vars, OnCourse, RisingTo, SinkingTo, Target, Rows
  <1>2. CASE AllEnded
    BY <1>1, <1>2 DEF AllEnded
  <1>3. ASSUME NEW j \in Jobs, Step(j) PROVE OnCourse'
    <2> SUFFICES ASSUME NEW k \in Jobs, pc'[k] \in Walking
                 PROVE  /\ heads'[k] = Rows(k)'
                        /\ mode'[k] = "auto" => tx'[k] = NoTx
                        /\ way'[k] = "upgrade" => RisingTo(k, Target(k))'
                        /\ way'[k] = "downgrade" => SinkingTo(k, Target(k))'
      BY DEF OnCourse
    <2>1. ASSUME k # j \/ UNCHANGED <<pc, req, way, plan, heads, tx, mode>>,
                 UNCHANGED stamped
          PROVE  /\ heads'[k] = Rows(k)'
                 /\ mode'[k] = "auto" => tx'[k] = NoTx
                 /\ way'[k] = "upgrade" => RisingTo(k, Target(k))'
                 /\ way'[k] = "downgrade" => SinkingTo(k, Target(k))'
      <3>1. /\ pc'[k] = pc[k] /\ req'[k] = req[k] /\ way'[k] = way[k]
            /\ plan'[k] = plan[k] /\ heads'[k] = heads[k] /\ tx'[k] = tx[k]
            /\ mode'[k] = mode[k]
        BY <1>3, <2>1, Frame
      <3> QED BY <2>1, <3>1 DEF OnCourse, RisingTo, SinkingTo, Target, Rows
    <2>2. CASE k # j
      <3>1. pc[k] \in Walking
        BY <1>3, <2>2, Frame
      <3>2. pc[j] \notin Walking
        BY <2>2, <3>1 DEF OneWalker, UnderLock
      <3>3. ~Walk(j)
        BY <3>2 DEF Walk, EnterBlock, Begin, Finish, Stamp, CommitWalk, DeadlockDetected,
                      InBlock, Walking
      <3>4. UNCHANGED stamped
        BY <1>3, <3>3, CommittedStep
      <3> QED BY <2>1, <2>2, <3>4
    <2>3. CASE k = j
      <3>1. CASE BeginWalk(j)
        BY <2>3, <3>1, BeginStep
      <3>2. ASSUME NEW r \in plan[j], EnterBlock(j, r) \/ Begin(j, r) \/ Finish(j, r)
            PROVE  /\ heads'[j] = Rows(j)'
                   /\ mode'[j] = "auto" => tx'[j] = NoTx
                   /\ way'[j] = "upgrade" => RisingTo(j, Target(j))'
                   /\ way'[j] = "downgrade" => SinkingTo(j, Target(j))'
        <4>1. /\ pc[j] \in Walking
              /\ UNCHANGED <<heads, plan, way, req>>
              /\ heads[j] = Rows(j)'
              /\ stamped' = stamped \/ stamped' = heads[j]
              /\ mode'[j] = "auto" => tx'[j] = NoTx
          BY <2>3, <3>2, QuietStep
        <4> QED BY <4>1 DEF OnCourse, RisingTo, SinkingTo, Target
      <3>3. ASSUME NEW r \in plan[j], Stamp(j, r)
            PROVE  /\ heads'[j] = Rows(j)'
                   /\ mode'[j] = "auto" => tx'[j] = NoTx
                   /\ way'[j] = "upgrade" => RisingTo(j, Target(j))'
                   /\ way'[j] = "downgrade" => SinkingTo(j, Target(j))'
        BY <2>3, <3>3, StampRows, StampStep
      <3>4. CASE CommitWalk(j) \/ DeadlockDetected(j) \/ StatementFails(j)
        BY <2>3, <3>4 DEF CommitWalk, DeadlockDetected, StatementFails, Raise, Walking
      <3>9. ASSUME NEW r \in plan[j], StatementSwallowed(j, r)
            PROVE  /\ heads'[j] = Rows(j)'
                   /\ mode'[j] = "auto" => tx'[j] = NoTx
                   /\ way'[j] = "upgrade" => RisingTo(j, Target(j))'
                   /\ way'[j] = "downgrade" => SinkingTo(j, Target(j))'
        BY <3>9 DEF StatementSwallowed, Walking, OnCourse, RisingTo, SinkingTo, Target, Rows
      <3>5. CASE LockSessionDrops(j) \/ ReapLock(j)
        BY <2>1, <3>5 DEF LockSessionDrops, ReapLock
      <3>6. CASE \/ Start(j) \/ Decide(j) \/ AcquireLock(j) \/ PollLock(j) \/ GiveUpLock(j)
                 \/ Unlock(j) \/ Exit(j) \/ Redecide(j)
        BY <2>3, <3>6 DEF Start, Decide, AcquireLock, PollLock, GiveUpLock, Unlock, Exit,
                          Redecide, Walking
      <3>7. CASE ReadFails(j) \/ LockFails(j) \/ UnlockFails(j) \/ Kill(j)
        BY <2>3, <3>7 DEF ReadFails, LockFails, UnlockFails, Kill, Walking, Zombies
      <3>8. ASSUME ReapWalk(j) \/ \E r \in plan[j] : OrphanStatement(j, r) PROVE FALSE
        BY <2>3, <3>8 DEF ReapWalk, OrphanStatement, Walking
      <3> QED BY <1>3, <2>3, <3>1, <3>2, <3>3, <3>4, <3>5, <3>6, <3>7, <3>8, <3>9
            DEF Step, Run, Reap, Mishap, Walk
    <2> QED BY <2>2, <2>3
  <1> QED BY <1>1, <1>2, <1>3 DEF Next, Step

(***************************************************************************)
(* The whole invariant: where no lock session is lost under a walk, each   *)
(* walk is alone, consented to, and between the committed rows and its     *)
(* target, whatever else fails and whatever its scripts commit.            *)
(***************************************************************************)
THEOREM WalkCorrect ==
  ASSUME "drop" \notin Faults
  PROVE  Spec => []WalkInv
  <1>1. Init => WalkInv
    <2> SUFFICES ASSUME Init PROVE WalkInv
      OBVIOUS
    <2>1. \A j \in Jobs : pc[j] = "idle" /\ tx[j] = NoTx
      BY DEF Init
    <2>2. OneWalker /\ Consented /\ NothingOpen /\ OnCourse
      BY <2>1 DEF OneWalker, Consented, NothingOpen, OnCourse, UnderLock, Walking
    <2> QED BY <2>2, TypeInit DEF WalkInv, Typed
  <1>2. WalkInv /\ [Next]_vars => WalkInv'
    <2> SUFFICES ASSUME WalkInv, [Next]_vars PROVE WalkInv'
      OBVIOUS
    <2>1. TypeOK' /\ TargetKnown'
      BY TypeStep, TargetStep DEF WalkInv, Typed
    <2>2. OneWalker' /\ Consented' /\ NothingOpen' /\ OnCourse'
      BY WalkerStep, ConsentedStep, NothingOpenStep, OnCourseStep DEF WalkInv
    <2> QED BY <2>1, <2>2 DEF WalkInv
  <1> QED BY <1>1, <1>2, PTL DEF Spec

-----------------------------------------------------------------------------
(***************************************************************************)
(* What follows from it.  The advisory lock excludes: two processes are    *)
(* never both past the second reading of the revision and before the end   *)
(* of their walk.                                                          *)
(***************************************************************************)
THEOREM MutualExclusion ==
  ASSUME "drop" \notin Faults
  PROVE  Spec => []OneWalker
  BY WalkCorrect, PTL DEF WalkInv

(***************************************************************************)
(* A walk waits for nothing but the open transaction of a killed process,  *)
(* or of one that is through with a script that called conn.commit(): the  *)
(* walks themselves never block each other, let alone deadlock.            *)
(***************************************************************************)
THEOREM WaitsForNobodyAlive ==
  ASSUME "drop" \notin Faults
  PROVE  Spec => []WaitsForTheDead
  <1>1. WalkInv => WaitsForTheDead
    <2> SUFFICES ASSUME WalkInv, NEW j \in Jobs, NEW k \in Jobs \ {j},
                        pc[j] \in Walking, WaitsFor(j, k)
                 PROVE  pc[k] \in Zombies \/ Lingers(k)
      BY DEF WaitsForTheDead
    <2>1. tx[k] # NoTx
      <3>1. PICK r \in plan[j] : HeldUp(j, r, k)
        BY DEF WaitsFor
      <3>2. r \in Rev
        BY DEF WalkInv, TypeOK
      <3> QED BY <3>1, <3>2 DEF HeldUp, NoTx
    <2>2. pc[k] \notin Walking
      BY DEF WalkInv, OneWalker, UnderLock
    <2> QED BY <2>1, <2>2 DEF WalkInv, NothingOpen
  <1> QED BY <1>1, WalkCorrect, PTL

(* A commit moves what is applied towards the committing walk's target. *)
LEMMA CommitsOnCourse ==
  ASSUME WalkInv, NEW j \in Jobs, Step(j), stamped' # stamped
  PROVE  /\ pc[j] \in Walking
         /\ way[j] = "upgrade" =>
              /\ Applied(stamped) \subseteq Applied(stamped')
              /\ Applied(stamped') \subseteq Applied(stamped) \cup Anc[Target(j)]
         /\ way[j] = "downgrade" =>
              /\ Applied(stamped') \subseteq Applied(stamped)
              /\ Applied(stamped) \subseteq Applied(stamped') \cup Above(Target(j))
  <1> USE DEF WalkInv
  <1>1. Walk(j)
    BY CommittedStep
  <1>2. pc[j] \in Walking
    BY <1>1 DEF Walk, EnterBlock, Begin, Finish, Stamp, CommitWalk, DeadlockDetected,
                InBlock, Walking
  <1>3. PICK t \in Rev : Target(j) = t
    BY <1>2 DEF TargetKnown, Alive
  <1>4. CASE stamped' = heads[j]
    BY <1>2, <1>3, <1>4 DEF OnCourse, RisingTo, SinkingTo
  <1>5. CASE stamped' # heads[j]
    <2>1. ASSUME NEW r \in plan[j], EnterBlock(j, r) \/ Begin(j, r) \/ Finish(j, r)
          PROVE  FALSE
      <3>1. pc'[j] \in Walking
        BY <2>1 DEF EnterBlock, Begin, Finish, Raise, Walking, TypeOK
      <3> QED BY <1>5, <2>1, <3>1, QuietStep
    <2>2. ~CommitWalk(j) /\ ~DeadlockDetected(j)
      BY <1>2, <1>5 DEF CommitWalk, CommitWith, db, OnCourse, DeadlockDetected
    <2>3. PICK r \in plan[j] : Stamp(j, r)
      BY <1>1, <2>1, <2>2 DEF Walk
    <2>4. pc'[j] \in Walking
      BY <2>3 DEF Stamp, Walking, TypeOK
    <2>5. stamped' = Restamp(way[j], heads[j], r)
      BY <2>3, <2>4, StampRows
    <2>6. heads[j] \in SUBSET Rev /\ r \in Rev
      BY DEF TypeOK
    <2>7. CASE way[j] = "upgrade"
      <3>1. RisingTo(j, t)
        BY <1>2, <1>3, <2>7 DEF OnCourse
      <3>2. Anc[r] \subseteq Anc[t]
        BY <3>1, AncBasics DEF RisingTo
      <3> QED BY <1>2, <1>3, <2>5, <2>6, <2>7, <3>1, <3>2, RowsUpApplied
            DEF RisingTo, Restamp
    <2>8. CASE way[j] = "downgrade"
      <3>1. SinkingTo(j, t)
        BY <1>2, <1>3, <2>8 DEF OnCourse
      <3>2. r \in Applied(heads[j]) /\ r \in Above(t)
        BY <3>1 DEF SinkingTo
      <3> QED BY <1>2, <1>3, <2>5, <2>6, <2>8, <3>1, <3>2, RowsDownApplied
            DEF SinkingTo, Restamp
    <2> QED BY <1>2, <2>7, <2>8
  <1> QED BY <1>4, <1>5

(***************************************************************************)
(* No revision stops being applied without --allow-destructive, and only   *)
(* one built on the target of the process that undoes it: the guard, taken *)
(* before the lock and again under it, holds good to the last commit.      *)
(***************************************************************************)
THEOREM ConsentNeeded ==
  ASSUME "drop" \notin Faults
  PROVE  Spec => NoDowngradeWithoutConsent
  <1>1. WalkInv /\ [Next]_vars => [UndoesByConsent]_vars
    <2> SUFFICES ASSUME WalkInv, [Next]_vars, vars' # vars,
                        Applied(stamped) \ Applied(stamped') # {}
                 PROVE  \E j \in Jobs : Undoing(j, Applied(stamped) \ Applied(stamped'))
      BY DEF UndoesByConsent
    <2>1. PICK j \in Jobs : Step(j)
      BY DEF Next, Step, AllEnded
    <2>2. stamped' # stamped
      OBVIOUS
    <2>3. pc[j] \in Walking /\ way[j] \in Ways
      BY <2>1, <2>2, CommitsOnCourse DEF WalkInv, TypeOK
    <2>4. way[j] = "downgrade"
      BY <2>1, <2>2, <2>3, CommitsOnCourse DEF Ways
    <2>5. Applied(stamped) \subseteq Applied(stamped') \cup Above(Target(j))
      BY <2>1, <2>2, <2>4, CommitsOnCourse
    <2>6. req[j].cmd = "run" /\ req[j].allow
      BY <2>3, <2>4 DEF WalkInv, Consented, UnderLock
    <2> QED BY <2>3, <2>5, <2>6 DEF Undoing, Above
  <1> QED BY <1>1, WalkCorrect, PTL DEF NoDowngradeWithoutConsent, Spec

(***************************************************************************)
(* No revision becomes applied but on the way to the target of a process   *)
(* that was asked to run.                                                  *)
(***************************************************************************)
THEOREM TargetNotPassed ==
  ASSUME "drop" \notin Faults
  PROVE  Spec => NothingPastTheTarget
  <1>1. WalkInv /\ [Next]_vars => [AppliesUpToTarget]_vars
    <2> SUFFICES ASSUME WalkInv, [Next]_vars, vars' # vars,
                        Applied(stamped') \ Applied(stamped) # {}
                 PROVE  \E j \in Jobs :
                          /\ pc[j] \in Walking /\ req[j].cmd = "run"
                          /\ Applied(stamped') \ Applied(stamped) \subseteq Anc[Target(j)]
      BY DEF AppliesUpToTarget
    <2>1. PICK j \in Jobs : Step(j)
      BY DEF Next, Step, AllEnded
    <2>2. stamped' # stamped
      OBVIOUS
    <2>3. pc[j] \in Walking /\ way[j] \in Ways
      BY <2>1, <2>2, CommitsOnCourse DEF WalkInv, TypeOK
    <2>4. way[j] = "upgrade"
      BY <2>1, <2>2, <2>3, CommitsOnCourse DEF Ways
    <2>5. Applied(stamped') \subseteq Applied(stamped) \cup Anc[Target(j)]
      BY <2>1, <2>2, <2>4, CommitsOnCourse
    <2>6. req[j].cmd = "run"
      BY <2>3 DEF WalkInv, Consented, UnderLock
    <2> QED BY <2>3, <2>5, <2>6
  <1> QED BY <1>1, WalkCorrect, PTL DEF NothingPastTheTarget, Spec

USE DEF HEAD, NONE

-----------------------------------------------------------------------------
(* The moves of a walk *)

(* Under the lock, nobody else commits. *)
LEMMA OthersWait ==
  ASSUME TypeOK, OneWalker, NEW j \in Jobs, Step(j),
         NEW k \in Jobs, k # j, pc[k] \in UnderLock
  PROVE  stamped' = stamped
  <1>1. pc[j] \notin Walking
    BY DEF OneWalker, UnderLock
  <1>2. ~Walk(j)
    BY <1>1 DEF Walk, EnterBlock, Begin, Finish, Stamp, CommitWalk, DeadlockDetected,
                InBlock, Walking
  <1> QED BY <1>2, CommittedStep

(* A process that is walking after a step has begun, restamped or neither. *)
LEMMA WalkMoves ==
  ASSUME TypeOK, OnCourse, NEW j \in Jobs, Step(j), pc'[j] \in Walking
  PROVE  \/ BeginWalk(j)
         \/ \E r \in plan[j] : Stamp(j, r)
         \/ /\ pc[j] \in Walking
            /\ req'[j] = req[j] /\ way'[j] = way[j]
            /\ plan'[j] = plan[j] /\ heads'[j] = heads[j]
            /\ stamped' = stamped \/ stamped' = heads[j]
  <1>1. ASSUME NEW r \in plan[j], EnterBlock(j, r) \/ Begin(j, r) \/ Finish(j, r)
        PROVE  /\ pc[j] \in Walking
               /\ req'[j] = req[j] /\ way'[j] = way[j]
               /\ plan'[j] = plan[j] /\ heads'[j] = heads[j]
               /\ stamped' = stamped \/ stamped' = heads[j]
    BY <1>1, QuietStep
  <1>2. CASE LockSessionDrops(j) \/ ReapLock(j) \/ \E r \in plan[j] : StatementSwallowed(j, r)
    BY <1>2 DEF LockSessionDrops, ReapLock, StatementSwallowed, Walking
  <1>3. ~CommitWalk(j) /\ ~DeadlockDetected(j) /\ ~StatementFails(j)
    BY DEF CommitWalk, DeadlockDetected, StatementFails, Raise, Walking, TypeOK
  <1>4. /\ ~Start(j) /\ ~Decide(j) /\ ~AcquireLock(j) /\ ~GiveUpLock(j)
        /\ ~Unlock(j) /\ ~Exit(j) /\ ~Redecide(j)
    BY DEF Start, Decide, AcquireLock, GiveUpLock, Unlock, Exit, Redecide, Walking, TypeOK
  <1>5. ~PollLock(j)
    BY DEF PollLock, Walking, TypeOK
  <1>6. ~ReadFails(j) /\ ~LockFails(j) /\ ~UnlockFails(j) /\ ~Kill(j)
    BY DEF ReadFails, LockFails, UnlockFails, Kill, Walking, Zombies, TypeOK
  <1>7. ~ReapWalk(j) /\ ~\E r \in plan[j] : OrphanStatement(j, r)
    BY DEF ReapWalk, OrphanStatement, Walking, TypeOK
  <1> QED BY <1>1, <1>2, <1>3, <1>4, <1>5, <1>6, <1>7 DEF Step, Run, Reap, Mishap, Walk

(* Nobody gets to the beginning of a walk but by looking under the lock. *)
LEMMA BeginMoves ==
  ASSUME TypeOK, NEW j \in Jobs, Step(j), pc'[j] = "begin"
  PROVE  /\ stamped' = stamped /\ req'[j] = req[j]
         /\ \/ Redecide(j)
            \/ pc[j] = "begin" /\ way'[j] = way[j]
  <1>1. CASE LockSessionDrops(j) \/ ReapLock(j)
    BY <1>1 DEF LockSessionDrops, ReapLock
  <1>2. CASE Redecide(j)
    BY <1>2 DEF Redecide
  <1>3. ~Walk(j)
    BY DEF Walk, EnterBlock, Begin, Finish, Stamp, CommitWalk, DeadlockDetected, Raise, Abandon,
           TypeOK
  <1>4. /\ ~Start(j) /\ ~Decide(j) /\ ~AcquireLock(j) /\ ~PollLock(j) /\ ~GiveUpLock(j)
        /\ ~Unlock(j) /\ ~Exit(j) /\ ~BeginWalk(j)
    BY DEF Start, Decide, AcquireLock, PollLock, GiveUpLock, Unlock, Exit, BeginWalk, TypeOK
  <1>5. ~ReadFails(j) /\ ~LockFails(j) /\ ~StatementFails(j) /\ ~UnlockFails(j) /\ ~Kill(j)
    BY DEF ReadFails, LockFails, StatementFails, Raise, UnlockFails, Kill, Zombies, TypeOK
  <1>6. ~ReapWalk(j) /\ ~\E r \in plan[j] : OrphanStatement(j, r) \/ StatementSwallowed(j, r)
    BY DEF ReapWalk, OrphanStatement, StatementSwallowed, TypeOK
  <1> QED BY <1>1, <1>2, <1>3, <1>4, <1>5, <1>6 DEF Step, Run, Reap, Mishap

-----------------------------------------------------------------------------
(* Command lines, and what a walk has still to reach *)

(* A process is given its command line once, when it starts. *)
LEMMA AskedOnce ==
  ASSUME TypeOK, NEW j \in Jobs, Step(j)
  PROVE  /\ pc'[j] # "idle"
         /\ pc[j] # "idle" => req'[j] = req[j]
         /\ pc[j] = "idle" => req'[j] \in Requests
  <1>1. CASE Start(j)
    BY <1>1 DEF Start, TypeOK
  <1>2. CASE Decide(j) \/ Redecide(j) \/ BeginWalk(j)
    BY <1>2 DEF Decide, Redecide, BeginWalk, TypeOK
  <1>3. CASE AcquireLock(j) \/ PollLock(j) \/ GiveUpLock(j) \/ Unlock(j) \/ Exit(j)
    BY <1>3 DEF AcquireLock, PollLock, GiveUpLock, Unlock, Exit, TypeOK
  <1>4. CASE Walk(j)
    BY <1>4 DEF Walk, EnterBlock, Begin, Finish, Stamp, CommitWalk, DeadlockDetected,
                InBlock, Walking, Raise, Abandon, TypeOK
  <1>5. CASE Reap(j)
    BY <1>5 DEF Reap, ReapWalk, ReapLock, OrphanStatement, Zombies, TypeOK
  <1>6. CASE Mishap(j)
    BY <1>6 DEF Mishap, ReadFails, LockFails, StatementFails, StatementSwallowed, UnlockFails,
                LockSessionDrops, Kill, Raise, Walking, Alive, TypeOK
  <1> QED BY <1>1, <1>2, <1>3, <1>4, <1>5, <1>6 DEF Step, Run

LEMMA AskedForStep ==
  ASSUME TypeOK, AskedFor, [Next]_vars
  PROVE  AskedFor'
  <1>1. CASE UNCHANGED vars
    BY <1>1 DEF vars, AskedFor
  <1>2. CASE AllEnded
    BY <1>1, <1>2 DEF AllEnded
  <1>3. ASSUME NEW j \in Jobs, Step(j) PROVE AskedFor'
    BY <1>3, AskedOnce, Frame DEF AskedFor
  <1> QED BY <1>1, <1>2, <1>3 DEF Next, Step

(* On the way down the next revision is a row that no other implies. *)
LEMMA Topmost ==
  ASSUME TypeOK, NEW j \in Jobs, NEW t \in Rev, SinkingTo(j, t),
         Above(t) \cap Applied(heads[j]) \subseteq plan[j],
         NEW r \in plan[j], way[j] = "downgrade", IsNext(way[j], plan[j], r)
  PROVE  r \in heads[j] /\ \A b \in heads[j] : r \in Anc[b] => b = r
  <1>1. heads[j] \in SUBSET Rev /\ plan[j] \subseteq Rev
    BY DEF TypeOK
  <1>2. r \in Applied(heads[j]) /\ r \in Rev /\ t \in Anc[r] \ {r}
    BY DEF SinkingTo, Above
  <1>3. ASSUME NEW b \in heads[j], r \in Anc[b] PROVE b = r
    <2>1. b \in Rev /\ t \in Anc[b] /\ r <= b
      BY <1>1, <1>2, <1>3, AncBasics
    <2>2. b # t
      BY <1>2, <1>3, AncAntisymmetric
    <2>3. b \in plan[j]
      BY <1>1, <2>1, <2>2, AppliedBasics DEF Above
    <2>4. b <= r
      BY <2>3 DEF IsNext
    <2> QED BY <1>2, <2>1, <2>4, RevAssumption
  <1>4. PICK b \in heads[j] : r \in Anc[b]
    BY <1>2 DEF Applied
  <1> QED BY <1>3, <1>4

LEMMA ReachingStep ==
  ASSUME WalkInv, Reaching, TypeOK', TargetKnown', [Next]_vars
  PROVE  Reaching'
  <1> USE DEF WalkInv
  <1>1. CASE UNCHANGED vars
    BY <1>1 DEF vars, Reaching, Target
  <1>2. CASE AllEnded
    BY <1>1, <1>2 DEF AllEnded
  <1>3. ASSUME NEW j \in Jobs, Step(j) PROVE Reaching'
    <2> DEFINE Here(k) ==
          /\ way[k] = "downgrade" => Target(k) \in Applied(stamped)
          /\ pc[k] \in Walking =>
               /\ way[k] = "upgrade" => Anc[Target(k)] \subseteq Applied(heads[k]) \cup plan[k]
               /\ way[k] = "downgrade" =>
                    Above(Target(k)) \cap Applied(heads[k]) \subseteq plan[k]
    <2> SUFFICES ASSUME NEW k \in Jobs, pc'[k] \in {"begin"} \cup Walking
                 PROVE  Here(k)'
      BY DEF Reaching, Walking
    <2>1. CASE k # j
      <3>1. /\ pc'[k] = pc[k] /\ req'[k] = req[k] /\ way'[k] = way[k]
            /\ plan'[k] = plan[k] /\ heads'[k] = heads[k]
        BY <1>3, <2>1, Frame
      <3>2. stamped' = stamped
        BY <1>3, <2>1, <3>1, OthersWait DEF UnderLock
      <3>3. Here(k)
        BY <3>1 DEF Reaching
      <3> QED BY <3>1, <3>2, <3>3 DEF Target
    <2>2. CASE k = j /\ pc'[j] = "begin"
      <3>1. pc'[j] \notin Walking
        BY <2>2 DEF Walking
      <3>2. stamped' = stamped /\ Target(j)' = Target(j)
        BY <1>3, <2>2, BeginMoves DEF Target
      <3>3. ASSUME way'[j] = "downgrade" PROVE Target(j) \in Applied(stamped)
        <4>1. CASE Redecide(j)
          <5>1. PICK row \in Readings : way'[j] = Direction(req[j].image, row, Target(j))
            BY <2>2, <4>1 DEF Redecide, TypeOK
          <5>2. row \in stamped /\ Target(j) \in Anc[row]
            BY <3>3, <5>1 DEF Direction, IsAncestor, Readings
          <5> QED BY <5>2 DEF Applied
        <4>2. CASE pc[j] = "begin" /\ way'[j] = way[j]
          BY <3>3, <4>2 DEF Reaching
        <4> QED BY <1>3, <2>2, <4>1, <4>2, BeginMoves
      <3> QED BY <2>2, <3>1, <3>2, <3>3
    <2>3. CASE k = j /\ pc'[j] \in Walking
      <3>1. CASE BeginWalk(j)
        <4>1. PICK t \in Rev : Target(j) = t
          BY <3>1 DEF BeginWalk, TargetKnown, Alive
        <4>2. /\ heads'[j] = stamped /\ stamped' = stamped
              /\ plan'[j] = Path(way[j], stamped, t) /\ UNCHANGED <<way, req>>
              /\ pc[j] = "begin"
          BY <2>3, <3>1, <4>1 DEF BeginWalk, TypeOK, Walking
        <4>3. Target(j)' = t /\ stamped \in SUBSET Rev
          BY <4>1, <4>2 DEF Target, TypeOK
        <4>4. way[j] = "upgrade" => Anc[t] \subseteq Applied(stamped) \cup plan'[j]
          BY <4>2 DEF Path, UpgradePath
        <4>5. way[j] = "downgrade" => Above(t) \cap Applied(stamped) \subseteq plan'[j]
          BY <4>2, <4>3, DowngradePathIs DEF Path
        <4>6. way[j] = "downgrade" => t \in Applied(stamped)
          BY <4>1, <4>2 DEF Reaching
        <4> QED BY <2>3, <4>2, <4>3, <4>4, <4>5, <4>6
      <3>2. ASSUME NEW r \in plan[j], Stamp(j, r) PROVE Here(j)'
        <4>1. /\ pc[j] \in Walking /\ UNCHANGED <<way, req>>
              /\ heads'[j] = Restamp(way[j], heads[j], r)
              /\ plan'[j] = plan[j] \ {r}
              /\ stamped' = stamped \/ stamped' = heads'[j]
          BY <2>3, <3>2, StampRows
        <4>2. PICK t \in Rev : Target(j) = t
          BY <4>1 DEF TargetKnown, Alive
        <4>3. /\ Target(j)' = t /\ r \in Rev /\ heads[j] \in SUBSET Rev
              /\ IsNext(way[j], plan[j], r) /\ way[j] \in Ways
          BY <3>2, <4>1, <4>2 DEF Target, TypeOK, Stamp
        <4>4. CASE way[j] = "upgrade"
          <5>1. Anc[t] \subseteq Applied(heads[j]) \cup plan[j]
            BY <4>1, <4>2, <4>4 DEF Reaching
          <5>2. Applied(heads'[j]) = Applied(heads[j]) \cup Anc[r] /\ r \in Anc[r]
            BY <4>1, <4>3, <4>4, RowsUpApplied, AncStep DEF Restamp
          <5>3. Anc[t] \subseteq Applied(heads'[j]) \cup plan'[j]
            BY <4>1, <5>1, <5>2
          <5> QED BY <4>1, <4>3, <4>4, <5>3
        <4>5. CASE way[j] = "downgrade"
          <5>1. /\ t \in Applied(stamped) /\ SinkingTo(j, t)
                /\ Above(t) \cap Applied(heads[j]) \subseteq plan[j]
            BY <4>1, <4>2, <4>5 DEF Reaching, OnCourse
          <5>2. r \in heads[j] /\ \A b \in heads[j] : r \in Anc[b] => b = r
            BY <4>3, <4>5, <5>1, Topmost
          <5>3. Applied(heads'[j]) = Applied(heads[j]) \ {r}
            BY <4>1, <4>3, <4>5, <5>2, RowsDownExact DEF Restamp
          <5>4. t \in Applied(heads[j]) /\ t # r
            BY <5>1 DEF SinkingTo, Above
          <5> QED BY <4>1, <4>3, <4>5, <5>1, <5>3, <5>4
        <4> QED BY <4>3, <4>4, <4>5 DEF Ways
      <3>3. CASE /\ pc[j] \in Walking
                 /\ req'[j] = req[j] /\ way'[j] = way[j]
                 /\ plan'[j] = plan[j] /\ heads'[j] = heads[j]
                 /\ stamped' = stamped \/ stamped' = heads[j]
        <4>1. Target(j)' = Target(j) /\ Here(j)
          BY <3>3 DEF Target, Reaching
        <4>2. way[j] = "downgrade" => Target(j) \in Applied(heads[j])
          BY <3>3, <4>1 DEF OnCourse, SinkingTo, Above
        <4> QED BY <2>3, <3>3, <4>1, <4>2
      <3> QED BY <1>3, <2>3, <3>1, <3>2, <3>3, WalkMoves
    <2> QED BY <2>1, <2>2, <2>3
  <1> QED BY <1>1, <1>2, <1>3 DEF Next, Step

(***************************************************************************)
(* Whoever walks was asked to, and its plan is all that lies between its   *)
(* rows and its target.                                                    *)
(***************************************************************************)
THEOREM ReachCorrect ==
  ASSUME "drop" \notin Faults
  PROVE  Spec => []ReachInv
  <1>1. Init => AskedFor /\ Reaching
    BY DEF Init, AskedFor, Reaching, Walking
  <1>2. WalkInv /\ WalkInv' /\ AskedFor /\ Reaching /\ [Next]_vars => AskedFor' /\ Reaching'
    BY AskedForStep, ReachingStep DEF WalkInv
  <1>3. ReachInv <=> WalkInv /\ AskedFor /\ Reaching
    BY DEF ReachInv
  <1> QED BY <1>1, <1>2, <1>3, WalkCorrect, PTL DEF Spec

-----------------------------------------------------------------------------
(* The refinement of ConvergeSpec *)

LEMMA PromiseResolve ==
  \A image, target : Promise!Resolve(image, target) = Resolve(image, target)
  BY DEF Promise!Resolve, Resolve, Promise!Tips, Tips, Promise!HEAD, Promise!NONE

LEMMA PromiseInit == Init => Promise!Init
  BY DEF Init, Promise!Init, Promise!Applied, Applied

(* A commit of a walk is for a command line that asks for it. *)
LEMMA CommitsAsAsked ==
  ASSUME ReachInv, NEW j \in Jobs, Step(j), stamped' # stamped
  PROVE  /\ pc[j] \in Walking /\ way[j] \in Ways
         /\ req[j] \in Requests /\ req[j].cmd = "run"
         /\ way[j] = "downgrade" => req[j].allow
         /\ Target(j) \in Rev
         /\ Promise!Resolve(req[j].image, req[j].target) = Target(j)
  <1> USE DEF ReachInv, WalkInv
  <1>1. pc[j] \in Walking
    BY CommitsOnCourse
  <1>2. pc[j] # "idle" /\ pc[j] \in UnderLock /\ pc[j] \in Alive
    BY <1>1 DEF Walking, UnderLock, Alive
  <1>3. way[j] \in Ways
    BY DEF TypeOK
  <1> QED BY <1>1, <1>2, <1>3, PromiseResolve DEF AskedFor, Consented, TargetKnown, Target

(***************************************************************************)
(* Whatever its scripts commit on their own and wherever it is killed, a   *)
(* run changes what is applied only towards the target of a command line   *)
(* it was given, backwards only with --allow-destructive and from a        *)
(* database that has the target, and never so that a revision is applied   *)
(* without what it stands on.                                              *)
(***************************************************************************)
THEOREM PartsPromised ==
  ASSUME "drop" \notin Faults
  PROVE  Spec => ConvergesInParts
  <1>1. ReachInv /\ ReachInv' /\ [Next]_vars =>
          [\E q \in Requests : Promise!ConvergePartly(q)]_(Applied(stamped))
    <2> SUFFICES ASSUME ReachInv, ReachInv', [Next]_vars, Applied(stamped') # Applied(stamped)
                 PROVE  \E q \in Requests : Promise!ConvergePartly(q)
      OBVIOUS
    <2> USE DEF ReachInv, WalkInv
    <2>1. PICK j \in Jobs : Step(j)
      BY DEF Next, Step, AllEnded, vars
    <2>2. stamped' # stamped
      OBVIOUS
    <2> DEFINE t == Target(j)
    <2>3. /\ pc[j] \in Walking /\ way[j] \in Ways
          /\ req[j] \in Requests /\ req[j].cmd = "run"
          /\ way[j] = "downgrade" => req[j].allow
          /\ t \in Rev /\ Promise!Resolve(req[j].image, req[j].target) = t
      BY <2>1, <2>2, CommitsAsAsked
    <2>4. t # Promise!NONE
      BY <2>3, RevAssumption DEF Promise!NONE
    <2>5. \A r \in Applied(stamped') : Anc[r] \subseteq Applied(stamped')
      <3>1. stamped' \in SUBSET Rev
        BY DEF TypeOK
      <3> QED BY <3>1, AppliedBasics
    <2>6. CASE way[j] = "upgrade"
      <3>1. /\ Applied(stamped) \subseteq Applied(stamped')
            /\ Applied(stamped') \subseteq Applied(stamped) \cup Anc[t]
        BY <2>1, <2>2, <2>6, CommitsOnCourse
      <3>2. Promise!AdvancePartly(t)
        BY <2>5, <3>1 DEF Promise!AdvancePartly
      <3> QED BY <2>3, <2>4, <3>2 DEF Promise!ConvergePartly
    <2>7. CASE way[j] = "downgrade"
      <3>1. /\ Applied(stamped') \subseteq Applied(stamped)
            /\ Applied(stamped) \subseteq Applied(stamped') \cup Above(t)
            /\ t \in Applied(stamped)
        BY <2>1, <2>2, <2>3, <2>7, CommitsOnCourse DEF Reaching
      <3>2. Promise!RetreatPartly(t)
        BY <2>5, <3>1 DEF Promise!RetreatPartly, Promise!Above, Above
      <3> QED BY <2>3, <2>4, <2>7, <3>2 DEF Promise!ConvergePartly
    <2> QED BY <2>3, <2>6, <2>7 DEF Ways
  <1> QED BY <1>1, PromiseInit, ReachCorrect, PTL
        DEF Spec, ConvergesInParts, Promise!PartlySpec

-----------------------------------------------------------------------------
(* One transaction per walk, of scripts that leave it alone *)

LEMMA OneTransactionStep ==
  ASSUME TypeOK, \A r \in Rev : Kind[r] = "plain", OneTransaction, [Next]_vars
  PROVE  OneTransaction'
  <1> USE DEF TypeOK, OneTransaction
  <1>1. CASE UNCHANGED vars
    BY <1>1 DEF vars
  <1>2. CASE AllEnded
    BY <1>1, <1>2 DEF AllEnded
  <1>3. ASSUME NEW j \in Jobs, Step(j) PROVE OneTransaction'
    <2>1. CASE mode' = mode
      BY <2>1
    <2>2. CASE BeginWalk(j)
      BY <2>2 DEF BeginWalk
    <2>3. ASSUME NEW r \in plan[j], EnterBlock(j, r) \/ Begin(j, r) \/ Finish(j, r)
          PROVE  OneTransaction'
      <3>1. Kind[r] = "plain"
        OBVIOUS
      <3> QED BY <2>3, <3>1 DEF EnterBlock, Begin, Finish, InBlock, CommitsRaw, CommitsByHand
    <2>4. mode' = mode \/ BeginWalk(j)
            \/ \E r \in plan[j] : EnterBlock(j, r) \/ Begin(j, r) \/ Finish(j, r)
      <3>1. CASE Start(j) \/ Decide(j) \/ Redecide(j)
        BY <3>1 DEF Start, Decide, Redecide
      <3>2. CASE AcquireLock(j) \/ PollLock(j) \/ GiveUpLock(j) \/ Unlock(j) \/ Exit(j)
        BY <3>2 DEF AcquireLock, PollLock, GiveUpLock, Unlock, Exit
      <3>3. CASE Walk(j)
        BY <3>3 DEF Walk, Stamp, CommitWalk, DeadlockDetected
      <3>4. CASE Reap(j)
        BY <3>4 DEF Reap, ReapWalk, ReapLock, OrphanStatement
      <3>5. CASE Mishap(j)
        BY <3>5 DEF Mishap, ReadFails, LockFails, StatementFails, StatementSwallowed,
                    UnlockFails, LockSessionDrops, Kill
      <3> QED BY <1>3, <3>1, <3>2, <3>3, <3>4, <3>5 DEF Step, Run
    <2> QED BY <2>1, <2>2, <2>3, <2>4
  <1> QED BY <1>1, <1>2, <1>3 DEF Next, Step

(* Only the end of a walk commits. *)
LEMMA CommitsAtTheEnd ==
  ASSUME TypeOK, \A r \in Rev : Kind[r] = "plain", OneTransaction,
         NEW j \in Jobs, Step(j), stamped' # stamped
  PROVE  CommitWalk(j)
  <1>1. Walk(j)
    BY CommittedStep
  <1>2. ASSUME NEW r \in plan[j], EnterBlock(j, r) \/ Begin(j, r) \/ Finish(j, r)
        PROVE  FALSE
    <2>1. Kind[r] = "plain"
      BY DEF TypeOK
    <2> QED BY <1>2, <2>1 DEF EnterBlock, Begin, Finish, InBlock, CommitsRaw, CommitsByHand
  <1>3. ASSUME NEW r \in plan[j], Stamp(j, r) PROVE FALSE
    BY <1>3 DEF Stamp, WriteRows, OneTransaction
  <1>4. ~DeadlockDetected(j)
    BY DEF DeadlockDetected
  <1> QED BY <1>1, <1>2, <1>3, <1>4 DEF Walk

(***************************************************************************)
(* "In ONE transaction": of scripts that leave alembic's alone, a run      *)
(* takes a database all the way to its target or leaves it as it was, in   *)
(* one step that nobody sees half of, wherever it fails or is killed.      *)
(***************************************************************************)
THEOREM WholeWalksPromised ==
  ASSUME "drop" \notin Faults, \A r \in Rev : Kind[r] = "plain"
  PROVE  Spec => ConvergesInWholeWalks
  <1>1. Init => OneTransaction
    BY DEF Init, OneTransaction
  <1>2. ReachInv /\ OneTransaction /\ [Next]_vars => OneTransaction'
    BY OneTransactionStep DEF ReachInv, WalkInv
  <1>3. ReachInv /\ OneTransaction /\ [Next]_vars =>
          [\E q \in Requests : Promise!Converge(q)]_(Applied(stamped))
    <2> SUFFICES ASSUME ReachInv, OneTransaction, [Next]_vars,
                        Applied(stamped') # Applied(stamped)
                 PROVE  \E q \in Requests : Promise!Converge(q)
      OBVIOUS
    <2> USE DEF ReachInv, WalkInv
    <2>1. PICK j \in Jobs : Step(j)
      BY DEF Next, Step, AllEnded, vars
    <2>2. stamped' # stamped
      OBVIOUS
    <2> DEFINE t == Target(j)
    <2>3. /\ pc[j] \in Walking /\ way[j] \in Ways
          /\ req[j] \in Requests /\ req[j].cmd = "run"
          /\ way[j] = "downgrade" => req[j].allow
          /\ t \in Rev /\ Promise!Resolve(req[j].image, req[j].target) = t
      BY <2>1, <2>2, CommitsAsAsked
    <2>4. t # Promise!NONE
      BY <2>3, RevAssumption DEF Promise!NONE
    <2>5. plan[j] = {} /\ stamped' = heads[j]
      <3>1. CommitWalk(j)
        BY <2>1, <2>2, CommitsAtTheEnd
      <3> QED BY <2>3, <3>1 DEF CommitWalk, CommitWith, OneTransaction, OnCourse
    <2>6. CASE way[j] = "upgrade"
      <3>1. Applied(stamped') = Applied(stamped) \cup Anc[t]
        BY <2>3, <2>5, <2>6 DEF OnCourse, RisingTo, Reaching
      <3>2. Promise!Advance(t)
        BY <3>1 DEF Promise!Advance
      <3> QED BY <2>3, <2>4, <3>2 DEF Promise!Converge
    <2>7. CASE way[j] = "downgrade"
      <3>1. Applied(stamped') = Applied(stamped) \ Above(t) /\ t \in Applied(stamped)
        BY <2>3, <2>5, <2>7 DEF OnCourse, SinkingTo, Reaching
      <3>2. Promise!Retreat(t)
        BY <3>1 DEF Promise!Retreat, Promise!Above, Above
      <3> QED BY <2>3, <2>4, <2>7, <3>2 DEF Promise!Converge
    <2> QED BY <2>3, <2>6, <2>7 DEF Ways
  <1> QED BY <1>1, <1>2, <1>3, PromiseInit, ReachCorrect, PTL
        DEF Spec, ConvergesInWholeWalks, Promise!Spec

-----------------------------------------------------------------------------
(* The rows of alembic_version *)

(* What is committed is the walk's rows, before or after a restamp. *)
LEMMA CommittedRows ==
  ASSUME WalkInv, NEW j \in Jobs, Step(j), stamped' # stamped
  PROVE  /\ pc[j] \in Walking
         /\ stamped' = heads[j] \/ (pc'[j] \in Walking /\ stamped' = heads'[j])
  <1> USE DEF WalkInv
  <1>1. Walk(j)
    BY CommittedStep
  <1>2. pc[j] \in Walking
    BY CommitsOnCourse
  <1>3. CASE pc'[j] \in Walking
    <2>1. CASE BeginWalk(j)
      BY <2>1 DEF BeginWalk
    <2>2. ASSUME NEW r \in plan[j], Stamp(j, r) PROVE stamped' = heads'[j]
      BY <1>3, <2>2, StampRows
    <2> QED BY <1>2, <1>3, <2>1, <2>2, WalkMoves
  <1>4. CASE pc'[j] \notin Walking
    <2>1. ASSUME NEW r \in plan[j], EnterBlock(j, r) \/ Begin(j, r) \/ Finish(j, r) \/ Stamp(j, r)
          PROVE  FALSE
      BY <1>4, <2>1 DEF EnterBlock, Begin, Finish, Stamp, Walking, TypeOK
    <2>2. CASE CommitWalk(j)
      BY <1>2, <2>2 DEF CommitWalk, CommitWith, db, OnCourse
    <2>3. ~DeadlockDetected(j)
      BY DEF DeadlockDetected
    <2> QED BY <1>1, <1>2, <2>1, <2>2, <2>3 DEF Walk
  <1> QED BY <1>3, <1>4

(* A restamp leaves rows of which none implies another. *)
LEMMA StampTips ==
  ASSUME ReachInv, TipsOnly, ShortcutsImplied, NEW j \in Jobs, NEW r \in plan[j],
         Stamp(j, r), pc'[j] \in Walking
  PROVE  Antichain(heads'[j])
  <1> USE DEF ReachInv, WalkInv
  <1>1. /\ pc[j] \in Walking
        /\ heads'[j] = Restamp(way[j], heads[j], r)
    BY StampRows
  <1>2. PICK t \in Rev : Target(j) = t
    BY <1>1 DEF TargetKnown, Alive
  <1>3. /\ r \in Rev /\ plan[j] \subseteq Rev /\ heads[j] \in SUBSET Rev
        /\ IsNext(way[j], plan[j], r) /\ way[j] \in Ways /\ Antichain(heads[j])
    BY <1>1 DEF TypeOK, Stamp, TipsOnly
  <1>4. CASE way[j] = "upgrade"
    <2>1. RisingTo(j, t) /\ Anc[t] \subseteq Applied(heads[j]) \cup plan[j]
      BY <1>1, <1>2, <1>4 DEF OnCourse, Reaching
    <2>2. r \notin Applied(heads[j]) /\ Anc[r] \subseteq Anc[t]
      BY <1>2, <2>1, AncTransitive DEF RisingTo
    <2>3. ASSUME NEW a \in Anc[r] \ {r}, a \in plan[j] PROVE FALSE
      <3>1. a <= r /\ r <= a /\ a \in Nat /\ r \in Nat
        BY <1>3, <1>4, <2>3, AncBelow, RevAssumption DEF IsNext
      <3> QED BY <3>1
    <2>4. Anc[r] \ {r} \subseteq Applied(heads[j])
      BY <2>1, <2>2, <2>3
    <2> QED BY <1>1, <1>3, <1>4, <2>2, <2>4, RowsUpTips DEF Restamp
  <1>5. CASE way[j] = "downgrade"
    <2>1. SinkingTo(j, t) /\ Above(t) \cap Applied(heads[j]) \subseteq plan[j]
      BY <1>1, <1>2, <1>5 DEF OnCourse, Reaching
    <2>2. r \in heads[j]
      BY <1>3, <1>5, <2>1, Topmost
    <2> QED BY <1>1, <1>3, <1>5, <2>2, RowsDownTips DEF Restamp
  <1> QED BY <1>3, <1>4, <1>5 DEF Ways

LEMMA TipsStep ==
  ASSUME ReachInv, TipsOnly, ShortcutsImplied, [Next]_vars
  PROVE  TipsOnly'
  <1> USE DEF ReachInv, WalkInv
  <1>1. CASE UNCHANGED vars
    BY <1>1 DEF vars, TipsOnly
  <1>2. CASE AllEnded
    BY <1>1, <1>2 DEF AllEnded
  <1>3. ASSUME NEW j \in Jobs, Step(j) PROVE TipsOnly'
    <2>1. ASSUME NEW k \in Jobs, pc'[k] \in Walking PROVE Antichain(heads'[k])
      <3>1. CASE k # j
        BY <1>3, <2>1, <3>1, Frame DEF TipsOnly
      <3>2. CASE k = j
        <4>1. CASE BeginWalk(j)
          BY <2>1, <3>2, <4>1 DEF BeginWalk, TipsOnly, TypeOK, Walking
        <4>2. ASSUME NEW r \in plan[j], Stamp(j, r) PROVE Antichain(heads'[j])
          BY <2>1, <3>2, <4>2, StampTips
        <4>3. CASE pc[j] \in Walking /\ heads'[j] = heads[j]
          BY <3>2, <4>3 DEF TipsOnly
        <4> QED BY <1>3, <2>1, <3>2, <4>1, <4>2, <4>3, WalkMoves
      <3> QED BY <3>1, <3>2
    <2>2. Antichain(stamped')
      <3>1. CASE stamped' = stamped
        BY <3>1 DEF TipsOnly
      <3>2. CASE stamped' # stamped
        BY <1>3, <2>1, <3>2, CommittedRows DEF TipsOnly
      <3> QED BY <3>1, <3>2
    <2> QED BY <2>1, <2>2 DEF TipsOnly
  <1> QED BY <1>1, <1>2, <1>3 DEF Next, Step

(* The databases walks are started on are ones alembic could have left. *)
StampsAreTips == \A rows \in Stamps : Tips(Applied(rows)) = rows

THEOREM TipsCorrect ==
  ASSUME "drop" \notin Faults, ShortcutsImplied, StampsAreTips
  PROVE  Spec => []TipsInv
  <1>1. Init => TipsOnly
    <2> SUFFICES ASSUME Init PROVE TipsOnly
      OBVIOUS
    <2>1. stamped \in SUBSET Rev /\ Tips(Applied(stamped)) = stamped
      BY ScriptsAssumption DEF Init, StampsAreTips
    <2>2. \A j \in Jobs : pc[j] \notin Walking
      BY DEF Init, Walking
    <2> QED BY <2>1, <2>2, TipsAntichain DEF TipsOnly
  <1>2. ReachInv /\ TipsOnly /\ [Next]_vars => TipsOnly'
    BY TipsStep
  <1>3. TipsInv <=> ReachInv /\ TipsOnly
    BY DEF TipsInv
  <1> QED BY <1>1, <1>2, <1>3, ReachCorrect, PTL DEF Spec

(***************************************************************************)
(* alembic_version holds the tips of what is applied and nothing else,     *)
(* through every merge, unmerge, partial rollback and crash: of any graph  *)
(* in which a parent that its own sibling implies is implied by whatever   *)
(* may stand beside, as the history of this repository is.                 *)
(***************************************************************************)
THEOREM RowsAlwaysTips ==
  ASSUME "drop" \notin Faults, ShortcutsImplied, StampsAreTips
  PROVE  Spec => []RowsAreTips
  <1>1. TipsInv => RowsAreTips
    BY TipsAntichain DEF TipsInv, ReachInv, WalkInv, TypeOK, TipsOnly, RowsAreTips
  <1> QED BY <1>1, TipsCorrect, PTL
=============================================================================
