---------------------------- MODULE ReleaseProofs ----------------------------
(***************************************************************************)
(* What releases leave of the schema, for every graph and number of        *)
(* processes, where nobody walks down: whatever their scripts commit on    *)
(* their own, if no lock session is lost under a walk; and whoever loses   *)
(* the lock, if their scripts leave alembic's transaction alone.           *)
(***************************************************************************)
EXTENDS SchemaProofs

USE DEF Goto, End, HEAD, NONE

-----------------------------------------------------------------------------
(* Levels in order *)

(* A statement of a script on the way up does not undo what is built. *)
LEMMA KeepsBuilt ==
  ASSUME NEW q \in Rev, NEW v \in Levels, NEW w,
         w = First("upgrade", q, v) \/ w = Rest("upgrade", q, v), w # "raises"
  PROVE  /\ Built(q, v) => Built(q, w)
         /\ w = "flawed" => v = "flawed"
         /\ w = Rest("upgrade", q, v) => Built(q, w)
  BY DEF First, Rest, Built, PassedOver, Levels

(* The next revision on the way up stands on rows of the walk. *)
LEMMA NextStands ==
  ASSUME ReachInv, NEW j \in Jobs, pc[j] \in Walking, way[j] = "upgrade",
         NEW q \in plan[j], IsNext(way[j], plan[j], q)
  PROVE  q \in Rev /\ q \notin Applied(heads[j]) /\ Down[q] \subseteq Applied(heads[j])
  <1> USE DEF ReachInv, WalkInv
  <1>1. PICK t \in Rev : Target(j) = t
    BY DEF TargetKnown, Alive
  <1>2. q \in Rev /\ plan[j] \subseteq Rev
    BY DEF TypeOK
  <1>3. RisingTo(j, t) /\ Anc[t] \subseteq Applied(heads[j]) \cup plan[j]
    BY <1>1 DEF OnCourse, Reaching
  <1>4. Down[q] \subseteq Anc[t]
    BY <1>2, <1>3, AncTransitive, AncBasics DEF RisingTo
  <1>5. ASSUME NEW a \in Down[q], a \in plan[j] PROVE FALSE
    <2>1. a < q /\ q <= a /\ a \in Nat /\ q \in Nat
      BY <1>2, <1>5, AncStep, RevAssumption DEF IsNext
    <2> QED BY <2>1
  <1> QED BY <1>2, <1>3, <1>4, <1>5 DEF RisingTo

(* A walk in an autocommit_block sees what is committed, and no more. *)
LEMMA AutoSees ==
  ASSUME ReachInv, NEW j \in Jobs, pc[j] \in Walking, mode[j] = "auto"
  PROVE  heads[j] = stamped /\ View(j) = schema
  BY NoTxView DEF ReachInv, WalkInv, OnCourse

LEMMA InOrderSame ==
  ASSUME NEW f, NEW g, NEW S, InOrder(f, S), \A r \in Rev : g[r] = f[r]
  PROVE  InOrder(g, S)
  BY DEF InOrder

(* One revision, the next, gets a level that its script leaves it at. *)
LEMMA InOrderWrite ==
  ASSUME NEW f, NEW g, NEW S, InOrder(f, S), NEW q \in Rev, NEW w,
         \A r \in Rev : g[r] = IF r = q THEN w ELSE f[r],
         Down[q] \subseteq S, w = "flawed" => PassedOver(q),
         Built(q, f[q]) => Built(q, w)
  PROVE  InOrder(g, S)
  BY DEF InOrder

LEMMA InOrderStamp ==
  ASSUME NEW f, NEW S, InOrder(f, S), NEW q \in Rev, Built(q, f[q])
  PROVE  InOrder(f, S \cup {q})
  BY DEF InOrder

(* The statements of a script, on the way up. *)
LEMMA StatementInOrder ==
  ASSUME ReachInv, Climbing, NEW j \in Jobs, NEW q \in plan[j],
         (Begin(j, q) /\ ~Raise(j)) \/ Finish(j, q)
  PROVE  /\ InOrder(View(j)', Applied(heads[j]))
         /\ InOrder(schema', Applied(stamped'))
         /\ Finish(j, q) => Built(q, View(j)'[q])
  <1> USE DEF ReachInv, WalkInv
  <1>1. /\ pc[j] \in Walking /\ IsNext(way[j], plan[j], q) /\ q \in Rev
        /\ pc[j] # "stamp"
    BY DEF Begin, Finish, Walking, TypeOK
  <1>2. way[j] = "upgrade" /\ InOrder(View(j), Applied(heads[j])) /\ View(j)[q] \in Levels
    BY <1>1, ViewType DEF Climbing
  <1>3. Down[q] \subseteq Applied(heads[j]) /\ q \notin Applied(heads[j])
    BY <1>1, <1>2, NextStands
  <1>4. PICK w \in Levels :
          /\ w = First("upgrade", q, View(j)[q]) \/ w = Rest("upgrade", q, View(j)[q])
          /\ Finish(j, q) => w = Rest("upgrade", q, View(j)[q])
          /\ w # "raises"
          /\ \A r \in Rev : View(j)'[r] = IF r = q THEN w ELSE View(j)[r]
          /\ \/ /\ stamped' = stamped
                /\ \A r \in Rev \ {q} : schema'[r] = schema[r]
                /\ schema' = schema \/ (mode[j] = "auto" /\ schema'[q] = w)
             \/ stamped' = Rows(j) /\ schema' = View(j)'
    <2>1. CASE Begin(j, q) /\ ~Raise(j)
      <3>1. pc[j] # "rest"
        BY <2>1 DEF Begin
      <3>2. ~Finish(j, q)
        BY <3>1 DEF Finish
      <3> QED BY <1>2, <2>1, <3>2, BeginView
    <2>2. CASE Finish(j, q)
      <3>1. "raises" \notin Levels
        BY DEF Levels
      <3> QED BY <1>2, <2>2, <3>1, FinishView
    <2> QED BY <2>1, <2>2
  <1>5. View(j)[q] = "flawed" => PassedOver(q)
    BY <1>1, <1>2 DEF InOrder
  <1>6. /\ Built(q, View(j)[q]) => Built(q, w)
        /\ w = "flawed" => PassedOver(q)
        /\ Finish(j, q) => Built(q, w)
    BY <1>1, <1>2, <1>4, <1>5, KeepsBuilt
  <1>7. InOrder(View(j)', Applied(heads[j]))
    BY <1>1, <1>2, <1>3, <1>4, <1>6, InOrderWrite
  <1>8. InOrder(schema', Applied(stamped'))
    <2>1. CASE stamped' = stamped /\ schema' = schema
      BY <2>1 DEF Climbing
    <2>2. CASE /\ stamped' = stamped /\ mode[j] = "auto" /\ schema'[q] = w
               /\ \A r \in Rev \ {q} : schema'[r] = schema[r]
      <3>1. heads[j] = stamped /\ View(j) = schema
        BY <1>1, <2>2, AutoSees
      <3>2. \A r \in Rev : schema'[r] = View(j)'[r]
        BY <1>4, <2>2, <3>1
      <3> QED BY <1>7, <2>2, <3>1, <3>2, InOrderSame
    <2>3. CASE stamped' = Rows(j) /\ schema' = View(j)'
      BY <1>1, <1>7, <2>3 DEF OnCourse
    <2> QED BY <1>4, <2>1, <2>2, <2>3
  <1> QED BY <1>1, <1>4, <1>6, <1>7, <1>8

(* A statement that outlives its process, seen from anybody's view. *)
LEMMA OrphanInOrder ==
  ASSUME ReachInv, Climbing, NEW j \in Jobs, NEW q \in plan[j], OrphanStatement(j, q)
  PROVE  /\ q \in Rev /\ stamped' = stamped /\ Down[q] \subseteq Applied(stamped)
         /\ \A r \in Rev \ {q} : schema'[r] = schema[r]
         /\ Built(q, schema[q]) => Built(q, schema'[q])
         /\ schema'[q] = "flawed" => schema[q] = "flawed"
         /\ \A k \in Jobs \ {j} : tx[k].eff[q] = "same"
  <1> USE DEF ReachInv, WalkInv
  <1>1. /\ pc[j] \in {"zfirst", "zrest"} /\ IsNext(way[j], plan[j], q)
        /\ q \in Rev /\ schema[q] \in Levels /\ stamped' = stamped
    BY DEF OrphanStatement, TypeOK
  <1>2. way[j] = "upgrade" /\ Down[q] \subseteq Applied(stamped)
    BY <1>1 DEF Climbing, OrphansInOrder
  <1>3. PICK w : /\ w = First("upgrade", q, schema[q]) \/ w = Rest("upgrade", q, schema[q])
                 /\ w # "raises" /\ schema' = [schema EXCEPT ![q] = w]
    BY <1>1, <1>2 DEF OrphanStatement
  <1>4. schema'[q] = w /\ \A r \in Rev \ {q} : schema'[r] = schema[r]
    BY <1>1, <1>3 DEF TypeOK
  <1>5. \A k \in Jobs \ {j} : tx[k].eff[q] = "same"
    BY <1>1 DEF OrphanStatement, Blocked, HeldUp
  <1> QED BY <1>1, <1>2, <1>3, <1>4, <1>5, KeepsBuilt

(***************************************************************************)
(* A failure that a script lets pass: what is committed has the revision   *)
(* without what failed, and the walk, with nothing open, sees the same.    *)
(***************************************************************************)
LEMMA SwallowedInOrder ==
  ASSUME ReachInv, Climbing, NEW j \in Jobs, NEW q \in plan[j], StatementSwallowed(j, q)
  PROVE  /\ pc'[j] = "stamp" /\ UNCHANGED <<stamped, way, plan, heads>>
         /\ plan[j] \in SUBSET Rev /\ IsNext(way[j], plan[j], q)
         /\ InOrder(schema', Applied(stamped)) /\ heads[j] = stamped
         /\ View(j)' = schema' /\ Built(q, schema'[q])
  <1> USE DEF ReachInv, WalkInv
  <1>1. /\ pc[j] = "rest" /\ pc[j] \in Walking /\ IsNext(way[j], plan[j], q)
        /\ Kind[q] = "raw" /\ mode[j] = "auto" /\ q \in Rev
        /\ pc'[j] = "stamp" /\ UNCHANGED <<stamped, way, plan, heads, tx>>
        /\ schema' = [schema EXCEPT ![q] = "flawed"]
    BY DEF StatementSwallowed, CommitsRaw, Walking, TypeOK
  <1>2. tx[j] = NoTx /\ heads[j] = stamped /\ way[j] = "upgrade"
    BY <1>1, AutoSees DEF OnCourse, Climbing
  <1>3. Down[q] \subseteq Applied(stamped)
    BY <1>1, <1>2, NextStands
  <1>4. Built(q, "flawed") /\ \A r \in Rev : schema'[r] = IF r = q THEN "flawed" ELSE schema[r]
    BY <1>1 DEF Built, PassedOver, TypeOK
  <1>5. InOrder(schema', Applied(stamped))
    <2>1. InOrder(schema, Applied(stamped)) /\ PassedOver(q)
      BY <1>1 DEF Climbing, PassedOver
    <2> QED BY <1>1, <1>3, <1>4, <2>1 DEF InOrder
  <1>6. View(j)' = schema'
    <2>1. tx'[j].eff = [r \in Rev |-> "same"]
      BY <1>1, <1>2 DEF NoTx
    <2>2. schema' = [r \in Rev |-> schema'[r]]
      BY <1>1 DEF TypeOK
    <2> QED BY <2>1, <2>2 DEF View, Overlay
  <1> QED BY <1>1, <1>2, <1>4, <1>5, <1>6 DEF TypeOK

(* What every walk sees is in order after a step. *)
LEMMA ViewsInOrder ==
  ASSUME ReachInv, Climbing, NEW j \in Jobs, Step(j), "drop" \notin Faults,
         NEW k \in Jobs, pc'[k] \in Walking, way'[k] = "upgrade"
  PROVE  /\ InOrder(View(k)', Applied(heads'[k]))
         /\ pc'[k] = "stamp" =>
              \A r \in plan'[k] : IsNext(way'[k], plan'[k], r) => Built(r, View(k)'[r])
  <1> USE DEF ReachInv, WalkInv
  <1>1. CASE k # j
    <2>1. /\ pc'[k] = pc[k] /\ req'[k] = req[k] /\ way'[k] = way[k]
          /\ plan'[k] = plan[k] /\ heads'[k] = heads[k] /\ tx'[k] = tx[k]
          /\ plan[k] \in SUBSET Rev
      BY <1>1, Frame DEF TypeOK
    <2>2. /\ InOrder(View(k), Applied(heads[k]))
          /\ pc[k] = "stamp" =>
               \A r \in plan[k] : IsNext(way[k], plan[k], r) => Built(r, View(k)[r])
      BY <2>1 DEF Climbing
    <2>3. CASE schema' = schema
      <3>1. View(k)' = View(k)
        BY <2>1, <2>3 DEF View, Overlay
      <3> QED BY <2>1, <2>2, <3>1
    <2>4. ASSUME NEW q \in plan[j], OrphanStatement(j, q)
          PROVE  /\ InOrder(View(k)', Applied(heads'[k]))
                 /\ pc'[k] = "stamp" =>
                      \A r \in plan'[k] : IsNext(way'[k], plan'[k], r) => Built(r, View(k)'[r])
      <3>1. /\ q \in Rev /\ Down[q] \subseteq Applied(stamped)
            /\ \A r \in Rev \ {q} : schema'[r] = schema[r]
            /\ Built(q, schema[q]) => Built(q, schema'[q])
            /\ schema'[q] = "flawed" => schema[q] = "flawed"
            /\ tx[k].eff[q] = "same"
        BY <1>1, <2>4, OrphanInOrder
      <3>2. View(k)[q] = schema[q] /\ View(k)'[q] = schema'[q]
        BY <2>1, <3>1 DEF View, Overlay
      <3>3. \A r \in Rev : View(k)'[r] = IF r = q THEN schema'[q] ELSE View(k)[r]
        BY <2>1, <3>1, <3>2, ViewFrame
      <3>4. Applied(stamped) \subseteq Applied(heads[k])
        <4>1. PICK t \in Rev : Target(k) = t
          BY <2>1 DEF TargetKnown, Alive
        <4> QED BY <2>1, <4>1 DEF OnCourse, RisingTo
      <3>5. schema[q] = "flawed" => PassedOver(q)
        BY <3>1 DEF Climbing, InOrder
      <3>6. InOrder(View(k)', Applied(heads[k]))
        BY <2>2, <3>1, <3>2, <3>3, <3>4, <3>5, InOrderWrite
      <3>7. \A r \in Rev : Built(r, View(k)[r]) => Built(r, View(k)'[r])
        BY <3>1, <3>2, <3>3
      <3> QED BY <2>1, <2>2, <3>6, <3>7
    <2>5. schema' = schema \/ \E q \in plan[j] : OrphanStatement(j, q)
      <3>1. pc[j] \notin Walking
        BY <1>1, <2>1 DEF OneWalker, UnderLock
      <3>2. ~Walk(j) /\ ~StatementFails(j) /\ \A r \in plan[j] : ~StatementSwallowed(j, r)
        BY <3>1 DEF Walk, EnterBlock, Begin, Finish, Stamp, CommitWalk, DeadlockDetected,
                    InBlock, Walking, StatementFails, StatementSwallowed
      <3>3. CASE Start(j) \/ Decide(j) \/ Redecide(j) \/ BeginWalk(j)
        BY <3>3 DEF Start, Decide, Redecide, BeginWalk
      <3>4. CASE AcquireLock(j) \/ PollLock(j) \/ GiveUpLock(j) \/ Unlock(j) \/ Exit(j)
        BY <3>4 DEF AcquireLock, PollLock, GiveUpLock, Unlock, Exit
      <3>5. CASE ReapWalk(j) \/ ReapLock(j)
        BY <3>5 DEF ReapWalk, ReapLock
      <3>6. CASE ReadFails(j) \/ LockFails(j) \/ UnlockFails(j) \/ LockSessionDrops(j) \/ Kill(j)
        BY <3>6 DEF ReadFails, LockFails, UnlockFails, LockSessionDrops, Kill
      <3> QED BY <3>2, <3>3, <3>4, <3>5, <3>6 DEF Step, Run, Reap, Mishap
    <2> QED BY <2>3, <2>4, <2>5
  <1>2. CASE k = j /\ BeginWalk(j)
    <2>1. /\ pc'[j] = "step" /\ heads'[j] = stamped /\ stamped' = stamped
          /\ tx' = tx /\ schema' = schema /\ pc[j] = "begin"
      BY <1>2 DEF BeginWalk, TypeOK, Walking
    <2>2. tx[j] = NoTx
      BY <2>1 DEF NothingOpen, Lingers, Walking, Zombies
    <2>3. View(j)' = schema
      <3>1. View(j) = schema
        BY <2>2, NoTxView
      <3> QED BY <2>1, <3>1 DEF View, Overlay
    <2> QED BY <1>2, <2>1, <2>3 DEF Climbing
  <1>3. ASSUME k = j, NEW q \in plan[j], EnterBlock(j, q), ~Abandon(j)
        PROVE  /\ InOrder(View(k)', Applied(heads'[k])) /\ pc'[k] # "stamp"
    <2>1. /\ pc[j] \in Walking /\ pc'[j] = "block" /\ heads' = heads
          /\ CommitWith(j, tx[j].eff) /\ q \in Rev /\ schema[q] \in Levels
      BY <1>3 DEF EnterBlock, TypeOK, Walking
    <2>2. View(j)' = View(j)
      BY <2>1, CommitView
    <2> QED BY <1>3, <2>1, <2>2 DEF Climbing
  <1>4. ASSUME k = j, NEW q \in plan[j], Begin(j, q), ~Raise(j)
        PROVE  /\ InOrder(View(k)', Applied(heads'[k])) /\ pc'[k] # "stamp"
    <2>1. pc'[j] = "rest" /\ heads' = heads
      BY <1>4 DEF Begin, TypeOK
    <2> QED BY <1>4, <2>1, StatementInOrder
  <1>5. ASSUME k = j, NEW q \in plan[j], Finish(j, q)
        PROVE  /\ InOrder(View(k)', Applied(heads'[k]))
               /\ \A r \in plan'[k] : IsNext(way'[k], plan'[k], r) => Built(r, View(k)'[r])
    <2>1. /\ heads' = heads /\ plan' = plan /\ way' = way
          /\ plan[j] \in SUBSET Rev /\ IsNext(way[j], plan[j], q)
      BY <1>5 DEF Finish, TypeOK
    <2>2. InOrder(View(j)', Applied(heads[j])) /\ Built(q, View(j)'[q])
      BY <1>5, StatementInOrder
    <2>3. ASSUME NEW r \in plan[j], IsNext(way[j], plan[j], r) PROVE r = q
      BY <2>1, <2>3, NextUnique
    <2> QED BY <1>5, <2>1, <2>2, <2>3
  <1>6. ASSUME k = j, NEW q \in plan[j], Stamp(j, q), ~Abandon(j)
        PROVE  /\ InOrder(View(k)', Applied(heads'[k])) /\ pc'[k] # "stamp"
    <2>1. /\ pc[j] = "stamp" /\ IsNext(way[j], plan[j], q) /\ q \in Rev
      BY <1>6 DEF Stamp, TypeOK
    <2>2. /\ pc'[j] = "step" /\ View(j)' = View(j) /\ way[j] = "upgrade"
          /\ Applied(heads'[j]) = Applied(heads[j]) \cup {q}
      <3>1. way[j] = "upgrade"
        BY <2>1 DEF Climbing, Walking
      <3> QED BY <1>6, <3>1, StampApplied
    <2>3. InOrder(View(j), Applied(heads[j])) /\ Built(q, View(j)[q])
      BY <2>1 DEF Climbing, Walking
    <2> QED BY <1>6, <2>1, <2>2, <2>3, InOrderStamp
  <1>7. CASE k = j /\ ReapLock(j)
    <2>1. pc' = pc /\ UNCHANGED <<tx, schema, way, plan, heads>>
      BY <1>7 DEF ReapLock
    <2>2. View(j)' = View(j)
      BY <2>1 DEF View, Overlay
    <2> QED BY <1>7, <2>1, <2>2 DEF Climbing
  <1>8. ~LockSessionDrops(j)
    BY DEF LockSessionDrops, Fault
  <1>9. ASSUME k = j, NEW q \in plan[j], StatementSwallowed(j, q)
        PROVE  /\ InOrder(View(k)', Applied(heads'[k]))
               /\ \A r \in plan'[k] : IsNext(way'[k], plan'[k], r) => Built(r, View(k)'[r])
    <2>1. \A r \in plan[j] : IsNext(way[j], plan[j], r) => r = q
      BY <1>9, SwallowedInOrder, NextUnique
    <2> QED BY <1>9, <2>1, SwallowedInOrder
  <1> QED BY <1>1, <1>2, <1>3, <1>4, <1>5, <1>6, <1>7, <1>8, <1>9, WalkingStep

(* What is committed is in order after a step. *)
LEMMA CommittedInOrder ==
  ASSUME ReachInv, Climbing, NEW j \in Jobs, Step(j), "drop" \notin Faults
  PROVE  InOrder(schema', Applied(stamped'))
  <1> USE DEF ReachInv, WalkInv
  <1>0. InOrder(schema, Applied(stamped))
    BY DEF Climbing
  <1>1. CASE Start(j) \/ Decide(j) \/ Redecide(j) \/ BeginWalk(j)
    BY <1>0, <1>1 DEF Start, Decide, Redecide, BeginWalk
  <1>2. CASE AcquireLock(j) \/ PollLock(j) \/ GiveUpLock(j) \/ Unlock(j) \/ Exit(j)
    BY <1>0, <1>2 DEF AcquireLock, PollLock, GiveUpLock, Unlock, Exit
  <1>3. ASSUME pc[j] \in Walking, CommitWith(j, tx[j].eff)
        PROVE  InOrder(schema', Applied(stamped'))
    BY <1>3 DEF CommitWith, View, OnCourse, Climbing
  <1>4. ASSUME NEW q \in plan[j], EnterBlock(j, q)
        PROVE  InOrder(schema', Applied(stamped'))
    BY <1>0, <1>3, <1>4 DEF EnterBlock, Walking
  <1>5. ASSUME NEW q \in plan[j], Begin(j, q) PROVE InOrder(schema', Applied(stamped'))
    <2>1. CASE Raise(j)
      BY <1>0, <1>5, <2>1 DEF Begin, Raise, TypeOK
    <2>2. CASE ~Raise(j)
      BY <1>5, <2>2, StatementInOrder
    <2> QED BY <2>1, <2>2
  <1>6. ASSUME NEW q \in plan[j], Finish(j, q) PROVE InOrder(schema', Applied(stamped'))
    BY <1>6, StatementInOrder
  <1>7. ASSUME NEW q \in plan[j], Stamp(j, q) PROVE InOrder(schema', Applied(stamped'))
    <2>1. CASE Abandon(j)
      BY <1>0, <1>7, <2>1 DEF Stamp, Abandon, TypeOK
    <2>2. CASE ~Abandon(j)
      <3>1. /\ pc[j] \in Walking /\ IsNext(way[j], plan[j], q) /\ q \in Rev
            /\ pc[j] = "stamp"
        BY <1>7 DEF Stamp, Walking, TypeOK
      <3>2. /\ way[j] = "upgrade" /\ InOrder(View(j), Applied(heads[j]))
            /\ Built(q, View(j)[q])
        BY <3>1 DEF Climbing
      <3>3. schema' = schema /\ Applied(heads'[j]) = Applied(heads[j]) \cup {q}
        BY <1>7, <2>2, <3>2, StampApplied
      <3>4. CASE stamped' = stamped
        BY <1>0, <3>3, <3>4
      <3>5. CASE stamped' # stamped
        <4>1. mode[j] = "auto"
          BY <1>7, <3>5 DEF Stamp, WriteRows
        <4>2. View(j) = schema
          BY <3>1, <4>1, AutoSees
        <4>3. pc'[j] \in Walking
          BY <1>7, <2>2, StampApplied DEF Walking
        <4>4. stamped' = heads'[j]
          BY <1>7, <3>5, <4>3, StampRows
        <4> QED BY <3>1, <3>2, <3>3, <4>2, <4>4, InOrderStamp
      <3> QED BY <3>4, <3>5
    <2> QED BY <2>1, <2>2
  <1>8. CASE CommitWalk(j)
    BY <1>0, <1>3, <1>8 DEF CommitWalk, db, Walking
  <1>9. CASE DeadlockDetected(j) \/ ReapWalk(j) \/ ReapLock(j)
    BY <1>0, <1>9 DEF DeadlockDetected, ReapWalk, ReapLock
  <1>10. ASSUME NEW q \in plan[j], OrphanStatement(j, q)
         PROVE  InOrder(schema', Applied(stamped'))
    <2>1. /\ q \in Rev /\ stamped' = stamped /\ Down[q] \subseteq Applied(stamped)
          /\ \A r \in Rev : schema'[r] = IF r = q THEN schema'[q] ELSE schema[r]
          /\ Built(q, schema[q]) => Built(q, schema'[q])
          /\ schema'[q] = "flawed" => schema[q] = "flawed"
      BY <1>10, OrphanInOrder
    <2>2. schema[q] = "flawed" => PassedOver(q)
      BY <1>0, <2>1 DEF InOrder
    <2> QED BY <1>0, <2>1, <2>2, InOrderWrite
  <1>11. CASE ReadFails(j) \/ LockFails(j) \/ UnlockFails(j) \/ LockSessionDrops(j) \/ Kill(j)
    BY <1>0, <1>11 DEF ReadFails, LockFails, UnlockFails, LockSessionDrops, Kill
  <1>12. CASE StatementFails(j)
    <2>1. stamped' = stamped /\ pc[j] \in Walking
      BY <1>12 DEF StatementFails
    <2>2. CASE schema' = schema
      BY <1>0, <2>1, <2>2
    <2>3. ASSUME NEW q \in plan[j], pc[j] \in {"block", "rest"}, IsNext(way[j], plan[j], q),
                 Kind[q] = "index", way[j] = "upgrade",
                 schema' = [schema EXCEPT ![q] = "flawed"]
          PROVE  InOrder(schema', Applied(stamped'))
      <3>1. InBlock(way[j], q) /\ AtBlock(j)
        BY <2>3 DEF InBlock, AtBlock
      <3>2. mode[j] = "auto"
        BY <2>3, <3>1 DEF Climbing, BlocksCommit
      <3>3. heads[j] = stamped
        BY <2>1, <3>2, AutoSees
      <3>4. q \in Rev /\ Down[q] \subseteq Applied(stamped)
        BY <2>1, <2>3, <3>3, NextStands
      <3>5. \A r \in Rev : schema'[r] = IF r = q THEN "flawed" ELSE schema[r]
        BY <2>3, <3>4 DEF TypeOK
      <3>6. Built(q, "flawed") /\ PassedOver(q)
        BY <2>3 DEF Built, PassedOver
      <3> QED BY <1>0, <2>1, <2>3, <3>4, <3>5, <3>6 DEF InOrder
    <2> QED BY <1>12, <2>2, <2>3 DEF StatementFails
  <1>13. ASSUME NEW q \in plan[j], StatementSwallowed(j, q)
         PROVE  InOrder(schema', Applied(stamped'))
    BY <1>13, SwallowedInOrder
  <1> QED BY <1>1, <1>2, <1>4, <1>5, <1>6, <1>7, <1>8, <1>9, <1>10, <1>11, <1>12, <1>13
        DEF Step, Run, Walk, Reap, Mishap

-----------------------------------------------------------------------------
(* The invariant of releases *)

LEMMA BlocksCommitStep ==
  ASSUME ReachInv, BlocksCommit, NEW j \in Jobs, Step(j)
  PROVE  BlocksCommit'
  <1> USE DEF ReachInv, WalkInv
  <1> SUFFICES ASSUME NEW k \in Jobs, pc'[k] = "block" \/ (pc'[k] = "rest" /\ AtBlock(k)')
               PROVE  mode'[k] = "auto"
    BY DEF BlocksCommit
  <1>1. ASSUME pc'[k] = pc[k], mode'[k] = mode[k], plan'[k] = plan[k], way'[k] = way[k]
        PROVE  mode'[k] = "auto"
    BY <1>1 DEF BlocksCommit, AtBlock
  <1>2. CASE k # j
    BY <1>1, <1>2, Frame
  <1>3. CASE k = j
    <2>1. pc'[j] \in Walking
      BY <1>3 DEF Walking
    <2>2. CASE BeginWalk(j)
      BY <1>3, <2>2 DEF BeginWalk, TypeOK
    <2>3. ASSUME NEW r \in plan[j], EnterBlock(j, r), ~Abandon(j) PROVE mode'[j] = "auto"
      BY <2>3 DEF EnterBlock, TypeOK
    <2>4. ASSUME NEW r \in plan[j], Begin(j, r), ~Raise(j) PROVE mode'[j] = "auto"
      <3>1. /\ pc'[j] = "rest" /\ plan' = plan /\ way' = way
            /\ IsNext(way[j], plan[j], r) /\ plan[j] \in SUBSET Rev
            /\ pc[j] = IF InBlock(way[j], r) THEN "block" ELSE "step"
        BY <2>4 DEF Begin, TypeOK
      <3>2. AtBlock(j)
        BY <1>3, <3>1 DEF AtBlock
      <3>3. InBlock(way[j], r)
        BY <3>1, <3>2, AtBlockIs
      <3>4. ~CommitsRaw(way[j], r) /\ \A v : ~CommitsByHand(way[j], r, v)
        BY <3>3 DEF InBlock, CommitsRaw, CommitsByHand
      <3>5. mode' = mode
        BY <2>4, <3>4 DEF Begin
      <3> QED BY <3>1, <3>3, <3>5 DEF BlocksCommit
    <2>5. ASSUME NEW r \in plan[j],
                 Finish(j, r) \/ (Stamp(j, r) /\ ~Abandon(j)) \/ StatementSwallowed(j, r)
          PROVE  FALSE
      BY <1>3, <2>5 DEF Finish, Stamp, StatementSwallowed, TypeOK
    <2>6. CASE LockSessionDrops(j) \/ ReapLock(j)
      BY <1>1, <1>3, <2>6 DEF LockSessionDrops, ReapLock
    <2> QED BY <1>3, <2>1, <2>2, <2>3, <2>4, <2>5, <2>6, WalkingStep
  <1> QED BY <1>2, <1>3

(* A process's statement outlives it only out of an autocommit_block. *)
LEMMA ZombieMoves ==
  ASSUME TypeOK, NEW j \in Jobs, Step(j), pc'[j] \in {"zfirst", "zrest"}
  PROVE  /\ UNCHANGED <<stamped, way, plan>>
         /\ \/ pc'[j] = pc[j]
            \/ pc[j] = "block"
            \/ pc[j] \in Walking /\ mode[j] = "auto"
  <1>1. CASE Kill(j)
    BY <1>1 DEF Kill, Walking, TypeOK
  <1>2. CASE LockSessionDrops(j) \/ ReapLock(j)
    BY <1>2 DEF LockSessionDrops, ReapLock
  <1>3. /\ ~Walk(j) /\ ~BeginWalk(j) /\ ~StatementFails(j)
        /\ \A r \in plan[j] : ~StatementSwallowed(j, r)
    BY DEF Walk, EnterBlock, Begin, Finish, Stamp, CommitWalk, DeadlockDetected, Raise,
           Abandon, BeginWalk, StatementFails, StatementSwallowed, TypeOK
  <1>4. /\ ~Start(j) /\ ~Decide(j) /\ ~AcquireLock(j) /\ ~PollLock(j) /\ ~GiveUpLock(j)
        /\ ~Unlock(j) /\ ~Exit(j) /\ ~Redecide(j)
    BY DEF Start, Decide, AcquireLock, PollLock, GiveUpLock, Unlock, Exit, Redecide, TypeOK
  <1>5. ~ReadFails(j) /\ ~LockFails(j) /\ ~UnlockFails(j)
    BY DEF ReadFails, LockFails, UnlockFails, TypeOK
  <1>6. ~ReapWalk(j) /\ ~\E r \in plan[j] : OrphanStatement(j, r)
    BY DEF ReapWalk, OrphanStatement, TypeOK
  <1> QED BY <1>1, <1>2, <1>3, <1>4, <1>5, <1>6 DEF Step, Run, Reap, Mishap

(* Nothing committed is undone by walks that are all on the way up. *)
LEMMA OnlyGrows ==
  ASSUME ReachInv, Climbing, NEW j \in Jobs, Step(j)
  PROVE  Applied(stamped) \subseteq Applied(stamped')
  BY CommitsOnCourse DEF ReachInv, Climbing

LEMMA OrphansStep ==
  ASSUME ReachInv, Climbing, NEW j \in Jobs, Step(j)
  PROVE  OrphansInOrder'
  <1> USE DEF ReachInv, WalkInv
  <1> SUFFICES ASSUME NEW k \in Jobs, pc'[k] \in {"zfirst", "zrest"},
                      NEW r \in plan'[k], IsNext(way'[k], plan'[k], r)
               PROVE  Down[r] \subseteq Applied(stamped')
    BY DEF OrphansInOrder
  <1>1. ASSUME pc'[k] = pc[k], plan'[k] = plan[k], way'[k] = way[k]
        PROVE  Down[r] \subseteq Applied(stamped')
    BY <1>1, OnlyGrows DEF Climbing, OrphansInOrder
  <1>2. CASE k # j
    BY <1>1, <1>2, Frame
  <1>3. CASE k = j /\ pc'[j] # pc[j]
    <2>1. /\ UNCHANGED <<stamped, way, plan>>
          /\ pc[j] \in Walking /\ mode[j] = "auto"
      BY <1>3, ZombieMoves DEF Climbing, BlocksCommit, Walking
    <2>2. way[j] = "upgrade" /\ heads[j] = stamped
      BY <2>1, AutoSees DEF Climbing
    <2> QED BY <1>3, <2>1, <2>2, NextStands
  <1>4. CASE k = j /\ pc'[j] = pc[j]
    BY <1>1, <1>4, ZombieMoves
  <1> QED BY <1>2, <1>3, <1>4

LEMMA ClimbingStep ==
  ASSUME ReachInv, ReachInv', Climbing, "drop" \notin Faults, ReleasesOnly, [Next]_vars
  PROVE  Climbing'
  <1> USE DEF ReachInv, WalkInv
  <1>1. CASE UNCHANGED vars
    BY <1>1 DEF vars, Climbing, BlocksCommit, AtBlock, OrphansInOrder, View, Overlay
  <1>2. CASE AllEnded
    BY <1>1, <1>2 DEF AllEnded
  <1>3. ASSUME NEW j \in Jobs, Step(j) PROVE Climbing'
    <2>1. ASSUME NEW k \in Jobs, pc'[k] \in {"zfirst", "zrest"} \cup Walking
          PROVE  way'[k] = "upgrade"
      <3>1. CASE pc'[k] \in Walking
        <4>1. pc'[k] \in UnderLock /\ pc'[k] # "idle"
          BY <3>1 DEF UnderLock, Walking
        <4>2. way'[k] = "downgrade" => req'[k].allow
          BY <4>1 DEF Consented
        <4>3. req'[k] \in Requests /\ way'[k] \in Ways
          BY <4>1 DEF AskedFor, TypeOK
        <4> QED BY <4>2, <4>3 DEF ReleasesOnly, Ways
      <3>2. CASE pc'[k] \in {"zfirst", "zrest"} /\ k # j
        BY <1>3, <3>2, Frame DEF Climbing
      <3>3. CASE pc'[k] \in {"zfirst", "zrest"} /\ k = j
        BY <1>3, <3>3, ZombieMoves DEF Climbing, Walking
      <3> QED BY <2>1, <3>1, <3>2, <3>3
    <2>2. BlocksCommit' /\ OrphansInOrder'
      BY <1>3, BlocksCommitStep, OrphansStep DEF Climbing
    <2>3. InOrder(schema', Applied(stamped'))
      BY <1>3, CommittedInOrder
    <2>4. ASSUME NEW k \in Jobs, pc'[k] \in Walking
          PROVE  /\ InOrder(View(k)', Applied(heads'[k]))
                 /\ pc'[k] = "stamp" =>
                      \A r \in plan'[k] : IsNext(way'[k], plan'[k], r) => Built(r, View(k)'[r])
      BY <1>3, <2>1, <2>4, ViewsInOrder
    <2>5. \A k \in Jobs : pc'[k] = "stamp" => pc'[k] \in Walking
      BY DEF Walking
    <2> QED BY <2>1, <2>2, <2>3, <2>4, <2>5 DEF Climbing
  <1> QED BY <1>1, <1>2, <1>3 DEF Next, Step

(***************************************************************************)
(* The invariant of releases: what is committed and what each walk sees is *)
(* in order, and so is what a killed process's last statement may add.  A  *)
(* revision may be stamped without what a failed statement should have     *)
(* made, if it builds an index or catches failures after a raw COMMIT, and *)
(* in no other way.                                                        *)
(***************************************************************************)
THEOREM ReleaseCorrect ==
  ASSUME "drop" \notin Faults, ReleasesOnly
  PROVE  Spec => []ReleaseInv
  <1>1. Init => Climbing
    <2> SUFFICES ASSUME Init PROVE Climbing
      OBVIOUS
    <2>1. \A j \in Jobs : pc[j] = "idle"
      BY DEF Init
    <2>2. \A r \in Rev : schema[r] = IF r \in Applied(stamped) THEN "full" ELSE "none"
      BY DEF Init
    <2>3. InOrder(schema, Applied(stamped))
      BY <2>2 DEF InOrder, Built
    <2> QED BY <2>1, <2>3 DEF Climbing, BlocksCommit, OrphansInOrder, Walking
  <1>2. ReachInv /\ ReachInv' /\ Climbing /\ [Next]_vars => Climbing'
    BY ClimbingStep
  <1>3. ReleaseInv <=> ReachInv /\ Climbing
    BY DEF ReleaseInv
  <1> QED BY <1>1, <1>2, <1>3, ReachCorrect, PTL DEF Spec

(***************************************************************************)
(* What is stamped has been built, whatever scripts commit by              *)
(* autocommit_block, by conn.commit() or by a raw COMMIT, and wherever     *)
(* they fail or are killed, but for what IF NOT EXISTS or the script       *)
(* itself passed over: an index whose first build failed, and what a       *)
(* script with a raw COMMIT caught after it.                               *)
(***************************************************************************)
THEOREM StampedStaysBuilt ==
  ASSUME "drop" \notin Faults, ReleasesOnly
  PROVE  Spec => []StampedIsBuilt
  <1>1. ReleaseInv => StampedIsBuilt
    BY AppliedBasics
       DEF ReleaseInv, Climbing, ReachInv, WalkInv, TypeOK, InOrder, Built,
           StampedIsBuilt
  <1> QED BY <1>1, ReleaseCorrect, PTL

(***************************************************************************)
(* What has been begun but not stamped stands on what is stamped: the next *)
(* run begins with it.                                                     *)
(***************************************************************************)
THEOREM NeverFurtherAhead ==
  ASSUME "drop" \notin Faults, ReleasesOnly
  PROVE  Spec => []AheadByOneAtMost
  <1>1. ReleaseInv => AheadByOneAtMost
    BY DEF ReleaseInv, Climbing, InOrder, AheadByOneAtMost
  <1> QED BY <1>1, ReleaseCorrect, PTL

-----------------------------------------------------------------------------
(* Exit 0 of a release *)

(* No index build has failed: nothing is INVALID, committed or not. *)
NoneFlawed ==
  \A r \in Rev : schema[r] # "flawed" /\ \A j \in Jobs : tx[j].eff[r] # "flawed"

LEMMA ScriptsLeaveValid ==
  ASSUME NEW dir \in Ways, NEW r \in Rev, NEW v \in Levels \ {"flawed"}
  PROVE  First(dir, r, v) # "flawed" /\ Rest(dir, r, v) # "flawed"
  BY DEF First, Rest, Ways, Levels

LEMMA WriteValid ==
  ASSUME TypeOK, NoneFlawed, NEW j \in Jobs, NEW q \in Rev, NEW w \in Levels, w # "flawed",
         \/ Write(j, q, w)
         \/ CommitWith(j, tx[j].eff)
         \/ CommitWith(j, [tx[j].eff EXCEPT ![q] = w])
  PROVE  NoneFlawed'
  <1>1. tx[j] \in TxType /\ tx[j].eff \in [Rev -> Levels \cup {"same"}]
    BY ViewType
  <1>2. \A k \in Jobs : tx[k] = NoTx => \A r \in Rev : tx[k].eff[r] # "flawed"
    BY DEF NoTx
  <1>3. CASE Write(j, q, w)
    <2>1. CASE mode[j] = "auto"
      BY <1>3, <2>1 DEF Write, NoneFlawed, TypeOK
    <2>2. CASE mode[j] # "auto"
      <3>1. schema' = schema /\ tx' = [tx EXCEPT ![j].eff[q] = w]
        BY <1>3, <2>2 DEF Write
      <3>2. /\ tx'[j].eff = [tx[j].eff EXCEPT ![q] = w]
            /\ \A k \in Jobs \ {j} : tx'[k] = tx[k]
        BY <1>1, <3>1 DEF TypeOK, TxType
      <3> QED BY <1>1, <3>1, <3>2 DEF NoneFlawed
    <2> QED BY <2>1, <2>2
  <1>4. ASSUME NEW eff \in [Rev -> Levels \cup {"same"}], CommitWith(j, eff),
               \A r \in Rev : eff[r] # "flawed"
        PROVE  NoneFlawed'
    <2>1. \A r \in Rev : schema'[r] # "flawed"
      BY <1>4 DEF CommitWith, Overlay, NoneFlawed
    <2>2. tx'[j].eff = [r \in Rev |-> "same"] /\ \A k \in Jobs \ {j} : tx'[k] = tx[k]
      BY <1>4 DEF CommitWith, NoTx, TypeOK
    <2> QED BY <2>1, <2>2 DEF NoneFlawed
  <1> QED BY <1>1, <1>3, <1>4 DEF NoneFlawed

LEMMA NoneFlawedStep ==
  ASSUME TypeOK, NoneFlawed, "statement" \notin Faults, [Next]_vars
  PROVE  NoneFlawed'
  <1>1. CASE UNCHANGED <<schema, tx>>
    BY <1>1 DEF NoneFlawed
  <1>2. CASE UNCHANGED vars \/ AllEnded
    BY <1>1, <1>2 DEF vars, AllEnded
  <1>3. ASSUME NEW j \in Jobs, Step(j) PROVE NoneFlawed'
    <2>1. \A r \in Rev : View(j)[r] \in Levels \ {"flawed"} /\ schema[r] \in Levels
      BY ViewType DEF View, Overlay, NoneFlawed, TypeOK
    <2>2. ASSUME schema' = schema, tx' = [tx EXCEPT ![j] = NoTx] PROVE NoneFlawed'
      BY <2>2 DEF NoneFlawed, NoTx, TypeOK
    <2>3. CASE \/ Start(j) \/ Decide(j) \/ AcquireLock(j) \/ PollLock(j) \/ GiveUpLock(j)
               \/ Redecide(j) \/ BeginWalk(j) \/ Unlock(j) \/ Exit(j)
      BY <1>1, <2>2, <2>3 DEF Start, Decide, AcquireLock, PollLock, GiveUpLock, Redecide, BeginWalk,
                        Unlock, Exit
    <2>4. ASSUME NEW r \in plan[j], EnterBlock(j, r) PROVE NoneFlawed'
      <3>1. r \in Rev /\ "none" \in Levels
        BY DEF TypeOK, Levels
      <3> QED BY <1>1, <2>2, <2>4, <3>1, WriteValid DEF EnterBlock, Abandon, LetGo
    <2>5. ASSUME NEW r \in plan[j], Begin(j, r) PROVE NoneFlawed'
      <3> DEFINE w == First(way[j], r, View(j)[r])
      <3>1. r \in Rev /\ way[j] \in Ways
        BY DEF TypeOK
      <3>2. CASE w = "raises"
        BY <2>2, <2>5, <3>2 DEF Begin, Raise
      <3>3. CASE w # "raises"
        <4>1. w \in Levels /\ w # "flawed"
          BY <2>1, <3>1, <3>3, FirstType, ScriptsLeaveValid
        <4>2. \/ CommitWith(j, [tx[j].eff EXCEPT ![r] = w])
              \/ Write(j, r, w) \/ UNCHANGED <<schema, tx>>
          BY <2>5, <3>3 DEF Begin
        <4> HIDE DEF w
        <4> QED BY <1>1, <3>1, <4>1, <4>2, WriteValid
      <3> QED BY <3>2, <3>3
    <2>6. ASSUME NEW r \in plan[j], Finish(j, r) PROVE NoneFlawed'
      <3> DEFINE w == Rest(way[j], r, View(j)[r])
      <3>1. r \in Rev /\ way[j] \in Ways
        BY DEF TypeOK
      <3>2. w \in Levels /\ w # "flawed"
        BY <2>1, <3>1, RestType, ScriptsLeaveValid
      <3>3. \/ CommitWith(j, [tx[j].eff EXCEPT ![r] = w])
            \/ Write(j, r, w) \/ UNCHANGED <<schema, tx>>
        BY <2>6 DEF Finish
      <3> HIDE DEF w
      <3> QED BY <1>1, <3>1, <3>2, <3>3, WriteValid
    <2>7. ASSUME NEW r \in plan[j], Stamp(j, r) PROVE NoneFlawed'
      <3>1. CASE Abandon(j)
        BY <1>1, <2>2, <2>7, <3>1 DEF Stamp, Abandon, LetGo
      <3>2. CASE ~Abandon(j)
        <4>1. schema' = schema /\ \A k \in Jobs : tx'[k].eff = tx[k].eff
          BY <2>7, <3>2 DEF Stamp, WriteRows, TypeOK, TxType
        <4> QED BY <4>1 DEF NoneFlawed
      <3> QED BY <3>1, <3>2
    <2>8. CASE CommitWalk(j)
      <3>1. \/ tx' = [tx EXCEPT ![j] = NoTx] /\ schema' = schema
            \/ UNCHANGED <<schema, tx>>
            \/ CommitWith(j, tx[j].eff)
        BY <2>8 DEF CommitWalk, LetGo, db
      <3>2. CASE CommitWith(j, tx[j].eff)
        <4>1. CASE Rev = {}
          BY <4>1 DEF NoneFlawed
        <4>2. CASE Rev # {}
          BY <3>2, <4>2, WriteValid DEF Levels
        <4> QED BY <4>1, <4>2
      <3> QED BY <1>1, <2>2, <3>1, <3>2
    <2>9. CASE DeadlockDetected(j)
      BY <2>2, <2>9 DEF DeadlockDetected, Raise
    <2>10. CASE ReapWalk(j) \/ ReapLock(j)
      BY <1>1, <2>2, <2>10 DEF ReapWalk, ReapLock
    <2>11. ASSUME NEW r \in plan[j], OrphanStatement(j, r) PROVE NoneFlawed'
      <3>1. r \in Rev /\ way[j] \in Ways
        BY DEF TypeOK
      <3>2. schema[r] \in Levels \ {"flawed"}
        BY <2>1, <3>1 DEF NoneFlawed
      <3>3. /\ First(way[j], r, schema[r]) # "flawed"
            /\ Rest(way[j], r, schema[r]) # "flawed"
        BY <3>1, <3>2, ScriptsLeaveValid
      <3>4. PICK w : w # "flawed" /\ schema' = [schema EXCEPT ![r] = w] /\ tx' = tx
        BY <2>11, <3>3 DEF OrphanStatement
      <3> QED BY <3>1, <3>4 DEF NoneFlawed, TypeOK
    <2>12. CASE Mishap(j)
      <3>1. ~StatementFails(j) /\ \A r \in plan[j] : ~StatementSwallowed(j, r)
        BY DEF StatementFails, StatementSwallowed, Fault
      <3> QED BY <1>1, <2>12, <3>1
              DEF Mishap, ReadFails, LockFails, UnlockFails, LockSessionDrops, Kill
    <2> QED BY <1>3, <2>3, <2>4, <2>5, <2>6, <2>7, <2>8, <2>9, <2>10, <2>11, <2>12
            DEF Step, Run, Walk, Reap
  <1> QED BY <1>2, <1>3 DEF Next, Step

(***************************************************************************)
(* What exit 0 tells Argo of a release, where some scripts commit on their *)
(* own through autocommit_block and some downgrade() functions are empty:  *)
(* the target is stamped, nothing built on it is, and it and what it       *)
(* stands on are really in the schema, whoever was killed over it before.  *)
(* A failed index build is the exception, if there is an index to build.   *)
(***************************************************************************)
THEOREM ReleasesExitConverged ==
  ASSUME "drop" \notin Faults, ReleasesOnly, NoOwnCommits, ShortcutsImplied, StampsAreTips,
         "statement" \in Faults => \A r \in Rev : Kind[r] # "index"
  PROVE  Spec => []ExitZeroMeansConverged
  <1> DEFINE Sound == \A r \in Applied(stamped) : schema[r] = "full"
  <1>1. TypeOK /\ Topping /\ Sound => ExitZeroMeansConverged
    <2> SUFFICES ASSUME TypeOK, Topping, Sound, NEW j \in Jobs,
                        pc[j] = "unlock", lock = j, ExitCode(outcome[j]) = 0
                 PROVE  AtTheTop(j) /\ \A r \in Anc[Target(j)] : schema[r] = "full"
      BY DEF ExitZeroMeansConverged, AtTheTop
    <2>1. AtTheTop(j)
      BY DEF Topping
    <2> QED BY <2>1, TopIsApplied
  <1>2. CASE "statement" \notin Faults
    <2>1. Init => NoneFlawed
      BY DEF Init, NoneFlawed, NoTx
    <2>2. TypeOK /\ NoneFlawed /\ [Next]_vars => NoneFlawed'
      BY <1>2, NoneFlawedStep
    <2>3. TypeOK /\ StampedIsBuilt /\ NoneFlawed => Sound
      BY AppliedBasics DEF StampedIsBuilt, NoneFlawed, TypeOK
    <2> QED BY <1>1, <2>1, <2>2, <2>3, TypeCorrect, ToppingCorrect, StampedStaysBuilt, PTL
            DEF Spec
  <1>3. CASE \A r \in Rev : Kind[r] # "index"
    <2>1. TypeOK /\ StampedIsBuilt => Sound
      BY <1>3, AppliedBasics DEF StampedIsBuilt, PassedOver, NoOwnCommits, TypeOK
    <2> QED BY <1>1, <2>1, TypeCorrect, ToppingCorrect, StampedStaysBuilt, PTL
  <1> QED BY <1>2, <1>3

-----------------------------------------------------------------------------
(* Releases whose lock session is lost *)

(* Rows of a walk that restamps q, on what another may have committed. *)
LEMMA StampBeside ==
  ASSUME NEW rows \in SUBSET Rev, NEW copy \in SUBSET Rev,
         NEW del \in SUBSET Rev, NEW ins \in SUBSET Rev, Beside(rows, copy, del, ins),
         NEW q \in Rev, q \notin Applied(rows), q \notin Applied(copy),
         Down[q] \subseteq Applied(copy),
         NEW gone, gone = copy \ RowsUp(copy, q),
         NEW come, come = RowsUp(copy, q) \ copy
  PROVE  /\ Applied(RowsUp(copy, q)) = Applied(copy) \cup {q}
         /\ Beside(rows, RowsUp(copy, q), del \cup gone, (ins \ gone) \cup come)
  <1> DEFINE seen == (rows \ del) \cup ins
             new  == (rows \ (del \cup gone)) \cup ((ins \ gone) \cup come)
  <1>0. q \notin copy /\ q \notin Down[q] /\ copy \subseteq Applied(copy)
    BY AppliedBasics, AncBasics
  <1>1. gone = copy \cap Down[q] /\ come = {q}
    BY <1>0 DEF RowsUp
  <1>2. Anc[q] \ {q} \subseteq Applied(copy)
    <2> SUFFICES ASSUME NEW a \in Anc[q], a # q PROVE a \in Applied(copy)
      OBVIOUS
    <2>1. PICK d \in Down[q] : a \in Anc[d]
      BY AncStep
    <2> QED BY <2>1, AppliedBasics
  <1>3. Applied(RowsUp(copy, q)) = Applied(copy) \cup {q}
    BY <1>2, RowsUpApplied, AncBasics
  <1>4. Antichain(RowsUp(copy, q))
    BY <1>2, RowsUpTips DEF Beside
  <1>5. new = (seen \ gone) \cup {q}
    BY <1>1
  <1>6. seen \in SUBSET Rev /\ q \notin Applied(seen)
    BY DEF Beside
  <1>7. Applied(new) = Applied(rows) \cup Applied(copy) \cup {q}
    <2>1. Applied(seen) \subseteq Applied(new)
      <3> SUFFICES ASSUME NEW b \in seen, NEW a \in Anc[b] PROVE a \in Applied(new)
        BY DEF Applied
      <3>1. CASE b \in gone
        BY <1>1, <1>5, <3>1, AncBasics DEF Applied
      <3>2. CASE b \notin gone
        BY <1>5, <3>2 DEF Applied
      <3> QED BY <3>1, <3>2
    <2>2. Applied(new) \subseteq Applied(seen) \cup Anc[q]
      BY <1>5 DEF Applied
    <2>3. q \in Applied(new)
      BY <1>5, AncBasics DEF Applied
    <2> QED BY <1>2, <2>1, <2>2, <2>3 DEF Beside
  <1>8. new \cap Applied(RowsUp(copy, q)) \subseteq RowsUp(copy, q)
    BY <1>1, <1>3, <1>5 DEF Beside, RowsUp
  <1>9. Antichain(new)
    <2>1. ASSUME NEW a \in seen \ gone, a \in Anc[q] PROVE FALSE
      <3>1. a # q /\ a \in Rev
        BY <1>6, AppliedBasics
      <3>2. a \in copy /\ a \notin Down[q]
        BY <1>1, <1>2, <2>1, <3>1 DEF Beside
      <3>3. PICK d \in Down[q] : a \in Anc[d]
        BY <2>1, <3>1, AncStep
      <3>4. PICK h \in copy : d \in Anc[h]
        BY DEF Applied
      <3>5. a \in Anc[h]
        BY <3>3, <3>4, AncTransitive
      <3>6. a = h
        BY <3>2, <3>5 DEF Beside, Antichain
      <3>7. d \in Rev
        BY AncBasics
      <3> QED BY <3>1, <3>2, <3>3, <3>4, <3>6, <3>7, AncAntisymmetric
    <2>2. ASSUME NEW a \in seen PROVE q \notin Anc[a]
      BY <1>6 DEF Applied
    <2> QED BY <1>5, <2>1, <2>2 DEF Beside, Antichain
  <1>10. del \cup gone \subseteq Applied(RowsUp(copy, q))
    BY <1>0, <1>1, <1>3 DEF Beside
  <1>11. (ins \ gone) \cup come \subseteq Applied(RowsUp(copy, q)) \ Applied(rows)
    BY <1>1, <1>3 DEF Beside
  <1>12. Applied(new) = Applied(rows) \cup Applied(RowsUp(copy, q))
    BY <1>3, <1>7
  <1> QED BY <1>3, <1>4, <1>8, <1>9, <1>10, <1>11, <1>12 DEF Beside

(* Rows of one walk when another, with nothing in common, commits. *)
LEMMA CommitBeside ==
  ASSUME NEW rows \in SUBSET Rev, Antichain(rows),
         NEW copy1 \in SUBSET Rev, NEW del1 \in SUBSET Rev, NEW ins1 \in SUBSET Rev,
         NEW copy2 \in SUBSET Rev, NEW del2 \in SUBSET Rev, NEW ins2 \in SUBSET Rev,
         Beside(rows, copy1, del1, ins1), Beside(rows, copy2, del2, ins2),
         Applied(copy1) \cap Applied(copy2) \subseteq Applied(rows),
         NEW new, new = (rows \ del1) \cup ins1
  PROVE  Beside(new, copy2, del2, ins2)
  <1> DEFINE seen1 == (rows \ del1) \cup ins1
             seen2 == (rows \ del2) \cup ins2
             seen  == (new \ del2) \cup ins2
  <1>1. ins1 \cap Applied(copy2) = {} /\ ins2 \cap Applied(copy1) = {} /\ ins1 \cap del2 = {}
    BY DEF Beside
  <1>2. seen = ((rows \ del1) \ del2) \cup ins1 \cup ins2
    BY <1>1
  <1>3. Applied(new) = Applied(rows) \cup Applied(copy1)
    BY DEF Beside
  (* A row that one of the two takes out is implied by one it puts in. *)
  <1>4. ASSUME NEW copy, NEW del, NEW ins, Beside(rows, copy, del, ins),
               NEW b \in rows \cap del
        PROVE  \E c \in ins : b \in Anc[c]
    <2>1. b \in Applied((rows \ del) \cup ins)
      BY <1>4, AppliedBasics DEF Beside
    <2>2. PICK c \in (rows \ del) \cup ins : b \in Anc[c]
      BY <2>1 DEF Applied
    <2> QED BY <2>2 DEF Antichain
  <1>5. ASSUME NEW b \in rows PROVE \E c \in seen : b \in Anc[c]
    <2>1. CASE b \in del1
      BY <1>2, <1>4, <2>1
    <2>2. CASE b \in del2
      BY <1>2, <1>4, <2>2
    <2>3. CASE b \notin del1 /\ b \notin del2
      BY <1>2, <2>3, AncBasics
    <2> QED BY <2>1, <2>2, <2>3
  <1>6. \A b \in seen1 \cup seen2 : \E c \in seen : b \in Anc[c]
    <2>1. \A b \in ins1 \cup ins2 : b \in seen /\ b \in Anc[b]
      BY <1>2, AncBasics
    <2> QED BY <1>5, <2>1
  <1>7. Applied(seen1) \cup Applied(seen2) \subseteq Applied(seen)
    <2> SUFFICES ASSUME NEW b \in seen1 \cup seen2, NEW a \in Anc[b] PROVE a \in Applied(seen)
      BY DEF Applied
    <2>1. PICK c \in seen : b \in Anc[c]
      BY <1>6
    <2>2. c \in Rev
      OBVIOUS
    <2>3. a \in Anc[c]
      BY <2>1, <2>2, AncTransitive
    <2> QED BY <2>1, <2>3 DEF Applied
  <1>8. Applied(seen) \subseteq Applied(seen1) \cup Applied(seen2)
    BY <1>2 DEF Applied
  <1>9. Applied(seen) = Applied(new) \cup Applied(copy2)
    BY <1>3, <1>7, <1>8 DEF Beside
  <1>10. Antichain(seen)
    <2> SUFFICES ASSUME NEW a \in seen, NEW b \in seen, a \in Anc[b] PROVE a = b
      BY DEF Antichain
    <2>1. CASE a \in seen1 /\ b \in seen1
      BY <2>1 DEF Beside, Antichain
    <2>2. CASE a \in seen2 /\ b \in seen2
      BY <2>2 DEF Beside, Antichain
    <2>3. CASE a \in ins1 /\ b \in ins2
      <3>1. a \in Applied(copy2)
        BY <2>3, AppliedBasics DEF Beside
      <3> QED BY <1>1, <2>3, <3>1
    <2>4. CASE a \in ins2 /\ b \in ins1
      <3>1. a \in Applied(copy1)
        BY <2>4, AppliedBasics DEF Beside
      <3> QED BY <1>1, <2>4, <3>1
    <2> QED BY <1>2, <2>1, <2>2, <2>3, <2>4
  <1>11. seen \cap Applied(copy2) \subseteq copy2
    BY <1>1, <1>2 DEF Beside
  <1>12. ins2 \subseteq Applied(copy2) \ Applied(new)
    BY <1>1, <1>3 DEF Beside
  <1> QED BY <1>9, <1>10, <1>11, <1>12 DEF Beside

(* The statements of a walk of plain scripts on the way up. *)
LEMMA PlainBegin ==
  ASSUME RaceInv, AllPlainScripts, NEW j \in Jobs, NEW q \in plan[j],
         pc[j] \in Walking, Begin(j, q), ~Raise(j)
  PROVE  /\ pc[j] = "step" /\ pc'[j] = "rest" /\ IsNext(way[j], plan[j], q) /\ q \in Rev
         /\ UNCHANGED <<stamped, schema, way, req, plan, heads, mode>>
         /\ q \notin Applied(stamped)
         /\ \A k \in Jobs \ {j} : tx[k].eff[q] = "same"
         /\ tx'[j].del = tx[j].del /\ tx'[j].ins = tx[j].ins
         /\ \A r \in Rev : tx'[j].eff[r] = IF r = q THEN "part" ELSE tx[j].eff[r]
  <1> USE DEF RaceInv
  <1>1. /\ q \in Rev /\ Kind[q] = "plain" /\ way[j] = "upgrade" /\ IsNext(way[j], plan[j], q)
        /\ View(j)[q] \in Levels
    BY ViewType DEF AllPlainScripts, TypeOK, Abreast, ClimbsTo, Begin
  <1>2. ~InBlock(way[j], q) /\ ~CommitsRaw(way[j], q) /\ \A v : ~CommitsByHand(way[j], q, v)
    BY <1>1 DEF InBlock, CommitsRaw, CommitsByHand
  <1>3. pc[j] = "step"
    BY <1>2 DEF Begin
  <1>4. First(way[j], q, View(j)[q]) # "raises"
    BY DEF Begin
  <1>5. View(j)[q] = "none" /\ First(way[j], q, View(j)[q]) = "part"
    BY <1>1, <1>4 DEF First
  <1>6. /\ pc'[j] = "rest" /\ UNCHANGED <<stamped, way, req, plan, heads, mode>>
        /\ Write(j, q, "part") /\ ~Blocked(j, q)
    BY <1>2, <1>4, <1>5 DEF Begin, TypeOK
  <1>7. /\ schema' = schema
        /\ tx' = [tx EXCEPT ![j].eff[q] = "part"]
    BY <1>6 DEF Write, OneTransaction
  <1>8. tx[j] \in TxType /\ tx'[j] = [tx[j] EXCEPT !.eff[q] = "part"]
    BY <1>7 DEF TypeOK
  <1>9. /\ tx'[j].del = tx[j].del /\ tx'[j].ins = tx[j].ins
        /\ \A r \in Rev : tx'[j].eff[r] = IF r = q THEN "part" ELSE tx[j].eff[r]
    BY <1>1, <1>8 DEF TxType
  <1>10. \A k \in Jobs \ {j} : tx[k].eff[q] = "same"
    BY <1>3, <1>6 DEF Blocked, HeldUp
  <1>11. q \notin Applied(stamped)
    <2>1. ~InHand(j, q) /\ q \notin Applied(heads[j])
      BY <1>3 DEF InHand, Abreast, ClimbsTo
    <2>2. tx[j].eff[q] = "same"
      BY <1>1, <2>1 DEF Abreast, Wrote, Crossed
    <2>3. schema[q] = "none"
      BY <1>1, <1>5, <2>2 DEF View, Overlay
    <2> QED BY <1>1, <2>3 DEF Abreast, SchemaMatchesStamp
  <1> QED BY <1>1, <1>3, <1>6, <1>7, <1>9, <1>10, <1>11

LEMMA PlainFinish ==
  ASSUME RaceInv, AllPlainScripts, NEW j \in Jobs, NEW q \in plan[j],
         pc[j] \in Walking, Finish(j, q)
  PROVE  /\ pc[j] = "rest" /\ pc'[j] = "stamp" /\ InHand(j, q) /\ q \in Rev
         /\ UNCHANGED <<stamped, schema, way, req, plan, heads, mode>>
         /\ tx'[j].del = tx[j].del /\ tx'[j].ins = tx[j].ins
         /\ \A r \in Rev : tx'[j].eff[r] = IF r = q THEN "full" ELSE tx[j].eff[r]
  <1> USE DEF RaceInv
  <1>1. /\ q \in Rev /\ Kind[q] = "plain" /\ way[j] = "upgrade" /\ IsNext(way[j], plan[j], q)
        /\ pc[j] = "rest"
    BY DEF AllPlainScripts, TypeOK, Abreast, ClimbsTo, Finish
  <1>2. ~InBlock(way[j], q) /\ \A v : ~CommitsByHand(way[j], q, v)
    BY <1>1 DEF InBlock, CommitsByHand
  <1>3. InHand(j, q)
    BY <1>1 DEF InHand
  <1>4. tx[j].eff[q] = "part"
    BY <1>1, <1>3 DEF Abreast, Wrote
  <1>5. View(j)[q] = "part"
    BY <1>1, <1>4 DEF View, Overlay
  <1>6. Rest(way[j], q, View(j)[q]) = "full"
    BY <1>1, <1>5 DEF Rest
  <1>7. /\ pc'[j] = "stamp" /\ UNCHANGED <<stamped, way, req, plan, heads>>
        /\ Write(j, q, "full")
    BY <1>2, <1>5, <1>6 DEF Finish, TypeOK
  <1>8. mode' = mode
    BY <1>2 DEF Finish, TypeOK
  <1>9. schema' = schema /\ tx' = [tx EXCEPT ![j].eff[q] = "full"]
    BY <1>7 DEF Write, OneTransaction
  <1>10. tx[j] \in TxType /\ tx'[j] = [tx[j] EXCEPT !.eff[q] = "full"]
    BY <1>9 DEF TypeOK
  <1>11. /\ tx'[j].del = tx[j].del /\ tx'[j].ins = tx[j].ins
         /\ \A r \in Rev : tx'[j].eff[r] = IF r = q THEN "full" ELSE tx[j].eff[r]
    BY <1>1, <1>10 DEF TxType
  <1> QED BY <1>1, <1>3, <1>7, <1>8, <1>9, <1>11

LEMMA PlainStamp ==
  ASSUME RaceInv, NEW j \in Jobs, NEW q \in plan[j],
         pc[j] \in Walking, Stamp(j, q), ~Abandon(j)
  PROVE  /\ pc[j] = "stamp" /\ pc'[j] = "step" /\ InHand(j, q) /\ q \in Rev
         /\ UNCHANGED <<stamped, schema, way, req, mode>>
         /\ plan'[j] = plan[j] \ {q} /\ heads'[j] = RowsUp(heads[j], q)
         /\ tx'[j].eff = tx[j].eff
         /\ tx'[j].del = tx[j].del \cup Gone(j, q)
         /\ tx'[j].ins = (tx[j].ins \ Gone(j, q)) \cup Come(j, q)
  <1> USE DEF RaceInv
  <1>1. /\ q \in Rev /\ way[j] = "upgrade" /\ IsNext(way[j], plan[j], q) /\ pc[j] = "stamp"
    BY DEF TypeOK, Abreast, ClimbsTo, Stamp
  <1>2. /\ pc'[j] = "step" /\ plan'[j] = plan[j] \ {q}
        /\ heads'[j] = RowsUp(heads[j], q)
        /\ UNCHANGED <<schema, way, req, mode>>
        /\ WriteRows(j, Gone(j, q), Come(j, q))
    BY <1>1 DEF Stamp, TypeOK, Restamp
  <1>3. /\ stamped' = stamped
        /\ tx' = [tx EXCEPT ![j].del = @ \cup Gone(j, q),
                            ![j].ins = (@ \ Gone(j, q)) \cup Come(j, q)]
    BY <1>2 DEF WriteRows, OneTransaction
  <1> DEFINE gone == Gone(j, q)  come == Come(j, q)
  <1>4. tx[j] \in TxType /\ tx'[j] = [tx[j] EXCEPT !.del = @ \cup gone,
                                                  !.ins = (@ \ gone) \cup come]
    BY <1>3 DEF TypeOK
  <1>5. /\ tx'[j].eff = tx[j].eff
        /\ tx'[j].del = tx[j].del \cup gone
        /\ tx'[j].ins = (tx[j].ins \ gone) \cup come
    <2> HIDE DEF gone, come
    <2> QED BY <1>4 DEF TxType
  <1> QED BY <1>1, <1>2, <1>3, <1>5 DEF InHand

(* Only the end of a walk changes the database. *)
LEMMA DbStep ==
  ASSUME RaceInv, AllPlainScripts, NEW j \in Jobs, Step(j)
  PROVE  UNCHANGED db \/ CommitWalk(j)
  <1> USE DEF RaceInv
  <1>1. CASE stamped' # stamped
    BY <1>1, CommitsAtTheEnd DEF AllPlainScripts
  <1>2. CASE stamped' = stamped
    <2>1. CASE Start(j) \/ Decide(j) \/ Redecide(j) \/ BeginWalk(j)
      BY <2>1 DEF Start, Decide, Redecide, BeginWalk, db
    <2>2. CASE AcquireLock(j) \/ PollLock(j) \/ GiveUpLock(j) \/ Unlock(j) \/ Exit(j)
      BY <2>2 DEF AcquireLock, PollLock, GiveUpLock, Unlock, Exit, db
    <2>3. ASSUME NEW r \in plan[j], EnterBlock(j, r) PROVE FALSE
      BY <2>3 DEF EnterBlock, InBlock, AllPlainScripts, TypeOK
    <2>4. ASSUME NEW r \in plan[j], Begin(j, r) PROVE UNCHANGED db
      <3>1. CASE Raise(j)
        <4>1. pc'[j] # "rest"
          BY <3>1 DEF Raise, TypeOK
        <4>2. schema' = schema
          BY <2>4, <4>1 DEF Begin, TypeOK
        <4> QED BY <1>2, <4>2 DEF db
      <3>2. CASE ~Raise(j)
        <4>1. pc[j] \in Walking
          BY <2>4 DEF Begin, Walking
        <4> QED BY <2>4, <3>2, <4>1, PlainBegin DEF db
      <3> QED BY <3>1, <3>2
    <2>5. ASSUME NEW r \in plan[j], Finish(j, r) PROVE UNCHANGED db
      <3>1. pc[j] \in Walking
        BY <2>5 DEF Finish, Walking
      <3> QED BY <2>5, <3>1, PlainFinish DEF db
    <2>6. ASSUME NEW r \in plan[j], Stamp(j, r) PROVE UNCHANGED db
      BY <1>2, <2>6 DEF Stamp, db
    <2>7. CASE DeadlockDetected(j)
      BY <2>7 DEF DeadlockDetected, db
    <2>8. CASE Reap(j)
      <3>1. ASSUME NEW r \in plan[j], OrphanStatement(j, r) PROVE FALSE
        BY <3>1 DEF OrphanStatement, Abreast
      <3> QED BY <2>8, <3>1 DEF Reap, ReapWalk, ReapLock, db
    <2>9. CASE StatementFails(j)
      <3>1. ~\E r \in plan[j] : Kind[r] = "index"
        BY DEF AllPlainScripts, TypeOK
      <3> QED BY <1>2, <2>9, <3>1 DEF StatementFails, db
    <2>11. \A r \in plan[j] : ~StatementSwallowed(j, r)
      BY DEF StatementSwallowed, CommitsRaw, AllPlainScripts, TypeOK
    <2>10. CASE ReadFails(j) \/ LockFails(j) \/ UnlockFails(j) \/ LockSessionDrops(j) \/ Kill(j)
      BY <2>10 DEF ReadFails, LockFails, UnlockFails, LockSessionDrops, Kill, db
    <2> QED BY <2>1, <2>2, <2>3, <2>4, <2>5, <2>6, <2>7, <2>8, <2>9, <2>10, <2>11
          DEF Step, Run, Walk, Mishap
  <1> QED BY <1>1, <1>2

(* What the invariant says of one walk. *)
Climber(k) ==
  /\ ClimbsTo(k, Target(k)) /\ Wrote(k)
  /\ Beside(stamped, heads[k], tx[k].del, tx[k].ins)

LEMMA NextBeside ==
  ASSUME RaceInv, NEW j \in Jobs, pc[j] \in Walking, NEW q \in plan[j],
         IsNext(way[j], plan[j], q)
  PROVE  q \in Rev /\ q \notin Applied(heads[j]) /\ Down[q] \subseteq Applied(heads[j])
  <1> USE DEF RaceInv
  <1>1. PICK t \in Rev : Target(j) = t
    BY DEF TargetKnown, Alive
  <1>2. q \in Rev /\ ClimbsTo(j, t)
    BY <1>1 DEF TypeOK, Abreast
  <1>3. Down[q] \subseteq Anc[t]
    BY <1>2, AncTransitive, AncBasics DEF ClimbsTo
  <1>4. ASSUME NEW a \in Down[q], a \in plan[j] PROVE FALSE
    <2>1. a < q /\ q <= a /\ a \in Nat /\ q \in Nat
      BY <1>2, <1>4, AncStep, RevAssumption DEF IsNext, ClimbsTo
    <2> QED BY <2>1
  <1> QED BY <1>2, <1>3, <1>4 DEF ClimbsTo

(* A walk begins with what is committed and nothing of its own. *)
LEMMA BeginBeside ==
  ASSUME RaceInv, NoConsent, NEW j \in Jobs, BeginWalk(j), pc'[j] \in Walking
  PROVE  Climber(j)' /\ tx' = tx /\ tx[j].eff = [r \in Rev |-> "same"]
  <1> USE DEF RaceInv
  <1>1. PICK t \in Rev : Target(j) = t
    BY DEF TargetKnown, Alive, BeginWalk
  <1>2. /\ pc[j] = "begin" /\ pc'[j] = "step" /\ heads'[j] = stamped
        /\ plan'[j] = Path(way[j], stamped, t)
        /\ UNCHANGED <<stamped, schema, way, req, tx>>
    BY <1>1 DEF BeginWalk, TypeOK, Walking
  <1>3. way[j] = "upgrade"
    <2>1. req[j] \in Requests
      BY <1>2 DEF AskedFor
    <2>2. way[j] = "downgrade" => req[j].allow
      BY <1>2 DEF Consented, UnderLock
    <2> QED BY <2>1, <2>2 DEF NoConsent, TypeOK, Ways
  <1>4. tx[j] = NoTx
    BY <1>2 DEF NothingOpen, Lingers, Walking, Zombies
  <1>5. tx[j].del = {} /\ tx[j].ins = {} /\ tx[j].eff = [r \in Rev |-> "same"]
    BY <1>4 DEF NoTx
  <1>6. Target(j)' = t
    BY <1>1, <1>2 DEF Target
  <1>7. ClimbsTo(j, t)'
    BY <1>2, <1>3 DEF ClimbsTo, Path, UpgradePath
  <1>8. Wrote(j)'
    BY <1>2, <1>5 DEF Wrote, InHand, Crossed
  <1>9. Beside(stamped, stamped, {}, {})
    BY AppliedBasics DEF Beside, Abreast, TypeOK
  <1> QED BY <1>2, <1>5, <1>6, <1>7, <1>8, <1>9 DEF Climber

(* The revision in hand is the only one. *)
LEMMA InHandOnly ==
  ASSUME TypeOK, NEW j \in Jobs, NEW q \in plan[j], IsNext(way[j], plan[j], q),
         NEW r \in Rev, InHand(j, r)
  PROVE  r = q
  BY NextUnique DEF InHand, TypeOK, IsNext

(* The rest of what a walk does by itself. *)
LEMMA ClimberStep ==
  ASSUME RaceInv, AllPlainScripts, NoConsent, NEW j \in Jobs, Step(j), pc'[j] \in Walking
  PROVE  /\ Climber(j)' /\ UNCHANGED <<stamped, schema>>
         /\ \A k \in Jobs \ {j} : pc[k] \in Walking => Apart(j, k)' /\ Apart(k, j)'
  <1> USE DEF RaceInv
  <1>0. /\ pc[j] \in Walking => Climber(j)
        /\ \A k \in Jobs \ {j} : /\ tx'[k] = tx[k]
                                 /\ pc[j] \in Walking /\ pc[k] \in Walking => Apart(j, k)
    BY Frame DEF Abreast, Climber
  <1>1. CASE BeginWalk(j)
    <2>1. Climber(j)' /\ tx' = tx /\ tx[j].eff = [r \in Rev |-> "same"]
      BY <1>1, BeginBeside
    <2> QED BY <1>1, <2>1 DEF BeginWalk, Apart
  <1>2. ASSUME NEW q \in plan[j], EnterBlock(j, q) PROVE FALSE
    BY <1>2 DEF EnterBlock, InBlock, AllPlainScripts, TypeOK
  <1>3. ASSUME NEW q \in plan[j], Begin(j, q), ~Raise(j)
        PROVE  /\ Climber(j)' /\ UNCHANGED <<stamped, schema>>
               /\ \A k \in Jobs \ {j} : pc[k] \in Walking => Apart(j, k)' /\ Apart(k, j)'
    <2>1. pc[j] \in Walking
      BY <1>3 DEF Begin, Walking
    <2>2. /\ pc[j] = "step" /\ pc'[j] = "rest" /\ IsNext(way[j], plan[j], q) /\ q \in Rev
          /\ UNCHANGED <<stamped, schema, way, req, plan, heads, mode>>
          /\ q \notin Applied(stamped)
          /\ \A k \in Jobs \ {j} : tx[k].eff[q] = "same"
          /\ tx'[j].del = tx[j].del /\ tx'[j].ins = tx[j].ins
          /\ \A r \in Rev : tx'[j].eff[r] = IF r = q THEN "part" ELSE tx[j].eff[r]
      BY <1>3, <2>1, PlainBegin
    <2>3. ASSUME NEW r \in Rev PROVE InHand(j, r)' <=> r = q
      <3>1. ASSUME IsNext(way[j], plan[j], r) PROVE r = q
        BY <2>2, <3>1, NextUnique DEF TypeOK
      <3> QED BY <2>2, <3>1 DEF InHand
    <2>4. Wrote(j)'
      BY <1>0, <2>1, <2>2, <2>3 DEF Climber, Wrote, InHand, Crossed
    <2>5. Climber(j)'
      BY <1>0, <2>1, <2>2, <2>4 DEF Climber, ClimbsTo, Target
    <2> QED BY <1>0, <2>1, <2>2, <2>5 DEF Apart
  <1>4. ASSUME NEW q \in plan[j], Finish(j, q)
        PROVE  /\ Climber(j)' /\ UNCHANGED <<stamped, schema>>
               /\ \A k \in Jobs \ {j} : pc[k] \in Walking => Apart(j, k)' /\ Apart(k, j)'
    <2>1. pc[j] \in Walking
      BY <1>4 DEF Finish, Walking
    <2>2. /\ pc[j] = "rest" /\ pc'[j] = "stamp" /\ InHand(j, q) /\ q \in Rev
          /\ UNCHANGED <<stamped, schema, way, req, plan, heads, mode>>
          /\ tx'[j].del = tx[j].del /\ tx'[j].ins = tx[j].ins
          /\ \A r \in Rev : tx'[j].eff[r] = IF r = q THEN "full" ELSE tx[j].eff[r]
      BY <1>4, <2>1, PlainFinish
    <2>3. ASSUME NEW r \in Rev PROVE InHand(j, r)' <=> r = q
      <3>1. IsNext(way[j], plan[j], q)
        BY <2>2 DEF InHand
      <3>2. ASSUME IsNext(way[j], plan[j], r) PROVE r = q
        BY <3>1, <3>2, NextUnique DEF TypeOK
      <3> QED BY <2>2, <3>1, <3>2 DEF InHand
    <2>4. ASSUME NEW r \in Rev PROVE InHand(j, r) <=> r = q
      BY <2>2, InHandOnly DEF InHand
    <2>5. tx[j].eff[q] = "part" /\ q \notin Applied(stamped)
      BY <1>0, <2>1, <2>2 DEF Climber, Wrote
    <2>6. Wrote(j)'
      BY <1>0, <2>1, <2>2, <2>3, <2>4, <2>5 DEF Climber, Wrote, Crossed
    <2>7. Climber(j)'
      BY <1>0, <2>1, <2>2, <2>6 DEF Climber, ClimbsTo, Target
    <2> QED BY <1>0, <2>1, <2>2, <2>5, <2>7 DEF Apart
  <1>5. ASSUME NEW q \in plan[j], Stamp(j, q), ~Abandon(j)
        PROVE  /\ Climber(j)' /\ UNCHANGED <<stamped, schema>>
               /\ \A k \in Jobs \ {j} : pc[k] \in Walking => Apart(j, k)' /\ Apart(k, j)'
    <2>1. pc[j] \in Walking
      BY <1>5 DEF Stamp, Walking
    <2>2. /\ pc[j] = "stamp" /\ pc'[j] = "step" /\ InHand(j, q) /\ q \in Rev
          /\ UNCHANGED <<stamped, schema, way, req, mode>>
          /\ plan'[j] = plan[j] \ {q} /\ heads'[j] = RowsUp(heads[j], q)
          /\ tx'[j].eff = tx[j].eff
          /\ tx'[j].del = tx[j].del \cup Gone(j, q)
          /\ tx'[j].ins = (tx[j].ins \ Gone(j, q)) \cup Come(j, q)
      BY <1>5, <2>1, PlainStamp
    <2>3. /\ q \notin Applied(heads[j]) /\ Down[q] \subseteq Applied(heads[j])
          /\ IsNext(way[j], plan[j], q)
      BY <2>1, <2>2, NextBeside DEF InHand
    <2>4. tx[j].eff[q] = "full" /\ q \notin Applied(stamped)
      BY <1>0, <2>1, <2>2 DEF Climber, Wrote
    <2>5. way[j] = "upgrade"
      BY <1>0, <2>1 DEF Climber, ClimbsTo
    <2>6. /\ Gone(j, q) = heads[j] \ RowsUp(heads[j], q)
          /\ Come(j, q) = RowsUp(heads[j], q) \ heads[j]
      BY <2>5 DEF Gone, Come, Restamp
    <2>7. /\ stamped \in SUBSET Rev /\ heads[j] \in SUBSET Rev
          /\ tx[j].del \in SUBSET Rev /\ tx[j].ins \in SUBSET Rev
      BY ViewType DEF TypeOK
    <2>8. /\ Applied(heads'[j]) = Applied(heads[j]) \cup {q}
          /\ Beside(stamped, heads'[j], tx'[j].del, tx'[j].ins)
      <3>1. Beside(stamped, heads[j], tx[j].del, tx[j].ins)
        BY <1>0, <2>1 DEF Climber
      <3>2. /\ Applied(RowsUp(heads[j], q)) = Applied(heads[j]) \cup {q}
            /\ Beside(stamped, RowsUp(heads[j], q), tx[j].del \cup Gone(j, q),
                      (tx[j].ins \ Gone(j, q)) \cup Come(j, q))
        BY <2>2, <2>3, <2>4, <2>6, <2>7, <3>1, StampBeside
      <3> QED BY <2>2, <3>2
    <2>9. ClimbsTo(j, Target(j))'
      BY <1>0, <2>1, <2>2, <2>8 DEF Climber, ClimbsTo, Target
    <2>10. ASSUME NEW r \in Rev PROVE ~InHand(j, r)' /\ (InHand(j, r) <=> r = q)
      <3>1. ~InHand(j, r)'
        BY <2>2 DEF InHand
      <3> QED BY <2>2, <2>3, <3>1, InHandOnly
    <2>11. Wrote(j)'
      BY <1>0, <2>1, <2>2, <2>4, <2>8, <2>10 DEF Climber, Wrote, Crossed
    <2> QED BY <1>0, <2>1, <2>2, <2>8, <2>9, <2>11 DEF Climber, Apart
  <1>6. CASE LockSessionDrops(j) \/ ReapLock(j)
    <2>1. UNCHANGED <<stamped, schema, pc, req, way, plan, heads, tx>>
      BY <1>6 DEF LockSessionDrops, ReapLock
    <2>2. Climber(j)'
      BY <1>0, <2>1 DEF Climber, ClimbsTo, Wrote, InHand, Crossed, Target
    <2> QED BY <1>0, <2>1, <2>2 DEF Apart
  <1>7. \A q \in plan[j] : ~StatementSwallowed(j, q)
    BY DEF StatementSwallowed, CommitsRaw, AllPlainScripts, TypeOK
  <1> QED BY <1>1, <1>2, <1>3, <1>4, <1>5, <1>6, <1>7, WalkingStep

(* What one walk has crossed, no other that has it too has committed. *)
LEMMA CrossedApart ==
  ASSUME RaceInv, NEW j \in Jobs, pc[j] \in Walking, NEW k \in Jobs, k # j, pc[k] \in Walking
  PROVE  /\ Applied(heads[j]) \cap Applied(heads[k]) \subseteq Applied(stamped)
         /\ \A r \in Rev : InHand(k, r) => r \notin Crossed(j)
  <1> USE DEF RaceInv
  <1>1. ASSUME NEW l \in Jobs, pc[l] \in Walking, NEW r \in Rev, r \in Crossed(l) \/ InHand(l, r)
        PROVE  tx[l].eff[r] # "same"
    BY <1>1 DEF Abreast, Wrote
  <1>2. Apart(j, k)
    BY DEF Abreast
  <1>3. Applied(heads[j]) \subseteq Rev
    BY AppliedBasics DEF TypeOK
  <1> QED BY <1>1, <1>2, <1>3 DEF Apart, Crossed

(* A commit, for the one that commits and for the ones still walking. *)
LEMMA CommitStep ==
  ASSUME RaceInv, NEW j \in Jobs, CommitWalk(j)
  PROVE  /\ plan[j] = {} /\ ClimbsTo(j, Target(j))
         /\ stamped' = Rows(j) /\ Applied(stamped') = Applied(stamped) \cup Applied(heads[j])
         /\ Antichain(stamped') /\ SchemaMatchesStamp'
         /\ \A k \in Jobs \ {j} : pc[k] \in Walking => Climber(k)'
  <1> USE DEF RaceInv
  <1>1. /\ pc[j] = "step" /\ plan[j] = {} /\ pc[j] \in Walking /\ CommitWith(j, tx[j].eff)
        /\ UNCHANGED <<req, way, plan, heads, mode>> /\ pc' = [pc EXCEPT ![j] = "unlock"]
    BY DEF CommitWalk, OneTransaction, Walking
  <1>2. Climber(j)
    BY <1>1 DEF Abreast, Climber
  <1>3. stamped' = Rows(j) /\ schema' = Overlay(tx[j].eff) /\ tx' = [tx EXCEPT ![j] = NoTx]
    BY <1>1 DEF CommitWith
  <1>4. Applied(stamped') = Applied(stamped) \cup Applied(heads[j]) /\ Antichain(stamped')
    BY <1>2, <1>3 DEF Climber, Beside, Rows
  <1>5. ASSUME NEW r \in Rev
        PROVE  schema'[r] = IF r \in Applied(stamped') THEN "full" ELSE "none"
    <2>1. tx[j].eff[r] = IF r \in Crossed(j) THEN "full" ELSE "same"
      BY <1>1, <1>2 DEF Climber, Wrote, InHand
    <2>2. schema[r] = IF r \in Applied(stamped) THEN "full" ELSE "none"
      BY DEF Abreast, SchemaMatchesStamp
    <2>3. schema'[r] = IF tx[j].eff[r] = "same" THEN schema[r] ELSE tx[j].eff[r]
      BY <1>3 DEF Overlay
    <2> QED BY <1>4, <2>1, <2>2, <2>3 DEF Crossed
  <1>6. ASSUME NEW k \in Jobs \ {j}, pc[k] \in Walking PROVE Climber(k)'
    <2>1. Climber(k)
      BY <1>6 DEF Abreast, Climber
    <2>2. /\ Applied(heads[j]) \cap Applied(heads[k]) \subseteq Applied(stamped)
          /\ \A r \in Rev : InHand(k, r) => r \notin Crossed(j)
      BY <1>1, <1>6, CrossedApart
    <2>3. pc'[k] = pc[k] /\ tx'[k] = tx[k]
      BY <1>1, <1>3 DEF TypeOK
    <2>4. Beside(stamped', heads[k], tx[k].del, tx[k].ins)
      <3>1. /\ stamped \in SUBSET Rev /\ heads[j] \in SUBSET Rev /\ heads[k] \in SUBSET Rev
            /\ tx[j].del \in SUBSET Rev /\ tx[j].ins \in SUBSET Rev
            /\ tx[k].del \in SUBSET Rev /\ tx[k].ins \in SUBSET Rev
        BY ViewType DEF TypeOK
      <3>2. Antichain(stamped)
        BY DEF Abreast
      <3>3. stamped' = (stamped \ tx[j].del) \cup tx[j].ins
        BY <1>3 DEF Rows
      <3>4. /\ Beside(stamped, heads[j], tx[j].del, tx[j].ins)
            /\ Beside(stamped, heads[k], tx[k].del, tx[k].ins)
        BY <1>2, <2>1 DEF Climber
      <3> QED BY <2>2, <3>1, <3>2, <3>3, <3>4, CommitBeside
    <2>5. \A r \in Rev : InHand(k, r)' <=> InHand(k, r)
      BY <1>1, <2>3 DEF InHand
    <2>6. Crossed(k)' = Crossed(k)
      BY <1>1, <1>4, <2>2 DEF Crossed
    <2>7. Wrote(k)'
      BY <1>4, <2>1, <2>2, <2>3, <2>5, <2>6 DEF Climber, Wrote, Crossed
    <2>8. ClimbsTo(k, Target(k))'
      BY <1>1, <1>4, <2>1 DEF Climber, ClimbsTo, Target
    <2> QED BY <1>1, <2>3, <2>4, <2>7, <2>8 DEF Climber
  <1> QED BY <1>1, <1>2, <1>3, <1>4, <1>5, <1>6 DEF SchemaMatchesStamp, Climber

LEMMA AbreastStep ==
  ASSUME RaceInv, AllPlainScripts, NoConsent, [Next]_vars
  PROVE  Abreast'
  <1> USE DEF RaceInv
  <1>1. CASE UNCHANGED vars
    BY <1>1 DEF vars, Abreast, SchemaMatchesStamp, ClimbsTo, Wrote, InHand, Crossed,
                Apart, Target
  <1>2. CASE AllEnded
    BY <1>1, <1>2 DEF AllEnded
  <1>3. ASSUME NEW j \in Jobs, Step(j) PROVE Abreast'
    <2>1. \A k \in Jobs \ {j} :
            /\ pc'[k] = pc[k] /\ req'[k] = req[k] /\ way'[k] = way[k]
            /\ plan'[k] = plan[k] /\ heads'[k] = heads[k] /\ tx'[k] = tx[k]
      BY <1>3, Frame
    <2>2. ASSUME NEW k \in Jobs PROVE pc'[k] \notin {"block", "zfirst", "zrest"}
      <3>1. CASE k # j
        BY <2>1, <3>1 DEF Abreast
      <3>2. CASE k = j /\ pc'[j] = "block"
        <4>1. ~BeginWalk(j)
          BY <3>2 DEF BeginWalk, TypeOK
        <4>2. ASSUME NEW r \in plan[j],
                     \/ EnterBlock(j, r) \/ Finish(j, r) \/ StatementSwallowed(j, r)
                     \/ ((Begin(j, r) \/ Stamp(j, r)) /\ ~Raise(j) /\ ~Abandon(j))
              PROVE  FALSE
          BY <3>2, <4>2 DEF EnterBlock, InBlock, AllPlainScripts, Begin, Finish, Stamp,
                            StatementSwallowed, TypeOK
        <4>3. CASE LockSessionDrops(j) \/ ReapLock(j)
          BY <3>2, <4>3 DEF LockSessionDrops, ReapLock, Abreast
        <4> QED BY <1>3, <3>2, <4>1, <4>2, <4>3, WalkingStep DEF Walking
      <3>3. CASE k = j /\ pc'[j] \in {"zfirst", "zrest"}
        <4>1. pc'[j] # pc[j] /\ pc[j] # "block" /\ mode[j] # "auto"
          BY <3>3 DEF Abreast, OneTransaction
        <4> QED BY <1>3, <3>3, <4>1, ZombieMoves
      <3> QED BY <3>1, <3>2, <3>3
    <2>3. CASE CommitWalk(j)
      <3>1. /\ Antichain(stamped') /\ SchemaMatchesStamp'
            /\ \A k \in Jobs \ {j} : pc[k] \in Walking => Climber(k)'
        BY <2>3, CommitStep
      <3>2. pc'[j] \notin Walking
        BY <2>3 DEF CommitWalk, TypeOK, Walking
      <3>3. ASSUME NEW k \in Jobs \ {j}, NEW l \in Jobs \ {j}, k # l,
                   pc'[k] \in Walking, pc'[l] \in Walking
            PROVE  Apart(k, l)'
        BY <2>1, <3>3 DEF Abreast, Apart
      <3> QED BY <2>1, <2>2, <3>1, <3>2, <3>3 DEF Abreast, Climber
    <2>4. CASE UNCHANGED db
      <3>1. stamped' = stamped /\ schema' = schema
        BY <2>4 DEF db
      <3>2. ASSUME NEW k \in Jobs, pc'[k] \in Walking PROVE Climber(k)'
        <4>1. CASE k = j
          BY <1>3, <3>2, <4>1, ClimberStep
        <4>2. CASE k # j
          <5>1. Climber(k)
            BY <2>1, <3>2, <4>2 DEF Abreast, Climber
          <5> QED BY <2>1, <3>1, <4>2, <5>1
                  DEF Climber, ClimbsTo, Wrote, InHand, Crossed, Target
        <4> QED BY <4>1, <4>2
      <3>3. ASSUME NEW k \in Jobs, NEW l \in Jobs \ {k}, pc'[k] \in Walking, pc'[l] \in Walking
            PROVE  Apart(k, l)'
        <4>1. CASE k = j
          BY <1>3, <2>1, <3>3, <4>1, ClimberStep
        <4>2. CASE l = j
          BY <1>3, <2>1, <3>3, <4>2, ClimberStep
        <4>3. CASE k # j /\ l # j
          BY <2>1, <3>3, <4>3 DEF Abreast, Apart
        <4> QED BY <4>1, <4>2, <4>3
      <3> QED BY <2>2, <3>1, <3>2, <3>3 DEF Abreast, SchemaMatchesStamp, Climber
    <2> QED BY <1>3, <2>3, <2>4, DbStep
  <1> QED BY <1>1, <1>2, <1>3 DEF Next, Step

(* Consent is given with the command line and never afterwards. *)
NotAsked == \A j \in Jobs : pc[j] = "idle" => ~req[j].allow

LEMMA NotAskedStep ==
  ASSUME TypeOK, NotAsked, [Next]_vars
  PROVE  NotAsked' /\ (NoConsent' => NoConsent)
  <1>1. CASE UNCHANGED vars
    BY <1>1 DEF vars, NotAsked, NoConsent
  <1>2. CASE AllEnded
    BY <1>1, <1>2 DEF AllEnded
  <1>3. ASSUME NEW j \in Jobs, Step(j) PROVE NotAsked' /\ (NoConsent' => NoConsent)
    <2>1. \A k \in Jobs \ {j} : pc'[k] = pc[k] /\ req'[k] = req[k]
      BY <1>3, Frame
    <2>2. /\ pc'[j] # "idle"
          /\ pc[j] # "idle" => req'[j] = req[j]
      BY <1>3, AskedOnce
    <2> QED BY <2>1, <2>2 DEF NotAsked, NoConsent
  <1> QED BY <1>1, <1>2, <1>3 DEF Next, Step

LEMMA RaceInit ==
  ASSUME StampsAreTips, Init
  PROVE  RaceInv /\ NotAsked
  <1>1. Typed
    BY TypeInit
  <1>2. \A j \in Jobs : pc[j] = "idle" /\ tx[j] = NoTx /\ mode[j] = "txn" /\ ~req[j].allow
    BY DEF Init, NoReq
  <1>3. AskedFor /\ Consented /\ NothingOpen /\ OneTransaction /\ NotAsked
    BY <1>2 DEF AskedFor, Consented, NothingOpen, OneTransaction, NotAsked, UnderLock, Walking
  <1>4. Antichain(stamped)
    <2>1. stamped \in SUBSET Rev /\ Tips(Applied(stamped)) = stamped
      BY ScriptsAssumption DEF Init, StampsAreTips
    <2> QED BY <2>1, TipsAntichain
  <1>5. SchemaMatchesStamp
    BY DEF Init, SchemaMatchesStamp
  <1>6. Abreast
    BY <1>2, <1>4, <1>5 DEF Abreast, Walking
  <1> QED BY <1>1, <1>3, <1>6 DEF RaceInv, Typed

LEMMA RaceStep ==
  ASSUME RaceInv, AllPlainScripts, NoConsent, [Next]_vars
  PROVE  RaceInv'
  <1>1. TypeOK' /\ TargetKnown'
    BY TypeStep, TargetStep DEF RaceInv, Typed
  <1>2. AskedFor' /\ Consented' /\ NothingOpen'
    BY AskedForStep, ConsentedStep, NothingOpenStep DEF RaceInv
  <1>3. OneTransaction'
    BY OneTransactionStep DEF RaceInv, AllPlainScripts
  <1>4. Abreast'
    BY AbreastStep
  <1> QED BY <1>1, <1>2, <1>3, <1>4 DEF RaceInv

(***************************************************************************)
(* Until somebody is given --allow-destructive, any number of processes    *)
(* that lose their lock session walk up at once, each in one transaction,  *)
(* and what one has written no other has.  The server's row and table      *)
(* locks see to that, and a script that finds its table there raises.      *)
(***************************************************************************)
THEOREM RaceUntilConsent ==
  ASSUME AllPlainScripts, StampsAreTips
  PROVE  Spec => []ReleasesAbreast
  <1> DEFINE Inv == TypeOK /\ NotAsked /\ ReleasesAbreast
  <1>1. Init => Inv
    BY RaceInit DEF ReleasesAbreast, RaceInv
  <1>2. Inv /\ [Next]_vars /\ TypeOK' => Inv'
    BY NotAskedStep, RaceStep DEF ReleasesAbreast
  <1>3. Inv => ReleasesAbreast
    OBVIOUS
  <1> QED BY <1>1, <1>2, <1>3, TypeCorrect, PTL DEF Spec

(* Where no command line has the flag, always. *)
THEOREM RaceCorrect ==
  ASSUME AllPlainScripts, ReleasesOnly, StampsAreTips
  PROVE  Spec => []RaceInv
  <1> DEFINE Inv == NotAsked /\ RaceInv
  <1>1. Init => Inv
    BY RaceInit
  <1>2. Inv => NoConsent
    BY DEF NotAsked, RaceInv, AskedFor, ReleasesOnly, NoConsent
  <1>3. Inv /\ [Next]_vars => Inv'
    BY <1>2, NotAskedStep, RaceStep DEF RaceInv
  <1> QED BY <1>1, <1>3, PTL DEF Spec

(***************************************************************************)
(* Releases that lose their lock session leave no row that another row     *)
(* implies: the second to restamp finds the row it replaces gone, or the   *)
(* row it writes there, and raises.                                        *)
(***************************************************************************)
THEOREM UnlockedReleasesKeepTips ==
  ASSUME AllPlainScripts, ReleasesOnly, StampsAreTips
  PROVE  Spec => []RowsAreTips
  <1>1. RaceInv => RowsAreTips
    BY TipsAntichain DEF RaceInv, Abreast, TypeOK, RowsAreTips
  <1> QED BY <1>1, RaceCorrect, PTL

(***************************************************************************)
(* Nor do they leave a schema that differs from what alembic_version says. *)
(***************************************************************************)
THEOREM UnlockedReleasesMatchSchema ==
  ASSUME AllPlainScripts, ReleasesOnly, StampsAreTips
  PROVE  Spec => []SchemaMatchesStamp
  <1>1. RaceInv => SchemaMatchesStamp
    BY DEF RaceInv, Abreast
  <1> QED BY <1>1, RaceCorrect, PTL

(***************************************************************************)
(* And each still takes the database all the way to its target in one step *)
(* or leaves it as it was: the promise of ConvergeSpec does not need the   *)
(* advisory lock until somebody rolls back.                                *)
(***************************************************************************)
THEOREM UnlockedReleasesPromised ==
  ASSUME AllPlainScripts, ReleasesOnly, StampsAreTips
  PROVE  Spec => ConvergesInWholeWalks
  <1>1. RaceInv /\ [Next]_vars =>
          [\E q \in Requests : Promise!Converge(q)]_(Applied(stamped))
    <2> SUFFICES ASSUME RaceInv, [Next]_vars, Applied(stamped') # Applied(stamped)
                 PROVE  \E q \in Requests : Promise!Converge(q)
      OBVIOUS
    <2>1. PICK j \in Jobs : Step(j)
      BY DEF Next, Step, AllEnded, vars
    <2>2. CommitWalk(j)
      BY <2>1, DbStep DEF db
    <2> DEFINE t == Target(j)
    <2>3. /\ req[j] \in Requests /\ req[j].cmd = "run" /\ t \in Rev
          /\ Promise!Resolve(req[j].image, req[j].target) = t
      <3>1. pc[j] = "step" /\ pc[j] \in UnderLock /\ pc[j] \in Alive
        BY <2>2 DEF CommitWalk, UnderLock, Walking, Alive
      <3>2. req[j] \in Requests /\ req[j].cmd = "run"
        BY <3>1 DEF RaceInv, AskedFor, Consented
      <3>3. t \in Rev
        BY <3>1 DEF RaceInv, TargetKnown
      <3> QED BY <3>2, <3>3, PromiseResolve DEF Target
    <2>4. t # Promise!NONE
      BY <2>3, RevAssumption DEF Promise!NONE
    <2>5. /\ plan[j] = {} /\ ClimbsTo(j, t)
          /\ Applied(stamped') = Applied(stamped) \cup Applied(heads[j])
      BY <2>2, CommitStep
    <2>6. Applied(stamped') = Applied(stamped) \cup Anc[t]
      BY <2>5 DEF ClimbsTo
    <2>7. Promise!Advance(t)
      BY <2>6 DEF Promise!Advance
    <2> QED BY <2>3, <2>4, <2>7 DEF Promise!Converge
  <1> QED BY <1>1, PromiseInit, RaceCorrect, PTL
        DEF Spec, ConvergesInWholeWalks, Promise!Spec
=============================================================================
