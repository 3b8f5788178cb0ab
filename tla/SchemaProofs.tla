---------------------------- MODULE SchemaProofs ----------------------------
(***************************************************************************)
(* What the walks of KeepMigrate leave of the schema, what exit 0 says of  *)
(* it, and that kills wedge nothing: where no lock session is lost under a *)
(* walk, for every graph and number of processes, and for the scripts and  *)
(* command lines each theorem names.                                       *)
(***************************************************************************)
EXTENDS KeepMigrateProofs

USE DEF Goto, End, HEAD, NONE

-----------------------------------------------------------------------------
(* What the walk sees *)

LEMMA NextUnique ==
  ASSUME NEW way1, NEW path \in SUBSET Rev, NEW q, NEW r,
         IsNext(way1, path, q), IsNext(way1, path, r)
  PROVE  q = r
  <1>1. q \in Nat /\ r \in Nat
    BY RevAssumption DEF IsNext
  <1> QED BY <1>1 DEF IsNext

(* Without writes of its own, a walk sees what is committed. *)
LEMMA NoTxView ==
  ASSUME TypeOK, NEW j \in Jobs, tx[j] = NoTx
  PROVE  View(j) = schema /\ Rows(j) = stamped
  <1>1. tx[j].eff = [r \in Rev |-> "same"] /\ tx[j].del = {} /\ tx[j].ins = {}
    BY DEF NoTx
  <1>2. schema = [r \in Rev |-> schema[r]]
    BY DEF TypeOK
  <1>3. View(j) = [r \in Rev |-> schema[r]]
    BY <1>1 DEF View, Overlay
  <1> QED BY <1>1, <1>2, <1>3 DEF Rows

(* What the walk sees of r does not change if nobody writes r. *)
LEMMA ViewFrame ==
  ASSUME NEW k \in Jobs, tx'[k] = tx[k], NEW r \in Rev, schema'[r] = schema[r]
  PROVE  View(k)'[r] = View(k)[r]
  BY DEF View, Overlay

(* A statement changes what its walk sees of its revision, and no more. *)
LEMMA WriteView ==
  ASSUME TypeOK, NEW j \in Jobs, mode[j] = "auto" => tx[j] = NoTx,
         NEW q \in Rev, NEW w \in Levels, Write(j, q, w)
  PROVE  /\ \A r \in Rev : View(j)'[r] = IF r = q THEN w ELSE View(j)[r]
         /\ mode[j] = "auto" => tx' = tx /\ schema' = [schema EXCEPT ![q] = w]
         /\ mode[j] # "auto" => schema' = schema
  <1>1. CASE mode[j] = "auto"
    <2>1. tx' = tx /\ schema' = [schema EXCEPT ![q] = w]
      BY <1>1 DEF Write
    <2>2. tx[j].eff = [r \in Rev |-> "same"]
      BY <1>1 DEF NoTx
    <2>3. \A r \in Rev : View(j)'[r] = schema'[r] /\ View(j)[r] = schema[r]
      BY <2>1, <2>2 DEF View, Overlay
    <2> QED BY <1>1, <2>1, <2>3 DEF TypeOK
  <1>2. CASE mode[j] # "auto"
    <2>1. tx' = [tx EXCEPT ![j].eff[q] = w] /\ schema' = schema
      BY <1>2 DEF Write
    <2>2. tx'[j].eff = [tx[j].eff EXCEPT ![q] = w]
      BY <2>1, ViewType DEF TypeOK, TxType
    <2>3. tx[j].eff \in [Rev -> Levels \cup {"same"}] /\ w # "same"
      BY ViewType DEF Levels
    <2> QED BY <1>2, <2>1, <2>2, <2>3 DEF View, Overlay
  <1> QED BY <1>1, <1>2

(* A commit with level w of q leaves committed what the walk sees, and w. *)
LEMMA CommitView ==
  ASSUME TypeOK, NEW j \in Jobs, NEW eff, CommitWith(j, eff),
         NEW q \in Rev, NEW w \in Levels,
         eff = tx[j].eff \/ eff = [tx[j].eff EXCEPT ![q] = w]
  PROVE  /\ stamped' = Rows(j) /\ tx'[j] = NoTx
         /\ View(j)' = schema'
         /\ eff = tx[j].eff => schema' = View(j)
         /\ eff = [tx[j].eff EXCEPT ![q] = w] =>
              \A r \in Rev : schema'[r] = IF r = q THEN w ELSE View(j)[r]
  <1>1. stamped' = Rows(j) /\ schema' = Overlay(eff) /\ tx'[j] = NoTx
    BY DEF CommitWith, TypeOK
  <1>2. tx[j].eff \in [Rev -> Levels \cup {"same"}] /\ w # "same"
    BY ViewType DEF Levels
  <1>3. View(j)' = schema'
    <2>1. tx'[j].eff = [r \in Rev |-> "same"]
      BY <1>1 DEF NoTx
    <2>2. schema' = [r \in Rev |-> schema'[r]]
      BY <1>1 DEF Overlay
    <2>3. View(j)' = [r \in Rev |-> schema'[r]]
      BY <2>1 DEF View, Overlay
    <2> QED BY <2>2, <2>3
  <1>4. ASSUME eff = [tx[j].eff EXCEPT ![q] = w]
        PROVE  \A r \in Rev : schema'[r] = IF r = q THEN w ELSE View(j)[r]
    BY <1>1, <1>2, <1>4 DEF View, Overlay
  <1> QED BY <1>1, <1>3, <1>4 DEF View

-----------------------------------------------------------------------------
(* Statements commit by themselves in an autocommit_block only *)

LEMMA AtBlockIs ==
  ASSUME NEW j \in Jobs, plan[j] \in SUBSET Rev,
         NEW r \in plan[j], IsNext(way[j], plan[j], r)
  PROVE  AtBlock(j) <=> InBlock(way[j], r)
  BY NextUnique DEF AtBlock

(* Scripts without a COMMIT of their own let no failure pass. *)
LEMMA NothingSwallowed ==
  ASSUME TypeOK, NoOwnCommits, NEW j \in Jobs, NEW r \in plan[j]
  PROVE  ~StatementSwallowed(j, r)
  <1>1. r \in Rev
    BY DEF TypeOK
  <1> QED BY <1>1 DEF NoOwnCommits, StatementSwallowed, CommitsRaw

LEMMA BlocksOnlyStep ==
  ASSUME TypeOK, NoOwnCommits, BlocksOnly, [Next]_vars
  PROVE  BlocksOnly'
  <1>1. CASE UNCHANGED vars
    BY <1>1 DEF vars, BlocksOnly, AtBlock
  <1>2. CASE AllEnded
    BY <1>1, <1>2 DEF AllEnded
  <1>3. ASSUME NEW j \in Jobs, Step(j) PROVE BlocksOnly'
    <2> DEFINE Good(k) ==
          /\ pc[k] \in {"step", "stamp"} => mode[k] = "txn"
          /\ pc[k] = "rest" => mode[k] = IF AtBlock(k) THEN "auto" ELSE "txn"
          /\ pc[k] = "block" => mode[k] = "auto"
          /\ pc[k] \in {"block", "zfirst", "zrest"} => AtBlock(k)
    <2> SUFFICES ASSUME NEW k \in Jobs PROVE Good(k)'
      BY DEF BlocksOnly
    <2>0. Good(k)
      BY DEF BlocksOnly
    <2>1. ASSUME pc'[k] = pc[k], mode'[k] = mode[k], plan'[k] = plan[k], way'[k] = way[k]
          PROVE  Good(k)'
      BY <2>0, <2>1 DEF AtBlock
    <2>2. CASE k # j
      BY <1>3, <2>1, <2>2, Frame
    <2>3. CASE k = j
      <3> USE <2>3 DEF TypeOK
      <3>0. ASSUME pc'[j] \notin {"step", "stamp", "rest", "block", "zfirst", "zrest"}
            PROVE  Good(k)'
        BY <3>0
      <3>1. CASE Start(j) \/ Decide(j) \/ Redecide(j)
        BY <3>0, <3>1 DEF Start, Decide, Redecide
      <3>2. CASE AcquireLock(j) \/ PollLock(j) \/ GiveUpLock(j) \/ Unlock(j) \/ Exit(j)
        BY <3>0, <3>2 DEF AcquireLock, PollLock, GiveUpLock, Unlock, Exit
      <3>3. CASE CommitWalk(j) \/ DeadlockDetected(j)
        BY <3>0, <3>3 DEF CommitWalk, DeadlockDetected, Raise
      <3>11. \A r \in plan[j] : ~StatementSwallowed(j, r)
        BY NothingSwallowed
      <3>4. CASE ReapWalk(j) \/ \E r \in plan[j] : OrphanStatement(j, r)
        BY <3>0, <3>4 DEF ReapWalk, OrphanStatement
      <3>5. CASE ReadFails(j) \/ LockFails(j) \/ UnlockFails(j)
        BY <3>0, <3>5 DEF ReadFails, LockFails, UnlockFails
      <3>6. CASE StatementFails(j)
        BY <3>0, <3>6 DEF StatementFails, Raise
      <3>7. CASE LockSessionDrops(j) \/ ReapLock(j)
        BY <2>1, <3>7 DEF LockSessionDrops, ReapLock
      <3>8. CASE BeginWalk(j)
        BY <3>0, <3>8 DEF BeginWalk
      <3>9. CASE Kill(j)
        <4>1. mode'[j] = mode[j] /\ AtBlock(j)' = AtBlock(j)
          BY <3>9 DEF Kill, AtBlock
        <4>2. pc'[j] = "zfirst" => pc[j] = "block"
          BY <2>0, <3>9 DEF Kill
        <4>3. pc'[j] = "zrest" => pc[j] = "rest" /\ mode[j] = "auto"
          BY <3>9 DEF Kill
        <4>4. pc'[j] \notin {"step", "stamp", "rest", "block"}
          BY <3>9 DEF Kill
        <4> QED BY <2>0, <4>1, <4>2, <4>3, <4>4
      <3>10. ASSUME NEW r \in plan[j],
                    EnterBlock(j, r) \/ Begin(j, r) \/ Finish(j, r) \/ Stamp(j, r)
             PROVE  Good(k)'
        <4>1. CASE Raise(j) \/ Abandon(j)
          BY <3>0, <4>1 DEF Raise, Abandon
        <4>2. CASE EnterBlock(j, r) /\ ~Abandon(j)
          <5>1. pc'[j] = "block" /\ mode'[j] = "auto" /\ plan' = plan /\ way' = way
                /\ IsNext(way[j], plan[j], r) /\ InBlock(way[j], r)
            BY <4>2 DEF EnterBlock
          <5>2. AtBlock(j)'
            BY <5>1 DEF AtBlock
          <5> QED BY <5>1, <5>2
        <4>3. CASE Begin(j, r) /\ ~Raise(j)
          <5>1. /\ pc'[j] = "rest" /\ plan' = plan /\ way' = way
                /\ IsNext(way[j], plan[j], r)
                /\ pc[j] = IF InBlock(way[j], r) THEN "block" ELSE "step"
            BY <4>3 DEF Begin
          <5>2. Kind[r] \in {"plain", "index", "backfill"}
            BY DEF NoOwnCommits
          <5>3. ~CommitsRaw(way[j], r) /\ \A v : ~CommitsByHand(way[j], r, v)
            BY <5>2 DEF CommitsRaw, CommitsByHand
          <5>4. mode' = mode
            BY <4>3, <5>3 DEF Begin
          <5>5. AtBlock(j)' = AtBlock(j)
            BY <5>1 DEF AtBlock
          <5>6. AtBlock(j) <=> InBlock(way[j], r)
            BY <5>1, AtBlockIs
          <5>7. AtBlock(j) => mode[j] = "auto"
            BY <2>0, <5>1, <5>6
          <5>8. ~AtBlock(j) => mode[j] = "txn"
            BY <2>0, <5>1, <5>6
          <5> QED BY <5>1, <5>4, <5>5, <5>7, <5>8
        <4>4. CASE Finish(j, r)
          <5>1. /\ pc'[j] = "stamp" /\ pc[j] = "rest" /\ IsNext(way[j], plan[j], r)
                /\ mode'[j] = IF InBlock(way[j], r) THEN "txn" ELSE mode[j]
            BY <4>4 DEF Finish
          <5>2. AtBlock(j) <=> InBlock(way[j], r)
            BY <5>1, AtBlockIs
          <5> QED BY <2>0, <5>1, <5>2
        <4>5. CASE Stamp(j, r) /\ ~Abandon(j)
          <5>1. pc[j] = "stamp" /\ pc'[j] = "step" /\ mode' = mode
            BY <4>5 DEF Stamp
          <5> QED BY <2>0, <5>1
        <4> QED BY <3>10, <4>1, <4>2, <4>3, <4>4, <4>5
      <3> QED BY <1>3, <3>1, <3>2, <3>3, <3>4, <3>5, <3>6, <3>7, <3>8, <3>9, <3>10, <3>11
            DEF Step, Run, Walk, Reap, Mishap
    <2> QED BY <2>2, <2>3
  <1> QED BY <1>1, <1>2, <1>3 DEF Next, Step

-----------------------------------------------------------------------------
(* What the steps of a walk do to what it sees *)

(* A step after which a process is walking is one of the walk's own. *)
LEMMA WalkingStep ==
  ASSUME TypeOK, NEW j \in Jobs, Step(j), pc'[j] \in Walking
  PROVE  \/ BeginWalk(j)
         \/ \E r \in plan[j] :
              /\ EnterBlock(j, r) \/ Begin(j, r) \/ Finish(j, r) \/ Stamp(j, r)
              /\ ~Raise(j) /\ ~Abandon(j)
         \/ \E r \in plan[j] : StatementSwallowed(j, r)
         \/ LockSessionDrops(j) \/ ReapLock(j)
  <1>1. /\ ~Raise(j) /\ ~Abandon(j)
        /\ ~CommitWalk(j) /\ ~DeadlockDetected(j) /\ ~StatementFails(j)
    BY DEF CommitWalk, DeadlockDetected, StatementFails, Raise, Abandon, Walking, TypeOK
  <1>2. /\ ~Start(j) /\ ~Decide(j) /\ ~AcquireLock(j) /\ ~GiveUpLock(j)
        /\ ~Unlock(j) /\ ~Exit(j) /\ ~Redecide(j)
    BY DEF Start, Decide, AcquireLock, GiveUpLock, Unlock, Exit, Redecide, Walking, TypeOK
  <1>3. ~PollLock(j)
    BY DEF PollLock, Walking, TypeOK
  <1>4. ~ReadFails(j) /\ ~LockFails(j) /\ ~UnlockFails(j) /\ ~Kill(j)
    BY DEF ReadFails, LockFails, UnlockFails, Kill, Walking, Zombies, TypeOK
  <1>5. ~ReapWalk(j) /\ ~\E r \in plan[j] : OrphanStatement(j, r)
    BY DEF ReapWalk, OrphanStatement, Walking, TypeOK
  <1> QED BY <1>1, <1>2, <1>3, <1>4, <1>5 DEF Step, Run, Reap, Mishap, Walk

(* A statement that leaves level w of q, with no commit of the script's own. *)
LEMMA StatementView ==
  ASSUME TypeOK, NEW j \in Jobs, mode[j] = "auto" => tx[j] = NoTx,
         NEW q \in Rev, NEW w \in Levels,
         IF w = View(j)[q] THEN UNCHANGED <<schema, tx>> ELSE Write(j, q, w)
  PROVE  /\ \A r \in Rev : View(j)'[r] = IF r = q THEN w ELSE View(j)[r]
         /\ \A r \in Rev \ {q} : schema'[r] = schema[r]
         /\ schema' = schema \/ (mode[j] = "auto" /\ schema'[q] = w)
  <1>1. CASE w = View(j)[q] /\ UNCHANGED <<schema, tx>>
    <2>1. View(j)' = View(j)
      BY <1>1 DEF View, Overlay
    <2> QED BY <1>1, <2>1
  <1>2. CASE Write(j, q, w)
    <2>1. /\ \A r \in Rev : View(j)'[r] = IF r = q THEN w ELSE View(j)[r]
          /\ mode[j] = "auto" => schema' = [schema EXCEPT ![q] = w]
          /\ mode[j] # "auto" => schema' = schema
      BY <1>2, WriteView
    <2> QED BY <2>1 DEF TypeOK
  <1> QED BY <1>1, <1>2

(* The beginning of a script. *)
LEMMA BeginView ==
  ASSUME TypeOK, OnCourse, NEW j \in Jobs, NEW q \in plan[j], Begin(j, q), ~Raise(j)
  PROVE  \E w \in Levels :
           /\ w = First(way[j], q, View(j)[q]) /\ w # "raises"
           /\ \A r \in Rev : View(j)'[r] = IF r = q THEN w ELSE View(j)[r]
           /\ \/ /\ stamped' = stamped
                 /\ \A r \in Rev \ {q} : schema'[r] = schema[r]
                 /\ schema' = schema \/ (mode[j] = "auto" /\ schema'[q] = w)
              \/ /\ CommitsRaw(way[j], q) \/ CommitsByHand(way[j], q, View(j)[q])
                 /\ stamped' = Rows(j) /\ schema' = View(j)'
  <1> DEFINE v == View(j)[q]
             w == First(way[j], q, v)
  <1>1. q \in Rev /\ way[j] \in Ways /\ v \in Levels
    BY ViewType DEF TypeOK
  <1>2. w # "raises"
    BY DEF Begin
  <1>3. w \in Levels
    BY <1>1, <1>2, FirstType
  <1>4. mode[j] = "auto" => tx[j] = NoTx
    BY DEF Begin, Walking, OnCourse
  <1>5. \/ /\ CommitsRaw(way[j], q) \/ CommitsByHand(way[j], q, v)
           /\ CommitWith(j, [tx[j].eff EXCEPT ![q] = w])
        \/ /\ UNCHANGED stamped
           /\ IF w = v THEN UNCHANGED <<schema, tx>> ELSE Write(j, q, w)
    BY <1>2 DEF Begin
  <1> HIDE DEF v, w
  <1>6. v = View(j)[q] /\ w = First(way[j], q, View(j)[q])
    BY DEF v, w
  <1>7. CASE /\ CommitsRaw(way[j], q) \/ CommitsByHand(way[j], q, v)
             /\ CommitWith(j, [tx[j].eff EXCEPT ![q] = w])
    <2>1. /\ \A r \in Rev : schema'[r] = IF r = q THEN w ELSE View(j)[r]
          /\ stamped' = Rows(j) /\ View(j)' = schema'
      BY <1>1, <1>3, <1>7, CommitView
    <2> QED BY <1>2, <1>3, <1>6, <1>7, <2>1
  <1>8. CASE /\ UNCHANGED stamped
             /\ IF w = v THEN UNCHANGED <<schema, tx>> ELSE Write(j, q, w)
    <2>1. /\ \A r \in Rev : View(j)'[r] = IF r = q THEN w ELSE View(j)[r]
          /\ \A r \in Rev \ {q} : schema'[r] = schema[r]
          /\ schema' = schema \/ (mode[j] = "auto" /\ schema'[q] = w)
      BY <1>1, <1>3, <1>4, <1>6, <1>8, StatementView
    <2> QED BY <1>2, <1>3, <1>6, <1>8, <2>1
  <1> QED BY <1>5, <1>7, <1>8

(* The rest of a script. *)
LEMMA FinishView ==
  ASSUME TypeOK, OnCourse, NEW j \in Jobs, NEW q \in plan[j], Finish(j, q)
  PROVE  \E w \in Levels :
           /\ w = Rest(way[j], q, View(j)[q])
           /\ \A r \in Rev : View(j)'[r] = IF r = q THEN w ELSE View(j)[r]
           /\ \/ /\ stamped' = stamped
                 /\ \A r \in Rev \ {q} : schema'[r] = schema[r]
                 /\ schema' = schema \/ (mode[j] = "auto" /\ schema'[q] = w)
              \/ /\ CommitsByHand(way[j], q, View(j)[q])
                 /\ stamped' = Rows(j) /\ schema' = View(j)'
  <1> DEFINE v == View(j)[q]
             w == Rest(way[j], q, v)
  <1>1. q \in Rev /\ way[j] \in Ways /\ v \in Levels
    BY ViewType DEF TypeOK
  <1>3. w \in Levels
    BY <1>1, RestType
  <1>4. mode[j] = "auto" => tx[j] = NoTx
    BY DEF Finish, Walking, OnCourse
  <1>5. \/ /\ CommitsByHand(way[j], q, v)
           /\ CommitWith(j, [tx[j].eff EXCEPT ![q] = w])
        \/ /\ UNCHANGED stamped
           /\ IF w = v THEN UNCHANGED <<schema, tx>> ELSE Write(j, q, w)
    BY DEF Finish
  <1> HIDE DEF v, w
  <1>6. v = View(j)[q] /\ w = Rest(way[j], q, View(j)[q])
    BY DEF v, w
  <1>7. CASE /\ CommitsByHand(way[j], q, v)
             /\ CommitWith(j, [tx[j].eff EXCEPT ![q] = w])
    <2>1. /\ \A r \in Rev : schema'[r] = IF r = q THEN w ELSE View(j)[r]
          /\ stamped' = Rows(j) /\ View(j)' = schema'
      BY <1>1, <1>3, <1>7, CommitView
    <2> QED BY <1>3, <1>6, <1>7, <2>1
  <1>8. CASE /\ UNCHANGED stamped
             /\ IF w = v THEN UNCHANGED <<schema, tx>> ELSE Write(j, q, w)
    <2>1. /\ \A r \in Rev : View(j)'[r] = IF r = q THEN w ELSE View(j)[r]
          /\ \A r \in Rev \ {q} : schema'[r] = schema[r]
          /\ schema' = schema \/ (mode[j] = "auto" /\ schema'[q] = w)
      BY <1>1, <1>3, <1>4, <1>6, <1>8, StatementView
    <2> QED BY <1>3, <1>6, <1>8, <2>1
  <1> QED BY <1>5, <1>7, <1>8

(* Restamping takes the revision off the plan and into or out of the rows. *)
LEMMA StampApplied ==
  ASSUME ReachInv, NEW j \in Jobs, NEW q \in plan[j], Stamp(j, q), ~Abandon(j)
  PROVE  /\ pc'[j] = "step" /\ plan'[j] = plan[j] \ {q}
         /\ schema' = schema /\ View(j)' = View(j)
         /\ UNCHANGED <<way, req, mode>>
         /\ Down[q] \subseteq Applied(heads'[j]) /\ q \notin Down[q]
         /\ way[j] = "upgrade" => Applied(heads'[j]) = Applied(heads[j]) \cup {q}
         /\ way[j] = "downgrade" => Applied(heads'[j]) = Applied(heads[j]) \ {q}
  <1> USE DEF ReachInv, WalkInv
  <1>1. pc[j] \in Walking /\ pc'[j] = "step" /\ pc'[j] \in Walking
    BY DEF Stamp, Walking, TypeOK
  <1>2. /\ heads'[j] = Restamp(way[j], heads[j], q)
        /\ plan'[j] = plan[j] \ {q} /\ UNCHANGED <<way, req, mode>>
    BY <1>1, StampRows
  <1>3. PICK t \in Rev : Target(j) = t
    BY <1>1 DEF TargetKnown, Alive
  <1>4. /\ q \in Rev /\ plan[j] \subseteq Rev /\ heads[j] \in SUBSET Rev
        /\ IsNext(way[j], plan[j], q) /\ way[j] \in Ways
    BY DEF TypeOK, Stamp
  <1>5. schema' = schema /\ View(j)' = View(j)
    <2>1. schema' = schema /\ WriteRows(j, Gone(j, q), Come(j, q))
      BY DEF Stamp
    <2>2. tx'[j].eff = tx[j].eff
      <3> DEFINE gone == Gone(j, q)
                 come == Come(j, q)
      <3>1. WriteRows(j, gone, come)
        BY <2>1
      <3> HIDE DEF gone, come
      <3>2. CASE mode[j] = "auto"
        BY <3>1, <3>2 DEF WriteRows
      <3>3. CASE mode[j] # "auto"
        BY <3>1, <3>3, ViewType DEF WriteRows, TypeOK, TxType
      <3> QED BY <3>2, <3>3
    <2> QED BY <2>1, <2>2 DEF View, Overlay
  <1>6. Down[q] \subseteq Rev /\ q \notin Down[q] /\ Down[q] \subseteq Anc[q] \ {q}
    BY <1>4, AncStep, RevAssumption, DownAssumption, AncBasics
  <1>7. CASE way[j] = "upgrade"
    <2>1. RisingTo(j, t) /\ Anc[t] \subseteq Applied(heads[j]) \cup plan[j]
      BY <1>1, <1>3, <1>7 DEF OnCourse, Reaching
    <2>2. Anc[q] \subseteq Anc[t]
      BY <2>1, AncTransitive DEF RisingTo
    <2>3. ASSUME NEW a \in Anc[q] \ {q}, a \in plan[j] PROVE FALSE
      <3>1. a <= q /\ q <= a /\ a \in Nat /\ q \in Nat
        BY <1>4, <1>7, <2>3, AncBelow, RevAssumption DEF IsNext
      <3> QED BY <3>1
    <2>4. Anc[q] \ {q} \subseteq Applied(heads[j])
      BY <2>1, <2>2, <2>3
    <2>5. Applied(heads'[j]) = Applied(heads[j]) \cup Anc[q] /\ q \in Anc[q]
      BY <1>2, <1>4, <1>7, RowsUpApplied, AncStep DEF Restamp
    <2>6. Applied(heads'[j]) = Applied(heads[j]) \cup {q}
      BY <2>4, <2>5
    <2> QED BY <1>1, <1>2, <1>5, <1>6, <1>7, <2>4, <2>6
  <1>8. CASE way[j] = "downgrade"
    <2>1. SinkingTo(j, t) /\ Above(t) \cap Applied(heads[j]) \subseteq plan[j]
      BY <1>1, <1>3, <1>8 DEF OnCourse, Reaching
    <2>2. q \in heads[j] /\ \A b \in heads[j] : q \in Anc[b] => b = q
      BY <1>4, <1>8, <2>1, Topmost
    <2>3. Applied(heads'[j]) = Applied(heads[j]) \ {q}
      BY <1>2, <1>4, <1>8, <2>2, RowsDownExact DEF Restamp
    <2>4. Anc[q] \subseteq Applied(heads[j])
      BY <2>2 DEF Applied
    <2> QED BY <1>1, <1>2, <1>5, <1>6, <1>8, <2>3, <2>4
  <1> QED BY <1>4, <1>7, <1>8 DEF Ways

-----------------------------------------------------------------------------
(* A script that leaves alembic's transaction alone *)

(* Orderly scripts commit through autocommit_block only. *)
LEMMA OrderlyCommits ==
  ASSUME OrderlyScripts, NEW q \in Rev, NEW dir, NEW v
  PROVE  ~CommitsRaw(dir, q) /\ ~CommitsByHand(dir, q, v)
  BY DEF OrderlyScripts, NoOwnCommits, CommitsRaw, CommitsByHand

(* Whoever walks down undoes the plain scripts he crosses. *)
LEMMA DownUndoes ==
  ASSUME ReachInv, OrderlyScripts, NEW j \in Jobs, pc[j] \in Walking, way[j] = "downgrade",
         NEW r \in Rev, Kind[r] = "plain"
  PROVE  r \notin EmptyDown
  <1>1. pc[j] \in UnderLock /\ pc[j] # "idle"
    BY DEF UnderLock, Walking
  <1>2. req[j].allow /\ req[j] \in Requests
    BY <1>1 DEF ReachInv, WalkInv, Consented, AskedFor
  <1> QED BY <1>2 DEF OrderlyScripts, ReleasesOnly

LEMMA PlainSchemaStep ==
  ASSUME ReachInv, OrderlyScripts, BlocksOnly, PlainSettled, NEW j \in Jobs, Step(j),
         NEW r \in Rev, Kind[r] = "plain"
  PROVE  /\ schema'[r] = Settled(r, Applied(stamped'))
         /\ schema'[r] # schema[r] => pc[j] \in Walking
  <1> USE DEF ReachInv, WalkInv
  <1>0. schema[r] = Settled(r, Applied(stamped))
    BY DEF PlainSettled
  <1>1. ASSUME stamped' = stamped, schema'[r] = schema[r]
        PROVE  /\ schema'[r] = Settled(r, Applied(stamped'))
               /\ schema'[r] # schema[r] => pc[j] \in Walking
    BY <1>0, <1>1
  <1>2. ASSUME pc[j] = "step", CommitWith(j, tx[j].eff)
        PROVE  /\ schema'[r] = Settled(r, Applied(stamped'))
               /\ schema'[r] # schema[r] => pc[j] \in Walking
    <2>1. pc[j] \in Walking
      BY <1>2 DEF Walking
    <2>2. schema' = View(j) /\ stamped' = heads[j]
      BY <1>2, <2>1 DEF CommitWith, View, OnCourse
    <2>3. View(j)[r] = Settled(r, Applied(heads[j]))
      BY <1>2, <2>1 DEF PlainSettled, Seen
    <2> QED BY <2>1, <2>2, <2>3
  <1>3. CASE Start(j) \/ Decide(j) \/ Redecide(j) \/ BeginWalk(j)
    BY <1>1, <1>3 DEF Start, Decide, Redecide, BeginWalk
  <1>4. CASE AcquireLock(j) \/ PollLock(j) \/ GiveUpLock(j) \/ Unlock(j) \/ Exit(j)
    BY <1>1, <1>4 DEF AcquireLock, PollLock, GiveUpLock, Unlock, Exit
  <1>5. ASSUME NEW q \in plan[j], EnterBlock(j, q)
        PROVE  /\ schema'[r] = Settled(r, Applied(stamped'))
               /\ schema'[r] # schema[r] => pc[j] \in Walking
    BY <1>1, <1>2, <1>5 DEF EnterBlock
  <1>6. ASSUME NEW q \in plan[j], Begin(j, q)
        PROVE  /\ schema'[r] = Settled(r, Applied(stamped'))
               /\ schema'[r] # schema[r] => pc[j] \in Walking
    <2>1. CASE Raise(j)
      BY <1>1, <1>6, <2>1 DEF Begin, Raise, TypeOK
    <2>2. CASE ~Raise(j)
      <3>1. q \in Rev /\ pc[j] = IF InBlock(way[j], q) THEN "block" ELSE "step"
        BY <1>6 DEF Begin, TypeOK
      <3>2. /\ stamped' = stamped
            /\ \A s \in Rev \ {q} : schema'[s] = schema[s]
            /\ schema' = schema \/ mode[j] = "auto"
        BY <1>6, <2>2, <3>1, BeginView, OrderlyCommits
      <3>3. mode[j] = "auto" => InBlock(way[j], q)
        BY <3>1 DEF BlocksOnly
      <3>4. schema' = schema \/ q # r
        BY <3>2, <3>3 DEF InBlock
      <3> QED BY <1>1, <3>2, <3>4
    <2> QED BY <2>1, <2>2
  <1>7. ASSUME NEW q \in plan[j], Finish(j, q)
        PROVE  /\ schema'[r] = Settled(r, Applied(stamped'))
               /\ schema'[r] # schema[r] => pc[j] \in Walking
    <2>1. q \in Rev /\ pc[j] = "rest" /\ IsNext(way[j], plan[j], q)
      BY <1>7 DEF Finish, TypeOK
    <2>2. /\ stamped' = stamped
          /\ \A s \in Rev \ {q} : schema'[s] = schema[s]
          /\ schema' = schema \/ mode[j] = "auto"
      BY <1>7, <2>1, FinishView, OrderlyCommits
    <2>3. mode[j] = "auto" => InBlock(way[j], q)
      BY <2>1, AtBlockIs DEF BlocksOnly, TypeOK
    <2>4. schema' = schema \/ q # r
      BY <2>2, <2>3 DEF InBlock
    <2> QED BY <1>1, <2>2, <2>4
  <1>8. ASSUME NEW q \in plan[j], Stamp(j, q)
        PROVE  /\ schema'[r] = Settled(r, Applied(stamped'))
               /\ schema'[r] # schema[r] => pc[j] \in Walking
    <2>1. pc[j] = "stamp" /\ mode[j] = "txn"
      BY <1>8 DEF Stamp, BlocksOnly
    <2>2. stamped' = stamped /\ schema' = schema
      BY <1>8, <2>1 DEF Stamp, WriteRows
    <2> QED BY <1>1, <2>2
  <1>9. CASE CommitWalk(j)
    <2>1. mode[j] = "txn"
      BY <1>9 DEF CommitWalk, BlocksOnly
    <2> QED BY <1>2, <1>9, <2>1 DEF CommitWalk
  <1>10. CASE DeadlockDetected(j)
    BY <1>1, <1>10 DEF DeadlockDetected
  <1>11. CASE ReapWalk(j) \/ ReapLock(j)
    BY <1>1, <1>11 DEF ReapWalk, ReapLock
  <1>12. ASSUME NEW q \in plan[j], OrphanStatement(j, q)
         PROVE  /\ schema'[r] = Settled(r, Applied(stamped'))
                /\ schema'[r] # schema[r] => pc[j] \in Walking
    <2>1. InBlock(way[j], q) /\ q \in Rev
      <3>1. AtBlock(j) /\ IsNext(way[j], plan[j], q) /\ plan[j] \in SUBSET Rev
        BY <1>12 DEF OrphanStatement, BlocksOnly, TypeOK
      <3> QED BY <3>1, AtBlockIs
    <2>2. q # r
      BY <2>1 DEF InBlock
    <2>3. stamped' = stamped /\ schema'[r] = schema[r]
      BY <1>12, <2>2 DEF OrphanStatement, TypeOK
    <2> QED BY <1>1, <2>3
  <1>13. CASE ReadFails(j) \/ LockFails(j) \/ UnlockFails(j) \/ LockSessionDrops(j) \/ Kill(j)
    BY <1>1, <1>13 DEF ReadFails, LockFails, UnlockFails, LockSessionDrops, Kill
  <1>14. CASE StatementFails(j)
    BY <1>1, <1>14 DEF StatementFails, TypeOK
  <1>15. \A q \in plan[j] : ~StatementSwallowed(j, q)
    BY NothingSwallowed DEF OrderlyScripts
  <1> QED BY <1>3, <1>4, <1>5, <1>6, <1>7, <1>8, <1>9, <1>10, <1>11, <1>12, <1>13, <1>14,
        <1>15
        DEF Step, Run, Walk, Reap, Mishap

LEMMA SeenStep ==
  ASSUME ReachInv, ReachInv', OrderlyScripts, BlocksOnly, PlainSettled,
         NEW j \in Jobs, Step(j), "drop" \notin Faults,
         NEW r \in Rev, Kind[r] = "plain", NEW k \in Jobs, pc'[k] \in Walking
  PROVE  Seen(k, r)'
  <1> USE DEF ReachInv, WalkInv
  <1>1. CASE k # j
    <2>1. /\ pc'[k] = pc[k] /\ req'[k] = req[k] /\ way'[k] = way[k]
          /\ plan'[k] = plan[k] /\ heads'[k] = heads[k] /\ tx'[k] = tx[k]
      BY <1>1, Frame
    <2>2. pc[j] \notin Walking
      BY <1>1, <2>1 DEF OneWalker, UnderLock
    <2>3. schema'[r] = schema[r]
      BY <2>2, PlainSchemaStep
    <2>4. View(k)'[r] = View(k)[r]
      BY <2>1, <2>3, ViewFrame
    <2>5. Seen(k, r)
      BY <2>1 DEF PlainSettled
    <2> QED BY <2>1, <2>4, <2>5 DEF Seen
  <1>2. CASE k = j /\ BeginWalk(j)
    <2>1. /\ pc'[j] = "step" /\ heads'[j] = stamped /\ stamped' = stamped
          /\ tx' = tx /\ schema' = schema /\ pc[j] = "begin"
      BY <1>2 DEF BeginWalk, TypeOK, Walking
    <2>2. tx[j] = NoTx
      BY <2>1 DEF NothingOpen, Lingers, Walking, Zombies
    <2>3. View(j) = schema
      BY <2>2, NoTxView
    <2>4. View(j)' = View(j)
      BY <2>1 DEF View, Overlay
    <2>5. View(j)'[r] = Settled(r, Applied(heads'[j]))
      BY <2>1, <2>3, <2>4 DEF PlainSettled
    <2> QED BY <1>2, <2>1, <2>5 DEF Seen
  <1>3. ASSUME k = j, NEW q \in plan[j], EnterBlock(j, q), ~Abandon(j) PROVE Seen(k, r)'
    <2>1. /\ pc[j] = "step" /\ pc'[j] = "block" /\ heads' = heads
          /\ CommitWith(j, tx[j].eff) /\ pc[j] \in Walking
      BY <1>3 DEF EnterBlock, TypeOK, Walking
    <2>2. View(j)' = View(j)
      <3>1. q \in Rev /\ schema[r] \in Levels
        BY DEF TypeOK
      <3> QED BY <2>1, <3>1, CommitView
    <2>3. View(j)[r] = Settled(r, Applied(heads[j]))
      BY <2>1 DEF PlainSettled, Seen
    <2> QED BY <1>3, <2>1, <2>2, <2>3 DEF Seen
  <1>4. ASSUME k = j, NEW q \in plan[j], Begin(j, q), ~Raise(j) PROVE Seen(k, r)'
    <2>1. /\ q \in Rev /\ IsNext(way[j], plan[j], q) /\ plan[j] \in SUBSET Rev
          /\ pc[j] = IF InBlock(way[j], q) THEN "block" ELSE "step"
          /\ way[j] \in Ways
      BY <1>4 DEF Begin, TypeOK
    <2>2. pc'[j] = "rest" /\ UNCHANGED <<heads, plan, way>>
      BY <1>4 DEF Begin, TypeOK
    <2>3. PICK w \in Levels :
            /\ w = First(way[j], q, View(j)[q]) /\ w # "raises"
            /\ \A s \in Rev : View(j)'[s] = IF s = q THEN w ELSE View(j)[s]
      BY <1>4, BeginView
    <2>4. View(j)[r] = Settled(r, Applied(heads[j]))
      BY <2>1 DEF PlainSettled, Seen, Walking
    <2>5. CASE q = r
      <3>1. ~InBlock(way[j], r)
        BY DEF InBlock
      <3>2. way[j] = "upgrade" => First(way[j], r, View(j)[r]) \in {"part", "raises"}
        BY <2>4 DEF First, Settled
      <3>3. way[j] = "downgrade" => First(way[j], r, View(j)[r]) \in {"part", "raises"}
        BY <2>1, <2>4, <3>1, DownUndoes DEF First, Settled, Walking
      <3>4. w = "part"
        BY <2>1, <2>3, <2>5, <3>2, <3>3 DEF Ways
      <3> QED BY <1>4, <2>1, <2>2, <2>3, <2>5, <3>4 DEF Seen
    <2>6. CASE q # r
      <3>1. ~IsNext(way[j], plan[j], r)
        BY <2>1, <2>6, NextUnique
      <3>2. View(j)'[r] = View(j)[r]
        BY <2>3, <2>6
      <3> QED BY <1>4, <2>2, <2>4, <3>1, <3>2 DEF Seen
    <2> QED BY <2>5, <2>6
  <1>5. ASSUME k = j, NEW q \in plan[j], Finish(j, q), ~Raise(j) PROVE Seen(k, r)'
    <2>1. /\ q \in Rev /\ IsNext(way[j], plan[j], q) /\ plan[j] \in SUBSET Rev
          /\ pc[j] = "rest" /\ way[j] \in Ways
      BY <1>5 DEF Finish, TypeOK
    <2>2. pc'[j] = "stamp" /\ UNCHANGED <<heads, plan, way>>
      BY <1>5 DEF Finish, TypeOK
    <2>3. PICK w \in Levels :
            /\ w = Rest(way[j], q, View(j)[q])
            /\ \A s \in Rev : View(j)'[s] = IF s = q THEN w ELSE View(j)[s]
      BY <1>5, FinishView
    <2>4. Seen(j, r)
      BY <2>1 DEF PlainSettled, Walking
    <2>5. CASE q = r
      <3>1. View(j)[r] = "part"
        BY <2>1, <2>4, <2>5 DEF Seen
      <3>2. w = IF way[j] = "upgrade" THEN "full" ELSE "none"
        BY <2>1, <2>3, <2>5, <3>1, DownUndoes DEF Rest, Ways, Walking
      <3> QED BY <1>5, <2>1, <2>2, <2>3, <2>5, <3>2 DEF Seen
    <2>6. CASE q # r
      <3>1. ~IsNext(way[j], plan[j], r)
        BY <2>1, <2>6, NextUnique
      <3>2. View(j)'[r] = View(j)[r]
        BY <2>3, <2>6
      <3>3. View(j)[r] = Settled(r, Applied(heads[j]))
        BY <2>1, <2>4, <3>1 DEF Seen
      <3> QED BY <1>5, <2>2, <3>1, <3>2, <3>3 DEF Seen
    <2> QED BY <2>5, <2>6
  <1>6. ASSUME k = j, NEW q \in plan[j], Stamp(j, q), ~Abandon(j) PROVE Seen(k, r)'
    <2>1. /\ q \in Rev /\ IsNext(way[j], plan[j], q) /\ plan[j] \in SUBSET Rev
          /\ pc[j] = "stamp" /\ way[j] \in Ways
      BY <1>6 DEF Stamp, TypeOK
    <2>2. /\ pc'[j] = "step" /\ View(j)' = View(j)
          /\ way[j] = "upgrade" => Applied(heads'[j]) = Applied(heads[j]) \cup {q}
          /\ way[j] = "downgrade" => Applied(heads'[j]) = Applied(heads[j]) \ {q}
      BY <1>6, StampApplied
    <2>3. Seen(j, r)
      BY <2>1 DEF PlainSettled, Walking
    <2>4. View(j)[r] = Settled(r, Applied(heads'[j]))
      <3>1. CASE q = r
        <4>1. View(j)[r] = IF way[j] = "upgrade" THEN "full" ELSE "none"
          BY <2>1, <2>3, <3>1 DEF Seen
        <4>2. r \in Applied(heads'[j]) <=> way[j] = "upgrade"
          BY <2>1, <2>2, <3>1 DEF Ways
        <4> QED BY <4>1, <4>2 DEF Settled
      <3>2. CASE q # r
        <4>1. ~IsNext(way[j], plan[j], r)
          BY <2>1, <3>2, NextUnique
        <4>2. View(j)[r] = Settled(r, Applied(heads[j]))
          BY <2>1, <2>3, <4>1 DEF Seen
        <4>3. r \in Applied(heads'[j]) <=> r \in Applied(heads[j])
          BY <2>1, <2>2, <3>2 DEF Ways
        <4> QED BY <4>2, <4>3 DEF Settled
      <3> QED BY <3>1, <3>2
    <2> QED BY <1>6, <2>2, <2>4 DEF Seen
  <1>7. CASE k = j /\ ReapLock(j)
    <2>1. pc' = pc /\ UNCHANGED <<tx, schema, way, plan, heads>>
      BY <1>7 DEF ReapLock
    <2>2. Seen(j, r)
      BY <1>7, <2>1 DEF PlainSettled
    <2>3. View(j)' = View(j)
      BY <2>1 DEF View, Overlay
    <2> QED BY <1>7, <2>1, <2>2, <2>3 DEF Seen
  <1>8. ~LockSessionDrops(j)
    BY DEF LockSessionDrops, Fault
  <1>9. \A q \in plan[j] : ~StatementSwallowed(j, q)
    BY NothingSwallowed DEF OrderlyScripts
  <1> QED BY <1>1, <1>2, <1>3, <1>4, <1>5, <1>6, <1>7, <1>8, <1>9, WalkingStep

LEMMA PlainSettledStep ==
  ASSUME ReachInv, ReachInv', OrderlyScripts, BlocksOnly, PlainSettled,
         "drop" \notin Faults, [Next]_vars
  PROVE  PlainSettled'
  <1>1. CASE UNCHANGED vars
    BY <1>1 DEF vars, PlainSettled, Seen, View, Overlay
  <1>2. CASE AllEnded
    BY <1>1, <1>2 DEF AllEnded
  <1>3. ASSUME NEW j \in Jobs, Step(j) PROVE PlainSettled'
    BY <1>3, PlainSchemaStep, SeenStep DEF PlainSettled
  <1> QED BY <1>1, <1>2, <1>3 DEF Next, Step

(***************************************************************************)
(* Of plain scripts and those that run in autocommit_block: statements     *)
(* commit by themselves in such a block and nowhere else, and a plain      *)
(* script is in the schema if and only if it is applied.                   *)
(***************************************************************************)
THEOREM SettledCorrect ==
  ASSUME "drop" \notin Faults, OrderlyScripts
  PROVE  Spec => []SettledInv
  <1>1. Init => BlocksOnly /\ PlainSettled
    <2> SUFFICES ASSUME Init PROVE BlocksOnly /\ PlainSettled
      OBVIOUS
    <2>1. \A j \in Jobs : pc[j] = "idle"
      BY DEF Init
    <2>2. \A r \in Rev : schema[r] = Settled(r, Applied(stamped))
      BY DEF Init, Settled
    <2> QED BY <2>1, <2>2 DEF BlocksOnly, PlainSettled, Walking
  <1>2. /\ ReachInv /\ ReachInv' /\ BlocksOnly /\ PlainSettled /\ [Next]_vars
        => BlocksOnly' /\ PlainSettled'
    BY BlocksOnlyStep, PlainSettledStep DEF ReachInv, WalkInv, OrderlyScripts
  <1>3. SettledInv <=> ReachInv /\ BlocksOnly /\ PlainSettled
    BY DEF SettledInv
  <1> QED BY <1>1, <1>2, <1>3, ReachCorrect, PTL DEF Spec

(***************************************************************************)
(* "In ONE transaction", of the schema: where every script leaves          *)
(* alembic's transaction alone and undoes what it does, or nobody goes     *)
(* back, the committed schema is exactly what alembic_version says, at     *)
(* every moment and through every crash.                                   *)
(***************************************************************************)
THEOREM SchemaAlwaysMatches ==
  ASSUME "drop" \notin Faults, AllPlainScripts, OrderlyScripts
  PROVE  Spec => []SchemaMatchesStamp
  <1>1. SettledInv => SchemaMatchesStamp
    BY DEF SettledInv, PlainSettled, Settled, SchemaMatchesStamp, AllPlainScripts
  <1> QED BY <1>1, SettledCorrect, PTL

-----------------------------------------------------------------------------
(* How a process ends *)

(* A step says how its own process ended, or nothing. *)
LEMMA OutcomeStep ==
  ASSUME TypeOK, NEW j \in Jobs, Step(j)
  PROVE  /\ pc'[j] # "idle"
         /\ \A k \in Jobs \ {j} : outcome'[k] = outcome[k]
  <1> USE DEF TypeOK
  <1>1. CASE Start(j)
    BY <1>1 DEF Start
  <1>2. CASE Decide(j) \/ Redecide(j) \/ BeginWalk(j)
    BY <1>2 DEF Decide, Redecide, BeginWalk
  <1>3. CASE AcquireLock(j) \/ PollLock(j) \/ GiveUpLock(j) \/ Unlock(j) \/ Exit(j)
    BY <1>3 DEF AcquireLock, PollLock, GiveUpLock, Unlock, Exit
  <1>4. CASE Walk(j)
    BY <1>4 DEF Walk, EnterBlock, Begin, Finish, Stamp, CommitWalk, DeadlockDetected, Raise,
                Abandon
  <1>5. CASE Reap(j)
    BY <1>5 DEF Reap, ReapWalk, ReapLock, OrphanStatement, Zombies
  <1>6. CASE Mishap(j)
    BY <1>6 DEF Mishap, ReadFails, LockFails, StatementFails, Raise, StatementSwallowed,
                UnlockFails, LockSessionDrops, Kill, Walking, Zombies
  <1> QED BY <1>1, <1>2, <1>3, <1>4, <1>5, <1>6 DEF Step, Run

(* No statement and no restamp of a walk of orderly scripts raises. *)
LEMMA NothingRaises ==
  ASSUME SettledInv, OrderlyScripts, NEW j \in Jobs, NEW r \in plan[j],
         EnterBlock(j, r) \/ Begin(j, r) \/ Finish(j, r) \/ Stamp(j, r)
  PROVE  outcome' = outcome
  <1> USE DEF SettledInv, ReachInv, WalkInv
  <1>1. /\ r \in Rev /\ IsNext(way[j], plan[j], r) /\ way[j] \in Ways /\ pc[j] \in Walking
    BY DEF EnterBlock, Begin, Finish, Stamp, TypeOK, Walking, InBlock
  <1>2. CASE EnterBlock(j, r)
    <2>1. mode[j] # "orphan"
      BY <1>2 DEF EnterBlock, BlocksOnly
    <2> QED BY <1>2, <2>1 DEF EnterBlock
  <1>3. CASE Begin(j, r)
    <2>1. CASE InBlock(way[j], r)
      <3>1. First(way[j], r, View(j)[r]) # "raises"
        <4>1. View(j)[r] # "raises"
          BY <1>1, ViewType DEF Levels
        <4> QED BY <1>1, <2>1, <4>1 DEF First, InBlock, Ways
      <3> QED BY <1>3, <3>1 DEF Begin
    <2>2. CASE ~InBlock(way[j], r) /\ Kind[r] # "plain"
      <3>1. way[j] = "downgrade" /\ r \in EmptyDown
        BY <1>1, <2>2 DEF InBlock, OrderlyScripts, NoOwnCommits, Ways
      <3>2. View(j)[r] # "raises"
        BY <1>1, ViewType DEF Levels
      <3>3. First(way[j], r, View(j)[r]) # "raises"
        BY <3>1, <3>2 DEF First
      <3> QED BY <1>3, <3>3 DEF Begin
    <2>3. CASE Kind[r] = "plain"
      <3>1. pc[j] = "step" /\ (way[j] = "downgrade" => r \notin EmptyDown)
        BY <1>1, <1>3, <2>3, DownUndoes DEF InBlock, Begin, Ways
      <3>2. View(j)[r] = Settled(r, Applied(heads[j]))
        BY <1>1, <2>3, <3>1 DEF PlainSettled, Seen
      <3>3. PICK t \in Rev : Target(j) = t
        BY <1>1 DEF TargetKnown, Alive
      <3>4. way[j] = "upgrade" => r \notin Applied(heads[j])
        BY <1>1, <3>3 DEF OnCourse, RisingTo
      <3>5. way[j] = "downgrade" => r \in Applied(heads[j])
        BY <1>1, <3>3 DEF OnCourse, SinkingTo
      <3>6. CASE way[j] = "upgrade"
        <4>1. View(j)[r] = "none"
          BY <3>2, <3>4, <3>6 DEF Settled
        <4>2. First(way[j], r, View(j)[r]) = "part"
          BY <3>6, <4>1 DEF First
        <4> QED BY <1>3, <4>2 DEF Begin
      <3>7. CASE way[j] = "downgrade"
        <4>1. View(j)[r] = "full"
          BY <3>2, <3>5, <3>7 DEF Settled
        <4>2. First(way[j], r, View(j)[r]) = "part"
          BY <2>3, <3>1, <3>7, <4>1 DEF First
        <4> QED BY <1>3, <4>2 DEF Begin
      <3> QED BY <1>1, <3>6, <3>7 DEF Ways
    <2> QED BY <2>1, <2>2, <2>3
  <1>4. CASE Finish(j, r)
    BY <1>4 DEF Finish
  <1>5. CASE Stamp(j, r)
    <2>1. heads[j] = Rows(j)
      BY <1>1 DEF OnCourse
    <2>2. Gone(j, r) \subseteq Rows(j) /\ Come(j, r) \cap Rows(j) = {}
      BY <2>1 DEF Gone, Come
    <2> QED BY <1>5, <2>2 DEF Stamp
  <1> QED BY <1>2, <1>3, <1>4, <1>5

(* Every image knows every revision: no walk meets a row it cannot place. *)
FullImages == \A q \in Requests : q.cmd = "run" => q.image = Rev

LEMMA FailsStep ==
  ASSUME SettledInv, OrderlyScripts, FullImages, Faults \cap {"read", "statement", "drop"} = {},
         NEW j \in Jobs, Step(j)
  PROVE  outcome'[j] = "failed" => outcome[j] = "failed" \/ (req'[j] = req[j] /\ req[j].cmd # "run")
  <1> USE DEF SettledInv, ReachInv, WalkInv, TypeOK
  <1>1. CASE Start(j)
    BY <1>1 DEF Start
  <1>2. CASE Decide(j)
    BY <1>2 DEF Decide
  <1>3. CASE Redecide(j)
    BY <1>3 DEF Redecide
  <1>4. CASE BeginWalk(j)
    <2>1. pc[j] = "begin" /\ pc[j] \in UnderLock /\ pc[j] # "idle"
      BY <1>4 DEF BeginWalk, UnderLock
    <2>2. req[j] \in Requests /\ req[j].cmd = "run"
      BY <2>1 DEF AskedFor, Consented
    <2>3. stamped \subseteq req[j].image
      BY <2>2 DEF FullImages
    <2> QED BY <1>4, <2>3 DEF BeginWalk
  <1>5. CASE AcquireLock(j) \/ PollLock(j) \/ GiveUpLock(j) \/ Unlock(j) \/ Exit(j)
    BY <1>5 DEF AcquireLock, PollLock, GiveUpLock, Unlock, Exit
  <1>6. ASSUME NEW r \in plan[j], EnterBlock(j, r) \/ Begin(j, r) \/ Finish(j, r) \/ Stamp(j, r)
        PROVE  outcome' = outcome
    BY <1>6, NothingRaises
  <1>7. CASE CommitWalk(j)
    BY <1>7 DEF CommitWalk
  <1>8. ~DeadlockDetected(j)
    BY DEF DeadlockDetected, OneWalker, UnderLock
  <1>9. CASE Reap(j)
    BY <1>9 DEF Reap, ReapWalk, ReapLock, OrphanStatement
  <1>10. CASE Mishap(j)
    <2>1. /\ ~ReadFails(j) /\ ~StatementFails(j) /\ ~LockSessionDrops(j)
          /\ \A r \in plan[j] : ~StatementSwallowed(j, r)
      BY DEF ReadFails, StatementFails, LockSessionDrops, StatementSwallowed, Fault
    <2> QED BY <1>10, <2>1 DEF Mishap, LockFails, UnlockFails, Kill
  <1> QED BY <1>1, <1>2, <1>3, <1>4, <1>5, <1>6, <1>7, <1>8, <1>9, <1>10 DEF Step, Run, Walk

(***************************************************************************)
(* Where the faults are kills, failed lock calls and failed unlocks, no    *)
(* walk of orderly scripts fails: whatever earlier processes left behind   *)
(* when they were killed, the next one's scripts and bookkeeping get over  *)
(* it.                                                                     *)
(***************************************************************************)
THEOREM KillsNeverWedge ==
  ASSUME Faults \cap {"read", "statement", "drop"} = {}, OrderlyScripts, FullImages
  PROVE  Spec => []KillNeverWedges
  <1> DEFINE Fresh == \A j \in Jobs : pc[j] = "idle" => outcome[j] = "none"
  <1>1. Init => Fresh /\ KillNeverWedges
    BY DEF Init, KillNeverWedges
  <1>2. SettledInv /\ Fresh /\ KillNeverWedges /\ [Next]_vars => Fresh' /\ KillNeverWedges'
    <2> SUFFICES ASSUME SettledInv, Fresh, KillNeverWedges, [Next]_vars
                 PROVE  Fresh' /\ KillNeverWedges'
      OBVIOUS
    <2>1. CASE UNCHANGED vars
      BY <2>1 DEF vars, KillNeverWedges
    <2>2. CASE AllEnded
      BY <2>1, <2>2 DEF AllEnded
    <2>3. ASSUME NEW j \in Jobs, Step(j) PROVE Fresh' /\ KillNeverWedges'
      <3>0. TypeOK
        BY DEF SettledInv, ReachInv, WalkInv
      <3>1. ASSUME NEW k \in Jobs \ {j}
            PROVE  pc'[k] = pc[k] /\ req'[k] = req[k] /\ outcome'[k] = outcome[k]
        BY <2>3, <3>0, Frame, OutcomeStep
      <3>2. pc'[j] # "idle"
        BY <2>3, <3>0, OutcomeStep
      <3>3. outcome'[j] = "failed" => req'[j].cmd # "run"
        <4>1. pc[j] = "idle" \/ req'[j] = req[j]
          BY <2>3, <3>0, LifeStep
        <4>2. outcome'[j] = "failed" =>
                outcome[j] = "failed" \/ (req'[j] = req[j] /\ req[j].cmd # "run")
          BY <2>3, FailsStep
        <4> QED BY <4>1, <4>2 DEF KillNeverWedges
      <3> QED BY <3>1, <3>2, <3>3 DEF KillNeverWedges
    <2> QED BY <2>1, <2>2, <2>3 DEF Next, Step
  <1>3. "drop" \notin Faults
    OBVIOUS
  <1> QED BY <1>1, <1>2, <1>3, SettledCorrect, PTL DEF Spec

-----------------------------------------------------------------------------
(* What exit 0 says *)

(* Of rows none of which implies another, nothing is built on one. *)
LEMMA TopOfRows ==
  ASSUME NEW rows \in SUBSET Rev, Antichain(rows), NEW t \in rows
  PROVE  \A r \in Applied(rows) : t \in Anc[r] => r = t
  <1> SUFFICES ASSUME NEW r \in Applied(rows), t \in Anc[r] PROVE r = t
    OBVIOUS
  <1>1. PICK b \in rows : r \in Anc[b]
    BY DEF Applied
  <1>2. r \in Rev /\ b \in Rev /\ t \in Rev
    BY <1>1, AppliedBasics
  <1>3. t \in Anc[b]
    BY <1>1, <1>2, AncTransitive
  <1>4. b = t
    BY <1>3 DEF Antichain
  <1> QED BY <1>1, <1>2, <1>4, AncAntisymmetric

(* A process about to exit 0 found its target there or has just walked. *)
LEMMA UnlockMoves ==
  ASSUME TypeOK, NEW j \in Jobs, Step(j), pc'[j] = "unlock", ExitCode(outcome'[j]) = 0
  PROVE  /\ req'[j] = req[j]
         /\ \/ /\ stamped' = stamped /\ pc[j] = "reread"
               /\ \E row \in Readings :
                    Direction(req[j].image, row, Target(j)) = "converged"
            \/ CommitWalk(j)
  <1> USE DEF TypeOK
  <1>1. outcome'[j] \in {"converged", "walked", "dryrun"}
    BY DEF ExitCode
  <1>2. CASE Start(j)
    BY <1>2 DEF Start
  <1>3. CASE Decide(j)
    BY <1>3 DEF Decide
  <1>4. CASE Redecide(j)
    <2>1. pc[j] = "reread" /\ stamped' = stamped /\ req' = req
      BY <1>4 DEF Redecide
    <2>2. \E row \in Readings : Direction(req[j].image, row, Target(j)) = "converged"
      BY <1>1, <1>4 DEF Redecide
    <2> QED BY <2>1, <2>2
  <1>5. CASE AcquireLock(j) \/ PollLock(j) \/ GiveUpLock(j) \/ Unlock(j) \/ Exit(j)
    BY <1>5 DEF AcquireLock, PollLock, GiveUpLock, Unlock, Exit
  <1>6. CASE BeginWalk(j)
    BY <1>1, <1>6 DEF BeginWalk
  <1>7. ASSUME NEW r \in plan[j], EnterBlock(j, r) \/ Begin(j, r) \/ Finish(j, r) \/ Stamp(j, r)
        PROVE  FALSE
    <2>1. Raise(j) \/ Abandon(j)
      BY <1>7 DEF EnterBlock, Begin, Finish, Stamp
    <2> QED BY <1>1, <2>1 DEF Raise, Abandon
  <1>8. CASE CommitWalk(j)
    BY <1>8 DEF CommitWalk
  <1>9. ~DeadlockDetected(j) /\ ~StatementFails(j)
    BY <1>1 DEF DeadlockDetected, StatementFails, Raise
  <1>10. CASE Reap(j)
    BY <1>10 DEF Reap, ReapWalk, ReapLock, OrphanStatement, Zombies
  <1>11. CASE ReadFails(j) \/ LockFails(j) \/ UnlockFails(j) \/ LockSessionDrops(j) \/ Kill(j)
    BY <1>1, <1>11 DEF ReadFails, LockFails, UnlockFails, LockSessionDrops, Kill, Zombies, Walking
  <1>12. \A r \in plan[j] : ~StatementSwallowed(j, r)
    BY DEF StatementSwallowed
  <1> QED BY <1>2, <1>3, <1>4, <1>5, <1>6, <1>7, <1>8, <1>9, <1>10, <1>11, <1>12
        DEF Step, Run, Walk, Mishap

(* The lock passes from nobody to a process, or from it to nobody. *)
LEMMA LockMoves ==
  ASSUME TypeOK, NEW j \in Jobs, Step(j)
  PROVE  lock' \in {lock, j, Free}
  <1>1. CASE Start(j) \/ Decide(j) \/ Redecide(j) \/ BeginWalk(j)
    BY <1>1 DEF Start, Decide, Redecide, BeginWalk
  <1>2. CASE AcquireLock(j) \/ PollLock(j) \/ GiveUpLock(j) \/ Unlock(j) \/ Exit(j)
    BY <1>2 DEF AcquireLock, PollLock, GiveUpLock, Unlock, Exit
  <1>3. CASE Walk(j)
    BY <1>3 DEF Walk, EnterBlock, Begin, Finish, Stamp, CommitWalk, DeadlockDetected
  <1>4. CASE Reap(j)
    BY <1>4 DEF Reap, ReapWalk, ReapLock, OrphanStatement
  <1>5. CASE Mishap(j)
    BY <1>5 DEF Mishap, ReadFails, LockFails, StatementFails, StatementSwallowed,
                UnlockFails, LockSessionDrops, Kill
  <1> QED BY <1>1, <1>2, <1>3, <1>4, <1>5 DEF Step, Run

(* What stands in the way of walking up, found under the lock. *)
LEMMA NothingAbove ==
  ASSUME TypeOK, Antichain(stamped), NEW row \in Readings, NEW image, NEW t \in Rev,
         Direction(image, row, t) = "upgrade"
  PROVE  Above(t) \cap Applied(stamped) = {}
  <1>1. CASE row = NONE
    <2>1. stamped = {}
      BY <1>1, RevAssumption DEF Readings, TypeOK
    <2> QED BY <2>1 DEF Applied
  <1>2. CASE row # NONE
    <2>1. row \in stamped /\ row \in Anc[t] /\ row # t /\ row \in Rev
      BY <1>2 DEF Readings, Direction, IsAncestor, TypeOK
    <2> SUFFICES ASSUME NEW a \in Rev, t \in Anc[a] \ {a}, NEW b \in stamped, a \in Anc[b]
                 PROVE  FALSE
      BY DEF Above, Applied
    <2>2. b \in Rev /\ row \in Anc[b] /\ t \in Anc[b]
      BY <2>1, AncTransitive DEF TypeOK
    <2>3. row = b
      BY <2>1, <2>2 DEF Antichain
    <2> QED BY <2>1, <2>2, <2>3, AncAntisymmetric
  <1> QED BY <1>1, <1>2

LEMMA WayUpStep ==
  ASSUME TipsInv, ReachInv', Topping, NEW j \in Jobs, Step(j),
         NEW k \in Jobs, pc'[k] \in {"begin"} \cup Walking, way'[k] = "upgrade"
  PROVE  Above(Target(k)') \cap Applied(stamped') = {}
  <1> USE DEF TipsInv, ReachInv, WalkInv
  <1>1. CASE k # j
    <2>1. pc'[k] = pc[k] /\ way'[k] = way[k] /\ Target(k)' = Target(k)
      BY <1>1, Frame DEF Target
    <2>2. stamped' = stamped
      BY <1>1, <2>1, OthersWait DEF UnderLock
    <2> QED BY <2>1, <2>2 DEF Topping
  <1>2. CASE k = j /\ pc'[j] = "begin"
    <2>1. stamped' = stamped /\ Target(j)' = Target(j)
      BY <1>2, BeginMoves DEF Target
    <2>2. CASE Redecide(j)
      <3>1. PICK row \in Readings : way'[j] = Direction(req[j].image, row, Target(j))
        BY <1>2, <2>2 DEF Redecide, TypeOK
      <3>2. Target(j) \in Rev
        BY <2>2 DEF Redecide, TargetKnown, Alive
      <3>3. Above(Target(j)) \cap Applied(stamped) = {}
        BY <1>2, <3>1, <3>2, NothingAbove DEF TipsOnly
      <3> QED BY <1>2, <2>1, <3>3
    <2>3. CASE pc[j] = "begin" /\ way'[j] = way[j]
      BY <1>2, <2>1, <2>3 DEF Topping
    <2> QED BY <1>2, <2>2, <2>3, BeginMoves
  <1>3. CASE k = j /\ pc'[j] \in Walking
    <2>1. /\ pc[j] \in {"begin"} \cup Walking /\ way[j] = "upgrade"
          /\ Target(j)' = Target(j) /\ Target(j) \in Rev
      <3>1. CASE BeginWalk(j)
        BY <1>3, <3>1 DEF BeginWalk, Target, TargetKnown, Alive
      <3>2. ASSUME NEW r \in plan[j], Stamp(j, r)
            PROVE  /\ pc[j] \in {"begin"} \cup Walking /\ way[j] = "upgrade"
                   /\ Target(j)' = Target(j) /\ Target(j) \in Rev
        <4>1. pc[j] \in Walking /\ UNCHANGED <<way, req>>
          BY <1>3, <3>2, StampRows
        <4> QED BY <1>3, <4>1 DEF Target, TargetKnown, Alive
      <3>3. CASE pc[j] \in Walking /\ req'[j] = req[j] /\ way'[j] = way[j]
        BY <1>3, <3>3 DEF Target, TargetKnown, Alive
      <3> QED BY <1>3, <3>1, <3>2, <3>3, WalkMoves
    <2>2. Above(Target(j)) \cap Applied(stamped) = {}
      BY <2>1 DEF Topping
    <2>3. Applied(stamped') \subseteq Applied(stamped) \cup Anc[Target(j)]
      <3>1. CASE stamped' = stamped
        BY <3>1
      <3>2. CASE stamped' # stamped
        BY <2>1, <3>2, CommitsOnCourse
      <3> QED BY <3>1, <3>2
    <2>4. Above(Target(j)) \cap Anc[Target(j)] = {}
      BY <2>1, AncAntisymmetric DEF Above
    <2> QED BY <1>3, <2>1, <2>2, <2>3, <2>4
  <1> QED BY <1>1, <1>2, <1>3

(* A walk that ends has its target as a row. *)
LEMMA WalkedToTarget ==
  ASSUME TipsInv, Topping, NEW j \in Jobs, pc[j] = "step", plan[j] = {}
  PROVE  Target(j) \in heads[j]
  <1> USE DEF TipsInv, ReachInv, WalkInv
  <1>1. PICK t \in Rev : Target(j) = t
    BY DEF TargetKnown, Alive, Walking
  <1>2. pc[j] \in Walking /\ heads[j] \in SUBSET Rev /\ way[j] \in Ways
    BY DEF Walking, TypeOK
  <1>3. t \in Applied(heads[j])
    <2>1. CASE way[j] = "upgrade"
      BY <1>1, <1>2, <2>1, AncStep DEF Reaching
    <2>2. CASE way[j] = "downgrade"
      BY <1>1, <1>2, <2>2 DEF Reaching, OnCourse, SinkingTo, Above
    <2> QED BY <1>2, <2>1, <2>2 DEF Ways
  <1>4. PICK b \in heads[j] : t \in Anc[b]
    BY <1>3 DEF Applied
  <1>5. b \in Rev /\ b \in Applied(heads[j])
    BY <1>2, AppliedBasics
  <1>6. b = t
    <2>1. CASE way[j] = "upgrade"
      <3>1. Above(t) \cap Applied(stamped) = {}
        BY <1>1, <1>2, <2>1 DEF Topping
      <3>2. b \in Applied(stamped) \/ b \in Anc[t]
        BY <1>1, <1>2, <1>5, <2>1 DEF OnCourse, RisingTo
      <3> QED BY <1>4, <1>5, <3>1, <3>2, AncAntisymmetric DEF Above
    <2>2. CASE way[j] = "downgrade"
      BY <1>1, <1>2, <1>4, <1>5, <2>2 DEF Reaching, Above
    <2> QED BY <1>2, <2>1, <2>2 DEF Ways
  <1> QED BY <1>1, <1>6

LEMMA AtTheTopStep ==
  ASSUME TipsInv, TipsInv', Topping, BlocksOnly, NEW j \in Jobs, Step(j),
         NEW k \in Jobs, pc'[k] = "unlock", lock' = k, ExitCode(outcome'[k]) = 0
  PROVE  AtTheTop(k)'
  <1> USE DEF TipsInv, ReachInv, WalkInv
  <1>1. CASE k # j
    <2>1. pc[k] = "unlock" /\ Target(k)' = Target(k) /\ outcome'[k] = outcome[k]
      BY <1>1, Frame, OutcomeStep DEF Target
    <2>2. lock = k
      BY <1>1, LockMoves, JobsAssumption
    <2>3. stamped' = stamped
      <3>1. pc[j] \notin Walking
        BY <1>1, <2>2 DEF OneWalker, UnderLock
      <3> QED BY <3>1, CommitsOnCourse
    <2>4. AtTheTop(k)
      BY <2>1, <2>2 DEF Topping
    <2> QED BY <2>1, <2>3, <2>4 DEF AtTheTop
  <1>2. CASE k = j
    <2>1. Target(j)' = Target(j)
      BY <1>2, UnlockMoves DEF Target
    <2>2. Target(j) \in stamped'
      <3>1. CASE CommitWalk(j)
        <4>1. pc[j] = "step" /\ plan[j] = {} /\ mode[j] = "txn" /\ pc[j] \in Walking
          BY <3>1 DEF CommitWalk, BlocksOnly, Walking
        <4>2. stamped' = heads[j]
          BY <3>1, <4>1 DEF CommitWalk, CommitWith, OnCourse
        <4> QED BY <4>1, <4>2, WalkedToTarget
      <3>2. ASSUME stamped' = stamped, pc[j] = "reread", NEW row \in Readings,
                   Direction(req[j].image, row, Target(j)) = "converged"
            PROVE  Target(j) \in stamped'
        <4>1. row = Target(j) /\ row # NONE
          BY <3>2 DEF Direction
        <4> QED BY <3>2, <4>1 DEF Readings
      <3> QED BY <1>2, <3>1, <3>2, UnlockMoves
    <2>3. stamped' \in SUBSET Rev /\ Antichain(stamped')
      BY DEF TypeOK, TipsOnly
    <2>4. \A r \in Applied(stamped') : Target(j) \in Anc[r] => r = Target(j)
      BY <2>2, <2>3, TopOfRows
    <2> QED BY <1>2, <2>1, <2>2, <2>4 DEF AtTheTop
  <1> QED BY <1>1, <1>2

(***************************************************************************)
(* Of plain scripts and those that run in autocommit_block: a process that *)
(* is about to exit 0 and still holds the lock has its target stamped and  *)
(* nothing applied that is built on it.                                    *)
(***************************************************************************)
THEOREM ToppingCorrect ==
  ASSUME "drop" \notin Faults, NoOwnCommits, ShortcutsImplied, StampsAreTips
  PROVE  Spec => []Topping
  <1>1. Init => BlocksOnly /\ Topping
    BY DEF Init, BlocksOnly, Topping, Walking
  <1>2. TipsInv /\ BlocksOnly /\ [Next]_vars => BlocksOnly'
    BY BlocksOnlyStep DEF TipsInv, ReachInv, WalkInv
  <1>3. TipsInv /\ TipsInv' /\ BlocksOnly /\ Topping /\ [Next]_vars => Topping'
    <2> SUFFICES ASSUME TipsInv, TipsInv', BlocksOnly, Topping, [Next]_vars PROVE Topping'
      OBVIOUS
    <2>1. CASE UNCHANGED vars
      BY <2>1 DEF vars, Topping, AtTheTop, Target
    <2>2. CASE AllEnded
      BY <2>1, <2>2 DEF AllEnded
    <2>3. ASSUME NEW j \in Jobs, Step(j) PROVE Topping'
      BY <2>3, WayUpStep, AtTheTopStep DEF Topping, TipsInv
    <2> QED BY <2>1, <2>2, <2>3 DEF Next, Step
  <1> QED BY <1>1, <1>2, <1>3, TipsCorrect, PTL DEF Spec

LEMMA TopIsApplied ==
  ASSUME TypeOK, NEW j \in Jobs, AtTheTop(j)
  PROVE  Anc[Target(j)] \subseteq Applied(stamped) /\ Applied(stamped) \subseteq Rev
  BY AppliedBasics DEF AtTheTop, Applied, TypeOK

(***************************************************************************)
(* What exit 0 tells Argo, of scripts that leave alembic's transaction     *)
(* alone: the target is stamped, nothing built on it is, and it and what   *)
(* it stands on are really in the schema.                                  *)
(***************************************************************************)
THEOREM ExitZeroConverged ==
  ASSUME "drop" \notin Faults, AllPlainScripts, OrderlyScripts,
         ShortcutsImplied, StampsAreTips
  PROVE  Spec => []ExitZeroMeansConverged
  <1>1. TypeOK /\ Topping /\ SchemaMatchesStamp => ExitZeroMeansConverged
    <2> SUFFICES ASSUME TypeOK, Topping, SchemaMatchesStamp, NEW j \in Jobs,
                        pc[j] = "unlock", lock = j, ExitCode(outcome[j]) = 0
                 PROVE  AtTheTop(j) /\ \A r \in Anc[Target(j)] : schema[r] = "full"
      BY DEF ExitZeroMeansConverged, AtTheTop
    <2>1. AtTheTop(j)
      BY DEF Topping
    <2> QED BY <2>1, TopIsApplied DEF SchemaMatchesStamp
  <1>2. NoOwnCommits
    BY DEF OrderlyScripts
  <1> QED BY <1>1, <1>2, TypeCorrect, ToppingCorrect, SchemaAlwaysMatches, PTL
=============================================================================
