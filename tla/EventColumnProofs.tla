------------------------- MODULE EventColumnProofs -------------------------
(***************************************************************************)
(* No alert loses its event, for any number of alerts, any size of batch   *)
(* and any number of kills.                                                *)
(***************************************************************************)
EXTENDS EventColumn, FiniteSetTheorems, TLAPS

(* A table lock leaves no transaction of the application on the table. *)
LockedOut == locked => held = {}

(* Until the first conn.commit() the walk holds the lock of its ALTER. *)
LockKept == mode = "txn" /\ pc \in {"loop", "commit", "drop", "end"} => locked

(* Behind the loop, and no commit by hand: there was nothing to copy. *)
NothingLeft ==
  mode = "txn" /\ pc \in {"drop", "end"} => \A a \in Alerts : row[a] # "raw"

(* The inductive invariant. *)
EventInv == TypeOK /\ LockedOut /\ LockKept /\ NothingLeft /\ EventKept

(* An empty batch means that no free row was left. *)
LEMMA EmptyBatch ==
  ASSUME Takes({})
  PROVE  Free = {}
<1>1. IsFiniteSet(Free)
  BY EventAssumption, FS_Subset DEF Free
<1>2. Cardinality({}) = 0
  BY FS_EmptySet
<1>3. Cardinality(Free) \in Nat /\ (Cardinality(Free) = 0 <=> Free = {})
  BY <1>1, FS_CardinalityType, FS_EmptySet
<1> QED
  BY <1>2, <1>3, EventAssumption DEF Takes

LEMMA EventInit == Init => EventInv
<1> SUFFICES ASSUME Init PROVE EventInv
  OBVIOUS
<1>1. TypeOK
  <2>1. row \in [Alerts -> {"none", "raw", "copied"}]
    BY DEF Init
  <2>2. kills \in 0..MaxKills
    BY EventAssumption DEF Init
  <2>3. event \in BOOLEAN /\ locked \in BOOLEAN
    BY Zenon DEF Init
  <2> QED
    BY <2>1, <2>2, <2>3 DEF Init, TypeOK, Labels
<1>2. LockedOut /\ LockKept /\ NothingLeft /\ EventKept
  BY DEF Init, LockedOut, LockKept, NothingLeft, EventKept
<1> QED
  BY <1>1, <1>2 DEF EventInv

LEMMA EventStep == EventInv /\ [Next]_vars => EventInv'
<1> SUFFICES ASSUME EventInv, [Next]_vars PROVE EventInv'
  OBVIOUS
<1> USE DEF EventInv, TypeOK, LockedOut, LockKept, NothingLeft, EventKept, Labels
<1>1. ASSUME NEW a \in Alerts, Touch(a) PROVE EventInv'
  BY <1>1 DEF Touch
<1>2. ASSUME NEW a \in Alerts, Release(a) PROVE EventInv'
  BY <1>2 DEF Release
<1>3. CASE Start
  BY <1>3 DEF Start
<1>4. CASE Alter
  BY <1>4 DEF Alter
<1>5. CASE CopyBatch
  <2>1. PICK b \in SUBSET Alerts :
          /\ Takes(b) /\ batch' = b
          /\ pc' = IF b = {} THEN "drop" ELSE "commit"
    BY <1>5 DEF CopyBatch
  <2>2. b = {} /\ mode = "txn" => \A a \in Alerts : row[a] # "raw"
    BY <2>1, <1>5, EmptyBatch DEF CopyBatch, Free
  <2> QED
    BY <1>5, <2>1, <2>2 DEF CopyBatch
<1>6. CASE Commit
  BY <1>6 DEF Commit, Copied
<1>7. CASE Drop
  BY <1>7 DEF Drop
<1>8. CASE End
  BY <1>8 DEF End
<1>9. CASE Kill
  <2>1. row' \in [Alerts -> {"none", "raw", "copied"}]
        /\ \A a \in Alerts : row'[a] = "raw" => row[a] = "raw"
    BY <1>9 DEF Kill, Copied
  <2>2. kills' \in 0..MaxKills
    BY <1>9, EventAssumption DEF Kill
  <2>3. pc' = "idle" /\ batch' = {} /\ locked' = FALSE /\ held' = held
        /\ event' = event /\ stamped' = stamped /\ mode' = mode
    BY <1>9 DEF Kill
  <2>4. TypeOK'
    BY <2>1, <2>2, <2>3
  <2>5. EventKept'
    BY <2>1, <2>3
  <2> QED
    BY <2>3, <2>4, <2>5
<1>10. CASE UNCHANGED vars
  BY <1>10 DEF vars
<1> QED
  BY <1>1, <1>2, <1>3, <1>4, <1>5, <1>6, <1>7, <1>8, <1>9, <1>10 DEF Next, Process

(* The inductive invariant holds: the lock of the ALTER outlasts the loop. *)
THEOREM EventCorrect == Spec => []EventInv
  BY EventInit, EventStep, PTL DEF Spec

(***************************************************************************)
(* 2b4dd4b88121 never drops what 5dfe012ad560 has not copied, though its   *)
(* loop skips locked rows.                                                 *)
(***************************************************************************)
THEOREM EventNeverLost == Spec => []EventKept
  BY EventCorrect, PTL DEF EventInv

(* Every variable keeps its type. *)
THEOREM EventTypes == Spec => []TypeOK
  BY EventCorrect, PTL DEF EventInv
=============================================================================
