--------------------------- MODULE BackfillProofs ---------------------------
(***************************************************************************)
(* No row is left behind by c3d4e5f6a7b8, no note of an alert is lost and  *)
(* nothing a user said by c4d5e6f7a8b9: for any tables, any size of page   *)
(* and any number of writes, kills, rollbacks and releases.                *)
(***************************************************************************)
EXTENDS Backfill, FiniteSetTheorems, WellFoundedInduction, TLAPS

-----------------------------------------------------------------------------
(* Pages *)

(* A set of keys that is not empty has a first one. *)
LEMMA FirstOf ==
  ASSUME NEW T, T \subseteq Nat, T # {}
  PROVE  \E k \in T : \A j \in T : k <= j
<1>1. \E k \in T : \A j \in T : ~(<<j, k>> \in OpToRel(<, Nat))
  BY WFMin, NatLessThanWellFounded, Zenon
<1>2. PICK k \in T : \A j \in T : ~(<<j, k>> \in OpToRel(<, Nat))
  BY <1>1
<1>3. ASSUME NEW j \in T PROVE ~(j < k)
  BY <1>2 DEF OpToRel
<1> QED
  BY <1>3

(* An empty page means that the table has nothing past the cursor. *)
LEMMA EmptyPage ==
  ASSUME NEW table, table \subseteq Nat, cursor \in Nat,
         Page(table) = {}
  PROVE  \A k \in table : k <= cursor
<1> DEFINE Rest == {k \in table : k > cursor}
<1>1. SUFFICES ASSUME Rest # {} PROVE FALSE
  BY SMT
<1>2. Rest \subseteq Nat
  OBVIOUS
<1>3. PICK k \in Rest : \A j \in Rest : k <= j
  <2> HIDE DEF Rest
  <2> QED
    BY <1>1, <1>2, FirstOf
<1>4. {j \in table : cursor < j /\ j < k} = {}
  BY <1>2, <1>3
<1>5. Cardinality({j \in table : cursor < j /\ j < k}) < Batch
  BY <1>4, FS_EmptySet, KeysAssumption
<1> QED
  BY <1>3, <1>5 DEF Page

-----------------------------------------------------------------------------
(* The inductive invariant *)

(* What the loops are in the middle of. *)
Course ==
  /\ pc \in {"select", "update", "apply"} => way = "upgrade" /\ stamped \in {1, 2}
  /\ pc = "stamp" => stamped \in IF way = "upgrade" THEN {1, 2} ELSE {2, 3}
  /\ torn => stamped >= 2

(* The row k is one that c3d4e5f6a7b8 is past. *)
Covered(k) ==
  \/ stamped >= 2
  \/ /\ way = "upgrade" /\ stamped = 1
     /\ \/ pc = "stamp"
        \/ pc \in {"select", "update", "apply"} /\ k <= cursor

CoveredFit ==
  \A k \in Keys \ moved : Covered(k) /\ ~torn => last[k].tracking = last[k].alert

(* An UPDATE under way sees the alerts there are, but for those moved since. *)
SnapshotFits ==
  pc = "apply" /\ stamped = 1 =>
    \A k \in Keys \ moved : InPage(k) => seen[k] = last[k].alert

(* What is not there has no counters. *)
AbsentFits == \A k \in Keys : last[k].alert = 0 => last[k].tracking = 0

TrackingInv == TypeOK /\ Course /\ CoveredFit /\ SnapshotFits /\ AbsentFits

(* A row c3d4e5f6a7b8 is past keeps a note and an assignee, whoever's they are. *)
NotesKept ==
  \A k \in Keys \ moved :
    Covered(k) /\ ~torn /\ last[k].alert # 0 =>
      last[k].note # "null" /\ last[k].assignee # "null"

(* c4d5e6f7a8b9 is past the enrichment i. *)
Heard(i) ==
  \/ stamped = 3
  \/ /\ way = "upgrade" /\ stamped = 2
     /\ \/ pc = "stamp"
        \/ pc \in {"select", "update", "apply"} /\ i <= cursor

(* A fingerprint has one row of alertenrichment at most. *)
OneEnrichment == \A i, j \in Ids : i # j /\ enr[i].key = enr[j].key => enr[i].key = 0

(* No enrichment a snapshot has goes away, or to another alert. *)
SaidStays ==
  pc = "apply" => \A i \in Ids : said[i].key # 0 => enr[i].key = said[i].key

(* The enrichments that c4d5e6f7a8b9 has to do with: none the user wrote late. *)
Due(i) == enr[i].key # 0 /\ enr[i].key \notin late /\ last[enr[i].key].alert # 0

(* An UPDATE under way sees those of its page as they are. *)
SaidFits ==
  pc = "apply" /\ stamped = 2 =>
    \A i \in Ids : InPage(i) /\ Due(i) => said[i] = enr[i] /\ seen[enr[i].key] # 0

HeardFollowed ==
  \A i \in Ids : Heard(i) /\ Due(i) => Follows(last[enr[i].key], enr[i].facts)

OverrideInv ==
  TypeOK /\ Course /\ OneEnrichment /\ SaidStays /\ SaidFits /\ HeardFollowed

-----------------------------------------------------------------------------
(* Neither script makes a row that fits one that does not. *)
LEMMA UpdatedRows ==
  ASSUME TypeOK
  PROVE  /\ Updated \in [Keys -> Row]
         /\ \A k \in Keys :
              /\ Updated[k].alert = last[k].alert
              /\ Updated[k].tracking \in {last[k].tracking, last[k].alert}
         /\ Crossing = 2 => \A k \in Keys :
              InPage(k) /\ seen[k] # 0 /\ seen[k] = last[k].alert
                => Updated[k].tracking = last[k].alert
<1>1. ASSUME NEW k \in Keys
      PROVE  /\ Copy(last[k]) \in Row
             /\ Copy(last[k]).alert = last[k].alert
             /\ Copy(last[k]).tracking = last[k].alert
  <2>1. last[k] \in Row
    BY DEF TypeOK
  <2> QED
    BY <2>1 DEF Copy, Row
<1>2. ASSUME NEW k \in Keys, NEW f
      PROVE  /\ Override(last[k], f) \in Row
             /\ Override(last[k], f).alert = last[k].alert
             /\ Override(last[k], f).tracking = last[k].tracking
  <2> DEFINE r == last[k]
             status == IF "status" \in f THEN "user"
                       ELSE IF "noStatus" \in f THEN "emptied"
                       ELSE IF f \cap Dismissal # {} THEN "suppressed" ELSE r.status
             mode == IF f \cap Until # {} THEN "until"
                     ELSE IF "dismissed" \in f THEN "permanent" ELSE r.mode
             until == r.until \/ "until" \in f
             assignee == IF "assignee" \in f THEN "user"
                         ELSE IF "noAssignee" \in f THEN "emptied" ELSE r.assignee
             note == IF "note" \in f THEN "user" ELSE r.note
  <2>1. r \in Row
    BY DEF TypeOK
  <2>2. /\ status \in {"null", "suppressed", "user", "emptied"}
        /\ mode \in {"null", "until", "permanent"}
        /\ assignee \in {"null", "alert", "user", "emptied"}
        /\ note \in {"null", "alert", "user"}
    BY <2>1 DEF Row
  <2>3. until \in BOOLEAN
    BY Zenon
  <2>4. Override(r, f) = [r EXCEPT !.status = status, !.mode = mode, !.until = until,
                                   !.assignee = assignee, !.note = note]
    BY Zenon DEF Override
  <2> HIDE DEF r, status, mode, until, assignee, note
  <2>5. /\ Override(r, f) \in Row
        /\ Override(r, f).alert = r.alert
        /\ Override(r, f).tracking = r.tracking
    BY <2>1, <2>2, <2>3, <2>4 DEF Row
  <2> QED
    BY <2>5 DEF r
<1>3. ASSUME Crossing = 2
      PROVE  Updated = [k \in Keys |-> IF InPage(k) /\ seen[k] # 0 /\ seen[k] = last[k].alert
                                       THEN Copy(last[k]) ELSE last[k]]
  BY <1>3 DEF Updated, Copied
<1>4. ASSUME Crossing # 2
      PROVE  Updated = Overridden
  BY <1>4 DEF Updated
<1>5. last \in [Keys -> Row]
  BY DEF TypeOK
<1>6. CASE Crossing = 2
  BY <1>1, <1>3, <1>5, <1>6
<1>7. CASE Crossing # 2
  <2>1. ASSUME NEW k \in Keys
        PROVE  \/ Overridden[k] = last[k]
               \/ \E f : Overridden[k] = Override(last[k], f)
    BY DEF Overridden
  <2>2. Overridden = [k \in Keys |-> Overridden[k]]
    BY DEF Overridden
  <2>3. ASSUME NEW k \in Keys
        PROVE  Overridden[k] \in Row /\ Overridden[k].alert = last[k].alert
               /\ Overridden[k].tracking = last[k].tracking
    BY <1>2, <1>5, <2>1
  <2> QED
    BY <1>4, <1>7, <2>2, <2>3
<1> QED
  BY <1>6, <1>7

(* What the columns hold after they come or are reset, and of a moved row. *)
LEMMA OtherRows ==
  ASSUME NEW row \in Row, NEW a \in 0..MaxAlerts
  PROVE  /\ Fresh(a) \in Row /\ Fresh(a).alert = a /\ Fresh(a).tracking = 0
         /\ Reset(row) \in Row /\ Reset(row).alert = row.alert /\ Reset(row).tracking = 0
         /\ [row EXCEPT !.alert = a] \in Row /\ [row EXCEPT !.alert = a].alert = a
         /\ [row EXCEPT !.alert = a].tracking = row.tracking
<1>1. Fresh(a) \in Row /\ Fresh(a).alert = a /\ Fresh(a).tracking = 0
  BY ApplicationAssumption DEF Fresh, Row
<1>2. Reset(row) \in Row /\ Reset(row).alert = row.alert /\ Reset(row).tracking = 0
  <2>1. 0 \in 0..MaxAlerts
    BY ApplicationAssumption
  <2> QED
    BY <2>1 DEF Reset, Row
<1>3. [row EXCEPT !.alert = a] \in Row /\ [row EXCEPT !.alert = a].alert = a
      /\ [row EXCEPT !.alert = a].tracking = row.tracking
  BY DEF Row
<1> QED
  BY <1>1, <1>2, <1>3

(* What Receive(k) makes of the table. *)
LEMMA ReceivedRows ==
  ASSUME TypeOK, NEW k \in Keys, Receive(k)
  PROVE  /\ last' \in [Keys -> Row]
         /\ last'[k].alert # 0
         /\ \A j \in Keys \ {k} : last'[j] = last[j]
<1>1. last[k] \in Row /\ received + 1 \in 0..MaxAlerts /\ received + 1 # 0
  BY ApplicationAssumption DEF TypeOK, Receive
<1>2. ASSUME NEW row
      PROVE  [last EXCEPT ![k] = row] = [j \in Keys |-> IF j = k THEN row ELSE last[j]]
  BY DEF TypeOK
<1>3. CASE last[k].alert = 0
  <2> DEFINE row == Fresh(received + 1)
  <2>1. row \in Row /\ row.alert = received + 1
    BY <1>1, OtherRows
  <2>2. last' = [j \in Keys |-> IF j = k THEN row ELSE last[j]]
    BY <1>2, <1>3 DEF Receive
  <2> HIDE DEF row
  <2> QED
    BY <1>1, <2>1, <2>2 DEF TypeOK
<1>4. CASE last[k].alert # 0
  <2> DEFINE row == [last[k] EXCEPT !.alert = received + 1]
  <2>1. row \in Row /\ row.alert = received + 1
    BY <1>1, OtherRows
  <2>2. last' = [j \in Keys |-> IF j = k THEN row ELSE last[j]]
    BY <1>2, <1>4 DEF Receive
  <2> HIDE DEF row
  <2> QED
    BY <1>1, <2>1, <2>2 DEF TypeOK
<1> QED
  BY <1>3, <1>4

-----------------------------------------------------------------------------
(* Types *)

LEMMA TypeInit == Init => TypeOK
<1> SUFFICES ASSUME Init PROVE TypeOK
  OBVIOUS
<1>1. last \in [Keys -> Row]
  <2>1. PICK present \in SUBSET Keys :
          last = [k \in Keys |-> Fresh(IF k \in present THEN 1 ELSE 0)]
    BY DEF Init
  <2>2. \A a \in {0, 1} : Fresh(a) \in Row
    BY ApplicationAssumption DEF Fresh, Row
  <2> QED
    BY <2>1, <2>2
<1>2. enr \in [Ids -> Enrichment]
  <2>1. PICK present \in SUBSET Keys :
          \E key \in [Ids -> present \cup {0}], facts \in Sayings :
            enr = [i \in Ids |-> IF key[i] = 0 THEN Nothing
                                 ELSE [key |-> key[i], facts |-> facts]]
    BY DEF Init
  <2>2. PICK key \in [Ids -> present \cup {0}], facts \in Sayings :
          enr = [i \in Ids |-> IF key[i] = 0 THEN Nothing
                               ELSE [key |-> key[i], facts |-> facts]]
    BY <2>1
  <2> QED
    BY <2>2, ApplicationAssumption DEF Enrichment, Nothing
<1>3. cursor \in Nat /\ upto \in Nat /\ seen \in [Keys -> 0..MaxAlerts]
      /\ said \in [Ids -> Enrichment]
  BY ApplicationAssumption DEF Init, NothingSeen, Nothing, Enrichment
<1>4. /\ received \in 0..MaxAlerts
      /\ writes \in 0..MaxWrites /\ runs \in 0..MaxRuns /\ kills \in 0..MaxKills
  BY ApplicationAssumption DEF Init
<1>5. /\ stamped \in 0..3 /\ goal \in 0..3 /\ way \in {"upgrade", "downgrade"}
      /\ pc \in Labels
      /\ moved \in SUBSET Keys /\ late \in SUBSET Keys
  BY DEF Init, Labels
<1>6. torn \in BOOLEAN
  BY Zenon DEF Init
<1> QED
  BY <1>1, <1>2, <1>3, <1>4, <1>5, <1>6 DEF TypeOK

LEMMA TypeStep ==
  ASSUME TypeOK, Course, [Next]_vars
  PROVE  TypeOK'
<1> USE KeysAssumption, ApplicationAssumption
<1>0. ASSUME Idle
      PROVE  /\ pc' \in Labels /\ cursor' \in Nat /\ upto' \in Nat
             /\ seen' \in [Keys -> 0..MaxAlerts] /\ said' \in [Ids -> Enrichment]
  BY <1>0 DEF Idle, Labels, Nothing, Enrichment
<1>1. ASSUME NEW t \in Targets, Start(t) PROVE TypeOK'
  BY <1>1 DEF Start, TypeOK, app, page, past, Labels
<1>2. CASE End
  BY <1>0, <1>2 DEF End, TypeOK, app, past
<1>3. CASE Columns
  <2>1. last' \in [Keys -> Row]
    <3>1. ASSUME NEW k \in Keys PROVE Fresh(last[k].alert) \in Row
      <4>1. last[k] \in Row
        BY DEF TypeOK
      <4>2. last[k].alert \in 0..MaxAlerts
        BY <4>1 DEF Row
      <4> QED
        BY <4>1, <4>2, OtherRows
    <3> QED
      BY <1>3, <3>1 DEF Columns
  <2> QED
    BY <1>3, <2>1 DEF Columns, TypeOK, app, page, past
<1>4. CASE EnterLoop
  BY <1>4 DEF EnterLoop, TypeOK, app, Labels
<1>5. CASE Select
  <2>1. upto' \in Nat
    <3>1. Page(Table) \subseteq Nat
      BY DEF Page, Table
    <3> QED
      BY <1>5, <3>1 DEF Select, TypeOK
  <2> QED
    BY <1>5, <2>1 DEF Select, TypeOK, app, past, Labels
<1>6. CASE UpdateStarts
  <2>1. seen' \in [Keys -> 0..MaxAlerts]
    <3>1. ASSUME NEW k \in Keys PROVE last[k].alert \in 0..MaxAlerts
      <4>1. last[k] \in Row
        BY DEF TypeOK
      <4> QED
        BY <4>1 DEF Row
    <3> QED
      BY <1>6, <3>1 DEF UpdateStarts
  <2> QED
    BY <1>6, <2>1 DEF UpdateStarts, TypeOK, app, past, Labels
<1>7. CASE UpdateEnds
  <2>1. last' \in [Keys -> Row]
    BY <1>7, UpdatedRows DEF UpdateEnds
  <2> QED
    BY <1>7, <2>1 DEF UpdateEnds, TypeOK, app, past, Labels
<1>8. CASE Undo
  <2>1. last' \in [Keys -> Row]
    <3>1. ASSUME NEW k \in Keys PROVE Reset(last[k]) \in Row
      <4>1. last[k] \in Row
        BY DEF TypeOK
      <4>2. 0 \in 0..MaxAlerts
        OBVIOUS
      <4> QED
        BY <4>1, <4>2, OtherRows
    <3> QED
      BY <1>8, <3>1 DEF Undo, TypeOK
  <2> QED
    BY <1>8, <2>1 DEF Undo, TypeOK, app, page, past, Labels
<1>9. CASE Stamp
  <2>1. stamped' \in 0..3
    BY <1>9 DEF Stamp, Course, TypeOK
  <2>2. torn' \in BOOLEAN
    BY <1>9, Zenon DEF Stamp
  <2> QED
    BY <1>9, <2>1, <2>2 DEF Stamp, TypeOK, app, page, past, Labels
<1>10. CASE Kill
  <2>1. last' \in [Keys -> Row]
    BY <1>10, UpdatedRows DEF Kill, TypeOK
  <2> QED
    BY <1>0, <1>10, <2>1 DEF Kill, TypeOK, app, past
<1>11. ASSUME NEW k \in Keys, Receive(k) PROVE TypeOK'
  <2>1. last' \in [Keys -> Row]
    BY <1>11, ReceivedRows
  <2>2. moved' \in SUBSET Keys /\ late' \in SUBSET Keys
    BY <1>11 DEF Receive, TypeOK
  <2> QED
    BY <1>11, <2>1, <2>2 DEF Receive, TypeOK, page
<1>12. ASSUME NEW k \in Keys, NEW f \in Sayings, Enrich(k, f) PROVE TypeOK'
  <2>1. enr' \in [Ids -> Enrichment]
    <3>1. [key |-> k, facts |-> f] \in Enrichment
      BY DEF Enrichment
    <3> QED
      BY <1>12, <3>1 DEF Enrich, TypeOK
  <2>2. late' \in SUBSET Keys
    BY <1>12 DEF Enrich, TypeOK
  <2> QED
    BY <1>12, <2>1, <2>2 DEF Enrich, TypeOK, page
<1>13. CASE UpdateRaises
  BY <1>0, <1>13 DEF UpdateRaises, TypeOK, app, past
<1>14. CASE UNCHANGED vars
  BY <1>14 DEF vars, app, page, past, TypeOK
<1> QED
  BY <1>1, <1>2, <1>3, <1>4, <1>5, <1>6, <1>7, <1>8, <1>9, <1>10, <1>11, <1>12, <1>13, <1>14
     DEF Next, Process, Application

-----------------------------------------------------------------------------
(* The rest of the invariant *)

LEMMA CourseStep ==
  ASSUME TypeOK, Course, [Next]_vars
  PROVE  Course'
<1>1. ASSUME NEW t \in Targets, Start(t) PROVE Course'
  BY <1>1 DEF Start, Course, TypeOK
<1>2. CASE End
  BY <1>2 DEF End, Idle, Course
<1>3. CASE Columns
  BY <1>3 DEF Columns, Crossing, Course, TypeOK
<1>4. CASE EnterLoop
  BY <1>4 DEF EnterLoop, Crossing, Course, TypeOK
<1>5. CASE Select
  BY <1>5 DEF Select, Course
<1>6. CASE UpdateStarts
  BY <1>6 DEF UpdateStarts, Course
<1>7. CASE UpdateEnds
  BY <1>7 DEF UpdateEnds, Course
<1>8. CASE Undo
  BY <1>8 DEF Undo, Crossing, Course, TypeOK
<1>9. CASE Stamp
  <2>1. torn' => torn /\ ~(way = "downgrade" /\ stamped = 2)
    BY <1>9, Zenon DEF Stamp
  <2>2. torn' => stamped' >= 2
    BY <1>9, <2>1 DEF Stamp, Course, TypeOK
  <2> QED
    BY <1>9, <2>2 DEF Stamp, Course
<1>10. CASE Kill
  BY <1>10 DEF Kill, Idle, Course
<1>11. ASSUME NEW k \in Keys, Receive(k) PROVE Course'
  BY <1>11 DEF Receive, Course
<1>12. ASSUME NEW k \in Keys, NEW f \in Sayings, Enrich(k, f) PROVE Course'
  BY <1>12 DEF Enrich, Course
<1>13. CASE UpdateRaises
  BY <1>13 DEF UpdateRaises, Idle, Course
<1>14. CASE UNCHANGED vars
  BY <1>14 DEF vars, Course
<1> QED
  BY <1>1, <1>2, <1>3, <1>4, <1>5, <1>6, <1>7, <1>8, <1>9, <1>10, <1>11, <1>12, <1>13, <1>14
     DEF Next, Process, Application

(* Whoever writes a row, one that is not there keeps its defaults. *)
LEMMA AbsentStep ==
  ASSUME TypeOK, AbsentFits, [Next]_vars
  PROVE  AbsentFits'
<1> USE DEF AbsentFits
<1>1. CASE UNCHANGED last
  BY <1>1
<1>2. CASE Columns
  <2>1. ASSUME NEW k \in Keys PROVE last'[k].tracking = 0
    BY <1>2 DEF Columns, Fresh
  <2> QED
    BY <2>1
<1>3. CASE last' = Updated
  BY <1>3, UpdatedRows
<1>4. CASE Undo
  <2>1. CASE last' = [k \in Keys |-> Reset(last[k])]
    <3>1. ASSUME NEW k \in Keys PROVE last'[k].tracking = 0
      <4>1. last[k] \in Row /\ 0 \in 0..MaxAlerts
        BY ApplicationAssumption DEF TypeOK
      <4> QED
        BY <2>1, <4>1, OtherRows
    <3> QED
      BY <3>1
  <2> QED
    BY <1>1, <1>4, <2>1 DEF Undo
<1>5. ASSUME NEW k \in Keys, Receive(k) PROVE AbsentFits'
  BY <1>5, ReceivedRows
<1> QED
  BY <1>1, <1>2, <1>3, <1>4, <1>5
     DEF Next, Process, Application, Start, End, EnterLoop, Select, UpdateStarts, UpdateEnds,
         UpdateRaises, Stamp, Kill, Enrich, vars

LEMMA SnapshotStep ==
  ASSUME TypeOK, Course, SnapshotFits, [Next]_vars
  PROVE  SnapshotFits'
<1>1. CASE pc' # "apply"
  BY <1>1 DEF SnapshotFits
<1>2. CASE UpdateStarts
  BY <1>2 DEF UpdateStarts, SnapshotFits
<1>3. ASSUME NEW k \in Keys, Receive(k), pc' = "apply" PROVE SnapshotFits'
  <2>1. /\ pc = "apply" /\ UNCHANGED <<pc, stamped, cursor, upto, seen, way>>
        /\ moved \subseteq moved'
    BY <1>3 DEF Receive, page
  <2>2. ASSUME stamped = 1, InPage(k) PROVE k \in moved'
    BY <1>3, <2>1, <2>2 DEF Receive, Passed, Crossing, InPage, Course
  <2> QED
    BY <2>1, <2>2, <1>3, ReceivedRows DEF SnapshotFits, InPage
<1>4. ASSUME NEW k \in Keys, NEW f \in Sayings, Enrich(k, f) PROVE SnapshotFits'
  BY <1>4 DEF Enrich, page, SnapshotFits, InPage
<1>5. CASE UNCHANGED vars
  BY <1>5 DEF vars, SnapshotFits, InPage
<1> QED
  BY <1>1, <1>2, <1>3, <1>4, <1>5
     DEF Next, Process, Application, Start, End, Columns, EnterLoop, Select, UpdateEnds,
         UpdateRaises, Undo, Stamp, Kill, Idle

LEMMA CoveredStep ==
  ASSUME TrackingInv, [Next]_vars
  PROVE  CoveredFit'
<1> USE DEF TrackingInv
<1>1. ASSUME NEW t \in Targets, Start(t) PROVE CoveredFit'
  BY <1>1 DEF Start, Covered, CoveredFit, past
<1>2. CASE End
  BY <1>2 DEF End, Idle, Covered, CoveredFit, past
<1>3. CASE Columns
  BY <1>3 DEF Columns, Crossing, Covered, CoveredFit, TypeOK
<1>4. CASE EnterLoop
  BY <1>4, KeysAssumption DEF EnterLoop, Crossing, Covered, CoveredFit, TypeOK
<1>5. CASE Select
  <2>1. CASE Page(Table) # {} \/ stamped # 1
    BY <1>5, <2>1 DEF Select, Covered, CoveredFit, past, Course
  <2>2. CASE Page(Table) = {} /\ stamped = 1
    <3>1. Table = {k \in Keys : last[k].alert # 0} /\ Table \subseteq Nat
      <4>1. Crossing = 2
        BY <1>5, <2>2 DEF Select, Course, Crossing
      <4> QED
        BY <4>1, KeysAssumption DEF Table
    <3>2. \A k \in Table : k <= cursor
      BY <2>2, <3>1, EmptyPage DEF TypeOK
    <3>3. ASSUME NEW k \in Keys \ moved, ~torn PROVE last[k].tracking = last[k].alert
      <4>1. CASE k \in Table
        BY <1>5, <2>2, <3>2, <3>3, <4>1 DEF Select, Course, Covered, CoveredFit
      <4>2. CASE k \notin Table
        BY <3>1, <4>2 DEF AbsentFits
      <4> QED
        BY <4>1, <4>2
    <3> QED
      BY <1>5, <3>3 DEF Select, CoveredFit, past
  <2> QED
    BY <2>1, <2>2
<1>6. CASE UpdateStarts
  BY <1>6 DEF UpdateStarts, Covered, CoveredFit, past
<1>7. CASE UpdateEnds
  <2>1. /\ pc = "apply" /\ UNCHANGED <<stamped, way, moved, torn>>
        /\ last' = Updated /\ cursor' = upto
    BY <1>7 DEF UpdateEnds, past
  <2>2. ASSUME NEW k \in Keys \ moved, Covered(k)', ~torn
        PROVE  last'[k].tracking = last'[k].alert
    <3>1. CASE Covered(k)
      BY <2>1, <2>2, <3>1, UpdatedRows DEF CoveredFit
    <3>2. CASE ~Covered(k)
      <4>1. stamped = 1 /\ Crossing = 2 /\ InPage(k)
        BY <1>7, <2>1, <2>2, <3>2, KeysAssumption
           DEF UpdateEnds, Covered, Crossing, InPage, Course, TypeOK
      <4>2. seen[k] = last[k].alert
        BY <2>1, <4>1 DEF SnapshotFits
      <4>3. CASE seen[k] # 0
        BY <2>1, <4>1, <4>2, <4>3, UpdatedRows
      <4>4. CASE seen[k] = 0
        BY <2>1, <4>2, <4>4, UpdatedRows DEF AbsentFits
      <4> QED
        BY <4>3, <4>4
    <3> QED
      BY <3>1, <3>2
  <2> QED
    BY <2>1, <2>2 DEF CoveredFit
<1>8. CASE Undo
  BY <1>8 DEF Undo, Crossing, Covered, CoveredFit, past, TypeOK
<1>9. CASE Stamp
  BY <1>9 DEF Stamp, Covered, CoveredFit, past, Course, TypeOK
<1>10. CASE Kill
  <2>1. \A k \in Keys : last[k].tracking = last[k].alert => last'[k].tracking = last'[k].alert
    BY <1>10, UpdatedRows DEF Kill
  <2> QED
    BY <1>10, <2>1 DEF Kill, Idle, Covered, CoveredFit, past
<1>11. ASSUME NEW k \in Keys, Receive(k) PROVE CoveredFit'
  <2>1. UNCHANGED <<pc, stamped, cursor, way, torn>> /\ moved \subseteq moved'
    BY <1>11 DEF Receive, page
  <2>2. ASSUME Covered(k) PROVE k \in moved'
    BY <1>11, <2>2 DEF Receive, Covered, Passed, Crossing
  <2> QED
    BY <1>11, <2>1, <2>2, ReceivedRows DEF CoveredFit, Covered
<1>12. ASSUME NEW k \in Keys, NEW f \in Sayings, Enrich(k, f) PROVE CoveredFit'
  BY <1>12 DEF Enrich, page, Covered, CoveredFit
<1>13. CASE UpdateRaises
  BY <1>13 DEF UpdateRaises, Idle, Covered, CoveredFit, past
<1>14. CASE UNCHANGED vars
  BY <1>14 DEF vars, Covered, CoveredFit
<1> QED
  BY <1>1, <1>2, <1>3, <1>4, <1>5, <1>6, <1>7, <1>8, <1>9, <1>10, <1>11, <1>12, <1>13, <1>14
     DEF Next, Process, Application

-----------------------------------------------------------------------------
(* Theorems *)

(* What c3d4e5f6a7b8 is past is right wherever the process is: at a page,  *)
(* between its SELECT and its UPDATE, within the UPDATE, or killed.        *)
THEOREM TrackingCorrect == Spec => []TrackingInv
<1>1. Init => TrackingInv
  <2>1. Init => Course /\ CoveredFit /\ SnapshotFits
    BY DEF Init, Course, CoveredFit, Covered, SnapshotFits
  <2>2. Init => AbsentFits
    BY DEF Init, AbsentFits, Fresh
  <2> QED
    BY <2>1, <2>2, TypeInit DEF TrackingInv
<1>2. TrackingInv /\ [Next]_vars => TrackingInv'
  BY TypeStep, CourseStep, AbsentStep, SnapshotStep, CoveredStep DEF TrackingInv
<1> QED
  BY <1>1, <1>2, PTL DEF Spec

(* Every variable keeps its type. *)
THEOREM BackfillTypes == Spec => []TypeOK
<1>1. TrackingInv => TypeOK
  BY DEF TrackingInv
<1> QED
  BY <1>1, TrackingCorrect, PTL

(* Once c3d4e5f6a7b8 is stamped every row has the counters and times of    *)
(* the alert it points to, but those the application moved behind it.      *)
THEOREM NoRowLeftBehind == Spec => []TrackingFits
<1>1. TrackingInv => TrackingFits
  BY DEF TrackingInv, CoveredFit, Covered, TrackingFits
<1> QED
  BY <1>1, TrackingCorrect, PTL

-----------------------------------------------------------------------------
(* Notes and assignees *)

(* What c4d5e6f7a8b9 makes of a row is what the user says; its note stays  *)
(* or is the user's, and its assignee may also be emptied, never unset.    *)
LEMMA OverrideRow ==
  ASSUME NEW row \in Row, NEW f
  PROVE  /\ Follows(Override(row, f), f)
         /\ Override(row, f).note \in {row.note, "user"}
         /\ Override(row, f).assignee \in {row.assignee, "user", "emptied"}
<1> DEFINE status == IF "status" \in f THEN "user"
                     ELSE IF "noStatus" \in f THEN "emptied"
                     ELSE IF f \cap Dismissal # {} THEN "suppressed" ELSE row.status
           mode == IF f \cap Until # {} THEN "until"
                   ELSE IF "dismissed" \in f THEN "permanent" ELSE row.mode
           until == row.until \/ "until" \in f
           assignee == IF "assignee" \in f THEN "user"
                       ELSE IF "noAssignee" \in f THEN "emptied" ELSE row.assignee
           note == IF "note" \in f THEN "user" ELSE row.note
<1>1. Override(row, f) = [row EXCEPT !.status = status, !.mode = mode, !.until = until,
                                     !.assignee = assignee, !.note = note]
  BY Zenon DEF Override
<1>2. /\ "status" \in f => status = "user"
      /\ "noStatus" \in f /\ "status" \notin f => status = "emptied"
      /\ f \cap Dismissal # {} /\ f \cap {"status", "noStatus"} = {} => status = "suppressed"
      /\ "assignee" \in f => assignee = "user"
      /\ "noAssignee" \in f /\ "assignee" \notin f => assignee = "emptied"
      /\ "note" \in f => note = "user"
      /\ note \in {row.note, "user"} /\ assignee \in {row.assignee, "user", "emptied"}
  <2>1. "status" \in f => status = "user"
    OBVIOUS
  <2>2. "noStatus" \in f /\ "status" \notin f => status = "emptied"
    OBVIOUS
  <2>3. f \cap Dismissal # {} /\ f \cap {"status", "noStatus"} = {} => status = "suppressed"
    <3>1. f \cap {"status", "noStatus"} = {} => "status" \notin f /\ "noStatus" \notin f
      OBVIOUS
    <3> QED
      BY <3>1
  <2>4. /\ "assignee" \in f => assignee = "user"
        /\ assignee \in {row.assignee, "user", "emptied"}
    OBVIOUS
  <2>5. "noAssignee" \in f /\ "assignee" \notin f => assignee = "emptied"
    OBVIOUS
  <2>6. /\ "note" \in f => note = "user"
        /\ note \in {row.note, "user"}
    OBVIOUS
  <2> QED
    BY <2>1, <2>2, <2>3, <2>4, <2>5, <2>6
<1>3. "until" \in f => until
  BY Zenon
<1>4. f \cap Dismissal # {} =>
        mode = IF f \cap Until # {} THEN "until" ELSE "permanent"
  BY DEF Dismissal, Until
<1> HIDE DEF status, mode, until, assignee, note
<1>5. /\ Override(row, f).status = status /\ Override(row, f).mode = mode
      /\ Override(row, f).until = until /\ Override(row, f).assignee = assignee
      /\ Override(row, f).note = note
  BY <1>1 DEF Row
<1>6. "until" \in f => Override(row, f).until
  BY <1>3, <1>5, Zenon
<1> QED
  BY <1>2, <1>4, <1>5, <1>6 DEF Follows

(* Neither script takes a note or an assignee away, and the first gives them. *)
LEMMA UpdatedNotes ==
  ASSUME TypeOK, NEW k \in Keys
  PROVE  /\ last[k].note # "null" => Updated[k].note # "null"
         /\ last[k].assignee # "null" => Updated[k].assignee # "null"
         /\ Crossing = 2 /\ InPage(k) /\ seen[k] # 0 /\ seen[k] = last[k].alert =>
              Updated[k].note # "null" /\ Updated[k].assignee # "null"
<1>1. last[k] \in Row
  BY DEF TypeOK
<1>2. Copy(last[k]).note = "alert" /\ Copy(last[k]).assignee = "alert"
  BY <1>1 DEF Copy, Row
<1>3. CASE Crossing = 2
  BY <1>2, <1>3 DEF Updated, Copied
<1>4. CASE Crossing # 2
  <2>1. Updated[k] = last[k] \/ \E f : Updated[k] = Override(last[k], f)
    BY <1>4 DEF Updated, Overridden
  <2> QED
    BY <1>1, <1>4, <2>1, OverrideRow
<1> QED
  BY <1>3, <1>4

LEMMA NotesStep ==
  ASSUME TrackingInv, NotesKept, [Next]_vars
  PROVE  NotesKept'
<1> USE DEF TrackingInv
<1>1. ASSUME NEW t \in Targets, Start(t) PROVE NotesKept'
  BY <1>1 DEF Start, Covered, NotesKept, past
<1>2. CASE End
  BY <1>2 DEF End, Idle, Covered, NotesKept, past
<1>3. CASE Columns
  BY <1>3 DEF Columns, Crossing, Covered, NotesKept, TypeOK
<1>4. CASE EnterLoop
  BY <1>4, KeysAssumption DEF EnterLoop, Crossing, Covered, NotesKept, TypeOK
<1>5. CASE Select
  <2>1. CASE Page(Table) # {} \/ stamped # 1
    BY <1>5, <2>1 DEF Select, Covered, NotesKept, past, Course
  <2>2. CASE Page(Table) = {} /\ stamped = 1
    <3>1. Table = {k \in Keys : last[k].alert # 0} /\ Table \subseteq Nat
      <4>1. Crossing = 2
        BY <1>5, <2>2 DEF Select, Course, Crossing
      <4> QED
        BY <4>1, KeysAssumption DEF Table
    <3>2. \A k \in Table : k <= cursor
      BY <2>2, <3>1, EmptyPage DEF TypeOK
    <3>3. ASSUME NEW k \in Keys \ moved, ~torn, last[k].alert # 0
          PROVE  last[k].note # "null" /\ last[k].assignee # "null"
      BY <1>5, <2>2, <3>1, <3>2, <3>3 DEF Select, Course, Covered, NotesKept
    <3> QED
      BY <1>5, <3>3 DEF Select, NotesKept, past
  <2> QED
    BY <2>1, <2>2
<1>6. CASE UpdateStarts
  BY <1>6 DEF UpdateStarts, Covered, NotesKept, past
<1>7. CASE UpdateEnds
  <2>1. /\ pc = "apply" /\ UNCHANGED <<stamped, way, moved, torn>>
        /\ last' = Updated /\ cursor' = upto
    BY <1>7 DEF UpdateEnds, past
  <2>2. ASSUME NEW k \in Keys \ moved, Covered(k)', ~torn, last'[k].alert # 0
        PROVE  last'[k].note # "null" /\ last'[k].assignee # "null"
    <3>1. last[k].alert # 0
      BY <2>1, <2>2, UpdatedRows
    <3>2. CASE Covered(k)
      BY <2>1, <2>2, <3>1, <3>2, UpdatedNotes DEF NotesKept
    <3>3. CASE ~Covered(k)
      <4>1. stamped = 1 /\ Crossing = 2 /\ InPage(k)
        <5>1. way = "upgrade" /\ stamped \in {1, 2} /\ k \in Nat /\ cursor \in Nat
          BY <2>1, KeysAssumption DEF Course, TypeOK
        <5> QED
          BY <1>7, <2>1, <2>2, <3>3, <5>1 DEF UpdateEnds, Covered, Crossing, InPage
      <4>2. seen[k] = last[k].alert
        BY <2>1, <4>1 DEF SnapshotFits
      <4> QED
        BY <2>1, <3>1, <4>1, <4>2, UpdatedNotes
    <3> QED
      BY <3>2, <3>3
  <2> QED
    BY <2>1, <2>2 DEF NotesKept
<1>8. CASE Undo
  BY <1>8 DEF Undo, Crossing, Covered, NotesKept, past, TypeOK
<1>9. CASE Stamp
  BY <1>9 DEF Stamp, Covered, NotesKept, past, Course, TypeOK
<1>10. CASE Kill
  <2>1. \A k \in Keys :
          /\ last'[k].alert = last[k].alert
          /\ last[k].note # "null" => last'[k].note # "null"
          /\ last[k].assignee # "null" => last'[k].assignee # "null"
    BY <1>10, UpdatedRows, UpdatedNotes DEF Kill
  <2> QED
    BY <1>10, <2>1 DEF Kill, Idle, Covered, NotesKept, past
<1>11. ASSUME NEW k \in Keys, Receive(k) PROVE NotesKept'
  <2>1. UNCHANGED <<pc, stamped, cursor, way, torn>> /\ moved \subseteq moved'
    BY <1>11 DEF Receive, page
  <2>2. ASSUME Covered(k) PROVE k \in moved'
    BY <1>11, <2>2 DEF Receive, Covered, Passed, Crossing
  <2> QED
    BY <1>11, <2>1, <2>2, ReceivedRows DEF NotesKept, Covered
<1>12. ASSUME NEW k \in Keys, NEW f \in Sayings, Enrich(k, f) PROVE NotesKept'
  BY <1>12 DEF Enrich, page, Covered, NotesKept
<1>13. CASE UpdateRaises
  BY <1>13 DEF UpdateRaises, Idle, Covered, NotesKept, past
<1>14. CASE UNCHANGED vars
  BY <1>14 DEF vars, Covered, NotesKept
<1> QED
  BY <1>1, <1>2, <1>3, <1>4, <1>5, <1>6, <1>7, <1>8, <1>9, <1>10, <1>11, <1>12, <1>13, <1>14
     DEF Next, Process, Application

(* The note-preservation guard of c4d5e6f7a8b9: a row keeps the note of    *)
(* its alert where the user left none, be the key there and empty.  Its    *)
(* assignee is the alert's or what the user's enrichment has, and that may *)
(* be nothing ("emptied"): the guard is about the note only.               *)
THEOREM NotesStayWithAlerts == Spec => []AlertsNoteKept
<1>1. Init => NotesKept
  BY DEF Init, NotesKept, Covered
<1>2. TrackingInv /\ NotesKept /\ [Next]_vars => NotesKept'
  BY NotesStep
<1>3. NotesKept => AlertsNoteKept
  BY DEF NotesKept, Covered, AlertsNoteKept
<1> QED
  BY <1>1, <1>2, <1>3, TrackingCorrect, PTL DEF Spec

-----------------------------------------------------------------------------
(* What the user said *)

(* What a user says of an alert is in one row, and of an alert the table of *)
(* the application may have: its keys only come, they do not change.        *)
LEMMA EnrichmentsStep ==
  ASSUME TypeOK, OneEnrichment, SaidStays, [Next]_vars
  PROVE  OneEnrichment' /\ SaidStays'
<1>1. ASSUME NEW k \in Keys, NEW f \in Sayings, Enrich(k, f)
      PROVE  OneEnrichment' /\ SaidStays'
  <2>1. PICK i \in IF IdsOf(k) # {} THEN IdsOf(k) ELSE {j \in Ids : enr[j].key = 0} :
          enr' = [enr EXCEPT ![i] = [key |-> k, facts |-> f]]
    BY <1>1 DEF Enrich
  <2>2. i \in Ids /\ enr[i].key \in {0, k} /\ k # 0
    BY KeysAssumption DEF IdsOf
  <2>3. enr'[i].key = k /\ \A j \in Ids \ {i} : enr'[j] = enr[j]
    BY <2>1, <2>2 DEF TypeOK
  <2>4. ASSUME NEW j \in Ids \ {i} PROVE enr[j].key # k
    BY <2>1, <2>2, <2>4 DEF IdsOf, OneEnrichment
  <2>5. OneEnrichment'
    BY <2>2, <2>3, <2>4 DEF OneEnrichment
  <2>6. SaidStays'
    BY <1>1, <2>2, <2>3 DEF SaidStays, Enrich, page
  <2> QED
    BY <2>5, <2>6
<1>2. CASE UNCHANGED enr /\ pc' # "apply"
  BY <1>2 DEF OneEnrichment, SaidStays
<1>3. CASE UpdateStarts
  BY <1>3 DEF UpdateStarts, app, OneEnrichment, SaidStays
<1>4. CASE UNCHANGED <<enr, pc, said>>
  BY <1>4 DEF OneEnrichment, SaidStays
<1> QED
  BY <1>1, <1>2, <1>3, <1>4
     DEF Next, Process, Application, Start, End, Columns, EnterLoop, Select, UpdateEnds,
         UpdateRaises, Undo, Stamp, Kill, Idle, Receive, app, page, vars

(* What a write of the application does to the enrichments that are due.   *)
LEMMA DueAfterReceive ==
  ASSUME TypeOK, NEW k \in Keys, Receive(k), NEW i \in Ids, Due(i)', Passed(3, i)
  PROVE  Due(i) /\ \A f : Follows(last[enr[i].key], f) => Follows(last'[enr[i].key], f)
<1> DEFINE j == enr[i].key
<1>1. j \in Keys /\ enr' = enr
  BY DEF Due, Receive, TypeOK, Enrichment
<1>2. CASE j # k
  BY <1>1, <1>2, ReceivedRows DEF Due, Receive
<1>3. CASE j = k
  <2>1. last[k].alert # 0
    BY <1>1, <1>3 DEF Due, Receive, IdsOf
  <2>2. last'[k] = [last[k] EXCEPT !.alert = received + 1]
    BY <2>1 DEF Receive, TypeOK
  <2>3. last[k] \in Row
    BY DEF TypeOK
  <2>4. /\ last'[k].status = last[k].status /\ last'[k].mode = last[k].mode
        /\ last'[k].until = last[k].until /\ last'[k].assignee = last[k].assignee
        /\ last'[k].note = last[k].note
    BY <2>2, <2>3 DEF Row
  <2>5. Due(i)
    BY <1>1, <1>3, <2>1 DEF Due, Receive
  <2>6. ASSUME NEW f, Follows(last[k], f) PROVE Follows(last'[k], f)
    <3>1. "until" \in f => last'[k].until
      BY <2>4, <2>6, Zenon DEF Follows
    <3> QED
      BY <2>4, <2>6, <3>1 DEF Follows
  <2> QED
    BY <1>3, <2>5, <2>6
<1> QED
  BY <1>2, <1>3

LEMMA DueAfterEnrich ==
  ASSUME TypeOK, NEW k \in Keys, NEW f \in Sayings, Enrich(k, f),
         NEW i \in Ids, Due(i)', Passed(3, i)
  PROVE  Due(i) /\ enr'[i] = enr[i]
<1>1. PICK e \in IF IdsOf(k) # {} THEN IdsOf(k) ELSE {j \in Ids : enr[j].key = 0} :
        /\ enr' = [enr EXCEPT ![e] = [key |-> k, facts |-> f]]
        /\ late' = IF Passed(3, e) THEN late \cup {k} ELSE late
  BY DEF Enrich
<1>2. e \in Ids /\ enr'[e].key = k /\ \A j \in Ids \ {e} : enr'[j] = enr[j]
  BY <1>1 DEF TypeOK, IdsOf
<1>3. i # e
  BY <1>1, <1>2 DEF Due
<1>4. late \subseteq late' /\ last' = last
  BY <1>1 DEF Enrich
<1> QED
  BY <1>2, <1>3, <1>4 DEF Due

LEMMA SaidFitsStep ==
  ASSUME TypeOK, Course, SaidFits, [Next]_vars
  PROVE  SaidFits'
<1>1. CASE pc' # "apply"
  BY <1>1 DEF SaidFits
<1>2. CASE UpdateStarts
  <2>1. /\ seen' = [k \in Keys |-> last[k].alert] /\ said' = enr
        /\ UNCHANGED <<last, enr, late>>
    BY <1>2 DEF UpdateStarts, app, past
  <2>2. ASSUME NEW i \in Ids, Due(i)' PROVE said'[i] = enr'[i] /\ seen'[enr'[i].key] # 0
    <3>1. enr[i].key \in Keys
      BY <2>1, <2>2 DEF Due, TypeOK, Enrichment
    <3> QED
      BY <2>1, <2>2, <3>1 DEF Due
  <2> QED
    BY <2>2 DEF SaidFits
<1>3. ASSUME pc = "apply", UNCHANGED <<pc, stamped, cursor, upto, seen, said, way>>,
             \A i \in Ids : Due(i)' /\ Passed(3, i) => Due(i) /\ enr'[i] = enr[i]
      PROVE  SaidFits'
  <2>1. ASSUME stamped = 2, NEW i \in Ids, InPage(i) PROVE Passed(3, i)
    BY <1>3, <2>1 DEF Passed, Crossing, InPage, Course
  <2> QED
    BY <1>3, <2>1 DEF SaidFits, InPage
<1>4. ASSUME NEW k \in Keys, Receive(k), pc' = "apply" PROVE SaidFits'
  BY <1>3, <1>4, DueAfterReceive DEF Receive, page
<1>5. ASSUME NEW k \in Keys, NEW f \in Sayings, Enrich(k, f), pc' = "apply" PROVE SaidFits'
  BY <1>3, <1>5, DueAfterEnrich DEF Enrich, page
<1>6. CASE UNCHANGED vars
  BY <1>6 DEF vars, app, page, past, SaidFits, InPage, Due
<1> QED
  BY <1>1, <1>2, <1>4, <1>5, <1>6
     DEF Next, Process, Application, Start, End, Columns, EnterLoop, Select, UpdateEnds,
         UpdateRaises, Undo, Stamp, Kill, Idle

(* At the end of an UPDATE of c4d5e6f7a8b9 every enrichment of its page,   *)
(* and of those before it, is in the row of its alert.                     *)
LEMMA UpdatedSayings ==
  ASSUME OverrideInv, pc = "apply", Crossing = 3, NEW i \in Ids, Due(i), i <= upto
  PROVE  Follows(Updated[enr[i].key], enr[i].facts)
<1> USE DEF OverrideInv
<1> DEFINE k == enr[i].key
           ids == {j \in Ids : InPage(j) /\ said[j].key = k}
<1>1. k \in Keys /\ last[k] \in Row /\ k # 0 /\ last[k].alert # 0
  BY DEF Due, TypeOK, Enrichment
<1>2. way = "upgrade" /\ stamped = 2
  BY DEF Course, Crossing, TypeOK
<1>3. ASSUME NEW j \in ids PROVE j = i
  BY <1>1, <1>3 DEF SaidStays, OneEnrichment
<1>4. Updated[k] = IF ids # {} /\ seen[k] # 0
                   THEN Override(last[k], UNION {said[j].facts : j \in ids})
                   ELSE last[k]
  <2>1. Updated = Overridden
    BY DEF Updated
  <2> HIDE DEF k
  <2> QED
    BY <1>1, <2>1, Zenon DEF Overridden
<1>5. CASE InPage(i)
  <2>1. said[i] = enr[i] /\ seen[k] # 0
    BY <1>2, <1>5 DEF SaidFits
  <2>2. ids = {i}
    BY <1>3, <1>5, <2>1
  <2>3. UNION {said[j].facts : j \in ids} = enr[i].facts
    <3> HIDE DEF ids
    <3> QED
      BY <2>1, <2>2
  <2>4. Updated[k] = Override(last[k], enr[i].facts)
    <3> HIDE DEF ids, k
    <3> QED
      BY <1>4, <2>1, <2>2, <2>3
  <2> QED
    BY <1>1, <2>4, OverrideRow
<1>6. CASE ~InPage(i)
  <2>1. i <= cursor
    BY <1>6, KeysAssumption DEF InPage, TypeOK
  <2>2. Follows(last[k], enr[i].facts)
    BY <1>2, <2>1 DEF Heard, HeardFollowed
  <2>3. ids = {}
    BY <1>3, <1>6
  <2> QED
    BY <1>4, <2>2, <2>3
<1> QED
  BY <1>5, <1>6

LEMMA HeardStep ==
  ASSUME OverrideInv, [Next]_vars
  PROVE  HeardFollowed'
<1> USE DEF OverrideInv
<1>0. ASSUME UNCHANGED <<last, enr, late>>, \A i \in Ids : Heard(i)' => Heard(i)
      PROVE  HeardFollowed'
  BY <1>0 DEF HeardFollowed, Due
<1>1. ASSUME \A i \in Ids : ~Heard(i)' PROVE HeardFollowed'
  BY <1>1 DEF HeardFollowed
<1>2. ASSUME NEW t \in Targets, Start(t) PROVE HeardFollowed'
  BY <1>0, <1>2 DEF Start, Heard, app, past
<1>3. CASE End
  BY <1>0, <1>3 DEF End, Idle, Heard, app, past
<1>4. CASE Columns
  BY <1>1, <1>4 DEF Columns, Crossing, Heard, TypeOK
<1>5. CASE EnterLoop
  BY <1>1, <1>5, KeysAssumption DEF EnterLoop, Crossing, Heard, TypeOK
<1>6. CASE Select
  <2>1. UNCHANGED <<last, enr, late, stamped, way, cursor>> /\ pc = "select"
    BY <1>6 DEF Select, app, past
  <2>2. CASE Page(Table) # {} \/ stamped # 2
    <3>1. \A i \in Ids : Heard(i)' => Heard(i)
      BY <1>6, <2>1, <2>2 DEF Select, Heard
    <3> QED
      BY <1>0, <2>1, <3>1
  <2>3. CASE Page(Table) = {} /\ stamped = 2
    <3>1. Table = {i \in Ids : enr[i].key # 0} /\ Table \subseteq Nat
      <4>1. Crossing # 2
        BY <2>1, <2>3 DEF Course, Crossing
      <4>2. Table = {i \in Ids : enr[i].key # 0}
        BY <4>1, Zenon DEF Table
      <4> QED
        BY <4>2, KeysAssumption
    <3>2. \A i \in Table : i <= cursor
      BY <2>3, <3>1, EmptyPage DEF TypeOK
    <3>3. ASSUME NEW i \in Ids, Due(i) PROVE Heard(i)
      BY <2>1, <2>3, <3>1, <3>2, <3>3 DEF Course, Heard, Due
    <3>4. \A i \in Ids : Due(i)' => Due(i)
      BY <2>1 DEF Due
    <3> QED
      BY <2>1, <3>3, <3>4 DEF HeardFollowed
  <2> QED
    BY <2>2, <2>3
<1>7. CASE UpdateStarts
  BY <1>0, <1>7 DEF UpdateStarts, Heard, app, past
<1>8. CASE UpdateEnds
  <2>1. /\ pc = "apply" /\ pc' = "select" /\ UNCHANGED <<enr, late, stamped, way>>
        /\ last' = Updated /\ cursor' = upto
    BY <1>8 DEF UpdateEnds, app, past
  <2>2. stamped # 3
    BY <2>1 DEF Course
  <2>3. ASSUME NEW i \in Ids, Heard(i)', Due(i)' PROVE Follows(last'[enr'[i].key], enr'[i].facts)
    <3>1. Crossing = 3 /\ i <= upto
      BY <2>1, <2>2, <2>3 DEF Heard, Crossing
    <3>2. enr[i].key \in Keys
      BY <2>1, <2>3 DEF Due, TypeOK, Enrichment
    <3>3. Due(i)
      BY <2>1, <2>3, <3>2, UpdatedRows DEF Due
    <3> QED
      BY <2>1, <3>1, <3>3, UpdatedSayings
  <2> QED
    BY <2>3 DEF HeardFollowed
<1>9. CASE Undo
  <2>1. CASE Crossing = 2
    BY <1>1, <1>9, <2>1 DEF Undo, Crossing, Heard, TypeOK
  <2>2. CASE Crossing # 2
    BY <1>0, <1>9, <2>2 DEF Undo, Crossing, Heard, app, past
  <2> QED
    BY <2>1, <2>2
<1>10. CASE Stamp
  <2>1. \A i \in Ids : Heard(i)' => Heard(i)
    BY <1>10 DEF Stamp, Heard, Course, TypeOK
  <2> QED
    BY <1>0, <1>10, <2>1 DEF Stamp, app, past
<1>11. CASE Kill
  <2>1. CASE stamped = 3
    <3>1. pc # "apply"
      BY <2>1 DEF Course
    <3>2. last' = last
      BY <1>11, <3>1 DEF Kill
    <3> QED
      BY <1>0, <1>11, <2>1, <3>2 DEF Kill, Heard, app, past
  <2>2. CASE stamped # 3
    BY <1>1, <1>11, <2>2 DEF Kill, Idle, Heard
  <2> QED
    BY <2>1, <2>2
<1>12. ASSUME NEW i \in Ids, Heard(i) PROVE Passed(3, i)
  BY <1>12 DEF Heard, Passed, Crossing
<1>13. ASSUME NEW k \in Keys, Receive(k) PROVE HeardFollowed'
  <2>1. UNCHANGED <<enr, pc, stamped, cursor, way>>
    BY <1>13 DEF Receive, page
  <2>2. \A i \in Ids : Heard(i)' => Heard(i)
    BY <2>1 DEF Heard
  <2> QED
    BY <1>12, <1>13, <2>1, <2>2, DueAfterReceive DEF HeardFollowed
<1>14. ASSUME NEW k \in Keys, NEW f \in Sayings, Enrich(k, f) PROVE HeardFollowed'
  <2>1. UNCHANGED <<last, pc, stamped, cursor, way>>
    BY <1>14 DEF Enrich, page
  <2>2. \A i \in Ids : Heard(i)' => Heard(i)
    BY <2>1 DEF Heard
  <2> QED
    BY <1>12, <1>14, <2>1, <2>2, DueAfterEnrich DEF HeardFollowed
<1>15. CASE UpdateRaises
  BY <1>0, <1>15 DEF UpdateRaises, Idle, Heard, app, past
<1>16. CASE UNCHANGED vars
  BY <1>0, <1>16 DEF vars, Heard
<1> QED
  BY <1>2, <1>3, <1>4, <1>5, <1>6, <1>7, <1>8, <1>9, <1>10, <1>11, <1>13, <1>14, <1>15, <1>16
     DEF Next, Process, Application

(* Nothing c4d5e6f7a8b9 has come by is lost, wherever the process is. *)
THEOREM OverridesCorrect == Spec => []OverrideInv
<1>1. Init => OverrideInv
  <2>1. ASSUME Init PROVE OneEnrichment
    <3>1. PICK present \in SUBSET Keys :
            \E key \in [Ids -> present \cup {0}], facts \in Sayings :
              /\ \A i, j \in Ids : i # j /\ key[i] = key[j] => key[i] = 0
              /\ enr = [i \in Ids |-> IF key[i] = 0 THEN Nothing
                                      ELSE [key |-> key[i], facts |-> facts]]
      BY <2>1 DEF Init
    <3>2. PICK key \in [Ids -> present \cup {0}], facts \in Sayings :
            /\ \A i, j \in Ids : i # j /\ key[i] = key[j] => key[i] = 0
            /\ enr = [i \in Ids |-> IF key[i] = 0 THEN Nothing
                                    ELSE [key |-> key[i], facts |-> facts]]
      BY <3>1
    <3>3. \A i \in Ids : enr[i].key = key[i]
      BY <3>2 DEF Nothing
    <3> QED
      BY <3>2, <3>3 DEF OneEnrichment
  <2>2. Init => Course /\ SaidStays /\ SaidFits /\ HeardFollowed
    BY DEF Init, Course, SaidStays, SaidFits, HeardFollowed, Heard
  <2> QED
    BY <2>1, <2>2, TypeInit DEF OverrideInv
<1>2. OverrideInv /\ [Next]_vars => OverrideInv'
  <2> SUFFICES ASSUME OverrideInv, [Next]_vars PROVE OverrideInv'
    OBVIOUS
  <2>1. TypeOK' /\ Course'
    BY TypeStep, CourseStep DEF OverrideInv
  <2>2. OneEnrichment' /\ SaidStays'
    BY EnrichmentsStep DEF OverrideInv
  <2>3. SaidFits'
    BY SaidFitsStep DEF OverrideInv
  <2>4. HeardFollowed'
    BY HeardStep
  <2> QED
    BY <2>1, <2>2, <2>3, <2>4 DEF OverrideInv
<1> QED
  BY <1>1, <1>2, PTL DEF Spec

(* Once c4d5e6f7a8b9 is stamped nothing a user said is lost, but where it  *)
(* was said behind the cursor.                                             *)
THEOREM NothingSaidIsLost == Spec => []OverridesInForce
<1>1. ASSUME OverrideInv PROVE OverridesInForce
  <2> SUFFICES ASSUME stamped = 3, NEW k \in Keys \ late, last[k].alert # 0
               PROVE  Follows(last[k], FactsOf(k))
    BY DEF OverridesInForce
  <2>1. CASE IdsOf(k) = {}
    <3>1. FactsOf(k) = {}
      BY <2>1 DEF FactsOf
    <3> QED
      BY <3>1 DEF Follows
  <2>2. CASE IdsOf(k) # {}
    <3>1. PICK i \in IdsOf(k) : TRUE
      BY <2>2
    <3>2. i \in Ids /\ enr[i].key = k /\ k # 0
      BY <3>1, KeysAssumption DEF IdsOf
    <3>3. IdsOf(k) = {i}
      BY <1>1, <3>2 DEF IdsOf, OverrideInv, OneEnrichment
    <3>4. FactsOf(k) = enr[i].facts
      BY <3>3 DEF FactsOf
    <3>5. Follows(last[k], enr[i].facts)
      BY <1>1, <3>2 DEF OverrideInv, HeardFollowed, Heard, Due
    <3> QED
      BY <3>4, <3>5
  <2> QED
    BY <2>1, <2>2
<1> QED
  BY <1>1, OverridesCorrect, PTL
=============================================================================
