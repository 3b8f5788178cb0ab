------------------------------ MODULE Backfill ------------------------------
(***************************************************************************)
(* The state of an alert on its way from alert and alertenrichment to      *)
(* typed columns of lastalert: c1d2e3f4a5b6 adds the columns, c3d4e5f6a7b8 *)
(* copies what the current alert says, c4d5e6f7a8b9 puts over it what the  *)
(* user said.  Both page through a table by key, committing every batch,   *)
(* while the application goes on writing: its old code, which knows        *)
(* nothing of the columns.  Processes run one at a time, as KeepMigrate    *)
(* shows; what it shows of locks and rows of alembic_version is left out.  *)
(***************************************************************************)
EXTENDS Naturals, FiniteSets

CONSTANTS
  Keys,        \* the keys (tenant_id, fingerprint) of lastalert, in order
  Ids,         \* the keys id::text of alertenrichment, in order
  Batch,       \* BATCH_SIZE
  Sayings,     \* what a user may say of an alert: sets of Facts
  Targets,     \* the targets processes are started with
  MaxAlerts,   \* bounds: alerts received,
  MaxWrites,   \*         writes of the application,
  MaxRuns,     \*         processes started,
  MaxKills     \*         and processes killed

(***************************************************************************)
(* What the SQL tells apart in alertenrichment.enrichments: the keys with  *)
(* a value; status and assignee present with none, a JSON null or "", and  *)
(* of dismissUntil, whether it is a date, is shaped like one and is none,  *)
(* or is not even shaped like one.                                         *)
(***************************************************************************)
Facts == {"status", "noStatus", "until", "untilBad", "untilText", "dismissed",
          "assignee", "noAssignee", "note"}

ASSUME KeysAssumption ==
  /\ Keys \subseteq Nat \ {0} /\ IsFiniteSet(Keys)
  /\ Ids \subseteq Nat \ {0} /\ IsFiniteSet(Ids)
  /\ Batch \in Nat \ {0}

ASSUME ApplicationAssumption ==
  /\ Sayings \subseteq SUBSET Facts
  /\ Targets \subseteq 0..3
  /\ MaxAlerts \in Nat \ {0} /\ MaxWrites \in Nat /\ MaxRuns \in Nat /\ MaxKills \in Nat

VARIABLES
  last,      \* last[k]: the row of lastalert with key k
  enr,       \* enr[i]: the row of alertenrichment with id i
  received,  \* alerts received: the rows of alert are 1..received
  stamped,   \* how many of the three revisions are stamped
  goal,      \* what the process is walking to
  way,       \* and in which direction
  pc,        \* where it is
  cursor,    \* t0, f0 or c0: what the paging loop is past
  upto,      \* t1, f1 or c1: the end of its page
  seen,      \* the snapshot of the statement under way: alert_id by key ...
  said,      \* ... and alertenrichment
  moved,     \* keys whose alert changed where c3d4e5f6a7b8 had been
  late,      \* keys enriched, or new, where c4d5e6f7a8b9 had been
  torn,      \* the columns are reset and the restamp is not committed
  writes, runs, kills

vars == <<last, enr, received, stamped, goal, way, pc, cursor, upto, seen, said,
          moved, late, torn, writes, runs, kills>>

app  == <<enr, received, writes>>
page == <<cursor, upto, seen, said>>
past == <<moved, late>>

(***************************************************************************)
(* A row, "alert" 0 if it is not there.  tracking: the alert its counters  *)
(* and times are of, 0 for their defaults.  assignee and note: of that     *)
(* alert or of the user; "emptied" is a NULL or "" the user's enrichment   *)
(* put there.  The others are the dismissal.                               *)
(***************************************************************************)
Row == [alert : 0..MaxAlerts, tracking : 0..MaxAlerts,
        assignee : {"null", "alert", "user", "emptied"}, note : {"null", "alert", "user"},
        status : {"null", "suppressed", "user", "emptied"},
        mode : {"null", "until", "permanent"}, until : BOOLEAN]

(* A row as the old set_last_alert() inserts it: server defaults. *)
Fresh(a) == [alert |-> a, tracking |-> 0, assignee |-> "null", note |-> "null",
             status |-> "null", mode |-> "null", until |-> FALSE]

Enrichment == [key : Keys \cup {0}, facts : SUBSET Facts]
Nothing    == [key |-> 0, facts |-> {}]

(* alert_fingerprint is unique. *)
IdsOf(k)  == {i \in Ids : enr[i].key = k}
FactsOf(k) == UNION {enr[i].facts : i \in IdsOf(k)}

Labels == {"idle", "step", "select", "update", "apply", "stamp"}

NothingSeen ==
  /\ cursor = 0 /\ upto = 0
  /\ seen = [k \in Keys |-> 0] /\ said = [i \in Ids |-> Nothing]

(* Alerts have come, and users have spoken, before anything is migrated. *)
Init ==
  /\ \E present \in SUBSET Keys :
       /\ last = [k \in Keys |-> Fresh(IF k \in present THEN 1 ELSE 0)]
       /\ \E key \in [Ids -> present \cup {0}], facts \in Sayings :
            /\ \A i, j \in Ids : i # j /\ key[i] = key[j] => key[i] = 0
            /\ enr = [i \in Ids |-> IF key[i] = 0 THEN Nothing
                                    ELSE [key |-> key[i], facts |-> facts]]
  /\ received = 1
  /\ stamped = 0 /\ goal = 0 /\ way = "upgrade" /\ pc = "idle"
  /\ NothingSeen
  /\ moved = {} /\ late = {} /\ torn = FALSE
  /\ writes = 0 /\ runs = 0 /\ kills = 0

-----------------------------------------------------------------------------
(* The scripts *)

(* c3d4e5f6a7b8, upgrade and downgrade *)
Copy(row)  == [row EXCEPT !.tracking = row.alert, !.assignee = "alert", !.note = "alert"]
Reset(row) == [row EXCEPT !.tracking = 0, !.assignee = "null", !.note = "null"]

Until     == {"until", "untilBad", "untilText"}
Dismissal == Until \cup {"dismissed"}

(* Mutant: the note is the enrichment's, if only its absence. *)
OverrideNoGuard(row, f) ==
  [row EXCEPT !.status   = IF "status" \in f THEN "user"
                           ELSE IF "noStatus" \in f THEN "emptied"
                           ELSE IF f \cap Dismissal # {} THEN "suppressed" ELSE @,
              !.mode     = IF f \cap Until # {} THEN "until"
                           ELSE IF "dismissed" \in f THEN "permanent" ELSE @,
              !.until    = @ \/ "until" \in f,
              !.assignee = IF "assignee" \in f THEN "user"
                           ELSE IF "noAssignee" \in f THEN "emptied" ELSE @,
              !.note     = IF "note" \in f THEN "user" ELSE "null"]

(* Mutant: a dismissal is one for good, with or without a date. *)
OverrideForGood(row, f) ==
  [row EXCEPT !.status   = IF "status" \in f THEN "user"
                           ELSE IF "noStatus" \in f THEN "emptied"
                           ELSE IF f \cap Dismissal # {} THEN "suppressed" ELSE @,
              !.mode     = IF "dismissed" \in f THEN "permanent"
                           ELSE IF f \cap Until # {} THEN "until" ELSE @,
              !.until    = @ \/ "until" \in f,
              !.assignee = IF "assignee" \in f THEN "user"
                           ELSE IF "noAssignee" \in f THEN "emptied" ELSE @,
              !.note     = IF "note" \in f THEN "user" ELSE @]

(***************************************************************************)
(* c4d5e6f7a8b9: its CASEs.  What the user has not said stays; a status or *)
(* an assignee is said if its key is there, a note if it is not empty.     *)
(***************************************************************************)
Override(row, f) ==
  [row EXCEPT !.status   = IF "status" \in f THEN "user"
                           ELSE IF "noStatus" \in f THEN "emptied"
                           ELSE IF f \cap Dismissal # {} THEN "suppressed" ELSE @,
              !.mode     = IF f \cap Until # {} THEN "until"
                           ELSE IF "dismissed" \in f THEN "permanent" ELSE @,
              !.until    = @ \/ "until" \in f,
              !.assignee = IF "assignee" \in f THEN "user"
                           ELSE IF "noAssignee" \in f THEN "emptied" ELSE @,
              !.note     = IF "note" \in f THEN "user" ELSE @]

(* The revision a walk is crossing. *)
Crossing == IF way = "upgrade" THEN stamped + 1 ELSE stamped

(* Mutant: the comparison with the cursor is not strict. *)
PageNotStrict(table) ==
  {k \in table : k >= cursor /\ Cardinality({j \in table : cursor <= j /\ j < k}) < Batch}

(* _NEXT_KEY_SQL: the next Batch keys of a table. *)
Page(table) ==
  {k \in table : k > cursor /\ Cardinality({j \in table : cursor < j /\ j < k}) < Batch}

Table == IF Crossing = 2 THEN {k \in Keys : last[k].alert # 0}
         ELSE {i \in Ids : enr[i].key # 0}

(* Mutant: the comparison with the end of the page is strict. *)
InPageShort(x) == cursor < x /\ x < upto

InPage(x) == cursor < x /\ x <= upto

(***************************************************************************)
(* _UPDATE_SQL.  A statement sees alert and alertenrichment as they were   *)
(* when it started; a row of lastalert that was moved since is looked at   *)
(* again, no longer joins the alert it had, and is left out.               *)
(***************************************************************************)
Copied ==
  [k \in Keys |-> IF InPage(k) /\ seen[k] # 0 /\ seen[k] = last[k].alert
                  THEN Copy(last[k]) ELSE last[k]]

Overridden ==
  [k \in Keys |->
     LET ids == {i \in Ids : InPage(i) /\ said[i].key = k} IN
     IF ids # {} /\ seen[k] # 0
     THEN Override(last[k], UNION {said[i].facts : i \in ids})
     ELSE last[k]]

Updated == IF Crossing = 2 THEN Copied ELSE Overridden

(* What is shaped like a date is cast to one, and the statement may fail. *)
Refused ==
  /\ Crossing = 3
  /\ \E i \in Ids, k \in Keys :
       InPage(i) /\ said[i].key = k /\ seen[k] # 0 /\ "untilBad" \in said[i].facts

-----------------------------------------------------------------------------
(* The process *)

Idle == pc' = "idle" /\ cursor' = 0 /\ upto' = 0
        /\ seen' = [k \in Keys |-> 0] /\ said' = [i \in Ids |-> Nothing]

Start(t) ==
  /\ pc = "idle" /\ runs < MaxRuns /\ t # stamped
  /\ runs' = runs + 1
  /\ goal' = t /\ way' = IF t > stamped THEN "upgrade" ELSE "downgrade"
  /\ pc' = "step"
  /\ UNCHANGED <<last, app, stamped, page, past, torn, kills>>

End ==
  /\ pc = "step" /\ stamped = goal
  /\ Idle
  /\ UNCHANGED <<last, app, stamped, goal, way, past, torn, runs, kills>>

(* c1d2e3f4a5b6: the columns come with their defaults, and go. *)
Columns ==
  /\ pc = "step" /\ stamped # goal /\ Crossing = 1
  /\ last' = [k \in Keys |-> Fresh(last[k].alert)]
  /\ stamped' = IF way = "upgrade" THEN 1 ELSE 0
  /\ UNCHANGED <<app, goal, way, pc, page, past, torn, runs, kills>>

(* upgrade() of either backfill: t0, f0 = "", "" or c0 = "". *)
EnterLoop ==
  /\ pc = "step" /\ stamped # goal /\ way = "upgrade" /\ Crossing \in {2, 3}
  /\ cursor' = 0 /\ pc' = "select"
  /\ IF Crossing = 2 THEN moved' = {} /\ UNCHANGED late
                     ELSE late' = {} /\ UNCHANGED moved
  /\ UNCHANGED <<last, app, stamped, goal, way, upto, seen, said, torn, runs, kills>>

Select ==
  /\ pc = "select"
  /\ IF Page(Table) = {}
     THEN pc' = "stamp" /\ UNCHANGED upto
     ELSE /\ upto' \in Page(Table) /\ \A k \in Page(Table) : k <= upto'
          /\ pc' = "update"
  /\ UNCHANGED <<last, app, stamped, goal, way, cursor, seen, said, past, torn, runs, kills>>

UpdateStarts ==
  /\ pc = "update"
  /\ seen' = [k \in Keys |-> last[k].alert] /\ said' = enr
  /\ pc' = "apply"
  /\ UNCHANGED <<last, app, stamped, goal, way, cursor, upto, past, torn, runs, kills>>

UpdateEnds ==
  /\ pc = "apply" /\ ~Refused
  /\ last' = Updated
  /\ cursor' = upto
  /\ pc' = "select"
  /\ UNCHANGED <<app, stamped, goal, way, upto, seen, said, past, torn, runs, kills>>

(* It fails as a whole, and the process with it: batches before it stay. *)
UpdateRaises ==
  /\ pc = "apply" /\ Refused
  /\ Idle
  /\ UNCHANGED <<last, app, stamped, goal, way, past, torn, runs, kills>>

(* downgrade() of c4d5e6f7a8b9 is pass; that of c3d4e5f6a7b8 one UPDATE. *)
Undo ==
  /\ pc = "step" /\ stamped # goal /\ way = "downgrade" /\ Crossing \in {2, 3}
  /\ IF Crossing = 2
     THEN last' = [k \in Keys |-> Reset(last[k])] /\ torn' = TRUE
     ELSE UNCHANGED <<last, torn>>
  /\ pc' = "stamp"
  /\ UNCHANGED <<app, stamped, goal, way, page, past, runs, kills>>

(* Mutant: a restamp goes one way only. *)
StampUp ==
  /\ pc = "stamp"
  /\ stamped' = stamped + 1
  /\ torn' = (torn /\ ~(way = "downgrade" /\ stamped = 2))
  /\ pc' = "step"
  /\ UNCHANGED <<last, app, goal, way, page, past, runs, kills>>

(* alembic's restamp, committed with the next block or at the end. *)
Stamp ==
  /\ pc = "stamp"
  /\ stamped' = IF way = "upgrade" THEN stamped + 1 ELSE stamped - 1
  /\ torn' = (torn /\ ~(way = "downgrade" /\ stamped = 2))
  /\ pc' = "step"
  /\ UNCHANGED <<last, app, goal, way, page, past, runs, kills>>

(* The pod is killed; the server completes the statement under way or not. *)
Kill ==
  /\ pc # "idle" /\ kills < MaxKills
  /\ kills' = kills + 1
  /\ Idle
  /\ last' \in {last} \cup (IF pc = "apply" /\ ~Refused THEN {Updated} ELSE {})
  /\ UNCHANGED <<app, stamped, goal, way, past, torn, runs>>

-----------------------------------------------------------------------------
(* The application's old code *)

(***************************************************************************)
(* Backfill s has been at x, or is at it with a snapshot already taken; no *)
(* later batch of it comes back.                                           *)
(***************************************************************************)
Passed(s, x) ==
  \/ stamped >= s
  \/ /\ way = "upgrade" /\ Crossing = s
     /\ \/ pc = "stamp"
        \/ pc \in {"select", "update", "apply"} /\ x <= cursor
        \/ pc = "apply" /\ x <= upto

(* set_last_alert(): a new alert, for a new or a known fingerprint. *)
Receive(k) ==
  /\ writes < MaxWrites /\ received < MaxAlerts
  /\ writes' = writes + 1 /\ received' = received + 1
  /\ last' = [last EXCEPT ![k] = IF @.alert = 0 THEN Fresh(received + 1)
                                 ELSE [@ EXCEPT !.alert = received + 1]]
  /\ moved' = IF Passed(2, k) THEN moved \cup {k} ELSE moved
  /\ late'  = IF last[k].alert = 0 /\ \E i \in IdsOf(k) : Passed(3, i)
              THEN late \cup {k} ELSE late
  /\ UNCHANGED <<enr, stamped, goal, way, pc, page, torn, runs, kills>>

(* A user assigns, notes, dismisses or takes it back; ids are random. *)
Enrich(k, f) ==
  /\ writes < MaxWrites
  /\ writes' = writes + 1
  /\ \E i \in IF IdsOf(k) # {} THEN IdsOf(k) ELSE {j \in Ids : enr[j].key = 0} :
       /\ enr[i] # [key |-> k, facts |-> f]
       /\ enr' = [enr EXCEPT ![i] = [key |-> k, facts |-> f]]
       /\ late' = IF Passed(3, i) THEN late \cup {k} ELSE late
  /\ UNCHANGED <<last, received, stamped, goal, way, pc, page, moved, torn, runs, kills>>

-----------------------------------------------------------------------------
Process == End \/ Columns \/ EnterLoop \/ Select \/ UpdateStarts \/ UpdateEnds
             \/ UpdateRaises \/ Undo \/ Stamp

Application == \E k \in Keys : Receive(k) \/ \E f \in Sayings : Enrich(k, f)

Next == Process \/ Application \/ Kill \/ \E t \in Targets : Start(t)

Spec == Init /\ [][Next]_vars

(* The process takes its next step; nobody else has to do anything. *)
FairSpec == Spec /\ WF_vars(Process)

-----------------------------------------------------------------------------
(* Properties *)

(* Every variable stays in its range. *)
TypeOK ==
  /\ last \in [Keys -> Row] /\ enr \in [Ids -> Enrichment]
  /\ received \in 0..MaxAlerts
  /\ stamped \in 0..3 /\ goal \in 0..3 /\ way \in {"upgrade", "downgrade"}
  /\ pc \in Labels
  /\ cursor \in Nat /\ upto \in Nat
  /\ seen \in [Keys -> 0..MaxAlerts] /\ said \in [Ids -> Enrichment]
  /\ moved \in SUBSET Keys /\ late \in SUBSET Keys /\ torn \in BOOLEAN
  /\ writes \in 0..MaxWrites /\ runs \in 0..MaxRuns /\ kills \in 0..MaxKills

(***************************************************************************)
(* "Safe to run on a live table", as far as it goes: once c3d4e5f6a7b8 is  *)
(* stamped, every row has the counters and times of the alert it points    *)
(* to, but those the application moved or inserted behind the cursor.  No  *)
(* row is skipped between two pages, or between the SELECT of a page and   *)
(* its UPDATE, and a backfill killed and started again is as good as one   *)
(* that was not.  torn: a rollback was killed before its restamp.          *)
(***************************************************************************)
TrackingFits ==
  stamped >= 2 /\ ~torn =>
    \A k \in Keys \ moved : last[k].tracking = last[k].alert

(* What a row says of a dismissal, assignee and note is what the user said. *)
Follows(row, f) ==
  /\ "status" \in f => row.status = "user"
  /\ "noStatus" \in f /\ "status" \notin f => row.status = "emptied"
  /\ f \cap Dismissal # {} =>
       /\ row.mode = IF f \cap Until # {} THEN "until" ELSE "permanent"
       /\ f \cap {"status", "noStatus"} = {} => row.status = "suppressed"
  /\ "until" \in f => row.until
  /\ "assignee" \in f => row.assignee = "user"
  /\ "noAssignee" \in f /\ "assignee" \notin f => row.assignee = "emptied"
  /\ "note" \in f => row.note = "user"

(***************************************************************************)
(* Once c4d5e6f7a8b9 is stamped nothing a user said is lost, through any   *)
(* number of batches, kills, rollbacks and releases, but where it was said *)
(* behind the cursor: c3d4e5f6a7b8 may run again and copy over an assignee *)
(* or a note, but not without c4d5e6f7a8b9 coming after it.                *)
(***************************************************************************)
OverridesInForce ==
  stamped = 3 =>
    \A k \in Keys \ late : last[k].alert # 0 => Follows(last[k], FactsOf(k))

(***************************************************************************)
(* The note-preservation guard: c4d5e6f7a8b9 keeps the alert's note where  *)
(* the user left none, in whatever form.  Of the assignee it keeps the     *)
(* alert's only where the user's enrichment has no such key; one with      *)
(* nothing in it takes the alert's away ("emptied").                       *)
(***************************************************************************)
AlertsNoteKept ==
  stamped = 3 /\ ~torn =>
    \A k \in Keys \ moved : last[k].alert # 0 =>
      last[k].note # "null" /\ last[k].assignee # "null"

(* A backfill ends, though rows are inserted ahead of it. *)
BackfillEnds == (pc # "idle") ~> (pc = "idle")
=============================================================================
