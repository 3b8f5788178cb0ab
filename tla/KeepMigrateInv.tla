--------------------------- MODULE KeepMigrateInv ---------------------------
(***************************************************************************)
(* What KeepMigrate's safety properties rest on: an invariant that every   *)
(* step preserves, in named parts.  TLC checks it on the instances of      *)
(* MCKeepMigrate, KeepMigrateProofs proves it for all of them.             *)
(***************************************************************************)
EXTENDS KeepMigrate

(* A process that got past _resolve has a target its image knows. *)
TargetKnown == \A j \in Jobs : pc[j] \in Alive => Target(j) \in Rev

(* Only "run" gets as far as the lock, and only backwards with the flag. *)
Consented ==
  \A j \in Jobs : pc[j] \in {"lock"} \cup UnderLock =>
    /\ req[j].cmd = "run"
    /\ way[j] = "downgrade" => req[j].allow

(* Nothing is left open by a process that is not walking, or on its way out. *)
NothingOpen ==
  \A j \in Jobs : pc[j] \notin Walking \cup Zombies => tx[j] = NoTx \/ Lingers(j)

(***************************************************************************)
(* alembic's copy of the rows is the rows its transaction sees, and lies   *)
(* between what is committed and the target.                               *)
(***************************************************************************)
RisingTo(j, t) ==
  /\ plan[j] \subseteq Anc[t]
  /\ plan[j] \cap Applied(heads[j]) = {}
  /\ Applied(stamped) \subseteq Applied(heads[j])
  /\ Applied(heads[j]) \subseteq Applied(stamped) \cup Anc[t]

SinkingTo(j, t) ==
  /\ plan[j] \subseteq Above(t) \cap Applied(heads[j])
  /\ Applied(heads[j]) \subseteq Applied(stamped)
  /\ Applied(stamped) \subseteq Applied(heads[j]) \cup Above(t)

OnCourse ==
  \A j \in Jobs : pc[j] \in Walking =>
    /\ heads[j] = Rows(j)
    /\ mode[j] = "auto" => tx[j] = NoTx
    /\ way[j] = "upgrade" => RisingTo(j, Target(j))
    /\ way[j] = "downgrade" => SinkingTo(j, Target(j))

WalkInv == TypeOK /\ OneWalker /\ TargetKnown /\ Consented /\ NothingOpen /\ OnCourse

-----------------------------------------------------------------------------
(* Where a walk ends *)

(* Whoever was started has one of the command lines a sync may give. *)
AskedFor == \A j \in Jobs : pc[j] # "idle" => req[j] \in Requests

(***************************************************************************)
(* The target of a downgrade is applied from the moment the process has    *)
(* looked under the lock, and nothing built on that of an upgrade is if no *)
(* row implied another; what is left of the plan is all that is left       *)
(* between the rows of the walk and the target.                            *)
(***************************************************************************)
Reaching ==
  \A j \in Jobs : LET t == Target(j) IN
    /\ pc[j] \in {"begin"} \cup Walking /\ way[j] = "downgrade" => t \in Applied(stamped)
    /\ pc[j] \in Walking =>
         /\ way[j] = "upgrade" => Anc[t] \subseteq Applied(heads[j]) \cup plan[j]
         /\ way[j] = "downgrade" => Above(t) \cap Applied(heads[j]) \subseteq plan[j]

ReachInv == WalkInv /\ AskedFor /\ Reaching

(* No committed row, and no row of a walk, implies another. *)
TipsOnly ==
  /\ Antichain(stamped)
  /\ \A j \in Jobs : pc[j] \in Walking => Antichain(heads[j])

(***************************************************************************)
(* What a process that means to walk up, or to exit 0, knows of what is    *)
(* built on its target.                                                    *)
(***************************************************************************)
AtTheTop(j) ==
  /\ Target(j) \in stamped
  /\ \A r \in Applied(stamped) : Target(j) \in Anc[r] => r = Target(j)

Topping ==
  \A j \in Jobs :
    /\ pc[j] \in {"begin"} \cup Walking /\ way[j] = "upgrade" =>
         Above(Target(j)) \cap Applied(stamped) = {}
    /\ pc[j] = "unlock" /\ lock = j /\ ExitCode(outcome[j]) = 0 => AtTheTop(j)

TipsInv == ReachInv /\ TipsOnly

-----------------------------------------------------------------------------
(* What a walk does to the schema *)

(* No script touches alembic's transaction, or but for autocommit_block. *)
AllPlainScripts == \A r \in Rev : Kind[r] = "plain"
NoOwnCommits    == \A r \in Rev : Kind[r] \in {"plain", "index", "backfill"}

(* Nobody is given --allow-destructive: every walk is on the way up. *)
ReleasesOnly == \A q \in Requests : ~q.allow

(* And what a walk down crosses it undoes, or the walk up can find it there. *)
OrderlyScripts ==
  NoOwnCommits /\ (ReleasesOnly \/ \A r \in EmptyDown : Kind[r] # "plain")

(* The revision process j is at is one that runs in autocommit_block. *)
AtBlock(j) == \E r \in plan[j] : IsNext(way[j], plan[j], r) /\ InBlock(way[j], r)

(* Statements commit by themselves in an autocommit_block and nowhere else. *)
BlocksOnly ==
  \A j \in Jobs :
    /\ pc[j] \in {"step", "stamp"} => mode[j] = "txn"
    /\ pc[j] = "rest" => mode[j] = IF AtBlock(j) THEN "auto" ELSE "txn"
    /\ pc[j] = "block" => mode[j] = "auto"
    /\ pc[j] \in {"block", "zfirst", "zrest"} => AtBlock(j)

(* The level a script leaves that is or is not in S. *)
Settled(r, S) == IF r \in S THEN "full" ELSE "none"

(* What walk j sees of the plain script r: "part" in the middle of it. *)
Seen(j, r) ==
  CASE pc[j] = "rest" /\ IsNext(way[j], plan[j], r) -> View(j)[r] = "part"
    [] pc[j] = "stamp" /\ IsNext(way[j], plan[j], r) ->
         View(j)[r] = IF way[j] = "upgrade" THEN "full" ELSE "none"
    [] OTHER -> View(j)[r] = Settled(r, Applied(heads[j]))

(***************************************************************************)
(* A script that leaves alembic's transaction alone is in the schema if    *)
(* and only if it is applied: of what is committed, and of what the walk   *)
(* sees, but for the revision it is in the middle of.                      *)
(***************************************************************************)
PlainSettled ==
  \A r \in Rev : Kind[r] = "plain" =>
    /\ schema[r] = Settled(r, Applied(stamped))
    /\ \A j \in Jobs : pc[j] \in Walking => Seen(j, r)

SettledInv == ReachInv /\ BlocksOnly /\ PlainSettled

-----------------------------------------------------------------------------
(* What releases do to the schema, whatever their scripts commit *)

Built(r, level) == level = "full" \/ (level = "flawed" /\ PassedOver(r))

(* Levels f and applied revisions S: what is begun stands on what is built. *)
InOrder(f, S) ==
  \A r \in Rev :
    /\ r \in S => Built(r, f[r])
    /\ f[r] = "flawed" => PassedOver(r)
    /\ r \notin S /\ f[r] # "none" => Down[r] \subseteq S

(* Whoever is in an autocommit_block has nothing uncommitted. *)
BlocksCommit ==
  \A j \in Jobs : pc[j] = "block" \/ (pc[j] = "rest" /\ AtBlock(j)) => mode[j] = "auto"

(* A statement that outlives its process is one of the next revision. *)
OrphansInOrder ==
  \A j \in Jobs : pc[j] \in {"zfirst", "zrest"} =>
    \A r \in plan[j] : IsNext(way[j], plan[j], r) => Down[r] \subseteq Applied(stamped)

(* What is committed, and what each walk sees, is in order. *)
Climbing ==
  /\ BlocksCommit /\ OrphansInOrder
  /\ InOrder(schema, Applied(stamped))
  /\ \A j \in Jobs :
       /\ pc[j] \in {"zfirst", "zrest"} \cup Walking => way[j] = "upgrade"
       /\ pc[j] \in Walking => InOrder(View(j), Applied(heads[j]))
       /\ pc[j] = "stamp" =>
            \A r \in plan[j] : IsNext(way[j], plan[j], r) => Built(r, View(j)[r])

ReleaseInv == ReachInv /\ Climbing

-----------------------------------------------------------------------------
(* Releases side by side, as a lost lock session allows *)

(* Every walk is one transaction. *)
OneTransaction == \A j \in Jobs : mode[j] = "txn"

(* What walk j has crossed and not committed, and the revision it is in. *)
Crossed(j)   == Applied(heads[j]) \ Applied(stamped)
InHand(j, r) == pc[j] \in {"rest", "stamp"} /\ IsNext(way[j], plan[j], r)

(***************************************************************************)
(* A walk on the way up whose copy of the rows may be behind what another  *)
(* has committed: it still goes to its target, its rows add to what is     *)
(* committed what it has crossed, and no row it kept implies another.      *)
(***************************************************************************)
ClimbsTo(j, t) ==
  /\ way[j] = "upgrade"
  /\ plan[j] \subseteq Anc[t] \ Applied(heads[j])
  /\ Anc[t] \subseteq Applied(heads[j]) \cup plan[j]
  /\ Applied(heads[j]) \subseteq Applied(stamped) \cup Anc[t]

Beside(rows, copy, del, ins) ==
  LET seen == (rows \ del) \cup ins IN
  /\ Antichain(copy) /\ Antichain(seen)
  /\ del \subseteq Applied(copy)
  /\ ins \subseteq Applied(copy) \ Applied(rows)
  /\ Applied(seen) = Applied(rows) \cup Applied(copy)
  /\ seen \cap Applied(copy) \subseteq copy

(* Its transaction holds what it has crossed, and the one it is in. *)
Wrote(j) ==
  \A r \in Rev :
    /\ InHand(j, r) => /\ r \notin Applied(stamped)
                       /\ tx[j].eff[r] = IF pc[j] = "rest" THEN "part" ELSE "full"
    /\ ~InHand(j, r) => tx[j].eff[r] = IF r \in Crossed(j) THEN "full" ELSE "same"

(* No two walks have written the same revision. *)
Apart(j, k) == \A r \in Rev : tx[j].eff[r] = "same" \/ tx[k].eff[r] = "same"

Abreast ==
  /\ Antichain(stamped) /\ SchemaMatchesStamp
  /\ \A j \in Jobs : pc[j] \notin {"block", "zfirst", "zrest"}
  /\ \A j \in Jobs : pc[j] \in Walking =>
       /\ ClimbsTo(j, Target(j)) /\ Wrote(j)
       /\ Beside(stamped, heads[j], tx[j].del, tx[j].ins)
       /\ \A k \in Jobs \ {j} : pc[k] \in Walking => Apart(j, k)

RaceInv ==
  TypeOK /\ TargetKnown /\ AskedFor /\ Consented /\ NothingOpen /\ OneTransaction /\ Abreast

(* Nobody who was started was given --allow-destructive. *)
NoConsent == \A j \in Jobs : ~req[j].allow

(***************************************************************************)
(* Until somebody is, whatever became of the lock: what releases and       *)
(* pinned targets do side by side.                                         *)
(***************************************************************************)
ReleasesAbreast == NoConsent => RaceInv
=============================================================================
