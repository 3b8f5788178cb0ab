--------------------------- MODULE MCKeepMigrate ---------------------------
(***************************************************************************)
(* Instances of KeepMigrate for TLC.                                       *)
(***************************************************************************)
EXTENDS KeepMigrateInv, TLC

(***************************************************************************)
(* A diamond, the shape of 8176d7153747 -> {90e2d22edc6a, 876a424d8f06} -> *)
(* 35ebba262eb0 and of the graph's other merges.                           *)
(***************************************************************************)
DiamondRev  == 1..4
DiamondDown == [r \in 1..4 |-> CASE r = 1 -> {} [] r = 2 -> {1}
                                 [] r = 3 -> {1} [] r = 4 -> {2, 3}]
DiamondAnc  == [r \in 1..4 |-> CASE r = 1 -> {1} [] r = 2 -> {1, 2}
                                 [] r = 3 -> {1, 3} [] r = 4 -> 1..4]

(***************************************************************************)
(* Two merges that share a branch, the shape of a1b2c3d4e5f6 (1) with      *)
(* c4d5e6f7a8b9 (2), f3a4b5c6d7e8 (3), source_to_json (4), 3680b37fcc51    *)
(* (5) and merge_p2_alertstd (6): undoing 5 must leave 2 to 3's row.       *)
(***************************************************************************)
BraidRev  == 1..6
BraidDown == [r \in 1..6 |-> CASE r = 1 -> {} [] r = 2 -> {1} [] r = 3 -> {2}
                               [] r = 4 -> {1} [] r = 5 -> {2, 4} [] r = 6 -> {3, 5}]
BraidAnc  == [r \in 1..6 |-> CASE r = 1 -> {1} [] r = 2 -> 1..2 [] r = 3 -> 1..3
                               [] r = 4 -> {1, 4} [] r = 5 -> {1, 2, 4, 5} [] r = 6 -> 1..6]

(* A chain, the shape of the rest of it. *)
ChainRev  == 1..4
ChainDown == [r \in 1..4 |-> IF r = 1 THEN {} ELSE {r - 1}]
ChainAnc  == [r \in 1..4 |-> 1..r]

AllPlain == [r \in Rev |-> "plain"]

(* The run Mixed has an empty downgrade() for 3, as c4d5e6f7a8b9 does. *)
Mixed    == [r \in 1..4 |-> CASE r = 1 -> "plain" [] r = 2 -> "index"
                              [] r = 3 -> "backfill" [] r = 4 -> "plain"]
AllKinds == [r \in 1..4 |-> CASE r = 1 -> "plain" [] r = 2 -> "index"
                              [] r = 3 -> "manual" [] r = 4 -> "raw"]
BackfillByHand == [r \in 1..4 |-> IF r = 2 THEN "manual" ELSE "plain"]

JobSymmetry == Permutations(Jobs)

Release == {[cmd |-> "run", image |-> Rev, target |-> HEAD, allow |-> FALSE]}
Rollback(t)    == [cmd |-> "run", image |-> Rev, target |-> t, allow |-> TRUE]
Unconsented(t) == [cmd |-> "run", image |-> Rev, target |-> t, allow |-> FALSE]

(***************************************************************************)
(* A release, its rollback to one side of the diamond and to its base, a   *)
(* pinned target without consent, and an image built before the merge.     *)
(***************************************************************************)
DiamondRequests ==
  Release \cup {Rollback(2), Rollback(1), Unconsented(2),
                [cmd |-> "run", image |-> 1..2, target |-> HEAD, allow |-> TRUE]}
DiamondStamps == {{}, {1}, {4}}

BraidRequests == Release \cup {Rollback(4), Rollback(2), Unconsented(2), Unconsented(4)}
BraidStamps   == {{1}, {6}}

ChainRequests == Release \cup {Rollback(1), Rollback(3)}
ChainStamps   == {{}, {1}, {4}}

ChainReleases == Release \cup {Unconsented(3)}

(***************************************************************************)
(* Dry runs beside a release and a rollback.  Walking up over 4 drops a    *)
(* column, as e2b3c4d5f6a7 does, and so does walking down over 3; walking  *)
(* up over 2 wants a connection.                                           *)
(***************************************************************************)
Ask(c, t, a) == [cmd |-> c, image |-> 1..4, target |-> t, allow |-> a]
Asked == {Ask("sql", HEAD, FALSE), Ask("check", 3, FALSE), Ask("check", 1, FALSE)}
AskingChain   == ChainRequests \cup Asked
DryDrops      == {<<"upgrade", 4>>, <<"downgrade", 3>>}
DryInspects   == {<<"upgrade", 2>>}

(***************************************************************************)
(* A dry run of a rollback to the base of the diamond, after a rollback to *)
(* one side of it, of which only the other side drops something.           *)
(***************************************************************************)
AskingDiamond == {Rollback(2), Ask("check", 1, FALSE)}
SideDrops     == {<<"downgrade", 3>>}

-----------------------------------------------------------------------------
(* What the repository says of the program and the program does not do. *)

(***************************************************************************)
(* "A run with nothing pending exits 0" (README.md): a process that finds  *)
(* its target stamped does not end refused.                                *)
(***************************************************************************)
NothingPendingExitsZero ==
  [][\A j \in Jobs :
       pc[j] = "read" /\ req[j].cmd = "run" /\ Target(j) \in stamped
         => outcome'[j] # "refused"]_vars

(***************************************************************************)
(* "keep-migrate --check ... exit non-zero if the path is destructive"     *)
(* (README.md): when it passes without --allow-destructive, nothing        *)
(* alembic would cross from the rows as they are emits a destructive       *)
(* statement.                                                              *)
(***************************************************************************)
CheckSeesWholePath ==
  [][\A j \in Jobs : \A d \in Ways : \A row \in Readings :
       /\ pc[j] = "read" /\ outcome'[j] = "dryrun"
       /\ req[j].cmd = "check" /\ ~req[j].allow
       /\ Direction(req[j].image, row, Target(j)) = d
       => ({d} \X Path(d, stamped, Target(j))) \cap Drops = {}]_vars
=============================================================================
