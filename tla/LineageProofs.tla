---------------------------- MODULE LineageProofs ----------------------------
(***************************************************************************)
(* What walks over the 127 scripts do to alembic_version and how sound     *)
(* they leave the catalog, for any targets.  That no script fails and that *)
(* a rollback leaves what a fresh build makes depends on what each script  *)
(* says: those TLC checks by walking them.                                 *)
(***************************************************************************)
EXTENDS Lineage, FiniteSetTheorems, TLAPS

Map == INSTANCE RevisionMapProofs
         WITH Rev <- HistoryRev, Down <- HistoryDown, Anc <- HistoryAnc

-----------------------------------------------------------------------------
(***************************************************************************)
(* The history is a revision map, so what RevisionMapProofs says of one    *)
(* holds of it.                                                            *)
(***************************************************************************)
LEMMA HistoryIsMap ==
  /\ Len(History) \in Nat /\ HistoryRev = 1..Len(History)
  /\ HistoryRev \in SUBSET (Nat \ {0}) /\ Map!IsFiniteSet(HistoryRev)
  /\ HistoryDown \in [HistoryRev -> SUBSET HistoryRev]
  /\ \A r \in HistoryRev : \A d \in HistoryDown[r] : d < r
  /\ HistoryAnc \in [HistoryRev -> SUBSET HistoryRev]
  /\ \A r \in HistoryRev :
       HistoryAnc[r] = {r} \cup UNION {HistoryAnc[d] : d \in HistoryDown[r]}
  <1>1. Len(History) \in Nat /\ HistoryRev = 1..Len(History)
    BY HistoryAssumption
  <1>2. IsFiniteSet(HistoryRev)
    BY <1>1, FS_Interval
  <1>3. Map!IsFiniteSet(HistoryRev)
    BY <1>2, Zenon DEF IsFiniteSet, Map!IsFiniteSet
  <1>4. HistoryDown \in [HistoryRev -> SUBSET HistoryRev]
    BY DEF HistoryDown, DownOf, HistoryRev
  <1>5. \A r \in HistoryRev : \A d \in HistoryDown[r] : d < r
    BY HistoryAssumption
  <1>6. /\ HistoryAnc \in [HistoryRev -> SUBSET HistoryRev]
        /\ \A r \in HistoryRev :
             HistoryAnc[r] = {r} \cup UNION {HistoryAnc[d] : d \in HistoryDown[r]}
    BY HistoryAssumption
  <1> QED BY <1>1, <1>3, <1>4, <1>5, <1>6

LEMMA HistoryAncestors ==
  ASSUME NEW r \in HistoryRev
  PROVE  /\ HistoryAnc[r] \subseteq HistoryRev /\ r \in HistoryAnc[r]
         /\ \A a \in HistoryAnc[r] : a <= r /\ HistoryAnc[a] \subseteq HistoryAnc[r]
  <1>1. /\ HistoryAnc[r] \subseteq HistoryRev /\ r \in HistoryAnc[r]
        /\ HistoryDown[r] \subseteq HistoryRev /\ HistoryDown[r] \subseteq HistoryAnc[r]
        /\ \A d \in HistoryDown[r] :
             HistoryAnc[d] \subseteq HistoryAnc[r] /\ r \notin HistoryAnc[d]
        /\ \A a \in HistoryAnc[r] : a <= r /\ HistoryAnc[a] \subseteq HistoryAnc[r]
    BY HistoryIsMap, Map!AncBasics, Zenon
  <1> QED BY <1>1, Zenon

(* A set of numbers that is not empty has a least one. *)
LEMMA Least ==
  ASSUME NEW T, T \subseteq Nat, T # {}
  PROVE  \E n \in T : \A m \in T : n <= m
  BY HistoryIsMap, Map!FirstOf, Zenon

LEMMA HistoryApplied ==
  ASSUME NEW rs \in SUBSET HistoryRev
  PROVE  /\ Applied(rs) \subseteq HistoryRev /\ rs \subseteq Applied(rs)
         /\ \A a \in Applied(rs) : HistoryAnc[a] \subseteq Applied(rs)
  BY HistoryIsMap, Map!AppliedBasics, Zenon DEF Applied, Map!Applied

LEMMA HistoryTips ==
  ASSUME NEW rs \in SUBSET HistoryRev
  PROVE  Tips(Applied(rs)) = rs <=> Antichain(rs)
  BY HistoryIsMap, Map!TipsAntichain, Zenon
     DEF Applied, Antichain, Tips, Map!Applied, Map!Antichain, Map!Tips

LEMMA HistoryRollback ==
  ASSUME NEW rs \in SUBSET HistoryRev, NEW t \in HistoryRev
  PROVE  DowngradePath(rs, t) = Above(t) \cap Applied(rs)
  <1>1. Map!DowngradePath(rs, t) = Map!Above(t) \cap Map!Applied(rs)
    BY HistoryIsMap, Map!DowngradePathIs, Zenon
  <1>2. DowngradePath(rs, t) = Map!DowngradePath(rs, t)
    BY Zenon DEF Applied, DowngradePath, Map!Applied, Map!DowngradePath
  <1>3. Above(t) = Map!Above(t) /\ Applied(rs) = Map!Applied(rs)
    BY Zenon DEF Above, Applied, Map!Above, Map!Applied
  <1> QED BY <1>1, <1>2, <1>3, Zenon

(* One restamp up, of a revision whose ancestors are applied. *)
LEMMA HistoryUp ==
  ASSUME NEW rs \in SUBSET HistoryRev, Antichain(rs), NEW r \in HistoryRev,
         r \notin Applied(rs), HistoryAnc[r] \ {r} \subseteq Applied(rs)
  PROVE  /\ RowsUp(rs, r) \in SUBSET HistoryRev /\ Antichain(RowsUp(rs, r))
         /\ Applied(RowsUp(rs, r)) = Applied(rs) \cup {r}
  <1>1. Antichain(RowsUp(rs, r))
    BY HistoryIsMap, Map!RowsUpTips, Zenon
       DEF Antichain, Applied, RowsUp, Map!Antichain, Map!Applied, Map!RowsUp
  <1>2. Applied(RowsUp(rs, r)) = Applied(rs) \cup HistoryAnc[r]
    BY HistoryIsMap, Map!RowsUpApplied, Zenon
       DEF Applied, RowsUp, Map!Applied, Map!RowsUp
  <1>3. Applied(RowsUp(rs, r)) = Applied(rs) \cup {r}
    BY <1>2, HistoryAncestors
  <1> QED BY <1>1, <1>3 DEF RowsUp

(* One restamp down, of a row. *)
LEMMA HistoryStepDown ==
  ASSUME NEW rs \in SUBSET HistoryRev, Antichain(rs), NEW r \in rs
  PROVE  /\ RowsDown(rs, r) \in SUBSET HistoryRev /\ Antichain(RowsDown(rs, r))
         /\ Applied(RowsDown(rs, r)) = Applied(rs) \ {r}
  <1>1. Antichain(RowsDown(rs, r))
    BY HistoryIsMap, HistoryAssumption, Map!RowsDownTips, Zenon
       DEF Antichain, Applied, RowsDown, ShortcutsImplied,
           Map!Antichain, Map!Applied, Map!RowsDown, Map!ShortcutsImplied
  <1>2. \A b \in rs : r \in HistoryAnc[b] => b = r
    BY DEF Antichain
  <1>3. Applied(RowsDown(rs, r)) = Applied(rs) \ {r}
    BY <1>2, HistoryIsMap, Map!RowsDownExact, Zenon
       DEF Applied, RowsDown, Map!Applied, Map!RowsDown
  <1>4. RowsDown(rs, r) \in SUBSET HistoryRev
    BY HistoryIsMap DEF RowsDown
  <1> QED BY <1>1, <1>3, <1>4

-----------------------------------------------------------------------------
(***************************************************************************)
(* A path can be walked from rows rs: on the way up what a revision stands *)
(* on is applied or on the path, on the way down so is what stands on it.  *)
(***************************************************************************)
Ways == {"upgrade", "downgrade"}

Walkable(way, path, rs) ==
  IF way = "upgrade"
  THEN /\ path \subseteq HistoryRev \ Applied(rs)
       /\ \A r \in path : HistoryAnc[r] \subseteq Applied(rs) \cup path
  ELSE /\ path \subseteq Applied(rs)
       /\ \A b \in Applied(rs) : \A r \in path : r \in HistoryAnc[b] => b \in path

LEMMA PathWalkable ==
  ASSUME NEW way \in Ways, NEW rs \in SUBSET HistoryRev, NEW t \in HistoryRev
  PROVE  Walkable(way, Path(way, rs, t), rs)
  <1>1. CASE way = "upgrade"
    <2>1. Path(way, rs, t) = HistoryAnc[t] \ Applied(rs)
      BY <1>1 DEF Path, UpgradePath
    <2>2. Path(way, rs, t) \subseteq HistoryRev \ Applied(rs)
      BY <2>1, HistoryAncestors
    <2>3. ASSUME NEW r \in Path(way, rs, t)
          PROVE  HistoryAnc[r] \subseteq Applied(rs) \cup Path(way, rs, t)
      BY <2>1, HistoryAncestors
    <2> QED BY <1>1, <2>2, <2>3 DEF Walkable
  <1>2. CASE way = "downgrade"
    <2>1. Path(way, rs, t) = Above(t) \cap Applied(rs)
      BY <1>2, HistoryRollback DEF Path
    <2>2. ASSUME NEW b \in Applied(rs), NEW r \in Path(way, rs, t),
                 r \in HistoryAnc[b]
          PROVE  b \in Path(way, rs, t)
      <3>1. b \in HistoryRev /\ r \in HistoryRev /\ t \in HistoryAnc[r] \ {r}
        BY <2>1, HistoryApplied DEF Above
      <3>2. t \in HistoryAnc[b] /\ t <= r /\ r <= b
        BY <2>2, <3>1, HistoryAncestors
      <3>3. t # b
        BY <3>1, <3>2, HistoryIsMap
      <3> QED BY <2>1, <3>1, <3>2, <3>3 DEF Above
    <2> QED BY <1>2, <2>1, <2>2 DEF Walkable
  <1> QED BY <1>1, <1>2 DEF Ways

(* What of a path n steps over the history have crossed. *)
Behind(way, path, n) ==
  {r \in path : IF way = "upgrade" THEN r <= n ELSE r > Len(History) - n}

(* What is applied when S of a path from rs is crossed. *)
AppliedPast(way, rs, S) ==
  IF way = "upgrade" THEN Applied(rs) \cup S ELSE Applied(rs) \ S

(* Rows alembic_version may hold on a walk over path from rs. *)
RowsOnWay(way, path, rs, on) ==
  /\ on \in SUBSET HistoryRev /\ Antichain(on)
  /\ \E S \in SUBSET path : Applied(on) = AppliedPast(way, rs, S)

LEMMA BehindStep ==
  ASSUME NEW way \in Ways, NEW path \in SUBSET HistoryRev, NEW n \in Nat \ {0}
  PROVE  /\ Nth(way, n) \in path =>
              Behind(way, path, n) = Behind(way, path, n-1) \cup {Nth(way, n)}
         /\ Nth(way, n) \notin path =>
              Behind(way, path, n) = Behind(way, path, n-1)
  <1>1. \A r \in path : r \in Int
    BY HistoryIsMap
  <1>2. Len(History) \in Nat
    BY HistoryIsMap
  <1>3. CASE way = "upgrade"
    BY <1>1, <1>2, <1>3 DEF Behind, Nth
  <1>4. CASE way = "downgrade"
    BY <1>1, <1>2, <1>4 DEF Behind, Nth
  <1> QED BY <1>3, <1>4 DEF Ways

(***************************************************************************)
(* Restamping the n-th revision of a walk keeps alembic_version the tips   *)
(* of what is applied: the rows are those of the history up to there.      *)
(***************************************************************************)
LEMMA RestampOnWay ==
  ASSUME NEW way \in Ways, NEW rs \in SUBSET HistoryRev, NEW path \in SUBSET HistoryRev,
         Walkable(way, path, rs), NEW n \in Nat \ {0}, Nth(way, n) \in path,
         NEW on \in SUBSET HistoryRev, Antichain(on),
         Applied(on) = AppliedPast(way, rs, Behind(way, path, n-1))
  PROVE  LET next == Restamp(way, on, Nth(way, n))
         IN  /\ next \in SUBSET HistoryRev /\ Antichain(next)
             /\ Applied(next) = AppliedPast(way, rs, Behind(way, path, n))
  <1> DEFINE r == Nth(way, n)
  <1>1. r \in HistoryRev /\ r \in Nat /\ Len(History) \in Nat
    BY HistoryIsMap
  <1>2. \A q \in path : q \in Nat
    BY HistoryIsMap
  <1>3. Behind(way, path, n) = Behind(way, path, n-1) \cup {r}
    BY BehindStep
  <1>4. CASE way = "upgrade"
    <2>1. r = n
      BY <1>4 DEF Nth
    <2>2. r \notin Applied(on)
      BY <1>2, <1>4, <2>1 DEF AppliedPast, Behind, Walkable
    <2>3. ASSUME NEW a \in HistoryAnc[r] \ {r} PROVE a \in Applied(on)
      <3>1. a \in HistoryRev /\ a <= r
        BY <1>1, HistoryAncestors
      <3>2. a \in Nat /\ a <= n - 1
        BY <2>1, <3>1, HistoryIsMap
      <3>3. a \in Applied(rs) \cup path
        BY <1>4 DEF Walkable
      <3> QED BY <1>4, <3>2, <3>3 DEF AppliedPast, Behind
    <2>4. Restamp(way, on, r) = RowsUp(on, r)
      BY <1>4 DEF Restamp
    <2>5. /\ RowsUp(on, r) \in SUBSET HistoryRev /\ Antichain(RowsUp(on, r))
          /\ Applied(RowsUp(on, r)) = Applied(on) \cup {r}
      BY <1>1, <2>2, <2>3, HistoryUp
    <2>6. Applied(RowsUp(on, r)) = AppliedPast(way, rs, Behind(way, path, n))
      BY <1>3, <1>4, <2>5 DEF AppliedPast
    <2> QED BY <2>4, <2>5, <2>6
  <1>5. CASE way = "downgrade"
    <2>1. r = Len(History) + 1 - n
      BY <1>5 DEF Nth
    <2>2. r \in Applied(on)
      BY <1>1, <1>2, <1>5, <2>1 DEF AppliedPast, Behind, Walkable
    <2>3. ASSUME NEW b \in on, r \in HistoryAnc[b] PROVE b = r
      <3>1. b \in HistoryRev /\ b \in Applied(on) /\ r <= b /\ b \in Nat
        BY <2>3, HistoryAncestors, HistoryApplied, HistoryIsMap
      <3>2. b \in Applied(rs) /\ b \notin Behind(way, path, n-1)
        BY <1>5, <3>1 DEF AppliedPast
      <3>3. b \in path
        BY <1>5, <2>3, <3>2 DEF Walkable
      <3>4. ~ (b > Len(History) - (n - 1))
        BY <1>5, <3>2, <3>3 DEF Behind
      <3> QED BY <1>1, <2>1, <3>1, <3>4
    <2>4. r \in on
      BY <2>2, <2>3 DEF Applied
    <2>5. Restamp(way, on, r) = RowsDown(on, r)
      BY <1>5 DEF Restamp
    <2>6. /\ RowsDown(on, r) \in SUBSET HistoryRev /\ Antichain(RowsDown(on, r))
          /\ Applied(RowsDown(on, r)) = Applied(on) \ {r}
      BY <2>4, HistoryStepDown
    <2>7. Applied(RowsDown(on, r)) = AppliedPast(way, rs, Behind(way, path, n))
      BY <1>3, <1>5, <2>6 DEF AppliedPast
    <2> QED BY <2>5, <2>6, <2>7
  <1> QED BY <1>4, <1>5 DEF Ways

-----------------------------------------------------------------------------
(***************************************************************************)
(* The catalog.  An edit that fits leaves no loose end, and neither does   *)
(* as much of a script as fits.                                            *)
(***************************************************************************)
LEMMA EditWellBuilt ==
  ASSUME NEW e, NEW c, WellBuilt(c), Fits(e, c),
         \A o \in e.makes :
           /\ Len(o) \in 1..4 /\ (Len(o) = 1 => o = <<o[1]>>)
           /\ <<o[1]>> \notin e.drops
           /\ Len(o) = 4 => <<o[4]>> \notin e.drops
  PROVE  WellBuilt(Edited(e, c))
  <1>1. ASSUME NEW o \in c, o \notin e.drops, <<o[1]>> \notin e.drops
        PROVE  /\ Len(o) \in 1..4 /\ <<o[1]>> \in Edited(e, c)
               /\ Len(o) = 4 => <<o[4]>> \in Edited(e, c)
    <2>1. Len(o) \in 1..4 /\ <<o[1]>> \in c /\ (Len(o) = 4 => <<o[4]>> \in c)
      BY DEF WellBuilt
    <2>2. Len(o) = 4 => <<o[4]>> \notin e.drops
      BY <1>1 DEF Fits
    <2> QED BY <1>1, <2>1, <2>2 DEF Edited
  <1>2. ASSUME NEW t, <<t>> \in c \cup e.makes, <<t>> \notin e.drops
        PROVE  <<t>> \in Edited(e, c)
    BY <1>2 DEF Edited
  <1>3. ASSUME NEW o \in e.makes
        PROVE  /\ Len(o) \in 1..4 /\ <<o[1]>> \in Edited(e, c)
               /\ Len(o) = 4 => <<o[4]>> \in Edited(e, c)
    <2>1. Len(o) \in 1..4 /\ o \in c \cup e.makes
      OBVIOUS
    <2>2. <<o[1]>> \in c \cup e.makes
      <3>1. CASE Len(o) = 1
        BY <3>1
      <3>2. CASE Len(o) > 1
        BY <3>2 DEF Fits
      <3> QED BY <2>1, <3>1, <3>2
    <2>3. Len(o) = 4 => <<o[4]>> \in c \cup e.makes
      BY DEF Fits
    <2> QED BY <1>2, <2>1, <2>2, <2>3
  <1> QED BY <1>1, <1>3 DEF WellBuilt, Edited

(* The states of the catalog along a script, edit by edit. *)
LEMMA ExecutedIs ==
  ASSUME NEW edits, Len(edits) \in Nat, NEW c
  PROVE  \E after :
           /\ after = [n \in 0..Len(edits) |->
                         IF n = 0 THEN [fits |-> TRUE, schema |-> c]
                         ELSE Continued(edits[n], after[n-1])]
           /\ Executed(edits, c) = after[Len(edits)]
  <1> DEFINE Is(n, f) ==
               f = [i \in 0..n |-> IF i = 0 THEN [fits |-> TRUE, schema |-> c]
                                   ELSE Continued(edits[i], f[i-1])]
             Bad == {n \in 0..Len(edits) : ~ \E f : Is(n, f)}
  <1>1. Bad = {}
    <2> SUFFICES ASSUME Bad # {} PROVE FALSE
      OBVIOUS
    <2>1. PICK n \in Bad : \A m \in Bad : n <= m
      <3>1. Bad \subseteq Nat /\ Bad # {}
        OBVIOUS
      <3> HIDE DEF Bad
      <3> QED BY <3>1, Least
    <2>2. n # 0
      <3>1. Is(0, [i \in 0..0 |-> [fits |-> TRUE, schema |-> c]])
        OBVIOUS
      <3> QED BY <3>1
    <2>3. PICK f : Is(n-1, f)
      BY <2>1, <2>2
    <2> DEFINE g == [i \in 0..n |-> IF i = n THEN Continued(edits[n], f[n-1]) ELSE f[i]]
    <2>4. Is(n, g)
      <3>1. ASSUME NEW i \in 0..n
            PROVE  g[i] = IF i = 0 THEN [fits |-> TRUE, schema |-> c]
                          ELSE Continued(edits[i], g[i-1])
        <4>1. CASE i = n
          BY <2>2, <4>1
        <4>2. CASE i # n
          <5>1. i \in 0..(n-1) /\ g[i] = f[i]
            BY <4>2
          <5>2. f[i] = IF i = 0 THEN [fits |-> TRUE, schema |-> c]
                       ELSE Continued(edits[i], f[i-1])
            BY <2>3, <5>1
          <5>3. i # 0 => g[i-1] = f[i-1]
            BY <5>1
          <5> QED BY <5>1, <5>2, <5>3
        <4> QED BY <4>1, <4>2
      <3> HIDE DEF g
      <3>2. g = [i \in 0..n |-> g[i]]
        BY DEF g
      <3> QED BY <3>1, <3>2
    <2> QED BY <2>4
  <1>2. PICK f : Is(Len(edits), f)
    BY <1>1
  <1>3. \E after : after = [n \in 0..Len(edits) |->
                     IF n = 0 THEN [fits |-> TRUE, schema |-> c]
                     ELSE Continued(edits[n], after[n-1])]
    BY <1>2
  <1> QED BY <1>3, Zenon DEF Executed

(* A script, run to its end or stopped, leaves no loose end either. *)
LEMMA ExecutedWellBuilt ==
  ASSUME NEW way \in Ways, NEW r \in HistoryRev, NEW c, WellBuilt(c)
  PROVE  WellBuilt(Executed(EditsOf(way, History[r]), c).schema)
  <1> DEFINE edits == EditsOf(way, History[r])
  <1>1. edits \in {History[r].up, History[r].back}
    BY DEF EditsOf
  <1> HIDE DEF edits
  <1>2. /\ Len(edits) \in Nat
        /\ \A i \in 1..Len(edits) : \A o \in edits[i].makes :
             /\ Len(o) \in 1..4 /\ (Len(o) = 1 => o = <<o[1]>>)
             /\ <<o[1]>> \notin edits[i].drops
             /\ Len(o) = 4 => <<o[4]>> \notin edits[i].drops
    BY <1>1, EditsAssumption
  <1>3. PICK after :
          /\ after = [n \in 0..Len(edits) |->
                        IF n = 0 THEN [fits |-> TRUE, schema |-> c]
                        ELSE Continued(edits[n], after[n-1])]
          /\ Executed(edits, c) = after[Len(edits)]
    BY <1>2, ExecutedIs
  <1> DEFINE Good(x) == x = [fits |-> x.fits, schema |-> x.schema] /\ WellBuilt(x.schema)
             Bad == {n \in 0..Len(edits) : ~ Good(after[n])}
  <1>4. ASSUME NEW n \in 1..Len(edits), Good(after[n-1]) PROVE Good(after[n])
    <2>1. after[n] = Continued(edits[n], after[n-1])
      <3>1. n \in 0..Len(edits) /\ n # 0
        BY <1>2
      <3> QED BY <1>3, <3>1, Zenon
    <2>2. CASE after[n-1].fits /\ Fits(edits[n], after[n-1].schema)
      <3>1. after[n] = [fits |-> TRUE, schema |-> Edited(edits[n], after[n-1].schema)]
        BY <2>1, <2>2 DEF Continued
      <3>2. WellBuilt(Edited(edits[n], after[n-1].schema))
        BY <1>2, <1>4, <2>2, EditWellBuilt
      <3> QED BY <3>1, <3>2
    <2>3. CASE ~ (after[n-1].fits /\ Fits(edits[n], after[n-1].schema))
      <3>1. after[n] = [fits |-> after[n-1].fits /\ ~edits[n].must,
                        schema |-> after[n-1].schema]
        BY <2>1, <2>3, Zenon DEF Continued
      <3> QED BY <1>4, <3>1
    <2> QED BY <2>2, <2>3
  <1>5. Good(after[0])
    <2>1. after[0] = [fits |-> TRUE, schema |-> c]
      BY <1>2, <1>3
    <2> QED BY <2>1
  <1> HIDE DEF Good
  <1>6. Bad = {}
    <2> SUFFICES ASSUME Bad # {} PROVE FALSE
      OBVIOUS
    <2>1. PICK n \in Bad : \A m \in Bad : n <= m
      <3>1. Bad \subseteq Nat /\ Bad # {}
        BY <1>2
      <3> HIDE DEF Bad
      <3> QED BY <3>1, Least
    <2>2. n # 0 /\ n \in 0..Len(edits) /\ ~ Good(after[n])
      BY <1>5, <2>1
    <2>3. Good(after[n-1])
      BY <1>2, <2>1, <2>2
    <2> QED BY <1>2, <1>4, <2>2, <2>3
  <1>7. Good(after[Len(edits)])
    BY <1>2, <1>6
  <1> QED BY <1>3, <1>7 DEF Good, edits

-----------------------------------------------------------------------------
(***************************************************************************)
(* A walk.  What it sees and what it has committed are, at each revision   *)
(* it passes, rows that are tips and catalogs without loose ends.          *)
(***************************************************************************)
Shaped(at) ==
  /\ at = [rows |-> at.rows, schema |-> at.schema, stuck |-> at.stuck,
           alone |-> at.alone, saved |-> at.saved]
  /\ at.saved = [rows |-> at.saved.rows, schema |-> at.saved.schema]

(* at, when the walk over path from rs has passed n revisions. *)
OnWay(way, path, rs, n, at) ==
  /\ Shaped(at)
  /\ RowsOnWay(way, path, rs, at.rows) /\ RowsOnWay(way, path, rs, at.saved.rows)
  /\ WellBuilt(at.schema) /\ WellBuilt(at.saved.schema)
  /\ at.stuck = NoStep =>
       Applied(at.rows) = AppliedPast(way, rs, Behind(way, path, n))
  /\ at.stuck # NoStep => at.stuck[1] = way /\ at.stuck[2] \in HistoryRev

(* A revision crossed, or failed at, is a record like those before it. *)
LEMMA CrossedIs ==
  ASSUME NEW way, NEW r, NEW script, NEW at, Shaped(at), NEW ran, NEW stamped
  PROVE  LET next == Crossed(way, r, script, at, ran, stamped)
         IN  /\ Shaped(next)
             /\ ran.fits =>
                  /\ next.rows = stamped /\ next.schema = ran.schema
                  /\ next.stuck = NoStep
             /\ ~ ran.fits =>
                  /\ next.rows = at.rows /\ next.schema = at.schema
                  /\ next.stuck = <<way, r>>
             /\ next.saved.rows \in {at.saved.rows, at.rows, next.rows}
             /\ next.saved.schema \in {at.saved.schema, ran.schema}
  <1>1. CASE ran.fits
    <2>1. Crossed(way, r, script, at, ran, stamped) =
            [rows |-> stamped, schema |-> ran.schema, stuck |-> NoStep,
             alone |-> Alone(way, script, at),
             saved |-> Saved(way, script, at, ran.schema, stamped)]
      BY <1>1 DEF Crossed
    <2>2. Saved(way, script, at, ran.schema, stamped) \in
            {[rows |-> stamped, schema |-> ran.schema],
             [rows |-> at.rows, schema |-> ran.schema], at.saved}
      BY DEF Saved
    <2> QED BY <1>1, <2>1, <2>2 DEF Shaped
  <1>2. CASE ~ ran.fits
    <2> DEFINE kept == IF Alone(way, script, at) \/ Blocks(way, script)
                       THEN [rows |-> at.rows, schema |-> ran.schema]
                       ELSE at.saved
    <2>1. Crossed(way, r, script, at, ran, stamped) =
            [at EXCEPT !.stuck = <<way, r>>, !.saved = kept]
      BY <1>2 DEF Crossed
    <2>2. Crossed(way, r, script, at, ran, stamped) =
            [rows |-> at.rows, schema |-> at.schema, stuck |-> <<way, r>>,
             alone |-> at.alone, saved |-> kept]
      BY <2>1 DEF Shaped
    <2>3. kept \in {[rows |-> at.rows, schema |-> ran.schema], at.saved}
      OBVIOUS
    <2> HIDE DEF kept
    <2> QED BY <1>2, <2>2, <2>3 DEF Shaped
  <1> QED BY <1>1, <1>2

(* One revision more. *)
LEMMA PassedOnWay ==
  ASSUME NEW way \in Ways, NEW rs \in SUBSET HistoryRev, NEW path \in SUBSET HistoryRev,
         Walkable(way, path, rs), NEW n \in Nat \ {0}, NEW at,
         OnWay(way, path, rs, n-1, at)
  PROVE  OnWay(way, path, rs, n, Passed(way, path, n, at))
  <1> DEFINE r == Nth(way, n)
  <1>1. CASE at.stuck # NoStep
    <2>1. Passed(way, path, n, at) = at
      BY <1>1 DEF Passed
    <2> QED BY <1>1, <2>1 DEF OnWay
  <1>2. CASE at.stuck = NoStep /\ r \notin path
    <2>1. Passed(way, path, n, at) = at
      BY <1>2 DEF Passed
    <2>2. Behind(way, path, n) = Behind(way, path, n-1)
      BY <1>2, BehindStep
    <2> QED BY <1>2, <2>1, <2>2 DEF OnWay
  <1>3. CASE at.stuck = NoStep /\ r \in path
    <2> DEFINE ran     == Executed(EditsOf(way, History[r]), at.schema)
               stamped == Restamp(way, at.rows, r)
               next    == Passed(way, path, n, at)
    <2>1. next = Crossed(way, r, History[r], at, ran, stamped)
      BY <1>3 DEF Passed, Cross
    <2>2. r \in HistoryRev /\ WellBuilt(ran.schema)
      BY <1>3, ExecutedWellBuilt DEF OnWay
    <2>3. /\ stamped \in SUBSET HistoryRev /\ Antichain(stamped)
          /\ Applied(stamped) = AppliedPast(way, rs, Behind(way, path, n))
      BY <1>3, RestampOnWay DEF OnWay, RowsOnWay
    <2>4. RowsOnWay(way, path, rs, stamped)
      BY <2>3 DEF RowsOnWay, Behind
    <2> HIDE DEF ran, stamped, next, r
    <2>5. /\ Shaped(next)
          /\ ran.fits =>
               /\ next.rows = stamped /\ next.schema = ran.schema
               /\ next.stuck = NoStep
          /\ ~ ran.fits =>
               /\ next.rows = at.rows /\ next.schema = at.schema
               /\ next.stuck = <<way, r>>
          /\ next.saved.rows \in {at.saved.rows, at.rows, next.rows}
          /\ next.saved.schema \in {at.saved.schema, ran.schema}
      <3>1. Shaped(at)
        BY DEF OnWay
      <3>2. LET x == Crossed(way, r, History[r], at, ran, stamped)
            IN  /\ Shaped(x)
                /\ ran.fits =>
                     /\ x.rows = stamped /\ x.schema = ran.schema
                     /\ x.stuck = NoStep
                /\ ~ ran.fits =>
                     /\ x.rows = at.rows /\ x.schema = at.schema
                     /\ x.stuck = <<way, r>>
                /\ x.saved.rows \in {at.saved.rows, at.rows, x.rows}
                /\ x.saved.schema \in {at.saved.schema, ran.schema}
        BY <3>1, CrossedIs, Zenon
      <3> QED BY <2>1, <3>2, Zenon
    <2>6. RowsOnWay(way, path, rs, next.rows) /\ WellBuilt(next.schema)
      BY <2>2, <2>4, <2>5 DEF OnWay
    <2>7. RowsOnWay(way, path, rs, next.saved.rows) /\ WellBuilt(next.saved.schema)
      BY <2>2, <2>5, <2>6 DEF OnWay
    <2>8. next.stuck = NoStep =>
            Applied(next.rows) = AppliedPast(way, rs, Behind(way, path, n))
      BY <2>3, <2>5 DEF NoStep
    <2>9. next.stuck # NoStep => next.stuck[1] = way /\ next.stuck[2] \in HistoryRev
      BY <2>2, <2>5
    <2>10. OnWay(way, path, rs, n, next)
      BY <2>5, <2>6, <2>7, <2>8, <2>9 DEF OnWay
    <2> QED BY <2>10 DEF next
  <1> QED BY <1>1, <1>2, <1>3

(* The states of a walk within a stretch, and from stretch to stretch. *)
WithinStretch(way, path, k, at, on) ==
  on = [i \in 0..Stretch |->
          IF i = 0 THEN at ELSE Passed(way, path, Stretch * (k-1) + i, on[i-1])]

FromStretch(way, path, rs, c, after) ==
  after = [k \in 0..Stretches |->
             IF k = 0 THEN Departure(rs, c) ELSE Along(way, path, k, after[k-1])]

LEMMA StretchIs ==
  ASSUME NEW way, NEW path, NEW k, NEW at
  PROVE  \E on : WithinStretch(way, path, k, at, on)
  <1> DEFINE Step(i, x) == Passed(way, path, Stretch * (k-1) + i, x)
             Is(n, f) == f = [i \in 0..n |-> IF i = 0 THEN at ELSE Step(i, f[i-1])]
             Bad == {n \in 0..Stretch : ~ \E f : Is(n, f)}
  <1>1. Stretch \in Nat
    BY DEF Stretch
  <1> HIDE DEF Step
  <1>2. Bad = {}
    <2> SUFFICES ASSUME Bad # {} PROVE FALSE
      OBVIOUS
    <2>1. PICK n \in Bad : \A m \in Bad : n <= m
      <3>1. Bad \subseteq Nat /\ Bad # {}
        BY <1>1
      <3> HIDE DEF Bad
      <3> QED BY <3>1, Least
    <2>2. n \in 0..Stretch /\ n # 0
      <3>1. Is(0, [i \in 0..0 |-> at])
        OBVIOUS
      <3> QED BY <3>1
    <2>3. PICK f : Is(n-1, f)
      BY <1>1, <2>1, <2>2
    <2> DEFINE g == [i \in 0..n |-> IF i = n THEN Step(n, f[n-1]) ELSE f[i]]
    <2>4. Is(n, g)
      <3>1. ASSUME NEW i \in 0..n
            PROVE  g[i] = IF i = 0 THEN at ELSE Step(i, g[i-1])
        <4>1. CASE i = n
          BY <2>2, <4>1
        <4>2. CASE i # n
          <5>1. i \in 0..(n-1) /\ g[i] = f[i]
            BY <4>2
          <5>2. f[i] = IF i = 0 THEN at ELSE Step(i, f[i-1])
            BY <2>3, <5>1
          <5>3. i # 0 => g[i-1] = f[i-1]
            BY <5>1
          <5> QED BY <5>1, <5>2, <5>3
        <4> QED BY <4>1, <4>2
      <3> HIDE DEF g
      <3>2. g = [i \in 0..n |-> g[i]]
        BY DEF g
      <3> QED BY <3>1, <3>2
    <2> QED BY <2>4
  <1>3. PICK f : Is(Stretch, f)
    <2>1. Stretch \in 0..Stretch
      BY <1>1
    <2> QED BY <1>2, <2>1, Zenon
  <1>4. WithinStretch(way, path, k, at, f)
    BY <1>3, Zenon DEF Step, WithinStretch
  <1> QED BY <1>4

(* A stretch more. *)
LEMMA AlongOnWay ==
  ASSUME NEW way \in Ways, NEW rs \in SUBSET HistoryRev, NEW path \in SUBSET HistoryRev,
         Walkable(way, path, rs), NEW k \in Nat \ {0}, NEW at,
         OnWay(way, path, rs, Stretch * (k-1), at)
  PROVE  OnWay(way, path, rs, Stretch * k, Along(way, path, k, at))
  <1>1. CASE at.stuck # NoStep
    <2>1. Along(way, path, k, at) = at
      BY <1>1, Zenon DEF Along
    <2> QED BY <1>1, <2>1 DEF OnWay
  <1>2. CASE at.stuck = NoStep
    <2>1. PICK g : WithinStretch(way, path, k, at, g)
      BY StretchIs
    <2>2. \E on : WithinStretch(way, path, k, at, on) /\ Along(way, path, k, at) = on[Stretch]
      BY <1>2, <2>1, Zenon DEF Along, WithinStretch
    <2>3. PICK f : WithinStretch(way, path, k, at, f) /\ Along(way, path, k, at) = f[Stretch]
      BY <2>2
    <2> DEFINE Good(i) == OnWay(way, path, rs, Stretch * (k-1) + i, f[i])
               Bad == {i \in 0..Stretch : ~ Good(i)}
    <2>4. Stretch \in Nat /\ Stretch * (k-1) \in Nat /\ Stretch * (k-1) + Stretch = Stretch * k
      BY DEF Stretch
    <2>5. Good(0)
      <3>1. f[0] = at
        <4>1. 0 \in 0..Stretch
          BY <2>4
        <4> QED BY <2>3, <4>1, Zenon DEF WithinStretch
      <3>2. Stretch * (k-1) + 0 = Stretch * (k-1)
        BY <2>4
      <3> QED BY <3>1, <3>2
    <2>6. ASSUME NEW i \in 1..Stretch, Good(i-1) PROVE Good(i)
      <3> DEFINE n == Stretch * (k-1) + i
      <3>1. i \in 0..Stretch /\ i # 0
        BY <2>4
      <3>2. f[i] = Passed(way, path, n, f[i-1])
        BY <2>3, <3>1, Zenon DEF WithinStretch
      <3>3. n \in Nat \ {0} /\ Stretch * (k-1) + (i-1) = n - 1
        BY <2>4
      <3>4. OnWay(way, path, rs, n - 1, f[i-1])
        BY <2>6, <3>3, Zenon
      <3> HIDE DEF n
      <3>5. OnWay(way, path, rs, n, f[i])
        BY <3>2, <3>3, <3>4, PassedOnWay
      <3> QED BY <3>5 DEF n
    <2> HIDE DEF Good
    <2>7. Bad = {}
      <3> SUFFICES ASSUME Bad # {} PROVE FALSE
        OBVIOUS
      <3>1. PICK i \in Bad : \A m \in Bad : i <= m
        <4>1. Bad \subseteq Nat /\ Bad # {}
          BY <2>4
        <4> HIDE DEF Bad
        <4> QED BY <4>1, Least
      <3>2. i # 0 /\ i \in 0..Stretch /\ ~ Good(i)
        BY <2>5, <3>1
      <3>3. i \in 1..Stretch /\ Good(i-1)
        BY <2>4, <3>1, <3>2
      <3> QED BY <2>6, <3>2, <3>3
    <2>8. Good(Stretch)
      BY <2>4, <2>7
    <2> QED BY <2>3, <2>4, <2>8 DEF Good
  <1> QED BY <1>1, <1>2

LEMMA StretchesIs ==
  ASSUME NEW way, NEW path, NEW rs, NEW c
  PROVE  \E after : FromStretch(way, path, rs, c, after)
  <1> DEFINE Is(n, f) ==
               f = [k \in 0..n |->
                      IF k = 0 THEN Departure(rs, c) ELSE Along(way, path, k, f[k-1])]
             Bad == {n \in 0..Stretches : ~ \E f : Is(n, f)}
  <1>1. Stretches \in Nat
    BY HistoryIsMap DEF Stretches, Stretch
  <1>2. Bad = {}
    <2> SUFFICES ASSUME Bad # {} PROVE FALSE
      OBVIOUS
    <2>1. PICK n \in Bad : \A m \in Bad : n <= m
      <3>1. Bad \subseteq Nat /\ Bad # {}
        BY <1>1
      <3> HIDE DEF Bad
      <3> QED BY <3>1, Least
    <2>2. n \in 0..Stretches /\ n # 0
      <3>1. Is(0, [k \in 0..0 |-> Departure(rs, c)])
        OBVIOUS
      <3> QED BY <3>1
    <2>3. PICK f : Is(n-1, f)
      <3>1. n-1 \in 0..Stretches /\ ~ (n <= n-1)
        BY <1>1, <2>2
      <3>2. n-1 \notin Bad
        BY <2>1, <3>1, Zenon
      <3> QED BY <3>1, <3>2, Zenon
    <2> DEFINE g == [k \in 0..n |-> IF k = n THEN Along(way, path, n, f[n-1]) ELSE f[k]]
    <2>4. Is(n, g)
      <3>1. ASSUME NEW k \in 0..n
            PROVE  g[k] = IF k = 0 THEN Departure(rs, c) ELSE Along(way, path, k, g[k-1])
        <4>1. CASE k = n
          BY <2>2, <4>1
        <4>2. CASE k # n
          <5>1. k \in 0..(n-1) /\ g[k] = f[k]
            BY <4>2
          <5>2. f[k] = IF k = 0 THEN Departure(rs, c) ELSE Along(way, path, k, f[k-1])
            BY <2>3, <5>1
          <5>3. k # 0 => g[k-1] = f[k-1]
            BY <5>1
          <5> QED BY <5>1, <5>2, <5>3
        <4> QED BY <4>1, <4>2
      <3> HIDE DEF g
      <3>2. g = [k \in 0..n |-> g[k]]
        BY DEF g
      <3> QED BY <3>1, <3>2
    <2> QED BY <2>4
  <1>3. PICK f : Is(Stretches, f)
    <2>1. Stretches \in 0..Stretches
      BY <1>1
    <2> QED BY <1>2, <2>1, Zenon
  <1>4. FromStretch(way, path, rs, c, f)
    BY <1>3, Zenon DEF FromStretch
  <1> QED BY <1>4

(* Where a walk starts from. *)
LEMMA DepartureOnWay ==
  ASSUME NEW way \in Ways, NEW rs \in SUBSET HistoryRev, Antichain(rs),
         NEW path \in SUBSET HistoryRev, NEW c, WellBuilt(c)
  PROVE  OnWay(way, path, rs, 0, Departure(rs, c))
  <1> DEFINE at == Departure(rs, c)
  <1>1. /\ Shaped(at) /\ at.rows = rs /\ at.saved.rows = rs /\ at.stuck = NoStep
        /\ at.schema = c /\ at.saved.schema = c
    BY DEF Departure, Shaped
  <1>2. Behind(way, path, 0) = {}
    <2>1. Len(History) \in Nat /\ \A r \in path : r \in 1..Len(History)
      BY HistoryIsMap
    <2>2. \A r \in path : ~ (r <= 0) /\ ~ (r > Len(History) - 0)
      BY <2>1
    <2> QED BY <2>2 DEF Behind
  <1>3. AppliedPast(way, rs, {}) = Applied(rs)
    BY DEF AppliedPast
  <1>4. RowsOnWay(way, path, rs, rs)
    BY <1>3 DEF RowsOnWay
  <1> HIDE DEF at
  <1>5. OnWay(way, path, rs, 0, at)
    BY <1>1, <1>2, <1>3, <1>4 DEF OnWay
  <1> QED BY <1>5 DEF at

(* The whole walk. *)
LEMMA WalkedOnWay ==
  ASSUME NEW way \in Ways, NEW rs \in SUBSET HistoryRev, Antichain(rs),
         NEW path \in SUBSET HistoryRev, Walkable(way, path, rs),
         NEW c, WellBuilt(c)
  PROVE  OnWay(way, path, rs, Stretch * Stretches, Walked(way, path, rs, c))
  <1>1. PICK g : FromStretch(way, path, rs, c, g)
    BY StretchesIs
  <1>2. \E on : FromStretch(way, path, rs, c, on)
                  /\ Walked(way, path, rs, c) = on[Stretches]
    BY <1>1, Zenon DEF FromStretch, Walked
  <1>3. PICK f : FromStretch(way, path, rs, c, f) /\ Walked(way, path, rs, c) = f[Stretches]
    BY <1>2
  <1>4. Stretches \in Nat /\ Stretch \in Nat
    BY HistoryIsMap DEF Stretches, Stretch
  <1> DEFINE Good(k) == OnWay(way, path, rs, Stretch * k, f[k])
             Bad == {k \in 0..Stretches : ~ Good(k)}
  <1>5. Good(0)
    <2>1. 0 \in 0..Stretches /\ Stretch * 0 = 0
      BY <1>4
    <2>2. f[0] = Departure(rs, c)
      BY <1>3, <2>1, Zenon DEF FromStretch
    <2> QED BY <2>1, <2>2, DepartureOnWay
  <1>6. ASSUME NEW k \in 1..Stretches, Good(k-1) PROVE Good(k)
    <2>1. k \in 0..Stretches /\ k # 0 /\ k \in Nat \ {0}
      BY <1>4
    <2>2. f[k] = Along(way, path, k, f[k-1])
      BY <1>3, <2>1, Zenon DEF FromStretch
    <2> QED BY <1>6, <2>1, <2>2, AlongOnWay
  <1> HIDE DEF Good
  <1>7. Bad = {}
    <2> SUFFICES ASSUME Bad # {} PROVE FALSE
      OBVIOUS
    <2>1. PICK k \in Bad : \A m \in Bad : k <= m
      <3>1. Bad \subseteq Nat /\ Bad # {}
        BY <1>4
      <3> HIDE DEF Bad
      <3> QED BY <3>1, Least
    <2>2. k # 0 /\ k \in 0..Stretches /\ ~ Good(k)
      BY <1>5, <2>1
    <2>3. k \in 1..Stretches /\ Good(k-1)
      BY <1>4, <2>1, <2>2
    <2> QED BY <1>6, <2>2, <2>3
  <1>8. Good(Stretches)
    BY <1>4, <1>7
  <1> QED BY <1>3, <1>8 DEF Good

(***************************************************************************)
(* What a run leaves: rows that are the tips of some of the way, of all of *)
(* it if no script failed, and a catalog without loose ends.               *)
(***************************************************************************)
LEMMA SettledOnWay ==
  ASSUME rows \in SUBSET HistoryRev, Antichain(rows), WellBuilt(schema),
         NEW way \in Ways, NEW t \in HistoryRev,
         Settle(Walked(way, Path(way, rows, t), rows, schema))
  PROVE  /\ RowsOnWay(way, Path(way, rows, t), rows, rows') /\ WellBuilt(schema')
         /\ stuck' = NoStep =>
              Applied(rows') = AppliedPast(way, rows, Path(way, rows, t))
         /\ stuck' # NoStep => stuck'[1] = way /\ stuck'[2] \in HistoryRev
  <1> DEFINE path == Path(way, rows, t)
             end  == Walked(way, path, rows, schema)
  <1>1. Walkable(way, path, rows)
    BY PathWalkable
  <1>2. path \in SUBSET HistoryRev
    BY <1>1, HistoryApplied DEF Walkable
  <1>3. Behind(way, path, Stretch * Stretches) = path
    <2>1. Len(History) \in Nat /\ Stretch * Stretches \in Nat
          /\ Stretch * Stretches >= Len(History)
      BY HistoryIsMap DEF Stretch, Stretches
    <2>2. \A r \in path : r \in 1..Len(History)
      BY <1>2, HistoryIsMap
    <2> HIDE DEF path
    <2>3. \A r \in path : r <= Stretch * Stretches /\ r > Len(History) - Stretch * Stretches
      BY <2>1, <2>2
    <2> QED BY <2>3 DEF Behind
  <1>4. OnWay(way, path, rows, Stretch * Stretches, end)
    BY <1>1, <1>2, WalkedOnWay
  <1>5. /\ rows' = (IF end.stuck = NoStep THEN end ELSE end.saved).rows
        /\ schema' = (IF end.stuck = NoStep THEN end ELSE end.saved).schema
        /\ stuck' = end.stuck
    BY DEF Settle
  <1> HIDE DEF path, end
  <1>6. /\ RowsOnWay(way, path, rows, rows') /\ WellBuilt(schema')
        /\ stuck' = NoStep => Applied(rows') = AppliedPast(way, rows, path)
        /\ stuck' # NoStep => stuck'[1] = way /\ stuck'[2] \in HistoryRev
    <2>1. CASE end.stuck = NoStep
      BY <1>3, <1>4, <1>5, <2>1 DEF OnWay
    <2>2. CASE end.stuck # NoStep
      BY <1>4, <1>5, <2>2 DEF OnWay
    <2> QED BY <2>1, <2>2
  <1> QED BY <1>6 DEF path

-----------------------------------------------------------------------------
(***************************************************************************)
(* The inductive invariant: the rows are revisions of which none implies   *)
(* another, so the tips of what they say is applied.                       *)
(***************************************************************************)
Inv ==
  /\ rows \in SUBSET HistoryRev /\ Antichain(rows)
  /\ WellBuilt(schema)
  /\ stuck # NoStep => stuck[1] \in Ways /\ stuck[2] \in HistoryRev

LEMMA InitInv == Init => Inv
  BY DEF Init, Inv, Antichain, WellBuilt, NoStep

(* A run finds its target stamped, or walks to it. *)
Walks(t) ==
  \/ t \in rows /\ stuck' = NoStep /\ UNCHANGED <<rows, schema>>
  \/ Settle(Walked("upgrade", Path("upgrade", rows, t), rows, schema))
  \/ /\ t \in Applied(rows)
     /\ Settle(Walked("downgrade", Path("downgrade", rows, t), rows, schema))

LEMMA ConvergeWalks ==
  ASSUME NEW t \in Targets, Converge(t)
  PROVE  t \in HistoryRev /\ Walks(t)
  <1>1. PICK row \in Readings : Run(Direction(HistoryRev, row, t), t)
    BY DEF Converge
  <1>2. t \in HistoryRev
    BY HistoryAssumption
  <1>3. CASE Direction(HistoryRev, row, t) = "upgrade"
    BY <1>1, <1>2, <1>3 DEF Run, Walks
  <1>4. CASE Direction(HistoryRev, row, t) = "converged"
    <2>1. row = t /\ row # NONE
      BY <1>4 DEF Direction
    <2>2. t \in rows
      BY <2>1 DEF Readings
    <2> QED BY <1>1, <1>2, <1>4, <2>2 DEF Run, Walks
  <1>5. CASE Direction(HistoryRev, row, t) = "downgrade"
    <2>1. row # NONE /\ t \in HistoryAnc[row]
      BY <1>5 DEF Direction, IsAncestor
    <2>2. t \in Applied(rows)
      BY <2>1 DEF Readings, Applied
    <2> QED BY <1>1, <1>2, <1>5, <2>2 DEF Run, Walks
  <1>6. Direction(HistoryRev, row, t) \in {"upgrade", "converged", "downgrade"}
    BY <1>1 DEF Run
  <1> QED BY <1>3, <1>4, <1>5, <1>6

LEMMA NextInv == Inv /\ [Next]_vars => Inv'
  <1> SUFFICES ASSUME Inv, [Next]_vars PROVE Inv'
    OBVIOUS
  <1>1. CASE UNCHANGED vars
    BY <1>1 DEF Inv, vars, Antichain, WellBuilt
  <1>2. CASE Next
    <2>1. PICK t \in Targets : t \in HistoryRev /\ Walks(t)
      BY <1>2, ConvergeWalks DEF Next
    <2>2. CASE stuck' = NoStep /\ UNCHANGED <<rows, schema>>
      BY <2>2 DEF Inv, Antichain, WellBuilt
    <2>3. ASSUME NEW way \in Ways,
                 Settle(Walked(way, Path(way, rows, t), rows, schema))
          PROVE  Inv'
      <3>1. /\ RowsOnWay(way, Path(way, rows, t), rows, rows') /\ WellBuilt(schema')
            /\ stuck' # NoStep => stuck'[1] = way /\ stuck'[2] \in HistoryRev
        BY <2>1, <2>3, SettledOnWay DEF Inv
      <3> QED BY <3>1 DEF Inv, RowsOnWay, Antichain, WellBuilt
    <2> QED BY <2>1, <2>2, <2>3 DEF Walks, Ways
  <1> QED BY <1>1, <1>2

(***************************************************************************)
(* TypeOK holds for any targets: rows are revisions, a failed run names    *)
(* the script it stopped at, and no DROP TABLE, in whatever order scripts  *)
(* are run and undone, leaves a column, index or foreign key behind.       *)
(***************************************************************************)
THEOREM TypeCorrect == Spec => []TypeOK
  <1>1. Inv => TypeOK
    BY DEF Inv, TypeOK, Ways
  <1> QED BY <1>1, InitInv, NextInv, PTL DEF Spec

(***************************************************************************)
(* RowsAreTips holds for any targets, below 59991b568c7d too, and after    *)
(* runs that fail halfway: the merges of the history never leave           *)
(* alembic_version with a row too many or too few.                         *)
(***************************************************************************)
THEOREM TipsCorrect == Spec => []RowsAreTips
  <1>1. Inv => RowsAreTips
    BY HistoryTips DEF Inv, RowsAreTips
  <1> QED BY <1>1, InitInv, NextInv, PTL DEF Spec

-----------------------------------------------------------------------------
(* ConvergeSpec, of the history. *)

LEMMA WholeTarget ==
  ASSUME NEW t \in Targets
  PROVE  \E q \in Commands :
           /\ q.cmd = "run" /\ q.allow
           /\ Whole!Resolve(q.image, q.target) = t /\ t # Whole!NONE
  <1> DEFINE q == [cmd |-> "run", image |-> HistoryRev, target |-> t, allow |-> TRUE]
  <1>1. t \in HistoryRev /\ t # 0
    BY HistoryAssumption, HistoryIsMap
  <1>2. q \in Commands
    BY DEF Commands
  <1>3. Whole!Resolve(q.image, q.target) = t
    BY <1>1 DEF Whole!Resolve, Whole!HEAD
  <1>4. t # Whole!NONE
    BY <1>1 DEF Whole!NONE
  <1>5. q.cmd = "run" /\ q.allow
    OBVIOUS
  <1> HIDE DEF q
  <1> QED BY <1>2, <1>3, <1>4, <1>5

LEMMA WholeAbove == \A t : Whole!Above(t) = Above(t)
  BY DEF Whole!Above, Above

(* Some of a release or of a rollback. *)
LEMMA WalkTowards ==
  ASSUME Inv, NEW t \in Targets, NEW way \in Ways,
         way = "downgrade" => t \in Applied(rows),
         RowsOnWay(way, Path(way, rows, t), rows, rows')
  PROVE  \E q \in Commands : Whole!ConvergePartly(q)
  <1>1. t \in HistoryRev
    BY HistoryAssumption
  <1>2. rows' \in SUBSET HistoryRev /\ \A r \in Applied(rows') : HistoryAnc[r] \subseteq Applied(rows')
    BY HistoryApplied DEF RowsOnWay
  <1>3. PICK S \in SUBSET Path(way, rows, t) : Applied(rows') = AppliedPast(way, rows, S)
    BY DEF RowsOnWay
  <1>4. CASE way = "upgrade"
    <2>1. S \subseteq HistoryAnc[t] /\ Applied(rows') = Applied(rows) \cup S
      BY <1>3, <1>4 DEF Path, UpgradePath, AppliedPast
    <2>2. Whole!AdvancePartly(t)
      BY <1>2, <2>1 DEF Whole!AdvancePartly
    <2> QED BY <2>2, WholeTarget DEF Whole!ConvergePartly
  <1>5. CASE way = "downgrade"
    <2>1. S \subseteq Above(t) /\ Applied(rows') = Applied(rows) \ S
      BY <1>1, <1>3, <1>5, HistoryRollback DEF Path, AppliedPast, Inv
    <2>2. Whole!RetreatPartly(t)
      BY <1>2, <1>5, <2>1, WholeAbove DEF Whole!RetreatPartly
    <2> QED BY <2>2, WholeTarget DEF Whole!ConvergePartly
  <1> QED BY <1>4, <1>5 DEF Ways

(***************************************************************************)
(* The 127 scripts implement ConvergeSpec: a run, also one that a script   *)
(* stops, moves what is applied towards its target and nowhere else.       *)
(***************************************************************************)
THEOREM HistoryPromised == Spec => WalksTowardsTarget
  <1>1. Init => Whole!Init
    <2> SUFFICES ASSUME rows = {} PROVE Whole!Init
      BY DEF Init
    <2>1. Applied(rows) = Whole!Applied({})
      BY DEF Applied, Whole!Applied
    <2> QED BY <2>1 DEF Whole!Init
  <1>2. Inv /\ [Next]_vars => [\E q \in Commands : Whole!ConvergePartly(q)]_(Applied(rows))
    <2> SUFFICES ASSUME Inv, [Next]_vars, Applied(rows') # Applied(rows)
                 PROVE  \E q \in Commands : Whole!ConvergePartly(q)
      OBVIOUS
    <2>1. rows' # rows
      OBVIOUS
    <2>2. PICK t \in Targets : t \in HistoryRev /\ Walks(t)
      BY <2>1, ConvergeWalks DEF Next, vars
    <2>3. PICK way \in Ways :
            /\ way = "downgrade" => t \in Applied(rows)
            /\ Settle(Walked(way, Path(way, rows, t), rows, schema))
      BY <2>1, <2>2 DEF Walks, Ways
    <2>4. RowsOnWay(way, Path(way, rows, t), rows, rows')
      BY <2>2, <2>3, SettledOnWay DEF Inv
    <2> QED BY <2>3, <2>4, WalkTowards
  <1> QED BY <1>1, <1>2, InitInv, NextInv, PTL
        DEF Spec, WalksTowardsTarget, Whole!PartlySpec

(* What a run that exits 0 has done, whichever way it went. *)
LEMMA ConvergeArrives ==
  ASSUME Inv, NEW t \in Targets, Converge(t), stuck' = NoStep
  PROVE  Whole!Advance(t) \/ Whole!Retreat(t)
  <1>1. t \in HistoryRev /\ Walks(t)
    BY ConvergeWalks
  <1>2. CASE t \in rows /\ UNCHANGED <<rows, schema>>
    <2>1. Applied(rows') = Applied(rows) \cup HistoryAnc[t]
      BY <1>2 DEF Applied
    <2> QED BY <2>1 DEF Whole!Advance
  <1>3. CASE Settle(Walked("upgrade", Path("upgrade", rows, t), rows, schema))
    <2>1. Applied(rows') = AppliedPast("upgrade", rows, Path("upgrade", rows, t))
      BY <1>1, <1>3, SettledOnWay DEF Inv, Ways
    <2>2. Applied(rows') = Applied(rows) \cup HistoryAnc[t]
      BY <2>1 DEF AppliedPast, Path, UpgradePath
    <2> QED BY <2>2 DEF Whole!Advance
  <1>4. CASE /\ t \in Applied(rows)
             /\ Settle(Walked("downgrade", Path("downgrade", rows, t), rows, schema))
    <2>1. Applied(rows') = AppliedPast("downgrade", rows, Path("downgrade", rows, t))
      BY <1>1, <1>4, SettledOnWay DEF Inv, Ways
    <2>2. Applied(rows') = Applied(rows) \ Above(t)
      BY <1>1, <2>1, HistoryRollback DEF AppliedPast, Path, Inv
    <2> QED BY <1>4, <2>2, WholeAbove DEF Whole!Retreat
  <1> QED BY <1>1, <1>2, <1>3, <1>4 DEF Walks

(***************************************************************************)
(* ExitZeroIsThere holds for any targets, and of each run for its own: no  *)
(* merge, branch or script that commits on its own keeps a run that exits  *)
(* 0 from having applied all of its target, or undone all that was built   *)
(* on it.                                                                  *)
(***************************************************************************)
THEOREM ExitZeroArrives ==
  Spec => /\ ExitZeroIsThere
          /\ [][\A t \in Targets : Converge(t) /\ stuck' = NoStep =>
                 Whole!Advance(t) \/ Whole!Retreat(t)]_vars
  <1>1. ASSUME Inv, Next, stuck' = NoStep
        PROVE  \E q \in Commands : Whole!Converge(q)
    <2>1. PICK t \in Targets : Converge(t)
      BY <1>1 DEF Next
    <2>2. Whole!Advance(t) \/ Whole!Retreat(t)
      BY <1>1, <2>1, ConvergeArrives
    <2> QED BY <2>2, WholeTarget DEF Whole!Converge
  <1>2. Inv /\ [Next]_vars =>
          [stuck' = NoStep => \E q \in Commands : Whole!Converge(q)]_vars
    BY <1>1
  <1>3. Inv /\ [Next]_vars =>
          [\A t \in Targets : Converge(t) /\ stuck' = NoStep =>
             Whole!Advance(t) \/ Whole!Retreat(t)]_vars
    BY ConvergeArrives
  <1> QED BY <1>2, <1>3, InitInv, NextInv, PTL DEF Spec, ExitZeroIsThere
=============================================================================
