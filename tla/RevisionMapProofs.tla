------------------------- MODULE RevisionMapProofs -------------------------
(***************************************************************************)
(* What alembic's rewriting of alembic_version does to the set of applied  *)
(* revisions, for every graph.                                             *)
(***************************************************************************)
EXTENDS RevisionMap, WellFoundedInduction, TLAPS

USE DEF HEAD, NONE

-----------------------------------------------------------------------------
(***************************************************************************)
(* Ancestors.  A revision's parents have smaller numbers, so what holds of *)
(* a revision if it holds of its parents holds of all: a least one of      *)
(* which it does not would be one of which it does.                        *)
(***************************************************************************)
LEMMA FirstOf ==
  ASSUME NEW T, T \subseteq Nat, T # {}
  PROVE  \E r \in T : \A q \in T : r <= q
  <1>1. \E r \in T : \A q \in T : ~(<<q, r>> \in OpToRel(<, Nat))
    BY WFMin, NatLessThanWellFounded, Zenon
  <1>2. PICK r \in T : \A q \in T : ~(<<q, r>> \in OpToRel(<, Nat))
    BY <1>1
  <1>3. ASSUME NEW q \in T PROVE ~(q < r)
    BY <1>2 DEF OpToRel
  <1> QED BY <1>3

(* What is one step from a revision. *)
LEMMA AncStep ==
  ASSUME NEW r \in Rev
  PROVE  /\ r \in Nat /\ Anc[r] \subseteq Rev /\ r \in Anc[r]
         /\ \A d \in Down[r] : d \in Rev /\ d < r /\ d \in Anc[d] /\ Anc[d] \subseteq Anc[r]
         /\ \A a \in Anc[r] : a = r \/ \E d \in Down[r] : a \in Anc[d]
  <1>1. r \in Nat /\ Anc[r] \subseteq Rev /\ Down[r] \subseteq Rev
    BY RevAssumption, DownAssumption, AncAssumption
  <1>2. \A d \in Down[r] : d < r
    BY DownAssumption
  <1>3. \A s \in Rev : Anc[s] = {s} \cup UNION {Anc[d] : d \in Down[s]}
    BY AncAssumption
  <1>4. \A s \in Rev : s \in Anc[s]
    BY <1>3
  <1>5. \A d \in Down[r] : Anc[d] \subseteq Anc[r]
    BY <1>3
  <1>6. \A a \in Anc[r] : a = r \/ \E d \in Down[r] : a \in Anc[d]
    BY <1>3
  <1> QED BY <1>1, <1>2, <1>4, <1>5, <1>6

(* No ancestor is younger. *)
LEMMA AncBelow == \A r \in Rev : \A a \in Anc[r] : a <= r
  <1> DEFINE T == {r \in Rev : \E a \in Anc[r] : ~(a <= r)}
  <1> SUFFICES ASSUME T # {} PROVE FALSE
    OBVIOUS
  <1>1. T \subseteq Nat
    BY RevAssumption
  <1>2. PICK r \in T : \A q \in T : r <= q
    <2> HIDE DEF T
    <2> QED BY <1>1, FirstOf
  <1>3. PICK a \in Anc[r] : ~(a <= r)
    OBVIOUS
  <1>4. r \in Rev /\ r \in Nat /\ a \in Nat
    BY AncStep, RevAssumption
  <1>5. PICK d \in Down[r] : a \in Anc[d]
    BY <1>3, <1>4, AncStep
  <1>6. d \in Rev /\ d < r /\ d \in Nat
    BY <1>4, AncStep
  <1>7. d \notin T
    BY <1>2, <1>4, <1>6
  <1>8. a <= d
    BY <1>5, <1>6, <1>7
  <1> QED BY <1>3, <1>4, <1>6, <1>8

(* An ancestor's ancestors are ancestors. *)
LEMMA AncTransitive == \A r \in Rev : \A a \in Anc[r] : Anc[a] \subseteq Anc[r]
  <1> DEFINE T == {r \in Rev : \E a \in Anc[r] : ~(Anc[a] \subseteq Anc[r])}
  <1> SUFFICES ASSUME T # {} PROVE FALSE
    OBVIOUS
  <1>1. T \subseteq Nat
    BY RevAssumption
  <1>2. PICK r \in T : \A q \in T : r <= q
    <2> HIDE DEF T
    <2> QED BY <1>1, FirstOf
  <1>3. PICK a \in Anc[r] : ~(Anc[a] \subseteq Anc[r])
    OBVIOUS
  <1>4. r \in Rev /\ r \in Nat
    BY RevAssumption
  <1>5. PICK d \in Down[r] : a \in Anc[d]
    BY <1>3, <1>4, AncStep
  <1>6. d \in Rev /\ d < r /\ d \in Nat /\ Anc[d] \subseteq Anc[r]
    BY <1>4, AncStep
  <1>7. d \notin T
    BY <1>2, <1>4, <1>6
  <1>8. Anc[a] \subseteq Anc[d]
    BY <1>5, <1>6, <1>7
  <1> QED BY <1>3, <1>6, <1>8

LEMMA AncBasics ==
  ASSUME NEW r \in Rev
  PROVE  /\ Anc[r] \subseteq Rev /\ r \in Anc[r]
         /\ Down[r] \subseteq Rev /\ Down[r] \subseteq Anc[r]
         /\ \A d \in Down[r] : Anc[d] \subseteq Anc[r] /\ r \notin Anc[d]
         /\ \A a \in Anc[r] : a <= r /\ Anc[a] \subseteq Anc[r]
  <1>1. \A d \in Down[r] : d \in Rev /\ d < r /\ Anc[d] \subseteq Anc[r]
    BY AncStep
  <1>2. \A d \in Down[r] : r \notin Anc[d]
    BY <1>1, AncBelow, RevAssumption
  <1> QED BY <1>1, <1>2, AncStep, AncBelow, AncTransitive

(* No two revisions are each other's ancestors. *)
LEMMA AncAntisymmetric ==
  ASSUME NEW a \in Rev, NEW b \in Rev, a \in Anc[b], b \in Anc[a]
  PROVE  a = b
  <1>1. a <= b /\ b <= a /\ a \in Nat /\ b \in Nat
    BY AncBelow, RevAssumption
  <1> QED BY <1>1

(* On the way from a revision down to an ancestor, the last step. *)
LEMMA AncChild ==
  ASSUME NEW t \in Rev
  PROVE  \A r \in Rev : t \in Anc[r] \ {r} => \E c \in Anc[r] : t \in Down[c]
  <1> DEFINE T == {r \in Rev : t \in Anc[r] \ {r} /\ \A c \in Anc[r] : t \notin Down[c]}
  <1> SUFFICES ASSUME T # {} PROVE FALSE
    OBVIOUS
  <1>1. T \subseteq Nat
    BY RevAssumption
  <1>2. PICK r \in T : \A q \in T : r <= q
    <2> HIDE DEF T
    <2> QED BY <1>1, FirstOf
  <1>3. r \in Rev /\ r \in Nat /\ r \in Anc[r]
    BY AncStep
  <1>4. PICK d \in Down[r] : t \in Anc[d]
    BY <1>3, AncStep
  <1>5. d \in Rev /\ d < r /\ d \in Nat /\ Anc[d] \subseteq Anc[r]
    BY <1>3, AncStep
  <1>6. t # d
    BY <1>3
  <1>7. d \notin T
    BY <1>2, <1>3, <1>5
  <1>8. PICK c \in Anc[d] : t \in Down[c]
    BY <1>4, <1>5, <1>6, <1>7
  <1> QED BY <1>5, <1>8

(***************************************************************************)
(* Of the parents of a revision that stand on one of them, there is a      *)
(* topmost: a script may name a parent and one of that one's ancestors     *)
(* together, as 90e3eababbf0 does.                                         *)
(***************************************************************************)
LEMMA TopmostParent ==
  ASSUME NEW r \in Rev, NEW d \in Down[r]
  PROVE  \E e \in Down[r] : d \in Anc[e] /\ \A f \in Down[r] : e \notin Anc[f] \ {f}
  <1> DEFINE C == {e \in Down[r] : d \in Anc[e]}
             T == {r - e : e \in C}
  <1>1. r \in Nat /\ \A e \in Down[r] : e \in Rev /\ e \in Nat /\ e < r /\ e \in Anc[e]
    BY AncStep, RevAssumption
  <1>2. T \subseteq Nat /\ T # {}
    BY <1>1
  <1>3. PICK n \in T : \A m \in T : n <= m
    <2> HIDE DEF T
    <2> QED BY <1>2, FirstOf
  <1>4. PICK e \in C : n = r - e
    OBVIOUS
  <1>5. ASSUME NEW f \in C PROVE f <= e
    <2>1. r - e <= r - f
      BY <1>3, <1>4
    <2> QED BY <1>1, <2>1
  <1>6. ASSUME NEW f \in Down[r], e \in Anc[f] \ {f} PROVE FALSE
    <2>1. d \in Anc[f]
      BY <1>1, <1>6, AncTransitive
    <2>2. f <= e /\ e <= f
      BY <1>1, <1>5, <1>6, <2>1, AncBelow
    <2> QED BY <1>1, <1>6, <2>2
  <1> QED BY <1>6

-----------------------------------------------------------------------------
(* A target that resolves is one of the image's revisions. *)
LEMMA ResolveType ==
  ASSUME NEW image \in SUBSET Rev, NEW target
  PROVE  Resolve(image, target) \in image \cup {NONE}
  BY DEF Resolve

LEMMA AppliedBasics ==
  ASSUME NEW rows \in SUBSET Rev
  PROVE  /\ Applied(rows) \subseteq Rev /\ rows \subseteq Applied(rows)
         /\ \A a \in Applied(rows) : Anc[a] \subseteq Applied(rows)
  BY AncBasics DEF Applied

LEMMA PathType ==
  ASSUME NEW rows \in SUBSET Rev, NEW t \in Rev, NEW way
  PROVE  Path(way, rows, t) \in SUBSET Rev
  BY AppliedBasics, AncBasics DEF Path, UpgradePath, DowngradePath

(* A downgrade crosses only applied revisions built on its target. *)
LEMMA DowngradePathAbove ==
  ASSUME NEW rows \in SUBSET Rev, NEW t \in Rev
  PROVE  DowngradePath(rows, t) \subseteq Above(t) \cap Applied(rows)
  <1> SUFFICES ASSUME NEW r \in Applied(rows), NEW c \in Anc[r], t \in Down[c]
               PROVE  r \in Rev /\ t \in Anc[r] \ {r}
    BY DEF DowngradePath, Above
  <1>1. r \in Rev /\ c \in Rev
    BY AppliedBasics, AncBasics
  <1>2. t \in Anc[c] /\ Anc[c] \subseteq Anc[r] /\ c <= r /\ t < c
    BY <1>1, AncBasics, DownAssumption
  <1>3. t # r
    BY <1>1, <1>2, RevAssumption
  <1> QED BY <1>1, <1>2, <1>3

LEMMA RestampType ==
  ASSUME NEW rows \in SUBSET Rev, NEW r \in Rev, NEW way
  PROVE  Restamp(way, rows, r) \in SUBSET Rev
  BY AncBasics DEF Restamp, RowsUp, RowsDown

(* Restamping on the way up adds the revision and what it stands on. *)
LEMMA RowsUpApplied ==
  ASSUME NEW rows \in SUBSET Rev, NEW r \in Rev
  PROVE  Applied(RowsUp(rows, r)) = Applied(rows) \cup Anc[r]
  BY AncBasics DEF Applied, RowsUp

(***************************************************************************)
(* Restamping on the way down takes away the revision at most, and adds    *)
(* nothing: parents that some remaining row implies are not written, and   *)
(* the others are.                                                         *)
(***************************************************************************)
LEMMA RowsDownApplied ==
  ASSUME NEW rows \in SUBSET Rev, NEW r \in Applied(rows)
  PROVE  /\ Applied(RowsDown(rows, r)) \subseteq Applied(rows)
         /\ Applied(rows) \subseteq Applied(RowsDown(rows, r)) \cup {r}
  <1> DEFINE others  == rows \ {r}
             implied == IF others # {} THEN Applied(others)
                        ELSE UNION {Anc[d] \ {d} : d \in Down[r]}
             new     == others \cup (Down[r] \ implied)
  <1>1. RowsDown(rows, r) = new
    BY DEF RowsDown
  <1>2. r \in Rev /\ Anc[r] \subseteq Applied(rows)
    BY AppliedBasics
  <1>3. new \subseteq Applied(rows)
    BY <1>2, AncBasics, AppliedBasics
  <1>4. Applied(new) \subseteq Applied(rows)
    <2>1. \A a \in new : Anc[a] \subseteq Applied(rows)
      BY <1>3, AppliedBasics
    <2> QED BY <2>1 DEF Applied
  <1>5. \A d \in Down[r] : Anc[d] \subseteq Applied(new)
    <2> SUFFICES ASSUME NEW d \in Down[r] PROVE Anc[d] \subseteq Applied(new)
      OBVIOUS
    <2>1. CASE others # {}
      <3>1. CASE d \in Applied(others)
        <4>1. Anc[d] \subseteq Applied(others)
          BY <3>1, AppliedBasics
        <4> QED BY <4>1 DEF Applied
      <3>2. CASE d \notin Applied(others)
        BY <2>1, <3>2 DEF Applied
      <3> QED BY <3>1, <3>2
    <2>2. CASE others = {}
      <3>1. PICK e \in Down[r] : d \in Anc[e] /\ \A f \in Down[r] : e \notin Anc[f] \ {f}
        BY <1>2, TopmostParent
      <3>2. e \in new
        BY <2>2, <3>1
      <3>3. e \in Rev /\ Anc[d] \subseteq Anc[e]
        BY <1>2, <3>1, AncBasics
      <3> QED BY <3>2, <3>3 DEF Applied
    <2> QED BY <2>1, <2>2
  <1>6. Anc[r] \subseteq Applied(new) \cup {r}
    <2>1. Anc[r] = {r} \cup UNION {Anc[d] : d \in Down[r]}
      BY <1>2, AncAssumption
    <2> QED BY <2>1, <1>5
  <1>7. Applied(others) \subseteq Applied(new)
    BY DEF Applied
  <1>8. Applied(rows) \subseteq Applied(others) \cup Anc[r]
    BY DEF Applied
  <1> QED BY <1>1, <1>4, <1>6, <1>7, <1>8

-----------------------------------------------------------------------------
(* Tips *)

(* A downgrade crosses all of the applied revisions built on its target. *)
LEMMA DowngradePathIs ==
  ASSUME NEW rows \in SUBSET Rev, NEW t \in Rev
  PROVE  DowngradePath(rows, t) = Above(t) \cap Applied(rows)
  <1>1. ASSUME NEW r \in Above(t) \cap Applied(rows) PROVE r \in DowngradePath(rows, t)
    BY AncChild DEF Above, DowngradePath
  <1> QED BY <1>1, DowngradePathAbove

(* Rows are the tips of what they say is applied if none implies another. *)
LEMMA TipsAntichain ==
  ASSUME NEW rows \in SUBSET Rev
  PROVE  Tips(Applied(rows)) = rows <=> Antichain(rows)
  <1>1. \A r \in Applied(rows) : r \in Rev /\ \E b \in rows : r \in Anc[b]
    BY AncBasics DEF Applied
  <1>2. Tips(Applied(rows)) \subseteq rows
    <2> SUFFICES ASSUME NEW r \in Applied(rows), \A c \in Applied(rows) : r \notin Down[c],
                        r \notin rows
                 PROVE  FALSE
      BY DEF Tips
    <2>1. PICK b \in rows : r \in Anc[b] \ {b}
      BY <1>1
    <2>2. PICK c \in Anc[b] : r \in Down[c]
      BY <1>1, <2>1, AncChild
    <2> QED BY <2>2 DEF Applied
  <1>3. ASSUME Antichain(rows) PROVE rows \subseteq Tips(Applied(rows))
    <2> SUFFICES ASSUME NEW r \in rows, NEW c \in Applied(rows), r \in Down[c]
                 PROVE  FALSE
      BY AppliedBasics DEF Tips
    <2>1. PICK b \in rows : c \in Anc[b]
      BY <1>1
    <2>2. r \in Anc[c] /\ c \notin Anc[r] /\ c \in Rev /\ Anc[c] \subseteq Anc[b]
      BY <1>1, <2>1, AncBasics
    <2>3. r = b
      BY <1>3, <2>2 DEF Antichain
    <2> QED BY <2>1, <2>2, <2>3
  <1>4. ASSUME Tips(Applied(rows)) = rows, NEW a \in rows, NEW b \in rows, a \in Anc[b]
        PROVE  a = b
    <2> SUFFICES ASSUME a # b PROVE FALSE
      OBVIOUS
    <2>1. PICK c \in Anc[b] : a \in Down[c]
      BY <1>4, AncChild
    <2>2. c \in Applied(rows)
      BY <2>1 DEF Applied
    <2>3. a \in Tips(Applied(rows))
      BY <1>4
    <2> QED BY <2>1, <2>2, <2>3 DEF Tips
  <1> QED BY <1>2, <1>3, <1>4 DEF Antichain

(* A revision whose ancestors are applied, and which is not, goes on top. *)
LEMMA RowsUpTips ==
  ASSUME NEW rows \in SUBSET Rev, Antichain(rows), NEW r \in Rev,
         r \notin Applied(rows), Anc[r] \ {r} \subseteq Applied(rows)
  PROVE  Antichain(RowsUp(rows, r))
  <1>1. ASSUME NEW a \in rows PROVE r \notin Anc[a]
    BY DEF Applied
  <1>2. ASSUME NEW a \in rows \ Down[r], a \in Anc[r] PROVE FALSE
    <2>1. a # r
      BY <1>1, AncBasics
    <2>2. PICK d \in Down[r] : a \in Anc[d]
      BY <1>2, <2>1, AncStep
    <2>3. d \in Rev /\ d \in Anc[r] \ {r}
      BY AncBasics, AncStep
    <2>4. PICK b \in rows : d \in Anc[b]
      BY <2>3 DEF Applied
    <2>5. a \in Anc[b]
      BY <2>2, <2>4, AncTransitive
    <2>6. a = b
      BY <2>5 DEF Antichain
    <2>7. a = d
      BY <2>2, <2>3, <2>4, <2>6, AncAntisymmetric
    <2> QED BY <1>2, <2>7
  <1> QED BY <1>1, <1>2 DEF Antichain, RowsUp

(* A row that no other implies takes with it just the revision it names. *)
LEMMA RowsDownExact ==
  ASSUME NEW rows \in SUBSET Rev, NEW r \in rows,
         \A b \in rows : r \in Anc[b] => b = r
  PROVE  Applied(RowsDown(rows, r)) = Applied(rows) \ {r}
  <1>1. r \in Rev /\ r \in Applied(rows)
    BY AppliedBasics
  <1>2. \A b \in RowsDown(rows, r) : r \notin Anc[b]
    BY <1>1, AncBasics DEF RowsDown
  <1>3. r \notin Applied(RowsDown(rows, r))
    BY <1>2 DEF Applied
  <1> QED BY <1>1, <1>3, RowsDownApplied

LEMMA RowsDownTips ==
  ASSUME NEW rows \in SUBSET Rev, Antichain(rows), NEW r \in rows, ShortcutsImplied
  PROVE  Antichain(RowsDown(rows, r))
  <1> DEFINE others  == rows \ {r}
             implied == IF others # {} THEN Applied(others)
                        ELSE UNION {Anc[d] \ {d} : d \in Down[r]}
             back    == Down[r] \ implied
  <1>1. RowsDown(rows, r) = others \cup back
    BY DEF RowsDown
  <1>2. r \in Rev /\ \A d \in Down[r] : d \in Rev /\ d \in Anc[d] /\ Anc[d] \subseteq Anc[r]
    BY AncStep
  <1>3. ASSUME NEW o \in others, NEW d \in back PROVE d \notin Anc[o] /\ o \notin Anc[d]
    <2>1. d \notin Anc[o]
      BY DEF Applied
    <2>2. o \notin Anc[r]
      BY DEF Antichain
    <2> QED BY <1>2, <2>1, <2>2
  <1>4. ASSUME NEW d \in back, NEW e \in back, d \in Anc[e] PROVE d = e
    <2> SUFFICES ASSUME d # e PROVE FALSE
      OBVIOUS
    <2>1. CASE others # {}
      <3>1. PICK o \in others : TRUE
        BY <2>1
      <3>2. o \in Rev /\ o \notin Anc[r] /\ r \notin Anc[o]
        BY DEF Antichain
      <3>3. d \in Anc[o]
        BY <1>2, <1>4, <3>2 DEF ShortcutsImplied
      <3> QED BY <1>3, <3>3
    <2>2. CASE others = {}
      BY <1>4, <2>2
    <2> QED BY <2>1, <2>2
  <1> HIDE DEF others, back
  <1>5. \A a, b \in others : a \in Anc[b] => a = b
    BY DEF others, Antichain
  <1>6. \A a, b \in others \cup back : a \in Anc[b] => a = b
    BY <1>3, <1>4, <1>5
  <1> QED BY <1>1, <1>6 DEF Antichain
=============================================================================
