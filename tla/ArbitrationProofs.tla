------------------------- MODULE ArbitrationProofs -------------------------
(***************************************************************************)
(* Proofs about entities.resolve_overlaps, for every text and any number  *)
(* of detections.                                                          *)
(***************************************************************************)
EXTENDS Arbitration, FiniteSetTheorems, WellFoundedInduction, TLAPS

\* A finite non-empty set has a greatest element in any total preorder.
LEMMA Greatest ==
    ASSUME NEW S, IsFiniteSet(S), S # {}, NEW R,
           \A x, y \in S : <<x, y>> \in R \/ <<y, x>> \in R,
           \A x, y, z \in S : <<x, y>> \in R /\ <<y, z>> \in R => <<x, z>> \in R
    PROVE  \E m \in S : \A y \in S : <<y, m>> \in R
<1> DEFINE Above(x) == {y \in S : <<y, x>> \notin R}
           T == {Above(x) : x \in S}
<1>1. IsWellFoundedOn(StrictSubsetOrdering(S), SUBSET S)
  BY FS_StrictSubsetOrderingWellFounded, FS_FiniteSubsetsOfFinite
<1>2. T \subseteq SUBSET S /\ T # {}
  <2>1. \A x \in S : Above(x) \in SUBSET S
    OBVIOUS
  <2>2. PICK x \in S : TRUE
    OBVIOUS
  <2>3. Above(x) \in T
    OBVIOUS
  <2>4. QED
    BY <2>1, <2>3
<1>3. PICK A \in T : \A B \in T : <<B, A>> \notin StrictSubsetOrdering(S)
  <2> HIDE DEF T
  <2>1. QED
    BY <1>1, <1>2, WFMin, Zenon
<1>4. PICK m \in S : A = Above(m)
  OBVIOUS
<1>5. SUFFICES ASSUME NEW y \in S, <<y, m>> \notin R PROVE FALSE
  OBVIOUS
<1>6. Above(y) \subseteq Above(m) /\ y \in Above(m) /\ y \notin Above(y)
  <2>1. <<m, y>> \in R /\ <<y, y>> \in R
    BY <1>5
  <2>2. ASSUME NEW z \in Above(y) PROVE z \in Above(m)
    <3>1. z \in S /\ <<z, y>> \notin R
      OBVIOUS
    <3>2. <<z, m>> \notin R
      BY <2>1, <3>1
    <3>3. QED
      BY <3>1, <3>2
  <2>3. QED
    BY <1>5, <2>1, <2>2
<1>7. <<Above(y), A>> \in StrictSubsetOrdering(S)
  BY <1>4, <1>6 DEF StrictSubsetOrdering
<1>8. QED
  BY <1>3, <1>7

\* The first start and the last end of a run are starts and ends of its spans.
LEMMA RunBounds ==
    ASSUME NEW S, IsFiniteSet(S), S # {}, \A d \in S : d \in Detection
    PROVE  /\ \E d \in S : d.start = FirstStart(S)
           /\ \E d \in S : d.end = LastEnd(S)
           /\ \A d \in S : FirstStart(S) <= d.start /\ d.end <= LastEnd(S)
<1>0. \A d \in S : d.start \in Nat /\ d.end \in Nat
  BY DEF Detection
<1>1. PICK a \in S : \A d \in S : a.start <= d.start
  <2> DEFINE R == {p \in S \X S : p[1].start >= p[2].start}
  <2>1. \A x, y \in S : <<x, y>> \in R <=> x.start >= y.start
    OBVIOUS
  <2> HIDE DEF R
  <2>2. PICK m \in S : \A y \in S : <<y, m>> \in R
    <3>1. ASSUME NEW x \in S, NEW y \in S PROVE <<x, y>> \in R \/ <<y, x>> \in R
      <4>1. x.start >= y.start \/ y.start >= x.start
        BY <1>0
      <4>2. QED
        BY <2>1, <4>1
    <3>2. ASSUME NEW x \in S, NEW y \in S, NEW z \in S, <<x, y>> \in R, <<y, z>> \in R
          PROVE  <<x, z>> \in R
      <4>1. x.start >= y.start /\ y.start >= z.start
        BY <2>1, <3>2
      <4>2. x.start >= z.start
        BY <1>0, <4>1
      <4>3. QED
        BY <2>1, <4>2
    <3>3. QED
      BY <3>1, <3>2, Greatest
  <2>3. QED
    BY <1>0, <2>1, <2>2
<1>2. PICK b \in S : \A d \in S : b.end >= d.end
  <2> DEFINE R == {p \in S \X S : p[1].end <= p[2].end}
  <2>1. \A x, y \in S : <<x, y>> \in R <=> x.end <= y.end
    OBVIOUS
  <2> HIDE DEF R
  <2>2. PICK m \in S : \A y \in S : <<y, m>> \in R
    <3>1. ASSUME NEW x \in S, NEW y \in S PROVE <<x, y>> \in R \/ <<y, x>> \in R
      <4>1. x.end <= y.end \/ y.end <= x.end
        BY <1>0
      <4>2. QED
        BY <2>1, <4>1
    <3>2. ASSUME NEW x \in S, NEW y \in S, NEW z \in S, <<x, y>> \in R, <<y, z>> \in R
          PROVE  <<x, z>> \in R
      <4>1. x.end <= y.end /\ y.end <= z.end
        BY <2>1, <3>2
      <4>2. x.end <= z.end
        BY <1>0, <4>1
      <4>3. QED
        BY <2>1, <4>2
    <3>3. QED
      BY <3>1, <3>2, Greatest
  <2>3. QED
    BY <1>0, <2>1, <2>2
<1> DEFINE starts == {d.start : d \in S}
           ends == {d.end : d \in S}
<1>3. a.start \in starts /\ \A y \in starts : a.start <= y
  BY <1>1
<1>4. FirstStart(S) \in starts /\ \A y \in starts : FirstStart(S) <= y
  BY <1>3 DEF FirstStart, Min
<1>5. b.end \in ends /\ \A y \in ends : b.end >= y
  BY <1>2
<1>6. LastEnd(S) \in ends /\ \A y \in ends : LastEnd(S) >= y
  BY <1>5 DEF LastEnd, Max
<1>7. LastEnd(S) \in Nat
  BY <1>0, <1>6
<1>8. QED
  BY <1>0, <1>4, <1>6, <1>7

\* The detection that names a merged span is one of the run, of Tier 0 if one is.
LEMMA NamerOfRun ==
    ASSUME NEW S, IsFiniteSet(S), S # {}, \A d \in S : d \in Detection
    PROVE  /\ Strongest(Namers(S)) \in S
           /\ Tier0(S) # {} => ~Strongest(Namers(S)).ner
<1> DEFINE N == Namers(S)
           R == {p \in N \X N :
                   \/ p[2].confidence > p[1].confidence
                   \/ p[2].confidence = p[1].confidence /\ Size(p[2]) >= Size(p[1])}
<1>1. N \subseteq S /\ N # {}
  BY DEF Namers, Tier0
<1>2. IsFiniteSet(N)
  BY <1>1, FS_Subset
<1>3. \A d \in N : d.confidence \in Nat /\ Size(d) \in Int
  BY <1>1 DEF Detection, Size
<1> HIDE DEF N
<1>4. \A x, y \in N : <<x, y>> \in R <=>
           \/ y.confidence > x.confidence
           \/ y.confidence = x.confidence /\ Size(y) >= Size(x)
  OBVIOUS
<1> HIDE DEF R
<1>5. ASSUME NEW x \in N, NEW y \in N PROVE <<x, y>> \in R \/ <<y, x>> \in R
  <2>1. \/ y.confidence > x.confidence \/ (y.confidence = x.confidence /\ Size(y) >= Size(x))
        \/ x.confidence > y.confidence \/ (x.confidence = y.confidence /\ Size(x) >= Size(y))
    BY <1>3
  <2>2. QED
    BY <1>4, <2>1
<1>6. ASSUME NEW x \in N, NEW y \in N, NEW z \in N, <<x, y>> \in R, <<y, z>> \in R
      PROVE  <<x, z>> \in R
  <2>1. /\ y.confidence > x.confidence \/ (y.confidence = x.confidence /\ Size(y) >= Size(x))
        /\ z.confidence > y.confidence \/ (z.confidence = y.confidence /\ Size(z) >= Size(y))
    BY <1>4, <1>6
  <2>2. z.confidence > x.confidence \/ (z.confidence = x.confidence /\ Size(z) >= Size(x))
    BY <1>3, <2>1
  <2>3. QED
    BY <1>4, <2>2
<1>7. PICK m \in N : \A y \in N : <<y, m>> \in R
  BY <1>1, <1>2, <1>5, <1>6, Greatest
<1>8. \E d \in N : \A e \in N :
         d.confidence > e.confidence \/ (d.confidence = e.confidence /\ Size(d) >= Size(e))
  BY <1>4, <1>7
<1>9. Strongest(N) \in N
  BY <1>8 DEF Strongest
<1>10. Tier0(S) # {} => N = Tier0(S)
  BY DEF N, Namers
<1>11. QED
  BY <1>1, <1>9, <1>10 DEF N, Tier0

\* A run becomes one detection from its first start to its last end.
LEMMA UnionIsRun ==
    ASSUME NEW S, IsFiniteSet(S), S # {}, \A d \in S : d \in Detection /\ d.start < d.end
    PROVE  /\ Union(S) \in Detection /\ Union(S).start < Union(S).end
           /\ Union(S).start = FirstStart(S) /\ Union(S).end = LastEnd(S)
<1>1. Strongest(Namers(S)) \in Detection
  BY NamerOfRun
<1>2. FirstStart(S) \in Nat /\ LastEnd(S) \in Nat /\ FirstStart(S) < LastEnd(S)
  BY RunBounds DEF Detection
<1>3. QED
  BY <1>1, <1>2 DEF Union, Span, Detection

\* Of the kept spans that start before a candidate ends, one is the last: the
\* one the bisection finds.
LEMMA LastBefore ==
    ASSUME NEW S, IsFiniteSet(S), S # {}, \A d \in S : d \in Detection
    PROVE  \E k \in S : \A j \in S : Before(j, k)
<1>0. \A d \in S : d.start \in Nat /\ d.end \in Nat
  BY DEF Detection
<1> DEFINE R == {p \in S \X S : Before(p[1], p[2])}
<1>1. \A x, y \in S : <<x, y>> \in R <=> Before(x, y)
  OBVIOUS
<1> HIDE DEF R
<1>2. ASSUME NEW x \in S, NEW y \in S PROVE <<x, y>> \in R \/ <<y, x>> \in R
  <2>1. Before(x, y) \/ Before(y, x)
    BY <1>0 DEF Before
  <2>2. QED
    BY <1>1, <2>1
<1>3. ASSUME NEW x \in S, NEW y \in S, NEW z \in S, <<x, y>> \in R, <<y, z>> \in R
      PROVE  <<x, z>> \in R
  <2>1. Before(x, y) /\ Before(y, z)
    BY <1>1, <1>3
  <2>2. Before(x, z)
    BY <1>0, <2>1 DEF Before
  <2>3. QED
    BY <1>1, <2>2
<1>4. PICK m \in S : \A y \in S : <<y, m>> \in R
  BY <1>2, <1>3, Greatest
<1>5. QED
  BY <1>1, <1>4

\* Looking at one kept span is enough: a candidate overlaps a kept span exactly
\* when it overlaps the one the bisection finds.
LEMMA BisectionIsEnough ==
    ASSUME Reportable(raw), kept \subseteq raw, KeptDisjoint,
           NEW c \in raw
    PROVE  Blocked(c) <=> \E k \in kept : Overlap2(k, c)
<1>1. IsFiniteSet(kept) /\ \A d \in kept : d \in Detection
  BY FS_Subset DEF Reportable
<1>2. /\ \A d \in kept : d.start \in Nat /\ d.end \in Nat /\ d.start < d.end
      /\ c.start \in Nat /\ c.end \in Nat /\ c.start < c.end
  BY DEF Reportable, Detection
<1>3. ASSUME Blocked(c) PROVE \E k \in kept : Overlap2(k, c)
  BY <1>2, <1>3 DEF Blocked, Overlap2
<1>4. ASSUME NEW k \in kept, Overlap2(k, c) PROVE Blocked(c)
  <2> DEFINE early == {j \in kept : j.start < c.end}
  <2>1. k \in early
    BY <1>2, <1>4 DEF Overlap2
  <2>2. IsFiniteSet(early) /\ \A d \in early : d \in Detection
    BY <1>1, FS_Subset
  <2>3. PICK l \in early : \A j \in early : Before(j, l)
    <3> HIDE DEF early
    <3>1. QED
      BY <2>1, <2>2, LastBefore
  <2>4. l.end > c.start
    <3>1. CASE l = k
      BY <1>2, <1>4, <3>1 DEF Overlap2
    <3>2. CASE l # k
      <4>1. ~Overlap2(k, l)
        BY <3>2 DEF KeptDisjoint, PairwiseDisjoint
      <4>2. Before(k, l)
        BY <2>1, <2>3
      <4>3. k.end <= l.start \/ l.end <= k.start
        BY <1>2, <4>1 DEF Overlap2
      <4>4. k.end <= l.start
        BY <1>2, <4>2, <4>3 DEF Before
      <4>5. QED
        BY <1>2, <1>4, <4>4 DEF Overlap2
    <3>3. QED
      BY <3>1, <3>2
  <2>5. QED
    BY <2>3, <2>4 DEF Blocked
<1>5. QED
  BY <1>3, <1>4

----------------------------------------------------------------------------
(* The inductive invariant.                                                *)

\* The selection considers candidates best first, so no candidate still to
\* come is better than one considered; what is dropped lost to a kept one.
GreedyInv ==
    /\ KeptDisjoint
    /\ DroppedForBetter
    /\ phase = "greedy" => /\ cluster = {} /\ merged = {} /\ kept \cap todo = {}
                           /\ \A c \in Tier0(raw) \ todo, d \in todo : ~Better(d, c)

\* The spans resolved end before the run being collected starts, the run
\* before the candidates to come; the run has no hole.
MergeInv ==
    /\ ResultDisjoint
    /\ phase = "merge" =>
         /\ \A m \in merged, d \in cluster \cup todo : m.end <= d.start
         /\ \A c \in cluster, d \in todo : c.start <= d.start
         /\ cluster = {} => merged = {}
         /\ cluster # {} =>
              \A p \in FirstStart(cluster) .. LastEnd(cluster) - 1 : Covers(cluster, p)

\* Every character covered stays covered, in one place or the other.
CoverInv ==
    /\ phase = "merge" => SameCover(merged \cup cluster \cup todo, kept \cup Ner(raw))
    /\ NothingExposed

ArbitrationInv == TypeOK /\ GreedyInv /\ MergeInv /\ CoverInv

\* Reportable, in the facts the steps need.
LEMMA ReportableFacts ==
    ASSUME NEW S, Reportable(S)
    PROVE  /\ IsFiniteSet(S)
           /\ \A d \in S : /\ d \in Detection /\ d.start \in Nat /\ d.end \in Nat
                           /\ d.confidence \in Nat /\ d.start < d.end
BY DEF Reportable, Detection

LEMMA ReportableParts ==
    ASSUME NEW S, Reportable(S), NEW T \in SUBSET S
    PROVE  Reportable(T)
BY FS_Subset DEF Reportable

\* SameCover without its bound: spans cover only the characters they hold.
LEMMA SameCoverEverywhere ==
    ASSUME NEW S, NEW T, Reportable(S), Reportable(T)
    PROVE  SameCover(S, T) <=> \A p \in Nat : Covers(S, p) <=> Covers(T, p)
<1> DEFINE P == UNION {d.start .. d.end - 1 : d \in S \cup T}
<1>1. \A d \in S \cup T : d.start \in Nat /\ d.end \in Nat
  BY ReportableFacts
<1>2. ASSUME NEW p \in Nat, Covers(S, p) \/ Covers(T, p) PROVE p \in P
  <2>1. PICK d \in S \cup T : d.start <= p /\ p < d.end
    BY <1>2 DEF Covers
  <2>2. p \in d.start .. d.end - 1
    BY <1>1, <2>1
  <2>3. QED
    BY <2>2
<1>3. P \subseteq Nat
  <2>1. SUFFICES ASSUME NEW p \in P PROVE p \in Nat
    OBVIOUS
  <2>2. PICK d \in S \cup T : p \in d.start .. d.end - 1
    OBVIOUS
  <2>3. QED
    BY <1>1, <2>2
<1>4. SameCover(S, T) <=> \A p \in P : Covers(S, p) = Covers(T, p)
  BY DEF SameCover
<1>5. \A p : Covers(S, p) \in BOOLEAN /\ Covers(T, p) \in BOOLEAN
  BY DEF Covers
<1> HIDE DEF P
<1>6. QED
  BY <1>2, <1>3, <1>4, <1>5, Zenon

LEMMA InitArbitration == ASSUME ArbitrationInit PROVE ArbitrationInv
<1>1. Reportable(raw)
  BY TextsAssumption DEF ArbitrationInit
<1>2. Reportable({})
  BY FS_EmptySet DEF Reportable
<1>3. TypeOK
  BY <1>1, <1>2 DEF ArbitrationInit, TypeOK
<1>4. GreedyInv
  BY DEF ArbitrationInit, GreedyInv, KeptDisjoint, DroppedForBetter, PairwiseDisjoint
<1>5. MergeInv /\ CoverInv
  BY DEF ArbitrationInit, MergeInv, CoverInv, ResultDisjoint, PairwiseDisjoint, NothingExposed
<1>6. QED
  BY <1>3, <1>4, <1>5 DEF ArbitrationInv

LEMMA ConsiderKeepsInv == ASSUME ArbitrationInv, Consider PROVE ArbitrationInv'
<1>1. PICK c \in todo :
        /\ \A d \in todo : ~Better(d, c)
        /\ todo' = todo \ {c}
        /\ kept' = IF Blocked(c) THEN kept ELSE kept \cup {c}
  BY DEF Consider
<1>2. phase = "greedy" /\ phase' = phase /\ raw' = raw /\ cluster' = cluster /\ merged' = merged
  BY DEF Consider
<1>3. TypeOK /\ GreedyInv /\ MergeInv
  BY DEF ArbitrationInv
<1>4. /\ Reportable(raw) /\ kept \subseteq Tier0(raw) /\ todo \subseteq Tier0(raw)
      /\ cluster = {} /\ merged = {}
  BY <1>2, <1>3 DEF TypeOK, GreedyInv
<1>5. Tier0(raw) \subseteq raw /\ Tier0(raw)' = Tier0(raw)
  BY <1>2 DEF Tier0
<1>6. Blocked(c) <=> \E k \in kept : Overlap2(k, c)
  BY <1>1, <1>3, <1>4, <1>5, BisectionIsEnough DEF GreedyInv
<1>7. kept' \subseteq Tier0(raw) /\ todo' \subseteq Tier0(raw)
  BY <1>1, <1>4
<1>8. TypeOK'
  BY <1>2, <1>3, <1>4, <1>5, <1>7 DEF TypeOK, Ner, Reportable
<1>9. KeptDisjoint'
  <2>1. CASE Blocked(c)
    BY <1>1, <1>3, <2>1 DEF GreedyInv, KeptDisjoint
  <2>2. CASE ~Blocked(c)
    <3>1. \A k \in kept : ~Overlap2(k, c) /\ ~Overlap2(c, k)
      BY <1>6, <2>2 DEF Overlap2
    <3>2. QED
      BY <1>1, <1>3, <2>2, <3>1 DEF GreedyInv, KeptDisjoint, PairwiseDisjoint
  <2>3. QED
    BY <2>1, <2>2
<1>10. DroppedForBetter'
  <2>1. SUFFICES ASSUME NEW d \in Tier0(raw) \ (todo' \cup kept')
                 PROVE  \E k \in kept' : Overlap2(k, d) /\ ~Better(d, k)
    BY <1>5 DEF DroppedForBetter
  <2>2. CASE d = c
    <3>1. PICK k \in kept : Overlap2(k, c)
      BY <1>1, <1>6, <2>1, <2>2
    <3>2. k \in Tier0(raw) \ todo
      BY <1>2, <1>3, <1>4 DEF GreedyInv
    <3>3. ~Better(c, k)
      BY <1>1, <1>2, <1>3, <3>2 DEF GreedyInv
    <3>4. QED
      BY <1>1, <2>2, <3>1, <3>3
  <2>3. CASE d # c
    <3>1. d \in Tier0(raw) \ (todo \cup kept)
      BY <1>1, <2>1, <2>3
    <3>2. QED
      BY <1>1, <1>2, <1>3, <3>1 DEF GreedyInv, DroppedForBetter
  <2>4. QED
    BY <2>2, <2>3
<1>11. \A e \in Tier0(raw) \ todo', d \in todo' : ~Better(d, e)
  BY <1>1, <1>2, <1>3 DEF GreedyInv
<1>12. GreedyInv'
  <2>1. kept' \cap todo' = {}
    BY <1>1, <1>2, <1>3 DEF GreedyInv
  <2>2. QED
    BY <1>2, <1>4, <1>5, <1>9, <1>10, <1>11, <2>1 DEF GreedyInv
<1>13. MergeInv' /\ CoverInv'
  BY <1>2, <1>3 DEF MergeInv, CoverInv, ResultDisjoint, NothingExposed
<1>14. QED
  BY <1>8, <1>12, <1>13 DEF ArbitrationInv

LEMMA GreedyDoneKeepsInv == ASSUME ArbitrationInv, GreedyDone PROVE ArbitrationInv'
<1>1. /\ phase = "greedy" /\ todo = {} /\ raw' = raw /\ kept' = kept /\ cluster' = cluster
      /\ cluster = {} /\ merged = {}
  BY DEF GreedyDone, ArbitrationInv, GreedyInv
<1>2. TypeOK /\ KeptDisjoint
  BY DEF ArbitrationInv, GreedyInv
<1>3. Reportable(raw) /\ kept \subseteq Tier0(raw) /\ Tier0(raw) \subseteq raw /\ Ner(raw) \subseteq raw
  BY <1>2 DEF TypeOK, Tier0, Ner
<1>4. Reportable(kept) /\ Reportable(kept \cup Ner(raw))
  BY <1>3, ReportableParts
<1>5. Ner(raw)' = Ner(raw) /\ Tier0(raw)' = Tier0(raw)
  BY <1>1 DEF Ner, Tier0
<1>6. CASE Ner(raw) = {}
  <2>1. phase' = "done" /\ merged' = kept /\ todo' = {}
    BY <1>1, <1>6 DEF GreedyDone
  <2>2. TypeOK'
    BY <1>1, <1>3, <1>4, <1>5, <2>1 DEF TypeOK, Reportable
  <2>3. GreedyInv'
    BY <1>1, <1>2, <2>1 DEF GreedyInv, KeptDisjoint, DroppedForBetter
  <2>4. MergeInv'
    BY <1>2, <2>1 DEF MergeInv, ResultDisjoint, KeptDisjoint
  <2>5. CoverInv'
    BY <1>1, <1>5, <1>6, <2>1 DEF CoverInv, NothingExposed, SameCover
  <2>6. QED
    BY <2>2, <2>3, <2>4, <2>5 DEF ArbitrationInv
<1>7. CASE Ner(raw) # {}
  <2>1. phase' = "merge" /\ merged' = {} /\ todo' = kept \cup Ner(raw)
    BY <1>1, <1>7 DEF GreedyDone
  <2>2. TypeOK'
    BY <1>1, <1>2, <1>3, <1>5, <2>1 DEF TypeOK, Reportable
  <2>3. GreedyInv'
    BY <1>1, <1>2, <2>1 DEF GreedyInv, KeptDisjoint, DroppedForBetter
  <2>4. MergeInv'
    BY <1>1, <2>1 DEF MergeInv, ResultDisjoint, PairwiseDisjoint
  <2>5. CoverInv'
    BY <1>1, <1>5, <2>1 DEF CoverInv, NothingExposed, SameCover
  <2>6. QED
    BY <2>2, <2>3, <2>4, <2>5 DEF ArbitrationInv
<1>8. QED
  BY <1>6, <1>7

\* Adding the next span to a run without holes leaves no hole: it starts before
\* the run ends.
LEMMA JoinLeavesNoHole ==
    ASSUME NEW S, Reportable(S), NEW d, Reportable({d}), NEW T, T = S \cup {d},
           S # {} => /\ d.start < LastEnd(S)
                     /\ \A p \in FirstStart(S) .. LastEnd(S) - 1 : Covers(S, p)
                     /\ \A c \in S : c.start <= d.start
    PROVE  \A p \in FirstStart(T) .. LastEnd(T) - 1 : Covers(T, p)
<1>1. IsFiniteSet(S) /\ IsFiniteSet(T)
  BY ReportableFacts, FS_AddElement
<1>2. \A e \in T : e \in Detection /\ e.start \in Nat /\ e.end \in Nat /\ e.start < e.end
  BY ReportableFacts
<1>3. d \in T /\ T # {}
  OBVIOUS
<1>4. /\ \E e \in T : e.start = FirstStart(T)
      /\ \E e \in T : e.end = LastEnd(T)
      /\ \A e \in T : FirstStart(T) <= e.start /\ e.end <= LastEnd(T)
  BY <1>1, <1>2, <1>3, RunBounds
<1>5. SUFFICES ASSUME NEW p \in FirstStart(T) .. LastEnd(T) - 1 PROVE Covers(T, p)
  OBVIOUS
<1>6. FirstStart(T) \in Nat /\ LastEnd(T) \in Nat
  BY <1>2, <1>4
<1>7. CASE S = {}
  <2>1. FirstStart(T) = d.start /\ LastEnd(T) = d.end
    BY <1>4, <1>7
  <2>2. QED
    BY <1>2, <1>3, <1>5, <1>6, <2>1 DEF Covers
<1>8. CASE S # {}
  <2>1. /\ \E e \in S : e.start = FirstStart(S)
        /\ \E e \in S : e.end = LastEnd(S)
        /\ \A e \in S : FirstStart(S) <= e.start /\ e.end <= LastEnd(S)
    BY <1>1, <1>2, <1>8, RunBounds
  <2>2. FirstStart(S) \in Nat /\ LastEnd(S) \in Nat /\ FirstStart(S) <= FirstStart(T)
    <3>1. FirstStart(S) <= d.start
      BY <1>2, <1>8, <2>1
    <3>2. QED
      BY <1>2, <1>4, <2>1, <3>1
  <2>3. CASE p < LastEnd(S)
    <3>1. p \in FirstStart(S) .. LastEnd(S) - 1
      BY <1>5, <1>6, <2>2, <2>3
    <3>2. Covers(S, p)
      BY <1>8, <3>1
    <3>3. QED
      BY <3>2 DEF Covers
  <2>4. CASE LastEnd(S) <= p
    <3>1. d.start <= p
      BY <1>2, <1>3, <1>5, <1>6, <1>8, <2>2, <2>4
    <3>2. PICK e \in T : e.end = LastEnd(T)
      BY <1>4
    <3>3. e = d
      BY <1>2, <1>5, <1>6, <2>1, <2>2, <2>4, <3>2
    <3>4. QED
      BY <1>3, <1>5, <1>6, <3>1, <3>2, <3>3 DEF Covers
  <2>5. QED
    BY <1>5, <1>6, <2>2, <2>3, <2>4
<1>9. QED
  BY <1>7, <1>8

\* A run without holes and the span it becomes cover the same characters.
LEMMA UnionCoversRun ==
    ASSUME NEW S, Reportable(S), S # {},
           \A p \in FirstStart(S) .. LastEnd(S) - 1 : Covers(S, p)
    PROVE  \A p \in Nat : Covers({Union(S)}, p) <=> Covers(S, p)
<1>1. \A e \in S : e \in Detection /\ e.start \in Nat /\ e.end \in Nat /\ e.start < e.end
  BY ReportableFacts
<1>2. IsFiniteSet(S)
  BY ReportableFacts
<1>3. /\ \E e \in S : e.start = FirstStart(S)
      /\ \E e \in S : e.end = LastEnd(S)
      /\ \A e \in S : FirstStart(S) <= e.start /\ e.end <= LastEnd(S)
  BY <1>1, <1>2, RunBounds
<1>4. FirstStart(S) \in Nat /\ LastEnd(S) \in Nat
  BY <1>1, <1>3
<1>5. Union(S).start = FirstStart(S) /\ Union(S).end = LastEnd(S)
  BY <1>1, <1>2, UnionIsRun
<1>6. SUFFICES ASSUME NEW p \in Nat PROVE Covers({Union(S)}, p) <=> Covers(S, p)
  OBVIOUS
<1>7. Covers({Union(S)}, p) <=> p \in FirstStart(S) .. LastEnd(S) - 1
  BY <1>4, <1>5 DEF Covers
<1>8. ASSUME Covers(S, p) PROVE p \in FirstStart(S) .. LastEnd(S) - 1
  BY <1>1, <1>3, <1>4, <1>8 DEF Covers
<1>9. QED
  BY <1>7, <1>8

\* The span of a run is reportable and keeps the result disjoint.
LEMMA UnionIsApart ==
    ASSUME TypeOK, MergeInv, phase = "merge", cluster # {}, Reportable(cluster)
    PROVE  /\ Reportable(merged \cup {Union(cluster)})
           /\ PairwiseDisjoint(merged \cup {Union(cluster)})
           /\ \A d \in cluster : d.end <= Union(cluster).end
           /\ \E d \in cluster : d.end = Union(cluster).end
<1>1. Reportable(merged)
  BY DEF TypeOK
<1>2. IsFiniteSet(cluster) /\ \A d \in cluster : d \in Detection /\ d.start < d.end
  BY ReportableFacts
<1>3. /\ Union(cluster) \in Detection /\ Union(cluster).start < Union(cluster).end
      /\ Union(cluster).start = FirstStart(cluster) /\ Union(cluster).end = LastEnd(cluster)
  BY <1>2, UnionIsRun
<1>4. /\ \E d \in cluster : d.start = FirstStart(cluster)
      /\ \E d \in cluster : d.end = LastEnd(cluster)
      /\ \A d \in cluster : FirstStart(cluster) <= d.start /\ d.end <= LastEnd(cluster)
  BY <1>2, RunBounds
<1>5. Reportable(merged \cup {Union(cluster)})
  <2>1. IsFiniteSet(merged \cup {Union(cluster)})
    BY <1>1, FS_AddElement DEF Reportable
  <2>2. QED
    BY <1>1, <1>3, <2>1 DEF Reportable
<1>6. \A m \in merged : m.end <= Union(cluster).start
  BY <1>3, <1>4 DEF MergeInv
<1>7. \A m \in merged : ~Overlap2(m, Union(cluster)) /\ ~Overlap2(Union(cluster), m)
  <2>1. \A m \in merged : m.end \in Nat /\ m.start \in Nat
    BY <1>1, ReportableFacts
  <2>2. Union(cluster).start \in Nat /\ Union(cluster).end \in Nat
    BY <1>3 DEF Detection
  <2>3. QED
    BY <1>6, <2>1, <2>2 DEF Overlap2
<1>8. PairwiseDisjoint(merged \cup {Union(cluster)})
  BY <1>7 DEF MergeInv, ResultDisjoint, PairwiseDisjoint
<1>9. QED
  BY <1>3, <1>4, <1>5, <1>8

LEMMA CollectKeepsInv == ASSUME ArbitrationInv, Collect PROVE ArbitrationInv'
<1>1. /\ phase = "merge" /\ phase' = "merge" /\ raw' = raw /\ kept' = kept
      /\ TypeOK /\ GreedyInv /\ MergeInv /\ CoverInv
  BY DEF Collect, ArbitrationInv
<1>2. PICK d \in todo :
        /\ \A e \in todo : d.start <= e.start
        /\ todo' = todo \ {d}
        /\ IF Joins(d)
           THEN cluster' = cluster \cup {d} /\ merged' = merged
           ELSE cluster' = {d} /\ merged' = merged \cup {Union(cluster)}
  BY DEF Collect
<1>3. Ner(raw)' = Ner(raw) /\ Tier0(raw)' = Tier0(raw)
  BY <1>1 DEF Ner, Tier0
<1>4. /\ Reportable(raw) /\ kept \cup Ner(raw) \in SUBSET raw
      /\ cluster \subseteq kept \cup Ner(raw) /\ todo \subseteq kept \cup Ner(raw)
      /\ Reportable(merged)
  BY <1>1 DEF TypeOK, Tier0, Ner
<1>5. /\ Reportable(cluster) /\ Reportable(todo) /\ Reportable({d}) /\ Reportable(cluster \cup {d})
      /\ Reportable(kept \cup Ner(raw)) /\ Reportable(cluster \cup todo)
  BY <1>4, ReportableParts
<1>6. /\ \A e \in cluster \cup todo : e.start \in Nat /\ e.end \in Nat /\ e.start < e.end
      /\ \A m \in merged : m.start \in Nat /\ m.end \in Nat
  BY <1>4, <1>5, ReportableFacts
<1>7. GreedyInv'
  BY <1>1, <1>3 DEF GreedyInv, KeptDisjoint, DroppedForBetter
<1>8. ~(phase' = "greedy") /\ ~(phase' = "done")
  BY <1>1
<1>9. CASE Joins(d)
  <2>1. cluster' = cluster \cup {d} /\ merged' = merged
    BY <1>2, <1>9
  <2>2. TypeOK'
    BY <1>1, <1>2, <1>3, <1>4, <2>1 DEF TypeOK
  <2>3. cluster # {} => /\ d.start < LastEnd(cluster)
                        /\ \A p \in FirstStart(cluster) .. LastEnd(cluster) - 1 : Covers(cluster, p)
                        /\ \A c \in cluster : c.start <= d.start
    BY <1>1, <1>9 DEF Joins, MergeInv
  <2>4. \A p \in FirstStart(cluster') .. LastEnd(cluster') - 1 : Covers(cluster', p)
    BY <1>5, <2>1, <2>3, JoinLeavesNoHole
  <2>5. /\ \A m \in merged', e \in cluster' \cup todo' : m.end <= e.start
        /\ \A c \in cluster', e \in todo' : c.start <= e.start
    BY <1>1, <1>2, <2>1 DEF MergeInv
  <2>6. MergeInv'
    BY <1>1, <2>1, <2>4, <2>5 DEF MergeInv, ResultDisjoint
  <2>7. merged' \cup cluster' \cup todo' = merged \cup cluster \cup todo
    BY <1>2, <2>1
  <2>8. CoverInv'
    BY <1>1, <1>3, <1>8, <2>7 DEF CoverInv, NothingExposed
  <2>9. QED
    BY <1>7, <2>2, <2>6, <2>8 DEF ArbitrationInv
<1>10. CASE ~Joins(d)
  <2>1. cluster' = {d} /\ merged' = merged \cup {Union(cluster)}
    BY <1>2, <1>10
  <2>2. cluster # {} /\ ~(d.start < LastEnd(cluster))
    BY <1>10 DEF Joins
  <2>3. /\ Reportable(merged') /\ PairwiseDisjoint(merged')
        /\ \E e \in cluster : e.end = Union(cluster).end
    BY <1>1, <1>5, <2>1, <2>2, UnionIsApart
  <2>4. TypeOK'
    BY <1>1, <1>2, <1>3, <1>4, <2>1, <2>3 DEF TypeOK
  <2>5. Union(cluster).end <= d.start /\ Union(cluster).end = LastEnd(cluster)
    <3>1. IsFiniteSet(cluster) /\ \A e \in cluster : e \in Detection /\ e.start < e.end
      BY <1>5, ReportableFacts
    <3>2. Union(cluster).end = LastEnd(cluster)
      BY <2>2, <3>1, UnionIsRun
    <3>3. Union(cluster).end \in Nat
      BY <1>6, <2>3
    <3>4. QED
      BY <1>6, <2>2, <3>2, <3>3
  <2>6. \A p \in FirstStart(cluster') .. LastEnd(cluster') - 1 : Covers(cluster', p)
    <3>1. Reportable({}) /\ cluster' = {} \cup {d}
      BY <1>4, <2>1, ReportableParts
    <3>2. QED
      BY <1>5, <3>1, JoinLeavesNoHole
  <2>7. ASSUME NEW m \in merged', NEW e \in cluster' \cup todo' PROVE m.end <= e.start
    <3>1. e \in todo /\ d.start <= e.start
      BY <1>2, <1>6, <2>1
    <3>2. CASE m \in merged
      BY <1>1, <3>1, <3>2 DEF MergeInv
    <3>3. CASE m = Union(cluster)
      <4>1. m.end \in Nat
        BY <1>6, <2>3, <3>3
      <4>2. QED
        BY <1>6, <2>5, <3>1, <3>3, <4>1
    <3>4. QED
      BY <2>1, <3>2, <3>3
  <2>8. \A c \in cluster', e \in todo' : c.start <= e.start
    BY <1>2, <2>1
  <2>9. MergeInv'
    BY <1>1, <2>1, <2>3, <2>6, <2>7, <2>8 DEF MergeInv, ResultDisjoint
  <2>10. SameCover(merged' \cup cluster' \cup todo', kept \cup Ner(raw))
    <3>1. \A p \in Nat : Covers({Union(cluster)}, p) <=> Covers(cluster, p)
      BY <1>1, <1>5, <2>2, UnionCoversRun DEF MergeInv
    <3>2. \A p \in Nat : Covers(merged' \cup cluster' \cup todo', p)
                          <=> Covers(merged \cup cluster \cup todo, p)
      <4>1. merged' \cup cluster' \cup todo' = merged \cup {Union(cluster)} \cup todo
        BY <1>2, <2>1
      <4>2. QED
        BY <3>1, <4>1 DEF Covers
    <3>3. /\ Reportable(merged \cup cluster \cup todo)
          /\ Reportable(merged' \cup cluster' \cup todo')
      <4>1. /\ IsFiniteSet(merged \cup cluster \cup todo)
            /\ IsFiniteSet(merged' \cup cluster' \cup todo')
        <5>1. IsFiniteSet(cluster \cup todo) /\ IsFiniteSet({d} \cup (todo \ {d}))
          BY <1>4, <1>5, FS_Subset DEF Reportable
        <5>2. IsFiniteSet(merged \cup (cluster \cup todo))
          BY <1>4, <5>1, FS_Union DEF Reportable
        <5>3. IsFiniteSet(merged' \cup ({d} \cup (todo \ {d})))
          BY <2>3, <5>1, FS_Union DEF Reportable
        <5>4. /\ merged \cup (cluster \cup todo) = merged \cup cluster \cup todo
              /\ merged' \cup ({d} \cup (todo \ {d})) = merged' \cup cluster' \cup todo'
          BY <1>2, <2>1
        <5>5. QED
          BY <5>2, <5>3, <5>4
      <4>2. QED
        BY <1>2, <1>4, <1>5, <2>1, <2>3, <4>1 DEF Reportable
    <3>4. SameCover(merged \cup cluster \cup todo, kept \cup Ner(raw))
      BY <1>1 DEF CoverInv
    <3>5. QED
      BY <1>5, <3>2, <3>3, <3>4, SameCoverEverywhere
  <2>11. CoverInv'
    BY <1>1, <1>3, <1>8, <2>10 DEF CoverInv, NothingExposed
  <2>12. QED
    BY <1>7, <2>4, <2>9, <2>11 DEF ArbitrationInv
<1>11. QED
  BY <1>9, <1>10

LEMMA MergeDoneKeepsInv == ASSUME ArbitrationInv, MergeDone PROVE ArbitrationInv'
<1>1. /\ phase = "merge" /\ phase' = "done" /\ todo = {} /\ todo' = {} /\ raw' = raw
      /\ kept' = kept /\ cluster' = cluster
      /\ merged' = IF cluster = {} THEN merged ELSE merged \cup {Union(cluster)}
      /\ TypeOK /\ GreedyInv /\ MergeInv /\ CoverInv
  BY DEF MergeDone, ArbitrationInv
<1>2. Ner(raw)' = Ner(raw) /\ Tier0(raw)' = Tier0(raw)
  BY <1>1 DEF Ner, Tier0
<1>3. /\ Reportable(raw) /\ kept \cup Ner(raw) \in SUBSET raw
      /\ cluster \subseteq kept \cup Ner(raw) /\ Reportable(merged)
  BY <1>1 DEF TypeOK, Tier0, Ner
<1>4. Reportable(cluster) /\ Reportable(kept \cup Ner(raw))
  BY <1>3, ReportableParts
<1>5. GreedyInv'
  BY <1>1, <1>2 DEF GreedyInv, KeptDisjoint, DroppedForBetter
<1>6. Reportable(merged') /\ PairwiseDisjoint(merged')
  <2>1. CASE cluster = {}
    BY <1>1, <1>3, <2>1 DEF MergeInv, ResultDisjoint
  <2>2. CASE cluster # {}
    BY <1>1, <1>4, <2>2, UnionIsApart
  <2>3. QED
    BY <2>1, <2>2
<1>7. TypeOK'
  BY <1>1, <1>2, <1>3, <1>6 DEF TypeOK
<1>8. MergeInv'
  BY <1>1, <1>6 DEF MergeInv, ResultDisjoint
<1>9. SameCover(merged', kept \cup Ner(raw))
  <2>1. SameCover(merged \cup cluster, kept \cup Ner(raw))
    <3>1. merged \cup cluster \cup todo = merged \cup cluster
      BY <1>1
    <3>2. QED
      BY <1>1, <3>1 DEF CoverInv
  <2>2. CASE cluster = {}
    <3>1. merged' = merged \cup cluster
      BY <1>1, <2>2
    <3>2. QED
      BY <2>1, <3>1
  <2>3. CASE cluster # {}
    <3>1. \A p \in Nat : Covers({Union(cluster)}, p) <=> Covers(cluster, p)
      BY <1>1, <1>4, <2>3, UnionCoversRun DEF MergeInv
    <3>2. \A p \in Nat : Covers(merged', p) <=> Covers(merged \cup cluster, p)
      BY <1>1, <2>3, <3>1 DEF Covers
    <3>3. Reportable(merged \cup cluster)
      <4>1. IsFiniteSet(merged \cup cluster)
        BY <1>3, <1>4, FS_Union DEF Reportable
      <4>2. QED
        BY <1>3, <1>4, <4>1 DEF Reportable
    <3>4. QED
      BY <1>4, <1>6, <2>1, <3>2, <3>3, SameCoverEverywhere
  <2>4. QED
    BY <2>2, <2>3
<1>10. CoverInv'
  BY <1>1, <1>2, <1>9 DEF CoverInv, NothingExposed
<1>11. QED
  BY <1>5, <1>7, <1>8, <1>10 DEF ArbitrationInv

\* The invariant of the two loops holds for every text: Tier-0 spans kept are
\* disjoint, each dropped candidate lost to a better one, the run being
\* collected has no hole and nothing covered is uncovered.
THEOREM ArbitrationInvariant == Spec => []ArbitrationInv
<1>1. ArbitrationInv /\ [Next]_vars => ArbitrationInv'
  <2>1. SUFFICES ASSUME ArbitrationInv, [Next]_vars PROVE ArbitrationInv'
    OBVIOUS
  <2>2. CASE UNCHANGED vars
    BY <2>1, <2>2 DEF vars, ArbitrationInv, TypeOK, GreedyInv, MergeInv, CoverInv, KeptDisjoint,
       DroppedForBetter, ResultDisjoint, NothingExposed
  <2>3. QED
    BY <2>1, <2>2, ConsiderKeepsInv, GreedyDoneKeepsInv, CollectKeepsInv, MergeDoneKeepsInv DEF Next
<1>2. QED
  BY InitArbitration, <1>1, PTL DEF Spec

\* The types are right throughout.
THEOREM ArbitrationTypeCorrect == Spec => []TypeOK
<1>1. ArbitrationInv => TypeOK
  BY DEF ArbitrationInv
<1>2. QED
  BY <1>1, ArbitrationInvariant, PTL

\* _greedy's comment: "The kept spans are pairwise non-overlapping", although
\* each candidate is compared with a single kept span.
THEOREM KeptSpansDisjoint == Spec => []KeptDisjoint
<1>1. ArbitrationInv => KeptDisjoint
  BY DEF ArbitrationInv, GreedyInv
<1>2. QED
  BY <1>1, ArbitrationInvariant, PTL

\* "equivalently, no higher-priority detection covers it": a Tier-0 candidate
\* is dropped only for a kept one that overlaps it and is at least as good.
THEOREM DroppedOnlyForBetter == Spec => []DroppedForBetter
<1>1. ArbitrationInv => DroppedForBetter
  BY DEF ArbitrationInv, GreedyInv
<1>2. QED
  BY <1>1, ArbitrationInvariant, PTL

\* resolve_overlaps: "at most one detection per region of text".
THEOREM ResolvedSpansDisjoint == Spec => []ResultDisjoint
<1>1. ArbitrationInv => ResultDisjoint
  BY DEF ArbitrationInv, MergeInv
<1>2. QED
  BY <1>1, ArbitrationInvariant, PTL

\* Merging a name with what it overlaps leaves no character of either side in
\* the clear, and redacts no other.
THEOREM MergingExposesNothing == Spec => []NothingExposed
<1>1. ArbitrationInv => NothingExposed
  BY DEF ArbitrationInv, CoverInv
<1>2. QED
  BY <1>1, ArbitrationInvariant, PTL

----------------------------------------------------------------------------
(* The loops compute the function.                                         *)

\* Two Tier-0 detections of which neither is better are one.
LEMMA TiesAreOne ==
    ASSUME NEW c \in Detection, NEW d \in Detection, ~c.ner, ~d.ner, ~Better(c, d), c # d
    PROVE  Better(d, c)
<1>1. SUFFICES ASSUME ~Better(d, c) PROVE FALSE
  OBVIOUS
<1>2. /\ c.start \in Nat /\ c.end \in Nat /\ c.confidence \in Nat
      /\ d.start \in Nat /\ d.end \in Nat /\ d.confidence \in Nat
  BY DEF Detection
<1>3. c.confidence = d.confidence /\ c.start = d.start /\ c.end = d.end
  BY <1>1, <1>2 DEF Better, Size
<1>4. c.ner = FALSE /\ d.ner = FALSE
  BY DEF Detection
<1>5. c = [start |-> c.start, end |-> c.end, confidence |-> c.confidence, ner |-> c.ner]
      /\ d = [start |-> d.start, end |-> d.end, confidence |-> d.confidence, ner |-> d.ner]
  BY DEF Detection
<1>6. QED
  BY <1>3, <1>4, <1>5

\* K keeps exactly the candidates of S no better kept one overlaps.
Keeps(K, S) == \A c \in Tier0(S) :
    c \in K <=> ~\E k \in K : k # c /\ Overlap2(k, c) /\ Better(k, c)

\* One set at most does: consider the best detection two such sets do not share.
LEMMA OneKeeps ==
    ASSUME NEW S, Reportable(S), NEW K \in SUBSET Tier0(S), NEW L \in SUBSET Tier0(S),
           Keeps(K, S), Keeps(L, S)
    PROVE  K = L
<1> DEFINE D == (K \ L) \cup (L \ K)
           R == {p \in D \X D : ~Better(p[1], p[2])}
<1>1. SUFFICES ASSUME D # {} PROVE FALSE
  OBVIOUS
<1>2. D \in SUBSET S /\ IsFiniteSet(D)
  <2>1. D \in SUBSET S
    BY DEF Tier0
  <2>2. QED
    BY <2>1, FS_Subset DEF Reportable
<1>3. \A d \in D : d.start \in Nat /\ d.end \in Nat /\ d.confidence \in Nat /\ Size(d) \in Int
  BY <1>2, ReportableFacts DEF Size
<1>4. K \subseteq Tier0(S) /\ L \subseteq Tier0(S)
  OBVIOUS
<1> HIDE DEF D
<1>5. \A x, y \in D : <<x, y>> \in R <=> ~Better(x, y)
  OBVIOUS
<1> HIDE DEF R
<1>6. ASSUME NEW x \in D, NEW y \in D PROVE <<x, y>> \in R \/ <<y, x>> \in R
  <2>1. ~Better(x, y) \/ ~Better(y, x)
    BY <1>3 DEF Better
  <2>2. QED
    BY <1>5, <2>1
<1>7. ASSUME NEW x \in D, NEW y \in D, NEW z \in D, <<x, y>> \in R, <<y, z>> \in R
      PROVE  <<x, z>> \in R
  <2>1. ~Better(x, y) /\ ~Better(y, z)
    BY <1>5, <1>7
  <2>2. ~Better(x, z)
    BY <1>3, <2>1 DEF Better
  <2>3. QED
    BY <1>5, <2>2
<1>8. PICK m \in D : \A y \in D : <<y, m>> \in R
  BY <1>1, <1>2, <1>6, <1>7, Greatest
<1>9. \A y \in D : ~Better(y, m)
  BY <1>5, <1>8
<1>10. ASSUME NEW A \in SUBSET Tier0(S), NEW B \in SUBSET Tier0(S), Keeps(A, S), Keeps(B, S),
              D = (A \ B) \cup (B \ A), m \in A, m \notin B
       PROVE  FALSE
  <2>1. m \in Tier0(S)
    BY <1>10
  <2>2. PICK k \in B : k # m /\ Overlap2(k, m) /\ Better(k, m)
    BY <1>10, <2>1 DEF Keeps
  <2>3. k \in A
    BY <1>9, <1>10, <2>2
  <2>4. QED
    BY <1>10, <2>1, <2>2, <2>3 DEF Keeps
<1>11. (m \in K /\ m \notin L) \/ (m \in L /\ m \notin K)
  <2>1. m \in D
    OBVIOUS
  <2>2. QED
    BY <2>1 DEF D
<1>12. D = (K \ L) \cup (L \ K) /\ D = (L \ K) \cup (K \ L)
  BY DEF D
<1>13. QED
  BY <1>10, <1>11, <1>12

\* The first loop ends with that set.
LEMMA GreedyChooses ==
    ASSUME TypeOK, GreedyInv, phase = "greedy", todo = {}
    PROVE  kept = Chosen(raw)
<1>1. Reportable(raw) /\ kept \in SUBSET Tier0(raw) /\ Tier0(raw) \subseteq raw
  BY DEF TypeOK, Tier0
<1>2. Keeps(kept, raw)
  <2> SUFFICES ASSUME NEW c \in Tier0(raw)
               PROVE  c \in kept <=> ~\E k \in kept : k # c /\ Overlap2(k, c) /\ Better(k, c)
    BY DEF Keeps
  <2>1. CASE c \in kept
    BY <2>1 DEF GreedyInv, KeptDisjoint, PairwiseDisjoint
  <2>2. CASE c \notin kept
    <3>1. PICK k \in kept : Overlap2(k, c) /\ ~Better(c, k)
      BY <2>2 DEF GreedyInv, DroppedForBetter
    <3>2. k \in Detection /\ c \in Detection /\ ~k.ner /\ ~c.ner /\ k # c
      BY <1>1, <2>2, ReportableFacts DEF Tier0
    <3>3. Better(k, c)
      BY <3>1, <3>2, TiesAreOne
    <3>4. QED
      BY <2>2, <3>1, <3>2, <3>3
  <2>3. QED
    BY <2>1, <2>2
<1>3. Chosen(raw) = CHOOSE K \in SUBSET Tier0(raw) : Keeps(K, raw)
  BY DEF Chosen, Keeps
<1>4. Chosen(raw) \in SUBSET Tier0(raw) /\ Keeps(Chosen(raw), raw)
  BY <1>1, <1>2, <1>3
<1>5. QED
  BY <1>1, <1>2, <1>4, OneKeeps

\* The numbers of the spans the second loop works on.
LEMMA BaseFacts ==
    ASSUME TypeOK
    PROVE  /\ Reportable(Base) /\ cluster \subseteq Base /\ Reportable(cluster)
           /\ phase # "greedy" => todo \subseteq Base
           /\ \A d \in Base : d.start \in Nat /\ d.end \in Nat /\ d.start < d.end
           /\ \A m \in merged : m.start \in Nat /\ m.end \in Nat /\ m.start < m.end
<1>1. /\ Reportable(raw) /\ Base \in SUBSET raw /\ cluster \subseteq Base /\ Reportable(merged)
      /\ phase # "greedy" => todo \subseteq Base
  BY DEF TypeOK, Base, Tier0, Ner
<1>2. Reportable(Base) /\ Reportable(cluster)
  BY <1>1, ReportableParts
<1>3. QED
  BY <1>1, <1>2, ReportableFacts

\* A run to which no candidate can be added becomes a span of the result.
LEMMA UnionIsResult ==
    ASSUME ArbitrationInv, RunsInv, phase = "merge", cluster # {},
           \A e \in todo : LastEnd(cluster) <= e.start
    PROVE  /\ IsRun(Union(cluster)) /\ ~Crossed(LastEnd(cluster))
           /\ Union(cluster).start = FirstStart(cluster) /\ Union(cluster).end = LastEnd(cluster)
           /\ \A c \in cluster : Union(cluster).start <= c.start /\ c.end <= Union(cluster).end
           /\ \A e \in Base : e \in cluster \/ e.end <= FirstStart(cluster)
                                            \/ LastEnd(cluster) <= e.start
<1> DEFINE lo == FirstStart(cluster)  hi == LastEnd(cluster)
<1>1. TypeOK /\ MergeInv /\ kept \subseteq Tier0(raw)
  BY DEF ArbitrationInv, TypeOK
<1>2. /\ Reportable(Base) /\ cluster \subseteq Base /\ Reportable(cluster) /\ todo \subseteq Base
      /\ \A d \in Base : d.start \in Nat /\ d.end \in Nat /\ d.start < d.end
      /\ \A m \in merged : m.start \in Nat /\ m.end \in Nat /\ m.start < m.end
  BY <1>1, BaseFacts
<1>3. IsFiniteSet(cluster) /\ \A d \in cluster : d \in Detection /\ d.start < d.end
  BY <1>2, ReportableFacts
<1>4. /\ \E d \in cluster : d.start = lo
      /\ \E d \in cluster : d.end = hi
      /\ \A d \in cluster : lo <= d.start /\ d.end <= hi
  BY <1>3, RunBounds
<1>5. lo \in Nat /\ hi \in Nat
  BY <1>2, <1>4
<1>6. Union(cluster).start = lo /\ Union(cluster).end = hi
  BY <1>3, UnionIsRun
<1>7. ASSUME NEW e \in Base, e \notin cluster PROVE e.end <= lo \/ hi <= e.start
  <2>1. CASE e \in todo
    BY <2>1
  <2>2. CASE e \notin todo
    <3>1. PICK m \in merged : m.start <= e.start /\ e.end <= m.end
      BY <1>7, <2>2 DEF RunsInv
    <3>2. PICK c \in cluster : c.start = lo
      BY <1>4
    <3>3. m.end <= c.start
      BY <1>1, <3>1, <3>2 DEF MergeInv
    <3>4. QED
      BY <1>2, <1>5, <3>1, <3>2, <3>3
  <2>3. QED
    BY <2>1, <2>2
<1>8. ~Crossed(hi) /\ ~Crossed(lo)
  <2>1. ASSUME NEW e \in Base PROVE ~Straddles(e, hi)
    BY <1>2, <1>4, <1>5, <1>7 DEF Straddles
  <2>2. ~Crossed(hi)
    BY <2>1 DEF Crossed
  <2>3. QED
    BY <2>2 DEF RunsInv
<1>9. \A p \in lo + 1 .. hi - 1 : Crossed(p)
  BY DEF RunsInv
<1>10. \A k \in kept : Overlap2(Union(cluster), k) => ~Union(cluster).ner
  <2> SUFFICES ASSUME NEW k \in kept, Overlap2(Union(cluster), k) PROVE ~Union(cluster).ner
    OBVIOUS
  <2>1. k \in Base
    BY DEF Base
  <2>2. k \in cluster
    BY <1>2, <1>5, <1>6, <1>7, <2>1 DEF Overlap2
  <2>3. Tier0(cluster) # {}
    BY <1>1, <2>2 DEF Tier0
  <2>4. ~Strongest(Namers(cluster)).ner
    BY <1>3, <2>3, NamerOfRun
  <2>5. Union(cluster).ner = Strongest(Namers(cluster)).ner
    BY DEF Union, Span
  <2>6. QED
    BY <2>4, <2>5
<1>11. /\ \E d \in Base : d.start = lo /\ d.end <= hi
       /\ \E d \in Base : lo <= d.start /\ d.end = hi
  BY <1>2, <1>4
<1>12. IsRun(Union(cluster))
  BY <1>6, <1>8, <1>9, <1>10, <1>11 DEF IsRun
<1>13. QED
  BY <1>4, <1>6, <1>7, <1>8, <1>12

\* A run that starts with d: nothing reaches over its start, and it holds together.
LEMMA NewRun ==
    ASSUME TypeOK, NEW d \in Base,
           \A e \in Base : e.end <= d.start \/ d.start <= e.start
    PROVE  /\ ~Crossed(FirstStart({d}))
           /\ \A p \in FirstStart({d}) + 1 .. LastEnd({d}) - 1 : Crossed(p)
<1>1. /\ Reportable(Base)
      /\ \A e \in Base : e.start \in Nat /\ e.end \in Nat /\ e.start < e.end
  BY BaseFacts
<1>2. IsFiniteSet({d}) /\ {d} # {} /\ \A e \in {d} : e \in Detection
  BY <1>1, ReportableFacts, FS_Singleton
<1>3. FirstStart({d}) = d.start /\ LastEnd({d}) = d.end
  BY <1>2, RunBounds
<1>4. ~Crossed(d.start)
  BY <1>1 DEF Crossed, Straddles
<1>5. \A p \in d.start + 1 .. d.end - 1 : Crossed(p)
  BY <1>1 DEF Crossed, Straddles
<1>6. QED
  BY <1>3, <1>4, <1>5

LEMMA GreedyDoneKeepsRuns == ASSUME ArbitrationInv, GreedyDone PROVE RunsInv'
<1>1. /\ phase = "greedy" /\ todo = {} /\ raw' = raw /\ kept' = kept /\ cluster' = cluster
      /\ cluster = {} /\ merged = {} /\ TypeOK /\ GreedyInv /\ KeptDisjoint
  BY DEF GreedyDone, ArbitrationInv, GreedyInv
<1>2. kept' = Chosen(raw)'
  BY <1>1, GreedyChooses DEF Chosen, Tier0
<1>3. Base' = Base /\ \A p : Crossed(p)' <=> Crossed(p)
  BY <1>1 DEF Base, Ner, Crossed
<1>4. CASE Ner(raw) = {}
  <2>1. phase' = "done" /\ merged' = kept
    BY <1>1, <1>4 DEF GreedyDone
  <2>2. Base = kept /\ \A d \in Base : d.start \in Nat /\ d.end \in Nat /\ d.start < d.end
    BY <1>1, <1>4, BaseFacts DEF Base
  <2>3. ASSUME NEW m \in kept PROVE IsRun(m)'
    <3>1. \A p \in m.start + 1 .. m.end - 1 : Crossed(p)
      BY <2>2, <2>3 DEF Crossed, Straddles
    <3>2. ~Crossed(m.start) /\ ~Crossed(m.end)
      <4>1. \A e \in kept : e # m => ~Overlap2(e, m)
        BY <1>1, <2>3 DEF KeptDisjoint, PairwiseDisjoint
      <4>2. QED
        BY <2>2, <2>3, <4>1 DEF Crossed, Straddles, Overlap2
    <3>3. \A k \in kept : Overlap2(m, k) => ~m.ner
      BY <1>1, <2>3 DEF TypeOK, Tier0
    <3>4. m \in Base /\ m.start <= m.start /\ m.end <= m.end
      BY <2>2, <2>3
    <3>5. QED
      BY <1>1, <1>3, <3>1, <3>2, <3>3, <3>4 DEF IsRun
  <2>4. \A d \in Base' : \E m \in merged' : m.start <= d.start /\ d.end <= m.end
    BY <1>3, <2>1, <2>2
  <2>5. QED
    BY <1>2, <2>1, <2>3, <2>4 DEF RunsInv
<1>5. CASE Ner(raw) # {}
  <2>1. phase' = "merge" /\ merged' = {} /\ todo' = Base
    BY <1>1, <1>5 DEF GreedyDone, Base
  <2>2. QED
    BY <1>1, <1>2, <1>3, <2>1 DEF RunsInv
<1>6. QED
  BY <1>4, <1>5

LEMMA CollectKeepsRuns == ASSUME ArbitrationInv, RunsInv, Collect PROVE RunsInv'
<1>1. /\ phase = "merge" /\ phase' = "merge" /\ raw' = raw /\ kept' = kept
      /\ TypeOK /\ MergeInv
  BY DEF Collect, ArbitrationInv
<1>2. PICK d \in todo :
        /\ \A e \in todo : d.start <= e.start
        /\ todo' = todo \ {d}
        /\ IF Joins(d)
           THEN cluster' = cluster \cup {d} /\ merged' = merged
           ELSE cluster' = {d} /\ merged' = merged \cup {Union(cluster)}
  BY DEF Collect
<1>3. /\ Base' = Base /\ \A p : Crossed(p)' <=> Crossed(p)
      /\ \A m : IsRun(m)' <=> IsRun(m)
  <2>1. Base' = Base
    BY <1>1 DEF Base, Ner
  <2>2. \A p : Crossed(p)' <=> Crossed(p)
    BY <2>1 DEF Crossed
  <2>3. QED
    BY <1>1, <2>1, <2>2 DEF IsRun
<1>4. kept' = Chosen(raw)'
  BY <1>1 DEF RunsInv, Chosen, Tier0
<1>5. /\ Reportable(Base) /\ cluster \subseteq Base /\ Reportable(cluster) /\ todo \subseteq Base
      /\ \A e \in Base : e.start \in Nat /\ e.end \in Nat /\ e.start < e.end
      /\ \A m \in merged : m.start \in Nat /\ m.end \in Nat /\ m.start < m.end
  BY <1>1, BaseFacts
<1>6. \A e \in Base : \/ e \in todo \cup cluster
                      \/ \E m \in merged : m.start <= e.start /\ e.end <= m.end
  BY <1>1 DEF RunsInv
<1>7. CASE cluster = {}
  <2>1. cluster' = {d} /\ merged' = merged /\ merged = {}
    BY <1>1, <1>2, <1>7 DEF Joins, MergeInv
  <2>2. \A e \in Base : d.start <= e.start
    BY <1>2, <1>6, <1>7, <2>1
  <2>3. /\ ~Crossed(FirstStart({d}))
        /\ \A p \in FirstStart({d}) + 1 .. LastEnd({d}) - 1 : Crossed(p)
    BY <1>1, <1>5, <2>2, NewRun
  <2>4. \A e \in Base : e \in todo' \cup cluster'
    BY <1>2, <1>6, <1>7, <2>1
  <2>5. QED
    BY <1>1, <1>3, <1>4, <2>1, <2>3, <2>4 DEF RunsInv
<1>8. CASE cluster # {} /\ ~Joins(d)
  <2>1. cluster' = {d} /\ merged' = merged \cup {Union(cluster)}
    BY <1>2, <1>8
  <2>2. IsFiniteSet(cluster) /\ \A e \in cluster : e \in Detection /\ e.start < e.end
    BY <1>5, ReportableFacts
  <2>3. LastEnd(cluster) \in Nat /\ FirstStart(cluster) \in Nat
    BY <1>5, <1>8, <2>2, RunBounds
  <2>4. LastEnd(cluster) <= d.start
    BY <1>5, <1>8, <2>3 DEF Joins
  <2>5. \A e \in todo : LastEnd(cluster) <= e.start
    BY <1>2, <1>5, <2>3, <2>4
  <2>6. /\ IsRun(Union(cluster))
        /\ \A c \in cluster : Union(cluster).start <= c.start /\ c.end <= Union(cluster).end
    BY <1>1, <1>8, <2>5, UnionIsResult
  <2>7. \A e \in Base : e.end <= d.start \/ d.start <= e.start
    <3> SUFFICES ASSUME NEW e \in Base PROVE e.end <= d.start \/ d.start <= e.start
      OBVIOUS
    <3>1. CASE e \in todo
      BY <1>2, <3>1
    <3>2. CASE e \in cluster
      <4>1. e.end <= LastEnd(cluster)
        BY <2>2, <3>2, RunBounds
      <4>2. QED
        BY <1>5, <2>3, <2>4, <4>1
    <3>3. CASE \E m \in merged : m.start <= e.start /\ e.end <= m.end
      <4>1. PICK m \in merged : m.start <= e.start /\ e.end <= m.end
        BY <3>3
      <4>2. m.end <= d.start
        BY <1>1, <1>2, <4>1 DEF MergeInv
      <4>3. QED
        BY <1>5, <4>1, <4>2
    <3>4. QED
      BY <1>6, <3>1, <3>2, <3>3
  <2>8. /\ ~Crossed(FirstStart({d}))
        /\ \A p \in FirstStart({d}) + 1 .. LastEnd({d}) - 1 : Crossed(p)
    BY <1>1, <1>5, <2>7, NewRun
  <2>9. \A e \in Base : \/ e \in todo' \cup cluster'
                        \/ \E m \in merged' : m.start <= e.start /\ e.end <= m.end
    BY <1>2, <1>6, <2>1, <2>6
  <2>10. \A m \in merged' : IsRun(m)
    BY <1>1, <2>1, <2>6 DEF RunsInv
  <2>11. QED
    BY <1>1, <1>3, <1>4, <2>1, <2>8, <2>9, <2>10 DEF RunsInv
<1>9. CASE cluster # {} /\ Joins(d)
  <2> DEFINE T == cluster \cup {d}
  <2>1. cluster' = T /\ merged' = merged
    BY <1>2, <1>9
  <2>2. /\ IsFiniteSet(cluster) /\ \A e \in cluster : e \in Detection /\ e.start < e.end
        /\ IsFiniteSet(T) /\ \A e \in T : e \in Detection
    <3>1. IsFiniteSet(cluster) /\ IsFiniteSet(T)
      BY <1>5, FS_AddElement, ReportableFacts
    <3>2. QED
      BY <1>2, <1>5, <3>1, ReportableFacts
  <2>3. /\ \E e \in cluster : e.start = FirstStart(cluster)
        /\ \E e \in cluster : e.end = LastEnd(cluster)
        /\ \A e \in cluster : FirstStart(cluster) <= e.start /\ e.end <= LastEnd(cluster)
    BY <1>9, <2>2, RunBounds
  <2>4. T # {}
    OBVIOUS
  <2> HIDE DEF T
  <2>5. /\ \E e \in T : e.start = FirstStart(T)
        /\ \E e \in T : e.end = LastEnd(T)
        /\ \A e \in T : FirstStart(T) <= e.start /\ e.end <= LastEnd(T)
    BY <2>2, <2>4, RunBounds
  <2>6. \A e \in T : e \in cluster \/ e = d
    BY DEF T
  <2>7. cluster \subseteq T /\ d \in T /\ T \subseteq Base
    BY <1>2, <1>5 DEF T
  <2>8. \A c \in cluster : c.start <= d.start
    BY <1>1, <1>2 DEF MergeInv
  <2>9. FirstStart(T) = FirstStart(cluster) /\ FirstStart(T) \in Nat /\ LastEnd(T) \in Nat
        /\ LastEnd(cluster) \in Nat
    BY <1>5, <2>3, <2>5, <2>6, <2>7, <2>8
  <2>10. LastEnd(T) <= LastEnd(cluster) \/ LastEnd(T) = d.end
    BY <2>3, <2>5, <2>6
  <2>11. d.start < LastEnd(cluster)
    BY <1>9 DEF Joins
  <2>12. ASSUME NEW p \in FirstStart(T) + 1 .. LastEnd(T) - 1 PROVE Crossed(p)
    <3>1. CASE p < LastEnd(cluster)
      <4>1. p \in FirstStart(cluster) + 1 .. LastEnd(cluster) - 1
        BY <2>9, <3>1
      <4>2. QED
        BY <1>1, <1>9, <4>1 DEF RunsInv
    <3>2. CASE ~(p < LastEnd(cluster))
      <4>1. Straddles(d, p)
        BY <1>2, <1>5, <2>9, <2>10, <2>11, <2>12, <3>2 DEF Straddles
      <4>2. QED
        BY <1>2, <1>5, <4>1 DEF Crossed
    <3>3. QED
      BY <3>1, <3>2
  <2>13. ~Crossed(FirstStart(T))
    BY <1>1, <1>9, <2>9 DEF RunsInv
  <2>14. \A e \in Base : \/ e \in todo' \cup T
                         \/ \E m \in merged : m.start <= e.start /\ e.end <= m.end
    BY <1>2, <1>6, <2>7
  <2>15. \A m \in merged : IsRun(m)
    BY <1>1 DEF RunsInv
  <2>16. QED
    BY <1>1, <1>3, <1>4, <2>1, <2>12, <2>13, <2>14, <2>15 DEF RunsInv
<1>10. QED
  BY <1>7, <1>8, <1>9

LEMMA MergeDoneKeepsRuns == ASSUME ArbitrationInv, RunsInv, MergeDone PROVE RunsInv'
<1>1. /\ phase = "merge" /\ phase' = "done" /\ todo = {} /\ raw' = raw /\ kept' = kept
      /\ merged' = IF cluster = {} THEN merged ELSE merged \cup {Union(cluster)}
  BY DEF MergeDone
<1>2. Base' = Base /\ \A m : IsRun(m)' <=> IsRun(m)
  <2>1. Base' = Base
    BY <1>1 DEF Base, Ner
  <2>2. \A p : Crossed(p)' <=> Crossed(p)
    BY <2>1 DEF Crossed
  <2>3. QED
    BY <1>1, <2>1, <2>2 DEF IsRun
<1>3. kept' = Chosen(raw)'
  BY <1>1 DEF RunsInv, Chosen, Tier0
<1>4. \A e \in Base : e \in cluster \/ \E m \in merged : m.start <= e.start /\ e.end <= m.end
  BY <1>1 DEF RunsInv
<1>5. \A m \in merged : IsRun(m)
  BY <1>1 DEF RunsInv
<1>6. CASE cluster = {}
  BY <1>1, <1>2, <1>3, <1>4, <1>5, <1>6 DEF RunsInv
<1>7. CASE cluster # {}
  <2>1. /\ IsRun(Union(cluster))
        /\ \A c \in cluster : Union(cluster).start <= c.start /\ c.end <= Union(cluster).end
    BY <1>1, <1>7, UnionIsResult
  <2>2. /\ \A m \in merged' : IsRun(m)
        /\ \A e \in Base : \E m \in merged' : m.start <= e.start /\ e.end <= m.end
    BY <1>1, <1>4, <1>5, <1>7, <2>1
  <2>3. QED
    BY <1>1, <1>2, <1>3, <2>2 DEF RunsInv
<1>8. QED
  BY <1>6, <1>7

\* The runs the second loop leaves behind are spans of the result.
THEOREM RunsInvariant == Spec => [](ArbitrationInv /\ RunsInv)
<1>1. ArbitrationInit => RunsInv
  BY DEF ArbitrationInit, RunsInv
<1>2. ArbitrationInv /\ RunsInv /\ [Next]_vars => RunsInv'
  <2>1. SUFFICES ASSUME ArbitrationInv, RunsInv, [Next]_vars PROVE RunsInv'
    OBVIOUS
  <2>2. CASE UNCHANGED vars
    <3>1. Base' = Base /\ \A p : Crossed(p)' <=> Crossed(p)
      BY <2>2 DEF vars, Base, Ner, Crossed
    <3>2. \A m : IsRun(m)' <=> IsRun(m)
      BY <2>2, <3>1 DEF vars, IsRun
    <3>3. kept = Chosen(raw) => kept' = Chosen(raw)'
      BY <2>2 DEF vars, Chosen, Tier0
    <3>4. QED
      BY <2>1, <2>2, <3>1, <3>2, <3>3 DEF vars, RunsInv
  <2>3. CASE Consider
    BY <2>3 DEF Consider, RunsInv
  <2>4. QED
    BY <2>1, <2>2, <2>3, GreedyDoneKeepsRuns, CollectKeepsRuns, MergeDoneKeepsRuns DEF Next
<1>3. QED
  BY <1>1, <1>2, ArbitrationInvariant, PTL DEF Spec

\* The spans of the base a span of the result stands for.
Inside(m) == {e \in Base : m.start <= e.start /\ e.end <= m.end}

\* Of two spans of the base, both are in one span of the result or some
\* boundary between them is crossed by none.
LEMMA RunMembers ==
    ASSUME ArbitrationInv, RunsInv, phase = "done", NEW m \in merged, NEW d \in Inside(m), NEW e \in Base
    PROVE  e \in Inside(m) <=>
             \A p \in Smaller(d.start, e.start) .. Larger(d.end, e.end) - 2 :
                 \E f \in Base : f.start <= p /\ p + 1 < f.end
<1>1. /\ \A x \in Base : x.start \in Nat /\ x.end \in Nat /\ x.start < x.end
      /\ \A x \in merged : x.start \in Nat /\ x.end \in Nat /\ x.start < x.end
  BY BaseFacts DEF ArbitrationInv
<1>2. d \in Base /\ m.start <= d.start /\ d.end <= m.end
  BY DEF Inside
<1>3. /\ \A p \in m.start + 1 .. m.end - 1 : Crossed(p)
      /\ ~Crossed(m.start) /\ ~Crossed(m.end)
  BY DEF RunsInv, IsRun
<1>4. \A p \in Nat : (\E f \in Base : f.start <= p /\ p + 1 < f.end) <=> Crossed(p + 1)
  BY <1>1 DEF Crossed, Straddles
<1>5. ASSUME e \in Inside(m), NEW p \in Smaller(d.start, e.start) .. Larger(d.end, e.end) - 2
      PROVE  \E f \in Base : f.start <= p /\ p + 1 < f.end
  <2>1. m.start <= e.start /\ e.end <= m.end
    BY <1>5 DEF Inside
  <2>2. p \in Nat /\ p + 1 \in m.start + 1 .. m.end - 1
    BY <1>1, <1>2, <1>5, <2>1 DEF Smaller, Larger
  <2>3. QED
    BY <1>3, <1>4, <2>2
<1>6. ASSUME e \notin Inside(m),
             \A p \in Smaller(d.start, e.start) .. Larger(d.end, e.end) - 2 :
                 \E f \in Base : f.start <= p /\ p + 1 < f.end
      PROVE  FALSE
  <2>1. PICK n \in merged : n.start <= e.start /\ e.end <= n.end
    BY DEF RunsInv
  <2>2. n # m /\ ~Overlap2(n, m)
    <3>1. n # m
      BY <1>6, <2>1 DEF Inside
    <3>2. QED
      BY <3>1 DEF ArbitrationInv, MergeInv, ResultDisjoint, PairwiseDisjoint
  <2>3. n.end <= m.start \/ m.end <= n.start
    BY <1>1, <2>2 DEF Overlap2
  <2>4. CASE m.end <= n.start
    <3>1. /\ m.end - 1 \in Nat /\ (m.end - 1) + 1 = m.end
          /\ m.end - 1 \in Smaller(d.start, e.start) .. Larger(d.end, e.end) - 2
      BY <1>1, <1>2, <2>1, <2>4 DEF Smaller, Larger
    <3>2. \E f \in Base : f.start <= m.end - 1 /\ (m.end - 1) + 1 < f.end
      BY <1>6, <3>1
    <3>3. Crossed((m.end - 1) + 1)
      BY <1>4, <3>1, <3>2
    <3>4. QED
      BY <1>3, <3>1, <3>3
  <2>5. CASE n.end <= m.start
    <3>1. /\ m.start - 1 \in Nat /\ (m.start - 1) + 1 = m.start
          /\ m.start - 1 \in Smaller(d.start, e.start) .. Larger(d.end, e.end) - 2
      BY <1>1, <1>2, <2>1, <2>5 DEF Smaller, Larger
    <3>2. \E f \in Base : f.start <= m.start - 1 /\ (m.start - 1) + 1 < f.end
      BY <1>6, <3>1
    <3>3. Crossed((m.start - 1) + 1)
      BY <1>4, <3>1, <3>2
    <3>4. QED
      BY <1>3, <3>1, <3>3
  <2>6. QED
    BY <2>3, <2>4, <2>5
<1>7. QED
  BY <1>5, <1>6

\* A span of the result starts where its first span does and ends with its last.
LEMMA RunEnds ==
    ASSUME ArbitrationInv, RunsInv, NEW m \in merged, phase = "done"
    PROVE  /\ Inside(m) # {}
           /\ FirstStart(Inside(m)) = m.start /\ LastEnd(Inside(m)) = m.end
<1>1. /\ Reportable(Base)
      /\ \A x \in Base : x.start \in Nat /\ x.end \in Nat /\ x.start < x.end
      /\ \A x \in merged : x.start \in Nat /\ x.end \in Nat /\ x.start < x.end
  BY BaseFacts DEF ArbitrationInv
<1>2. /\ \E d \in Inside(m) : d.start = m.start
      /\ \E d \in Inside(m) : d.end = m.end
      /\ \A d \in Inside(m) : d \in Base /\ m.start <= d.start /\ d.end <= m.end
  <2>1. /\ \E d \in Base : d.start = m.start /\ d.end <= m.end
        /\ \E d \in Base : m.start <= d.start /\ d.end = m.end
    BY DEF RunsInv, IsRun
  <2>2. QED
    BY <1>1, <2>1 DEF Inside
<1>3. IsFiniteSet(Inside(m)) /\ \A d \in Inside(m) : d \in Detection
  <2>1. Inside(m) \in SUBSET Base
    BY DEF Inside
  <2>2. QED
    BY <1>1, <2>1, ReportableFacts, FS_Subset
<1> DEFINE T == Inside(m)
<1> HIDE DEF T
<1>4. T # {} /\ IsFiniteSet(T) /\ \A d \in T : d \in Detection
  BY <1>2, <1>3 DEF T
<1>5. /\ \E d \in T : d.start = FirstStart(T)
      /\ \E d \in T : d.end = LastEnd(T)
      /\ \A d \in T : FirstStart(T) <= d.start /\ d.end <= LastEnd(T)
  BY <1>4, RunBounds
<1>6. /\ \E d \in T : d.start = m.start
      /\ \E d \in T : d.end = m.end
      /\ \A d \in T : d \in Base /\ m.start <= d.start /\ d.end <= m.end
  BY <1>2 DEF T
<1>7. FirstStart(T) = m.start /\ LastEnd(T) = m.end
  BY <1>1, <1>5, <1>6
<1>8. QED
  BY <1>4, <1>7 DEF T

\* When the loops are done, what they computed is the function.
LEMMA DoneIsTheFunction == ASSUME ArbitrationInv, RunsInv PROVE IsTheFunction
<1>1. SUFFICES ASSUME phase = "done"
               PROVE  {[start |-> m.start, end |-> m.end] : m \in merged} = ResolvedSpans(raw)
  BY DEF IsTheFunction, RunsInv, IsRun
<1> DEFINE Linked(d) == {e \in Base :
             \A p \in Smaller(d.start, e.start) .. Larger(d.end, e.end) - 2 :
                 \E f \in Base : f.start <= p /\ p + 1 < f.end}
           Spanned(d) == [start |-> FirstStart(Linked(d)), end |-> LastEnd(Linked(d))]
<1>2. ResolvedSpans(raw) = {Spanned(d) : d \in Base}
  <2>1. Chosen(raw) \cup Ner(raw) = Base
    BY <1>1 DEF RunsInv, Base
  <2>2. QED
    BY <2>1, ZenonT(60) DEF ResolvedSpans
<1>3. ASSUME NEW m \in merged, NEW d \in Inside(m)
      PROVE  Spanned(d) = [start |-> m.start, end |-> m.end]
  <2>1. Linked(d) = Inside(m)
    <3>1. \A e \in Base : e \in Linked(d) <=> e \in Inside(m)
      BY <1>1, RunMembers
    <3>2. Linked(d) \subseteq Base /\ Inside(m) \subseteq Base
      BY DEF Inside
    <3> HIDE DEF Linked
    <3>3. QED
      BY <3>1, <3>2
  <2>2. QED
    BY <1>1, <2>1, RunEnds
<1> HIDE DEF Spanned
<1>4. \A d \in Base : \E m \in merged : d \in Inside(m)
  BY <1>1 DEF RunsInv, Inside
<1>5. \A m \in merged : \E d \in Base : d \in Inside(m)
  <2>1. \A m \in merged : Inside(m) # {} /\ Inside(m) \subseteq Base
    BY <1>1, RunEnds DEF Inside
  <2>2. QED
    BY <2>1
<1>6. QED
  BY <1>2, <1>3, <1>4, <1>5

\* The two loops of resolve_overlaps compute ResolvedSpans, the declarative
\* reading of its docstring, for every text, whatever the order of ties: what
\* it does with detections depends on the set of them alone.
THEOREM LoopsComputeTheFunction == Spec => []IsTheFunction
<1>1. ArbitrationInv /\ RunsInv => IsTheFunction
  BY DoneIsTheFunction
<1>2. QED
  BY <1>1, RunsInvariant, PTL
=============================================================================
