------------------------ MODULE ParallelRedactProofs ------------------------
(***************************************************************************)
(* Proofs about parallel.redact_file_parallel, for every file, every plan *)
(* of ranges, every overlap and every interleaving of its processes.      *)
(***************************************************************************)
EXTENDS ParallelRedact, FiniteSetTheorems, WellFoundedInduction, TLAPS

-----------------------------------------------------------------------------
(* The plan: seams and pads.                                               *)

LEMMA Plan ==
    ASSUME NEW i \in Workers
    PROVE  /\ i \in Nat /\ SeamStart(i) \in Nat /\ SeamEnd(i) \in Nat
           /\ SeamStart(i) <= SeamEnd(i) /\ SeamEnd(i) <= TextLen
           /\ IsFirst(i) => SeamStart(i) = 0
           /\ IsLast(i) => SeamEnd(i) = TextLen
           /\ ~IsLast(i) => i + 1 \in Workers /\ SeamStart(i + 1) = SeamEnd(i)
           /\ ~IsFirst(i) => i - 1 \in Workers /\ SeamEnd(i - 1) = SeamStart(i)
<1> USE ParallelAssumption
<1>1. Len(seams) \in Nat /\ \A k \in 1 .. Len(seams) : seams[k] \in 0 .. TextLen
  OBVIOUS
<1>2. i \in 1 .. Len(seams) /\ i + 1 \in 1 .. Len(seams) /\ i < i + 1
  BY <1>1 DEF Workers
<1>3. QED
  BY <1>1, <1>2 DEF Workers, SeamStart, SeamEnd, IsFirst, IsLast

\* A worker reads its range and at most Overlap characters on either side,
\* fewer only where the file ends.
LEMMA Pads ==
    ASSUME NEW i \in Workers
    PROVE  /\ FirstRead(i) \in Nat /\ LastRead(i) \in Nat
           /\ FirstRead(i) <= SeamStart(i) /\ SeamEnd(i) <= LastRead(i) /\ LastRead(i) <= TextLen
           /\ FirstRead(i) = 0 \/ FirstRead(i) = SeamStart(i) - Overlap
           /\ LastRead(i) = TextLen \/ LastRead(i) = SeamEnd(i) + Overlap
           /\ LastRead(i) <= SeamEnd(i) + Overlap
<1>1. /\ SeamStart(i) \in Nat /\ SeamEnd(i) \in Nat /\ SeamStart(i) <= SeamEnd(i)
      /\ SeamEnd(i) <= TextLen /\ TextLen \in Nat /\ Overlap \in Nat
      /\ IsLast(i) => SeamEnd(i) = TextLen
  BY Plan, ParallelAssumption
<1>2. /\ FirstRead(i) \in Nat /\ FirstRead(i) <= SeamStart(i)
      /\ FirstRead(i) = 0 \/ FirstRead(i) = SeamStart(i) - Overlap
  BY <1>1 DEF FirstRead, Larger
<1>3. /\ LastRead(i) \in Nat /\ SeamEnd(i) <= LastRead(i) /\ LastRead(i) <= TextLen
      /\ LastRead(i) = TextLen \/ LastRead(i) = SeamEnd(i) + Overlap
      /\ LastRead(i) <= SeamEnd(i) + Overlap
  BY <1>1 DEF LastRead, Smaller
<1>4. QED
  BY <1>2, <1>3

-----------------------------------------------------------------------------
(* Spans across a seam.                                                    *)

\* Of disjoint spans at most one crosses a seam, and the text owned from there
\* begins where it ends.
LEMMA CutAtValue ==
    ASSUME NEW a \in Int, NEW b \in Int, NEW D \in SUBSET SpansIn(a, b), PairwiseDisjoint(D),
           NEW seam \in Int
    PROVE  \/ Straddler(D, seam) = {} /\ CutAt(D, seam) = seam
           \/ \E d \in D : /\ Straddler(D, seam) = {d} /\ CutAt(D, seam) = d.end
                           /\ d.start < seam /\ seam < d.end
<1>1. ASSUME NEW d \in Straddler(D, seam), NEW e \in Straddler(D, seam) PROVE d = e
  <2>1. d \in D /\ e \in D /\ d.start < seam /\ seam < d.end /\ e.start < seam /\ seam < e.end
    BY DEF Straddler, Straddles
  <2>2. d.start \in Int /\ d.end \in Int /\ e.start \in Int /\ e.end \in Int
    BY <2>1 DEF SpansIn
  <2>3. Overlap2(d, e)
    BY <2>1, <2>2 DEF Overlap2
  <2>4. QED
    BY <2>1, <2>3 DEF PairwiseDisjoint
<1>2. CASE Straddler(D, seam) = {}
  BY <1>2 DEF CutAt
<1>3. CASE Straddler(D, seam) # {}
  <2>1. PICK d \in Straddler(D, seam) : Straddler(D, seam) = {d}
    BY <1>1, <1>3
  <2>2. (CHOOSE e \in Straddler(D, seam) : TRUE) = d
    BY <2>1
  <2>3. CutAt(D, seam) = d.end
    BY <1>3, <2>2 DEF CutAt
  <2>4. d \in D /\ d.start < seam /\ seam < d.end
    BY DEF Straddler, Straddles
  <2>5. QED
    BY <2>1, <2>3, <2>4
<1>4. QED
  BY <1>2, <1>3

LEMMA CutAtBounds ==
    ASSUME NEW a \in Int, NEW b \in Int, NEW D \in SUBSET SpansIn(a, b), PairwiseDisjoint(D),
           NEW seam \in Int
    PROVE  /\ CutAt(D, seam) \in Int /\ seam <= CutAt(D, seam)
           /\ CutAt(D, seam) = seam \/ CutAt(D, seam) <= b
<1>1. \A d \in D : d.end \in Int /\ d.end <= b
  BY DEF SpansIn
<1>2. QED
  BY <1>1, CutAtValue

\* The cut depends on the straddlers alone.
LEMMA CutOfStraddlers ==
    ASSUME NEW D, NEW E, NEW seam, Straddler(D, seam) = Straddler(E, seam)
    PROVE  CutAt(D, seam) = CutAt(E, seam)
BY DEF CutAt

LEMMA StraddlerTwice ==
    ASSUME NEW D, NEW seam
    PROVE  Straddler(Straddler(D, seam), seam) = Straddler(D, seam)
BY DEF Straddler

LEMMA SubsetsDisjoint ==
    ASSUME NEW D, NEW E \in SUBSET D, PairwiseDisjoint(D)
    PROVE  PairwiseDisjoint(E)
BY DEF PairwiseDisjoint

LEMMA AppendDisjoint ==
    ASSUME NEW lo \in Int, NEW mid \in Int, NEW hi \in Int,
           NEW A \in SUBSET SpansIn(lo, mid), NEW B \in SUBSET SpansIn(mid, hi),
           PairwiseDisjoint(A), PairwiseDisjoint(B)
    PROVE  PairwiseDisjoint(A \cup B)
<1>1. \A a \in A : a.start \in Int /\ a.end \in Int /\ a.end <= mid
  BY DEF SpansIn
<1>2. \A b \in B : b.start \in Int /\ b.end \in Int /\ mid <= b.start
  BY DEF SpansIn
<1>3. \A a \in A, b \in B : ~Overlap2(a, b) /\ ~Overlap2(b, a)
  BY <1>1, <1>2 DEF Overlap2
<1>4. QED
  BY <1>3 DEF PairwiseDisjoint

LEMMA SpansGrow ==
    ASSUME NEW a \in Int, NEW b \in Int, NEW c \in Int, NEW e \in Int, c <= a, b <= e
    PROVE  SpansIn(a, b) \subseteq SpansIn(c, e)
BY DEF SpansIn

-----------------------------------------------------------------------------
(* One segment of a worker's stream.                                       *)

Decided(w, i, p, D) == StartCut(w, i, p, w.seen \cup D)
Held(w, p, D) == w.pending \cup {[lo |-> w.cursor, hi |-> p, dets |-> D]}
ReadyOf(w, i, p, D) ==
    IF Decided(w, i, p, D) = NoCut THEN {} ELSE Flushable(Held(w, p, D), p - 2 * Overlap)

\* What the loop body preserves, whatever the detectors report.
LEMMA SegmentKeepsBookkeeping ==
    ASSUME NEW i \in Workers, NEW w \in WorkerRecords, Bookkeeping(w, i),
           NEW p \in Int, w.cursor < p, p <= LastRead(i),
           NEW D \in SUBSET SpansIn(w.cursor, p), PairwiseDisjoint(D),
           NEW v, v = AfterSegment(w, i, p, D)
    PROVE  Bookkeeping(v, i)
<1> DEFINE new == [lo |-> w.cursor, hi |-> p, dets |-> D]
<1>1. /\ v.cursor = p
      /\ v.pending \subseteq w.pending \cup {new}
      /\ v.seen \subseteq w.seen \cup D
      /\ v.startCut = Decided(w, i, p, D)
      /\ v.startReport = IF w.startCut = NoCut /\ v.startCut # NoCut
                         THEN Straddler(w.seen \cup D, SeamStart(i)) ELSE w.startReport
      /\ v.endReport = {}
  <2>1. /\ v.cursor = p
        /\ v.pending = Held(w, p, D) \ ReadyOf(w, i, p, D)
        /\ v.seen = IF Decided(w, i, p, D) = NoCut THEN w.seen \cup D
                    ELSE StillNeeded(w.seen \cup D, p - 2 * Overlap)
        /\ v.startCut = Decided(w, i, p, D)
        /\ v.startReport = IF w.startCut = NoCut /\ Decided(w, i, p, D) # NoCut
                           THEN Straddler(w.seen \cup D, SeamStart(i)) ELSE w.startReport
        /\ v.endReport = w.endReport
    BY DEF AfterSegment, WorkerRecords, Decided, Held, ReadyOf
  <2>2. Held(w, p, D) = w.pending \cup {new}
    BY DEF Held
  <2>3. QED
    BY <2>1, <2>2 DEF StillNeeded, Bookkeeping
<1>2. /\ w.cursor \in Nat /\ FirstRead(i) \in Nat /\ LastRead(i) \in Nat
      /\ FirstRead(i) <= w.cursor /\ SeamStart(i) \in Nat
  BY Pads, Plan DEF Bookkeeping
<1>3. /\ w.seen \cup D \subseteq SpansIn(FirstRead(i), p) /\ PairwiseDisjoint(w.seen \cup D)
      /\ w.startReport \subseteq SpansIn(FirstRead(i), p)
  <2>1. /\ w.seen \subseteq SpansIn(FirstRead(i), w.cursor) /\ PairwiseDisjoint(w.seen)
        /\ w.startReport \subseteq SpansIn(FirstRead(i), w.cursor)
    BY DEF Bookkeeping
  <2>2. /\ SpansIn(FirstRead(i), w.cursor) \subseteq SpansIn(FirstRead(i), p)
        /\ SpansIn(w.cursor, p) \subseteq SpansIn(FirstRead(i), p)
    BY <1>2, SpansGrow
  <2>3. PairwiseDisjoint(w.seen \cup D)
    BY <1>2, <2>1, AppendDisjoint
  <2>4. QED
    BY <2>1, <2>2, <2>3
<1>4. p \in FirstRead(i) .. LastRead(i)
  BY <1>2
<1>5. v.seen \subseteq SpansIn(FirstRead(i), p) /\ PairwiseDisjoint(v.seen)
  BY <1>1, <1>3, SubsetsDisjoint
<1>6. \A s \in v.pending :
         /\ FirstRead(i) <= s.lo /\ s.lo < s.hi /\ s.hi <= p
         /\ s.dets \subseteq SpansIn(s.lo, s.hi)
         /\ \A t \in v.pending : s # t => s.hi <= t.lo \/ t.hi <= s.lo
  <2>1. \A s \in w.pending : s.lo \in Int /\ s.hi \in Int
    BY DEF WorkerRecords, Segments
  <2>2. \A s \in w.pending :
           /\ FirstRead(i) <= s.lo /\ s.lo < s.hi /\ s.hi <= w.cursor
           /\ s.dets \subseteq SpansIn(s.lo, s.hi)
           /\ \A t \in w.pending : s # t => s.hi <= t.lo \/ t.hi <= s.lo
    BY DEF Bookkeeping
  <2>3. new.lo = w.cursor /\ new.hi = p /\ new.dets = D
    OBVIOUS
  <2> HIDE DEF new
  <2>4. QED
    BY <1>1, <1>2, <2>1, <2>2, <2>3
<1>7. /\ v.startReport \subseteq SpansIn(FirstRead(i), p)
      /\ PairwiseDisjoint(v.startReport)
      /\ \A d \in v.startReport : Straddles(d, SeamStart(i))
      /\ v.startCut # NoCut => v.startCut = CutAt(v.startReport, SeamStart(i))
  <2>1. CASE w.startCut = NoCut /\ v.startCut # NoCut
    <3>1. v.startReport = Straddler(w.seen \cup D, SeamStart(i))
      BY <1>1, <2>1
    <3>2. v.startCut = CutAt(w.seen \cup D, SeamStart(i))
      BY <1>1, <2>1 DEF Decided, StartCut
    <3>3. v.startCut = CutAt(v.startReport, SeamStart(i))
      BY <3>1, <3>2, StraddlerTwice, CutOfStraddlers
    <3>4. v.startReport \subseteq w.seen \cup D /\ \A d \in v.startReport : Straddles(d, SeamStart(i))
      BY <3>1 DEF Straddler
    <3>5. QED
      BY <1>3, <3>3, <3>4, SubsetsDisjoint
  <2>2. CASE ~(w.startCut = NoCut /\ v.startCut # NoCut)
    <3>1. v.startReport = w.startReport
      BY <1>1, <2>2
    <3>2. v.startCut # NoCut => v.startCut = w.startCut
      BY <1>1, <2>2 DEF Decided, StartCut
    <3>3. QED
      BY <1>3, <2>2, <3>1, <3>2 DEF Bookkeeping
  <2>3. QED
    BY <2>1, <2>2
<1>8. QED
  BY <1>1, <1>4, <1>5, <1>6, <1>7 DEF Bookkeeping

\* What is held back after a segment: all of it before, and the segment, except
\* what was ready.
LEMMA HeldBackAfter ==
    ASSUME NEW i \in Workers, NEW w \in WorkerRecords, Bookkeeping(w, i),
           NEW p \in Int, w.cursor < p,
           NEW D \in SUBSET SpansIn(w.cursor, p),
           NEW v, v = AfterSegment(w, i, p, D), NEW c \in Int,
           NEW ready, ready = ReadyOf(w, i, p, D)
    PROVE  HeldBack(v, c) <=>
              /\ HeldBack(w, c) \/ (w.cursor <= c /\ c < p)
              /\ ~\E s \in ready : s.lo <= c /\ c < s.hi
<1> DEFINE new == [lo |-> w.cursor, hi |-> p, dets |-> D]
<1>1. v.pending = (w.pending \cup {new}) \ ready
  BY DEF AfterSegment, WorkerRecords, Decided, Held, ReadyOf
<1>2. ready \subseteq w.pending \cup {new}
  BY DEF ReadyOf, Held, Flushable
<1>3. new.lo = w.cursor /\ new.hi = p /\ w.cursor \in Int
  BY DEF WorkerRecords
<1>4. \A s \in w.pending : s.lo \in Int /\ s.hi \in Int /\ s.hi <= w.cursor
  BY DEF WorkerRecords, Segments, Bookkeeping
<1>5. \A s, t \in w.pending : s # t => s.hi <= t.lo \/ t.hi <= s.lo
  BY DEF Bookkeeping
<1> HIDE DEF new
<1>6. \A s, t \in w.pending \cup {new} :
         s.lo <= c /\ c < s.hi /\ t.lo <= c /\ c < t.hi => s = t
  BY <1>3, <1>4, <1>5
<1>7. (\E s \in w.pending \cup {new} : s.lo <= c /\ c < s.hi)
         <=> HeldBack(w, c) \/ (w.cursor <= c /\ c < p)
  BY <1>3 DEF HeldBack
<1>8. HeldBack(v, c) <=> \E s \in (w.pending \cup {new}) \ ready : s.lo <= c /\ c < s.hi
  BY <1>1 DEF HeldBack
<1>9. QED
  BY <1>2, <1>6, <1>7, <1>8

\* A worker has streamed part of what it reads.
LEMMA CursorReads ==
    ASSUME NEW i \in Workers, NEW w \in WorkerRecords, Bookkeeping(w, i)
    PROVE  w.cursor \in Nat /\ FirstRead(i) <= w.cursor /\ w.cursor <= LastRead(i)
<1>1. TextLen \in Nat
  BY ParallelAssumption
<1>2. QED
  BY <1>1, Pads DEF Bookkeeping

\* Everything seen is disjoint and within the text streamed.
LEMMA SeenWithSegment ==
    ASSUME NEW i \in Workers, NEW w \in WorkerRecords, Bookkeeping(w, i),
           NEW p \in Int, w.cursor < p,
           NEW D \in SUBSET SpansIn(w.cursor, p), PairwiseDisjoint(D)
    PROVE  w.seen \cup D \subseteq SpansIn(FirstRead(i), p) /\ PairwiseDisjoint(w.seen \cup D)
<1>1. FirstRead(i) \in Int /\ w.cursor \in Int /\ FirstRead(i) <= w.cursor
  BY Pads DEF Bookkeeping
<1>2. /\ SpansIn(FirstRead(i), w.cursor) \subseteq SpansIn(FirstRead(i), p)
      /\ SpansIn(w.cursor, p) \subseteq SpansIn(FirstRead(i), p)
  BY <1>1, SpansGrow
<1>3. PairwiseDisjoint(w.seen \cup D)
  BY <1>1, AppendDisjoint DEF Bookkeeping
<1>4. QED
  BY <1>2, <1>3 DEF Bookkeeping

\* A start cut falls at its seam or after it.
LEMMA StartCutValue ==
    ASSUME NEW i \in Workers, NEW hi \in Int, NEW S \in SUBSET SpansIn(FirstRead(i), hi),
           PairwiseDisjoint(S)
    PROVE  CutAt(S, SeamStart(i)) \in Nat /\ CutAt(S, SeamStart(i)) >= SeamStart(i)
<1>1. FirstRead(i) \in Int /\ SeamStart(i) \in Nat
  BY Pads, Plan
<1>2. QED
  BY <1>1, CutAtBounds

LEMMA SegmentKeepsText ==
    ASSUME NEW i \in Workers, NEW w \in WorkerRecords, Bookkeeping(w, i), TextSoFar(w, i),
           NEW p \in Int, w.cursor < p, p <= LastRead(i),
           NEW D \in SUBSET SpansIn(w.cursor, p), PairwiseDisjoint(D),
           NEW v, v = AfterSegment(w, i, p, D)
    PROVE  TextSoFar(v, i)
<1> DEFINE ready == ReadyOf(w, i, p, D)
           cut == Decided(w, i, p, D)
           upto == p - 2 * Overlap
           written(c) == \E s \in ready : s.lo <= c /\ c < s.hi
<1>1. /\ v.cursor = p /\ v.startCut = cut
      /\ v.pending = Held(w, p, D) \ ready
      /\ v.seen = IF cut = NoCut THEN w.seen \cup D ELSE StillNeeded(w.seen \cup D, upto)
      /\ v.startReport = IF w.startCut = NoCut /\ cut # NoCut
                         THEN Straddler(w.seen \cup D, SeamStart(i)) ELSE w.startReport
      /\ v.copies = Copied(w.copies, ready, cut, TextLen)
      /\ v.kept = w.kept \cup Rendered(ready, cut, TextLen)
  BY DEF AfterSegment, WorkerRecords, Decided, Held, ReadyOf
<1>2. \A c \in Int : HeldBack(v, c) <=> /\ HeldBack(w, c) \/ (w.cursor <= c /\ c < p)
                                        /\ ~written(c)
  BY HeldBackAfter
<1>3. /\ Overlap \in Nat /\ TextLen \in Nat /\ SeamStart(i) \in Nat
      /\ FirstRead(i) \in Nat /\ FirstRead(i) <= SeamStart(i) /\ LastRead(i) <= TextLen
      /\ w.cursor \in Nat /\ FirstRead(i) <= w.cursor /\ LastRead(i) \in Nat
  BY ParallelAssumption, Plan, Pads, CursorReads
<1>4. upto \in Int /\ upto <= p
  BY <1>3
<1>5. \A s \in ready : s.lo \in Int /\ s.hi \in Int /\ s.hi <= upto /\ s \in Held(w, p, D)
  BY <1>3 DEF ReadyOf, Flushable, Held, WorkerRecords, Segments
<1>6. w.copies \in [Characters -> Nat] /\ DOMAIN w.copies = Characters
  BY DEF WorkerRecords
<1> HIDE DEF ready, cut, upto
<1>7. CASE cut = NoCut
  <2>1. w.startCut = NoCut /\ p < SeamStart(i) + 2 * Overlap
    <3>1. CASE w.startCut = NoCut /\ p >= SeamStart(i) + 2 * Overlap
      <4>1. cut = CutAt(w.seen \cup D, SeamStart(i))
        BY <3>1 DEF cut, Decided, StartCut
      <4>2. cut \in Nat
        BY <4>1, SeenWithSegment, StartCutValue
      <4>3. QED
        BY <1>7, <4>2 DEF NoCut
    <3>2. QED
      BY <1>3, <1>7, <3>1 DEF cut, Decided, StartCut
  <2>2. ready = {} /\ v.copies = Copied(w.copies, {}, cut, TextLen) /\ v.kept = w.kept
    BY <1>1, <1>7 DEF ready, cut, ReadyOf, Rendered
  <2>3. v.copies = w.copies
    BY <1>6, <2>2 DEF Copied
  <2>4. /\ w.copies = Nowhere /\ w.kept = {}
        /\ \A c \in FirstRead(i) .. w.cursor - 1 : HeldBack(w, c)
    BY <2>1 DEF TextSoFar
  <2>5. \A c \in FirstRead(i) .. p - 1 : HeldBack(v, c)
    BY <1>2, <1>3, <2>2, <2>4
  <2>6. QED
    BY <1>1, <1>7, <2>1, <2>2, <2>3, <2>4, <2>5 DEF TextSoFar
<1>8. CASE cut # NoCut
  <2>1. \A c \in Characters : v.copies[c] = w.copies[c] +
           IF cut <= c /\ c < TextLen /\ written(c) THEN 1 ELSE 0
    BY <1>1, <1>6 DEF Copied
  <2>2. w.startCut = NoCut =>
           /\ cut \in Nat /\ cut >= FirstRead(i)
           /\ v.startReport \subseteq w.seen \cup D
    <3> SUFFICES ASSUME w.startCut = NoCut
                 PROVE  cut \in Nat /\ cut >= FirstRead(i) /\ v.startReport \subseteq w.seen \cup D
      OBVIOUS
    <3>1. cut = CutAt(w.seen \cup D, SeamStart(i))
      BY <1>8 DEF cut, Decided, StartCut
    <3>2. cut \in Nat /\ cut >= SeamStart(i)
      BY <3>1, SeenWithSegment, StartCutValue
    <3>3. QED
      BY <1>1, <1>3, <1>8, <3>2 DEF Straddler
  <2>3. w.startCut # NoCut => cut = w.startCut /\ v.startReport = w.startReport
    BY <1>1 DEF cut, Decided, StartCut
  <2>4. cut \in Int
    BY <2>2, <2>3 DEF WorkerRecords, NoCut
  <2>5. \A c \in Int : written(c) => c < upto /\ c < p /\ (HeldBack(w, c) \/ w.cursor <= c)
    <3> SUFFICES ASSUME NEW c \in Int, NEW s \in ready, s.lo <= c, c < s.hi
                 PROVE  c < upto /\ c < p /\ (HeldBack(w, c) \/ w.cursor <= c)
      OBVIOUS
    <3>1. c < upto /\ c < p
      BY <1>3, <1>4, <1>5
    <3>2. HeldBack(w, c) \/ w.cursor <= c
      BY <1>5 DEF Held, HeldBack
    <3>3. QED
      BY <3>1, <3>2
  <2>6. ASSUME NEW c \in Characters
        PROVE  v.copies[c] = IF cut <= c /\ c < p /\ ~HeldBack(v, c) THEN 1 ELSE 0
    <3>1. /\ c \in Int /\ 0 <= c /\ c < TextLen
          /\ v.copies[c] = w.copies[c] + IF cut <= c /\ written(c) THEN 1 ELSE 0
      BY <1>3, <2>1 DEF Characters
    <3>2. HeldBack(v, c) <=> (HeldBack(w, c) \/ (w.cursor <= c /\ c < p)) /\ ~written(c)
      BY <1>2, <3>1
    <3>3. written(c) => c < p /\ (HeldBack(w, c) \/ w.cursor <= c)
      BY <2>5, <3>1
    <3> HIDE DEF written
    <3>4. CASE w.startCut = NoCut
      <4>1. w.copies[c] = 0
        BY <3>4 DEF TextSoFar, Nowhere, Characters
      <4>2. c >= FirstRead(i) /\ c < w.cursor => HeldBack(w, c)
        BY <1>3, <3>1, <3>4 DEF TextSoFar
      <4>3. cut <= c => c >= FirstRead(i)
        BY <1>3, <2>2, <3>1, <3>4
      <4>4. QED
        BY <1>3, <2>4, <3>1, <3>2, <3>3, <4>1, <4>2, <4>3
    <3>5. CASE w.startCut # NoCut
      <4>1. w.copies[c] = IF cut <= c /\ c < w.cursor /\ ~HeldBack(w, c) THEN 1 ELSE 0
        BY <2>3, <3>5 DEF TextSoFar
      <4>2. QED
        BY <1>3, <2>4, <3>1, <3>2, <3>3, <4>1
    <3>6. QED
      BY <3>4, <3>5
  <2>7. ASSUME NEW c \in FirstRead(i) .. p - 1, ~HeldBack(v, c)
        PROVE  c < upto
    <3>1. c \in Int /\ FirstRead(i) <= c /\ c < p
      BY <1>3
    <3>2. CASE written(c)
      BY <2>5, <3>1, <3>2
    <3>3. CASE ~written(c)
      <4>1. ~HeldBack(w, c) /\ c < w.cursor
        BY <1>2, <1>3, <2>7, <3>1, <3>3
      <4>2. c < w.cursor - 2 * Overlap
        BY <1>3, <3>1, <4>1 DEF TextSoFar
      <4>3. QED
        BY <1>3, <3>1, <4>2 DEF upto
    <3>4. QED
      BY <3>2, <3>3
  <2>8. \A s \in v.pending : s.hi > upto
    <3>1. \A s \in Held(w, p, D) : s.hi \in Int
      BY <1>3 DEF Held, WorkerRecords, Segments
    <3>2. ready = Flushable(Held(w, p, D), upto)
      BY <1>8 DEF ready, upto, cut, ReadyOf
    <3>3. QED
      BY <1>1, <1>4, <3>1, <3>2 DEF Flushable
  <2>9. ASSUME NEW d \in v.startReport PROVE d \in v.seen \/ d.end <= upto
    <3>1. v.seen = StillNeeded(w.seen \cup D, upto)
      BY <1>1, <1>8
    <3>2. CASE d \in w.seen \cup D
      <4>1. d.end \in Int
        <5>1. d \in SpansIn(FirstRead(i), p)
          BY <3>2, SeenWithSegment
        <5>2. QED
          BY <5>1 DEF SpansIn
      <4>2. QED
        BY <1>4, <3>1, <3>2, <4>1 DEF StillNeeded
    <3>3. CASE d \notin w.seen \cup D
      <4>1. w.startCut # NoCut /\ d \in w.startReport
        BY <2>2, <2>3, <3>3
      <4>2. d.end <= w.cursor - 2 * Overlap
        BY <3>3, <4>1 DEF TextSoFar
      <4>3. d.end \in Int
        BY <1>3, <4>1 DEF Bookkeeping, SpansIn
      <4>4. QED
        BY <1>3, <4>2, <4>3 DEF upto
    <3>4. QED
      BY <3>2, <3>3
  <2>10. v.startCut # NoCut /\ v.cursor = p /\ v.startCut = cut
    BY <1>1, <1>8
  <2>11. QED
    BY <2>6, <2>7, <2>8, <2>9, <2>10 DEF TextSoFar, upto
<1>9. QED
  BY <1>7, <1>8

\* The record of a worker stays one.
LEMMA SegmentTyped ==
    ASSUME NEW i \in Workers, NEW w \in WorkerRecords, Bookkeeping(w, i),
           NEW p \in Int, w.cursor < p, p <= LastRead(i),
           NEW D \in SUBSET SpansIn(w.cursor, p), PairwiseDisjoint(D),
           NEW v, v = AfterSegment(w, i, p, D)
    PROVE  v \in WorkerRecords
<1> DEFINE ready == ReadyOf(w, i, p, D)
           cut == Decided(w, i, p, D)
<1>1. v = [w EXCEPT !.cursor = p, !.pending = v.pending, !.seen = v.seen, !.startCut = cut,
                    !.startReport = v.startReport,
                    !.copies = Copied(w.copies, ready, cut, TextLen),
                    !.kept = w.kept \cup Rendered(ready, cut, TextLen)]
  BY DEF AfterSegment, WorkerRecords, Decided, Held, ReadyOf
<1>2. /\ v.pending \subseteq Held(w, p, D) /\ ready \subseteq Held(w, p, D)
      /\ v.seen \subseteq w.seen \cup D
      /\ v.startReport \subseteq w.seen \cup D \cup w.startReport
  BY DEF AfterSegment, WorkerRecords, Decided, Held, ReadyOf, StillNeeded, Straddler, Flushable
<1>3. /\ TextLen \in Nat /\ FirstRead(i) \in Nat /\ LastRead(i) \in Nat /\ LastRead(i) <= TextLen
      /\ w.cursor \in Nat /\ w.cursor <= TextLen /\ p \in 0 .. TextLen
      /\ SeamStart(i) \in 0 .. TextLen
  <2>1. TextLen \in Nat
    BY ParallelAssumption
  <2>2. /\ FirstRead(i) \in Nat /\ LastRead(i) \in Nat /\ LastRead(i) <= TextLen
        /\ SeamStart(i) \in 0 .. TextLen
    BY <2>1, Pads, Plan
  <2>3. w.cursor \in Nat /\ w.cursor <= TextLen
    BY <2>1 DEF WorkerRecords
  <2>4. QED
    BY <2>1, <2>2, <2>3
<1>4. w.seen \cup D \subseteq Spans_
  <2>1. SpansIn(FirstRead(i), p) \subseteq SpansIn(0, TextLen)
    BY <1>3, SpansGrow
  <2>2. QED
    BY <2>1, SeenWithSegment DEF Spans_
<1>5. Held(w, p, D) \subseteq Segments
  BY <1>3, <1>4 DEF Held, WorkerRecords, Segments
<1>6. cut \in {NoCut} \cup 0 .. TextLen
  <2>1. CASE cut = w.startCut
    BY <2>1 DEF WorkerRecords
  <2>2. CASE cut # w.startCut
    <3>1. cut = CutAt(w.seen \cup D, SeamStart(i))
      BY <2>2 DEF Decided, StartCut
    <3>2. FirstRead(i) \in Int /\ SeamStart(i) \in Int
      BY <1>3
    <3>3. /\ cut \in Int /\ SeamStart(i) <= cut
          /\ cut = SeamStart(i) \/ cut <= p
      <4>1. /\ w.seen \cup D \subseteq SpansIn(FirstRead(i), p)
            /\ PairwiseDisjoint(w.seen \cup D)
        BY SeenWithSegment
      <4>2. QED
        BY <3>1, <3>2, <4>1, CutAtBounds
    <3>4. QED
      BY <1>3, <3>3
  <2>3. QED
    BY <2>1, <2>2
<1> HIDE DEF ready, cut
<1>7. Copied(w.copies, ready, cut, TextLen) \in [Characters -> Nat]
  BY DEF Copied, WorkerRecords
<1>8. Rendered(ready, cut, TextLen) \subseteq Spans_
  BY <1>2, <1>5 DEF Rendered, Segments
<1>9. /\ v.pending \in SUBSET Segments /\ v.seen \in SUBSET Spans_
      /\ v.startReport \in SUBSET Spans_
      /\ w.kept \cup Rendered(ready, cut, TextLen) \in SUBSET Spans_
  BY <1>2, <1>4, <1>5, <1>8 DEF WorkerRecords
<1> DEFINE u == [w EXCEPT !.cursor = p, !.pending = v.pending, !.seen = v.seen, !.startCut = cut,
                          !.startReport = v.startReport,
                          !.copies = Copied(w.copies, ready, cut, TextLen),
                          !.kept = w.kept \cup Rendered(ready, cut, TextLen)]
<1>10. u \in WorkerRecords
  BY <1>3, <1>6, <1>7, <1>9 DEF WorkerRecords
<1> HIDE DEF u
<1>11. QED
  BY <1>1, <1>10 DEF u

-----------------------------------------------------------------------------
(* The end of a worker's stream.                                           *)

\* The spans across the end seam, and where the worker's text ends.
LEMMA EndOfRange ==
    ASSUME NEW i \in Workers, NEW w \in WorkerRecords, Bookkeeping(w, i), w.cursor = LastRead(i)
    PROVE  /\ EndReport(w, i) \subseteq w.seen
           /\ IsLast(i) => EndReport(w, i) = {}
           /\ ~IsLast(i) => EndReport(w, i) = Straddler(w.seen, SeamEnd(i))
           /\ CutAt(EndReport(w, i), SeamEnd(i)) \in SeamEnd(i) .. LastRead(i)
<1>1. /\ EndReport(w, i) \subseteq w.seen
      /\ IsLast(i) => EndReport(w, i) = {}
      /\ ~IsLast(i) => EndReport(w, i) = Straddler(w.seen, SeamEnd(i))
  BY DEF EndReport, Straddler
<1>2. /\ EndReport(w, i) \subseteq SpansIn(FirstRead(i), LastRead(i))
      /\ PairwiseDisjoint(EndReport(w, i))
  BY <1>1, SubsetsDisjoint DEF Bookkeeping
<1>3. /\ FirstRead(i) \in Int /\ LastRead(i) \in Int /\ SeamEnd(i) \in Int
      /\ SeamEnd(i) <= LastRead(i)
  BY Plan, Pads
<1>4. /\ CutAt(EndReport(w, i), SeamEnd(i)) \in Int
      /\ SeamEnd(i) <= CutAt(EndReport(w, i), SeamEnd(i))
      /\ \/ CutAt(EndReport(w, i), SeamEnd(i)) = SeamEnd(i)
         \/ CutAt(EndReport(w, i), SeamEnd(i)) <= LastRead(i)
  BY <1>2, <1>3, CutAtBounds
<1>5. QED
  BY <1>1, <1>3, <1>4

LEMMA StreamEndsText ==
    ASSUME NEW i \in Workers, NEW w \in WorkerRecords, Bookkeeping(w, i), TextSoFar(w, i),
           w.cursor = LastRead(i),
           NEW v, v = AfterStream(w, i)
    PROVE  v \in WorkerRecords /\ v.phase = "done" /\ TextDone(v, i)
<1> DEFINE startCut == IF w.startCut = NoCut THEN CutAt(w.seen, SeamStart(i)) ELSE w.startCut
           report == IF w.startCut = NoCut THEN Straddler(w.seen, SeamStart(i)) ELSE w.startReport
           endReport == EndReport(w, i)
           endCut == CutAt(endReport, SeamEnd(i))
<1>1. v = [w EXCEPT !.phase = "done", !.pending = {}, !.startCut = startCut,
                    !.startReport = report, !.endReport = endReport,
                    !.copies = Copied(w.copies, w.pending, startCut, endCut),
                    !.kept = w.kept \cup Rendered(w.pending, startCut, endCut)]
  BY DEF AfterStream, WorkerRecords
<1>2. /\ v.phase = "done" /\ v.pending = {} /\ v.startCut = startCut
      /\ v.startReport = report /\ v.endReport = endReport
      /\ v.copies = Copied(w.copies, w.pending, startCut, endCut)
  BY <1>1 DEF WorkerRecords
<1>3. /\ Overlap \in Nat /\ TextLen \in Nat /\ SeamStart(i) \in Nat /\ SeamEnd(i) \in Nat
      /\ SeamStart(i) <= SeamEnd(i) /\ SeamEnd(i) <= LastRead(i)
      /\ FirstRead(i) \in Nat /\ FirstRead(i) <= SeamStart(i) /\ LastRead(i) <= TextLen
      /\ LastRead(i) \in Nat /\ LastRead(i) <= SeamEnd(i) + Overlap
      /\ IsLast(i) => SeamEnd(i) = TextLen
  BY ParallelAssumption, Plan, Pads
<1>4. /\ w.seen \subseteq SpansIn(FirstRead(i), LastRead(i)) /\ PairwiseDisjoint(w.seen)
      /\ report \subseteq SpansIn(FirstRead(i), LastRead(i)) /\ PairwiseDisjoint(report)
      /\ \A d \in report : Straddles(d, SeamStart(i))
      /\ startCut = CutAt(report, SeamStart(i))
  <2>1. CASE w.startCut = NoCut
    <3>1. report = Straddler(w.seen, SeamStart(i)) /\ startCut = CutAt(w.seen, SeamStart(i))
      BY <2>1
    <3>2. report \subseteq w.seen /\ \A d \in report : Straddles(d, SeamStart(i))
      BY <3>1 DEF Straddler
    <3>3. startCut = CutAt(report, SeamStart(i))
      BY <3>1, StraddlerTwice, CutOfStraddlers
    <3>4. QED
      BY <3>2, <3>3, SubsetsDisjoint DEF Bookkeeping
  <2>2. CASE w.startCut # NoCut
    BY <2>2 DEF Bookkeeping
  <2>3. QED
    BY <2>1, <2>2
<1>5. /\ endCut \in Nat /\ SeamEnd(i) <= endCut /\ endCut <= LastRead(i)
      /\ IsLast(i) => endReport = {}
      /\ ~IsLast(i) => endReport = Straddler(w.seen, SeamEnd(i))
      /\ endReport \subseteq w.seen
  BY <1>3, EndOfRange
<1> HIDE DEF startCut, report, endReport, endCut
<1>6. startCut \in Nat /\ SeamStart(i) <= startCut /\ startCut <= LastRead(i)
  <2>1. FirstRead(i) \in Int /\ LastRead(i) \in Int /\ SeamStart(i) \in Int
    BY <1>3
  <2>2. /\ startCut \in Int /\ SeamStart(i) <= startCut
        /\ startCut = SeamStart(i) \/ startCut <= LastRead(i)
    BY <1>4, <2>1, CutAtBounds
  <2>3. QED
    BY <1>3, <2>2
<1>7. startCut <= endCut
  <2>1. FirstRead(i) \in Int /\ LastRead(i) \in Int /\ SeamStart(i) \in Int /\ SeamEnd(i) \in Int
    BY <1>3
  <2>2. \/ startCut = SeamStart(i)
        \/ \E d \in report : startCut = d.end /\ d.start < SeamStart(i)
    BY <1>4, <2>1, CutAtValue
  <2>3. SUFFICES ASSUME NEW d \in report, startCut = d.end, d.start < SeamStart(i),
                        SeamEnd(i) < d.end
                 PROVE  startCut <= endCut
    BY <1>3, <1>5, <1>6, <2>2
  <2>4. d.start \in Int /\ d.end \in Int /\ d.end <= LastRead(i)
    BY <1>4 DEF SpansIn
  <2>5. d \in w.seen
    <3>1. CASE w.startCut = NoCut
      BY <3>1 DEF report, Straddler
    <3>2. CASE w.startCut # NoCut
      <4>1. d \in w.seen \/ d.end <= LastRead(i) - 2 * Overlap
        BY <3>2 DEF report, TextSoFar
      <4>2. QED
        BY <1>3, <2>3, <2>4, <4>1
    <3>3. QED
      BY <3>1, <3>2
  <2>6. ~IsLast(i)
    BY <1>3, <2>3, <2>4
  <2>7. d \in endReport
    BY <1>3, <1>5, <2>3, <2>4, <2>5, <2>6 DEF Straddler, Straddles
  <2>8. endCut = d.end
    <3>1. endReport \subseteq SpansIn(FirstRead(i), LastRead(i)) /\ PairwiseDisjoint(endReport)
      BY <1>4, <1>5, SubsetsDisjoint
    <3>2. d \in Straddler(endReport, SeamEnd(i))
      BY <1>5, <2>6, <2>7, StraddlerTwice
    <3>3. QED
      BY <2>1, <3>1, <3>2, CutAtValue DEF endCut
  <2>9. QED
    BY <2>3, <2>4, <2>8
<1>8. ASSUME NEW c \in Characters
      PROVE  v.copies[c] = IF startCut <= c /\ c < endCut THEN 1 ELSE 0
  <2>1. c \in Int /\ 0 <= c /\ c < TextLen
    BY <1>3 DEF Characters
  <2>2. v.copies[c] = w.copies[c] + IF startCut <= c /\ c < endCut /\ HeldBack(w, c)
                                    THEN 1 ELSE 0
    BY <1>2 DEF Copied, WorkerRecords, HeldBack
  <2>3. CASE w.startCut = NoCut
    <3>1. w.copies[c] = 0
      BY <2>3 DEF TextSoFar, Nowhere, Characters
    <3>2. startCut <= c /\ c < endCut => HeldBack(w, c)
      BY <1>3, <1>5, <1>6, <2>1, <2>3 DEF TextSoFar
    <3>3. QED
      BY <2>2, <3>1, <3>2
  <2>4. CASE w.startCut # NoCut
    <3>1. startCut = w.startCut
      BY <2>4 DEF startCut
    <3>2. w.copies[c] = IF startCut <= c /\ c < LastRead(i) /\ ~HeldBack(w, c) THEN 1 ELSE 0
      BY <2>4, <3>1 DEF TextSoFar
    <3>3. startCut <= c /\ c < LastRead(i) /\ ~HeldBack(w, c) => c < endCut
      <4>1. startCut <= c /\ c < LastRead(i) /\ ~HeldBack(w, c) => c < LastRead(i) - 2 * Overlap
        BY <1>3, <1>6, <2>1, <2>4 DEF TextSoFar
      <4>2. QED
        BY <1>3, <1>5, <2>1, <4>1
    <3>4. QED
      BY <1>3, <1>5, <1>6, <2>1, <2>2, <3>2, <3>3
  <2>5. QED
    BY <2>3, <2>4
<1>9. TextDone(v, i)
  <2>1. EndCut(v, i) = endCut
    BY <1>2 DEF EndCut, endCut
  <2>2. startCut # NoCut
    BY <1>6 DEF NoCut
  <2>3. QED
    BY <1>2, <1>3, <1>4, <1>5, <1>6, <1>7, <1>8, <2>1, <2>2 DEF TextDone
<1>10. v \in WorkerRecords
  <2> DEFINE copies == Copied(w.copies, w.pending, startCut, endCut)
             kept == w.kept \cup Rendered(w.pending, startCut, endCut)
  <2>1. copies \in [Characters -> Nat]
    BY DEF Copied, WorkerRecords
  <2>2. kept \in SUBSET Spans_
    BY DEF Rendered, WorkerRecords, Segments
  <2>3. report \in SUBSET Spans_ /\ endReport \in SUBSET Spans_
    BY <1>5 DEF WorkerRecords, report, Straddler
  <2>4. startCut \in 0 .. TextLen
    BY <1>3, <1>6
  <2>5. v = [w EXCEPT !.phase = "done", !.pending = {}, !.startCut = startCut,
                      !.startReport = report, !.endReport = endReport,
                      !.copies = copies, !.kept = kept]
    BY <1>1
  <2> HIDE DEF copies, kept
  <2>6. QED
    BY <2>1, <2>2, <2>3, <2>4, <2>5 DEF WorkerRecords
<1>11. QED
  BY <1>2, <1>9, <1>10

-----------------------------------------------------------------------------
(* Within the guarantee.                                                   *)

\* What enforce_overlap_safety and the detectors' requirements provide.
Guaranteed ==
    /\ truth \subseteq Spans_ /\ PairwiseDisjoint(truth)
    /\ \A t \in truth : Size(t) <= MaxSpan
    /\ Overlap >= MaxSpan + RightContext

\* A span across a seam of worker i lies in what it reads, with its context.
LEMMA AcrossSeam ==
    ASSUME Guaranteed, NEW i \in Workers, NEW d \in Spans_, Size(d) <= MaxSpan,
           NEW seam \in {SeamStart(i), SeamEnd(i)}, Straddles(d, seam)
    PROVE  /\ SettledFor(i, d) /\ d \in SpansIn(FirstRead(i), LastRead(i))
           /\ d.end < seam + MaxSpan
<1>1. /\ d.start \in Nat /\ d.end \in Nat /\ d.start < seam /\ seam < d.end
      /\ d.end <= TextLen /\ d.end - d.start <= MaxSpan
  BY ParallelAssumption DEF Spans_, SpansIn, Straddles, Size
<1>2. /\ SeamStart(i) \in Nat /\ SeamEnd(i) \in Nat /\ SeamStart(i) <= SeamEnd(i)
      /\ FirstRead(i) \in Nat /\ LastRead(i) \in Nat
      /\ FirstRead(i) = 0 \/ FirstRead(i) = SeamStart(i) - Overlap
      /\ LastRead(i) = TextLen \/ LastRead(i) = SeamEnd(i) + Overlap
      /\ Overlap \in Nat /\ MaxSpan \in Nat /\ RightContext \in Nat /\ TextLen \in Nat
      /\ Overlap >= MaxSpan + RightContext
  BY ParallelAssumption, Plan, Pads DEF Guaranteed
<1>3. SettledFor(i, d) /\ d.end < seam + MaxSpan
  BY <1>1, <1>2 DEF SettledFor
<1>4. d.start >= FirstRead(i) /\ d.end <= LastRead(i)
  BY <1>1, <1>2
<1>5. d.start \in FirstRead(i) .. LastRead(i) /\ d.end \in FirstRead(i) .. LastRead(i)
  BY <1>1, <1>2, <1>4
<1>6. d \in SpansIn(FirstRead(i), LastRead(i))
  BY <1>1, <1>5 DEF Spans_, SpansIn
<1>7. QED
  BY <1>3, <1>6

\* A reference entity that starts well before the end of the range is settled.
LEMMA StartsBefore ==
    ASSUME Guaranteed, NEW i \in Workers, NEW t \in truth, t.start < SeamEnd(i) - Overlap
    PROVE  SettledFor(i, t) /\ t.end < SeamEnd(i)
<1>1. t.start \in Int /\ t.end \in Int /\ t.end - t.start <= MaxSpan
  BY DEF Guaranteed, Spans_, SpansIn, Size
<1>2. SeamEnd(i) \in Nat /\ LastRead(i) \in Nat /\ SeamEnd(i) <= LastRead(i)
  BY Plan, Pads
<1>3. /\ Overlap \in Nat /\ MaxSpan \in Nat /\ RightContext \in Nat
      /\ Overlap >= MaxSpan + RightContext
  BY ParallelAssumption DEF Guaranteed
<1>4. t.end + RightContext <= SeamEnd(i) /\ t.end < SeamEnd(i)
  BY <1>1, <1>2, <1>3
<1>5. QED
  BY <1>1, <1>2, <1>3, <1>4 DEF SettledFor

\* The start cut of a worker is decided once, late enough.
LEMMA DecidedCases ==
    ASSUME NEW i \in Workers, NEW w \in WorkerRecords, Bookkeeping(w, i),
           NEW p \in Int, w.cursor < p,
           NEW D \in SUBSET SpansIn(w.cursor, p), PairwiseDisjoint(D)
    PROVE  \/ /\ Decided(w, i, p, D) = w.startCut
              /\ w.startCut # NoCut \/ p < SeamStart(i) + 2 * Overlap
           \/ /\ w.startCut = NoCut /\ Decided(w, i, p, D) # NoCut
              /\ p >= SeamStart(i) + 2 * Overlap
              /\ Decided(w, i, p, D) \in Nat /\ Decided(w, i, p, D) >= SeamStart(i)
<1>1. CASE w.startCut = NoCut /\ p >= SeamStart(i) + 2 * Overlap
  <2>1. Decided(w, i, p, D) = CutAt(w.seen \cup D, SeamStart(i))
    BY <1>1 DEF Decided, StartCut
  <2>2. Decided(w, i, p, D) \in Nat /\ Decided(w, i, p, D) >= SeamStart(i)
    BY <2>1, SeenWithSegment, StartCutValue
  <2>3. QED
    BY <1>1, <2>2 DEF NoCut
<1>2. CASE ~(w.startCut = NoCut /\ p >= SeamStart(i) + 2 * Overlap)
  <2>1. SeamStart(i) \in Int /\ Overlap \in Int
    BY Plan, ParallelAssumption
  <2>2. QED
    BY <1>2, <2>1 DEF Decided, StartCut
<1>3. QED
  BY <1>1, <1>2

\* What worker i has seen is the reference, as far as it remembers.
LEMMA SeenIsReference ==
    ASSUME NEW i \in Workers, NEW w \in WorkerRecords, Bookkeeping(w, i), ShownSoFar(w, i),
           NEW p \in Int, w.cursor < p,
           NEW D \in SUBSET SpansIn(w.cursor, p), Faithful(i, w.cursor, p, D),
           NEW d \in SpansIn(FirstRead(i), p), SettledFor(i, d),
           w.startCut = NoCut \/ d.end > w.cursor - 2 * Overlap
    PROVE  d \in w.seen \cup D <=> d \in truth
<1>1. /\ d.start \in Int /\ d.end \in Int /\ FirstRead(i) <= d.start /\ d.start < d.end
      /\ d.end <= p /\ w.cursor \in Int /\ FirstRead(i) \in Int
  BY Pads DEF SpansIn, WorkerRecords
<1>2. w.seen \subseteq SpansIn(FirstRead(i), w.cursor)
  BY DEF Bookkeeping
<1>3. CASE d.end <= w.cursor
  <2>1. d \in SpansIn(FirstRead(i), w.cursor)
    BY <1>1, <1>3 DEF SpansIn
  <2>2. d \in w.seen <=> d \in truth
    BY <2>1 DEF ShownSoFar
  <2>3. d \notin D
    BY <1>1, <1>3 DEF SpansIn
  <2>4. QED
    BY <2>2, <2>3
<1>4. CASE w.cursor <= d.start
  <2>1. d \in SpansIn(w.cursor, p)
    BY <1>1, <1>4 DEF SpansIn
  <2>2. d \in D <=> d \in truth
    BY <2>1 DEF Faithful
  <2>3. d \notin w.seen
    BY <1>1, <1>2, <1>4 DEF SpansIn
  <2>4. QED
    BY <2>2, <2>3
<1>5. CASE d.start < w.cursor /\ w.cursor < d.end
  <2>1. d \notin truth
    BY <1>1, <1>5 DEF ShownSoFar, CutsNone, Straddles
  <2>2. d \notin w.seen /\ d \notin D
    BY <1>1, <1>2, <1>5 DEF SpansIn
  <2>3. QED
    BY <2>1, <2>2
<1>6. QED
  BY <1>1, <1>3, <1>4, <1>5

\* The span across the start seam, when the cut is decided at p.
LEMMA StartReport ==
    ASSUME Guaranteed, NEW i \in Workers, NEW p \in Int, p <= LastRead(i),
           p >= SeamStart(i) + 2 * Overlap \/ p = LastRead(i),
           NEW S \in SUBSET SpansIn(FirstRead(i), p), \A d \in S : Size(d) <= MaxSpan,
           \A d \in SpansIn(FirstRead(i), p) : SettledFor(i, d) => (d \in S <=> d \in truth)
    PROVE  Straddler(S, SeamStart(i)) = Straddler(truth, SeamStart(i))
<1>1. /\ FirstRead(i) \in Nat /\ LastRead(i) \in Nat /\ SeamStart(i) \in Nat
      /\ LastRead(i) <= TextLen /\ TextLen \in Nat
      /\ Overlap \in Nat /\ MaxSpan \in Nat /\ RightContext \in Nat
      /\ Overlap >= MaxSpan + RightContext
  BY ParallelAssumption, Plan, Pads DEF Guaranteed
<1>2. ASSUME NEW d \in Straddler(S, SeamStart(i)) PROVE d \in truth
  <2>1. d \in S /\ Straddles(d, SeamStart(i)) /\ d \in SpansIn(FirstRead(i), p)
    BY DEF Straddler
  <2>2. SpansIn(FirstRead(i), p) \subseteq SpansIn(0, TextLen)
    BY <1>1, SpansGrow
  <2>3. d \in Spans_ /\ Size(d) <= MaxSpan
    BY <2>1, <2>2 DEF Spans_
  <2>4. SettledFor(i, d)
    BY <2>1, <2>3, AcrossSeam
  <2>5. QED
    BY <2>1, <2>4
<1>3. ASSUME NEW d \in Straddler(truth, SeamStart(i)) PROVE d \in S
  <2>1. d \in truth /\ Straddles(d, SeamStart(i)) /\ d \in Spans_ /\ Size(d) <= MaxSpan
    BY DEF Straddler, Guaranteed
  <2>2. SettledFor(i, d) /\ d \in SpansIn(FirstRead(i), LastRead(i)) /\ d.end < SeamStart(i) + MaxSpan
    BY <2>1, AcrossSeam
  <2>3. d \in SpansIn(FirstRead(i), p)
    <3>1. d.start \in Int /\ d.end \in Int /\ FirstRead(i) <= d.start /\ d.start < d.end
          /\ d.end <= LastRead(i) /\ d \in [start : Int, end : Int]
      BY <1>1, <2>2 DEF SpansIn
    <3>2. d.end <= p
      BY <1>1, <2>2, <3>1
    <3>3. d.start \in FirstRead(i) .. p /\ d.end \in FirstRead(i) .. p
      BY <1>1, <3>1, <3>2
    <3>4. QED
      BY <3>1, <3>3 DEF SpansIn
  <2>4. QED
    BY <2>1, <2>2, <2>3
<1>4. QED
  BY <1>2, <1>3 DEF Straddler

\* A segment that lies far enough behind the end seam shows, from the cut on,
\* exactly the reference entities that start in it.
LEMMA FlushShows ==
    ASSUME Guaranteed, NEW i \in Workers, NEW s \in Segments,
           s.dets \subseteq SpansIn(s.lo, s.hi), Faithful(i, s.lo, s.hi, s.dets),
           CutsNone(i, s.hi), FirstRead(i) <= s.lo,
           NEW cut \in Int, NEW end \in Int,
           \/ s.hi <= SeamEnd(i) - Overlap /\ s.hi <= end
           \/ IsLast(i) /\ s.hi <= end
    PROVE  {d \in s.dets : Larger(s.lo, cut) <= d.start /\ d.end <= Smaller(s.hi, end)}
              = {t \in truth : cut <= t.start /\ s.lo <= t.start /\ t.start < s.hi}
<1>1. /\ s.lo \in Nat /\ s.hi \in Nat /\ s.hi <= TextLen /\ FirstRead(i) \in Nat
      /\ TextLen \in Nat /\ SeamEnd(i) \in Nat /\ LastRead(i) \in Nat /\ Overlap \in Nat
      /\ SeamEnd(i) <= LastRead(i) /\ LastRead(i) <= TextLen
      /\ IsLast(i) => LastRead(i) = TextLen
      /\ RightContext \in Nat /\ MaxSpan \in Nat /\ Overlap >= MaxSpan + RightContext
  BY ParallelAssumption, Plan, Pads DEF Segments, Guaranteed
<1>2. Smaller(s.hi, end) = s.hi
  BY <1>1 DEF Smaller
<1>3. ASSUME NEW d \in s.dets PROVE d \in truth
  <2>1. d \in SpansIn(s.lo, s.hi) /\ d.end \in Int /\ d.end <= s.hi
    BY DEF SpansIn
  <2>2. SettledFor(i, d)
    BY <1>1, <2>1 DEF SettledFor
  <2>3. QED
    BY <2>1, <2>2 DEF Faithful
<1>4. ASSUME NEW t \in truth, s.lo <= t.start, t.start < s.hi
      PROVE  t \in s.dets /\ t.end <= s.hi
  <2>1. /\ t.start \in Int /\ t.end \in Int /\ t.start < t.end /\ t.end <= TextLen
        /\ t \in [start : Int, end : Int]
    BY <1>1 DEF Guaranteed, Spans_, SpansIn
  <2>2. SettledFor(i, t)
    <3>1. CASE IsLast(i)
      BY <1>1, <3>1 DEF SettledFor
    <3>2. CASE ~IsLast(i)
      <4>1. t.start < SeamEnd(i) - Overlap
        BY <1>1, <1>4, <2>1, <3>2
      <4>2. QED
        BY <4>1, StartsBefore
    <3>3. QED
      BY <3>1, <3>2
  <2>3. t.end <= s.hi
    BY <1>1, <1>4, <2>1, <2>2 DEF CutsNone, Straddles
  <2>4. t \in SpansIn(s.lo, s.hi)
    <3>1. t.start \in s.lo .. s.hi /\ t.end \in s.lo .. s.hi
      BY <1>1, <1>4, <2>1, <2>3
    <3>2. QED
      BY <2>1, <3>1 DEF SpansIn
  <2>5. QED
    BY <2>2, <2>3, <2>4 DEF Faithful
<1>5. \A d \in s.dets : d.start \in Int /\ d.end \in Int /\ s.lo <= d.start /\ d.start < s.hi /\ d.end <= s.hi
  BY <1>1 DEF SpansIn
<1>6. \A x \in Int : Larger(s.lo, cut) <= x <=> s.lo <= x /\ cut <= x
  BY <1>1 DEF Larger
<1>7. QED
  BY <1>2, <1>3, <1>4, <1>5, <1>6

LEMMA SegmentKeepsShown ==
    ASSUME Guaranteed, NEW i \in Workers, NEW w \in WorkerRecords,
           Bookkeeping(w, i), TextSoFar(w, i), ShownSoFar(w, i),
           NEW p \in Int, w.cursor < p, p <= LastRead(i),
           NEW D \in SUBSET SpansIn(w.cursor, p), PairwiseDisjoint(D),
           Faithful(i, w.cursor, p, D), CutsNone(i, p),
           NEW v, v = AfterSegment(w, i, p, D)
    PROVE  ShownSoFar(v, i)
<1> DEFINE ready == ReadyOf(w, i, p, D)
           cut == Decided(w, i, p, D)
           upto == p - 2 * Overlap
           written(c) == \E s \in ready : s.lo <= c /\ c < s.hi
<1>1. /\ v.cursor = p /\ v.startCut = cut
      /\ v.pending = Held(w, p, D) \ ready
      /\ v.seen = IF cut = NoCut THEN w.seen \cup D ELSE StillNeeded(w.seen \cup D, upto)
      /\ v.startReport = IF w.startCut = NoCut /\ cut # NoCut
                         THEN Straddler(w.seen \cup D, SeamStart(i)) ELSE w.startReport
      /\ v.kept = w.kept \cup Rendered(ready, cut, TextLen)
  BY DEF AfterSegment, WorkerRecords, Decided, Held, ReadyOf
<1>2. \A c \in Int : HeldBack(v, c) <=> /\ HeldBack(w, c) \/ (w.cursor <= c /\ c < p)
                                        /\ ~written(c)
  BY HeldBackAfter
<1>3. /\ Overlap \in Nat /\ TextLen \in Nat /\ SeamStart(i) \in Nat /\ SeamEnd(i) \in Nat
      /\ FirstRead(i) \in Nat /\ FirstRead(i) <= SeamStart(i) /\ LastRead(i) <= TextLen
      /\ w.cursor \in Nat /\ FirstRead(i) <= w.cursor /\ LastRead(i) \in Nat
      /\ LastRead(i) <= SeamEnd(i) + Overlap
  BY ParallelAssumption, Plan, Pads, CursorReads
<1>4. \/ cut = w.startCut /\ (w.startCut # NoCut \/ p < SeamStart(i) + 2 * Overlap)
      \/ /\ w.startCut = NoCut /\ cut # NoCut /\ p >= SeamStart(i) + 2 * Overlap
         /\ cut \in Nat /\ cut >= SeamStart(i)
  BY DecidedCases
<1>5. w.seen \cup D \subseteq SpansIn(FirstRead(i), p) /\ \A d \in w.seen \cup D : Size(d) <= MaxSpan
  BY SeenWithSegment DEF ShownSoFar, Faithful
<1>6. \A s \in Held(w, p, D) :
         /\ s \in Segments /\ s.dets \subseteq SpansIn(s.lo, s.hi) /\ FirstRead(i) <= s.lo
         /\ Faithful(i, s.lo, s.hi, s.dets) /\ CutsNone(i, s.hi)
  <2>1. \A s \in w.pending :
           /\ s \in Segments /\ s.dets \subseteq SpansIn(s.lo, s.hi) /\ FirstRead(i) <= s.lo
           /\ Faithful(i, s.lo, s.hi, s.dets) /\ CutsNone(i, s.hi)
    BY DEF WorkerRecords, Bookkeeping, ShownSoFar
  <2>2. D \subseteq Spans_
    <3>1. SpansIn(w.cursor, p) \subseteq SpansIn(0, TextLen)
      BY <1>3, SpansGrow
    <3>2. QED
      BY <3>1 DEF Spans_
  <2>3. [lo |-> w.cursor, hi |-> p, dets |-> D] \in Segments
    BY <1>3, <2>2 DEF Segments
  <2>4. QED
    BY <1>3, <2>1, <2>3 DEF Held
<1>7. ready \subseteq Held(w, p, D) /\ \A s \in ready : s.hi <= upto
  BY DEF ReadyOf, Flushable
<1> HIDE DEF ready, cut
<1>8. \A d \in v.seen : Size(d) <= MaxSpan
  BY <1>1, <1>5 DEF StillNeeded
<1>9. ASSUME NEW d \in SpansIn(FirstRead(i), p), SettledFor(i, d), cut = NoCut \/ d.end > upto
      PROVE  d \in v.seen <=> d \in truth
  <2>1. d.end \in Int
    BY DEF SpansIn
  <2>2. w.startCut = NoCut \/ d.end > w.cursor - 2 * Overlap
    BY <1>3, <1>4, <1>9, <2>1
  <2>3. d \in w.seen \cup D <=> d \in truth
    BY <1>9, <2>2, SeenIsReference
  <2>4. d \in v.seen <=> d \in w.seen \cup D
    BY <1>1, <1>9 DEF StillNeeded
  <2>5. QED
    BY <2>3, <2>4
<1>10. \A s \in v.pending : Faithful(i, s.lo, s.hi, s.dets) /\ CutsNone(i, s.hi)
  BY <1>1, <1>6
<1>11. CASE cut = NoCut
  BY <1>1, <1>8, <1>9, <1>10, <1>11 DEF ShownSoFar
<1>12. CASE cut # NoCut
  <2>1. v.startReport = Straddler(truth, SeamStart(i))
    <3>1. CASE w.startCut = NoCut
      <4>1. p >= SeamStart(i) + 2 * Overlap /\ v.startReport = Straddler(w.seen \cup D, SeamStart(i))
        BY <1>1, <1>4, <1>12, <3>1
      <4>2. \A d \in SpansIn(FirstRead(i), p) :
               SettledFor(i, d) => (d \in w.seen \cup D <=> d \in truth)
        BY <3>1, SeenIsReference
      <4>3. QED
        BY <1>5, <4>1, <4>2, StartReport
    <3>2. CASE w.startCut # NoCut
      BY <1>1, <3>2 DEF ShownSoFar
    <3>3. QED
      BY <3>1, <3>2
  <2>2. cut \in Int /\ (w.startCut = NoCut => cut >= FirstRead(i))
    BY <1>3, <1>4, <1>12 DEF WorkerRecords, NoCut
  <2>3. Rendered(ready, cut, TextLen) = {t \in truth : cut <= t.start /\ written(t.start)}
    <3>1. \A s \in ready :
             {d \in s.dets : Larger(s.lo, cut) <= d.start /\ d.end <= Smaller(s.hi, TextLen)}
                = {t \in truth : cut <= t.start /\ s.lo <= t.start /\ t.start < s.hi}
      <4> SUFFICES ASSUME NEW s \in ready
                   PROVE {d \in s.dets : Larger(s.lo, cut) <= d.start /\ d.end <= Smaller(s.hi, TextLen)}
                            = {t \in truth : cut <= t.start /\ s.lo <= t.start /\ t.start < s.hi}
        OBVIOUS
      <4>1. /\ s \in Segments /\ s.dets \subseteq SpansIn(s.lo, s.hi) /\ FirstRead(i) <= s.lo
            /\ Faithful(i, s.lo, s.hi, s.dets) /\ CutsNone(i, s.hi) /\ s.hi <= upto
        BY <1>6, <1>7
      <4>2. s.hi \in Nat
        BY <4>1 DEF Segments
      <4>3. s.hi <= SeamEnd(i) - Overlap /\ s.hi <= TextLen /\ TextLen \in Int
        BY <1>3, <4>1, <4>2
      <4>4. QED
        BY <2>2, <4>1, <4>3, FlushShows
    <3>2. Rendered(ready, cut, TextLen)
             = UNION {{t \in truth : cut <= t.start /\ s.lo <= t.start /\ t.start < s.hi} : s \in ready}
      BY <3>1 DEF Rendered
    <3>3. QED
      BY <3>2
  <2>4. \A c \in Int : written(c) => c < p
    BY <1>3, <1>6, <1>7 DEF Segments
  <2>5. ASSUME NEW t \in truth
        PROVE  t \in v.kept <=> cut <= t.start /\ t.start < p /\ ~HeldBack(v, t.start)
    <3>1. t.start \in Int
      BY DEF Guaranteed, Spans_, SpansIn
    <3>2. HeldBack(v, t.start) <=> /\ HeldBack(w, t.start) \/ (w.cursor <= t.start /\ t.start < p)
                                   /\ ~written(t.start)
      BY <1>2, <3>1
    <3>3. t \in v.kept <=> t \in w.kept \/ (cut <= t.start /\ written(t.start))
      BY <1>1, <2>3
    <3>4. written(t.start) => t.start < p
      BY <2>4, <3>1
    <3> HIDE DEF written
    <3>5. CASE w.startCut = NoCut
      <4>1. t \notin w.kept
        BY <3>5 DEF TextSoFar
      <4>2. cut <= t.start /\ t.start < w.cursor => HeldBack(w, t.start)
        BY <1>3, <2>2, <3>1, <3>5 DEF TextSoFar
      <4>3. QED
        BY <1>3, <2>2, <3>1, <3>2, <3>3, <3>4, <4>1, <4>2
    <3>6. CASE w.startCut # NoCut
      <4>1. cut = w.startCut
        BY <1>4, <3>6
      <4>2. t \in w.kept <=> cut <= t.start /\ t.start < w.cursor /\ ~HeldBack(w, t.start)
        BY <3>6, <4>1 DEF ShownSoFar
      <4>3. QED
        BY <1>3, <2>2, <3>1, <3>2, <3>3, <3>4, <4>2
    <3>7. QED
      BY <3>5, <3>6
  <2>6. v.kept \subseteq truth
    <3>1. w.kept \subseteq truth
      BY DEF ShownSoFar, TextSoFar
    <3>2. QED
      BY <1>1, <2>3, <3>1
  <2>7. v.kept = {t \in truth : cut <= t.start /\ t.start < p /\ ~HeldBack(v, t.start)}
    BY <2>5, <2>6
  <2>8. QED
    BY <1>1, <1>8, <1>9, <1>10, <2>1, <2>7 DEF ShownSoFar
<1>13. QED
  BY <1>11, <1>12

LEMMA StreamEndsShown ==
    ASSUME Guaranteed, NEW i \in Workers, NEW w \in WorkerRecords,
           Bookkeeping(w, i), TextSoFar(w, i), ShownSoFar(w, i), w.cursor = LastRead(i),
           NEW v, v = AfterStream(w, i)
    PROVE  ShownDone(v, i)
<1> DEFINE startCut == IF w.startCut = NoCut THEN CutAt(w.seen, SeamStart(i)) ELSE w.startCut
           endReport == EndReport(w, i)
           endCut == CutAt(endReport, SeamEnd(i))
<1>1. /\ v.startCut = startCut /\ v.endReport = endReport
      /\ v.startReport = IF w.startCut = NoCut THEN Straddler(w.seen, SeamStart(i)) ELSE w.startReport
      /\ v.kept = w.kept \cup Rendered(w.pending, startCut, endCut)
  BY DEF AfterStream, WorkerRecords
<1>2. /\ Overlap \in Nat /\ TextLen \in Nat /\ SeamStart(i) \in Nat /\ SeamEnd(i) \in Nat
      /\ SeamStart(i) <= SeamEnd(i) /\ SeamEnd(i) <= LastRead(i)
      /\ FirstRead(i) \in Nat /\ FirstRead(i) <= SeamStart(i) /\ LastRead(i) <= TextLen
      /\ LastRead(i) \in Nat /\ LastRead(i) <= SeamEnd(i) + Overlap
      /\ LastRead(i) = TextLen \/ LastRead(i) = SeamEnd(i) + Overlap
      /\ IsLast(i) => SeamEnd(i) = TextLen
      /\ MaxSpan \in Nat /\ RightContext \in Nat /\ Overlap >= MaxSpan + RightContext
  BY ParallelAssumption, Plan, Pads DEF Guaranteed
<1>3. /\ endCut \in Nat /\ SeamEnd(i) <= endCut /\ endCut <= LastRead(i)
      /\ IsLast(i) => endReport = {}
      /\ ~IsLast(i) => endReport = Straddler(w.seen, SeamEnd(i))
      /\ endReport \subseteq w.seen
  BY <1>2, EndOfRange
<1>4. /\ w.seen \subseteq SpansIn(FirstRead(i), LastRead(i)) /\ PairwiseDisjoint(w.seen)
      /\ \A d \in w.seen : Size(d) <= MaxSpan
      /\ SpansIn(FirstRead(i), LastRead(i)) \subseteq Spans_
  <2>1. SpansIn(FirstRead(i), LastRead(i)) \subseteq SpansIn(0, TextLen)
    BY <1>2, SpansGrow
  <2>2. QED
    BY <2>1 DEF Bookkeeping, ShownSoFar, Spans_
<1>5. startCut \in Nat /\ SeamStart(i) <= startCut
  <2>1. v \in WorkerRecords /\ TextDone(v, i)
    BY StreamEndsText
  <2>2. QED
    BY <1>1, <1>2, <2>1 DEF TextDone, WorkerRecords, NoCut
<1> HIDE DEF startCut, endReport, endCut
<1>6. endReport = Straddler(truth, SeamEnd(i))
  <2>1. CASE IsLast(i)
    <3>1. \A t \in truth : t.end \in Int /\ t.end <= TextLen
      BY <1>2 DEF Guaranteed, Spans_, SpansIn
    <3>2. QED
      BY <1>2, <1>3, <2>1, <3>1 DEF Straddler, Straddles
  <2>2. CASE ~IsLast(i)
    <3>1. ASSUME NEW d \in Spans_, Straddles(d, SeamEnd(i)), Size(d) <= MaxSpan
          PROVE  d \in w.seen <=> d \in truth
      <4>1. SettledFor(i, d) /\ d \in SpansIn(FirstRead(i), LastRead(i))
        BY <3>1, AcrossSeam
      <4>2. d.end \in Int /\ d.end > LastRead(i) - 2 * Overlap
        BY <1>2, <3>1 DEF Spans_, SpansIn, Straddles
      <4>3. QED
        BY <4>1, <4>2 DEF ShownSoFar
    <3>2. \A d \in truth : d \in Spans_ /\ Size(d) <= MaxSpan
      BY DEF Guaranteed
    <3>3. QED
      BY <1>3, <1>4, <2>2, <3>1, <3>2 DEF Straddler
  <2>3. QED
    BY <2>1, <2>2
<1>7. v.startReport = Straddler(truth, SeamStart(i))
  <2>1. CASE w.startCut = NoCut
    <3>1. \A d \in SpansIn(FirstRead(i), LastRead(i)) :
             SettledFor(i, d) => (d \in w.seen <=> d \in truth)
      BY <2>1 DEF ShownSoFar
    <3>2. QED
      BY <1>1, <1>2, <1>4, <2>1, <3>1, StartReport
  <2>2. CASE w.startCut # NoCut
    BY <1>1, <2>2 DEF ShownSoFar
  <2>3. QED
    BY <2>1, <2>2
<1>8. ASSUME NEW d, d.end \in Int, d.end <= endCut
      PROVE  SettledFor(i, d)
  <2>1. CASE IsLast(i)
    BY <1>2, <2>1 DEF SettledFor
  <2>2. CASE ~IsLast(i)
    <3>1. endCut <= SeamEnd(i) + MaxSpan
      <4>1. /\ endReport \subseteq SpansIn(FirstRead(i), LastRead(i))
            /\ PairwiseDisjoint(endReport)
        BY <1>3, <1>4, SubsetsDisjoint
      <4>2. \/ endCut = SeamEnd(i)
            \/ \E e \in endReport : endCut = e.end /\ e.start < SeamEnd(i) /\ SeamEnd(i) < e.end
        BY <1>2, <4>1, CutAtValue DEF endCut
      <4>3. ASSUME NEW e \in endReport, e.start < SeamEnd(i), SeamEnd(i) < e.end
            PROVE  e.end < SeamEnd(i) + MaxSpan
        <5>1. e \in Spans_ /\ Size(e) <= MaxSpan /\ Straddles(e, SeamEnd(i))
          BY <1>3, <1>4, <4>3 DEF Straddles
        <5>2. QED
          BY <5>1, AcrossSeam
      <4>4. \A e \in endReport : e.end \in Int
        BY <4>1 DEF SpansIn
      <4>5. QED
        BY <1>2, <4>2, <4>3, <4>4
    <3>2. d.end + RightContext <= SeamEnd(i) + Overlap
      BY <1>2, <1>3, <1>8, <3>1
    <3>3. QED
      BY <1>2, <3>2 DEF SettledFor
  <2>3. QED
    BY <2>1, <2>2
<1>9. ASSUME NEW s \in w.pending
      PROVE  {d \in s.dets : Larger(s.lo, startCut) <= d.start /\ d.end <= Smaller(s.hi, endCut)}
                = {t \in truth : /\ startCut <= t.start /\ s.lo <= t.start /\ t.start < s.hi
                                 /\ t.end <= endCut}
  <2>1. /\ s.lo \in Nat /\ s.hi \in Nat /\ FirstRead(i) <= s.lo
        /\ s.dets \subseteq SpansIn(s.lo, s.hi)
        /\ Faithful(i, s.lo, s.hi, s.dets) /\ CutsNone(i, s.hi)
    BY DEF WorkerRecords, Segments, Bookkeeping, ShownSoFar
  <2>2. \A d \in s.dets : /\ d.start \in Int /\ d.end \in Int
                          /\ s.lo <= d.start /\ d.start < s.hi /\ d.end <= s.hi
    BY <2>1 DEF SpansIn
  <2>3. ASSUME NEW d \in s.dets, d.end <= endCut PROVE d \in truth
    <3>1. SettledFor(i, d)
      BY <1>8, <2>2, <2>3
    <3>2. QED
      BY <2>1, <3>1 DEF Faithful
  <2>4. ASSUME NEW t \in truth, s.lo <= t.start, t.start < s.hi, t.end <= endCut
        PROVE  t \in s.dets /\ t.end <= s.hi
    <3>1. /\ t.start \in Int /\ t.end \in Int /\ t.start < t.end
          /\ t \in [start : Int, end : Int]
      BY <1>2 DEF Guaranteed, Spans_, SpansIn
    <3>2. SettledFor(i, t)
      BY <1>8, <2>4, <3>1
    <3>3. t.end <= s.hi
      BY <1>2, <2>1, <2>4, <3>1, <3>2 DEF CutsNone, Straddles
    <3>4. t.start \in s.lo .. s.hi /\ t.end \in s.lo .. s.hi
      BY <2>1, <2>4, <3>1, <3>3
    <3>5. t \in SpansIn(s.lo, s.hi)
      BY <3>1, <3>4 DEF SpansIn
    <3>6. QED
      BY <2>1, <3>2, <3>3, <3>5 DEF Faithful
  <2>5. \A x \in Int : /\ Larger(s.lo, startCut) <= x <=> s.lo <= x /\ startCut <= x
                       /\ x <= Smaller(s.hi, endCut) <=> x <= s.hi /\ x <= endCut
    BY <1>3, <1>5, <2>1 DEF Larger, Smaller
  <2>6. QED
    BY <2>2, <2>3, <2>4, <2>5
<1>10. Rendered(w.pending, startCut, endCut)
          = {t \in truth : startCut <= t.start /\ HeldBack(w, t.start) /\ t.end <= endCut}
  <2>1. Rendered(w.pending, startCut, endCut)
           = UNION {{t \in truth : /\ startCut <= t.start /\ s.lo <= t.start /\ t.start < s.hi
                                   /\ t.end <= endCut} : s \in w.pending}
    BY <1>9 DEF Rendered
  <2>2. QED
    BY <2>1 DEF HeldBack
<1>11. ASSUME NEW t \in truth
       PROVE  t \in v.kept <=> startCut <= t.start /\ t.end <= endCut
  <2>1. t.start \in Int /\ t.end \in Int /\ t.start < t.end
    BY DEF Guaranteed, Spans_, SpansIn
  <2>2. t \in v.kept <=> t \in w.kept \/ (startCut <= t.start /\ HeldBack(w, t.start) /\ t.end <= endCut)
    BY <1>1, <1>10
  <2>3. CASE w.startCut = NoCut
    <3>1. t \notin w.kept
      BY <2>3 DEF TextSoFar
    <3>2. startCut <= t.start /\ t.end <= endCut => HeldBack(w, t.start)
      BY <1>2, <1>3, <1>5, <2>1, <2>3 DEF TextSoFar
    <3>3. QED
      BY <2>2, <3>1, <3>2
  <2>4. CASE w.startCut # NoCut
    <3>1. t \in w.kept <=> startCut <= t.start /\ t.start < LastRead(i) /\ ~HeldBack(w, t.start)
      BY <2>4 DEF startCut, ShownSoFar
    <3>2. startCut <= t.start /\ t.start < LastRead(i) /\ ~HeldBack(w, t.start) => t.end <= endCut
      <4> SUFFICES ASSUME startCut <= t.start, t.start < LastRead(i), ~HeldBack(w, t.start)
                   PROVE  t.end <= endCut
        OBVIOUS
      <4>1. t.start < LastRead(i) - 2 * Overlap
        BY <1>2, <1>5, <2>1, <2>4 DEF TextSoFar
      <4>2. t.start < SeamEnd(i) - Overlap
        BY <1>2, <2>1, <4>1
      <4>3. t.end < SeamEnd(i)
        BY <4>2, StartsBefore
      <4>4. QED
        BY <1>2, <1>3, <2>1, <4>3
    <3>3. QED
      BY <1>2, <1>3, <2>1, <2>2, <3>1, <3>2
  <2>5. QED
    BY <2>3, <2>4
<1>12. v.kept \subseteq truth
  <2>1. w.kept \subseteq truth
    BY DEF ShownSoFar, TextSoFar
  <2>2. QED
    BY <1>1, <1>10, <2>1
<1>13. EndCut(v, i) = endCut
  BY <1>1 DEF EndCut, endCut
<1>14. v.kept = {t \in truth : startCut <= t.start /\ t.end <= endCut}
  BY <1>11, <1>12
<1>15. QED
  BY <1>1, <1>6, <1>7, <1>13, <1>14 DEF ShownDone

-----------------------------------------------------------------------------
(* The call's invariant.                                                   *)

\* What WorkersInv and HoldbackBounded ask of one worker.
Sound(w, i) ==
    /\ w.phase = "streaming" =>
         /\ Bookkeeping(w, i) /\ TextSoFar(w, i)
         /\ safe => ShownSoFar(w, i)
    /\ w.phase = "done" =>
         /\ TextDone(w, i)
         /\ safe => ShownDone(w, i)
    /\ \A s \in w.pending : \/ s.hi > w.cursor - 2 * Overlap
                           \/ w.cursor < SeamStart(i) + 2 * Overlap

LEMMA SafeIsGuaranteed ==
    ASSUME CallInv, safe
    PROVE  Guaranteed
BY ParallelAssumption DEF CallInv, TypeOK, WorkersInv, Guaranteed

LEMMA EveryWorkerSound ==
    ASSUME CallInv, NEW i \in Workers
    PROVE  Sound(worker[i], i) /\ worker[i] \in WorkerRecords
BY DEF CallInv, TypeOK, WorkersInv, HoldbackBounded, Sound

LEMMA SoundStays ==
    ASSUME NEW i \in Workers, Sound(worker[i], i), UNCHANGED <<safe, truth>>, worker'[i] = worker[i]
    PROVE  Sound(worker[i], i)'
BY DEF Sound, Bookkeeping, TextSoFar, TextDone, ShownSoFar, ShownDone, CutsNone, Faithful,
       SettledFor, HeldBack, EndCut

\* A worker that streams takes a step, in the pool, and is sound after it.
LEMMA WorkerMoves ==
    ASSUME CallInv, NEW i \in Workers, pc = "pool", worker[i].phase = "streaming",
           NEW v \in WorkerRecords, Sound(v, i),
           worker' = [worker EXCEPT ![i] = v],
           UNCHANGED <<safe, truth, pc, merged, draft, output, partDir>>
    PROVE  CallInv'
<1>1. /\ worker \in [Workers -> WorkerRecords]
      /\ worker'[i] = v /\ \A j \in Workers : j # i => worker'[j] = worker[j]
  BY DEF CallInv, TypeOK
<1>2. TypeOK'
  BY <1>1 DEF CallInv, TypeOK
<1>3. ASSUME NEW j \in Workers PROVE Sound(worker[j], j)'
  <2>1. CASE j = i
    BY <1>1, <2>1 DEF Sound, Bookkeeping, TextSoFar, TextDone, ShownSoFar, ShownDone, CutsNone,
                      Faithful, SettledFor, HeldBack, EndCut
  <2>2. CASE j # i
    BY <1>1, <2>2, EveryWorkerSound, SoundStays
  <2>3. QED
    BY <2>1, <2>2
<1>4. WorkersInv' /\ HoldbackBounded'
  <2>1. (safe => PairwiseDisjoint(truth) /\ \A t \in truth : Size(t) <= MaxSpan)'
    BY DEF CallInv, WorkersInv
  <2>2. QED
    BY <1>3, <2>1 DEF WorkersInv, HoldbackBounded, Sound
<1>5. CallerInv'
  BY DEF CallInv, CallerInv
<1>6. EveryCharacterOnce' /\ ParallelIsSequential'
  BY DEF CallInv, EveryCharacterOnce, ParallelIsSequential, CallerInv
<1>7. CleanedUp'
  BY DEF CallInv, CleanedUp, CallerInv
<1>8. QED
  BY <1>2, <1>4, <1>5, <1>6, <1>7 DEF CallInv

\* The loop body leaves the call's invariant as it was, for every segment that
\* satisfies the stream's promise.
LEMMA SegmentStep ==
    ASSUME CallInv, NEW i \in Workers, Streaming(i),
           NEW p \in Int, worker[i].cursor < p, p <= LastRead(i),
           NEW D \in SUBSET SpansIn(worker[i].cursor, p), PairwiseDisjoint(D),
           safe => Faithful(i, worker[i].cursor, p, D) /\ CutsNone(i, p),
           worker' = [worker EXCEPT ![i] = AfterSegment(@, i, p, D)],
           UNCHANGED <<safe, truth, pc, merged, draft, output, partDir>>
    PROVE  CallInv'
<1> DEFINE w == worker[i]
           v == AfterSegment(w, i, p, D)
<1>1. /\ w \in WorkerRecords /\ w.phase = "streaming" /\ pc = "pool"
      /\ Bookkeeping(w, i) /\ TextSoFar(w, i) /\ (safe => ShownSoFar(w, i))
  BY EveryWorkerSound DEF Streaming, Sound
<1>2. worker' = [worker EXCEPT ![i] = v]
  OBVIOUS
<1>3. v.phase = w.phase
  BY <1>1 DEF AfterSegment, WorkerRecords
<1> HIDE DEF w, v
<1>4. v = AfterSegment(w, i, p, D) /\ w = worker[i]
  BY DEF v, w
<1>5. Bookkeeping(v, i) /\ TextSoFar(v, i) /\ v \in WorkerRecords
  BY <1>1, <1>4, SegmentKeepsBookkeeping, SegmentKeepsText, SegmentTyped
<1>6. safe => ShownSoFar(v, i)
  BY <1>1, <1>4, SafeIsGuaranteed, SegmentKeepsShown
<1>7. \A s \in v.pending : s.hi > v.cursor - 2 * Overlap \/ v.cursor < SeamStart(i) + 2 * Overlap
  BY <1>5 DEF TextSoFar
<1>8. Sound(v, i)
  BY <1>1, <1>3, <1>5, <1>6, <1>7 DEF Sound
<1>9. QED
  BY <1>1, <1>2, <1>4, <1>5, <1>8, WorkerMoves

LEMMA SegmentKeepsInv ==
    ASSUME CallInv, NEW i \in Workers, NEW p \in SegmentEnds, Segment(i, p)
    PROVE  CallInv'
<1> DEFINE lo == worker[i].cursor
<1>1. /\ Streaming(i) /\ lo < p /\ p < LastRead(i) /\ p \in Int
      /\ UNCHANGED <<safe, truth, pc, merged, draft, output, partDir>>
  BY ParallelAssumption DEF Segment
<1>2. lo \in Nat /\ LastRead(i) \in Nat /\ p <= LastRead(i) /\ FirstRead(i) <= lo
  BY <1>1, EveryWorkerSound, Pads DEF Sound, Streaming, Bookkeeping
<1>3. CASE safe
  <2> DEFINE D == Stream(i)!Within(lo, p)
  <2>1. Stream(i)!CutFree(p) /\ worker' = [worker EXCEPT ![i] = AfterSegment(@, i, p, D)]
    BY <1>3 DEF Segment
  <2>2. D = {t \in truth : lo <= t.start /\ t.end <= p}
    BY DEF Stream!Within
  <2> HIDE DEF D
  <2>3. Guaranteed
    BY <1>3, SafeIsGuaranteed
  <2>4. D \in SUBSET SpansIn(lo, p) /\ PairwiseDisjoint(D)
    BY <1>1, <1>2, <2>2, <2>3 DEF Guaranteed, Spans_, SpansIn, PairwiseDisjoint
  <2>5. Faithful(i, lo, p, D)
    <3>1. \A d \in SpansIn(lo, p) : lo <= d.start /\ d.end <= p
      BY <1>1, <1>2 DEF SpansIn
    <3>2. QED
      BY <2>2, <2>3, <3>1 DEF Guaranteed, Faithful
  <2>6. CutsNone(i, p)
    BY <2>1 DEF CutsNone, Stream!CutFree, Stream!Straddles, Straddles
  <2>7. QED
    BY <1>1, <1>2, <2>1, <2>4, <2>5, <2>6, SegmentStep
<1>4. CASE ~safe
  <2>1. PICK D \in SUBSET (SpansIn(lo, p) \cap Spottable) :
           PairwiseDisjoint(D) /\ worker' = [worker EXCEPT ![i] = AfterSegment(@, i, p, D)]
    BY <1>4 DEF Segment
  <2>2. QED
    BY <1>1, <1>2, <1>4, <2>1, SegmentStep
<1>5. QED
  BY <1>3, <1>4

LEMMA LastSegmentKeepsInv ==
    ASSUME CallInv, NEW i \in Workers, LastSegment(i)
    PROVE  CallInv'
<1> DEFINE lo == worker[i].cursor
           hi == LastRead(i)
<1>1. PICK D \in TailReports(i) :
         /\ Streaming(i) /\ lo < hi
         /\ worker' = [worker EXCEPT ![i] = AfterSegment(@, i, hi, D)]
         /\ UNCHANGED <<safe, truth, pc, merged, draft, output, partDir>>
  BY DEF LastSegment
<1>2. lo \in Nat /\ hi \in Int /\ hi <= LastRead(i) /\ hi <= TextLen
  BY <1>1, EveryWorkerSound, Pads DEF Sound, Streaming, Bookkeeping
<1>3. CASE safe
  <2>1. Stream(i)!TailDetections(lo, D)
    BY <1>3 DEF TailReports
  <2>2. /\ D \in SUBSET SpansIn(lo, hi) /\ PairwiseDisjoint(D)
        /\ \A d \in D : Size(d) <= MaxSpan
        /\ \A d \in SpansIn(lo, hi) : SettledFor(i, d) => (d \in D <=> d \in truth)
    BY <2>1 DEF Stream!TailDetections, Stream!Settled, Stream!SpansIn, Stream!PairwiseDisjoint,
                Stream!Overlap2, Stream!Size, SettledFor, SpansIn, PairwiseDisjoint, Overlap2, Size
  <2>3. Faithful(i, lo, hi, D)
    BY <2>2 DEF Faithful
  <2>4. CutsNone(i, hi)
    <3>1. \A t \in truth : t.end \in Int /\ t.end <= TextLen
      BY <1>3, SafeIsGuaranteed, ParallelAssumption DEF Guaranteed, Spans_, SpansIn
    <3>2. RightContext \in Nat /\ TextLen \in Nat
      BY ParallelAssumption
    <3>3. QED
      BY <1>2, <3>1, <3>2 DEF CutsNone, SettledFor, Straddles
  <2>5. QED
    BY <1>1, <1>2, <2>2, <2>3, <2>4, SegmentStep
<1>4. CASE ~safe
  <2>1. D \in SUBSET SpansIn(lo, hi) /\ PairwiseDisjoint(D)
    BY <1>4 DEF TailReports
  <2>2. QED
    BY <1>1, <1>2, <1>4, <2>1, SegmentStep
<1>5. QED
  BY <1>3, <1>4

LEMMA EndOfStreamKeepsInv ==
    ASSUME CallInv, NEW i \in Workers, EndOfStream(i)
    PROVE  CallInv'
<1> DEFINE w == worker[i]
           v == AfterStream(w, i)
<1>1. /\ Streaming(i) /\ w.cursor = LastRead(i) /\ worker' = [worker EXCEPT ![i] = v]
      /\ UNCHANGED <<safe, truth, pc, merged, draft, output, partDir>>
  BY DEF EndOfStream
<1>2. /\ w \in WorkerRecords /\ w.phase = "streaming" /\ pc = "pool"
      /\ Bookkeeping(w, i) /\ TextSoFar(w, i) /\ (safe => ShownSoFar(w, i))
  BY <1>1, EveryWorkerSound DEF Streaming, Sound
<1> HIDE DEF w, v
<1>3. v = AfterStream(w, i) /\ w = worker[i]
  BY DEF v, w
<1>4. v \in WorkerRecords /\ v.phase = "done" /\ TextDone(v, i)
  BY <1>1, <1>2, <1>3, StreamEndsText
<1>5. safe => ShownDone(v, i)
  BY <1>1, <1>2, <1>3, SafeIsGuaranteed, StreamEndsShown
<1>6. Sound(v, i)
  BY <1>4, <1>5 DEF Sound, TextDone
<1>7. QED
  BY <1>1, <1>2, <1>3, <1>4, <1>6, WorkerMoves

LEMMA WorkerFailsKeepsInv ==
    ASSUME CallInv, NEW i \in Workers, WorkerFails(i)
    PROVE  CallInv'
<1> DEFINE w == worker[i]
           v == [w EXCEPT !.phase = "failed"]
<1>1. /\ Streaming(i) /\ worker' = [worker EXCEPT ![i] = v]
      /\ UNCHANGED <<safe, truth, pc, merged, draft, output, partDir>>
  BY DEF WorkerFails, CallInv, TypeOK
<1>2. w \in WorkerRecords /\ Sound(w, i)
  BY EveryWorkerSound
<1>3. v \in WorkerRecords /\ v.phase = "failed" /\ v.pending = w.pending /\ v.cursor = w.cursor
  BY <1>2 DEF WorkerRecords
<1>4. Sound(v, i)
  BY <1>2, <1>3 DEF Sound
<1> HIDE DEF v
<1>5. QED
  BY <1>1, <1>3, <1>4, WorkerMoves DEF Streaming

-----------------------------------------------------------------------------
(* The start.                                                              *)

LEMMA WorkerStarts ==
    ASSUME NEW i \in Workers, NEW w,
           w = [phase |-> "streaming", cursor |-> FirstRead(i), pending |-> {}, seen |-> {},
                startCut |-> IF IsFirst(i) THEN 0 ELSE NoCut, startReport |-> {},
                endReport |-> {}, copies |-> Nowhere, kept |-> {}],
           safe => truth \subseteq Spans_
    PROVE  Sound(w, i) /\ w \in WorkerRecords
<1>1. /\ FirstRead(i) \in Nat /\ LastRead(i) \in Nat /\ FirstRead(i) <= SeamStart(i)
      /\ SeamStart(i) <= SeamEnd(i) /\ SeamEnd(i) <= LastRead(i) /\ LastRead(i) <= TextLen
      /\ SeamStart(i) \in Nat /\ SeamEnd(i) \in Nat /\ TextLen \in Nat
      /\ IsFirst(i) => SeamStart(i) = 0 /\ FirstRead(i) = 0
  BY Plan, Pads, ParallelAssumption
<1>2. /\ w.phase = "streaming" /\ w.cursor = FirstRead(i) /\ w.pending = {} /\ w.seen = {}
      /\ w.startCut = IF IsFirst(i) THEN 0 ELSE NoCut
      /\ w.startReport = {} /\ w.endReport = {} /\ w.copies = Nowhere /\ w.kept = {}
  OBVIOUS
<1>3. \A c \in Characters : Nowhere[c] = 0
  BY DEF Nowhere, Characters
<1>4. w \in WorkerRecords
  <2>1. Nowhere \in [Characters -> Nat]
    BY DEF Nowhere, Characters
  <2>2. FirstRead(i) \in 0 .. TextLen /\ 0 \in 0 .. TextLen
    BY <1>1
  <2>3. QED
    BY <2>1, <2>2 DEF WorkerRecords
<1>5. Bookkeeping(w, i)
  <2>1. PairwiseDisjoint({})
    BY DEF PairwiseDisjoint
  <2>2. CutAt({}, SeamStart(i)) = SeamStart(i)
    BY DEF CutAt, Straddler
  <2>3. FirstRead(i) \in FirstRead(i) .. LastRead(i)
    BY <1>1
  <2>4. QED
    BY <1>1, <1>2, <2>1, <2>2, <2>3 DEF Bookkeeping, NoCut
<1>6. TextSoFar(w, i)
  <2>1. CASE IsFirst(i)
    <3>1. w.cursor = 0 /\ w.startCut = 0 /\ w.startCut # NoCut
      BY <1>1, <1>2, <2>1 DEF NoCut
    <3>2. \A c \in Characters :
             w.copies[c] = IF w.startCut <= c /\ c < w.cursor /\ ~HeldBack(w, c) THEN 1 ELSE 0
      BY <1>2, <1>3, <3>1 DEF Characters
    <3>3. FirstRead(i) .. w.cursor - 1 = {}
      BY <1>1, <2>1, <3>1
    <3>4. QED
      BY <1>2, <3>1, <3>2, <3>3 DEF TextSoFar
  <2>2. CASE ~IsFirst(i)
    <3>1. w.startCut = NoCut
      BY <1>2, <2>2
    <3>2. FirstRead(i) .. w.cursor - 1 = {}
      BY <1>1, <1>2
    <3>3. QED
      BY <1>2, <3>1, <3>2 DEF TextSoFar
  <2>3. QED
    BY <2>1, <2>2
<1>7. safe => ShownSoFar(w, i)
  <2> SUFFICES ASSUME safe PROVE ShownSoFar(w, i)
    OBVIOUS
  <2>1. \A t \in truth : t.start \in Nat /\ t.end \in Nat /\ t.start < t.end
    BY DEF Spans_, SpansIn
  <2>2. CutsNone(i, w.cursor)
    BY <1>1, <1>2, <2>1 DEF CutsNone, Straddles
  <2>3. SpansIn(FirstRead(i), w.cursor) = {}
    BY <1>1, <1>2 DEF SpansIn
  <2>4. w.startCut # NoCut =>
           /\ w.startReport = Straddler(truth, SeamStart(i))
           /\ w.kept = {t \in truth : /\ w.startCut <= t.start /\ t.start < w.cursor
                                      /\ ~HeldBack(w, t.start)}
    <3> SUFFICES ASSUME w.startCut # NoCut
                 PROVE  /\ Straddler(truth, SeamStart(i)) = {}
                        /\ {t \in truth : /\ w.startCut <= t.start /\ t.start < w.cursor
                                          /\ ~HeldBack(w, t.start)} = {}
      BY <1>2
    <3>1. SeamStart(i) = 0 /\ w.cursor = 0
      BY <1>1, <1>2
    <3>2. QED
      BY <2>1, <3>1 DEF Straddler, Straddles
  <2>5. QED
    BY <1>2, <2>2, <2>3, <2>4 DEF ShownSoFar
<1>8. QED
  BY <1>2, <1>4, <1>5, <1>6, <1>7 DEF Sound, HoldbackBounded

LEMMA CallStarts == ParallelInit => CallInv
<1> SUFFICES ASSUME ParallelInit PROVE CallInv
  OBVIOUS
<1>1. /\ safe \in Guarantees /\ truth \subseteq Spans_
      /\ safe => PairwiseDisjoint(truth) /\ \A t \in truth : Size(t) <= MaxSpan
  <2>1. safe => truth \in Documents
    BY DEF ParallelInit
  <2>2. ~safe => truth = {}
    BY DEF ParallelInit
  <2>3. QED
    BY <2>1, <2>2, ParallelAssumption DEF ParallelInit, Spans_
<1>2. ASSUME NEW i \in Workers
      PROVE  Sound(worker[i], i) /\ worker[i] \in WorkerRecords /\ worker[i].phase = "streaming"
  <2>1. worker[i] = [phase |-> "streaming", cursor |-> FirstRead(i), pending |-> {}, seen |-> {},
                     startCut |-> IF IsFirst(i) THEN 0 ELSE NoCut, startReport |-> {},
                     endReport |-> {}, copies |-> Nowhere, kept |-> {}]
    BY DEF ParallelInit
  <2>2. worker[i].phase = "streaming"
    BY <2>1
  <2>3. QED
    BY <1>1, <2>1, <2>2, WorkerStarts
<1>3. Len(seams) \in Nat /\ Len(seams) >= 2
  BY ParallelAssumption
<1>4. TypeOK
  <2>1. worker \in [Workers -> WorkerRecords]
    <3>1. DOMAIN worker = Workers /\ worker = [i \in Workers |-> worker[i]]
      BY DEF ParallelInit
    <3>2. QED
      BY <1>2, <3>1
  <2>2. QED
    BY <1>1, <1>3, <2>1 DEF TypeOK, ParallelInit
<1>5. WorkersInv /\ HoldbackBounded
  BY <1>1, <1>2 DEF WorkersInv, HoldbackBounded, Sound
<1>6. CallerInv /\ EveryCharacterOnce /\ ParallelIsSequential
  <2>1. /\ pc = (IF Len(seams) < 3 THEN "sequential" ELSE "pool")
        /\ merged = 0 /\ draft = None /\ output = None /\ partDir = (Len(seams) >= 3)
    BY DEF ParallelInit
  <2>2. /\ pc \in {"sequential", "pool"} /\ (pc = "pool" => Len(seams) >= 3)
        /\ (pc = "sequential" => ~(Len(seams) >= 3))
    BY <1>3, <2>1
  <2>3. Len(seams) >= 3 => partDir
    BY <2>1, Zenon
  <2>4. QED
    BY <2>1, <2>2, <2>3 DEF CallerInv, EveryCharacterOnce, ParallelIsSequential
<1>7. CleanedUp
  BY <1>3 DEF ParallelInit, CleanedUp
<1>8. QED
  BY <1>4, <1>5, <1>6, <1>7 DEF CallInv

-----------------------------------------------------------------------------
(* The caller.                                                             *)

\* A set of natural numbers has a least one.
LEMMA LeastNatural ==
    ASSUME NEW T \in SUBSET Nat, T # {}
    PROVE  \E m \in T : \A n \in T : m <= n
<1> DEFINE F == {0 .. n : n \in T}
<1>1. F \subseteq FiniteSubsetsOf(Nat) /\ F # {}
  <2>1. \A n \in T : 0 .. n \subseteq Nat /\ IsFiniteSet(0 .. n)
    BY FS_Interval
  <2>2. QED
    BY <2>1 DEF FiniteSubsetsOf
<1>2. PICK x \in F : \A y \in F : ~(<<y, x>> \in StrictSubsetOrdering(Nat))
  BY <1>1, WFMin, FS_StrictSubsetOrderingWellFounded
<1>3. PICK m \in T : x = 0 .. m
  BY <1>2
<1>4. ASSUME NEW n \in T PROVE m <= n
  <2>1. SUFFICES ASSUME n < m PROVE FALSE
    OBVIOUS
  <2>2. 0 .. n \subseteq 0 .. m /\ 0 .. n # 0 .. m
    <3>1. m \in 0 .. m /\ m \notin 0 .. n
      BY <2>1
    <3>2. QED
      BY <2>1, <3>1
  <2>3. <<0 .. n, x>> \in StrictSubsetOrdering(Nat)
    BY <1>3, <2>2 DEF StrictSubsetOrdering
  <2>4. QED
    BY <1>2, <2>3
<1>5. QED
  BY <1>4

\* Once every worker is done and neighbours agree, each part begins where the
\* one before it ends.
LEMMA PartsMeet ==
    ASSUME CallInv, SeamsAgree, \A i \in Workers : worker[i].phase = "done", NEW i \in Workers
    PROVE  /\ worker[i].startCut \in Nat /\ EndCut(worker[i], i) \in Nat
           /\ worker[i].startCut <= EndCut(worker[i], i) /\ EndCut(worker[i], i) <= TextLen
           /\ i = 1 => worker[i].startCut = 0
           /\ i # 1 => i - 1 \in Workers /\ worker[i].startCut = EndCut(worker[i - 1], i - 1)
           /\ IsLast(i) => EndCut(worker[i], i) = TextLen
<1> DEFINE w == worker[i]
<1>1. TextDone(w, i) /\ w \in WorkerRecords
  BY EveryWorkerSound DEF Sound
<1>2. /\ i \in Nat /\ SeamStart(i) \in Nat /\ SeamEnd(i) \in Nat /\ TextLen \in Nat
      /\ IsFirst(i) => SeamStart(i) = 0
      /\ IsLast(i) => SeamEnd(i) = TextLen
      /\ ~IsFirst(i) => i - 1 \in Workers /\ SeamEnd(i - 1) = SeamStart(i)
  BY Plan, ParallelAssumption
<1>3. w.startCut \in Nat /\ w.startCut <= EndCut(w, i) /\ EndCut(w, i) <= TextLen
  BY <1>1, <1>2 DEF TextDone, WorkerRecords, NoCut
<1>4. EndCut(w, i) \in Nat
  <2>1. w.endReport \in SUBSET Spans_
    BY <1>1 DEF WorkerRecords
  <2>2. CASE Straddler(w.endReport, SeamEnd(i)) = {}
    BY <1>2, <2>2 DEF EndCut, CutAt
  <2>3. CASE Straddler(w.endReport, SeamEnd(i)) # {}
    <3>1. (CHOOSE d \in Straddler(w.endReport, SeamEnd(i)) : TRUE) \in w.endReport
      BY <2>3 DEF Straddler
    <3>2. \A d \in Spans_ : d.end \in Nat
      BY DEF Spans_, SpansIn
    <3>3. QED
      BY <2>1, <2>3, <3>1, <3>2 DEF EndCut, CutAt
  <2>4. QED
    BY <2>2, <2>3
<1>5. i = 1 => w.startCut = 0
  <2> SUFFICES ASSUME i = 1 PROVE w.startCut = 0
    OBVIOUS
  <2>1. SeamStart(i) = 0
    BY <1>2 DEF IsFirst
  <2>2. \A d \in w.startReport : ~(d.start < 0)
    BY <1>1 DEF WorkerRecords, Spans_, SpansIn
  <2>3. Straddler(w.startReport, SeamStart(i)) = {}
    BY <2>1, <2>2 DEF Straddler, Straddles
  <2>4. QED
    BY <1>1, <2>1, <2>3 DEF TextDone, CutAt
<1>6. i # 1 => i - 1 \in Workers /\ w.startCut = EndCut(worker[i - 1], i - 1)
  <2> SUFFICES ASSUME i # 1
               PROVE  i - 1 \in Workers /\ w.startCut = EndCut(worker[i - 1], i - 1)
    OBVIOUS
  <2>1. i - 1 \in Workers /\ SeamEnd(i - 1) = SeamStart(i) /\ ~IsLast(i - 1) /\ i - 1 + 1 = i
    BY <1>2, ParallelAssumption DEF IsFirst, IsLast, Workers
  <2>2. worker[i - 1].endReport = w.startReport
    BY <2>1 DEF SeamsAgree
  <2>3. QED
    BY <1>1, <2>1, <2>2 DEF TextDone, EndCut
<1>7. IsLast(i) => EndCut(w, i) = TextLen
  <2>1. IsLast(i) => w.endReport = {}
    BY <1>1 DEF TextDone
  <2>2. CutAt({}, SeamEnd(i)) = SeamEnd(i)
    BY DEF CutAt, Straddler
  <2>3. QED
    BY <1>2, <2>1, <2>2 DEF EndCut
<1>8. QED
  BY <1>3, <1>4, <1>5, <1>6, <1>7

\* So they are in the order of the file: the least worker after i whose part
\* began before the end of part i would follow one that does not.
LEMMA PartsAscend ==
    ASSUME CallInv, SeamsAgree, \A i \in Workers : worker[i].phase = "done",
           NEW i \in Workers, NEW j \in Workers, i < j
    PROVE  EndCut(worker[i], i) <= worker[j].startCut
<1> DEFINE Late == {k \in Workers : i < k /\ ~(EndCut(worker[i], i) <= worker[k].startCut)}
<1>1. Workers \subseteq Nat
  BY ParallelAssumption DEF Workers
<1>2. SUFFICES ASSUME Late # {} PROVE FALSE
  OBVIOUS
<1>3. PICK k \in Late : \A n \in Late : k <= n
  BY <1>1, <1>2, LeastNatural
<1>4. k \in Workers /\ i < k /\ k \in Nat /\ i \in Nat /\ ~(EndCut(worker[i], i) <= worker[k].startCut)
  BY <1>1, <1>3
<1>5. k # 1
  BY <1>4, ParallelAssumption DEF Workers
<1>6. k - 1 \in Workers /\ worker[k].startCut = EndCut(worker[k - 1], k - 1)
  BY <1>4, <1>5, PartsMeet
<1>7. /\ worker[k - 1].startCut \in Nat /\ EndCut(worker[k - 1], k - 1) \in Nat
      /\ worker[k - 1].startCut <= EndCut(worker[k - 1], k - 1) /\ EndCut(worker[i], i) \in Nat
  BY <1>6, PartsMeet
<1>8. CASE k - 1 = i
  BY <1>4, <1>6, <1>7, <1>8
<1>9. CASE k - 1 # i
  <2>1. i < k - 1 /\ k - 1 \notin Late
    BY <1>3, <1>4, <1>9
  <2>2. EndCut(worker[i], i) <= worker[k - 1].startCut
    BY <1>6, <2>1
  <2>3. QED
    BY <1>4, <1>6, <1>7, <2>2
<1>10. QED
  BY <1>8, <1>9

LEMMA PartsInOrder ==
    ASSUME CallInv, SeamsAgree, \A i \in Workers : worker[i].phase = "done",
           NEW i \in Workers, NEW j \in Workers, i < j,
           NEW b \in Characters, NEW c \in Characters,
           worker[i].copies[b] > 0, worker[j].copies[c] > 0
    PROVE  b < c
<1>1. TextDone(worker[i], i) /\ TextDone(worker[j], j)
  BY EveryWorkerSound DEF Sound
<1>2. b < EndCut(worker[i], i) /\ worker[j].startCut <= c
  BY <1>1 DEF TextDone
<1>3. EndCut(worker[i], i) <= worker[j].startCut
  BY PartsAscend
<1>4. EndCut(worker[i], i) \in Nat /\ worker[j].startCut \in Nat /\ b \in Int /\ c \in Int
  BY PartsMeet, ParallelAssumption DEF Characters
<1>5. QED
  BY <1>2, <1>3, <1>4

\* No reference detection lies across the place where a part begins.
LEMMA NoneAcrossCut ==
    ASSUME Guaranteed, NEW i \in Workers, NEW t \in truth
    PROVE  ~Straddles(t, CutAt(Straddler(truth, SeamStart(i)), SeamStart(i)))
<1>1. truth \in SUBSET SpansIn(0, TextLen) /\ PairwiseDisjoint(truth) /\ TextLen \in Int
      /\ SeamStart(i) \in Int
  BY Plan, ParallelAssumption DEF Guaranteed, Spans_
<1>2. CutAt(Straddler(truth, SeamStart(i)), SeamStart(i)) = CutAt(truth, SeamStart(i))
  BY StraddlerTwice, CutOfStraddlers
<1>3. \/ Straddler(truth, SeamStart(i)) = {} /\ CutAt(truth, SeamStart(i)) = SeamStart(i)
      \/ \E d \in truth : /\ CutAt(truth, SeamStart(i)) = d.end
                          /\ d.start < SeamStart(i) /\ SeamStart(i) < d.end
  BY <1>1, CutAtValue
<1>4. CASE Straddler(truth, SeamStart(i)) = {} /\ CutAt(truth, SeamStart(i)) = SeamStart(i)
  BY <1>2, <1>4 DEF Straddler
<1>5. ASSUME NEW d \in truth, CutAt(truth, SeamStart(i)) = d.end,
             d.start < SeamStart(i), SeamStart(i) < d.end
      PROVE  ~Straddles(t, d.end)
  <2>1. /\ d.start \in Int /\ d.end \in Int /\ t.start \in Int /\ t.end \in Int
        /\ d.start < d.end
    BY <1>1 DEF SpansIn
  <2>2. SUFFICES ASSUME t.start < d.end, d.end < t.end PROVE FALSE
    BY DEF Straddles
  <2>3. t # d /\ Overlap2(t, d)
    BY <2>1, <2>2 DEF Overlap2
  <2>4. QED
    BY <1>1, <2>3 DEF PairwiseDisjoint
<1>6. QED
  BY <1>2, <1>3, <1>4, <1>5

LEMMA WorkersUntouched ==
    ASSUME CallInv, UNCHANGED <<safe, truth, worker>>
    PROVE  /\ WorkersInv' /\ HoldbackBounded'
           /\ (safe \in Guarantees /\ truth \subseteq Spans_ /\ worker \in [Workers -> WorkerRecords])'
<1>1. \A i \in Workers : Sound(worker[i], i)'
  BY EveryWorkerSound, SoundStays
<1>2. (safe => PairwiseDisjoint(truth) /\ \A t \in truth : Size(t) <= MaxSpan)'
  BY DEF CallInv, WorkersInv
<1>3. QED
  BY <1>1, <1>2 DEF WorkersInv, HoldbackBounded, Sound, CallInv, TypeOK

LEMMA CollectKeepsInv ==
    ASSUME CallInv, Collect
    PROVE  CallInv'
<1>1. /\ pc = "pool" /\ partDir = TRUE /\ merged = 0 /\ draft = None /\ output = None
      /\ UNCHANGED <<safe, truth, worker, merged, output>>
      /\ \A i \in Workers : worker[i].phase # "streaming"
  BY DEF Collect, CallInv, CallerInv, TypeOK
<1>2. /\ WorkersInv' /\ HoldbackBounded'
      /\ (safe \in Guarantees /\ truth \subseteq Spans_ /\ worker \in [Workers -> WorkerRecords])'
  BY <1>1, WorkersUntouched
<1>3. \A i \in Workers : worker'[i].phase # "streaming"
  BY <1>1
<1>4. CASE pc' = "failed" /\ partDir' = FALSE /\ UNCHANGED draft
  <2>1. TypeOK'
    BY <1>1, <1>2, <1>4 DEF CallInv, TypeOK
  <2>2. CallerInv' /\ EveryCharacterOnce' /\ ParallelIsSequential' /\ CleanedUp'
    BY <1>1, <1>3, <1>4 DEF CallerInv, EveryCharacterOnce, ParallelIsSequential, CleanedUp
  <2>3. QED
    BY <1>2, <2>1, <2>2 DEF CallInv
<1>5. CASE pc' = "sequential" /\ UNCHANGED <<partDir, draft>>
  <2>1. TypeOK'
    BY <1>1, <1>2, <1>5 DEF CallInv, TypeOK
  <2>2. CallerInv' /\ EveryCharacterOnce' /\ ParallelIsSequential' /\ CleanedUp'
    BY <1>1, <1>3, <1>5 DEF CallerInv, EveryCharacterOnce, ParallelIsSequential, CleanedUp
  <2>3. QED
    BY <1>2, <2>1, <2>2 DEF CallInv
<1>6. CASE /\ SeamsAgree /\ \A i \in Workers : worker[i].phase = "done"
           /\ pc' = "assembling" /\ draft' = [copies |-> Nowhere, shown |-> {}] /\ UNCHANGED partDir
  <2>1. TypeOK'
    BY <1>1, <1>2, <1>6 DEF CallInv, TypeOK
  <2>2. SeamsAgree' /\ \A i \in Workers : worker'[i].phase = "done"
    BY <1>1, <1>6 DEF SeamsAgree
  <2>3. Assembled(merged)' = 0
    BY <1>1 DEF Assembled
  <2>4. Nowhere = [c \in Characters |-> IF c < 0 THEN 1 ELSE 0]
    BY ParallelAssumption DEF Nowhere, Characters
  <2>5. safe => {t \in truth : t.end <= 0} = {}
    <3>1. \A t \in Spans_ : ~(t.end <= 0)
      BY ParallelAssumption DEF Spans_, SpansIn
    <3>2. QED
      BY <3>1 DEF CallInv, TypeOK
  <2>6. draft' = [copies |-> [c \in Characters |-> IF c < Assembled(merged)' THEN 1 ELSE 0],
                  shown |-> draft'.shown]
    BY <1>6, <2>3, <2>4
  <2>7. safe' => draft'.shown = {t \in truth' : t.end <= Assembled(merged)'}
    BY <1>1, <1>6, <2>3, <2>5
  <2>8. CallerInv'
    BY <1>1, <1>6, <2>2, <2>6, <2>7 DEF CallerInv
  <2>9. EveryCharacterOnce'
    <3>1. \A i, j \in Workers : i < j =>
             \A b, c \in Characters :
                worker[i].copies[b] > 0 /\ worker[j].copies[c] > 0 => b < c
      BY <1>6, PartsInOrder
    <3>2. QED
      BY <1>1, <3>1 DEF EveryCharacterOnce
  <2>10. ParallelIsSequential' /\ CleanedUp'
    BY <1>1, <1>3, <1>6 DEF ParallelIsSequential, CleanedUp
  <2>11. QED
    BY <1>2, <2>1, <2>8, <2>9, <2>10 DEF CallInv
<1>7. \A i \in Workers : worker[i].phase \in {"done", "failed", "streaming"}
  BY DEF CallInv, TypeOK, WorkerRecords
<1>8. QED
  BY <1>1, <1>4, <1>5, <1>6, <1>7 DEF Collect

LEMMA SequentialKeepsInv ==
    ASSUME CallInv, Sequential
    PROVE  CallInv'
<1>1. /\ pc = "sequential" /\ pc' = "done" /\ partDir' = FALSE /\ draft = None
      /\ UNCHANGED <<safe, truth, worker, merged, draft>>
      /\ Len(seams) >= 3 => \A i \in Workers : worker[i].phase # "streaming"
  BY DEF Sequential, CallInv, CallerInv
<1>2. /\ WorkersInv' /\ HoldbackBounded'
      /\ (safe \in Guarantees /\ truth \subseteq Spans_ /\ worker \in [Workers -> WorkerRecords])'
  BY <1>1, WorkersUntouched
<1>3. PICK D : /\ output' = [copies |-> [c \in Characters |-> 1], shown |-> D]
               /\ safe => D = truth
  BY DEF Sequential, Characters
<1>4. TypeOK'
  BY <1>1, <1>2 DEF CallInv, TypeOK
<1>5. CallerInv' /\ CleanedUp'
  BY <1>1 DEF CallerInv, CleanedUp
<1>6. EveryCharacterOnce'
  BY <1>1, <1>3 DEF EveryCharacterOnce
<1>7. ParallelIsSequential'
  BY <1>1, <1>3 DEF ParallelIsSequential
<1>8. QED
  BY <1>2, <1>4, <1>5, <1>6, <1>7 DEF CallInv

LEMMA AppendPartKeepsInv ==
    ASSUME CallInv, AppendPart
    PROVE  CallInv'
<1> DEFINE k == merged + 1
           w == worker[k]
           upto == EndCut(w, k)
<1>1. /\ pc = "assembling" /\ SeamsAgree /\ partDir
      /\ \A i \in Workers : worker[i].phase = "done"
      /\ draft = [copies |-> [c \in Characters |-> IF c < Assembled(merged) THEN 1 ELSE 0],
                  shown |-> draft.shown]
      /\ safe => draft.shown = {t \in truth : t.end <= Assembled(merged)}
      /\ merged < Len(seams) - 1 /\ merged' = k
      /\ draft' = [copies |-> [c \in DOMAIN draft.copies |-> draft.copies[c] + w.copies[c]],
                   shown |-> draft.shown \cup w.kept]
      /\ UNCHANGED <<safe, truth, worker, pc, output, partDir>>
  BY DEF AppendPart, CallInv, CallerInv
<1>2. /\ WorkersInv' /\ HoldbackBounded'
      /\ (safe \in Guarantees /\ truth \subseteq Spans_ /\ worker \in [Workers -> WorkerRecords])'
  BY <1>1, WorkersUntouched
<1>3. merged \in Nat /\ k \in Workers /\ k # 0 /\ k - 1 = merged /\ k \in 0 .. Len(seams) - 1
  <2>1. merged \in 0 .. Len(seams) - 1 /\ merged < Len(seams) - 1
    BY <1>1 DEF CallInv, TypeOK
  <2>2. Len(seams) \in Nat
    BY ParallelAssumption
  <2>3. QED
    BY <2>1, <2>2 DEF Workers
<1>4. TextDone(w, k) /\ w \in WorkerRecords /\ (safe => ShownDone(w, k))
  BY <1>1, <1>3, EveryWorkerSound DEF Sound
<1>5. /\ w.startCut \in Nat /\ upto \in Nat /\ w.startCut <= upto
      /\ w.startCut = Assembled(merged)
  BY <1>1, <1>3, PartsMeet DEF Assembled
<1>6. Assembled(merged)' = upto
  BY <1>1, <1>3 DEF Assembled, EndCut
<1> HIDE DEF upto, w
<1>7. draft' = [copies |-> [c \in Characters |-> IF c < upto THEN 1 ELSE 0],
                shown |-> draft.shown \cup w.kept]
  <2>1. /\ DOMAIN draft.copies = Characters
        /\ \A c \in Characters : draft.copies[c] = IF c < w.startCut THEN 1 ELSE 0
    BY <1>1, <1>5
  <2>2. ASSUME NEW c \in Characters
        PROVE  draft.copies[c] + w.copies[c] = IF c < upto THEN 1 ELSE 0
    <3>1. w.copies[c] = IF w.startCut <= c /\ c < upto THEN 1 ELSE 0
      BY <1>4 DEF TextDone, upto
    <3>2. c \in Int
      BY ParallelAssumption DEF Characters
    <3>3. QED
      BY <1>5, <2>1, <3>1, <3>2
  <2>3. [c \in Characters |-> draft.copies[c] + w.copies[c]]
           = [c \in Characters |-> IF c < upto THEN 1 ELSE 0]
    BY <2>2
  <2>4. QED
    BY <1>1, <2>1, <2>3
<1>8. safe => draft.shown \cup w.kept = {t \in truth : t.end <= upto}
  <2> SUFFICES ASSUME safe PROVE draft.shown \cup w.kept = {t \in truth : t.end <= upto}
    OBVIOUS
  <2>1. Guaranteed
    BY SafeIsGuaranteed
  <2>2. w.kept = {t \in truth : w.startCut <= t.start /\ t.end <= upto}
    BY <1>4 DEF ShownDone, upto
  <2>3. draft.shown = {t \in truth : t.end <= w.startCut}
    BY <1>1, <1>5
  <2>4. ASSUME NEW t \in truth
        PROVE  /\ t.start \in Int /\ t.end \in Int
               /\ w.startCut <= t.start \/ t.end <= w.startCut
    <3>1. t.start \in Int /\ t.end \in Int
      BY <2>1 DEF Guaranteed, Spans_, SpansIn
    <3>2. ~Straddles(t, CutAt(Straddler(truth, SeamStart(k)), SeamStart(k)))
      BY <1>3, <2>1, NoneAcrossCut
    <3>3. w.startCut = CutAt(Straddler(truth, SeamStart(k)), SeamStart(k))
      BY <1>4 DEF TextDone, ShownDone
    <3>4. QED
      BY <1>5, <3>1, <3>2, <3>3 DEF Straddles
  <2>5. \A t \in truth : t \in draft.shown \cup w.kept <=> t.end <= upto
    BY <1>5, <2>2, <2>3, <2>4
  <2>6. QED
    BY <2>2, <2>3, <2>5
<1>9. TypeOK'
  BY <1>1, <1>2, <1>3 DEF CallInv, TypeOK
<1>10. CallerInv'
  <2>1. SeamsAgree' /\ \A i \in Workers : worker'[i].phase = "done"
    BY <1>1 DEF SeamsAgree
  <2>2. /\ draft' = [copies |-> [c \in Characters |-> IF c < Assembled(merged)' THEN 1 ELSE 0],
                     shown |-> draft'.shown]
        /\ safe' => draft'.shown = {t \in truth' : t.end <= Assembled(merged)'}
    <3>1. draft'.shown = draft.shown \cup w.kept
      BY <1>7
    <3>2. draft' = [copies |-> [c \in Characters |-> IF c < upto THEN 1 ELSE 0],
                    shown |-> draft'.shown]
      BY <1>7, <3>1
    <3>3. QED
      BY <1>1, <1>6, <1>8, <3>1, <3>2
  <2>3. output' # None => pc' = "done"
    BY <1>1 DEF CallInv, CallerInv
  <2>4. QED
    BY <1>1, <2>1, <2>2, <2>3 DEF CallerInv
<1>11. EveryCharacterOnce' /\ ParallelIsSequential'
  BY <1>1 DEF CallInv, EveryCharacterOnce, ParallelIsSequential
<1>12. CleanedUp'
  BY <1>1 DEF CallInv, CleanedUp
<1>13. QED
  BY <1>2, <1>9, <1>10, <1>11, <1>12 DEF CallInv

LEMMA PublishKeepsInv ==
    ASSUME CallInv, Publish
    PROVE  CallInv'
<1>1. /\ pc = "assembling" /\ SeamsAgree
      /\ \A i \in Workers : worker[i].phase = "done"
      /\ draft = [copies |-> [c \in Characters |-> IF c < Assembled(merged) THEN 1 ELSE 0],
                  shown |-> draft.shown]
      /\ safe => draft.shown = {t \in truth : t.end <= Assembled(merged)}
      /\ merged = Len(seams) - 1 /\ output' = draft /\ draft' = None
      /\ pc' = "done" /\ partDir' = FALSE
      /\ UNCHANGED <<safe, truth, worker, merged>>
  BY DEF Publish, CallInv, CallerInv
<1>2. /\ WorkersInv' /\ HoldbackBounded'
      /\ (safe \in Guarantees /\ truth \subseteq Spans_ /\ worker \in [Workers -> WorkerRecords])'
  BY <1>1, WorkersUntouched
<1>3. Assembled(merged) = TextLen
  <2>1. merged \in Workers /\ merged # 0 /\ IsLast(merged)
    BY <1>1, ParallelAssumption DEF Workers, IsLast
  <2>2. QED
    BY <1>1, <2>1, PartsMeet DEF Assembled
<1>4. TypeOK'
  BY <1>1, <1>2 DEF CallInv, TypeOK
<1>5. CallerInv' /\ CleanedUp'
  BY <1>1 DEF CallerInv, CleanedUp
<1>6. EveryCharacterOnce'
  <2>1. \A c \in Characters : draft.copies[c] = 1
    BY <1>1, <1>3, ParallelAssumption DEF Characters
  <2>2. QED
    BY <1>1, <2>1 DEF EveryCharacterOnce
<1>7. ParallelIsSequential'
  <2>1. \A t \in Spans_ : t.end <= TextLen
    BY ParallelAssumption DEF Spans_, SpansIn
  <2>2. safe => draft.shown = truth
    BY <1>1, <1>3, <2>1 DEF CallInv, TypeOK
  <2>3. QED
    BY <1>1, <2>2 DEF ParallelIsSequential
<1>8. QED
  BY <1>2, <1>4, <1>5, <1>6, <1>7 DEF CallInv

LEMMA OutputFailsKeepsInv ==
    ASSUME CallInv, OutputFails
    PROVE  CallInv'
<1>1. /\ pc \in {"sequential", "assembling"} /\ pc' = "failed" /\ partDir' = FALSE
      /\ draft' = None /\ output = None
      /\ UNCHANGED <<safe, truth, worker, merged, output>>
      /\ Len(seams) >= 3 => \A i \in Workers : worker[i].phase # "streaming"
  BY DEF OutputFails, CallInv, CallerInv
<1>2. /\ WorkersInv' /\ HoldbackBounded'
      /\ (safe \in Guarantees /\ truth \subseteq Spans_ /\ worker \in [Workers -> WorkerRecords])'
  BY <1>1, WorkersUntouched
<1>3. TypeOK'
  BY <1>1, <1>2 DEF CallInv, TypeOK
<1>4. CallerInv' /\ CleanedUp'
  BY <1>1 DEF CallerInv, CleanedUp
<1>5. EveryCharacterOnce' /\ ParallelIsSequential'
  BY <1>1 DEF EveryCharacterOnce, ParallelIsSequential
<1>6. QED
  BY <1>2, <1>3, <1>4, <1>5 DEF CallInv

LEMMA KilledKeepsInv ==
    ASSUME CallInv, Killed
    PROVE  CallInv'
<1>1. /\ pc \notin {"done", "failed", "killed"} /\ pc' = "killed" /\ output = None
      /\ UNCHANGED <<safe, truth, worker, merged, draft, output, partDir>>
  BY DEF Killed, CallInv, CallerInv
<1>2. /\ WorkersInv' /\ HoldbackBounded'
      /\ (safe \in Guarantees /\ truth \subseteq Spans_ /\ worker \in [Workers -> WorkerRecords])'
  BY <1>1, WorkersUntouched
<1>3. TypeOK'
  BY <1>1, <1>2 DEF CallInv, TypeOK
<1>4. CallerInv' /\ EveryCharacterOnce' /\ ParallelIsSequential'
  BY <1>1 DEF CallerInv, EveryCharacterOnce, ParallelIsSequential
<1>5. CleanedUp'
  BY <1>1 DEF CallInv, CleanedUp
<1>6. QED
  BY <1>2, <1>3, <1>4, <1>5 DEF CallInv

-----------------------------------------------------------------------------
(* The theorems.                                                           *)

LEMMA StepKeepsInv == CallInv /\ [Next]_vars => CallInv'
<1> SUFFICES ASSUME CallInv, [Next]_vars PROVE CallInv'
  OBVIOUS
<1>1. CASE \E i \in Workers : WorkerStep(i) \/ WorkerFails(i)
  <2>1. PICK i \in Workers : WorkerStep(i) \/ WorkerFails(i)
    BY <1>1
  <2>2. CASE \E p \in SegmentEnds : Segment(i, p)
    BY <2>2, SegmentKeepsInv
  <2>3. CASE LastSegment(i)
    BY <2>3, LastSegmentKeepsInv
  <2>4. CASE EndOfStream(i)
    BY <2>4, EndOfStreamKeepsInv
  <2>5. CASE WorkerFails(i)
    BY <2>5, WorkerFailsKeepsInv
  <2>6. QED
    BY <2>1, <2>2, <2>3, <2>4, <2>5 DEF WorkerStep
<1>2. CASE Collect
  BY <1>2, CollectKeepsInv
<1>3. CASE Sequential
  BY <1>3, SequentialKeepsInv
<1>4. CASE AppendPart
  BY <1>4, AppendPartKeepsInv
<1>5. CASE Publish
  BY <1>5, PublishKeepsInv
<1>6. CASE OutputFails
  BY <1>6, OutputFailsKeepsInv
<1>7. CASE Killed
  BY <1>7, KilledKeepsInv
<1>8. CASE UNCHANGED vars
  <2>1. UNCHANGED <<safe, truth, worker, pc, merged, draft, output, partDir>>
    BY <1>8 DEF vars
  <2>2. WorkersInv' /\ HoldbackBounded'
    BY <2>1, WorkersUntouched
  <2>3. TypeOK' /\ EveryCharacterOnce' /\ ParallelIsSequential' /\ CleanedUp'
    BY <2>1 DEF CallInv, TypeOK, EveryCharacterOnce, ParallelIsSequential, CleanedUp
  <2>4. CallerInv'
    BY <2>1 DEF CallInv, CallerInv, Assembled, EndCut, SeamsAgree
  <2>5. QED
    BY <2>2, <2>3, <2>4 DEF CallInv
<1>9. QED
  BY <1>1, <1>2, <1>3, <1>4, <1>5, <1>6, <1>7, <1>8 DEF Next

\* The inductive invariant of a call: typing, what each worker has written,
\* holds back and remembers, what the caller has assembled, the temporary files
\* it leaves (CleanedUp) and the text a worker may hold back (HoldbackBounded).
THEOREM CallInvariant == SafetySpec => []CallInv
<1>1. ParallelInit => CallInv
  BY CallStarts
<1>2. CallInv /\ [Next]_vars => CallInv'
  BY StepKeepsInv
<1>3. QED
  BY <1>1, <1>2, PTL DEF SafetySpec

\* Within the guarantee or not, for every plan of ranges, every overlap and
\* every interleaving: parts are assembled in the order of the text and the
\* published file has every character exactly once.
THEOREM ParallelKeepsText == SafetySpec => []EveryCharacterOnce
<1>1. CallInv => EveryCharacterOnce
  BY DEF CallInv
<1>2. QED
  BY <1>1, CallInvariant, PTL

\* Within the guarantee the parallel output redacts what the sequential pass
\* does, whatever the ranges, the segments and the order of the processes.
THEOREM ParallelAgreesWithSequential == SafetySpec => []ParallelIsSequential
<1>1. CallInv => ParallelIsSequential
  BY DEF CallInv
<1>2. QED
  BY <1>1, CallInvariant, PTL

\* Within the guarantee the seam valve never fires: two neighbours that have
\* finished name the same entity across their seam, the one of the reference.
THEOREM SeamValveStaysShut == SafetySpec => []NeighboursAgree
<1>1. ASSUME CallInv PROVE NeighboursAgree
  <2> SUFFICES ASSUME safe, NEW i \in Workers, ~IsLast(i),
                      worker[i].phase = "done", worker[i + 1].phase = "done"
               PROVE  /\ worker[i].endReport = worker[i + 1].startReport
                      /\ worker[i].endReport = Straddler(truth, SeamEnd(i))
    BY DEF NeighboursAgree
  <2>1. i + 1 \in Workers /\ SeamStart(i + 1) = SeamEnd(i)
    BY Plan
  <2>2. ShownDone(worker[i], i) /\ ShownDone(worker[i + 1], i + 1)
    BY <1>1, <2>1, EveryWorkerSound DEF Sound
  <2>3. QED
    BY <2>1, <2>2 DEF ShownDone
<1>2. QED
  BY <1>1, CallInvariant, PTL

\* The output path changes at most once, in the step after which the call
\* reports success: no worker, failure or kill leaves part of an output there.
THEOREM OutputReplacedWhole == SafetySpec => ReplacedWhole
<1>1. ASSUME CallInv, [Next]_vars, output # output'
      PROVE  output = None /\ pc' = "done"
  <2>1. output # None => pc = "done"
    BY <1>1 DEF CallInv, CallerInv
  <2>2. CASE Sequential
    BY <2>1, <2>2 DEF Sequential
  <2>3. CASE Publish
    BY <2>1, <2>3 DEF Publish
  <2>4. CASE \E i \in Workers : WorkerStep(i) \/ WorkerFails(i)
    BY <1>1, <2>4 DEF WorkerStep, Segment, LastSegment, EndOfStream, WorkerFails
  <2>5. QED
    BY <1>1, <2>2, <2>3, <2>4 DEF Next, vars, Collect, AppendPart, OutputFails, Killed
<1>2. CallInv /\ [Next]_vars => [output # output' => output = None /\ pc' = "done"]_vars
  BY <1>1
<1>3. QED
  BY <1>2, CallInvariant, PTL DEF SafetySpec, ReplacedWhole
=============================================================================
