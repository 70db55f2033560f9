---------------------------- MODULE Arbitration ----------------------------
(***************************************************************************)
(* entities.resolve_overlaps: what is left of everything the tiers found. *)
(* Tier-0 detections resolve among themselves best first; then every run  *)
(* of overlapping spans that holds a name-tier (NER) span becomes one     *)
(* span over the whole run.                                                *)
(*                                                                         *)
(* The function is modelled as its two loops, one step per candidate, so  *)
(* that what holds half way through them can be stated.  A detection is   *)
(* its span, its confidence and its tier; the entity type and the text    *)
(* follow the detection that names the merged span.                       *)
(***************************************************************************)
EXTENDS Spans, FiniteSetsExt

CONSTANTS
    Texts,      \* what the tiers report for a text: sets of records with
                \* start, end, confidence and ner
    Window,     \* a window of the text, for FormalModelA2
    Context     \* how far from its edges a verdict should be settled

Detection == [start : Nat, end : Nat, confidence : Nat, ner : BOOLEAN]

\* What the detectors may report: finitely many, none empty.
Reportable(T) == IsFiniteSet(T) /\ \A d \in T : d \in Detection /\ d.start < d.end

ASSUME TextsAssumption == \A T \in Texts : Reportable(T)

VARIABLES
    raw,        \* the detections passed in
    phase,      \* "greedy", "merge" or "done"
    todo,       \* candidates the loop has not reached
    kept,       \* _greedy's kept
    cluster,    \* the run being collected
    merged      \* the spans resolved

vars == <<raw, phase, todo, kept, cluster, merged>>

Ner(S) == {d \in S : d.ner}
Tier0(S) == {d \in S : ~d.ner}

\* The sort key (-confidence, start - end, start).
Better(d, e) ==
    \/ d.confidence > e.confidence
    \/ d.confidence = e.confidence /\ Size(d) > Size(e)
    \/ d.confidence = e.confidence /\ Size(d) = Size(e) /\ d.start < e.start

\* (start, end) in lexicographic order.
Before(k, j) == k.start < j.start \/ (k.start = j.start /\ k.end <= j.end)

Blocked_Touching(c) ==
    \E k \in kept :
        /\ k.start < c.end
        /\ \A j \in kept : j.start < c.end => Before(j, k)
        /\ k.end >= c.start

\* The bisection: of the kept spans only the last one that starts before the
\* candidate ends is looked at.
Blocked(c) ==
    \E k \in kept :
        /\ k.start < c.end
        /\ \A j \in kept : j.start < c.end => Before(j, k)
        /\ k.end > c.start

ArbitrationInit ==
    /\ raw \in Texts
    /\ phase = "greedy"
    /\ todo = Tier0(raw)
    /\ kept = {} /\ cluster = {} /\ merged = {}

\* One turn of _greedy's loop.
Consider ==
    /\ phase = "greedy"
    /\ \E c \in todo :
         /\ \A d \in todo : ~Better(d, c)
         /\ todo' = todo \ {c}
         /\ kept' = IF Blocked(c) THEN kept ELSE kept \cup {c}
    /\ UNCHANGED <<raw, phase, cluster, merged>>

GreedyDone ==
    /\ phase = "greedy" /\ todo = {}
    /\ IF Ner(raw) = {}
       THEN phase' = "done" /\ merged' = kept /\ UNCHANGED todo
       ELSE phase' = "merge" /\ todo' = kept \cup Ner(raw) /\ UNCHANGED merged
    /\ UNCHANGED <<raw, kept, cluster>>

FirstStart(S) == Min({d.start : d \in S})
LastEnd(S) == Max({d.end : d \in S})

Span(S, end, best) ==
    [start |-> FirstStart(S), end |-> end, confidence |-> best.confidence, ner |-> best.ner]

\* max by (confidence, length)
Strongest(S) ==
    CHOOSE d \in S : \A e \in S :
        d.confidence > e.confidence \/ (d.confidence = e.confidence /\ Size(d) >= Size(e))

LastStarted(S) == CHOOSE d \in S : \A e \in S : d.start >= e.start

Namers(S) == IF Tier0(S) # {} THEN Tier0(S) ELSE S

Union_EndsWithLast(S) == Span(S, LastStarted(S).end, Strongest(Namers(S)))

\* _union: the span over the run, named by its best Tier-0 member or, with
\* none, its best member.
Union(S) == Span(S, LastEnd(S), Strongest(Namers(S)))

Joins_LastEnd(d) ==
    cluster = {} \/ d.start < LastStarted(cluster).end

Joins_Touching(d) == cluster = {} \/ d.start <= LastEnd(cluster)

\* A span joins the run unless it starts at or after its end.
Joins(d) == cluster = {} \/ d.start < LastEnd(cluster)

\* One turn of the clustering loop, in order of start.
Collect ==
    /\ phase = "merge"
    /\ \E d \in todo :
         /\ \A e \in todo : d.start <= e.start
         /\ todo' = todo \ {d}
         /\ IF Joins(d)
            THEN cluster' = cluster \cup {d} /\ UNCHANGED merged
            ELSE cluster' = {d} /\ merged' = merged \cup {Union(cluster)}
    /\ UNCHANGED <<raw, phase, kept>>

MergeDone ==
    /\ phase = "merge" /\ todo = {}
    /\ merged' = IF cluster = {} THEN merged ELSE merged \cup {Union(cluster)}
    /\ phase' = "done"
    /\ UNCHANGED <<raw, todo, kept, cluster>>

Next == Consider \/ GreedyDone \/ Collect \/ MergeDone

Spec == ArbitrationInit /\ [][Next]_vars

----------------------------------------------------------------------------
(* Properties.                                                             *)

\* The loops hold what the code can store in them.
TypeOK ==
    /\ Reportable(raw)
    /\ phase \in {"greedy", "merge", "done"}
    /\ kept \subseteq Tier0(raw) /\ cluster \subseteq kept \cup Ner(raw)
    /\ todo \subseteq IF phase = "greedy" THEN Tier0(raw) ELSE kept \cup Ner(raw)
    /\ Reportable(merged)

Covers(S, p) == \E d \in S : d.start <= p /\ p < d.end
SameCover(S, T) == \A p \in UNION {d.start .. d.end - 1 : d \in S \cup T} : Covers(S, p) = Covers(T, p)

\* No two Tier-0 spans kept overlap, although each candidate is compared
\* with one kept span only (the bisection of _greedy).
KeptDisjoint == PairwiseDisjoint(kept)

\* A Tier-0 candidate is dropped only for a kept one that overlaps it and is
\* at least as good: nothing already beaten beats another.
DroppedForBetter ==
    \A c \in Tier0(raw) \ (todo \cup kept) : phase = "greedy" =>
        \E k \in kept : Overlap2(k, c) /\ ~Better(c, k)

\* The result is disjoint: what the policy's renderer and the engine rely on.
ResultDisjoint == PairwiseDisjoint(merged)

\* Merging exposes no character and hides none: the result covers exactly
\* what the kept Tier-0 spans and the NER spans cover.
NothingExposed == phase = "done" => SameCover(merged, kept \cup Ner(raw))

----------------------------------------------------------------------------
(* The resolution as a function, for claims about two texts at once.       *)

\* The kept set is the only one that keeps exactly the candidates no better
\* kept one overlaps.
Chosen(S) ==
    CHOOSE K \in SUBSET Tier0(S) :
        \A c \in Tier0(S) : c \in K <=> ~\E k \in K : k # c /\ Overlap2(k, c) /\ Better(k, c)

\* The spans of the result, from the characters covered.
ResolvedSpans(S) ==
    LET base == Chosen(S) \cup Ner(S)
        \* one run: some span holds every two neighbouring characters
        Linked(d) == {e \in base :
            \A p \in Smaller(d.start, e.start) .. Larger(d.end, e.end) - 2 :
                \E f \in base : f.start <= p /\ p + 1 < f.end}
    IN {[start |-> FirstStart(Linked(d)), end |-> LastEnd(Linked(d))] : d \in base}

\* The loops compute that function, whatever the order of ties, and name a
\* span that holds a Tier-0 detection after one.
IsTheFunction ==
    phase = "done" =>
        /\ {[start |-> m.start, end |-> m.end] : m \in merged} = ResolvedSpans(raw)
        /\ \A m \in merged, k \in kept : Overlap2(m, k) => ~m.ner

\* What is resolved or passes on to the second loop.
Base == kept \cup Ner(raw)
Crossed(p) == \E f \in Base : Straddles(f, p)

\* A span of the result: spans of the base hold together every two of its
\* neighbouring characters and none reaches beyond it, it starts and ends with
\* one, and a Tier-0 span in it has named it.
IsRun(m) ==
    /\ \A p \in m.start + 1 .. m.end - 1 : Crossed(p)
    /\ ~Crossed(m.start) /\ ~Crossed(m.end)
    /\ \E d \in Base : d.start = m.start /\ d.end <= m.end
    /\ \E d \in Base : m.start <= d.start /\ d.end = m.end
    /\ \A k \in kept : Overlap2(m, k) => ~m.ner

\* Why IsTheFunction: the first loop has kept what Chosen says, the second one
\* leaves runs behind it and collects one.
RunsInv == phase \in {"merge", "done"} =>
    /\ kept = Chosen(raw)
    /\ \A m \in merged : IsRun(m)
    /\ \A d \in Base :
         \/ phase = "merge" /\ d \in todo \cup cluster
         \/ \E m \in merged : m.start <= d.start /\ d.end <= m.end
    /\ phase = "merge" /\ cluster # {} =>
         /\ \A p \in FirstStart(cluster) + 1 .. LastEnd(cluster) - 1 : Crossed(p)
         /\ ~Crossed(FirstStart(cluster))

\* docs/FORMAL_MODEL.md:76 (A2), said by :181 to hold at the default
\* configuration: the verdict on a span deep enough in a window is the same for
\* the window as for the text.
FormalModelA2 ==
    LET inWindow == {d \in raw : Window.lo <= d.start /\ d.end <= Window.hi}
        Settled(R) == {s \in R : Window.lo + Context <= s.start /\ s.end + Context <= Window.hi}
    IN phase = "done" => Settled(ResolvedSpans(inWindow)) = Settled(ResolvedSpans(raw))
=============================================================================
