--------------------------- MODULE RangeContract ---------------------------
(***************************************************************************)
(* What a streamed redaction of the characters First .. Last - 1 of a     *)
(* document promises, with no window, buffer or chunk in sight: it yields *)
(* segments in order, never cuts an entity of the reference detection set *)
(* with a segment boundary, and reports with each segment exactly the     *)
(* reference detections inside it.                                        *)
(*                                                                         *)
(* When the range stops short of the document (Last < TextLen: the right  *)
(* pad of a parallel worker), entities whose context reaches past Last    *)
(* are not settled by the text the stream has seen; the last segment may  *)
(* report anything about those.                                           *)
(*                                                                         *)
(* engine.stream_windows is shown to implement this (StreamWindows), and  *)
(* the workers of parallel._redact_range rely on it (ParallelRedact).     *)
(***************************************************************************)
EXTENDS Spans

CONSTANTS
    TextLen,        \* characters in the document
    First, Last,    \* the range of characters the stream covers
    RightContext,   \* characters after a span its verdict may depend on
    MaxSpan         \* the longest span a detector emits

VARIABLES
    truth,      \* the reference detections of the document being streamed
    emitted,    \* every character before this one has been yielded
    found,      \* every detection yielded so far
    done        \* the stream has ended

cvars == <<truth, emitted, found, done>>

\* The verdict on d is fixed by the characters before Last.
Settled(d) == Last = TextLen \/ d.end + RightContext <= Last

\* No entity of the range is cut by a segment boundary at p.
CutFree(p) == \A t \in truth : t.start >= First => ~Straddles(t, p)

Within(lo, hi) == {t \in truth : lo <= t.start /\ t.end <= hi}

\* What the last segment may report: disjoint spans of bounded length that
\* agree with the reference wherever the text settles the verdict.
TailDetections(lo, D) ==
    /\ D \subseteq SpansIn(lo, Last)
    /\ PairwiseDisjoint(D)
    /\ \A d \in D : Size(d) <= MaxSpan
    /\ \A d \in SpansIn(lo, Last) : Settled(d) => (d \in D <=> d \in truth)

CInit ==
    /\ truth \subseteq SpansIn(0, TextLen) /\ PairwiseDisjoint(truth)
    /\ emitted = First
    /\ found = {}
    /\ done = FALSE

Yield(p) ==
    /\ ~done
    /\ emitted < p
    /\ CutFree(p)
    /\ emitted' = p
    /\ found' = found \cup Within(emitted, p)
    /\ UNCHANGED <<truth, done>>

YieldLast ==
    /\ ~done
    /\ found \subseteq found'
    /\ TailDetections(emitted, found' \ found)
    /\ emitted' = Last
    /\ done' = TRUE
    /\ UNCHANGED truth

CNext == (\E p \in First .. Last : Yield(p)) \/ YieldLast

CSafety == CInit /\ [][CNext]_cvars

CSpec == CSafety /\ <>done
=============================================================================
