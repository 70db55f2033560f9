---------------------------- MODULE LineTracker ----------------------------
(***************************************************************************)
(* locate.LineTracker and the loops that feed it: the detect command      *)
(* (plain and SARIF), the page's scan and the page's chunk inspector.     *)
(* The tracker counts line breaks once, as the stream of segments goes    *)
(* by, and is right only if it is told of every segment's end.            *)
(*                                                                         *)
(* A text is the set of positions that hold "\n" and the findings in it;  *)
(* the segments come from the engine: not empty, and no finding is cut.   *)
(***************************************************************************)
EXTENDS Integers, FiniteSets, FiniteSetsExt, Spans

CONSTANTS
    LinesLen    \* the characters of the text

ASSUME LineAssumption == LinesLen \in Nat

VARIABLES
    newlines,   \* the positions of "\n"
    findings,   \* what the engine reports, disjoint spans
    caller,     \* "detect", "sarif" or "trace"
    offset,     \* the current segment is offset .. segEnd - 1;
    segEnd,     \* none while offset = segEnd
    step,       \* where the caller's loop over the segment is
    todo,       \* findings of the segment not reported yet
    tracker,    \* the tracker: line, lineStart, pos
    answer      \* the last position reported

lineVars == <<newlines, findings, caller, offset, segEnd, step, todo, tracker, answer>>

NoAnswer == [at |-> 0, line |-> 1, column |-> 1]

LineInit ==
    /\ newlines \in SUBSET (0 .. LinesLen - 1)
    /\ findings \in {D \in SUBSET SpansIn(0, LinesLen) : PairwiseDisjoint(D)}
    /\ caller \in {"detect", "sarif", "trace"}
    /\ offset = 0 /\ segEnd = 0 /\ step = "next" /\ todo = {}
    /\ tracker = [line |-> 1, lineStart |-> 0, pos |-> 0]
    /\ answer = NoAnswer

----------------------------------------------------------------------------
(* locate.                                                                  *)

\* segment.find starts at pos - seg_offset; from behind the segment that is a
\* negative index, which Python counts from the segment's end.
FindFrom ==
    IF tracker.pos >= offset THEN tracker.pos
    ELSE Larger(offset, segEnd + (tracker.pos - offset))

\* The tracker after locate(segment, offset, at).
Located(at) ==
    LET breaks == {p \in newlines : FindFrom <= p /\ p < at} IN
      [line |-> tracker.line + Cardinality(breaks),
       lineStart |-> IF breaks = {} THEN tracker.lineStart ELSE Max(breaks) + 1,
       pos |-> at]

Locate(at) ==
    /\ tracker' = Located(at)
    /\ answer' = [at |-> at, line |-> tracker'.line, column |-> at - tracker'.lineStart + 1]

----------------------------------------------------------------------------
(* The callers.                                                             *)

\* The engine yields a segment of n characters.
Segment(n) ==
    /\ step = "next" /\ n > 0 /\ segEnd + n <= LinesLen
    /\ \A d \in findings : ~Straddles(d, segEnd + n)
    /\ segEnd' = segEnd + n
    /\ todo' = {d \in findings : segEnd <= d.start /\ d.end <= segEnd + n}
    /\ step' = IF caller = "trace" THEN "first" ELSE "start"
    /\ UNCHANGED <<newlines, findings, caller, offset, tracker, answer>>

\* trace_chunks: the line the segment starts on.
FirstLine ==
    /\ step = "first"
    /\ Locate(offset)
    /\ step' = "start"
    /\ UNCHANGED <<newlines, findings, caller, offset, segEnd, todo>>

\* The start of the next finding.
Start ==
    /\ step = "start"
    /\ \E d \in todo :
         /\ \A e \in todo : d.start <= e.start
         /\ Locate(d.start)
         /\ IF caller = "sarif"
            THEN step' = "end" /\ UNCHANGED todo
            ELSE todo' = todo \ {d} /\ UNCHANGED step
    /\ UNCHANGED <<newlines, findings, caller, offset, segEnd>>

\* SARIF wants its end as well.
End ==
    /\ step = "end"
    /\ \E d \in todo :
         /\ \A e \in todo : d.start <= e.start
         /\ Locate(d.end)
         /\ todo' = todo \ {d}
    /\ step' = "start"
    /\ UNCHANGED <<newlines, findings, caller, offset, segEnd>>

\* trace_chunks: the line of the segment's last character.
LastLine ==
    /\ step = "start" /\ todo = {} /\ caller = "trace"
    /\ Locate(Larger(offset, segEnd - 1))
    /\ step' = "finish"
    /\ UNCHANGED <<newlines, findings, caller, offset, segEnd, todo>>

FinishSegment_Skip ==
    /\ step = IF caller = "trace" THEN "finish" ELSE "start"
    /\ todo = {}
    /\ offset' = segEnd /\ step' = "next"
    /\ UNCHANGED <<newlines, findings, caller, segEnd, todo, answer, tracker>>

\* finish, and on to the next segment.
FinishSegment ==
    /\ step = IF caller = "trace" THEN "finish" ELSE "start"
    /\ todo = {}
    /\ tracker' = Located(segEnd)
    /\ offset' = segEnd /\ step' = "next"
    /\ UNCHANGED <<newlines, findings, caller, segEnd, todo, answer>>

LineNext ==
    \/ \E n \in 1 .. LinesLen : Segment(n)
    \/ FirstLine \/ Start \/ End \/ LastLine \/ FinishSegment

LineSpec == LineInit /\ [][LineNext]_lineVars

----------------------------------------------------------------------------
\* The tracker and the loop hold what the code can store in them.
LineTypeOK ==
    /\ newlines \subseteq 0 .. LinesLen - 1
    /\ findings \subseteq SpansIn(0, LinesLen) /\ PairwiseDisjoint(findings)
    /\ caller \in {"detect", "sarif", "trace"}
    /\ offset \in 0 .. LinesLen /\ segEnd \in offset .. LinesLen
    /\ step \in {"next", "first", "start", "end", "finish"}
    /\ todo \subseteq findings
    /\ tracker \in [line : 1 .. LinesLen + 1, lineStart : 0 .. LinesLen, pos : 0 .. LinesLen]

Before(at) == {p \in newlines : p < at}

\* The line that position at is on starts at first, and is the n-th.
OnLine(at, n, first) ==
    /\ n = 1 + Cardinality(Before(at))
    /\ first = IF Before(at) = {} THEN 0 ELSE Max(Before(at)) + 1

\* Every line and column reported, by whichever caller, is the one counted in
\* the whole text.
PositionsRight == OnLine(answer.at, answer.line, answer.at - answer.column + 1)

\* What the caller's loop has still to ask for is not behind the tracker, which
\* stands in the segment the caller is at.
AheadOfTracker ==
    /\ step = "next" => offset = segEnd /\ tracker.pos = segEnd /\ todo = {}
    /\ step # "next" => offset < segEnd /\ tracker.pos \in offset .. segEnd
    /\ \A d \in todo : offset <= d.start /\ d.end <= segEnd
    /\ step \in {"first", "start"} => \A d \in todo : tracker.pos <= d.start
    /\ step = "first" => tracker.pos = offset /\ caller = "trace"
    /\ step = "start" /\ caller = "trace" => tracker.pos < segEnd
    /\ step = "end" => /\ caller = "sarif"
                      /\ \E d \in todo : /\ d.start = tracker.pos
                                        /\ \A e \in todo : d.start <= e.start
    /\ step = "finish" => todo = {} /\ caller = "trace"

\* Why PositionsRight: the tracker never looks back, and has counted every
\* break behind it.
LineInv ==
    /\ LineTypeOK
    /\ AheadOfTracker
    /\ OnLine(tracker.pos, tracker.line, tracker.lineStart)
    /\ PositionsRight
=============================================================================
