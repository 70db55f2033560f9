--------------------------- MODULE StreamWindows ---------------------------
(***************************************************************************)
(* engine.stream_windows: detection over a sliding window.                *)
(*                                                                         *)
(* Text is its character positions. The generator's locals are kept in    *)
(* absolute positions:                                                    *)
(*    prefix = characters context .. emitted - 1   (read-only, rescanned) *)
(*    pieces = characters emitted .. received - 1  (the rolling buffer)   *)
(* so that buffered = received - emitted throughout.                      *)
(*                                                                         *)
(* The detectors are an environment bound only by what docs/FORMAL_MODEL  *)
(* calls A1 and A2: spans of at most MaxSpan characters, and a verdict    *)
(* that is the whole-document one whenever the window holds the span with *)
(* LeftContext characters before and RightContext after it. Nearer to an  *)
(* artificial window edge they may report or miss anything. Detections    *)
(* that start in the prefix are dropped before they have any effect, so   *)
(* only those starting in the buffer are represented.                     *)
(***************************************************************************)
EXTENDS Spans

CONSTANTS
    TextLen,        \* characters in the document
    First, Last,    \* the characters this stream is fed: First .. Last - 1
    Documents,      \* the reference detection sets considered
    Overlap,        \* the overlap argument
    MinEmit,        \* the min_emit argument, 0 for None
    StrictArgs,     \* the strict_spans arguments considered
    MaxChunk,       \* longest chunk of the source
    MaxSpan, LeftContext, RightContext   \* the pipeline's real requirements

IsReference(T) ==
    /\ T \subseteq SpansIn(0, TextLen)
    /\ PairwiseDisjoint(T)
    /\ \A t \in T : Size(t) <= MaxSpan

ASSUME StreamAssumption ==
    /\ TextLen \in Nat /\ First \in Nat /\ Last \in Nat
    /\ First <= Last /\ Last <= TextLen
    /\ Overlap \in Nat /\ MinEmit \in Nat /\ MaxChunk \in Nat \ {0}
    /\ MaxSpan \in Nat \ {0} /\ LeftContext \in Nat /\ RightContext \in Nat
    /\ StrictArgs \subseteq BOOLEAN
    /\ \A T \in Documents : IsReference(T)

VARIABLES
    truth,      \* reference detections of the document (never read by the code)
    strict,     \* the strict_spans argument
    received,   \* end of the text pulled from the source
    emitted,    \* end of the text yielded; start of the buffer
    context,    \* start of the prefix
    need,       \* buffered characters that trigger the next detection pass
    found,      \* detections yielded so far
    window,     \* the last WindowTrace reported to on_window
    status      \* "running", "done", or "failed" (WindowConfigurationError)

vars == <<truth, strict, received, emitted, context, need, found, window, status>>

-----------------------------------------------------------------------------
\* The detectors.

\* The window lo .. hi - 1 holds d with all the context its verdict reads.
Reliable(d, lo, hi) ==
    /\ lo = 0 \/ lo <= d.start - LeftContext
    /\ hi = TextLen \/ d.end + RightContext <= hi

\* Mutant: detections that start in the prefix are not dropped.
Candidates_PrefixKept(from, hi) ==
    {d \in SpansIn(Smaller(from, context), hi) : Size(d) <= MaxSpan}

\* Spans a detector may return that start at or after `from`.
Candidates(from, hi) == {d \in SpansIn(from, hi) : Size(d) <= MaxSpan}

\* What window_detect may keep: the reference verdict wherever it is reliable,
\* anything non-overlapping elsewhere.
Detections(lo, from, hi) ==
    LET cands == Candidates(from, hi)
        sure  == {d \in cands : Reliable(d, lo, hi) /\ d \in truth}
        open  == {d \in cands : ~Reliable(d, lo, hi)}
    IN  {D \in {sure \cup junk : junk \in SUBSET open} : PairwiseDisjoint(D)}

-----------------------------------------------------------------------------
\* The pieces of the loop.

\* min_emit = max(overlap, min_emit or 0, 1)
EmitFloor == Larger(Larger(Overlap, MinEmit), 1)

\* Mutant: no holdback, the whole buffer is emitted.
Planned_NoHoldback(hi) == hi

\* emit_upto before any retreat: overlap characters short of the buffer's end.
Planned(hi) == hi - Overlap

\* Mutant: the prefix is never trimmed.
NextContext_NeverTrimmed(from, cut) == from

\* (prefix + buffer[:emit_upto])[-overlap:]
NextContext(from, cut) == Larger(from, cut - Overlap)

\* Mutant: the boundary moves to the first detection.
Retreated_ToFirst(D, planned, cut) ==
    IF \E d \in D : Straddles(d, planned)
    THEN (\E d \in D : cut = d.start) /\ \A d \in D : cut <= d.start
    ELSE cut = planned

\* _retreat_boundary: the rightmost position at or before `planned` that cuts
\* no detection. Each iteration of its loop moves to the start of a detection
\* that straddles the boundary, which skips only positions that detection cuts.
Retreated(D, planned, cut) ==
    /\ \A d \in D : ~Straddles(d, cut)
    /\ \A p \in cut + 1 .. planned : \E d \in D : Straddles(d, p)

\* ready = [d for d in detections if d.end <= emit_upto]
Ready(D, cut) == {d \in D : d.end <= cut}

\* Mutant: the length check is off by one.
Overlong_OffByOne(D) == strict /\ Overlap > 0 /\ \E d \in D : Size(d) > Overlap + 1

\* _check_overlong raises
Overlong(D) == strict /\ Overlap > 0 /\ \E d \in D : Size(d) > Overlap

\* The WindowTrace of a pass over context .. hi - 1 that emits up to cut.
Trace(hi, planned, cut, final) ==
    [prefix_len |-> emitted - context, buffer_len |-> hi - emitted,
     planned_emit |-> planned - emitted, emit_len |-> cut - emitted,
     final |-> final]

NoWindow == [prefix_len |-> 0, buffer_len |-> 0, planned_emit |-> 0,
             emit_len |-> 0, final |-> FALSE]

-----------------------------------------------------------------------------
\* Mutant: the initial context is not used.
Init_NoContext ==
    /\ truth \in Documents /\ strict \in StrictArgs
    /\ received = First /\ emitted = First /\ context = First
    /\ need = Overlap + EmitFloor
    /\ found = {} /\ window = NoWindow /\ status = "running"

Init ==
    /\ truth \in Documents /\ strict \in StrictArgs
    /\ received = First
    /\ emitted = First
    /\ context = Larger(0, First - Overlap)   \* initial_context[-overlap:]
    /\ need = Overlap + EmitFloor
    /\ found = {}
    /\ window = NoWindow
    /\ status = "running"

\* for chunk in chunks: the source hands over n more characters
Chunk(n) == status = "running" /\ received + n <= Last /\ received' = received + n

\* buffered < need: keep accumulating
Accumulate(n) ==
    /\ Chunk(n)
    /\ received + n - emitted < need
    /\ UNCHANGED <<truth, strict, emitted, context, need, found, window, status>>

\* A detection pass that yields a segment.
Emit(n) ==
    /\ Chunk(n)
    /\ LET hi == received + n IN
        /\ hi - emitted >= need
        /\ \E D \in Detections(context, emitted, hi), cut \in emitted + 1 .. Planned(hi) :
            /\ ~Overlong(D)
            /\ Retreated(D, Planned(hi), cut)
            /\ emitted' = cut
            /\ found' = found \cup Ready(D, cut)
            /\ context' = NextContext(context, cut)
            /\ window' = Trace(hi, Planned(hi), cut, FALSE)
    /\ need' = Overlap + EmitFloor
    /\ UNCHANGED <<truth, strict, status>>

\* A detection pinned the whole buffer: emit nothing, wait for min_emit more.
Pin(n) ==
    /\ Chunk(n)
    /\ LET hi == received + n IN
        /\ hi - emitted >= need
        /\ \E D \in Detections(context, emitted, hi) :
            /\ ~Overlong(D)
            /\ Retreated(D, Planned(hi), emitted)
        /\ window' = Trace(hi, Planned(hi), emitted, FALSE)
        /\ need' = hi - emitted + EmitFloor
    /\ UNCHANGED <<truth, strict, emitted, context, found, status>>

\* strict_spans: a kept detection is longer than the overlap.
FailOverlong(n) ==
    /\ Chunk(n)
    /\ received + n - emitted >= need
    /\ \E D \in Detections(context, emitted, received + n) : Overlong(D)
    /\ status' = "failed"
    /\ UNCHANGED <<truth, strict, emitted, context, need, found, window>>

\* Mutant: the tail is only flushed when it would have filled a window.
Flush_OnlyWhenFull ==
    /\ status = "running" /\ received = Last /\ received - emitted >= need
    /\ status' = "done"
    /\ UNCHANGED <<truth, strict, received, emitted, context, need, found, window>>

\* The source is exhausted: the rest of the buffer goes out with its detections.
Flush ==
    /\ status = "running" /\ received = Last
    /\ \/ /\ emitted = received
          /\ status' = "done"
          /\ UNCHANGED <<emitted, found, window>>
       \/ /\ emitted < received
          /\ \E D \in Detections(context, emitted, received) :
                IF Overlong(D)
                THEN status' = "failed" /\ UNCHANGED <<emitted, found, window>>
                ELSE /\ status' = "done"
                     /\ emitted' = received
                     /\ found' = found \cup D
                     /\ window' = Trace(received, received, received, TRUE)
    /\ UNCHANGED <<truth, strict, received, context, need>>

Step(n) == Accumulate(n) \/ Emit(n) \/ Pin(n) \/ FailOverlong(n)

Next == (\E n \in 0 .. MaxChunk : Step(n)) \/ Flush

\* The generator is driven to its end by its consumer, and a source that still
\* has text eventually hands over some of it (empty chunks do not count).
Fairness == WF_vars(\E n \in 1 .. MaxChunk : Step(n)) /\ WF_vars(Flush)

SafetySpec == Init /\ [][Next]_vars
Spec == SafetySpec /\ Fairness

-----------------------------------------------------------------------------
\* Redactor.min_safe_overlap: what the constructor insists on by default.
SafeOverlap == Overlap >= Larger(MaxSpan + RightContext, LeftContext)

WindowTraces == [prefix_len : Nat, buffer_len : Nat, planned_emit : Nat,
                 emit_len : Nat, final : BOOLEAN]

\* The types of the generator's locals and how its cursors are ordered.
TypeOK ==
    /\ IsReference(truth) /\ strict \in BOOLEAN
    /\ received \in First .. Last
    /\ emitted \in First .. received
    /\ context \in 0 .. emitted
    /\ need \in Nat /\ need > Overlap
    /\ found \subseteq SpansIn(First, emitted)
    /\ window \in WindowTraces
    /\ status \in {"running", "done", "failed"}

\* Theorem 1 of docs/FORMAL_MODEL.md, at every moment of the stream: no entity
\* of the whole-document reference is cut by the text already yielded, and the
\* detections yielded so far are exactly the reference ones in that text. (The
\* last segment of a range that stops short of the document is only held to
\* the entities its text settles.)
StreamingEquivalence ==
    /\ status # "done" => \A t \in truth : t.start >= First => ~Straddles(t, emitted)
    /\ \A d \in SpansIn(First, emitted) :
          status # "done" \/ Last = TextLen \/ d.end + RightContext <= Last
              => (d \in found <=> d \in truth)

\* The memory bound of the engine's docstring: between passes less than
\* overlap + max(min_emit, overlap, 1) characters are buffered, a pass scans at
\* most one chunk more than that, behind a prefix of at most overlap characters.
BoundedBuffer ==
    /\ status = "running" => received - emitted < Overlap + EmitFloor
    /\ window.buffer_len < Overlap + EmitFloor + MaxChunk
    /\ window.prefix_len <= Overlap

\* No pass is wasted: a detection never pins the buffer, and the retreat of the
\* boundary costs less than one entity. This is what bounds the rescans per
\* emitted character however the source is chunked.
EveryPassEmits ==
    window # NoWindow /\ ~window.final => window.emit_len > EmitFloor - MaxSpan

\* The inductive invariant behind the three: in addition to them, the prefix
\* reaches back a full overlap or to the start of the text, and the threshold is
\* always the unpinned one.
WindowReach ==
    /\ context = 0 \/ context <= emitted - Overlap
    /\ status = "running" =>
          /\ emitted - context <= Overlap
          /\ need = Overlap + EmitFloor

StreamInv ==
    TypeOK /\ WindowReach /\ StreamingEquivalence /\ BoundedBuffer /\ EveryPassEmits

\* Whatever the detectors return, and however small the overlap: detections are
\* yielded once, never two over the same character (a detection starting in the
\* rescanned prefix is not reported again), each inside one segment.
ReportedIntact == PairwiseDisjoint(found)

\* strict_spans fails closed: no detection longer than the window is yielded.
FailClosed == strict /\ Overlap > 0 => \A d \in found : Size(d) <= Overlap

\* The generator ends once its source does, pinned buffers included.
Terminates == <>(status # "running")

\* The engine implements the contract of a streamed range.
Contract == INSTANCE RangeContract WITH done <- (status = "done")
ImplementsContract == Contract!CSpec

\* docs/FORMAL_MODEL.md Theorem 1 under its own premise.
FormalModelTheorem1 ==
    Overlap >= Larger(MaxSpan, Larger(LeftContext, RightContext)) => StreamingEquivalence
=============================================================================
