------------------------------ MODULE Inspector ------------------------------
(***************************************************************************)
(* The page's chunk inspector: core.trace_chunks, which rebuilds the       *)
(* geometry of every pass from the engine's observer, and the playback of  *)
(* ui.app over the passes of one text, by buttons, a slider and a timer.   *)
(***************************************************************************)
EXTENDS PageViews

LOCAL INSTANCE SequencesExt

CONSTANTS
    INSPECTOR_RETAINED, PREVIEW_CHARS,
    Texts,      \* [len, truth, chunk, overlap, strict]: what the page inspects, a
                \* text by its detections; strict, in chunks of one or two overlaps
    Traced,     \* what else trace_chunks is called with: an unsafe overlap, which
                \* is not strict, and chunks of any size
    MaxEvents   \* what a user does, at most

VARIABLES
    source,     \* the text and settings inspected
    trace,      \* session_state["inspect"]: what it was built for, its telemetry
    index,      \* session_state["inspect_index"]
    last,       \* session_state["inspect_last"]
    playing,    \* session_state["inspect_playing"]
    armed,      \* the timer of the fragment runs: the page was drawn playing
    view,       \* the pass on the page, or -1
    events

vars == <<source, trace, index, last, playing, armed, view, events>>

----------------------------------------------------------------------------
(* The passes stream_windows reports for a text whose detectors see every  *)
(* detection that lies in their window: the prefix, the buffer, what was   *)
(* to be emitted and was (0: pinned), whether it is the last.              *)

Pass(from, s, planned, emitted, final) ==
    [prefix |-> from, buffer |-> s.received - s.emitted, planned |-> planned - s.emitted,
     emitted |-> emitted - s.emitted, final |-> final]

\* In place of a pass: a detection longer than the overlap ends the stream.
Raised == [raised |-> TRUE]

\* stream_windows as detect_stream calls it, with min_emit = chunk_size.  A pass
\* is run only when a chunk has come, or after the last.
Passes(t) ==
    LET floor == Larger(Larger(t.overlap, t.chunk), 1)
        Kept(s) == {d \in t.truth : s.emitted <= d.start /\ d.end <= s.received}
        Overlong(s) == t.strict /\ t.overlap > 0 /\ \E d \in Kept(s) : Size(d) > t.overlap
        \* the last position up to planned that cuts no detection of the window
        Cut(s, planned) ==
            IF \E d \in Kept(s) : Straddles(d, planned)
            THEN (CHOOSE d \in Kept(s) : Straddles(d, planned)).start ELSE planned
        run[s \in [emitted : Nat, received : Nat, need : Nat]] ==
          LET new == [s EXCEPT !.received = Smaller(t.len, s.received + t.chunk)]
              from == Smaller(t.overlap, s.emitted)
              buffered == new.received - s.emitted
              planned == new.received - t.overlap
              cut == Cut(new, planned)
          IN  IF s.received = t.len
              THEN IF s.emitted = t.len THEN <<>>
                   ELSE <<IF Overlong(s) THEN Raised ELSE Pass(from, s, t.len, t.len, TRUE)>>
              ELSE IF buffered < s.need THEN run[new]
              ELSE IF Overlong(new) THEN <<Raised>>
              ELSE <<Pass(from, new, planned, cut, FALSE)>>
                   \o run[[new EXCEPT !.emitted = cut,
                                     !.need = (IF cut > s.emitted THEN t.overlap ELSE buffered) + floor]]
    IN  run[[emitted |-> 0, received |-> 0, need |-> t.overlap + floor]]

Raises(t) == \E p \in ToSet(Passes(t)) : p = Raised

----------------------------------------------------------------------------
(* trace_chunks.                                                           *)

Emitting(passes) == SelectSeq([i \in DOMAIN passes |-> i], LAMBDA i : passes[i].emitted > 0)

Before(passes, i) ==
    LET length[k \in 0 .. Len(passes)] == IF k = 0 THEN 0 ELSE length[k - 1] + passes[k].emitted
    IN  length[i - 1]

\* Passes since the one that emitted before: the pinned ones.
Deferred(passes, k) ==
    LET e == Emitting(passes) IN e[k] - (IF k = 1 THEN 0 ELSE e[k - 1]) - 1

Retreat(p) == IF p.final THEN 0 ELSE p.planned - p.emitted

\* Mutant: a boundary moved back holds nothing.
Held_PinnedOnly(passes, k) == Deferred(passes, k) > 0

\* The passes before this segment held back what starts it.
Held(passes, k) ==
    \/ Deferred(passes, k) > 0
    \/ IF k = 1 THEN FALSE ELSE Retreat(passes[Emitting(passes)[k - 1]]) > 0

Telemetry(t, k) ==
    LET passes == Passes(t)
        p == passes[Emitting(passes)[k]]
        offset == Before(passes, Emitting(passes)[k])
        findings == {d \in t.truth : offset <= d.start /\ d.end <= offset + p.emitted}
    IN  [window |-> <<offset - p.prefix, offset + p.buffer>>,
         emit |-> <<offset, offset + p.emitted>>,
         findings |-> SetToSortSeq(findings, LAMBDA d, e : d.start < e.start),
         carried |-> p.buffer - p.emitted, retreated |-> Retreat(p),
         straddlers |-> {d \in findings : Held(passes, k) /\ d.start = offset}]

\* flatten_findings
Flat(chunks) == FlattenSeq([k \in DOMAIN chunks |-> chunks[k].findings])

Trace(t) == [k \in 1 .. Len(Emitting(Passes(t))) |-> Telemetry(t, k)]

----------------------------------------------------------------------------
(* _inspector and its fragment.                                            *)

NoTrace == [of |-> <<>>, chunks |-> <<>>]

Init ==
    /\ source \in Texts /\ trace = NoTrace
    /\ index = 0 /\ last = 0 /\ playing = FALSE /\ armed = FALSE /\ view = -1 /\ events = 0

\* live, with the passes of the last full run: while it plays it goes on by one
\* and at the end it stops; it draws what it has come to.
Live(chunks, i, on) ==
    IF on /\ i + 1 > Len(chunks) - 1
    THEN index' = i /\ playing' = FALSE /\ view' = i
    ELSE /\ index' = IF on THEN i + 1 ELSE i
         /\ playing' = on /\ view' = index'

\* A run of the whole script that the engine ends with an error: what was
\* there for another text is left, and none of it is drawn.
FailedRun(s, i, on) ==
    /\ trace.of # s /\ Raises(s)
    /\ source' = s /\ index' = i /\ playing' = on
    /\ armed' = FALSE /\ view' = -1
    /\ UNCHANGED <<trace, last>>

\* A run of the whole script, after a callback left i and on: the passes are
\* built anew when the text, the settings or the chunk size are new.
DrawnRun(s, i, on) ==
    LET new == trace.of # s
        chunks == IF new THEN Trace(s) ELSE trace.chunks
        start == IF new THEN 0 ELSE i
        play == ~new /\ on
    IN  /\ new => ~Raises(s)
        /\ source' = s /\ trace' = [of |-> s, chunks |-> chunks]
        /\ last' = Len(chunks) - 1
        /\ armed' = (play /\ start + 1 <= Len(chunks) - 1)
        /\ Live(chunks, start, play)

FullRun(s, i, on) == FailedRun(s, i, on) \/ DrawnRun(s, i, on)

User == events < MaxEvents /\ events' = events + 1

Show == User /\ \E s \in Texts : FullRun(s, index, playing)

\* _toggle_play: at the end it starts over.  The buttons are there with the passes.
TogglePlay ==
    /\ User /\ view # -1
    /\ FullRun(source, IF ~playing /\ index >= last THEN 0 ELSE index, ~playing)

\* _step: paused, and within the passes.
Step(delta) ==
    LET i == index + delta IN IF i < 0 THEN 0 ELSE IF i > last THEN last ELSE i

StepTo ==
    /\ User /\ view # -1
    /\ \E delta \in {-1, 1} : FullRun(source, Step(delta), FALSE)

\* The slider is drawn while nothing plays; moving it runs the fragment.
Slide ==
    /\ User /\ view # -1 /\ ~armed /\ last > 0
    /\ \E i \in 0 .. last : Live(trace.chunks, i, FALSE)
    /\ UNCHANGED <<source, trace, last, armed>>

\* The timer: the fragment alone; where play has ended it asks for a full run,
\* which drops the timer.
Tick ==
    /\ armed
    /\ Live(trace.chunks, index, playing)
    /\ armed' = playing'
    /\ UNCHANGED <<source, trace, last, events>>

Next == Show \/ TogglePlay \/ StepTo \/ Slide \/ Tick

Spec == Init /\ [][Next]_vars /\ WF_vars(Tick)

----------------------------------------------------------------------------
\* Where the passes since the segment before, and the one that emitted it, meant
\* to cut.
PlannedCuts(t, k) ==
    LET passes == Passes(t)
        since == IF k = 1 THEN 1 ELSE Emitting(passes)[k - 1]
    IN  {Before(passes, i) + passes[i].planned : i \in since .. Emitting(passes)[k] - 1}

\* The segments tile the text, each window reaches from the text before its
\* segment to the carried characters, a pass says that it emits whole what the
\* passes before it held back exactly for the detections those meant to cut, and
\* no detection is missing unless one is longer than the overlap.
TraceTrue(t, chunks) ==
    /\ chunks[Len(chunks)].emit[2] = t.len
    /\ \A k \in DOMAIN chunks :
         LET c == chunks[k]
             before == IF k = 1 THEN <<0, 0>> ELSE chunks[k - 1].emit
         IN  /\ c.emit[1] = before[2] /\ c.emit[2] + c.carried = c.window[2]
             /\ c.window[1] \in 0 .. c.emit[1]
             /\ c.straddlers = {d \in t.truth : c.emit[1] <= d.start /\ d.end <= c.emit[2]
                    /\ \E p \in PlannedCuts(t, k) : Straddles(d, p)}
    /\ (\A d \in t.truth : Size(d) <= t.overlap) => ToSet(Flat(chunks)) = t.truth

\* What trace_chunks yields is true to the text, for the page and for callers
\* with an unsafe overlap; what is on the page is a pass of the text that is
\* inspected, however the user steps, slides, plays and changes the text, drawn
\* with every finding marked or replaced, no more and no less; and there is none
\* only where the engine refused the text.
PassesShown ==
    /\ events = 0 => \A t \in Traced : Raises(t) \/ TraceTrue(t, Trace(t))
    /\ armed => playing /\ view # -1
    /\ events > 0 => (view = -1 <=> trace.of # source /\ Raises(source))
    /\ view # -1 =>
         LET chunks == trace.chunks IN
         /\ trace.of = source /\ last = Len(chunks) - 1
         /\ index \in 0 .. last /\ view \in 0 .. last
         /\ TraceTrue(source, chunks)
         /\ ViewsTrue([i \in 1 .. source.len |-> i - 1], chunks, Flat(chunks), view + 1,
                      INSPECTOR_RETAINED, PREVIEW_CHARS)

\* Playback comes to its end, or to a text the engine refuses.
PlaybackEnds == playing /\ view # -1 ~> ~playing \/ view = -1
=============================================================================
