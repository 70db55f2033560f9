--------------------------- MODULE ParallelRedact ---------------------------
(***************************************************************************)
(* parallel.redact_file_parallel: one file redacted by a worker process   *)
(* per range, the seam valve that compares what neighbours concluded, the *)
(* assembly of the parts, and the sequential fallback.                    *)
(*                                                                         *)
(* A worker's position is a character of the document, not of its own     *)
(* stream: worker i streams FirstRead(i) .. LastRead(i) - 1, its range    *)
(* widened by Overlap characters on each inner side.  Its stream is the   *)
(* abstract RangeContract that engine.stream_windows implements           *)
(* (StreamWindows); in a call whose overlap is not safe                   *)
(* (allow_unsafe_overlap) it reports any disjoint spans of Spottable      *)
(* instead, and two workers need not report the same.                     *)
(*                                                                         *)
(* A seam report is the set of the (at most one) span across the seam:    *)
(* reports are relative to the same seam, so they are equal exactly when  *)
(* the spans are.  The entity type in a report can only add               *)
(* disagreements; unsafe calls let spans differ freely.                   *)
(***************************************************************************)
EXTENDS Spans, Sequences

CONSTANTS
    TextLen,        \* characters in the input file
    seams,          \* the split points plan_ranges returned:
                    \* <<0, seam, ..., TextLen>>
    Overlap, RightContext, MaxSpan,
    Documents,      \* the reference detections of the possible files
    Guarantees,     \* the kinds of call considered, for safe
    Spottable,      \* spans a detector may report outside the guarantee
    SegmentEnds     \* bound: where a worker's stream may end a segment

\* The split points ascend from one end of the file to the other (ByteRanges),
\* and a call within the guarantee has the overlap that
\* Redactor.enforce_overlap_safety asks for.
ASSUME ParallelAssumption ==
    /\ TextLen \in Nat /\ Overlap \in Nat /\ RightContext \in Nat /\ MaxSpan \in Nat
    /\ seams \in Seq(0 .. TextLen) /\ Len(seams) >= 2
    /\ seams[1] = 0 /\ seams[Len(seams)] = TextLen
    /\ \A i, j \in 1 .. Len(seams) : i < j => seams[i] <= seams[j]
    /\ Guarantees \subseteq BOOLEAN
    /\ TRUE \in Guarantees => Overlap >= MaxSpan + RightContext
    /\ SegmentEnds \subseteq Int
    /\ \A T \in Documents : /\ T \subseteq SpansIn(0, TextLen)
                             /\ PairwiseDisjoint(T)
                             /\ \A t \in T : Size(t) <= MaxSpan

VARIABLES
    safe,       \* the overlap is at least the detectors' requirement
    truth,      \* the reference detections of the file
    worker,     \* what each worker process holds
    pc,         \* where the orchestrator stands
    merged,     \* the parts already copied to the temporary output
    draft,      \* that temporary output; None when there is none
    output,     \* the file at the output path; None: as it was before
    partDir     \* the directory of the parts exists

vars == <<safe, truth, worker, pc, merged, draft, output, partDir>>

None == [copies |-> <<>>, shown |-> {}]
NoCut == -1

Workers == 1 .. Len(seams) - 1
SeamStart(i) == seams[i]
SeamEnd(i) == seams[i + 1]
IsFirst(i) == i = 1
IsLast(i) == i = Len(seams) - 1

\* The pads: Overlap scanned characters on each inner side, as far as the
\* file reaches.
FirstRead(i) == IF IsFirst(i) THEN 0 ELSE Larger(0, SeamStart(i) - Overlap)

LastRead(i) == IF IsLast(i) THEN TextLen ELSE Smaller(TextLen, SeamEnd(i) + Overlap)

\* The stream of worker i: what engine.stream_windows promises of it.
Stream(i) == INSTANCE RangeContract
    WITH First <- FirstRead(i), Last <- LastRead(i), emitted <- worker[i].cursor,
         found <- worker[i].seen, done <- worker[i].phase # "streaming"

Nowhere == [c \in 0 .. TextLen - 1 |-> 0]

ParallelInit ==
    /\ safe \in Guarantees
    /\ truth \in IF safe THEN Documents ELSE {{}}
    /\ worker = [i \in Workers |->
           [phase |-> "streaming", cursor |-> FirstRead(i), pending |-> {}, seen |-> {},
            startCut |-> IF IsFirst(i) THEN 0 ELSE NoCut, startReport |-> {},
            endReport |-> {}, copies |-> Nowhere, kept |-> {}]]
    /\ pc = IF Len(seams) < 3 THEN "sequential" ELSE "pool"
    /\ merged = 0
    /\ draft = None /\ output = None
    /\ partDir = (Len(seams) >= 3)

----------------------------------------------------------------------------
(* A worker: _redact_range.                                                *)

\* _find_straddler: the span across a seam.
Straddler(D, seam) == {d \in D : Straddles(d, seam)}

\* Where the text owned from a seam begins: after the straddler, if any.
CutAt(D, seam) ==
    IF Straddler(D, seam) = {} THEN seam ELSE (CHOOSE d \in Straddler(D, seam) : TRUE).end

\* Writing the segments S between two cuts: each character there once more,
\* and the detections inside their segment's piece.
Copied(copies, S, startCut, endCut) ==
    [c \in DOMAIN copies |->
        copies[c] + IF startCut <= c /\ c < endCut /\ \E s \in S : s.lo <= c /\ c < s.hi
                    THEN 1 ELSE 0]

Rendered_EndExclusive(S, startCut, endCut) ==
    UNION {{d \in s.dets : Larger(s.lo, startCut) <= d.start /\ d.end < Smaller(s.hi, endCut)}
           : s \in S}

Rendered(S, startCut, endCut) ==
    UNION {{d \in s.dets : Larger(s.lo, startCut) <= d.start /\ d.end <= Smaller(s.hi, endCut)}
           : s \in S}

\* The start seam is decided once everything across it must have been seen.
StartCut(w, i, p, seen) ==
    IF w.startCut = NoCut /\ p >= SeamStart(i) + 2 * Overlap
    THEN CutAt(seen, SeamStart(i)) ELSE w.startCut

\* flush(cursor - 2*overlap) writes the segments no end seam can still reach.
Flushable(pending, upto) == {s \in pending : s.hi <= upto}

\* all_dets keeps only what an end seam may still need.
StillNeeded(seen, upto) == {d \in seen : d.end > upto}

\* The loop body for the segment that ends at p with detections D.
AfterSegment(w, i, p, D) ==
    LET upto == p - 2 * Overlap
        seen == w.seen \cup D
        pending == w.pending \cup {[lo |-> w.cursor, hi |-> p, dets |-> D]}
        cut == StartCut(w, i, p, seen)
        ready == IF cut = NoCut THEN {} ELSE Flushable(pending, upto)
    IN [w EXCEPT
          !.cursor = p,
          !.pending = pending \ ready,
          !.seen = IF cut = NoCut THEN seen ELSE StillNeeded(seen, upto),
          !.startCut = cut,
          !.startReport = IF w.startCut = NoCut /\ cut # NoCut
                          THEN Straddler(seen, SeamStart(i)) ELSE @,
          !.copies = Copied(@, ready, cut, TextLen),
          !.kept = @ \cup Rendered(ready, cut, TextLen)]

EndReport_Never(w, i) == {}

\* After the loop: a stream too short to have decided its start seam does so
\* now; then the end seam, the final flush and the part's move into place.
EndReport(w, i) == IF IsLast(i) THEN {} ELSE Straddler(w.seen, SeamEnd(i))

AfterStream(w, i) ==
    LET startCut == IF w.startCut = NoCut THEN CutAt(w.seen, SeamStart(i)) ELSE w.startCut
        endCut == CutAt(EndReport(w, i), SeamEnd(i))
    IN [w EXCEPT
          !.phase = "done",
          !.pending = {},
          !.startCut = startCut,
          !.startReport = IF w.startCut = NoCut THEN Straddler(w.seen, SeamStart(i)) ELSE @,
          !.endReport = EndReport(w, i),
          !.copies = Copied(@, w.pending, startCut, endCut),
          !.kept = @ \cup Rendered(w.pending, startCut, endCut)]

Streaming(i) == pc = "pool" /\ i \in Workers /\ worker[i].phase = "streaming"

Segment(i, p) ==
    /\ Streaming(i)
    /\ worker[i].cursor < p
    /\ p < LastRead(i)
    /\ IF safe
       THEN /\ Stream(i)!CutFree(p)
            /\ worker' = [worker EXCEPT
                   ![i] = AfterSegment(@, i, p, Stream(i)!Within(worker[i].cursor, p))]
       ELSE \E D \in SUBSET (SpansIn(worker[i].cursor, p) \cap Spottable) :
            /\ PairwiseDisjoint(D)
            /\ worker' = [worker EXCEPT ![i] = AfterSegment(@, i, p, D)]
    /\ UNCHANGED <<safe, truth, pc, merged, draft, output, partDir>>

\* What the last segment may report: within the guarantee, the reference
\* detections the text settles and any spans it does not settle.
TailReports(i) ==
    LET lo == worker[i].cursor
        open == {d \in SpansIn(lo, LastRead(i)) \cap Spottable : ~Stream(i)!Settled(d)}
        settled == {t \in Stream(i)!Within(lo, LastRead(i)) : Stream(i)!Settled(t)}
    IN IF safe
       THEN {D \in {settled \cup X : X \in SUBSET open} : Stream(i)!TailDetections(lo, D)}
       ELSE {D \in SUBSET (SpansIn(lo, LastRead(i)) \cap Spottable) : PairwiseDisjoint(D)}

\* The last segment reaches the end of the pad.
LastSegment(i) ==
    /\ Streaming(i)
    /\ worker[i].cursor < LastRead(i)
    /\ \E D \in TailReports(i) :
         worker' = [worker EXCEPT ![i] = AfterSegment(@, i, LastRead(i), D)]
    /\ UNCHANGED <<safe, truth, pc, merged, draft, output, partDir>>

\* The stream is exhausted.
EndOfStream(i) ==
    /\ Streaming(i)
    /\ worker[i].cursor = LastRead(i)
    /\ worker' = [worker EXCEPT ![i] = AfterStream(@, i)]
    /\ UNCHANGED <<safe, truth, pc, merged, draft, output, partDir>>

\* A worker raises (unreadable input, a detector error, a full disk): it
\* removes its own temporary part and the pool re-raises in the caller once
\* the others have finished.
WorkerFails(i) ==
    /\ Streaming(i)
    /\ worker' = [worker EXCEPT ![i].phase = "failed"]
    /\ UNCHANGED <<safe, truth, pc, merged, draft, output, partDir>>

----------------------------------------------------------------------------
(* The orchestrator: redact_file_parallel.                                 *)

SeamsAgree_FirstOnly == worker[1].endReport = worker[2].startReport

\* The seam valve: every pair of neighbours reports the same straddler.
SeamsAgree == \A i \in Workers : ~IsLast(i) => worker[i].endReport = worker[i + 1].startReport

Collect_PartsKept ==
    /\ pc = "pool"
    /\ \A i \in Workers : worker[i].phase # "streaming"
    /\ IF \E i \in Workers : worker[i].phase = "failed"
       THEN pc' = "failed" /\ UNCHANGED <<partDir, draft>>
       ELSE /\ UNCHANGED partDir
            /\ IF SeamsAgree
               THEN pc' = "assembling" /\ draft' = [copies |-> Nowhere, shown |-> {}]
               ELSE pc' = "sequential" /\ UNCHANGED draft
    /\ UNCHANGED <<safe, truth, worker, merged, output>>

Collect_AllDone ==
    /\ pc = "pool"
    /\ \A i \in Workers : worker[i].phase = "done"
    /\ IF SeamsAgree
       THEN pc' = "assembling" /\ draft' = [copies |-> Nowhere, shown |-> {}]
       ELSE pc' = "sequential" /\ UNCHANGED draft
    /\ UNCHANGED <<safe, truth, worker, merged, output, partDir>>

\* pool.map has returned every result or raised; leaving the pool waits for
\* every worker either way.
Collect ==
    /\ pc = "pool"
    /\ \A i \in Workers : worker[i].phase # "streaming"
    /\ IF \E i \in Workers : worker[i].phase = "failed"
       THEN pc' = "failed" /\ partDir' = FALSE /\ UNCHANGED draft
       ELSE /\ UNCHANGED partDir
            /\ IF SeamsAgree
               THEN pc' = "assembling" /\ draft' = [copies |-> Nowhere, shown |-> {}]
               ELSE pc' = "sequential" /\ UNCHANGED draft
    /\ UNCHANGED <<safe, truth, worker, merged, output>>

\* Redactor.redact_file, whose output is the stream over the whole file and
\* is moved into place when complete.
Sequential ==
    /\ pc = "sequential"
    /\ \E D \in IF safe THEN {truth} ELSE {E \in SUBSET Spottable : PairwiseDisjoint(E)} :
         output' = [copies |-> [c \in 0 .. TextLen - 1 |-> 1], shown |-> D]
    /\ pc' = "done" /\ partDir' = FALSE
    /\ UNCHANGED <<safe, truth, worker, merged, draft>>

AppendPart_InPlace ==
    /\ pc = "assembling"
    /\ merged < Len(seams) - 1
    /\ merged' = merged + 1
    /\ draft' = [copies |-> [c \in DOMAIN draft.copies |->
                                draft.copies[c] + worker[merged + 1].copies[c]],
                 shown |-> draft.shown \cup worker[merged + 1].kept]
    /\ output' = draft'
    /\ UNCHANGED <<safe, truth, worker, pc, partDir>>

\* One part appended to the temporary output, in range order.
AppendPart ==
    /\ pc = "assembling"
    /\ merged < Len(seams) - 1
    /\ merged' = merged + 1
    /\ draft' = [copies |-> [c \in DOMAIN draft.copies |->
                                draft.copies[c] + worker[merged + 1].copies[c]],
                 shown |-> draft.shown \cup worker[merged + 1].kept]
    /\ UNCHANGED <<safe, truth, worker, pc, output, partDir>>

\* atomic_output_bytes: every part copied, the temporary file replaces the
\* output; then rmtree.
Publish ==
    /\ pc = "assembling"
    /\ merged = Len(seams) - 1
    /\ output' = draft
    /\ draft' = None
    /\ pc' = "done" /\ partDir' = FALSE
    /\ UNCHANGED <<safe, truth, worker, merged>>

\* The sequential pass or the copy raises: temporary file and parts removed.
OutputFails ==
    /\ pc \in {"sequential", "assembling"}
    /\ draft' = None
    /\ pc' = "failed" /\ partDir' = FALSE
    /\ UNCHANGED <<safe, truth, worker, merged, output>>

\* The caller's process is killed: nothing is cleaned up.
Killed ==
    /\ pc \notin {"done", "failed", "killed"}
    /\ pc' = "killed"
    /\ UNCHANGED <<safe, truth, worker, merged, draft, output, partDir>>

WorkerStep(i) == (\E p \in SegmentEnds : Segment(i, p)) \/ LastSegment(i) \/ EndOfStream(i)

Next ==
    \/ \E i \in Workers : WorkerStep(i) \/ WorkerFails(i)
    \/ Collect \/ Sequential \/ AppendPart \/ Publish
    \/ OutputFails \/ Killed

SafetySpec == ParallelInit /\ [][Next]_vars

\* The operating system runs every process of the pool and the caller.
Fairness ==
    /\ WF_vars(\E i \in Workers : WorkerStep(i))
    /\ WF_vars(Collect \/ Sequential \/ AppendPart \/ Publish)

Spec == SafetySpec /\ Fairness

----------------------------------------------------------------------------
(* Properties.                                                             *)

Spans_ == SpansIn(0, TextLen)
Characters == 0 .. TextLen - 1

Segments == [lo : 0 .. TextLen, hi : 0 .. TextLen, dets : SUBSET Spans_]

WorkerRecords ==
    [phase : {"streaming", "done", "failed"}, cursor : 0 .. TextLen, pending : SUBSET Segments,
     seen : SUBSET Spans_, startCut : {NoCut} \cup 0 .. TextLen, startReport : SUBSET Spans_,
     endReport : SUBSET Spans_, copies : [Characters -> Nat], kept : SUBSET Spans_]

\* Workers, orchestrator and output hold what the code can store in them.
TypeOK ==
    /\ safe \in Guarantees /\ truth \subseteq Spans_
    /\ worker \in [Workers -> WorkerRecords]
    /\ pc \in {"sequential", "pool", "assembling", "done", "failed", "killed"}
    /\ merged \in 0 .. Len(seams) - 1
    /\ partDir \in BOOLEAN

\* The text of the output is complete, in order, and no character appears
\* twice, within the guarantee or not: when assembly starts, everything a part
\* holds lies before everything the next parts hold, and the file renamed into
\* place has each character once.
EveryCharacterOnce ==
    /\ pc = "assembling" =>
        \A i, j \in Workers : i < j =>
            \A b, c \in Characters :
                worker[i].copies[b] > 0 /\ worker[j].copies[c] > 0 => b < c
    /\ output # None => \A c \in Characters : output.copies[c] = 1

\* Within the guarantee the parallel output redacts exactly what the
\* sequential pass does (the docstring of redact_file_parallel).
ParallelIsSequential == safe /\ output # None => output.shown = truth

\* Within the guarantee the valve never fires: neighbours that share no
\* state draw the same conclusion, the entity across the seam if there is
\* one, from streams that were cut and chunked differently.
NeighboursAgree ==
    safe => \A i \in Workers :
        ~IsLast(i) /\ worker[i].phase = "done" /\ worker[i + 1].phase = "done" =>
            /\ worker[i].endReport = worker[i + 1].startReport
            /\ worker[i].endReport = Straddler(truth, SeamEnd(i))

\* A worker holds back no text further than 2 * overlap behind its head
\* (_redact_range; what keeps its memory independent of the range).
HoldbackBounded ==
    \A i \in Workers : \A s \in worker[i].pending :
        \/ s.hi > worker[i].cursor - 2 * Overlap
        \/ worker[i].cursor < SeamStart(i) + 2 * Overlap

\* Unless it is killed, a run leaves neither parts nor a temporary output
\* behind, and removes the parts only when no worker can still write one.
CleanedUp ==
    /\ pc \in {"done", "failed"} => ~partDir /\ draft = None
    /\ ~partDir /\ Len(seams) >= 3 => \A i \in Workers : worker[i].phase # "streaming"

----------------------------------------------------------------------------
(* The inductive invariant behind them.                                    *)

\* Where the text of a worker ends, once it knows.
EndCut(w, i) == CutAt(w.endReport, SeamEnd(i))

\* A segment that is still held back has the character c.
HeldBack(w, c) == \E s \in w.pending : s.lo <= c /\ c < s.hi

\* A worker's bookkeeping: the segments it holds back are disjoint pieces of
\* what it streamed, and its start seam is decided by the span seen across it.
Bookkeeping(w, i) ==
    /\ w.cursor \in FirstRead(i) .. LastRead(i)
    /\ w.seen \subseteq SpansIn(FirstRead(i), w.cursor) /\ PairwiseDisjoint(w.seen)
    /\ \A s \in w.pending :
         /\ FirstRead(i) <= s.lo /\ s.lo < s.hi /\ s.hi <= w.cursor
         /\ s.dets \subseteq SpansIn(s.lo, s.hi)
         /\ \A t \in w.pending : s # t => s.hi <= t.lo \/ t.hi <= s.lo
    /\ w.startReport \subseteq SpansIn(FirstRead(i), w.cursor)
    /\ PairwiseDisjoint(w.startReport)
    /\ \A d \in w.startReport : Straddles(d, SeamStart(i))
    /\ w.startCut # NoCut => w.startCut = CutAt(w.startReport, SeamStart(i))
    /\ w.endReport = {}

\* While it streams: before its start is decided a worker writes nothing and
\* forgets nothing; from then on it has written, once, every character from
\* there on that it does not hold back, and holds back the last 2 * overlap.
TextSoFar(w, i) ==
    IF w.startCut = NoCut
    THEN /\ w.copies = Nowhere /\ w.kept = {}
         /\ \A c \in FirstRead(i) .. w.cursor - 1 : HeldBack(w, c)
         /\ w.pending = {} \/ w.cursor < SeamStart(i) + 2 * Overlap
    ELSE /\ \A c \in Characters :
              w.copies[c] = IF w.startCut <= c /\ c < w.cursor /\ ~HeldBack(w, c) THEN 1 ELSE 0
         /\ \A c \in FirstRead(i) .. w.cursor - 1 : ~HeldBack(w, c) => c < w.cursor - 2 * Overlap
         /\ \A s \in w.pending : s.hi > w.cursor - 2 * Overlap
         /\ \A d \in w.startReport : d \in w.seen \/ d.end <= w.cursor - 2 * Overlap

\* When it is done: the part holds its text once, from cut to cut.
TextDone(w, i) ==
    /\ w.pending = {} /\ w.startCut # NoCut
    /\ w.startCut = CutAt(w.startReport, SeamStart(i))
    /\ SeamStart(i) <= w.startCut /\ w.startCut <= EndCut(w, i)
    /\ SeamEnd(i) <= EndCut(w, i) /\ EndCut(w, i) <= TextLen
    /\ IsLast(i) => w.endReport = {}
    /\ \A c \in Characters :
         w.copies[c] = IF w.startCut <= c /\ c < EndCut(w, i) THEN 1 ELSE 0

\* The verdict on d is fixed by what worker i reads.
SettledFor(i, d) == LastRead(i) = TextLen \/ d.end + RightContext <= LastRead(i)

\* D is the reference, wherever worker i can know it, between two segment ends.
Faithful(i, lo, hi, D) ==
    /\ \A d \in D : Size(d) <= MaxSpan
    /\ \A d \in SpansIn(lo, hi) : SettledFor(i, d) => (d \in D <=> d \in truth)

\* No entity that worker i can know lies across p.
CutsNone(i, p) ==
    \A t \in truth : t.start >= FirstRead(i) /\ SettledFor(i, t) => ~Straddles(t, p)

\* Within the guarantee, while it streams: segments, memory and written text
\* show the reference detections.
ShownSoFar(w, i) ==
    /\ CutsNone(i, w.cursor)
    /\ \A d \in w.seen : Size(d) <= MaxSpan
    /\ \A d \in SpansIn(FirstRead(i), w.cursor) :
         SettledFor(i, d) /\ (w.startCut = NoCut \/ d.end > w.cursor - 2 * Overlap)
            => (d \in w.seen <=> d \in truth)
    /\ \A s \in w.pending : Faithful(i, s.lo, s.hi, s.dets) /\ CutsNone(i, s.hi)
    /\ w.startCut # NoCut =>
         /\ w.startReport = Straddler(truth, SeamStart(i))
         /\ w.kept = {t \in truth : /\ w.startCut <= t.start /\ t.start < w.cursor
                                    /\ ~HeldBack(w, t.start)}

\* Within the guarantee, when it is done.
ShownDone(w, i) ==
    /\ w.startReport = Straddler(truth, SeamStart(i))
    /\ w.endReport = Straddler(truth, SeamEnd(i))
    /\ w.kept = {t \in truth : w.startCut <= t.start /\ t.end <= EndCut(w, i)}

WorkersInv ==
    /\ safe => /\ PairwiseDisjoint(truth)
               /\ \A t \in truth : Size(t) <= MaxSpan
    /\ \A i \in Workers :
         /\ worker[i].phase = "streaming" =>
              /\ Bookkeeping(worker[i], i) /\ TextSoFar(worker[i], i)
              /\ safe => ShownSoFar(worker[i], i)
         /\ worker[i].phase = "done" =>
              /\ TextDone(worker[i], i)
              /\ safe => ShownDone(worker[i], i)

\* The end of the text assembled from the first n parts.
Assembled(n) == IF n = 0 THEN 0 ELSE EndCut(worker[n], n)

\* The orchestrator: assembly only starts from parts that are complete and
\* agree, and the temporary output is always the text up to a cut.
CallerInv ==
    /\ pc = "pool" => partDir /\ merged = 0
    /\ pc \in {"pool", "sequential"} => draft = None
    /\ pc \in {"sequential", "assembling", "failed"} /\ Len(seams) >= 3
         => \A i \in Workers : worker[i].phase # "streaming"
    /\ output # None => pc = "done"
    /\ pc = "assembling" =>
         /\ SeamsAgree /\ partDir
         /\ \A i \in Workers : worker[i].phase = "done"
         /\ draft = [copies |-> [c \in Characters |-> IF c < Assembled(merged) THEN 1 ELSE 0],
                     shown |-> draft.shown]
         /\ safe => draft.shown = {t \in truth : t.end <= Assembled(merged)}

\* Everything that holds of a call at every moment.
CallInv ==
    /\ TypeOK /\ WorkersInv /\ CallerInv
    /\ EveryCharacterOnce /\ ParallelIsSequential /\ CleanedUp /\ HoldbackBounded

\* The output path changes at most once, from what was there before to the
\* output of a run that then reports success; no other run touches it.
ReplacedWhole == [][output # output' => output = None /\ pc' = "done"]_vars

\* Every run ends.
Finishes == <>(pc \in {"done", "failed", "killed"})
=============================================================================
