------------------------------ MODULE PageViews ------------------------------
(***************************************************************************)
(* ui.core: how the page draws a text with its findings.  A text is the   *)
(* sequence of its positions; a drawing is a sequence of cells, characters *)
(* of the text plain or marked, or the replacement of a finding.  Escaping *)
(* and markup are left out.                                                *)
(***************************************************************************)
EXTENDS Spans, Sequences

\* text[from:to]
Slice(text, from, to) == SubSeq(text, from + 1, Smaller(to, Len(text)))

Cells(text, look) == [i \in DOMAIN text |-> [at |-> text[i], look |-> look]]
Replaced(text, f) == <<[at |-> text[f.start + 1], look |-> "replacement"]>>

\* redact_text
RedactText(text, findings) ==
    LET run[i \in Nat, cursor \in Nat] ==
          IF i > Len(findings) THEN Cells(Slice(text, cursor, Len(text)), "plain")
          ELSE Cells(Slice(text, cursor, findings[i].start), "plain")
               \o Replaced(text, findings[i]) \o run[i + 1, findings[i].end]
    IN  run[1, 0]

\* highlight_html
HighlightHtml(text, findings, redacted, limit) ==
    LET shown == SelectSeq(findings, LAMBDA f : f.start < limit)
        run[i \in Nat, cursor \in Nat] ==
          IF i > Len(shown) THEN Cells(Slice(text, cursor, limit), "plain")
          ELSE LET f == shown[i] IN
               Cells(Slice(text, cursor, f.start), "plain")
               \o (IF redacted THEN Replaced(text, f)
                               ELSE Cells(Slice(text, f.start, f.end), "mark"))
               \o run[i + 1, f.end]
    IN  run[1, 0]

\* window_findings, a bisection over the ends and a scan.
WindowFindings(flat, start, end) ==
    LET from == CHOOSE i \in 1 .. Len(flat) + 1 :
                  /\ \A j \in 1 .. i - 1 : flat[j].end < start + 1
                  /\ i <= Len(flat) => flat[i].end >= start + 1
    IN  SelectSeq(SubSeq(flat, from, Len(flat)), LAMBDA f : f.start < end)

\* _marked
Marked(text, start, end, findings) ==
    LET run[i \in Nat, cursor \in Nat] ==
          IF i > Len(findings) THEN Cells(Slice(text, cursor, end), "plain")
          ELSE LET from == Larger(findings[i].start, start)
                   to == Smaller(findings[i].end, end)
               IN  IF to <= from THEN run[i + 1, cursor]
                   ELSE Cells(Slice(text, cursor, from), "plain")
                        \o Cells(Slice(text, from, to), "mark") \o run[i + 1, to]
    IN  run[1, start]

\* window_html: the context, the segment, what is carried, up to the planned
\* boundary and from it.
WindowHtml(text, c, findings) ==
    LET planned == c.emit[2] + c.retreated IN
    <<Marked(text, c.window[1], c.emit[1], findings),
      Marked(text, c.emit[1], c.emit[2], findings),
      Marked(text, c.emit[2], planned, findings),
      Marked(text, planned, c.window[2], findings)>>

\* segment_html, with the findings counted from its start.
SegmentHtml(text, c, redacted) ==
    LET local == [i \in DOMAIN c.findings |->
                    [start |-> c.findings[i].start - c.emit[1], end |-> c.findings[i].end - c.emit[1]]]
        segment == Slice(text, c.emit[1], c.emit[2])
    IN  HighlightHtml(segment, local, redacted, Len(segment))

\* pass_html: the window, the redacted segment, the last segments.
PassHtml(text, chunks, flat, i, retained) ==
    LET c == chunks[i]
        recent == SubSeq(chunks, Larger(1, i - retained + 1), i)
    IN  [window |-> WindowHtml(text, c, WindowFindings(flat, c.window[1], c.window[2])),
         redacted |-> SegmentHtml(text, c, TRUE),
         recent |-> [k \in DOMAIN recent |-> SegmentHtml(text, recent[Len(recent) + 1 - k], FALSE)]]

----------------------------------------------------------------------------
Covered(p, findings) == \E i \in DOMAIN findings : findings[i].start <= p /\ p < findings[i].end

\* The drawing shows text[from:to] in order, with exactly the findings marked.
ShowsMarked(drawing, from, to, findings) ==
    drawing = [i \in 1 .. to - from |->
                 [at |-> from + i - 1,
                  look |-> IF Covered(from + i - 1, findings) THEN "mark" ELSE "plain"]]

\* It shows text[from:to] with each finding as one replacement, and no character
\* of it.
ShowsRedacted(drawing, from, to, findings) ==
    LET kept == SelectSeq([i \in 1 .. to - from |-> from + i - 1],
                          LAMBDA p : ~Covered(p, findings) \/ \E i \in DOMAIN findings : findings[i].start = p)
    IN  drawing = [i \in DOMAIN kept |->
                     [at |-> kept[i], look |-> IF Covered(kept[i], findings) THEN "replacement" ELSE "plain"]]

\* Every view of a pass is true to the text and the findings of the trace, and
\* so are the views of the whole text, cut where the preview ends or at the end
\* of the finding that reaches across.
ViewsTrue(text, chunks, flat, i, retained, limit) ==
    LET page == PassHtml(text, chunks, flat, i, retained)
        c == chunks[i]
        cut == CHOOSE n \in 0 .. Len(text) :
                 /\ n >= Smaller(limit, Len(text)) /\ ~Covered(n, SelectSeq(flat, LAMBDA f : f.start < limit))
                 /\ \A m \in Smaller(limit, Len(text)) .. n - 1 : Covered(m, SelectSeq(flat, LAMBDA f : f.start < limit))
    IN
    /\ ShowsMarked(page.window[1] \o page.window[2] \o page.window[3] \o page.window[4],
                   c.window[1], c.window[2], flat)
    /\ ShowsRedacted(page.redacted, c.emit[1], c.emit[2], flat)
    /\ \A k \in DOMAIN page.recent :
         ShowsMarked(page.recent[k], chunks[i + 1 - k].emit[1], chunks[i + 1 - k].emit[2], flat)
    /\ ShowsMarked(HighlightHtml(text, flat, FALSE, limit), 0, cut, flat)
    /\ ShowsRedacted(HighlightHtml(text, flat, TRUE, limit), 0, cut, flat)
    /\ RedactText(text, flat) = HighlightHtml(text, flat, TRUE, Len(text))
=============================================================================
