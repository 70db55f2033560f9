----------------------------- MODULE ByteRanges -----------------------------
(***************************************************************************)
(* How parallel.py cuts a UTF-8 file: plan_ranges and what each worker     *)
(* decodes, its range and the characters before and after it.              *)
(*                                                                         *)
(* A byte is named for what the decoder can tell of it: "a" stands alone,  *)
(* as do CR and LF; L2, L3 and L4 lead a character of so many bytes; C     *)
(* and c continue one, and an L3 or L4 does not take a c for its second    *)
(* byte; X starts nothing.  A decoded character is where it starts, its    *)
(* bytes, and whether it is one or a U+FFFD in the place of a faulty one.  *)
(***************************************************************************)
EXTENDS Integers, Sequences

CONSTANTS
    Files,          \* byte sequences
    Workers,        \* how many ranges may be asked for
    Overlaps,       \* overlaps of the redactor, in characters
    MinRange        \* MIN_RANGE_BYTES

VARIABLES bytes, asked, points

rangeVars == <<bytes, asked, points>>

Size == Len(bytes)
At(p) == bytes[p + 1]
Continuation == {"C", "c"}

----------------------------------------------------------------------------
\* Incremental decoding of from .. to - 1, with faults replaced: a character
\* ends where a byte does not continue it, a faulty byte alone is replaced.
Wants(b) == CASE b = "L2" -> 2 [] b = "L3" -> 3 [] b = "L4" -> 4 [] OTHER -> 1

CharacterAt(p, to) ==
    LET n == CHOOSE k \in 1 .. Wants(At(p)) :
                /\ \A q \in p + 1 .. p + k - 1 :
                      /\ q < to
                      /\ At(q) \in Continuation
                      /\ (q = p + 1 /\ Wants(At(p)) > 2) => At(q) = "C"
                /\ \/ k = Wants(At(p))
                   \/ p + k >= to
                   \/ At(p + k) \notin Continuation
                   \/ k = 1 /\ Wants(At(p)) > 2 /\ At(p + 1) = "c"
    IN  [at |-> p, size |-> n,
         whole |-> n = Wants(At(p)) /\ At(p) \notin Continuation \cup {"X"}]

Decoded(from, to) ==
    LET Onwards[p \in Nat] == IF p >= to THEN <<>>
                              ELSE <<CharacterAt(p, to)>> \o Onwards[p + CharacterAt(p, to).size]
    IN  Onwards[from]

----------------------------------------------------------------------------
Least(a, b) == IF a < b THEN a ELSE b
Most(a, b) == IF a > b THEN a ELSE b

\* Mutant: one continuation byte is skipped.
AlignUtf8_OneByte(offset, size) ==
    IF offset <= 0 THEN 0
    ELSE IF offset >= size THEN size
    ELSE IF At(offset) \in Continuation THEN offset + 1 ELSE offset

\* The next byte within four that is no continuation, or past all four.
AlignUtf8(offset, size) ==
    IF offset <= 0 THEN 0
    ELSE IF offset >= size THEN size
    ELSE LET probe == offset .. Least(offset + 4, Size) - 1
             starts == {p \in probe : At(p) \notin Continuation}
         IN  IF starts # {} THEN CHOOSE p \in starts : \A q \in starts : p <= q
             ELSE Least(Least(offset + 4, Size), size)

\* Nor between a CR and its LF.
Align(offset) ==
    LET p == AlignUtf8(offset, Size)
    IN  IF 0 < p /\ p < Size /\ At(p - 1) = "CR" /\ At(p) = "LF" THEN p + 1 ELSE p

SplitPoints(n) == {0, Size} \cup {Align((Size * i) \div n) : i \in 1 .. n - 1}

NextPoint(P, a) == CHOOSE b \in P : b > a /\ \A c \in P : c > a => b <= c

\* No range shorter than four overlaps, counted in bytes, or fewer ranges.
PlanRanges(workers, overlap) ==
    LET Roomy(P) == \A a \in P \ {Size} : NextPoint(P, a) - a >= 4 * overlap
        Coarser[n \in Nat] == IF n < 2 THEN {0, Size}
                              ELSE IF Roomy(SplitPoints(n)) THEN SplitPoints(n)
                              ELSE Coarser[n - 1]
    IN  Coarser[Least(workers, Most(1, Size \div MinRange))]

----------------------------------------------------------------------------
Last(s, n) == SubSeq(s, Most(1, Len(s) - n + 1), Len(s))
First(s, n) == SubSeq(s, 1, Least(n, Len(s)))

\* Four bytes for each character, and four more, reach far enough.
CharsBefore(offset, n) ==
    IF offset <= 0 \/ n <= 0 THEN <<>>
    ELSE LET start == AlignUtf8(Most(0, offset - 4 * n - 4), offset)
         IN  Last(Decoded(start, offset), n)

CharsAfter(offset, n) ==
    IF n <= 0 THEN <<>> ELSE First(Decoded(offset, Least(Size, offset + 4 * n + 4)), n)

----------------------------------------------------------------------------
Init == /\ bytes \in Files
        /\ asked \in [workers : Workers, overlap : Overlaps]
        /\ points = {}

Plan == /\ points = {}
        /\ points' = PlanRanges(asked.workers, asked.overlap)
        /\ UNCHANGED <<bytes, asked>>

Next == Plan

----------------------------------------------------------------------------
\* Wherever the file is cut, each range begins with a character of the file
\* decoded whole and holds the characters up to the next cut, faults included;
\* and what a worker reads around its range is what stands there.
SameCharacters ==
    LET all == Decoded(0, Size)
        Between(a, b) == SelectSeq(all, LAMBDA c : a <= c.at /\ c.at < b)
    IN  \A a \in points \ {Size} :
            LET b == NextPoint(points, a) IN
            /\ Decoded(a, b) = Between(a, b)
            /\ CharsBefore(a, 2 * asked.overlap) = Last(Between(0, a), 2 * asked.overlap)
            /\ CharsAfter(b, asked.overlap) = First(Between(b, Size), asked.overlap)
=============================================================================
