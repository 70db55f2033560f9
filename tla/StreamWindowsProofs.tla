------------------------ MODULE StreamWindowsProofs ------------------------
(***************************************************************************)
(* Proofs about engine.stream_windows, for every document, chunking,      *)
(* overlap and chunk size. The only hypothesis, of the theorems about     *)
(* equivalence with the whole document, is SafeOverlap, which the         *)
(* Redactor's constructor enforces.                                       *)
(***************************************************************************)
EXTENDS StreamWindows, TLAPS

\* min_emit is never below the overlap, nor below one character.
LEMMA EmitFloorBounds ==
    EmitFloor \in Nat /\ EmitFloor >= Overlap /\ EmitFloor >= 1
BY StreamAssumption DEF EmitFloor, Larger

\* With pairwise disjoint detections the boundary retreats, if at all, to the
\* start of the one detection that straddles it.
LEMMA RetreatIsShort ==
    ASSUME NEW lo \in Int, NEW hi \in Int, NEW D \in SUBSET SpansIn(lo, hi),
           PairwiseDisjoint(D),
           NEW planned \in Int, NEW cut \in Int, cut < planned,
           Retreated(D, planned, cut)
    PROVE  \E d \in D : d.start = cut /\ planned < d.end
<1>1. PICK d \in D : Straddles(d, planned)
  BY DEF Retreated
<1>2. d.start \in Int /\ d.end \in Int /\ d.start < planned /\ planned < d.end
  BY <1>1 DEF SpansIn, Straddles
<1>3. ~(d.start > cut)
  <2>1. SUFFICES ASSUME d.start > cut PROVE FALSE
    OBVIOUS
  <2>2. d.start \in cut + 1 .. planned
    BY <1>2, <2>1
  <2>3. PICK e \in D : Straddles(e, d.start)
    BY <2>2 DEF Retreated
  <2>4. e.start \in Int /\ e.end \in Int /\ e.start < d.start /\ d.start < e.end
    BY <2>3 DEF SpansIn, Straddles
  <2>5. e # d /\ Overlap2(e, d)
    BY <1>2, <2>4 DEF Overlap2
  <2>6. QED
    BY <2>5 DEF PairwiseDisjoint
<1>4. ~(d.start < cut)
  BY <1>2 DEF Retreated, Straddles
<1>5. QED
  BY <1>2, <1>3, <1>4

\* What makes a pass trustworthy: before the planned boundary the window has
\* all the context any verdict reads, so there the detectors agree with the
\* whole-document reference.
LEMMA WindowVerdict ==
    ASSUME IsReference(truth), SafeOverlap,
           NEW lo \in Nat, NEW from \in Nat, NEW hi \in Nat, hi <= TextLen,
           lo = 0 \/ lo <= from - Overlap,
           NEW D \in Detections(lo, from, hi)
    PROVE  /\ D \subseteq SpansIn(from, hi)
           /\ PairwiseDisjoint(D)
           /\ \A d \in D : Size(d) <= MaxSpan
           /\ \A d \in SpansIn(from, hi) :
                 hi = TextLen \/ d.end + RightContext <= hi => (d \in D <=> d \in truth)
           /\ \A d \in truth : from <= d.start /\ d.start < Planned(hi)
                              => d \in D /\ d.end + RightContext <= hi
           /\ \A d \in SpansIn(from, hi) : d.start < Planned(hi) => (d \in D <=> d \in truth)
<1> DEFINE cands == Candidates(from, hi)
           sure  == {d \in cands : Reliable(d, lo, hi) /\ d \in truth}
           open  == {d \in cands : ~Reliable(d, lo, hi)}
<1>1. PICK junk \in SUBSET open : D = sure \cup junk /\ PairwiseDisjoint(D)
  BY DEF Detections
<1>2. D \subseteq cands
  BY <1>1
<1>3. D \subseteq SpansIn(from, hi) /\ \A d \in D : Size(d) <= MaxSpan
  BY <1>2 DEF Candidates
<1>4. \A d \in cands : Reliable(d, lo, hi) => (d \in D <=> d \in truth)
  BY <1>1
<1>5. \A d \in SpansIn(from, hi) : d.start \in Int /\ d.end \in Int /\ from <= d.start
  BY DEF SpansIn
<1>6. \A d \in SpansIn(from, hi) :
         hi = TextLen \/ d.end + RightContext <= hi => Reliable(d, lo, hi)
  BY <1>5, StreamAssumption DEF Reliable, SafeOverlap, Larger
<1>7. \A d \in SpansIn(from, hi) : d \notin cands => d \notin D /\ d \notin truth
  BY <1>2 DEF Candidates, IsReference
<1>8. \A d \in SpansIn(from, hi) :
         hi = TextLen \/ d.end + RightContext <= hi => (d \in D <=> d \in truth)
  BY <1>4, <1>6, <1>7
<1>9. ASSUME NEW d \in truth, from <= d.start, d.start < Planned(hi)
      PROVE  d \in SpansIn(from, hi) /\ d.end + RightContext <= hi
  <2>1. d \in SpansIn(0, TextLen) /\ Size(d) <= MaxSpan
    BY DEF IsReference
  <2>2. d.start \in Int /\ d.end \in Int /\ d.start < d.end /\ d.end - d.start <= MaxSpan
    BY <2>1 DEF SpansIn, Size
  <2>3. d.end + RightContext <= hi
    BY <1>9, <2>2, StreamAssumption DEF Planned, SafeOverlap, Larger
  <2>4. d.start \in from .. hi /\ d.end \in from .. hi
    BY <1>9, <2>2, <2>3, StreamAssumption
  <2>5. QED
    BY <2>1, <2>2, <2>3, <2>4 DEF SpansIn
<1>10. ASSUME NEW d \in SpansIn(from, hi), d.start < Planned(hi)
       PROVE  d \in D <=> d \in truth
  <2>1. CASE Size(d) <= MaxSpan
    <3>1. d.end + RightContext <= hi
      BY <1>5, <1>10, <2>1, StreamAssumption DEF Planned, SafeOverlap, Larger, Size
    <3>2. QED
      BY <1>8, <3>1
  <2>2. CASE ~(Size(d) <= MaxSpan)
    BY <1>7, <2>2 DEF Candidates
  <2>3. QED
    BY <2>1, <2>2
<1>11. QED
  BY <1>1, <1>3, <1>8, <1>9, <1>10

-----------------------------------------------------------------------------
\* What a pass keeps are disjoint spans of its buffer, reliable or not.
LEMMA DetectionsInWindow ==
    ASSUME NEW lo, NEW from \in Nat, NEW hi \in Nat, NEW D \in Detections(lo, from, hi)
    PROVE  D \subseteq SpansIn(from, hi) /\ PairwiseDisjoint(D)
BY DEF Detections, Candidates

\* A wider range of characters has more spans.
LEMMA SpansGrow ==
    ASSUME NEW a \in Int, NEW b \in Int, NEW c \in Int, NEW e \in Int, c <= a, b <= e
    PROVE  SpansIn(a, b) \subseteq SpansIn(c, e)
BY DEF SpansIn

\* TypeOK holds whatever the overlap: cursors stay ordered, spans stay inside
\* the text already yielded.
THEOREM TypeCorrect == SafetySpec => []TypeOK
<1>1. Init => TypeOK
  BY StreamAssumption, EmitFloorBounds
  DEF Init, TypeOK, Larger, NoWindow, WindowTraces
<1>2. TypeOK /\ [Next]_vars => TypeOK'
  <2> SUFFICES ASSUME TypeOK, [Next]_vars PROVE TypeOK'
    OBVIOUS
  <2> USE StreamAssumption, EmitFloorBounds
  <2>1. ASSUME NEW n \in 0 .. MaxChunk, Accumulate(n) PROVE TypeOK'
    BY <2>1 DEF TypeOK, Accumulate, Chunk
  <2>2. ASSUME NEW n \in 0 .. MaxChunk, Emit(n) PROVE TypeOK'
    <3>1. PICK D \in Detections(context, emitted, received + n),
               cut \in emitted + 1 .. Planned(received + n) :
             /\ emitted' = cut
             /\ found' = found \cup Ready(D, cut)
             /\ context' = NextContext(context, cut)
             /\ window' = Trace(received + n, Planned(received + n), cut, FALSE)
      BY <2>2 DEF Emit
    <3>2. Planned(received + n) \in emitted .. received + n
      BY <3>1 DEF TypeOK, Planned
    <3>3. received' = received + n /\ received' <= Last /\ emitted' \in First .. received'
      BY <2>2, <3>1, <3>2 DEF Emit, Chunk, TypeOK
    <3>4. context' \in 0 .. emitted'
      BY <3>1, <3>2 DEF TypeOK, NextContext, Larger, Planned
    <3>5. found' \subseteq SpansIn(First, emitted')
      <4>1. D \subseteq SpansIn(emitted, received + n)
        BY DetectionsInWindow DEF TypeOK
      <4>2. \A d \in Ready(D, cut) : d \in SpansIn(First, cut)
        BY <3>1, <4>1 DEF Ready, SpansIn, TypeOK
      <4>3. SpansIn(First, emitted) \subseteq SpansIn(First, cut)
        BY SpansGrow DEF TypeOK
      <4>4. QED
        BY <3>1, <4>2, <4>3 DEF TypeOK
    <3>6. window' \in WindowTraces
      BY <3>1, <3>2 DEF TypeOK, Trace, WindowTraces
    <3>7. need' = Overlap + EmitFloor /\ UNCHANGED <<truth, strict, status>>
      BY <2>2 DEF Emit
    <3>8. received' \in First .. Last
      BY <3>3 DEF TypeOK
    <3>9. QED
      BY <3>3, <3>4, <3>5, <3>6, <3>7, <3>8 DEF TypeOK
  <2>3. ASSUME NEW n \in 0 .. MaxChunk, Pin(n) PROVE TypeOK'
    <3>1. received + n - emitted >= need
      BY <2>3 DEF Pin, TypeOK
    <3>3. need' = received + n - emitted + EmitFloor
      BY <2>3 DEF Pin, TypeOK
    <3>4. window' = Trace(received + n, Planned(received + n), emitted, FALSE)
      BY <2>3 DEF Pin
    <3>2. Planned(received + n) - emitted \in Nat
      BY <3>1 DEF TypeOK, Planned
    <3>5. UNCHANGED <<truth, strict, emitted, context, found, status>> /\ received' \in First .. Last
                                                             /\ emitted <= received'
      BY <2>3 DEF TypeOK, Pin, Chunk
    <3>6. QED
      BY <3>1, <3>2, <3>3, <3>4, <3>5 DEF TypeOK, Trace, WindowTraces
  <2>4. ASSUME NEW n \in 0 .. MaxChunk, FailOverlong(n) PROVE TypeOK'
    BY <2>4 DEF TypeOK, FailOverlong, Chunk
  <2>5. ASSUME Flush PROVE TypeOK'
    <3>1. CASE UNCHANGED <<emitted, found, window>>
      BY <2>5, <3>1 DEF TypeOK, Flush
    <3>2. CASE ~UNCHANGED <<emitted, found, window>>
      <4>1. PICK D \in Detections(context, emitted, received) :
               /\ emitted' = received
               /\ found' = found \cup D
               /\ window' = Trace(received, received, received, TRUE)
        BY <2>5, <3>2 DEF Flush
      <4>2. D \subseteq SpansIn(emitted, received)
        BY DetectionsInWindow DEF TypeOK
      <4>3. found' \subseteq SpansIn(First, received)
        BY <4>1, <4>2, SpansGrow DEF TypeOK
      <4>4. window' \in WindowTraces
        BY <4>1 DEF TypeOK, Trace, WindowTraces
      <4>5. UNCHANGED <<truth, strict, received, context, need>> /\ status' \in {"done", "failed"}
        BY <2>5 DEF Flush
      <4>6. emitted' \in First .. received' /\ context' \in 0 .. emitted'
        BY <4>1, <4>5 DEF TypeOK
      <4>7. QED
        BY <4>1, <4>3, <4>4, <4>5, <4>6 DEF TypeOK
    <3>3. QED
      BY <3>1, <3>2
  <2>6. CASE UNCHANGED vars
    BY <2>6 DEF TypeOK, vars
  <2>7. QED
    BY <2>1, <2>2, <2>3, <2>4, <2>5, <2>6 DEF Next, Step
<1>3. QED
  BY <1>1, <1>2, PTL DEF SafetySpec

-----------------------------------------------------------------------------
\* At a safe overlap a pass that emits keeps the invariant: everything before
\* the cut is decided as in the whole document, and nothing straddles the cut.
LEMMA EmitKeepsInv ==
    ASSUME StreamInv, TypeOK', SafeOverlap, NEW n \in 0 .. MaxChunk, Emit(n)
    PROVE  StreamInv'
<1> DEFINE hi == received + n
<1> USE StreamAssumption, EmitFloorBounds
<1>1. PICK D \in Detections(context, emitted, hi), cut \in emitted + 1 .. Planned(hi) :
         /\ Retreated(D, Planned(hi), cut)
         /\ emitted' = cut
         /\ found' = found \cup Ready(D, cut)
         /\ context' = NextContext(context, cut)
         /\ window' = Trace(hi, Planned(hi), cut, FALSE)
  BY DEF Emit
<1>2. /\ status = "running" /\ status' = "running" /\ truth' = truth
      /\ received' = hi /\ hi \in Nat /\ hi <= Last
      /\ need' = Overlap + EmitFloor
  BY DEF Emit, Chunk, StreamInv, TypeOK
<1>3. /\ hi - emitted >= need /\ need = Overlap + EmitFloor
      /\ hi - emitted < Overlap + EmitFloor + MaxChunk
  BY <1>2 DEF Emit, StreamInv, TypeOK, WindowReach, BoundedBuffer
<1>4. emitted \in Nat /\ context \in Nat /\ context <= emitted /\ First <= emitted
  BY DEF StreamInv, TypeOK
<1>5. Planned(hi) = hi - Overlap /\ Planned(hi) - emitted >= EmitFloor
  BY <1>2, <1>3, <1>4 DEF Planned
<1>6. EmitFloor >= MaxSpan + RightContext
  BY DEF SafeOverlap, Larger
<1>7. /\ D \subseteq SpansIn(emitted, hi)
      /\ PairwiseDisjoint(D)
      /\ \A d \in D : Size(d) <= MaxSpan
      /\ \A d \in truth : emitted <= d.start /\ d.start < Planned(hi) => d \in D
      /\ \A d \in SpansIn(emitted, hi) : d.start < Planned(hi) => (d \in D <=> d \in truth)
  <2>1. context = 0 \/ context <= emitted - Overlap
    BY DEF StreamInv, WindowReach
  <2>2. IsReference(truth)
    BY DEF StreamInv, TypeOK
  <2>3. QED
    BY <1>2, <1>4, <2>1, <2>2, WindowVerdict
<1>8. cut > Planned(hi) - MaxSpan
  <2>1. CASE cut < Planned(hi)
    <3>1. PICK d \in D : d.start = cut /\ Planned(hi) < d.end
      BY <1>1, <1>2, <1>4, <1>5, <1>7, <2>1, RetreatIsShort
    <3>2. d.end - d.start <= MaxSpan /\ d.end \in Int
      BY <1>7, <3>1 DEF Size, SpansIn
    <3>3. QED
      BY <1>2, <1>5, <3>1, <3>2
  <2>2. CASE cut = Planned(hi)
    BY <1>2, <1>5, <2>2
  <2>3. QED
    BY <1>1, <1>2, <1>5, <2>1, <2>2
<1>9. WindowReach'
  BY <1>1, <1>2, <1>4, <1>5 DEF WindowReach, NextContext, Larger, StreamInv
<1>10. BoundedBuffer'
  <2>1. received' - emitted' < Overlap + EmitFloor
    BY <1>1, <1>2, <1>5, <1>6, <1>8
  <2>2. window'.buffer_len = hi - emitted /\ window'.prefix_len = emitted - context
    BY <1>1 DEF Trace
  <2>3. emitted - context <= Overlap
    BY <1>2 DEF StreamInv, WindowReach
  <2>4. QED
    BY <1>3, <2>1, <2>2, <2>3 DEF BoundedBuffer
<1>11. EveryPassEmits'
  <2>1. window'.emit_len = cut - emitted
    BY <1>1 DEF Trace
  <2>2. cut - emitted > EmitFloor - MaxSpan
    BY <1>1, <1>2, <1>4, <1>5, <1>8
  <2>3. QED
    BY <2>1, <2>2 DEF EveryPassEmits
<1>12. ASSUME NEW t \in truth, t.start >= First, Straddles(t, cut) PROVE FALSE
  <2>1. t.start \in Int /\ t.end \in Int /\ t.start < cut /\ cut < t.end
    BY <1>12 DEF StreamInv, TypeOK, IsReference, SpansIn, Straddles
  <2>2. t.start >= emitted
    <3>1. ~Straddles(t, emitted)
      BY <1>2, <1>12 DEF StreamInv, StreamingEquivalence
    <3>2. QED
      BY <1>1, <1>2, <1>4, <1>5, <2>1, <3>1 DEF Straddles
  <2>3. t \in D
    BY <1>1, <1>2, <1>4, <1>5, <1>7, <2>1, <2>2
  <2>4. QED
    BY <1>1, <1>12, <2>3 DEF Retreated
<1>13. ASSUME NEW d \in SpansIn(First, cut) PROVE d \in found' <=> d \in truth
  <2>1. d.start \in Int /\ d.end \in Int /\ First <= d.start /\ d.start < d.end /\ d.end <= cut
    BY <1>1, <1>2, <1>4, <1>5 DEF SpansIn
  <2>2. CASE d.end <= emitted
    <3>1. d \in SpansIn(First, emitted)
      BY <1>4, <2>1, <2>2 DEF SpansIn
    <3>2. d \in found <=> d \in truth
      BY <1>2, <3>1 DEF StreamInv, StreamingEquivalence
    <3>3. d \notin D
      BY <1>4, <1>7, <2>1, <2>2 DEF SpansIn
    <3>4. QED
      BY <1>1, <3>2, <3>3 DEF Ready
  <2>3. CASE emitted < d.end
    <3>1. d \notin found
      BY <1>4, <2>1, <2>3 DEF StreamInv, TypeOK, SpansIn
    <3>2. CASE emitted <= d.start
      <4>1. d \in SpansIn(emitted, hi)
        BY <1>1, <1>2, <1>4, <1>5, <2>1, <3>2 DEF SpansIn
      <4>2. d \in D <=> d \in truth
        BY <1>1, <1>2, <1>4, <1>5, <1>7, <2>1, <4>1
      <4>3. QED
        BY <1>1, <2>1, <3>1, <4>2 DEF Ready
    <3>3. CASE d.start < emitted
      <4>1. d \notin truth
        BY <1>2, <2>1, <2>3, <3>3 DEF StreamInv, StreamingEquivalence, Straddles
      <4>2. d \notin D
        BY <1>4, <1>7, <2>1, <3>3 DEF SpansIn
      <4>3. QED
        BY <1>1, <3>1, <4>1, <4>2 DEF Ready
    <3>4. QED
      BY <1>4, <2>1, <3>2, <3>3
  <2>4. QED
    BY <1>4, <2>1, <2>2, <2>3
<1>14. StreamingEquivalence'
  BY <1>1, <1>2, <1>12, <1>13 DEF StreamingEquivalence
<1>15. QED
  BY <1>9, <1>10, <1>11, <1>14 DEF StreamInv

\* At a safe overlap no detection can pin the buffer: the boundary would have
\* to retreat by more than one entity.
LEMMA NeverPinned ==
    ASSUME StreamInv, SafeOverlap, NEW n \in 0 .. MaxChunk
    PROVE  ~Pin(n)
<1> SUFFICES ASSUME Pin(n) PROVE FALSE
  OBVIOUS
<1> DEFINE hi == received + n
<1> USE StreamAssumption, EmitFloorBounds
<1>1. PICK D \in Detections(context, emitted, hi) : Retreated(D, Planned(hi), emitted)
  BY DEF Pin
<1>2. /\ status = "running" /\ hi \in Nat /\ hi <= Last
      /\ emitted \in Nat /\ context \in Nat
      /\ hi - emitted >= need /\ need = Overlap + EmitFloor
  BY DEF Pin, Chunk, StreamInv, TypeOK, WindowReach
<1>3. Planned(hi) \in Int /\ Planned(hi) - emitted >= EmitFloor
  BY <1>2 DEF Planned
<1>4. EmitFloor >= MaxSpan
  BY DEF SafeOverlap, Larger
<1>5. /\ D \subseteq SpansIn(emitted, hi)
      /\ PairwiseDisjoint(D)
      /\ \A d \in D : Size(d) <= MaxSpan
  <2>1. context = 0 \/ context <= emitted - Overlap
    BY DEF StreamInv, WindowReach
  <2>2. IsReference(truth)
    BY DEF StreamInv, TypeOK
  <2>3. QED
    BY <1>2, <2>1, <2>2, WindowVerdict
<1>6. PICK d \in D : d.start = emitted /\ Planned(hi) < d.end
  <2> HIDE DEF hi
  <2>1. hi \in Int /\ emitted \in Int /\ D \in SUBSET SpansIn(emitted, hi)
    BY <1>2, <1>5
  <2>2. Planned(hi) \in Int /\ emitted < Planned(hi)
    BY <1>2, <1>3
  <2>3. QED
    BY <1>1, <1>5, <2>1, <2>2, RetreatIsShort
<1>7. d.end - d.start <= MaxSpan /\ d.end \in Int
  BY <1>5, <1>6 DEF Size, SpansIn
<1>8. QED
  BY <1>2, <1>3, <1>4, <1>6, <1>7

\* At a safe overlap strict_spans never fires: no span outgrows the window.
LEMMA NeverOverlong ==
    ASSUME SafeOverlap, NEW lo, NEW from, NEW hi, NEW D \in Detections(lo, from, hi)
    PROVE  ~Overlong(D)
<1>1. \A d \in D : Size(d) <= MaxSpan /\ Size(d) \in Int
  BY DEF Detections, Candidates, SpansIn, Size
<1>2. QED
  BY <1>1, StreamAssumption DEF SafeOverlap, Larger, Overlong

\* The last segment reports exactly the reference entities the text settles.
LEMMA FlushKeepsInv ==
    ASSUME StreamInv, TypeOK', SafeOverlap, Flush
    PROVE  StreamInv'
<1> USE StreamAssumption, EmitFloorBounds
<1>1. status = "running" /\ received = Last /\ UNCHANGED <<truth, strict, received, context, need>>
  BY DEF Flush
<1>2. emitted \in Nat /\ emitted <= received /\ First <= emitted /\ context \in Nat
  BY DEF StreamInv, TypeOK
<1>3. CASE emitted = received
  <2>1. ~(emitted < received)
    BY <1>2, <1>3
  <2>2. status' = "done" /\ UNCHANGED <<emitted, found, window>>
    BY <2>1 DEF Flush
  <2>3. QED
    BY <1>1, <2>2 DEF StreamInv, WindowReach, StreamingEquivalence, BoundedBuffer, EveryPassEmits
<1>4. CASE emitted < received
  <2>0. emitted # received
    BY <1>1, <1>2, <1>4
  <2>1. PICK D \in Detections(context, emitted, received) :
           /\ status' = "done" /\ emitted' = received /\ found' = found \cup D
           /\ window' = Trace(received, received, received, TRUE)
    <3>1. \A D \in Detections(context, emitted, received) : ~Overlong(D)
      BY NeverOverlong
    <3>2. QED
      BY <2>0, <3>1 DEF Flush
  <2>2. /\ D \subseteq SpansIn(emitted, received)
        /\ \A d \in SpansIn(emitted, received) :
              received = TextLen \/ d.end + RightContext <= received => (d \in D <=> d \in truth)
    <3>1. context = 0 \/ context <= emitted - Overlap
      BY DEF StreamInv, WindowReach
    <3>2. IsReference(truth)
      BY DEF StreamInv, TypeOK
    <3>3. QED
      BY <1>1, <1>2, <3>1, <3>2, WindowVerdict
  <2>3. WindowReach'
    BY <1>1, <1>2, <2>1 DEF StreamInv, WindowReach
  <2>4. BoundedBuffer'
    BY <1>1, <1>2, <1>4, <2>1 DEF StreamInv, WindowReach, BoundedBuffer, Trace
  <2>5. EveryPassEmits'
    BY <2>1 DEF EveryPassEmits, Trace
  <2>6. ASSUME NEW d \in SpansIn(First, received), Last = TextLen \/ d.end + RightContext <= Last
        PROVE d \in found' <=> d \in truth
    <3>1. d.start \in Int /\ d.end \in Int /\ First <= d.start /\ d.start < d.end
                          /\ d.end <= received
      BY <1>1, <1>2 DEF SpansIn
    <3>2. CASE d.end <= emitted
      <4>1. d \in SpansIn(First, emitted)
        BY <1>2, <3>1, <3>2 DEF SpansIn
      <4>2. d \in found <=> d \in truth
        BY <1>1, <4>1 DEF StreamInv, StreamingEquivalence
      <4>3. d \notin D
        BY <1>2, <2>2, <3>1, <3>2 DEF SpansIn
      <4>4. QED
        BY <2>1, <4>2, <4>3
    <3>3. CASE emitted < d.end
      <4>1. d \notin found
        BY <1>2, <3>1, <3>3 DEF StreamInv, TypeOK, SpansIn
      <4>2. CASE emitted <= d.start
        <5>1. d \in SpansIn(emitted, received)
          BY <1>1, <1>2, <3>1, <4>2 DEF SpansIn
        <5>2. QED
          BY <1>1, <2>1, <2>2, <2>6, <4>1, <5>1
      <4>3. CASE d.start < emitted
        <5>1. d \notin truth
          BY <1>1, <3>1, <3>3, <4>3 DEF StreamInv, StreamingEquivalence, Straddles
        <5>2. d \notin D
          BY <1>2, <2>2, <3>1, <4>3 DEF SpansIn
        <5>3. QED
          BY <2>1, <4>1, <5>1, <5>2
      <4>4. QED
        BY <1>2, <3>1, <4>2, <4>3
    <3>4. QED
      BY <1>2, <3>1, <3>2, <3>3
  <2>7. StreamingEquivalence'
    BY <1>1, <2>1, <2>6 DEF StreamingEquivalence
  <2>8. QED
    BY <2>3, <2>4, <2>5, <2>7 DEF StreamInv
<1>5. QED
  BY <1>1, <1>2, <1>3, <1>4

\* The whole inductive step.
LEMMA StepKeepsInv ==
    ASSUME SafeOverlap, StreamInv, TypeOK', [Next]_vars
    PROVE  StreamInv'
<1> USE StreamAssumption, EmitFloorBounds
<1>1. ASSUME NEW n \in 0 .. MaxChunk, Accumulate(n) PROVE StreamInv'
  BY <1>1 DEF Accumulate, Chunk, StreamInv, TypeOK, WindowReach, StreamingEquivalence,
              BoundedBuffer, EveryPassEmits
<1>2. ASSUME NEW n \in 0 .. MaxChunk, FailOverlong(n) PROVE FALSE
  BY <1>2, NeverOverlong DEF FailOverlong
<1>3. CASE UNCHANGED vars
  BY <1>3 DEF vars, StreamInv, TypeOK, WindowReach, StreamingEquivalence, BoundedBuffer,
              EveryPassEmits
<1>4. QED
  BY <1>1, <1>2, <1>3, EmitKeepsInv, NeverPinned, FlushKeepsInv DEF Next, Step

\* Initially nothing is buffered and nothing is claimed.
LEMMA InitInv == ASSUME SafeOverlap, Init, TypeOK PROVE StreamInv
<1>1. SpansIn(First, First) = {}
  BY StreamAssumption DEF SpansIn
<1>2. StreamingEquivalence
  <2>1. \A t \in truth : t.start \in Int
    BY DEF TypeOK, IsReference, SpansIn
  <2>2. QED
    BY <1>1, <2>1, StreamAssumption DEF Init, StreamingEquivalence, Straddles
<1>3. BoundedBuffer /\ EveryPassEmits /\ WindowReach
  BY StreamAssumption, EmitFloorBounds
  DEF Init, BoundedBuffer, EveryPassEmits, WindowReach, NoWindow, Larger
<1>4. QED
  BY <1>2, <1>3 DEF StreamInv

\* Theorem 1 of docs/FORMAL_MODEL.md, at the premise the code enforces
\* (Redactor.enforce_overlap_safety): for every document, every chunking and
\* every detector that meets its declared requirements, the stream yields
\* exactly the whole-document detections and never cuts one. With it, the
\* buffer bound and the progress of every pass.
THEOREM StreamInvariant ==
    ASSUME SafeOverlap PROVE SafetySpec => []StreamInv
<1>1. Init /\ TypeOK => StreamInv
  BY InitInv
<1>2. StreamInv /\ TypeOK' /\ [Next]_vars => StreamInv'
  BY StepKeepsInv
<1>3. QED
  BY <1>1, <1>2, TypeCorrect, PTL DEF SafetySpec

\* Streaming equivalence on its own.
THEOREM StreamingIsWholeDocument ==
    ASSUME SafeOverlap PROVE SafetySpec => []StreamingEquivalence
<1>1. StreamInv => StreamingEquivalence
  BY DEF StreamInv
<1>2. QED
  BY <1>1, StreamInvariant, PTL

\* The memory bound of the engine's docstring.
THEOREM BufferIsBounded ==
    ASSUME SafeOverlap PROVE SafetySpec => []BoundedBuffer
<1>1. StreamInv => BoundedBuffer
  BY DEF StreamInv
<1>2. QED
  BY <1>1, StreamInvariant, PTL

\* Every pass but the last emits more than EmitFloor - MaxSpan characters.
THEOREM PassesEmit ==
    ASSUME SafeOverlap PROVE SafetySpec => []EveryPassEmits
<1>1. StreamInv => EveryPassEmits
  BY DEF StreamInv
<1>2. QED
  BY <1>1, StreamInvariant, PTL

-----------------------------------------------------------------------------
\* Spans that end where others start cannot overlap them.
LEMMA AppendDisjoint ==
    ASSUME NEW lo \in Int, NEW mid \in Int, NEW hi \in Int,
           NEW A \in SUBSET SpansIn(lo, mid), NEW B \in SUBSET SpansIn(mid, hi),
           PairwiseDisjoint(A), PairwiseDisjoint(B)
    PROVE  PairwiseDisjoint(A \cup B)
<1>1. \A a \in A : a.start \in Int /\ a.end \in Int /\ a.end <= mid
  BY DEF SpansIn
<1>2. \A b \in B : b.start \in Int /\ b.end \in Int /\ mid <= b.start
  BY DEF SpansIn
<1>3. \A a \in A, b \in B : ~Overlap2(a, b) /\ ~Overlap2(b, a)
  BY <1>1, <1>2 DEF Overlap2
<1>4. QED
  BY <1>3 DEF PairwiseDisjoint

\* A step of the stream yields nothing new, or disjoint spans of its buffer
\* that passed the length check.
LEMMA NewlyFound ==
    ASSUME TypeOK, [Next]_vars
    PROVE  /\ strict' = strict
           /\ \/ found' = found
              \/ \E D \in SUBSET SpansIn(emitted, Last) :
                    PairwiseDisjoint(D) /\ ~Overlong(D) /\ found' = found \cup D
<1> USE StreamAssumption
<1>1. emitted \in Nat /\ received \in Nat
  BY DEF TypeOK
<1>2. ASSUME NEW n \in 0 .. MaxChunk, Emit(n)
      PROVE  \E D \in SUBSET SpansIn(emitted, Last) :
                PairwiseDisjoint(D) /\ ~Overlong(D) /\ found' = found \cup D
  <2>1. received + n \in Nat /\ received + n <= Last
    BY <1>1, <1>2 DEF Emit, Chunk
  <2>2. PICK D \in Detections(context, emitted, received + n),
             cut \in emitted + 1 .. Planned(received + n) :
           ~Overlong(D) /\ found' = found \cup Ready(D, cut)
    BY <1>2 DEF Emit
  <2>3. D \subseteq SpansIn(emitted, received + n) /\ PairwiseDisjoint(D)
    BY <1>1, <2>1, DetectionsInWindow
  <2>4. D \subseteq SpansIn(emitted, Last)
    BY <1>1, <2>1, <2>3, SpansGrow
  <2>5. Ready(D, cut) \subseteq D
    BY DEF Ready
  <2>6. PairwiseDisjoint(Ready(D, cut)) /\ ~Overlong(Ready(D, cut))
    BY <2>2, <2>3, <2>5 DEF PairwiseDisjoint, Overlong
  <2>7. QED
    BY <2>2, <2>4, <2>5, <2>6
<1>3. ASSUME Flush
      PROVE  \/ found' = found
             \/ \E D \in SUBSET SpansIn(emitted, Last) :
                   PairwiseDisjoint(D) /\ ~Overlong(D) /\ found' = found \cup D
  <2>1. CASE found' # found
    <3>1. PICK D \in Detections(context, emitted, received) :
             ~Overlong(D) /\ found' = found \cup D
      BY <1>3, <2>1 DEF Flush
    <3>2. D \subseteq SpansIn(emitted, Last) /\ PairwiseDisjoint(D)
      BY <1>1, <1>3, DetectionsInWindow DEF Flush
    <3>3. QED
      BY <3>1, <3>2
  <2>2. QED
    BY <2>1
<1>4. CASE UNCHANGED vars
  BY <1>4 DEF vars
<1>5. ASSUME NEW n \in 0 .. MaxChunk, Step(n) PROVE strict' = strict /\ (found' = found \/ Emit(n))
  BY <1>5 DEF Step, Accumulate, Emit, Pin, FailOverlong
<1>6. Flush => strict' = strict
  BY DEF Flush
<1>7. QED
  BY <1>2, <1>3, <1>4, <1>5, <1>6 DEF Next, vars

\* The emitted segments never report two detections over one character,
\* whatever the overlap and however far the detectors stray near a window's
\* edge: engine.stream_windows drops what starts in the rescanned prefix.
THEOREM DetectionsStayDisjoint == SafetySpec => []ReportedIntact
<1>1. Init => ReportedIntact
  BY DEF Init, ReportedIntact, PairwiseDisjoint
<1>2. TypeOK /\ ReportedIntact /\ [Next]_vars => ReportedIntact'
  <2> SUFFICES ASSUME TypeOK, ReportedIntact, [Next]_vars PROVE ReportedIntact'
    OBVIOUS
  <2>1. CASE found' = found
    BY <2>1 DEF ReportedIntact
  <2>2. CASE found' # found
    <3>1. PICK D \in SUBSET SpansIn(emitted, Last) :
             PairwiseDisjoint(D) /\ found' = found \cup D
      BY <2>2, NewlyFound
    <3>2. First \in Int /\ emitted \in Int /\ Last \in Int /\ found \subseteq SpansIn(First, emitted)
      BY StreamAssumption DEF TypeOK
    <3>3. PairwiseDisjoint(found \cup D)
      BY <3>1, <3>2, AppendDisjoint DEF ReportedIntact
    <3>4. QED
      BY <3>1, <3>3 DEF ReportedIntact
  <2>3. QED
    BY <2>1, <2>2
<1>3. QED
  BY <1>1, <1>2, TypeCorrect, PTL DEF SafetySpec

\* strict_spans fails closed at every overlap: _check_overlong raises before a
\* detection longer than the window is yielded, in a pass and in the flush.
THEOREM StrictStreamFailsClosed == SafetySpec => []FailClosed
<1>1. Init => FailClosed
  BY DEF Init, FailClosed
<1>2. TypeOK /\ FailClosed /\ [Next]_vars => FailClosed'
  <2> SUFFICES ASSUME TypeOK, FailClosed, [Next]_vars, strict', Overlap > 0,
                      NEW d \in found', d \notin found
               PROVE  Size(d) <= Overlap
    BY NewlyFound DEF FailClosed
  <2>1. PICK D \in SUBSET SpansIn(emitted, Last) : ~Overlong(D) /\ found' = found \cup D
    BY NewlyFound
  <2>2. d \in D /\ Size(d) \in Int
    BY <2>1 DEF SpansIn, Size
  <2>3. strict
    BY NewlyFound, Zenon
  <2>4. ~(Size(d) > Overlap)
    BY <2>1, <2>2, <2>3 DEF Overlong
  <2>5. QED
    BY <2>2, <2>4, StreamAssumption
<1>3. QED
  BY <1>1, <1>2, TypeCorrect, PTL DEF SafetySpec

-----------------------------------------------------------------------------
\* A pass that emits is a Yield of the contract.
LEMMA EmitIsYield ==
    ASSUME StreamInv, StreamInv', NEW n \in 0 .. MaxChunk, Emit(n)
    PROVE  Contract!CNext
<1> USE StreamAssumption
<1>1. PICK D \in Detections(context, emitted, received + n),
           cut \in emitted + 1 .. Planned(received + n) :
         emitted' = cut /\ found' = found \cup Ready(D, cut)
  BY DEF Emit
<1>2. /\ status = "running" /\ status' = "running" /\ truth' = truth
      /\ emitted \in Nat /\ First <= emitted
  BY DEF Emit, Chunk, StreamInv, TypeOK
<1>3. emitted' \in First .. Last
  BY DEF StreamInv, TypeOK
<1>4. emitted < emitted'
  BY <1>1, <1>2, <1>3
<1>5. Contract!CutFree(emitted')
  BY <1>2
  DEF StreamInv, StreamingEquivalence, Contract!CutFree, Contract!Straddles, Straddles
<1>6. \A d \in SpansIn(First, emitted') : d \in found' <=> d \in truth
  BY <1>2 DEF StreamInv, StreamingEquivalence
<1>7. ASSUME NEW d \in found' PROVE d \in found \cup Contract!Within(emitted, emitted')
  <2>1. d \in SpansIn(First, emitted')
    BY DEF StreamInv, TypeOK
  <2>2. d \in truth /\ d.start \in Int /\ d.end \in Int /\ First <= d.start
        /\ d.start < d.end /\ d.end <= emitted'
    BY <1>3, <1>6, <2>1 DEF SpansIn
  <2>3. CASE d.end <= emitted
    <3>1. d \in SpansIn(First, emitted)
      BY <1>2, <2>1, <2>2, <2>3 DEF SpansIn
    <3>2. QED
      BY <1>2, <2>2, <3>1 DEF StreamInv, StreamingEquivalence
  <2>4. CASE emitted < d.end
    <3>1. ~(d.start < emitted)
      BY <1>2, <2>2, <2>4 DEF StreamInv, StreamingEquivalence, Straddles
    <3>2. QED
      BY <1>2, <2>2, <3>1 DEF Contract!Within
  <2>5. QED
    BY <1>2, <2>2, <2>3, <2>4
<1>8. ASSUME NEW t \in Contract!Within(emitted, emitted') PROVE t \in found'
  <2>1. t \in truth /\ t \in SpansIn(0, TextLen) /\ emitted <= t.start /\ t.end <= emitted'
    BY DEF StreamInv, TypeOK, IsReference, Contract!Within
  <2>2. t \in SpansIn(First, emitted')
    BY <1>2, <1>3, <2>1 DEF SpansIn
  <2>3. QED
    BY <1>6, <2>1, <2>2
<1>9. found' = found \cup Contract!Within(emitted, emitted')
  BY <1>1, <1>7, <1>8
<1>10. Contract!Yield(emitted')
  BY <1>2, <1>4, <1>5, <1>9 DEF Contract!Yield
<1>11. QED
  BY <1>3, <1>10 DEF Contract!CNext

\* The final flush is the contract's last segment.
LEMMA FlushIsYieldLast ==
    ASSUME SafeOverlap, StreamInv, StreamInv', Flush
    PROVE  Contract!CNext
<1> USE StreamAssumption
<1>1. status = "running" /\ received = Last /\ truth' = truth
  BY DEF Flush
<1>2. emitted \in Nat /\ First <= emitted /\ emitted <= received
  BY DEF StreamInv, TypeOK
<1>3. \A d \in SpansIn(emitted, Last) : d \in SpansIn(First, Last) /\ d \notin found
  <2> SUFFICES ASSUME NEW d \in SpansIn(emitted, Last)
               PROVE  d \in SpansIn(First, Last) /\ d \notin found
    OBVIOUS
  <2>1. d \in SpansIn(First, Last)
    BY <1>2, SpansGrow
  <2>2. d \notin SpansIn(First, emitted)
    BY <1>2 DEF SpansIn
  <2>3. QED
    BY <2>1, <2>2 DEF StreamInv, TypeOK
<1>4. /\ status' = "done" /\ emitted' = Last /\ found \subseteq found'
      /\ found' \ found \subseteq SpansIn(emitted, Last)
      /\ PairwiseDisjoint(found' \ found)
      /\ \A d \in found' \ found : Size(d) <= MaxSpan
  <2>1. CASE emitted = received
    <3>1. ~(emitted < received)
      BY <1>2, <2>1
    <3>2. status' = "done" /\ UNCHANGED <<emitted, found>>
      BY <3>1 DEF Flush
    <3>3. QED
      BY <1>1, <2>1, <3>2 DEF PairwiseDisjoint
  <2>2. CASE emitted # received
    <3>1. PICK D \in Detections(context, emitted, received) :
             status' = "done" /\ emitted' = received /\ found' = found \cup D
      <4>1. \A D \in Detections(context, emitted, received) : ~Overlong(D)
        BY NeverOverlong
      <4>2. QED
        BY <2>2, <4>1 DEF Flush
    <3>2. /\ D \subseteq SpansIn(emitted, received) /\ PairwiseDisjoint(D)
          /\ \A d \in D : Size(d) <= MaxSpan
      BY <1>1, <1>2 DEF Detections, Candidates
    <3>3. QED
      BY <1>1, <3>1, <3>2 DEF PairwiseDisjoint
  <2>3. QED
    BY <2>1, <2>2
<1>5. \A d \in SpansIn(emitted, Last) :
         Contract!Settled(d) => (d \in found' <=> d \in truth)
  BY <1>1, <1>3, <1>4 DEF StreamInv, StreamingEquivalence, Contract!Settled
<1>6. Contract!YieldLast
  <2>1. Contract!TailDetections(emitted, found' \ found)
    BY <1>3, <1>4, <1>5
    DEF Contract!TailDetections, Contract!SpansIn, SpansIn, Contract!Size, Size,
        Contract!PairwiseDisjoint, PairwiseDisjoint, Contract!Overlap2, Overlap2
  <2>2. QED
    BY <1>1, <1>4, <2>1 DEF Contract!YieldLast
<1>7. QED
  BY <1>6 DEF Contract!CNext

\* The sliding window, with its buffer, prefix, threshold and retreats, is an
\* implementation of the range contract.
THEOREM StreamImplementsContract ==
    ASSUME SafeOverlap PROVE SafetySpec => Contract!CSafety
<1>1. Init => Contract!CInit
  BY StreamAssumption
  DEF Init, IsReference, Contract!CInit, Contract!SpansIn, SpansIn,
      Contract!PairwiseDisjoint, PairwiseDisjoint, Contract!Overlap2, Overlap2
<1>2. StreamInv /\ StreamInv' /\ [Next]_vars => [Contract!CNext]_(Contract!cvars)
  <2> SUFFICES ASSUME StreamInv, StreamInv', [Next]_vars
               PROVE  [Contract!CNext]_(Contract!cvars)
    OBVIOUS
  <2>1. ASSUME NEW n \in 0 .. MaxChunk, Accumulate(n) PROVE UNCHANGED Contract!cvars
    BY <2>1 DEF Accumulate, Contract!cvars
  <2>2. ASSUME NEW n \in 0 .. MaxChunk, FailOverlong(n) PROVE FALSE
    BY <2>2, NeverOverlong DEF FailOverlong
  <2>3. CASE UNCHANGED vars
    BY <2>3 DEF vars, Contract!cvars
  <2>4. QED
    BY <2>1, <2>2, <2>3, EmitIsYield, NeverPinned, FlushIsYieldLast DEF Next, Step
<1>3. QED
  BY <1>1, <1>2, StreamInvariant, PTL DEF SafetySpec, Contract!CSafety
=============================================================================
