------------------------------- MODULE Spans -------------------------------
(***************************************************************************)
(* Half-open character spans: what entities.Detection is to the engine.   *)
(* The entity type, the text and the confidence are abstracted away: the  *)
(* streaming and parallel engines only look at start and end.             *)
(***************************************************************************)
EXTENDS Integers

\* The spans lying inside the characters lo .. hi - 1.
SpansIn(lo, hi) == {d \in [start : lo .. hi, end : lo .. hi] : d.start < d.end}

Size(d) == d.end - d.start

\* Detection.overlaps
Overlap2(d, e) == d.start < e.end /\ e.start < d.end

PairwiseDisjoint(D) == \A d, e \in D : d # e => ~Overlap2(d, e)

\* A boundary p cuts d when it falls strictly inside it.
Straddles(d, p) == d.start < p /\ p < d.end

Larger(a, b) == IF a >= b THEN a ELSE b
Smaller(a, b) == IF a <= b THEN a ELSE b
=============================================================================
