-------------------------- MODULE MCParallelRedact --------------------------
(***************************************************************************)
(* Small instances of ParallelRedact: three ranges of which two are       *)
(* shorter than the pads, so that these reach past the neighbouring        *)
(* range, and one is long enough that its worker flushes while it reads.   *)
(* Calls within the guarantee, for documents with a span across a seam,    *)
(* and calls outside it with spans across one seam and across a range.     *)
(***************************************************************************)
EXTENDS ParallelRedact

MCSeams == <<0, 1, 2, 7>>

\* Every set of pairwise disjoint spans of at most MaxSpan characters that
\* reach over a seam or beside it, and one further on.
MCDocuments ==
    {D \in SUBSET {d \in SpansIn(0, 5) : Size(d) <= MaxSpan} :
        /\ PairwiseDisjoint(D)
        /\ \E d \in D : Straddles(d, 1) \/ Straddles(d, 2)}

MCSpottable ==
    {[start |-> 0, end |-> 2], [start |-> 0, end |-> 3], [start |-> 1, end |-> 3],
     [start |-> 3, end |-> 4]}
=============================================================================
