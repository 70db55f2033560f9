-------------------------- MODULE MCArbitration --------------------------
(***************************************************************************)
(* Small instances of Arbitration.                                        *)
(***************************************************************************)
EXTENDS Arbitration

Detected(starts, sizes, confidences, tiers) ==
    {[start |-> s, end |-> s + n, confidence |-> c, ner |-> t] :
        s \in starts, n \in sizes, c \in confidences, t \in tiers}

\* The sets of at most n detections out of D.
UpTo(n, D) == {{f[i] : i \in 1..n} : f \in [1..n -> D]}

\* Nested, partly overlapping, touching and separate spans in both tiers.
MCDetections == Detected(0..3, {1, 3}, 1..2, BOOLEAN)
MCTexts == {S \cup {d} : S \in UpTo(3, MCDetections), d \in MCDetections}

\* Tier-0 spans long enough to overlap in chains.
MCChains == UpTo(3, Detected({4, 7, 10}, {4}, 1..3, {FALSE}))

\* A window that ends one longest span after the first span of a chain.
MCWindow == [lo |-> 0, hi |-> 12]
=============================================================================
