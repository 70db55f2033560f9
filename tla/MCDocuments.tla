---------------------------- MODULE MCDocuments ----------------------------
(***************************************************************************)
(* The reference detection sets of all documents of a given length.       *)
(***************************************************************************)
EXTENDS Integers

\* Every set of pairwise disjoint spans of at most longest of n characters:
\* len[p] is the length of the span that starts at p, 0 when none does.
DocumentsOf(n, longest) ==
    LET Layouts == {len \in [0 .. n - 1 -> 0 .. longest] :
                      \A p \in DOMAIN len :
                         /\ p + len[p] <= n
                         /\ \A q \in p + 1 .. p + len[p] - 1 : len[q] = 0}
    IN  {{[start |-> p, end |-> p + len[p]] : p \in {q \in DOMAIN len : len[q] > 0}} :
            len \in Layouts}
=============================================================================
