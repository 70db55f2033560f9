--------------------------- MODULE SemanticNames ---------------------------
(***************************************************************************)
(* The semantic ensemble of names (detectors/semantic_ensemble.py): what   *)
(* one call reports of a document, and of a window of it.                  *)
(*                                                                         *)
(* A document is a sequence of words, each one position wide and named for *)
(* its lists; a lower-case word ends a run of capitalised ones, and so     *)
(* does a line end.  Scores are in hundredths.  The "X of Y" pattern, the  *)
(* shape of a word and the trace of evidence are left out.                 *)
(***************************************************************************)
EXTENDS Naturals, Integers, Sequences

CONSTANTS
    Givens,         \* records [words, policy, lo, hi]: a document and a window of it
    CandTokens,     \* words of a candidate at most (four)
    Propagation,    \* propagation_window
    MaxConfirmed    \* max_confirmed

VARIABLES given, found

namesVars == <<given, found>>

Capitalised == {"Dr", "Ann", "Lee", "Oak", "The", "Title", "Inc"}
Honorifics == {"Dr"}
NameCues == {"name"}
AddressCues == {"lives at"}
OrgCues == {"employer"}
Suffixes == {"jr"}
GivenNames == {"Ann"}
Surnames == {"Lee"}
CommonWords == {"The"}
FieldLabels == {"Title"}
Designators == {"Inc"}
StopTrim == CommonWords \cup FieldLabels

Policies == [strict |-> [person |-> 55, org |-> 60, cued |-> TRUE],
             high_recall |-> [person |-> 42, org |-> 50, cued |-> FALSE]]

Weight == [honorific |-> 62, suffix |-> 58, name |-> 55, repeated |-> 55, given |-> 34,
           surname |-> 30, multi |-> 20, title |-> 8, common |-> -90, label |-> -90,
           designator |-> -50, none |-> 0]
OrgWeight == [designator |-> 66, cue |-> 45, multi |-> 16, given |-> -50, label |-> -70, none |-> 0]

----------------------------------------------------------------------------
\* The word at a position; positions count from 0.
At(p) == given.words[p + 1]
Words(c) == {At(p) : p \in c.start..(c.end - 1)}
Size(c) == c.end - c.start

\* The runs of capitalised words in [lo, hi), cut into candidates from the
\* left, none overlapping.
Candidates(lo, hi) ==
    LET EndOf(p) == CHOOSE e \in (p + 1)..hi :
                        /\ e - p <= CandTokens
                        /\ \A q \in p..(e - 1) : At(q) \in Capitalised
                        /\ e = hi \/ e - p = CandTokens \/ At(e) \notin Capitalised
        From[p \in 0..hi] == IF p = hi THEN <<>>
                             ELSE IF At(p) \notin Capitalised THEN From[p + 1]
                             ELSE <<[start |-> p, end |-> EndOf(p)]>> \o From[EndOf(p)]
    IN  From[lo]

CueOf(w) == IF w \in Honorifics THEN "honorific"
            ELSE IF w \in NameCues THEN "name"
            ELSE IF w \in AddressCues THEN "address"
            ELSE IF w \in OrgCues THEN "org" ELSE "none"

Leading(w) == w \in Honorifics \cup NameCues \cup AddressCues \cup StopTrim

\* The cue is the word on the left or, failing that, the first that leads the
\* run; leading cues and stop words and trailing stop words are cut off.
Normalized(c, lo) ==
    LET first == CHOOSE p \in c.start..c.end :
                    /\ \A q \in c.start..(p - 1) : Leading(At(q))
                    /\ p = c.end \/ ~Leading(At(p))
        last == CHOOSE p \in first..c.end :
                    /\ \A q \in p..(c.end - 1) : At(q) \in StopTrim
                    /\ p = first \/ At(p - 1) \notin StopTrim
        left == IF c.start > lo THEN CueOf(At(c.start - 1)) ELSE "none"
        led == {p \in c.start..(first - 1) : CueOf(At(p)) # "none"}
    IN  [start |-> first, end |-> last,
         cue |-> IF left # "none" \/ led = {} THEN left
                 ELSE CueOf(At(CHOOSE p \in led : \A q \in led : p <= q))]

Sum(S, weight) == LET Add[T \in SUBSET S] ==
                          IF T = {} THEN 0
                          ELSE LET e == CHOOSE x \in T : TRUE IN weight[e] + Add[T \ {e}]
                  IN  Add[S]

Score(S, weight) == LET s == Sum(S, weight) IN IF s < 0 THEN 0 ELSE IF s > 99 THEN 99 ELSE s

PersonEvidence(c, hi) ==
    {IF c.cue \in {"honorific", "name"} THEN c.cue ELSE "none",
     IF c.end < hi /\ At(c.end) \in Suffixes THEN "suffix" ELSE "none",
     IF At(c.start) \in GivenNames THEN "given" ELSE "none",
     IF Words(c) \cap Surnames # {} THEN "surname" ELSE "none",
     IF Size(c) >= 2 THEN "multi" ELSE "none",
     "title",
     IF Words(c) \cap CommonWords # {} THEN "common" ELSE "none",
     IF Words(c) \cap FieldLabels # {} THEN "label" ELSE "none",
     IF Words(c) \cap Designators # {} THEN "designator" ELSE "none"}

OrgEvidence(c) ==
    LET designated == Words(c) \cap Designators # {}
    IN  {IF designated /\ (Size(c) >= 2 \/ c.cue = "org") THEN "designator" ELSE "none",
         IF c.cue = "org" THEN "cue" ELSE "none",
         IF Size(c) >= 2 /\ (designated \/ c.cue = "org") THEN "multi" ELSE "none",
         IF At(c.start) \in GivenNames THEN "given" ELSE "none",
         IF Words(c) \cap FieldLabels # {} THEN "label" ELSE "none"}

\* Mutant: a name is never too far back.
Repeated_Unbounded(c, confirmed) ==
    /\ Size(c) = 1
    /\ \E i \in DOMAIN confirmed : /\ At(c.start) \in confirmed[i].words
                                   /\ confirmed[i].end <= c.start

\* A lone word of a name confirmed shortly before counts as a mention of it.
Repeated(c, confirmed) ==
    /\ Size(c) = 1
    /\ \E i \in DOMAIN confirmed : /\ At(c.start) \in confirmed[i].words
                                   /\ confirmed[i].end <= c.start
                                   /\ c.start - confirmed[i].end <= Propagation

\* What is reported of a candidate, if anything: an address value only where
\* neither score reaches the policy's threshold.
Verdict(c, evidence) ==
    LET policy == Policies[given.policy]
        p == Score(evidence, Weight)
        o == Score(OrgEvidence(c), OrgWeight)
        person == /\ p >= policy.person
                  /\ policy.cued => evidence \cap {"honorific", "name", "suffix", "repeated"} # {}
        org == o >= policy.org
        Found(type) == {[start |-> c.start, end |-> c.end, type |-> type]}
    IN  IF org /\ (~person \/ o > p) THEN Found("org")
        ELSE IF person THEN Found("person")
        ELSE IF c.cue = "address" THEN Found("loc") ELSE {}

\* The queue of confirmed names forgets the oldest.
Confirmed(confirmed, c, p) ==
    LET longer == Append(confirmed, [end |-> c.end, words |-> Words(c)])
    IN  IF p < 60 \/ Size(c) < 2 THEN confirmed
        ELSE IF Len(longer) > MaxConfirmed THEN Tail(longer) ELSE longer

\* detect() of the text between lo and hi, candidate after candidate.
Detect(lo, hi) ==
    LET cands == Candidates(lo, hi)
        Upto[i \in 0..Len(cands)] ==
            IF i = 0 THEN [confirmed |-> <<>>, out |-> {}]
            ELSE LET before == Upto[i - 1]
                     c == Normalized(cands[i], lo)
                     evidence == PersonEvidence(c, hi)
                         \cup (IF Repeated(c, before.confirmed) THEN {"repeated"} ELSE {})
                 IN  IF c.start = c.end THEN before
                     ELSE [confirmed |-> Confirmed(before.confirmed, c, Score(evidence, Weight)),
                           out |-> before.out \cup Verdict(c, evidence)]
    IN  Upto[Len(cands)].out

----------------------------------------------------------------------------
Unseen == [whole |-> {}, window |-> {}, done |-> FALSE]

Init == given \in Givens /\ found = Unseen

DetectNames == /\ ~found.done
               /\ found' = [whole |-> Detect(0, Len(given.words)),
                            window |-> Detect(given.lo, given.hi), done |-> TRUE]
               /\ UNCHANGED given

Next == DetectNames

----------------------------------------------------------------------------
\* What the tier declares: the cue, the propagation and a confirming name on
\* the left; a longest span and the suffix after it from where a span starts.
LeftContext == 1 + Propagation + CandTokens
RightContext == 1

Decided(d) == /\ given.lo = 0 \/ d.start >= given.lo + LeftContext
              /\ given.hi = Len(given.words) \/ d.start + CandTokens + RightContext <= given.hi

\* The window does not begin inside a run that is more than one candidate
\* long: how such a run is cut depends on where it is met.
CutsNoLongRun ==
    \A from, to \in 0..Len(given.words) :
        (/\ from < given.lo /\ given.lo < to
         /\ \A p \in from..(to - 1) : At(p) \in Capitalised) => to - from <= CandTokens

\* Where a window holds the declared context of a span, what it reports there
\* is what the whole document reports there, mentions of earlier names
\* included.
WindowSeesAll ==
    found.done /\ CutsNoLongRun
        => {d \in found.window : Decided(d)} = {d \in found.whole : Decided(d)}
=============================================================================
