---------------------------- MODULE PatternScan ----------------------------
(***************************************************************************)
(* The pattern tiers and the two engines they may run on                   *)
(* (detectors/deterministic.py, contextual.py, labeled_id.py, entropy.py). *)
(*                                                                         *)
(* A tier is built in one process, under the native wheel installed        *)
(* there, may be pickled into a worker that has that wheel or has none,    *)
(* and scans a text.  A text is one candidate span and what else a         *)
(* prefilter finds in it.  The compiled core is external: for text it      *)
(* accepts it reports what the Python patterns of the same source match,   *)
(* with no prefilter, and says which entropies it cannot decide.           *)
(***************************************************************************)
EXTENDS Naturals, FiniteSets

CONSTANTS
    Scans       \* records [backend, types, prefilter, wheel, worker, text]

VARIABLES given, tier, found

scanVars == <<given, tier, found>>

Pattern(name, source, type, needs, confidence) ==
    [name |-> name, source |-> source, type |-> type, needs |-> needs, confidence |-> confidence]

\* A pattern of each kind in the table: two of one type, one that needs a
\* label, one that stands alone.  Confidences are in hundredths.
Patterns == {
    Pattern("plus phone", "deterministic", "phone", "digit", 60),
    Pattern("bare phone", "deterministic", "phone", "digit", 45),
    Pattern("api key", "deterministic", "api_key", "label", 75),
    Pattern("email", "deterministic", "email", "at sign", 95)}

\* What the other tiers look for.
Others == {
    Pattern("date", "date", "date", "digit", 80),
    Pattern("labelled", "labeled_identifier", "id_number", "nothing", 80),
    Pattern("token", "entropy", "secret", "nothing", 60),
    Pattern("compound", "compound_secret", "secret", "nothing", 60),
    Pattern("bare ssn", "contextual", "ssn", "nothing", 80)}

\* What a process may be given: the span is one that a pattern or another tier
\* looks for; a label of it is spelled in ASCII letters of either case or with
\* the long s, U+017F.
ASSUME ScanAssumption ==
    Scans \subseteq
         [backend : {"python", "native", "auto"}, types : SUBSET STRING, prefilter : BOOLEAN,
          wheel : [installed : BOOLEAN, functions : BOOLEAN, tables : BOOLEAN,
                   patterns : SUBSET [name : STRING, type : STRING]],
          worker : {"here", "same", "without"},
          text : [span : [pattern : Patterns \cup Others, valid : BOOLEAN, value : STRING,
                          near : SUBSET STRING, decided : BOOLEAN,
                          spelling : {"lower", "upper", "long s"}],
                  around : SUBSET STRING, characters : {"plain", "ambiguous", "surrogate"}]]

Boosted == {"phone", "api_key", "email", "ssn"}
Suppressible == {"deterministic", "entropy", "compound_secret", "contextual"}
LabelGated == {"api_key"}

----------------------------------------------------------------------------
\* Mutant: a type half covered is covered.
SpecMatches_NoCounts(wheel) ==
    /\ wheel.functions
    /\ wheel.tables
    /\ wheel.patterns \subseteq {[name |-> p.name, type |-> p.type] : p \in Patterns}

\* The installed wheel implements every pattern of each type it covers, with
\* this package's sources and tables, and has every function that is called.
SpecMatches(wheel) ==
    /\ wheel.functions
    /\ wheel.tables
    /\ wheel.patterns \subseteq {[name |-> p.name, type |-> p.type] : p \in Patterns}
    /\ \A w \in wheel.patterns :
          Cardinality({p \in Patterns : p.type = w.type})
            = Cardinality({v \in wheel.patterns : v.type = w.type})

Loads(backend, wheel) ==
    /\ backend # "python"
    /\ wheel.installed
    /\ SpecMatches(wheel)

Chosen == {p \in Patterns : p.type \in given.types}

Built(native) ==
    LET names == IF native THEN {p.type : p \in Chosen} \cap {w.type : w \in given.wheel.patterns}
                 ELSE {}
    IN  [native |-> native, names |-> names, codes |-> native,
         python |-> {p \in Chosen : p.type \notin names}, prefilter |-> given.prefilter]

Nothing == [native |-> FALSE, names |-> {}, codes |-> FALSE, python |-> {}, prefilter |-> FALSE]
Prefiltering == [Nothing EXCEPT !.prefilter = TRUE]

----------------------------------------------------------------------------
window == given.text
span == given.text.span

\* Mutant: the label is looked for in the text as it is.
Anchors_NoLower(s) ==
    IF s.pattern.needs = "label" /\ s.spelling # "lower" THEN {} ELSE {s.pattern.needs}

\* What the prefilter finds of a match: its digit and its "@" as they are, its
\* label in text.lower().  The pattern ignores case, and to it the long s is an
\* s; lower() leaves it.
Anchors(s) ==
    IF s.pattern.needs = "label" /\ s.spelling = "long s" THEN {} ELSE {s.pattern.needs}

\* The prefilter skips a pattern when what it looks for is nowhere in the window.
Skipped(t, p) ==
    /\ t.prefilter
    /\ p.needs # "nothing"
    /\ p.needs \notin window.around \cup Anchors(span)

PythonMatches(t, patterns) == {p \in patterns : p = span.pattern /\ span.valid /\ ~Skipped(t, p)}

\* No answer from the core: an ambiguous character, or a lone surrogate that
\* does not cross into it.
CoreDeclines == window.characters # "plain"

NativeMatches(t) ==
    {p \in Patterns : /\ p = span.pattern /\ span.valid
                      /\ [name |-> p.name, type |-> p.type] \in given.wheel.patterns
                      /\ p.type \in t.names}

PatternMatches(t) ==
    IF t.native /\ ~CoreDeclines
    THEN NativeMatches(t) \cup PythonMatches(t, t.python)
    ELSE PythonMatches(t, Chosen)

\* A reported span: how it was widened or cut, and its confidence.
Report(p, extent, confidence) ==
    [pattern |-> p.name, source |-> p.source, type |-> p.type,
     extent |-> extent, confidence |-> confidence]

ShapedConfidence(p) ==
    IF p.name = "bare phone" /\ span.value = "formatted" THEN 55 ELSE p.confidence

\* A placeholder is not the secret, a query parameter ends it, a rejected
\* country code is taken in with the number.
Extent(p) ==
    IF p.type \in LabelGated /\ span.value = "parameter" THEN "cut"
    ELSE IF p.name = "bare phone" /\ span.value = "prefixed" THEN "widened"
    ELSE "matched"

PatternFindings(t) ==
    {Report(p, Extent(p), ShapedConfidence(p)) :
        p \in {q \in PatternMatches(t) : ~(q.type \in LabelGated /\ span.value = "placeholder")}}

\* The date, URL, postcode and nationality tiers: Python and their own list.
OwnPatternFindings(t) ==
    {Report(p, "matched", p.confidence) :
        p \in PythonMatches(t, {q \in Others : q.source = "date"})}

\* A cue and its gap longer than the window anchor nothing, in either engine.
LabelledFindings ==
    {Report(p, "matched", p.confidence) :
        p \in {q \in Others : q.source = "labeled_identifier" /\ q = span.pattern /\ span.valid}}

\* What the core makes of a token: of one it cannot decide, nothing to go by.
CoreVerdict == IF span.decided THEN span.valid ELSE ~span.valid

\* A token the core is not sure of is judged in Python.
Qualifies(t) ==
    IF t.native /\ window.characters # "surrogate" /\ span.decided THEN CoreVerdict ELSE span.valid

\* An identifier is no secret; a key=value token is its value, judged again.
TokenFindings(t) ==
    IF span.pattern.name # "token" \/ ~Qualifies(t) \/ span.value \in {"identifier", "plain value"}
    THEN {}
    ELSE {Report(span.pattern, IF span.value = "keyed" THEN "cut" ELSE "matched", 60)}

CompoundFindings(t) ==
    IF span.pattern.name = "compound" /\ Qualifies(t)
    THEN {Report(span.pattern, "matched", 60)} ELSE {}

\* Nine bare digits are a number only after a cue for one.
BareSsnFindings ==
    IF span.pattern.name = "bare ssn" /\ span.valid /\ "cue" \in span.near
    THEN {Report(span.pattern, "matched", 80)} ELSE {}

----------------------------------------------------------------------------
\* The native adjustment finds the cue words of a type by the code the tier
\* learned when it was built.
CueCounts(t, r) ==
    /\ "cue" \in span.near
    /\ r.type \in Boosted
    /\ t.native /\ ~CoreDeclines /\ r.source # "date" => t.codes

Least(a, b) == IF a < b THEN a ELSE b
Floored(a, b) == IF a > b THEN a - b ELSE 0

Adjusted(t, r) ==
    LET raised == IF CueCounts(t, r) THEN Least(100, r.confidence + 20) ELSE r.confidence
        lowered == IF "test" \in span.near /\ r.source \in Suppressible
                   THEN Floored(raised, 40) ELSE raised
    IN  [r EXCEPT !.confidence =
            IF r.type \in {"phone", "ssn"} /\ "embedded" \in span.near THEN 0 ELSE lowered]

\* What every tier reports, adjusted, and confident enough.
Findings(t) ==
    {r \in {Adjusted(t, q) :
                q \in PatternFindings(t) \cup OwnPatternFindings(t) \cup LabelledFindings
                      \cup TokenFindings(t) \cup CompoundFindings(t) \cup BareSsnFindings} :
        r.confidence >= 50}

----------------------------------------------------------------------------
NotScanned(stage) == [stage |-> stage, reported |-> {}]

ScanInit == /\ given \in Scans
            /\ tier = Nothing
            /\ found = NotScanned("not built")

Construct == /\ found.stage = "not built"
             /\ tier' = Built(Loads(given.backend, given.wheel))
             /\ found' = NotScanned("built")
             /\ UNCHANGED given

\* Pickling drops the module; unpickling loads the wheel of the worker.
Ship == /\ found.stage = "built"
        /\ given.worker # "here"
        /\ tier' = [tier EXCEPT !.native = given.worker = "same" /\ Loads(given.backend, given.wheel)]
        /\ found' = NotScanned("shipped")
        /\ UNCHANGED given

Scan == /\ found.stage = IF given.worker = "here" THEN "built" ELSE "shipped"
        /\ found' = [stage |-> "scanned", reported |-> Findings(tier)]
        /\ UNCHANGED <<given, tier>>

ScanNext == Construct \/ Ship \/ Scan

ScanSpec == ScanInit /\ [][ScanNext]_scanVars

----------------------------------------------------------------------------
\* What holds of a tier wherever it is: a wheel it runs on matches this
\* package, it has what the wheel's tables were learned for, and between them
\* the two engines have every pattern asked for.
TierSound ==
    /\ tier.native => tier.codes
    /\ tier.codes <=> Loads(given.backend, given.wheel)
    /\ tier.names \subseteq {p.type : p \in Chosen} \cap {w.type : w \in given.wheel.patterns}
    /\ tier.python = {p \in Chosen : p.type \notin tier.names}
    /\ tier.prefilter = given.prefilter

Tiers == [native : BOOLEAN, names : SUBSET {p.type : p \in Patterns}, codes : BOOLEAN,
          python : SUBSET Patterns, prefilter : BOOLEAN]

\* The inductive invariant.
ScanInv ==
    /\ given \in Scans
    /\ tier \in Tiers
    /\ found.stage # "not built" => TierSound
    /\ found.stage = "scanned" => found.reported = Findings(tier)

\* The label the prefilter looks for is in the window only with a long s.
OnlyLongS == span.spelling = "long s" /\ "label" \notin window.around

\* Whatever engine was asked for, whatever wheel is installed, wherever the
\* tier was shipped: what it reports is what the Python engine reports with no
\* pattern skipped.  The one exception is a label the prefilter cannot see: then
\* it is what the Python engine reports with the prefilter or without it.
EnginesAgree ==
    found.stage = "scanned" =>
        /\ (given.prefilter /\ OnlyLongS) \/ found.reported = Findings(Nothing)
        /\ found.reported \in {Findings(Nothing), Findings(Prefiltering)}
=============================================================================
