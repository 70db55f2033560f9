------------------------------- MODULE MCText -------------------------------
(***************************************************************************)
(* What reads text, one part chosen at the start while the others rest:    *)
(* RestoreStream, LineTracker, one connection of the REST server, the      *)
(* lines of the MCP server; what is made of a text by the pattern tiers,   *)
(* the semantic ensemble and the checksummed identifiers (these three      *)
(* share given and found), and of a configuration by the constructor; and  *)
(* the ranges of bytes a parallel pass decodes.                            *)
(***************************************************************************)
EXTENDS RestoreStream, LineTracker, Servers, Assembly, PatternScan, TLC

VARIABLES
    setup,
    bytes, asked, points                                                        \* ByteRanges

fileVars == <<bytes, asked, points>>
textVars == <<setup, vars, lineVars, httpVars, mcpVars, scanVars, assemblyVars, fileVars>>

\* Up to three requests on a connection, one of any kind before and after one
\* that is answered.
Ask(method, route, framing, units, content) ==
    [method |-> method, route |-> route, framing |-> framing, units |-> units, content |-> content]
Plain == Ask("POST", "/redact", "length", 2, "text")
AnyRequest == {Plain,
    Ask("GET", "/health", "none", 0, "text"), Ask("GET", "/redact", "length", 1, "text"),
    Ask("POST", "/scan", "length", 1, "malformed"), Ask("POST", "/scan", "length", 2, "raises"),
    Ask("POST", "/redact", "length", 3, "text"), Ask("POST", "/redact", "chunked", 1, "text"),
    Ask("POST", "/scan", "negative", 1, "text"), Ask("POST", "/scan", "malformed", 2, "text"),
    Ask("PUT", "/redact", "length", 1, "text")}
MCConversations == {<<a, b>> : a \in AnyRequest, b \in AnyRequest}
                   \cup {<<Plain, a, Plain>> : a \in AnyRequest}

\* Two lines of any kind, then a call.
AnyTool == {"scan", "redact", "explain_detection", "detectors", "health"}
Call(id, tool, argument) ==
    [kind |-> "object", valid |-> TRUE, id |-> id, method |-> "tools/call", tool |-> tool, text |-> argument]
AnyLine ==
    {[kind |-> k] : k \in {"blank", "garbage", "not an object", "not loadable"}}
    \cup {[kind |-> "object", valid |-> v, id |-> i, method |-> m, tool |-> "none", text |-> "absent"] :
            v \in BOOLEAN, i \in {"absent", "null", "7"}, m \in {"initialize", "ping", "other"}}
    \cup {Call(i, t, x) : i \in {"absent", "7"}, t \in AnyTool,
            x \in {"string", "surrogate", "oversize", "raises", "absent", "not an object"}}
    \cup {Call("7", t, "string") : t \in {"params are a list", "no such tool"}}
MCLines == {<<a, b, Call("9", "redact", "string")>> : a \in AnyLine, b \in AnyLine}

\* A span of each pattern in each shape, near each kind of word, under wheels
\* that are missing, lack a function or a table, cover all, some or half of a
\* type, or know a pattern this package does not.
Compiled(types) ==
    {[name |-> p.name, type |-> p.type] : p \in {q \in Patterns : q.type \in types}}
Wheel(installed, functions, tables, patterns) ==
    [installed |-> installed, functions |-> functions, tables |-> tables, patterns |-> patterns]
Wheels == {
    Wheel(FALSE, FALSE, FALSE, {}),
    Wheel(TRUE, FALSE, TRUE, Compiled({"email"})), Wheel(TRUE, TRUE, FALSE, Compiled({"email"})),
    Wheel(TRUE, TRUE, TRUE, Compiled({"email", "phone", "api_key"})),
    Wheel(TRUE, TRUE, TRUE, Compiled({"email", "phone"})),
    Wheel(TRUE, TRUE, TRUE, {[name |-> "plus phone", type |-> "phone"]}),
    Wheel(TRUE, TRUE, TRUE, Compiled({"phone"}) \cup {[name |-> "new email", type |-> "email"]})}
ValuesOf(p) == CASE p.name = "bare phone" -> {"plain", "formatted", "prefixed"}
                 [] p.name = "api key" -> {"plain", "placeholder", "parameter"}
                 [] p.name = "token" -> {"plain", "keyed", "plain value", "identifier"}
                 [] OTHER -> {"plain"}
AnyText == UNION {
    [span : [pattern : {p}, valid : BOOLEAN, value : ValuesOf(p),
             near : {{}, {"cue"}, {"test"}, {"cue", "test", "embedded"}},
             decided : IF p.name \in {"token", "compound"} THEN BOOLEAN ELSE {TRUE},
             spelling : IF p.needs = "label" THEN {"lower", "upper", "long s"} ELSE {"lower"}],
     around : IF p.needs = "label" THEN {{}, {"label"}} ELSE {{}},
     characters : {"plain", "ambiguous", "surrogate"}] : p \in Patterns \cup Others}
Given(texts, prefilter) ==
    [backend : {"python", "auto"}, types : {{"phone", "api_key", "email"}, {"phone"}},
     prefilter : prefilter, wheel : Wheels, worker : {"here", "same", "without"}, text : texts]
MCScans == Given(AnyText, {TRUE})
           \cup Given({t \in AnyText : t.span.spelling = "long s" /\ t.span.near = {}}, {FALSE})

\* Long documents of few words seen from their second word on, and short ones
\* of any words seen up to their third.
NameWords == {"Dr", "Ann", "Lee", "and"}
AnyWord == {"Dr", "Ann", "Lee", "Oak", "The", "Title", "Inc", "name", "lives at", "employer", "jr"}
MCDocs == {[words |-> w, policy |-> "strict", lo |-> 1, hi |-> 7] : w \in [1..7 -> NameWords]}
          \cup {[words |-> w, policy |-> p, lo |-> 0, hi |-> 3] :
                    w \in [1..4 -> AnyWord], p \in {"strict", "high_recall"}}

Names == INSTANCE SemanticNames WITH
            Givens <- MCDocs, CandTokens <- 2, Propagation <- 2, MaxConfirmed <- 1

\* A policy file that is absent, unreadable, right, misspelt or ill-typed; a
\* list of one type or none; flags that switch, override, add or are refused.
Says(section, key, kind, words) == [section |-> section, key |-> key, kind |-> kind, value |-> words]
File(parses, entries) == [parses |-> parses, entries |-> entries]
Files == {
    File(TRUE, {}), File(FALSE, {}),
    File(TRUE, {Says("detection", "use_regional", "boolean", {"true"}),
                Says("custom", "words", "strings", {"Acme"})}),
    File(TRUE, {Says("detection", "use_dates", "boolean", {"false"}),
                Says("detection", "min_confidence", "integer", {"one"}),
                Says("redaction", "mode", "string", {"encrypt"})}),
    File(TRUE, {Says("detection", "use_region", "boolean", {"true"})}),
    File(TRUE, {Says("detections", "use_regional", "boolean", {"true"})}),
    File(TRUE, {Says("streaming", "overlap", "boolean", {"large"})}),
    File(TRUE, {Says("streaming", "overlap", "integer", {"little"}),
                Says("plugins", "enabled", "boolean", {"true"})})}
Flags(f) == f @@ Unset
AnyFlags == {
    Unset, Flags([profile |-> {"prose"}]),
    Flags([use_entropy |-> {"false"}, use_gazetteer |-> {"true"}]),
    Flags([overlap |-> {"little"}]), Flags([overlap |-> {"negative"}]),
    Flags([overlap |-> {"little"}, allow_unsafe_overlap |-> {"true"}]),
    Flags([load_plugins |-> {"true"}, overlap |-> {"large"}]), Flags([load_plugins |-> {"true"}]),
    Flags([custom_words |-> {"Globex"}, profile |-> {"default"}]),
    Flags([custom_patterns |-> {"invalid"}]), Flags([mode |-> {"encrypt"}]),
    Flags([mode |-> {"encrypt"}, encrypt_key |-> {"short"}]),
    Flags([mode |-> {"pseudonymize"}, hmac_key |-> {"key"}])}
TypeLists == {{}} \cup {{t} : t \in EntityTypes \cup {"no such type"}}
Part(name, needs) ==
    [name |-> name, needs |-> needs, windows |-> TRUE, loads |-> TRUE, detects |-> TRUE]
PluginSets == {
    {}, {Part("long", 9000)}, {[Part("whole", 8192) EXCEPT !.windows = FALSE]},
    {[Part("broken", 8192) EXCEPT !.loads = FALSE], [Part("no detector", 8192) EXCEPT !.detects = FALSE]}}
MCSetups == {[entry |-> e, file |-> x, flags |-> [types |-> t] @@ f, environment |-> {"key"}, plugins |-> p] :
                e \in {"library", "command", "server"}, x \in Files, t \in TypeLists,
                f \in AnyFlags, p \in PluginSets}

\* Numbers of one digit repeated but at one position and at the check digit,
\* written plain and in groups, and every number after a + of three leading
\* digits.
Digits(n, check) == {[i \in 1..n |-> IF i = check THEN b ELSE IF i = p THEN a ELSE 3] :
                        p \in (1..n) \ {check}, a \in {0, 2, 4, 7, 9}, b \in 0..9}
Written(values, forms, cues) ==
    {[kind |-> "identifier", value |-> v, groups |-> g, cues |-> cues, followed |-> FALSE] :
        v \in values, g \in forms}
Iban(country, n) == {country \o v : v \in {[i \in 1..(n - 2) |-> IF i = 1 THEN a ELSE IF i = 2 THEN b
                                                        ELSE IF i = p THEN c ELSE 7] :
                        a \in 0..9, b \in 0..9, p \in 3..(n - 2), c \in {0, 12}}}
MCNumbers == UNION {
    Written(Digits(8, 8), {<<8>>}, {"tfn"}),
    Written(Digits(9, 9), {<<9>>, <<3, 3, 3>>}, {"tfn"}),
    Written(Digits(9, 9), {<<9>>}, {"tfn", "acn"}),
    Written({<<9>> \o v : v \in Digits(8, 3)}, {<<3, 2, 4>>}, {"itin"}),
    Written(Digits(10, 10), {<<10>>, <<3, 3, 4>>}, {"nhs"}),
    Written(Digits(10, 9), {<<4, 5, 1>>}, {}),
    Written(Digits(11, 11), {<<11>>, <<2, 3, 3, 3>>}, {"abn"}),
    Written(Digits(11, 9), {<<4, 5, 2>>, <<11>>}, {"abn", "medicare"}),
    Written(Digits(12, 12), {<<12>>}, {}), Written(Digits(12, 12), {<<12>>, <<4, 4, 4>>}, {"aadhaar"}),
    Written(Digits(16, 16), {<<4, 4, 4, 4>>}, {}),
    Written({<<s>> \o v \o <<l>> : s \in {28, 29, 15, 16}, v \in Digits(7, 7), l \in {10, 13, 20, 33}},
            {<<9>>}, {}),
    Written(Iban(<<23, 24>>, 15), {<<15>>, <<4, 4, 4, 3>>}, {}),
    Written(Iban(<<10, 29>>, 20), {<<20>>}, {}),
    {[kind |-> "phone", value |-> <<a, b, c, 5, 5, 5, 1>>, groups |-> <<g, 7 - g>>, cues |-> {},
      followed |-> FALSE] : a \in 0..9, b \in 0..9, c \in 0..9, g \in 1..5}}

Ids == INSTANCE ChecksumIds WITH Givens <- MCNumbers

\* Short files of any bytes, and long ones of one faulty or sound stretch
\* repeated, longer than what a worker reads around its range.
Repeated(stretch, n) == [i \in 1 .. n * Len(stretch) |-> stretch[((i - 1) % Len(stretch)) + 1]]
MCFiles ==
    [1 .. 6 -> {"a", "CR", "LF", "L3", "C", "c"}]
    \cup [1 .. 8 -> {"a", "L4", "C"}]
    \cup [1 .. 4 -> {"L2", "L4", "C", "c", "X"}]
    \cup {start \o Repeated(stretch, 32 \div Len(stretch)) \o end :
            start \in {<<>>, <<"a">>, <<"L4">>, <<"a", "CR">>}, end \in {<<>>, <<"C">>, <<"L3", "C">>},
            stretch \in {<<"L4", "C", "C", "C">>, <<"L3", "C", "C">>, <<"C">>, <<"L4", "C">>,
                        <<"a", "L4", "C", "C", "C">>, <<"CR", "LF">>, <<"L2", "c", "c">>,
                        <<"L4", "c", "C", "C">>, <<"X", "L3", "C", "C", "C">>}}

Bytes == INSTANCE ByteRanges WITH
    Files <- MCFiles, Workers <- {2, 3}, Overlaps <- {0, 1}, MinRange <- 2

Unread == /\ text = [p \in Positions |-> "."] /\ tokens = {} /\ authentic = {}
          /\ received = 0 /\ emitted = 0 /\ restored = {} /\ failed = {} /\ done = FALSE

Untracked == /\ newlines = {} /\ findings = {} /\ caller = "detect" /\ step = "next" /\ todo = {}
             /\ offset = 0 /\ segEnd = 0
             /\ tracker = [line |-> 1, lineStart |-> 0, pos |-> 0]
             /\ answer = NoAnswer

Unconnected == /\ requests = <<>> /\ wire = <<>> /\ written = [request |-> 0, units |-> 0]
               /\ hungUp = TRUE /\ at = "closed" /\ parsed = NoUnit /\ answers = <<>>

Unserved == /\ messages = <<>> /\ readTo = 0 /\ replies = <<>>
            /\ initialized = FALSE /\ running = FALSE

NoTier == [native |-> FALSE]

Untried == given = [words |-> <<>>] /\ tier = NoTier /\ found = Ids!Unseen

Unbuilt == order = <<>> /\ tiers = {} /\ building = Stage("started", Unset)

Uncut == bytes = <<>> /\ asked = [workers |-> 1, overlap |-> 0] /\ points = {}

TextInit ==
    /\ \/ setup = "restore" /\ Init /\ Untracked /\ Unconnected /\ Unserved /\ Untried /\ Uncut
       \/ setup = "lines" /\ Unread /\ LineInit /\ Unconnected /\ Unserved /\ Untried /\ Uncut
       \/ setup = "http" /\ Unread /\ Untracked /\ HttpInit /\ Unserved /\ Untried /\ Uncut
       \/ setup = "mcp" /\ Unread /\ Untracked /\ Unconnected /\ McpInit /\ Untried /\ Uncut
       \/ setup = "bytes" /\ Unread /\ Untracked /\ Unconnected /\ Unserved /\ Untried /\ Bytes!Init
       \/ setup = "assembly" /\ Unread /\ Untracked /\ Unconnected /\ Unserved /\ Untried /\ Uncut
       \/ /\ Unread /\ Untracked /\ Unconnected /\ Unserved /\ Uncut
          /\ \/ setup = "patterns" /\ ScanInit
             \/ setup = "names" /\ Names!Init /\ tier = NoTier
             \/ setup = "numbers" /\ Ids!Init /\ tier = NoTier
    /\ IF setup = "assembly" THEN AssemblyInit ELSE Unbuilt

RestoreStep == setup = "restore" /\ Next /\ UNCHANGED <<lineVars, httpVars, mcpVars, scanVars, assemblyVars, fileVars>>
LinesStep == setup = "lines" /\ LineNext /\ UNCHANGED <<vars, httpVars, mcpVars, scanVars, assemblyVars, fileVars>>
HttpStep == setup = "http" /\ HttpNext /\ UNCHANGED <<vars, lineVars, mcpVars, scanVars, assemblyVars, fileVars>>
McpStep == setup = "mcp" /\ McpNext /\ UNCHANGED <<vars, lineVars, httpVars, scanVars, assemblyVars, fileVars>>
BytesStep == setup = "bytes" /\ Bytes!Next /\ UNCHANGED <<vars, lineVars, httpVars, mcpVars, scanVars, assemblyVars>>
AssemblyStep == setup = "assembly" /\ AssemblyNext /\ UNCHANGED <<vars, lineVars, httpVars, mcpVars, scanVars, fileVars>>

TiersOnly == UNCHANGED <<vars, lineVars, httpVars, mcpVars, assemblyVars, fileVars>>
PatternsStep == setup = "patterns" /\ ScanNext /\ TiersOnly
NamesStep == setup = "names" /\ Names!Next /\ TiersOnly /\ UNCHANGED tier
NumbersStep == setup = "numbers" /\ Ids!Next /\ TiersOnly /\ UNCHANGED tier

TextNext ==
    /\ \/ RestoreStep \/ LinesStep \/ HttpStep \/ McpStep \/ BytesStep
       \/ PatternsStep \/ NamesStep \/ NumbersStep \/ AssemblyStep
    /\ UNCHANGED setup

TextSpec == TextInit /\ [][TextNext]_textVars

----------------------------------------------------------------------------
\* The engine a pattern runs on, and the window a name is seen through, do not
\* change what is reported; and a range of bytes decodes to the characters that
\* stand there in the file decoded whole.
SameFindings == /\ setup = "patterns" => EnginesAgree
                /\ setup = "names" => Names!WindowSeesAll
                /\ setup = "bytes" => Bytes!SameCharacters

\* A mistyped number is not reported as the number it was, and a phone number
\* is read as one country's.
ErrorsCaught == setup = "numbers" => Ids!ErrorsCaught /\ Ids!OneCountry
=============================================================================
