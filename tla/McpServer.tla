------------------------------ MODULE McpServer ------------------------------
(***************************************************************************)
(* mcp_server: the stdio loop that answers JSON-RPC messages one line at a *)
(* time.  A line is what parsing makes of it; a text argument, what the    *)
(* redactor and the encoder of the answer make of it.                      *)
(***************************************************************************)
EXTENDS Naturals, Sequences

CONSTANTS
    MessageIds,     \* what a client calls its requests
    Inputs          \* the sequences of lines considered

\* A line has a kind; an object whether it is a valid request, an id, a method, a
\* tool, and a text, the argument of the tool: a string, one with a lone
\* surrogate, one longer than the limit, one the redactor raises on, or no
\* string at all.
Lines ==
    [kind : {"blank", "garbage", "not an object", "not loadable"}]
    \cup [kind : {"object"}, valid : BOOLEAN, id : MessageIds \cup {"absent"}, method : STRING, tool : STRING,
          text : {"string", "surrogate", "oversize", "raises", "absent", "not an object"}]

ASSUME McpAssumption == Inputs \subseteq Seq(Lines)

VARIABLES
    messages,       \* standard input, a line each
    readTo,         \* lines taken from it
    replies,        \* lines written: [of |-> the line, id, code, carries]
    initialized,
    running

mcpVars == <<messages, readTo, replies, initialized, running>>

TextTools == {"scan", "redact", "explain_detection"}
Tools == TextTools \cup {"detectors", "health"}

McpInit ==
    /\ messages \in Inputs /\ readTo = 0 /\ replies = <<>>
    /\ initialized = FALSE /\ running = TRUE

----------------------------------------------------------------------------
\* A reply: "ok" or an error code, and what of the text it carries.
Codes == {"ok", "invalid params", "internal error", "method not found", "invalid request", "parse error"}
Carried == {"positions", "counts", "redacted text", "notes"}
Ok(carries) == [code |-> "ok", carries |-> carries]
Error(code) == [code |-> code, carries |-> {}]

\* _require_text, and the tools.
CallText(m) ==
    CASE m.text \in {"absent", "oversize"} -> Error("invalid params")
      [] m.text = "raises" -> Error("internal error")
      [] OTHER -> Ok(CASE m.tool = "scan" -> {"positions", "counts"}
                       [] m.tool = "redact" -> {"redacted text", "counts"}
                       [] m.tool = "explain_detection" -> {"positions", "counts", "notes"})

\* _call_tool
CallTool(m) ==
    IF m.tool = "params are a list" THEN Error("internal error")
    ELSE IF m.tool \notin Tools \/ m.text = "not an object" THEN Error("invalid params")
    ELSE IF m.tool \in TextTools THEN CallText(m) ELSE Ok({})

\* _dispatch
DispatchMethod(m) ==
    CASE m.method \in {"initialize", "initialized", "ping", "tools/list"} -> Ok({})
      [] m.method = "tools/call" -> CallTool(m)
      [] OTHER -> Error("method not found")

Silent == [code |-> "silent", carries |-> {}]

\* handle
HandleMessage(m) ==
    IF ~m.valid THEN Error("invalid request")
    ELSE IF m.id = "absent" THEN Silent ELSE DispatchMethod(m)

IdOf(l) == IF l.kind = "object" /\ l.id # "absent" THEN l.id ELSE "null"

\* What the loop makes of a line.
Reply(l) ==
    CASE l.kind = "blank" -> Silent
      [] l.kind = "garbage" -> Error("parse error")
      [] l.kind = "not an object" -> Error("invalid request")
      [] l.kind = "object" -> HandleMessage(l)

\* json.loads raises something else than JSONDecodeError, or reading the line
\* does; the answer echoes what the output's encoding does not have.
Kills(l) ==
    \/ l.kind = "not loadable"
    \/ l.kind = "object" /\ l.text = "surrogate"
         /\ Reply(l).code = "ok" /\ "redacted text" \in Reply(l).carries

Serve ==
    /\ running /\ readTo < Len(messages)
    /\ LET l == messages[readTo + 1] IN
         /\ readTo' = readTo + 1
         /\ running' = ~Kills(l)
         /\ replies' = IF Kills(l) \/ Reply(l) = Silent THEN replies
                       ELSE Append(replies, [of |-> readTo + 1, id |-> IdOf(l),
                                             code |-> Reply(l).code, carries |-> Reply(l).carries])
         /\ initialized' = (initialized \/ (l.kind = "object" /\ l.valid /\ l.method = "initialize"))
    /\ UNCHANGED messages

EndOfInput ==
    /\ running /\ readTo = Len(messages) /\ running' = FALSE
    /\ UNCHANGED <<messages, readTo, replies, initialized>>

McpNext == Serve \/ EndOfInput

McpSpec == McpInit /\ [][McpNext]_mcpVars

----------------------------------------------------------------------------
\* Whether a line asks for an answer, by JSON-RPC: everything that is not blank
\* and not a well-formed notification.
Asks(l) == l.kind # "blank" /\ (l.kind = "object" => ~l.valid \/ l.id # "absent")

\* A reply that a line read before calls for: it has the id of its line, and
\* carries text only for redact, redacted.
Fits(r) ==
    LET l == messages[r.of] IN
    /\ r.of \in 1 .. readTo /\ Asks(l) /\ ~Kills(l)
    /\ r.id = IdOf(l)
    /\ "redacted text" \in r.carries => l.tool = "redact"

\* Every line read that asks for an answer has exactly one, in the order of the
\* lines and with the id of its line, and no other has one, unless it ended the
\* loop; and only redact's answers carry text, redacted.
LinesAnswered ==
    /\ \A k \in DOMAIN replies : Fits(replies[k])
    /\ \A j, k \in DOMAIN replies : j < k => replies[j].of < replies[k].of
    /\ \A i \in 1 .. readTo :
         Asks(messages[i]) => (\E k \in DOMAIN replies : replies[k].of = i)
                               \/ (i = readTo /\ Kills(messages[i]))

McpTypeOK ==
    /\ messages \in Inputs /\ readTo \in 0 .. Len(messages)
    /\ replies \in Seq([of : Nat, id : MessageIds \cup {"null"}, code : Codes, carries : SUBSET Carried])
    /\ running \in BOOLEAN /\ initialized \in BOOLEAN

\* Why LinesAnswered: a line that ends the loop is the last one read.
McpInv ==
    /\ McpTypeOK
    /\ LinesAnswered
    /\ running => \A i \in 1 .. readTo : ~Kills(messages[i])
=============================================================================
