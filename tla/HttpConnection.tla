--------------------------- MODULE HttpConnection ---------------------------
(***************************************************************************)
(* api: one kept-alive connection of the REST server, whose thread parses *)
(* requests off the socket while the client writes them.  A request is a  *)
(* head and as many body units as the client really sends; the socket      *)
(* knows only units, and a body may read like a head.                      *)
(***************************************************************************)
EXTENDS Naturals, Sequences

CONSTANTS
    Conversations,      \* the sequences of requests a client may make
    MaxBody             \* max_body_bytes, in units

\* A request has a method, a route, the framing its headers give, the units of
\* body that follow, and the content these decode to.
Requests == [method : STRING, route : STRING, units : Nat,
             framing : {"none", "length", "chunked", "negative", "malformed"},
             content : {"text", "malformed", "raises"}]

\* By HTTP no body follows a request that frames none; and nothing is not JSON.
ASSUME HttpAssumption ==
    /\ MaxBody \in Nat
    /\ \A c \in Conversations :
         /\ c \in Seq(Requests)
         /\ \A i \in 1 .. Len(c) :
              /\ c[i].framing = "none" => c[i].units = 0
              /\ c[i].method = "POST" /\ c[i].units = 0 => c[i].content = "malformed"

VARIABLES
    requests,   \* what this client is going to send
    wire,       \* units written and not yet read: [of |-> i, part |-> "head" | "body"]
    written,    \* <<the request, the units of it>> written last
    hungUp,     \* the client has closed its side
    at,         \* the thread: "idle", "head", "body", "closed"
    parsed,     \* the unit it has taken for a request head
    answers     \* [of |-> the request parsed, status |-> the status sent]

httpVars == <<requests, wire, written, hungUp, at, parsed, answers>>

NoUnit == [of |-> 0, part |-> "none"]

HttpInit ==
    /\ requests \in Conversations
    /\ wire = <<>> /\ written = [request |-> 0, units |-> 0] /\ hungUp = FALSE
    /\ at = "idle" /\ parsed = NoUnit
    /\ answers = <<>>

----------------------------------------------------------------------------
(* The client, which need not wait for an answer before it goes on.        *)

BodySent == IF written.request = 0 THEN TRUE
            ELSE written.units = requests[written.request].units

SendHead ==
    /\ ~hungUp /\ at # "closed" /\ BodySent /\ written.request < Len(requests)
    /\ written' = [request |-> written.request + 1, units |-> 0]
    /\ wire' = Append(wire, [of |-> written.request + 1, part |-> "head"])
    /\ UNCHANGED <<requests, hungUp, at, parsed, answers>>

SendBody ==
    /\ ~hungUp /\ at # "closed" /\ ~BodySent
    /\ written' = [written EXCEPT !.units = @ + 1]
    /\ wire' = Append(wire, [of |-> written.request, part |-> "body"])
    /\ UNCHANGED <<requests, hungUp, at, parsed, answers>>

HangUp ==
    /\ ~hungUp /\ at # "closed" /\ hungUp' = TRUE
    /\ UNCHANGED <<requests, wire, written, at, parsed, answers>>

----------------------------------------------------------------------------
(* The thread.                                                             *)

\* dispatch, for a body that was read whole; one that was cut short is not
\* JSON.  A GET does not look at it.
Dispatch(r, whole) ==
    CASE r.method = "GET" /\ r.route \in {"/health", "/version", "/detectors"} -> 200
      [] r.method = "POST" /\ r.route \in {"/redact", "/scan"} ->
           IF whole /\ r.content = "text" THEN 200 ELSE 400
      [] OTHER -> 404

\* The redactor may raise on a text: nothing is sent.
Raises(r) ==
    r.method = "POST" /\ r.route \in {"/redact", "/scan"} /\ r.content = "raises"

\* The request the thread believes it is serving: a body unit taken for a head
\* is a request of its own.
Smuggled == [method |-> "POST", route |-> "/redact", framing |-> "none", units |-> 0, content |-> "text"]
Serving == IF parsed.part = "head" THEN requests[parsed.of] ELSE Smuggled

Answer(status) == answers' = Append(answers, [of |-> parsed.of, part |-> parsed.part, status |-> status])

\* http.server reads a request line and headers: whatever comes first.
ReadHead ==
    /\ at = "idle" /\ wire # <<>>
    /\ parsed' = Head(wire) /\ wire' = Tail(wire) /\ at' = "head"
    /\ UNCHANGED <<requests, written, hungUp, answers>>

\* Mutant: the connection is kept when a body is left unread.
Reject_Open(status) == Answer(status) /\ at' = "idle"

Reject(status) == Answer(status) /\ at' = "closed"

Length(r) == IF r.framing = "length" THEN r.units ELSE 0

Refusal(r) ==
    CASE r.framing = "chunked" -> 411
      [] r.framing \in {"malformed", "negative"} -> 400
      [] r.framing = "length" /\ r.units > MaxBody -> 413
      [] OTHER -> 0

\* http.server knows no such method; and _handle, up to the body.
Refuse ==
    /\ at = "head"
    /\ \/ Serving.method \notin {"GET", "POST"} /\ Reject(501)
       \/ Serving.method \in {"GET", "POST"} /\ Refusal(Serving) # 0 /\ Reject(Refusal(Serving))
    /\ UNCHANGED <<requests, wire, written, hungUp, parsed>>

Accept ==
    /\ at = "head"
    /\ Serving.method \in {"GET", "POST"} /\ Refusal(Serving) = 0
    /\ at' = "body"
    /\ UNCHANGED <<requests, wire, written, hungUp, parsed, answers>>

\* rfile.read blocks until the length or the end of the stream.
Handle ==
    /\ at = "body"
    /\ \/ Len(wire) >= Length(Serving) /\ ~Raises(Serving)
          /\ wire' = SubSeq(wire, Length(Serving) + 1, Len(wire))
          /\ Answer(Dispatch(Serving, TRUE))
       \/ Len(wire) < Length(Serving) /\ hungUp
          /\ wire' = <<>>
          /\ Answer(Dispatch(Serving, FALSE))
    /\ at' = "idle"
    /\ UNCHANGED <<requests, written, hungUp, parsed>>

\* The socket times out, in http.server's reading of a head or in the body; or
\* the redactor raises on this text, and socketserver closes.
Drop ==
    /\ \/ at = "idle" /\ wire = <<>>
       \/ at = "body" /\ (Len(wire) < Length(Serving) \/ Raises(Serving))
    /\ at' = "closed"
    /\ UNCHANGED <<requests, wire, written, hungUp, parsed, answers>>

HttpNext ==
    \/ SendHead \/ SendBody \/ HangUp
    \/ ReadHead \/ Refuse \/ Accept \/ Handle \/ Drop

HttpSpec == HttpInit /\ [][HttpNext]_httpVars

----------------------------------------------------------------------------
\* What the routes say to a request whose body they take.
Routed(r) ==
    CASE r.method = "POST" /\ r.route \in {"/redact", "/scan"} ->
           IF r.content = "text" /\ r.units > 0 THEN {200, 400} ELSE {400}
      [] r.method = "GET" /\ r.route \in {"/health", "/version", "/detectors"} -> {200}
      [] OTHER -> {404}

Expected(r) ==
    IF r.method \notin {"GET", "POST"} THEN {501}
    ELSE CASE r.framing = "chunked" -> {411}
           [] r.framing \in {"malformed", "negative"} -> {400}
           [] r.framing = "length" /\ r.units > MaxBody -> {413}
           [] OTHER -> Routed(r)

\* An answer that its request calls for.  A body that was sent whole is refused
\* only for what it says.
Earned(a) ==
    LET r == requests[a.of] IN
    /\ a.part = "head" /\ a.status \in Expected(r)
    /\ a.status = 400 /\ r.content # "malformed" /\ r.framing = "length" =>
         hungUp /\ written.request = a.of /\ written.units < r.units

\* The i-th answer on a connection is the answer to the i-th request the client
\* made: no part of a body is ever taken for a request, wherever a body was
\* left unread, cut short or refused.
RequestsAnswered ==
    \A i \in DOMAIN answers : answers[i].of = i /\ Earned(answers[i])

\* The wire from place k on: the rest of what the client has written after the
\* head of request i, in order.
Follows(i, k) ==
    IF i = written.request
    THEN /\ Len(wire) = (k - 1) + written.units
         /\ \A j \in k .. Len(wire) : wire[j] = [of |-> i, part |-> "body"]
    ELSE /\ i < written.request /\ k + requests[i].units <= Len(wire)
         /\ \A j \in k .. k + requests[i].units - 1 : wire[j] = [of |-> i, part |-> "body"]
         /\ wire[k + requests[i].units] = [of |-> i + 1, part |-> "head"]

\* What is on the wire is what the client wrote, from any head on.
HeadsFollowed ==
    \A k \in 1 .. Len(wire) :
        wire[k].part = "head" => /\ wire[k].of \in 1 .. written.request
                                /\ Follows(wire[k].of, k + 1)

\* Why RequestsAnswered: the thread stands between two requests or behind the
\* head of the next.
InStep ==
    /\ at = "idle" =>
         \/ wire # <<>> /\ wire[1] = [of |-> Len(answers) + 1, part |-> "head"]
         \/ wire = <<>> /\ (hungUp \/ (BodySent /\ written.request = Len(answers)))
    /\ at \in {"head", "body"} =>
         /\ parsed = [of |-> Len(answers) + 1, part |-> "head"]
         /\ Len(answers) + 1 \in 1 .. written.request
         /\ Follows(Len(answers) + 1, 1)
    /\ at = "body" =>
         /\ requests[Len(answers) + 1].method \in {"GET", "POST"}
         /\ Refusal(requests[Len(answers) + 1]) = 0

Units == [of : Nat, part : {"head", "body"}]

HttpTypeOK ==
    /\ requests \in Seq(Requests) /\ requests \in Conversations
    /\ wire \in Seq(Units)
    /\ written \in [request : 0 .. Len(requests), units : Nat]
    /\ written.request # 0 => written.units <= requests[written.request].units
    /\ hungUp \in BOOLEAN /\ at \in {"idle", "head", "body", "closed"}
    /\ answers \in Seq([of : Nat, part : {"none", "head", "body"}, status : Nat])

HttpInv == HttpTypeOK /\ HeadsFollowed /\ InStep /\ RequestsAnswered
=============================================================================
