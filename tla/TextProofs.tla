----------------------------- MODULE TextProofs -----------------------------
(***************************************************************************)
(* Proofs about the servers, the line tracker, the constructor and the     *)
(* pattern tiers, for all conversations, all lines, texts of any length,   *)
(* all configurations and all wheels.                                      *)
(***************************************************************************)
EXTENDS Servers, LineTracker, Assembly, PatternScan, FiniteSetTheorems, WellFoundedInduction, TLAPS

----------------------------------------------------------------------------
(* The MCP loop.                                                           *)

Replied == [code : Codes, carries : SUBSET Carried]

\* What the loop makes of a line it survives is a reply just when the line asks
\* for one, and only redact's carries text.
LEMMA Replies ==
    ASSUME NEW l \in Lines, l.kind # "not loadable"
    PROVE  IF Asks(l)
           THEN /\ Reply(l) \in Replied /\ Reply(l) # Silent
                /\ "redacted text" \in Reply(l).carries => l.tool = "redact"
           ELSE Reply(l) = Silent
<1>1. ASSUME NEW carries \in SUBSET Carried
      PROVE  Ok(carries) \in Replied /\ Ok(carries).carries = carries
  BY DEF Ok, Replied, Codes
<1>2. ASSUME NEW code \in Codes
      PROVE  Error(code) \in Replied /\ Error(code).carries = {}
  BY DEF Error, Replied
<1>3. ASSUME l.tool \in TextTools
      PROVE  CallText(l) \in Replied /\ ("redacted text" \in CallText(l).carries => l.tool = "redact")
  <2>1. CASE l.text \in {"absent", "oversize", "raises"}
    BY <2>1, <1>2 DEF CallText, Codes
  <2>2. CASE l.text \notin {"absent", "oversize", "raises"}
    <3>1. PICK carries \in {{"positions", "counts"}, {"redacted text", "counts"},
                            {"positions", "counts", "notes"}} :
            /\ CallText(l) = Ok(carries)
            /\ "redacted text" \in carries => l.tool = "redact"
      BY <2>2, <1>3 DEF CallText, TextTools
    <3>. QED
      BY <3>1, <1>1 DEF Carried
  <2>. QED
    BY <2>1, <2>2
<1>4. CallTool(l) \in Replied /\ ("redacted text" \in CallTool(l).carries => l.tool = "redact")
  BY <1>1, <1>2, <1>3 DEF CallTool, Codes
<1>5. /\ DispatchMethod(l) \in Replied
      /\ "redacted text" \in DispatchMethod(l).carries => l.tool = "redact"
  BY <1>1, <1>2, <1>4 DEF DispatchMethod, Codes
<1>6. Silent \notin Replied
  BY DEF Silent, Replied, Codes
<1>7. CASE l.kind = "object"
  BY <1>2, <1>5, <1>6, <1>7 DEF Reply, HandleMessage, Asks, Codes
<1>8. CASE l.kind \in {"blank", "garbage", "not an object"}
  BY <1>2, <1>6, <1>8 DEF Reply, Asks, Codes
<1>. QED
  BY <1>7, <1>8 DEF Lines

LEMMA McpInitial == ASSUME McpInit PROVE McpInv
<1>1. replies = <<>> /\ readTo = 0 /\ messages \in Seq(Lines) /\ messages \in Inputs
  BY McpAssumption DEF McpInit
<1>2. initialized \in BOOLEAN /\ running \in BOOLEAN
  BY Zenon DEF McpInit
<1>3. readTo \in 0 .. Len(messages)
  BY <1>1
<1>4. replies \in Seq([of : Nat, id : MessageIds \cup {"null"}, code : Codes, carries : SUBSET Carried])
  BY <1>1
<1>5. LinesAnswered
  BY <1>1 DEF LinesAnswered, Fits
<1>. QED
  BY <1>1, <1>2, <1>3, <1>4, <1>5 DEF McpInv, McpTypeOK

\* Each step keeps every reply in its place.
LEMMA McpStep == ASSUME McpInv, [McpNext]_mcpVars PROVE McpInv'
<1>1. /\ messages \in Inputs /\ messages \in Seq(Lines)
      /\ readTo \in 0 .. Len(messages) /\ running \in BOOLEAN /\ initialized \in BOOLEAN
      /\ replies \in Seq([of : Nat, id : MessageIds \cup {"null"}, code : Codes,
                          carries : SUBSET Carried])
      /\ \A k \in DOMAIN replies : Fits(replies[k])
      /\ \A j, k \in DOMAIN replies : j < k => replies[j].of < replies[k].of
      /\ \A i \in 1 .. readTo :
           Asks(messages[i]) => (\E k \in DOMAIN replies : replies[k].of = i)
                                 \/ (i = readTo /\ Kills(messages[i]))
      /\ running => \A i \in 1 .. readTo : ~Kills(messages[i])
  BY McpAssumption DEF McpInv, McpTypeOK, LinesAnswered
<1>2. CASE Serve
  <2>. DEFINE l == messages[readTo + 1]
              reply == [of |-> readTo + 1, id |-> IdOf(l), code |-> Reply(l).code,
                        carries |-> Reply(l).carries]
  <2>1. /\ messages' = messages /\ l \in Lines
        /\ readTo' = readTo + 1 /\ readTo' \in 1 .. Len(messages)
        /\ running /\ running' = ~Kills(l)
        /\ replies' = IF Kills(l) \/ Reply(l) = Silent THEN replies ELSE Append(replies, reply)
    BY <1>1, <1>2 DEF Serve
  <2>2. initialized' \in BOOLEAN
    BY <1>2, Zenon DEF Serve
  <2>3. running' \in BOOLEAN
    BY <2>1, Zenon DEF Kills
  <2>4. \A i \in 1 .. readTo : ~Kills(messages[i])
    BY <1>1, <2>1, Zenon
  <2>5. \A i \in 1 .. readTo' : i \in 1 .. readTo \/ i = readTo + 1
    BY <1>1, <2>1
  <2>6. running' => \A i \in 1 .. readTo' : ~Kills(messages'[i])
    BY <2>5, <2>1, <2>4, Zenon
  <2>7. \A i \in 1 .. readTo : Asks(messages[i]) => \E k \in DOMAIN replies : replies[k].of = i
    BY <1>1, <2>4, Zenon
  <2>8. ASSUME NEW r, Fits(r) PROVE Fits(r)' /\ r.of < readTo + 1
    <3>1. r.of \in 1 .. readTo
      BY <2>8, Zenon DEF Fits
    <3>2. r.of \in 1 .. readTo' /\ r.of < readTo + 1
      BY <3>1, <2>1, <1>1
    <3>. QED
      BY <2>8, <3>2, <2>1, Zenon DEF Fits
  <2>. HIDE DEF l
  <2>9. CASE Kills(l) \/ Reply(l) = Silent
    <3>1. replies' = replies
      BY <2>1, <2>9
    <3>2. ~Kills(l) => ~Asks(l)
      BY <2>9, <2>1, Replies DEF Kills
    <3>3. LinesAnswered'
      BY <1>1, <2>1, <2>5, <2>7, <2>8, <3>1, <3>2, Zenon DEF LinesAnswered, l
    <3>. QED
      BY <1>1, <2>1, <2>2, <2>3, <2>6, <3>1, <3>3 DEF McpInv, McpTypeOK
  <2>10. CASE ~Kills(l) /\ Reply(l) # Silent
    <3>1. replies' = Append(replies, reply)
      BY <2>1, <2>10
    <3>2. Asks(l) /\ Reply(l) \in Replied /\ ("redacted text" \in Reply(l).carries => l.tool = "redact")
      BY <2>10, <2>1, Replies DEF Kills
    <3>3. IdOf(l) \in MessageIds \cup {"null"}
      BY <2>1 DEF IdOf, Lines
    <3>4. Reply(l).code \in Codes /\ Reply(l).carries \in SUBSET Carried
      BY <3>2 DEF Replied
    <3>5. reply \in [of : Nat, id : MessageIds \cup {"null"}, code : Codes, carries : SUBSET Carried]
      BY <3>4, <3>3, <2>1, <1>1
    <3>6. /\ replies' \in Seq([of : Nat, id : MessageIds \cup {"null"}, code : Codes,
                               carries : SUBSET Carried])
          /\ DOMAIN replies = 1 .. Len(replies) /\ Len(replies) \in Nat
          /\ DOMAIN replies' = 1 .. Len(replies) + 1
          /\ \A k \in DOMAIN replies : replies'[k] = replies[k]
          /\ replies'[Len(replies) + 1] = reply
      BY <1>1, <3>1, <3>5
    <3>7. /\ reply.of = readTo + 1 /\ reply.id = IdOf(l)
          /\ "redacted text" \in reply.carries => l.tool = "redact"
      BY <3>2
    <3>. HIDE DEF reply
    <3>8. PICK r : r = reply
      OBVIOUS
    <3>9. Fits(r)'
      <4>1. r.of \in 1 .. readTo'
        <5>1. readTo + 1 \in 1 .. readTo'
          BY <1>1, <2>1
        <5>. QED
          BY <5>1, <3>7, <3>8, Zenon
      <4>2. messages'[r.of] = l
        BY <3>7, <3>8, <2>1 DEF l
      <4>. QED
        BY <4>1, <4>2, <2>10, <3>2, <3>7, <3>8, Zenon DEF Fits
    <3>10. \A k \in DOMAIN replies' : k \in DOMAIN replies \/ k = Len(replies) + 1
      BY <3>6
    <3>11. (\A k \in DOMAIN replies : Fits(replies[k]))'
      <4>. SUFFICES ASSUME NEW k \in DOMAIN replies' PROVE Fits(replies[k])'
        OBVIOUS
      <4>1. CASE k \in DOMAIN replies
        <5>1. PICK q : q = replies[k] /\ q = replies'[k]
          BY <4>1, <3>6
        <5>. QED
          BY <1>1, <2>8, <4>1, <5>1, Zenon
      <4>2. CASE k = Len(replies) + 1
        BY <3>6, <3>8, <3>9, <4>2, Zenon
      <4>. QED
        BY <3>10, <4>1, <4>2
    <3>12. \A j, k \in DOMAIN replies' : j < k => replies'[j].of < replies'[k].of
      <4>1. \A k \in DOMAIN replies : replies[k].of < readTo + 1
        BY <1>1, <2>8, Zenon
      <4>2. \A k \in DOMAIN replies : k < Len(replies) + 1
        BY <3>6
      <4>. SUFFICES ASSUME NEW j \in DOMAIN replies', NEW k \in DOMAIN replies', j < k
                    PROVE  replies'[j].of < replies'[k].of
        OBVIOUS
      <4>3. j \in DOMAIN replies
        BY <3>6
      <4>4. CASE k \in DOMAIN replies
        BY <4>3, <4>4, <3>6, <1>1, Zenon
      <4>5. CASE k = Len(replies) + 1
        BY <4>1, <4>3, <4>5, <3>6, <3>7, Zenon
      <4>. QED
        BY <3>10, <4>4, <4>5
    <3>13. \A i \in 1 .. readTo' : Asks(messages[i]) => \E k \in DOMAIN replies' : replies'[k].of = i
      <4>1. \A k \in DOMAIN replies : k \in DOMAIN replies'
        BY <3>6
      <4>2. Len(replies) + 1 \in DOMAIN replies'
        BY <3>6
      <4>. QED
        BY <2>1, <2>5, <2>7, <3>6, <3>7, <4>1, <4>2, Zenon
    <3>14. LinesAnswered'
      BY <3>11, <3>12, <3>13, <2>1, Zenon DEF LinesAnswered
    <3>. QED
      BY <1>1, <2>1, <2>2, <2>3, <2>6, <3>6, <3>14 DEF McpInv, McpTypeOK
  <2>. QED
    BY <2>9, <2>10
<1>3. CASE EndOfInput
  BY <1>3 DEF EndOfInput, LinesAnswered, Fits, McpInv, McpTypeOK
<1>4. CASE UNCHANGED mcpVars
  BY <1>4 DEF mcpVars, LinesAnswered, Fits, McpInv, McpTypeOK
<1>. QED
  BY <1>2, <1>3, <1>4 DEF McpNext

\* Along every input each line that asks has its one answer, in order; a line
\* that ended the loop is the last.
THEOREM McpInvariant == McpSpec => []McpInv
<1>. QED
  BY McpInitial, McpStep, PTL DEF McpSpec

----------------------------------------------------------------------------
(* The line tracker.                                                       *)

\* A finite set of numbers that has a member has a last one.
LEMMA LastMember ==
    ASSUME NEW S \in SUBSET Int, IsFiniteSet(S), S # {}
    PROVE  Max(S) \in S /\ \A y \in S : Max(S) >= y
<1>. DEFINE Above(x) == {y \in S : y > x}
            T == {Above(x) : x \in S}
<1>1. \A x \in S : x \in Int
  OBVIOUS
<1>2. IsWellFoundedOn(StrictSubsetOrdering(S), SUBSET S)
  BY FS_StrictSubsetOrderingWellFounded, FS_FiniteSubsetsOfFinite
<1>3. T \subseteq SUBSET S /\ T # {}
  <2>1. \A x \in S : Above(x) \in SUBSET S /\ Above(x) \in T
    OBVIOUS
  <2>. QED
    BY <2>1
<1>4. PICK U \in T : \A V \in T : <<V, U>> \notin StrictSubsetOrdering(S)
  <2>. HIDE DEF T
  <2>. QED
    BY <1>2, <1>3, WFMin, Zenon
<1>5. PICK x \in S : U = Above(x)
  OBVIOUS
<1>6. Above(x) = {}
  <2>. SUFFICES ASSUME NEW y \in Above(x) PROVE FALSE
    OBVIOUS
  <2>1. y \in S /\ y > x
    OBVIOUS
  <2>2. Above(y) \subseteq Above(x) /\ y \notin Above(y) /\ Above(y) \in T
    <3>1. \A z \in S : z > y => z > x
      BY <1>1, <2>1
    <3>2. ~(y > y)
      BY <1>1, <2>1
    <3>. QED
      BY <2>1, <3>1, <3>2
  <2>3. <<Above(y), Above(x)>> \in StrictSubsetOrdering(S)
    BY <2>2 DEF StrictSubsetOrdering
  <2>. QED
    BY <1>4, <1>5, <2>2, <2>3
<1>7. \A y \in S : x >= y
  BY <1>6
<1>. QED
  BY <1>7, Zenon DEF Max

\* There is one last member.
LEMMA LastIs ==
    ASSUME NEW S \in SUBSET Int, IsFiniteSet(S), NEW m \in S, \A y \in S : m >= y
    PROVE  Max(S) = m
<1>1. Max(S) \in S /\ Max(S) >= m
  BY LastMember
<1>2. m >= Max(S) /\ m \in Int /\ Max(S) \in Int
  BY <1>1
<1>. QED
  BY <1>1, <1>2

\* The breaks before two positions, one not behind the other.
LEMMA Counting ==
    ASSUME newlines \in SUBSET (0 .. LinesLen - 1),
           NEW pos \in 0 .. LinesLen, NEW at1 \in pos .. LinesLen,
           NEW n, NEW first, OnLine(pos, n, first),
           NEW breaks, breaks = {p \in newlines : pos <= p /\ p < at1}
    PROVE  /\ OnLine(at1, n + Cardinality(breaks), IF breaks = {} THEN first ELSE Max(breaks) + 1)
           /\ n + Cardinality(breaks) \in 1 .. LinesLen + 1
           /\ (IF breaks = {} THEN first ELSE Max(breaks) + 1) \in 0 .. LinesLen
<1>. USE LineAssumption
<1>1. /\ LinesLen \in Nat /\ pos \in Int /\ at1 \in Int /\ pos <= at1 /\ at1 <= LinesLen
      /\ \A p \in newlines : p \in Int /\ 0 <= p /\ p < LinesLen
  OBVIOUS
<1>2. \A p \in newlines : ~(p < pos /\ pos <= p)
  BY <1>1
<1>3. IsFiniteSet(newlines) /\ Cardinality(newlines) <= LinesLen
  <2>1. IsFiniteSet(0 .. LinesLen - 1) /\ Cardinality(0 .. LinesLen - 1) = LinesLen
    BY FS_Interval
  <2>. QED
    BY <2>1, FS_Subset
<1>4. /\ IsFiniteSet(Before(pos)) /\ IsFiniteSet(Before(at1)) /\ IsFiniteSet(breaks)
      /\ Cardinality(Before(at1)) <= LinesLen
      /\ Cardinality(Before(pos)) \in Nat /\ Cardinality(Before(at1)) \in Nat
      /\ Cardinality(breaks) \in Nat
  <2>1. Before(pos) \in SUBSET newlines /\ Before(at1) \in SUBSET newlines /\ breaks \in SUBSET newlines
    BY DEF Before
  <2>2. IsFiniteSet(Before(pos)) /\ IsFiniteSet(Before(at1)) /\ IsFiniteSet(breaks)
    BY <1>3, <2>1, FS_Subset
  <2>3. Cardinality(Before(at1)) <= Cardinality(newlines)
    BY <1>3, <2>1, FS_Subset
  <2>4. /\ Cardinality(Before(pos)) \in Nat /\ Cardinality(Before(at1)) \in Nat
        /\ Cardinality(breaks) \in Nat /\ Cardinality(newlines) \in Nat
    BY <1>3, <2>2, FS_CardinalityType
  <2>. QED
    BY <1>3, <2>2, <2>3, <2>4
<1>5. Before(at1) = Before(pos) \cup breaks /\ Before(pos) \cap breaks = {}
  <2>1. /\ \A p : p \in Before(at1) <=> p \in newlines /\ p < at1
        /\ \A p : p \in Before(pos) <=> p \in newlines /\ p < pos
    BY Zenon DEF Before
  <2>2. \A p : p \in breaks <=> p \in newlines /\ pos <= p /\ p < at1
    OBVIOUS
  <2>3. \A p : p \in Before(at1) <=> p \in Before(pos) \/ p \in breaks
    <3>. SUFFICES ASSUME NEW p PROVE p \in Before(at1) <=> p \in Before(pos) \/ p \in breaks
      OBVIOUS
    <3>1. /\ p \in Before(at1) <=> p \in newlines /\ p < at1
          /\ p \in Before(pos) <=> p \in newlines /\ p < pos
          /\ p \in breaks <=> p \in newlines /\ pos <= p /\ p < at1
      BY <2>1, <2>2, Zenon
    <3>2. p \in newlines => (p < at1 <=> p < pos \/ (pos <= p /\ p < at1))
      BY <1>1, SMT
    <3>. QED
      BY <3>1, <3>2, Zenon
  <2>4. \A p : ~(p \in Before(pos) /\ p \in breaks)
    BY <1>2, <2>1, <2>2, Zenon
  <2>. QED
    BY <2>3, <2>4
<1>6. Cardinality(Before(at1)) = Cardinality(Before(pos)) + Cardinality(breaks)
  <2>1. Cardinality(Before(at1)) = Cardinality(Before(pos)) + Cardinality(breaks) - Cardinality({})
    BY <1>4, <1>5, FS_Union
  <2>. QED
    BY <1>4, <2>1, FS_EmptySet
<1>7. /\ n + Cardinality(breaks) = 1 + Cardinality(Before(at1))
      /\ n + Cardinality(breaks) \in 1 .. LinesLen + 1
  BY <1>4, <1>6 DEF OnLine
<1>8. CASE breaks = {}
  <2>1. Before(at1) = Before(pos)
    BY <1>5, <1>8
  <2>2. first = IF Before(at1) = {} THEN 0 ELSE Max(Before(at1)) + 1
    BY <2>1 DEF OnLine
  <2>3. first \in 0 .. LinesLen
    <3>1. CASE Before(at1) = {}
      BY <2>2, <3>1
    <3>2. CASE Before(at1) # {}
      <4>1. Before(at1) \in SUBSET Int /\ Before(at1) \subseteq 0 .. LinesLen - 1
        BY <1>1 DEF Before
      <4>2. Max(Before(at1)) \in 0 .. LinesLen - 1
        BY <1>4, <3>2, <4>1, LastMember
      <4>. QED
        BY <2>2, <3>2, <4>2
    <3>. QED
      BY <3>1, <3>2
  <2>. QED
    BY <1>7, <1>8, <2>2, <2>3 DEF OnLine
<1>9. CASE breaks # {}
  <2>1. breaks \in SUBSET Int /\ Before(at1) \in SUBSET Int
    BY <1>1 DEF Before
  <2>2. Max(breaks) \in breaks /\ \A y \in breaks : Max(breaks) >= y
    BY <1>4, <1>9, <2>1, LastMember
  <2>3. Max(breaks) \in newlines /\ pos <= Max(breaks) /\ Max(breaks) < at1
    BY <2>2
  <2>4. /\ Max(breaks) \in Int /\ 0 <= Max(breaks) /\ Max(breaks) < LinesLen
         /\ pos <= Max(breaks)
    BY <1>1, <2>3, Zenon
  <2>5. Max(breaks) \in Before(at1) /\ \A y \in Before(at1) : Max(breaks) >= y
    <3>1. \A y \in Before(pos) : Max(breaks) >= y
      BY <1>1, <2>4 DEF Before
    <3>. QED
      BY <1>5, <2>2, <3>1
  <2>6. Max(Before(at1)) = Max(breaks)
    BY <1>4, <2>1, <2>5, LastIs
  <2>7. Max(breaks) + 1 \in 0 .. LinesLen
    BY <1>1, <2>4
  <2>8. Before(at1) # {}
    BY <2>5
  <2>. QED
    BY <1>7, <1>9, <2>6, <2>7, <2>8, Zenon DEF OnLine
<1>. QED
  BY <1>8, <1>9

Trackers == [line : 1 .. LinesLen + 1, lineStart : 0 .. LinesLen, pos : 0 .. LinesLen]

\* locate counts right when it is not asked to go back.
LEMMA TrackerMoves ==
    ASSUME LineInv, newlines' = newlines, NEW at1 \in 0 .. LinesLen,
           offset <= tracker.pos, tracker.pos <= at1, tracker' = Located(at1)
    PROVE  /\ tracker' \in Trackers /\ tracker'.pos = at1
           /\ OnLine(tracker.pos, tracker.line, tracker.lineStart)'
<1>1. /\ newlines \in SUBSET (0 .. LinesLen - 1) /\ tracker \in Trackers
      /\ OnLine(tracker.pos, tracker.line, tracker.lineStart)
  BY DEF LineInv, LineTypeOK, Trackers
<1>2. tracker.pos \in 0 .. LinesLen /\ at1 \in tracker.pos .. LinesLen
  BY <1>1 DEF Trackers
<1>3. FindFrom = tracker.pos
  BY DEF FindFrom
<1>. DEFINE breaks == {p \in newlines : tracker.pos <= p /\ p < at1}
            n == tracker.line + Cardinality(breaks)
            first == IF breaks = {} THEN tracker.lineStart ELSE Max(breaks) + 1
<1>4. OnLine(at1, n, first) /\ n \in 1 .. LinesLen + 1 /\ first \in 0 .. LinesLen
  BY <1>1, <1>2, Counting, Zenon
<1>5. tracker' = [line |-> n, lineStart |-> first, pos |-> at1]
  BY <1>3 DEF Located
<1>. HIDE DEF n, first
<1>6. tracker'.line = n /\ tracker'.lineStart = first /\ tracker'.pos = at1 /\ tracker' \in Trackers
  BY <1>4, <1>5 DEF Trackers
<1>7. OnLine(tracker'.pos, tracker'.line, tracker'.lineStart)
  BY <1>4, <1>6, Zenon
<1>8. Before(tracker'.pos) = Before(tracker.pos)'
  BY DEF Before
<1>. QED
  BY <1>6, <1>7, <1>8, Zenon DEF OnLine

\* What is reported is what the tracker then holds.
LEMMA ReportIsRight ==
    ASSUME LineInv, newlines' = newlines, NEW at1 \in 0 .. LinesLen,
           offset <= tracker.pos, tracker.pos <= at1, Locate(at1)
    PROVE  /\ tracker' \in Trackers /\ tracker'.pos = at1
           /\ OnLine(tracker.pos, tracker.line, tracker.lineStart)' /\ PositionsRight'
<1>1. /\ tracker' \in Trackers /\ tracker'.pos = at1
      /\ OnLine(tracker.pos, tracker.line, tracker.lineStart)'
  BY TrackerMoves DEF Locate
<1>2. answer' = [at |-> at1, line |-> tracker'.line, column |-> at1 - tracker'.lineStart + 1]
  BY DEF Locate
<1>3. /\ answer'.at = tracker'.pos /\ answer'.line = tracker'.line
      /\ answer'.at - answer'.column + 1 = tracker'.lineStart
  BY <1>1, <1>2 DEF Trackers
<1>4. OnLine(answer.at, answer.line, answer.at - answer.column + 1)'
      <=> OnLine(tracker.pos, tracker.line, tracker.lineStart)'
  BY <1>3, Zenon DEF OnLine, Before
<1>. QED
  BY <1>1, <1>4 DEF PositionsRight

LEMMA LineInitial == ASSUME LineInit PROVE LineInv
<1>1. LineTypeOK
  BY LineAssumption DEF LineInit, LineTypeOK
<1>2. AheadOfTracker
  BY DEF LineInit, AheadOfTracker
<1>3. Before(0) = {}
  <2>1. \A p \in newlines : p \in 0 .. LinesLen - 1
    BY <1>1 DEF LineTypeOK
  <2>2. \A p \in newlines : ~(p < 0)
    BY <2>1, LineAssumption
  <2>. QED
    BY <2>2, Zenon DEF Before
<1>4. OnLine(0, 1, 0)
  BY <1>3, FS_EmptySet DEF OnLine
<1>. QED
  BY <1>1, <1>2, <1>4 DEF LineInit, LineInv, PositionsRight, NoAnswer

LEMMA LineStep == ASSUME LineInv, [LineNext]_lineVars PROVE LineInv'
<1>. USE LineAssumption
<1>1. /\ LineTypeOK /\ AheadOfTracker /\ PositionsRight
      /\ OnLine(tracker.pos, tracker.line, tracker.lineStart)
      /\ tracker.pos \in 0 .. LinesLen
      /\ \A d \in findings : d.start \in 0 .. LinesLen /\ d.end \in 0 .. LinesLen /\ d.start < d.end
  BY DEF LineInv, LineTypeOK, SpansIn
<1>2. ASSUME UNCHANGED newlines, UNCHANGED <<tracker, answer>>
       PROVE  PositionsRight' /\ OnLine(tracker.pos, tracker.line, tracker.lineStart)'
  BY <1>1, <1>2 DEF PositionsRight, OnLine, Before
<1>3. ASSUME NEW n \in 1 .. LinesLen, Segment(n) PROVE LineInv'
  <2>1. LineTypeOK'
    BY <1>1, <1>3 DEF Segment, LineTypeOK
  <2>2. AheadOfTracker'
    BY <1>1, <1>3 DEF Segment, AheadOfTracker, LineTypeOK
  <2>. QED
    BY <1>2, <1>3, <2>1, <2>2 DEF LineInv, Segment
<1>4. CASE FirstLine
  <2>1. /\ offset \in 0 .. LinesLen /\ offset <= tracker.pos /\ tracker.pos <= offset
    BY <1>1, <1>4 DEF FirstLine, AheadOfTracker, LineTypeOK
  <2>2. /\ tracker' \in Trackers /\ tracker'.pos = offset
        /\ OnLine(tracker.pos, tracker.line, tracker.lineStart)' /\ PositionsRight'
    BY <1>4, <2>1, ReportIsRight, Zenon DEF FirstLine
  <2>3. LineTypeOK'
    BY <1>1, <1>4, <2>2 DEF FirstLine, LineTypeOK, Trackers
  <2>4. AheadOfTracker'
    BY <1>1, <1>4, <2>1, <2>2 DEF FirstLine, AheadOfTracker, LineTypeOK
  <2>. QED
    BY <2>2, <2>3, <2>4 DEF LineInv
<1>5. CASE Start
  <2>1. PICK d \in todo : /\ \A e \in todo : d.start <= e.start
                          /\ Locate(d.start)
                          /\ IF caller = "sarif"
                             THEN step' = "end" /\ UNCHANGED todo
                             ELSE todo' = todo \ {d} /\ UNCHANGED step
    BY <1>5 DEF Start
  <2>2. /\ d \in findings /\ d.start \in 0 .. LinesLen /\ d.start < d.end
        /\ offset <= tracker.pos /\ tracker.pos <= d.start /\ d.end <= segEnd
    BY <1>1, <1>5, <2>1 DEF Start, AheadOfTracker, LineTypeOK
  <2>3. /\ tracker' \in Trackers /\ tracker'.pos = d.start
        /\ OnLine(tracker.pos, tracker.line, tracker.lineStart)' /\ PositionsRight'
    BY <1>5, <2>1, <2>2, ReportIsRight, Zenon DEF Start
  <2>4. LineTypeOK'
    BY <1>1, <1>5, <2>1, <2>3 DEF Start, LineTypeOK, Trackers
  <2>5. AheadOfTracker'
    BY <1>1, <1>5, <2>1, <2>2, <2>3 DEF Start, AheadOfTracker, LineTypeOK
  <2>. QED
    BY <2>3, <2>4, <2>5 DEF LineInv
<1>6. CASE End
  <2>1. PICK d \in todo : /\ \A e \in todo : d.start <= e.start
                          /\ Locate(d.end)
                          /\ todo' = todo \ {d}
    BY <1>6 DEF End
  <2>2. /\ d \in findings /\ d.end \in 0 .. LinesLen /\ d.start < d.end
        /\ offset <= tracker.pos /\ d.start = tracker.pos /\ d.end <= segEnd
    BY <1>1, <1>6, <2>1 DEF End, AheadOfTracker, LineTypeOK
  <2>3. /\ tracker' \in Trackers /\ tracker'.pos = d.end
        /\ OnLine(tracker.pos, tracker.line, tracker.lineStart)' /\ PositionsRight'
    <3>1. tracker.pos <= d.end
      BY <1>1, <2>2
    <3>. QED
      BY <1>6, <2>1, <2>2, <3>1, ReportIsRight, Zenon DEF End
  <2>4. \A e \in todo \ {d} : d.end <= e.start
    BY <1>1, <2>1, <2>2 DEF LineTypeOK, PairwiseDisjoint, Overlap2
  <2>5. LineTypeOK'
    BY <1>1, <1>6, <2>1, <2>3 DEF End, LineTypeOK, Trackers
  <2>6. AheadOfTracker'
    BY <1>1, <1>6, <2>1, <2>2, <2>3, <2>4 DEF End, AheadOfTracker, LineTypeOK
  <2>. QED
    BY <2>3, <2>5, <2>6 DEF LineInv
<1>7. CASE LastLine
  <2>. DEFINE at1 == Larger(offset, segEnd - 1)
  <2>1. /\ at1 \in 0 .. LinesLen /\ at1 = segEnd - 1
        /\ offset <= tracker.pos /\ tracker.pos <= at1
    BY <1>1, <1>7 DEF LastLine, AheadOfTracker, LineTypeOK, Larger
  <2>. HIDE DEF at1
  <2>2. /\ tracker' \in Trackers /\ tracker'.pos = at1
        /\ OnLine(tracker.pos, tracker.line, tracker.lineStart)' /\ PositionsRight'
    <3>1. Locate(at1) /\ newlines' = newlines
      BY <1>7 DEF LastLine, at1
    <3>. QED
      BY <2>1, <3>1, ReportIsRight, Zenon
  <2>3. LineTypeOK'
    BY <1>1, <1>7, <2>2 DEF LastLine, LineTypeOK, Trackers
  <2>4. AheadOfTracker'
    BY <1>1, <1>7, <2>1, <2>2 DEF LastLine, AheadOfTracker, LineTypeOK
  <2>. QED
    BY <2>2, <2>3, <2>4 DEF LineInv
<1>8. CASE FinishSegment
  <2>1. /\ segEnd \in 0 .. LinesLen /\ offset <= tracker.pos /\ tracker.pos <= segEnd
    BY <1>1, <1>8 DEF FinishSegment, AheadOfTracker, LineTypeOK
  <2>2. /\ tracker' \in Trackers /\ tracker'.pos = segEnd
        /\ OnLine(tracker.pos, tracker.line, tracker.lineStart)'
    BY <1>8, <2>1, TrackerMoves, Zenon DEF FinishSegment
  <2>3. PositionsRight'
    BY <1>1, <1>8 DEF FinishSegment, PositionsRight, OnLine, Before
  <2>4. LineTypeOK'
    BY <1>1, <1>8, <2>2 DEF FinishSegment, LineTypeOK, Trackers
  <2>5. AheadOfTracker'
    BY <1>1, <1>8, <2>2 DEF FinishSegment, AheadOfTracker, LineTypeOK
  <2>. QED
    BY <2>2, <2>3, <2>4, <2>5 DEF LineInv
<1>9. CASE UNCHANGED lineVars
  BY <1>1, <1>2, <1>9 DEF lineVars, LineInv, LineTypeOK, AheadOfTracker
<1>. QED
  BY <1>3, <1>4, <1>5, <1>6, <1>7, <1>8, <1>9 DEF LineNext

\* In every text, cut into any segments, the tracker never looks back, and has
\* counted every break behind it.
THEOREM LineInvariant == LineSpec => []LineInv
<1>. QED
  BY LineInitial, LineStep, PTL DEF LineSpec

\* Every line and column that detect, its SARIF form or the chunk inspector
\* reports is the one of the whole text.
THEOREM PositionsAreTrue == LineSpec => []PositionsRight
<1>1. LineInv => PositionsRight
  BY DEF LineInv
<1>. QED
  BY <1>1, LineInvariant, PTL

----------------------------------------------------------------------------
(* The connection.                                                         *)

\* What the invariant says of the requests and of the wire.
LEMMA HttpFacts ==
    ASSUME HttpInv
    PROVE  /\ requests \in Seq(Requests) /\ Len(requests) \in Nat
           /\ \A i \in 1 .. Len(requests) : requests[i].units \in Nat
           /\ wire \in Seq(Units) /\ Len(wire) \in Nat
           /\ written.request \in 0 .. Len(requests) /\ written.units \in Nat
           /\ written.request \in Nat
           /\ written = [request |-> written.request, units |-> written.units]
           /\ Len(answers) \in Nat /\ DOMAIN answers = 1 .. Len(answers)
<1>1. /\ requests \in Seq(Requests) /\ wire \in Seq(Units)
      /\ written \in [request : 0 .. Len(requests), units : Nat]
      /\ answers \in Seq([of : Nat, part : {"none", "head", "body"}, status : Nat])
  BY DEF HttpInv, HttpTypeOK
<1>2. Len(requests) \in Nat /\ Len(wire) \in Nat
  BY <1>1
<1>3. Len(answers) \in Nat /\ DOMAIN answers = 1 .. Len(answers)
  BY <1>1
<1>4. \A i \in 1 .. Len(requests) : requests[i] \in Requests
  BY <1>1
<1>5. \A r \in Requests : r.units \in Nat
  BY DEF Requests
<1>6. \A i \in 1 .. Len(requests) : requests[i].units \in Nat
  BY <1>4, <1>5
<1>7. /\ written.request \in 0 .. Len(requests) /\ written.units \in Nat
      /\ written = [request |-> written.request, units |-> written.units]
  BY <1>1
<1>8. written.request \in Nat
  BY <1>2, <1>7
<1>. QED
  BY <1>1, <1>2, <1>3, <1>6, <1>7, <1>8

\* What the client writes next goes behind what it has written.
LEMMA FollowsSent ==
    ASSUME HttpInv, SendHead \/ SendBody,
           NEW i \in 1 .. written.request, NEW k \in 1 .. Len(wire) + 1, Follows(i, k)
    PROVE  Follows(i, k)'
<1>. DEFINE w == written.request
<1>1. /\ wire \in Seq(Units) /\ Len(wire) \in Nat /\ w \in Nat /\ written.units \in Nat
      /\ requests' = requests /\ i \in Nat /\ i <= w /\ w # 0
      /\ requests[i].units \in Nat
  <2>1. i \in 1 .. Len(requests)
    BY HttpFacts
  <2>. QED
    BY <2>1, HttpFacts DEF SendHead, SendBody
<1>2. CASE SendHead
  <2>1. /\ written'.request = w + 1 /\ written'.units = 0
        /\ Len(wire') = Len(wire) + 1
        /\ \A j \in 1 .. Len(wire) : wire'[j] = wire[j]
        /\ wire'[Len(wire) + 1] = [of |-> w + 1, part |-> "head"]
        /\ written.units = requests[w].units
    BY <1>1, <1>2 DEF SendHead, BodySent, Units
  <2>2. CASE i = w
    <3>1. /\ Len(wire) = (k - 1) + written.units
          /\ \A j \in k .. Len(wire) : wire[j] = [of |-> i, part |-> "body"]
      BY <2>2 DEF Follows
    <3>2. k + requests[i].units = Len(wire) + 1
      BY <1>1, <2>1, <2>2, <3>1
    <3>3. i # written'.request /\ i < written'.request /\ k + requests[i].units <= Len(wire')
      BY <1>1, <2>1, <2>2, <3>2
    <3>4. \A j \in k .. k + requests[i].units - 1 : j \in k .. Len(wire) /\ j \in 1 .. Len(wire)
      BY <1>1, <3>2
    <3>5. \A j \in k .. k + requests[i].units - 1 : wire'[j] = [of |-> i, part |-> "body"]
      BY <2>1, <3>1, <3>4, Zenon
    <3>6. wire'[k + requests[i].units] = [of |-> i + 1, part |-> "head"]
      BY <2>1, <2>2, <3>2, Zenon
    <3>. QED
      BY <1>1, <3>3, <3>5, <3>6, Zenon DEF Follows
  <2>3. CASE i # w
    <3>1. /\ i < w /\ k + requests[i].units <= Len(wire)
          /\ \A j \in k .. k + requests[i].units - 1 : wire[j] = [of |-> i, part |-> "body"]
          /\ wire[k + requests[i].units] = [of |-> i + 1, part |-> "head"]
      BY <2>3 DEF Follows
    <3>2. k \in Nat /\ k >= 1 /\ requests[i].units \in Nat /\ Len(wire) \in Nat
           /\ k + requests[i].units <= Len(wire) /\ requests' = requests
      BY <1>1, <3>1
    <3>3. \A j \in k .. k + requests[i].units - 1 : j \in 1 .. Len(wire)
      BY <3>2
    <3>4. k + requests[i].units \in 1 .. Len(wire)
      BY <3>2
    <3>5. /\ \A j \in k .. k + requests[i].units - 1 : j \in 1 .. Len(wire)
          /\ k + requests[i].units \in 1 .. Len(wire) /\ requests' = requests
      BY <3>2, <3>3, <3>4
    <3>6. /\ i < written'.request /\ i # written'.request
          /\ k + requests'[i].units <= Len(wire')
      BY <1>1, <2>1, <3>1
    <3>7. \A j \in k .. k + requests'[i].units - 1 : wire'[j] = [of |-> i, part |-> "body"]
      BY <1>1, <2>1, <3>1, <3>5
    <3>8. wire'[k + requests'[i].units] = [of |-> i + 1, part |-> "head"]
      BY <2>1, <3>1, <3>5, Zenon
    <3>. QED
      BY <3>6, <3>7, <3>8, Zenon DEF Follows
  <2>. QED
    BY <2>2, <2>3
<1>3. CASE SendBody
  <2>1. /\ written'.request = w /\ written'.units = written.units + 1
        /\ Len(wire') = Len(wire) + 1
        /\ \A j \in 1 .. Len(wire) : wire'[j] = wire[j]
        /\ wire'[Len(wire) + 1] = [of |-> w, part |-> "body"]
    BY <1>1, <1>3, HttpFacts DEF SendBody, Units
  <2>2. CASE i = w
    <3>1. /\ Len(wire) = (k - 1) + written.units
          /\ \A j \in k .. Len(wire) : wire[j] = [of |-> i, part |-> "body"]
      BY <2>2 DEF Follows
    <3>2. Len(wire') = (k - 1) + written'.units
      BY <1>1, <2>1, <3>1
    <3>3. \A j \in k .. Len(wire') : (j \in k .. Len(wire) /\ j \in 1 .. Len(wire)) \/ j = Len(wire) + 1
      BY <1>1, <2>1
    <3>4. \A j \in k .. Len(wire') : wire'[j] = [of |-> i, part |-> "body"]
      BY <2>1, <2>2, <3>1, <3>3, Zenon
    <3>. QED
      BY <2>1, <2>2, <3>2, <3>4, Zenon DEF Follows
  <2>3. CASE i # w
    <3>1. /\ i < w /\ k + requests[i].units <= Len(wire)
          /\ \A j \in k .. k + requests[i].units - 1 : wire[j] = [of |-> i, part |-> "body"]
          /\ wire[k + requests[i].units] = [of |-> i + 1, part |-> "head"]
      BY <2>3 DEF Follows
    <3>2. k \in Nat /\ k >= 1 /\ requests[i].units \in Nat /\ Len(wire) \in Nat
           /\ k + requests[i].units <= Len(wire) /\ requests' = requests
      BY <1>1, <3>1
    <3>3. \A j \in k .. k + requests[i].units - 1 : j \in 1 .. Len(wire)
      BY <3>2
    <3>4. k + requests[i].units \in 1 .. Len(wire)
      BY <3>2
    <3>5. /\ \A j \in k .. k + requests[i].units - 1 : j \in 1 .. Len(wire)
          /\ k + requests[i].units \in 1 .. Len(wire) /\ requests' = requests
      BY <3>2, <3>3, <3>4
    <3>6. /\ i < written'.request /\ i # written'.request
          /\ k + requests'[i].units <= Len(wire')
      BY <1>1, <2>1, <3>1
    <3>7. \A j \in k .. k + requests'[i].units - 1 : wire'[j] = [of |-> i, part |-> "body"]
      BY <1>1, <2>1, <3>1, <3>5
    <3>8. wire'[k + requests'[i].units] = [of |-> i + 1, part |-> "head"]
      BY <2>1, <3>1, <3>5, Zenon
    <3>. QED
      BY <3>6, <3>7, <3>8, Zenon DEF Follows
  <2>. QED
    BY <2>2, <2>3
<1>. QED
  BY <1>2, <1>3

\* What is left of a sequence without its first n members.
LEMMA Dropped ==
    ASSUME NEW T, NEW s \in Seq(T), NEW n \in 0 .. Len(s)
    PROVE  /\ SubSeq(s, n + 1, Len(s)) \in Seq(T)
           /\ Len(SubSeq(s, n + 1, Len(s))) = Len(s) - n
           /\ \A j \in 1 .. Len(s) - n : SubSeq(s, n + 1, Len(s))[j] = s[j + n]
           /\ n < Len(s) => /\ SubSeq(s, n + 1, Len(s)) # <<>>
                            /\ SubSeq(s, n + 1, Len(s))[1] = s[1 + n]
           /\ n = Len(s) => SubSeq(s, n + 1, Len(s)) = <<>>
<1>1. Len(s) \in Nat /\ n \in Nat
  OBVIOUS
<1>2. /\ SubSeq(s, n + 1, Len(s)) \in Seq(T)
      /\ Len(SubSeq(s, n + 1, Len(s))) = Len(s) - n
  BY <1>1
<1>3. \A j \in 1 .. Len(s) - n : SubSeq(s, n + 1, Len(s))[j] = s[j + n]
  <2>. SUFFICES ASSUME NEW j \in 1 .. Len(s) - n PROVE SubSeq(s, n + 1, Len(s))[j] = s[j + n]
    OBVIOUS
  <2>1. j \in 1 .. Len(s) - (n + 1) + 1 /\ (n + 1) + j - 1 = j + n
    BY <1>1
  <2>. QED
    BY <1>1, <2>1
<1>4. ASSUME n < Len(s) PROVE 1 \in 1 .. Len(s) - n
  BY <1>1, <1>4
<1>5. ASSUME n < Len(s) PROVE SubSeq(s, n + 1, Len(s)) # <<>>
  <2>1. Len(s) - n # 0
    BY <1>1, <1>5
  <2>2. Len(<<>>) = 0
    OBVIOUS
  <2>. QED
    BY <1>2, <2>1, <2>2, Zenon
<1>. QED
  BY <1>1, <1>2, <1>3, <1>4, <1>5

\* What the thread takes off the wire, it takes from the front.
LEMMA FollowsRead ==
    ASSUME HttpInv, NEW n \in 0 .. Len(wire), wire' = SubSeq(wire, n + 1, Len(wire)),
           UNCHANGED <<requests, written>>,
           NEW i \in 1 .. written.request, NEW k \in n + 1 .. Len(wire) + 1, Follows(i, k)
    PROVE  Follows(i, k - n)'
<1>1. /\ wire \in Seq(Units) /\ Len(wire) \in Nat /\ written.units \in Nat
      /\ requests[i].units \in Nat /\ i \in Nat /\ written.request \in Nat
  <2>1. i \in 1 .. Len(requests) /\ i \in Nat
    BY HttpFacts
  <2>. QED
    BY <2>1, HttpFacts
<1>2. /\ Len(wire') = Len(wire) - n
      /\ \A j \in 1 .. Len(wire) - n : wire'[j] = wire[j + n]
  BY <1>1, Dropped
<1>3. written' = written /\ requests' = requests /\ k \in Int /\ k - n \in Int
  BY <1>1
<1>4. CASE i = written.request
  <2>1. /\ Len(wire) = (k - 1) + written.units
        /\ \A j \in k .. Len(wire) : wire[j] = [of |-> i, part |-> "body"]
    BY <1>4 DEF Follows
  <2>2. Len(wire') = ((k - n) - 1) + written'.units
    <3>1. /\ Len(wire) \in Int /\ n \in Int /\ k \in Int /\ written.units \in Int
          /\ Len(wire) = (k - 1) + written.units /\ Len(wire') = Len(wire) - n
      BY <1>1, <1>2, <1>3, <2>1
    <3>2. ASSUME NEW a \in Int, NEW b \in Int, NEW c \in Int, NEW d \in Int, a = (c - 1) + d
          PROVE  a - b = ((c - b) - 1) + d
      BY <3>2
    <3>3. Len(wire) - n = ((k - n) - 1) + written.units
      BY <3>1, <3>2
    <3>. QED
      BY <1>3, <3>1, <3>3, Zenon
  <2>3. \A j \in k - n .. Len(wire') : j + n \in k .. Len(wire) /\ j \in 1 .. Len(wire) - n
    BY <1>1, <1>2
  <2>4. \A j \in k - n .. Len(wire') : wire'[j] = [of |-> i, part |-> "body"]
    BY <1>2, <2>1, <2>3, Zenon
  <2>. QED
    BY <1>3, <1>4, <2>2, <2>4, Zenon DEF Follows
<1>5. CASE i # written.request
  <2>. DEFINE u == requests[i].units
  <2>1. /\ i < written.request /\ k + u <= Len(wire)
        /\ \A j \in k .. k + u - 1 : wire[j] = [of |-> i, part |-> "body"]
        /\ wire[k + u] = [of |-> i + 1, part |-> "head"]
    BY <1>5 DEF Follows
  <2>2. u \in Nat
    BY <1>1
  <2>. HIDE DEF u
  <2>3. (k - n) + u <= Len(wire')
    BY <1>1, <1>2, <1>3, <2>1, <2>2
  <2>4. \A j \in k - n .. (k - n) + u - 1 : j + n \in k .. k + u - 1 /\ j \in 1 .. Len(wire) - n
    BY <1>1, <1>2, <1>3, <2>1, <2>2
  <2>5. \A j \in k - n .. (k - n) + u - 1 : wire'[j] = [of |-> i, part |-> "body"]
    BY <1>2, <2>1, <2>4, Zenon
  <2>6. (k - n) + u \in 1 .. Len(wire) - n /\ ((k - n) + u) + n = k + u
    BY <1>1, <1>2, <1>3, <2>1, <2>2
  <2>7. wire'[(k - n) + u] = [of |-> i + 1, part |-> "head"]
    BY <1>2, <2>1, <2>6, Zenon
  <2>. QED
    BY <1>3, <1>5, <2>1, <2>3, <2>5, <2>7, Zenon DEF Follows, u
<1>. QED
  BY <1>4, <1>5

LEMMA HeadsSent == ASSUME HttpInv, SendHead \/ SendBody PROVE HeadsFollowed'
<1>. DEFINE u == wire'[Len(wire) + 1]
<1>1. /\ wire \in Seq(Units) /\ Len(wire) \in Nat /\ written.request \in Nat /\ written.units \in Nat
  BY HttpFacts
<1>2. /\ Len(wire') = Len(wire) + 1
      /\ \A j \in 1 .. Len(wire) : wire'[j] = wire[j]
      /\ written'.request >= written.request /\ written'.request \in Nat
      /\ u.part = "head" => SendHead /\ u.of = written.request + 1
  BY <1>1, HttpFacts DEF SendHead, SendBody, Units
<1>. SUFFICES ASSUME NEW k \in 1 .. Len(wire'), wire'[k].part = "head"
              PROVE  /\ wire'[k].of \in 1 .. written'.request
                     /\ Follows(wire[k].of, k + 1)'
  BY DEF HeadsFollowed
<1>3. CASE k \in 1 .. Len(wire)
  <2>1. PICK i : i = wire[k].of /\ i = wire'[k].of
    BY <1>2, <1>3
  <2>2. i \in 1 .. written.request /\ Follows(i, k + 1)
    BY <1>2, <1>3, <2>1 DEF HttpInv, HeadsFollowed
  <2>3. i \in 1 .. written'.request
    BY <1>1, <1>2, <2>2
  <2>4. k + 1 \in 1 .. Len(wire) + 1
    BY <1>1, <1>3
  <2>5. Follows(i, k + 1)'
    BY <2>2, <2>4, FollowsSent
  <2>. QED
    BY <2>1, <2>3, <2>5, Zenon
<1>4. CASE k = Len(wire) + 1
  <2>1. SendHead /\ wire'[k].of = written.request + 1
    BY <1>2, <1>4
  <2>2. written'.request = written.request + 1 /\ written'.units = 0
    BY <2>1 DEF SendHead
  <2>3. PICK i : i = written.request + 1 /\ i = wire'[k].of
    BY <2>1
  <2>4. Follows(i, k + 1)'
    BY <1>1, <1>2, <1>4, <2>2, <2>3 DEF Follows
  <2>. QED
    BY <1>1, <2>2, <2>3, <2>4
<1>. QED
  BY <1>1, <1>2, <1>3, <1>4

LEMMA HeadsRead ==
    ASSUME HttpInv, NEW n \in 0 .. Len(wire), wire' = SubSeq(wire, n + 1, Len(wire)),
           UNCHANGED <<requests, written>>
    PROVE  HeadsFollowed'
<1>1. /\ wire \in Seq(Units) /\ Len(wire) \in Nat
  BY HttpFacts
<1>2. /\ Len(wire') = Len(wire) - n
      /\ \A j \in 1 .. Len(wire) - n : wire'[j] = wire[j + n]
  BY <1>1, Dropped
<1>. SUFFICES ASSUME NEW k \in 1 .. Len(wire'), wire'[k].part = "head"
              PROVE  /\ wire'[k].of \in 1 .. written'.request
                     /\ Follows(wire[k].of, k + 1)'
  BY DEF HeadsFollowed
<1>3. PICK i : i = wire[k + n].of /\ i = wire'[k].of
  BY <1>2
<1>4. k + n \in 1 .. Len(wire) /\ wire[k + n].part = "head" /\ k \in Int
  BY <1>1, <1>2
<1>5. i \in 1 .. written.request /\ Follows(i, (k + n) + 1)
  BY <1>3, <1>4 DEF HttpInv, HeadsFollowed
<1>6. (k + n) + 1 \in n + 1 .. Len(wire) + 1 /\ ((k + n) + 1) - n = k + 1
  BY <1>1, <1>4
<1>7. Follows(i, ((k + n) + 1) - n)'
  BY <1>5, <1>6, FollowsRead
<1>. QED
  BY <1>3, <1>5, <1>6, <1>7

\* Answers given stay earned while nothing more is written once the client has
\* hung up.
LEMMA AnswersKept ==
    ASSUME HttpInv, UNCHANGED <<requests, answers>>,
           IF hungUp THEN hungUp' /\ UNCHANGED written ELSE TRUE
    PROVE  RequestsAnswered'
<1>1. ASSUME NEW a, Earned(a) PROVE Earned(a)'
  <2>. DEFINE r == requests[a.of]
  <2>1. a.part = "head" /\ a.status \in Expected(r) /\ requests'[a.of] = r
    BY <1>1 DEF Earned
  <2>2. a.status = 400 /\ r.content # "malformed" /\ r.framing = "length" =>
          hungUp' /\ written'.request = a.of /\ written'.units < r.units
    BY <1>1 DEF Earned
  <2>. QED
    BY <2>1, <2>2, Zenon DEF Earned
<1>. SUFFICES ASSUME NEW i \in DOMAIN answers PROVE answers'[i].of = i /\ Earned(answers[i])'
  BY DEF RequestsAnswered
<1>2. PICK a : a = answers[i] /\ a = answers'[i]
  OBVIOUS
<1>. QED
  BY <1>1, <1>2, Zenon DEF HttpInv, RequestsAnswered

AnswerTo(n, status) == [of |-> n, part |-> "head", status |-> status]

LEMMA AnswerAdded ==
    ASSUME HttpInv, UNCHANGED <<requests, written, hungUp>>,
           NEW status \in Nat, NEW a,
           a = AnswerTo(Len(answers) + 1, status),
           Earned(a), answers' = Append(answers, a)
    PROVE  /\ RequestsAnswered' /\ Len(answers') = Len(answers) + 1
           /\ answers' \in Seq([of : Nat, part : {"none", "head", "body"}, status : Nat])
<1>1. /\ answers \in Seq([of : Nat, part : {"none", "head", "body"}, status : Nat])
      /\ Len(answers) \in Nat /\ DOMAIN answers = 1 .. Len(answers)
      /\ a \in [of : Nat, part : {"none", "head", "body"}, status : Nat]
  BY HttpFacts DEF HttpInv, HttpTypeOK, AnswerTo
<1>2. /\ answers' \in Seq([of : Nat, part : {"none", "head", "body"}, status : Nat])
      /\ Len(answers') = Len(answers) + 1
      /\ DOMAIN answers' = 1 .. Len(answers) + 1
      /\ \A i \in DOMAIN answers : answers'[i] = answers[i]
      /\ answers'[Len(answers) + 1] = a
  BY <1>1
<1>3. \A i \in DOMAIN answers' : i \in DOMAIN answers \/ i = Len(answers) + 1
  BY <1>1, <1>2
<1>4. ASSUME NEW b, Earned(b) PROVE Earned(b)'
  BY <1>4 DEF Earned
<1>5. (\A i \in DOMAIN answers : answers[i].of = i /\ Earned(answers[i]))'
  <2>. SUFFICES ASSUME NEW i \in DOMAIN answers'
                PROVE  answers'[i].of = i /\ Earned(answers[i])'
    OBVIOUS
  <2>1. CASE i \in DOMAIN answers
    <3>1. PICK b : b = answers[i] /\ b = answers'[i]
      BY <1>2, <2>1
    <3>. QED
      BY <1>4, <2>1, <3>1, Zenon DEF HttpInv, RequestsAnswered
  <2>2. CASE i = Len(answers) + 1
    BY <1>2, <1>4, <2>2 DEF AnswerTo
  <2>. QED
    BY <1>3, <2>1, <2>2
<1>. QED
  BY <1>2, <1>5, Zenon DEF RequestsAnswered

\* Behind a head the thread serves the request that is next.
LEMMA ServesNext ==
    ASSUME HttpInv, at \in {"head", "body"},
           NEW n, n = Len(answers) + 1, NEW r, r = requests[n]
    PROVE  /\ n \in 1 .. written.request /\ n \in 1 .. Len(requests) /\ n \in Nat
           /\ parsed.of = n /\ parsed.part = "head" /\ Serving = r
           /\ r.units \in Nat /\ Follows(n, 1)
           /\ r.framing \in {"none", "length", "chunked", "negative", "malformed"}
           /\ r.content \in {"text", "malformed", "raises"}
           /\ r.framing = "none" => r.units = 0
           /\ r.method = "POST" /\ r.units = 0 => r.content = "malformed"
<1>1. /\ parsed = [of |-> n, part |-> "head"]
      /\ n \in 1 .. written.request /\ Follows(n, 1)
  BY DEF HttpInv, InStep
<1>2. n \in 1 .. Len(requests) /\ n \in Nat /\ r.units \in Nat
  BY <1>1, HttpFacts
<1>3. requests \in Conversations
  BY DEF HttpInv, HttpTypeOK
<1>4. r \in Requests
  BY <1>2, HttpFacts
<1>5. /\ r.framing \in {"none", "length", "chunked", "negative", "malformed"}
      /\ r.content \in {"text", "malformed", "raises"}
  BY <1>4 DEF Requests
<1>6. /\ r.framing = "none" => r.units = 0
      /\ r.method = "POST" /\ r.units = 0 => r.content = "malformed"
  BY <1>2, <1>3, HttpAssumption, Zenon
<1>7. parsed.of = n /\ parsed.part = "head" /\ Serving = r
  BY <1>1 DEF Serving
<1>. QED
  BY <1>1, <1>2, <1>5, <1>6, <1>7

LEMMA HttpInitial == ASSUME HttpInit PROVE HttpInv
<1>1. requests \in Seq(Requests) /\ requests \in Conversations
  BY HttpAssumption DEF HttpInit
<1>2. HttpTypeOK
  <2>1. 0 \in 0 .. Len(requests)
    BY <1>1
  <2>2. written \in [request : 0 .. Len(requests), units : Nat] /\ written.request = 0
    BY <2>1 DEF HttpInit
  <2>3. hungUp \in BOOLEAN /\ at \in {"idle", "head", "body", "closed"}
    BY DEF HttpInit
  <2>4. wire \in Seq(Units) /\ answers \in Seq([of : Nat, part : {"none", "head", "body"}, status : Nat])
    BY DEF HttpInit
  <2>. QED
    BY <1>1, <2>2, <2>3, <2>4 DEF HttpTypeOK
<1>3. HeadsFollowed /\ RequestsAnswered
  BY DEF HttpInit, HeadsFollowed, RequestsAnswered
<1>4. InStep
  BY DEF HttpInit, InStep, BodySent
<1>. QED
  BY <1>2, <1>3, <1>4 DEF HttpInv

\* The client's writes.
LEMMA ClientSends == ASSUME HttpInv, SendHead \/ SendBody PROVE HttpInv'
<1>. DEFINE n == Len(answers) + 1
            w == written.request
<1>1. /\ UNCHANGED <<requests, hungUp, at, parsed, answers>> /\ ~hungUp
  BY DEF SendHead, SendBody
<1>2. /\ wire \in Seq(Units) /\ Len(wire) \in Nat /\ w \in 0 .. Len(requests) /\ w \in Nat
      /\ written.units \in Nat /\ Len(requests) \in Nat /\ n \in Nat
      /\ \A i \in 1 .. Len(requests) : requests[i].units \in Nat
      /\ written = [request |-> w, units |-> written.units]
      /\ w # 0 => written.units <= requests[w].units
  BY HttpFacts DEF HttpInv, HttpTypeOK
<1>3. PICK u \in Units : /\ wire' = Append(wire, u)
                         /\ SendHead => u = [of |-> w + 1, part |-> "head"]
  BY <1>2 DEF SendHead, SendBody, Units
<1>4. HttpTypeOK'
  <2>1. wire' \in Seq(Units)
    BY <1>2, <1>3
  <2>2. /\ written' \in [request : 0 .. Len(requests), units : Nat]
        /\ written'.units <= requests[written'.request].units
    <3>1. CASE SendHead
      <4>1. written' = [request |-> w + 1, units |-> 0] /\ w < Len(requests)
        BY <3>1 DEF SendHead
      <4>2. w + 1 \in 1 .. Len(requests)
        BY <1>2, <4>1
      <4>. QED
        BY <1>2, <4>1, <4>2
    <3>2. CASE SendBody
      <4>1. w # 0 /\ written.units # requests[w].units
        BY <3>2 DEF SendBody, BodySent
      <4>2. written' = [request |-> w, units |-> written.units + 1]
        BY <1>2, <3>2 DEF SendBody
      <4>. QED
        BY <1>2, <4>1, <4>2
    <3>. QED
      BY <3>1, <3>2
  <2>. QED
    BY <1>1, <2>1, <2>2 DEF HttpInv, HttpTypeOK
<1>5. HeadsFollowed'
  BY HeadsSent
<1>6. RequestsAnswered'
  BY <1>1, AnswersKept
<1>7. InStep'
  <2>1. ASSUME at = "idle" PROVE wire' # <<>> /\ wire'[1] = [of |-> n, part |-> "head"]
    <3>1. CASE wire # <<>>
      <4>1. wire[1] = [of |-> n, part |-> "head"]
        BY <2>1, <3>1 DEF HttpInv, InStep
      <4>. QED
        BY <1>2, <1>3, <3>1, <4>1
    <3>2. CASE wire = <<>>
      <4>1. BodySent /\ w = Len(answers)
        BY <1>1, <2>1, <3>2 DEF HttpInv, InStep
      <4>2. SendHead
        BY <4>1 DEF SendBody
      <4>. QED
        BY <1>2, <1>3, <3>2, <4>1, <4>2
    <3>. QED
      BY <3>1, <3>2
  <2>2. ASSUME at \in {"head", "body"}
        PROVE  /\ parsed = [of |-> n, part |-> "head"]
               /\ n \in 1 .. written'.request
               /\ Follows(Len(answers) + 1, 1)'
    <3>1. parsed = [of |-> n, part |-> "head"] /\ n \in 1 .. w /\ Follows(n, 1)
      BY <2>2 DEF HttpInv, InStep
    <3>2. written'.request \in {w, w + 1}
      BY <1>2 DEF SendHead, SendBody
    <3>3. PICK i : i = n
      OBVIOUS
    <3>4. Follows(i, 1)'
      <4>1. i \in 1 .. w /\ Follows(i, 1) /\ 1 \in 1 .. Len(wire) + 1
        BY <1>2, <3>1, <3>3
      <4>. QED
        BY <4>1, FollowsSent
    <3>5. i = (Len(answers) + 1)'
      BY <1>1, <3>3
    <3>. QED
      BY <1>2, <3>1, <3>2, <3>4, <3>5
  <2>3. ASSUME at = "body"
        PROVE  /\ requests[n].method \in {"GET", "POST"}
               /\ Refusal(requests[n]) = 0
    BY <2>3 DEF HttpInv, InStep
  <2>4. requests' = requests /\ answers' = answers /\ at' = at /\ parsed' = parsed
    BY <1>1
  <2>. QED
    BY <2>1, <2>2, <2>3, <2>4, Zenon DEF InStep
<1>. QED
  BY <1>4, <1>5, <1>6, <1>7 DEF HttpInv

LEMMA ClientHangsUp == ASSUME HttpInv, HangUp PROVE HttpInv'
<1>1. /\ UNCHANGED <<requests, wire, written, at, parsed, answers>> /\ ~hungUp /\ hungUp' = TRUE
  BY DEF HangUp
<1>2. HttpTypeOK' /\ HeadsFollowed'
  BY <1>1 DEF HttpInv, HttpTypeOK, HeadsFollowed, Follows
<1>3. RequestsAnswered'
  BY <1>1, AnswersKept
<1>4. InStep'
  BY <1>1 DEF HttpInv, InStep, Follows
<1>. QED
  BY <1>2, <1>3, <1>4 DEF HttpInv

\* The thread takes a head, and it is the next request's.
LEMMA ThreadReads == ASSUME HttpInv, ReadHead PROVE HttpInv'
<1>1. /\ UNCHANGED <<requests, written, hungUp, answers>> /\ at = "idle" /\ at' = "head"
      /\ wire # <<>> /\ parsed' = Head(wire) /\ wire' = Tail(wire)
  BY DEF ReadHead
<1>. DEFINE n == Len(answers) + 1
<1>2. wire \in Seq(Units) /\ Len(wire) \in Nat /\ 1 \in 1 .. Len(wire) /\ 1 \in 0 .. Len(wire)
  BY <1>1, HttpFacts
<1>3. /\ wire' = SubSeq(wire, 1 + 1, Len(wire)) /\ wire' \in Seq(Units)
      /\ Head(wire) = wire[1]
  BY <1>1, <1>2
<1>4. wire[1] = [of |-> n, part |-> "head"]
  BY <1>1 DEF HttpInv, InStep
<1>5. n \in 1 .. written.request /\ Follows(n, 1 + 1)
  <2>1. wire[1].part = "head" /\ wire[1].of = n
    BY <1>4
  <2>. QED
    BY <1>2, <2>1, Zenon DEF HttpInv, HeadsFollowed
<1>6. PICK i : i = n
  OBVIOUS
<1>7. Follows(i, 1)'
  <2>1. i \in 1 .. written.request /\ Follows(i, 2) /\ 2 \in 1 + 1 .. Len(wire) + 1
    BY <1>2, <1>5, <1>6
  <2>2. Follows(i, 2 - 1)'
    BY <1>1, <1>2, <1>3, <2>1, FollowsRead
  <2>. QED
    BY <2>2
<1>8. HeadsFollowed'
  BY <1>1, <1>2, <1>3, HeadsRead
<1>9. RequestsAnswered'
  BY <1>1, AnswersKept
<1>10. HttpTypeOK'
  BY <1>1, <1>3 DEF HttpInv, HttpTypeOK
<1>11. InStep'
  <2>1. i = (Len(answers) + 1)'
    BY <1>1, <1>6
  <2>2. parsed' = [of |-> i, part |-> "head"] /\ i \in 1 .. written'.request
    BY <1>1, <1>3, <1>4, <1>5, <1>6
  <2>. QED
    BY <1>1, <1>7, <2>1, <2>2 DEF InStep
<1>. QED
  BY <1>8, <1>9, <1>10, <1>11 DEF HttpInv

\* A refusal is the one the request calls for, and the connection ends.
LEMMA ThreadRefuses == ASSUME HttpInv, Refuse PROVE HttpInv'
<1>1. /\ UNCHANGED <<requests, wire, written, hungUp, parsed>> /\ at = "head" /\ at' = "closed"
  BY DEF Refuse, Reject
<1>2. PICK n : n = Len(answers) + 1
  OBVIOUS
<1>3. PICK r : r = requests[n]
  OBVIOUS
<1>4. /\ parsed.of = n /\ parsed.part = "head" /\ Serving = r
      /\ r.framing \in {"none", "length", "chunked", "negative", "malformed"}
  BY <1>1, <1>2, <1>3, ServesNext
<1>5. PICK status : status = IF r.method \notin {"GET", "POST"} THEN 501 ELSE Refusal(r)
  OBVIOUS
<1>6. answers' = Append(answers, AnswerTo(n, status))
  <2>1. CASE r.method \notin {"GET", "POST"}
    BY <1>4, <1>5, <2>1 DEF Refuse, Reject, Answer, AnswerTo
  <2>2. CASE r.method \in {"GET", "POST"}
    BY <1>4, <1>5, <2>2 DEF Refuse, Reject, Answer, AnswerTo
  <2>. QED
    BY <2>1, <2>2
<1>7. status # 0
  BY <1>4, <1>5 DEF Refuse
<1>8. status \in Nat /\ status \in Expected(r) /\ ~(status = 400 /\ r.framing = "length")
  <2>1. CASE r.method \notin {"GET", "POST"}
    BY <1>5, <2>1 DEF Expected
  <2>2. CASE r.method \in {"GET", "POST"}
    <3>1. status = Refusal(r)
      BY <1>5, <2>2
    <3>2. CASE r.framing = "chunked"
      BY <2>2, <3>1, <3>2 DEF Refusal, Expected
    <3>3. CASE r.framing \in {"malformed", "negative"}
      BY <2>2, <3>1, <3>3 DEF Refusal, Expected
    <3>4. CASE r.framing = "length" /\ r.units > MaxBody
      BY <2>2, <3>1, <3>4 DEF Refusal, Expected
    <3>5. CASE r.framing = "none" \/ (r.framing = "length" /\ ~(r.units > MaxBody))
      BY <1>7, <3>1, <3>5 DEF Refusal
    <3>. QED
      BY <1>4, <3>2, <3>3, <3>4, <3>5
  <2>. QED
    BY <2>1, <2>2
<1>9. PICK a : a = AnswerTo(n, status)
  OBVIOUS
<1>10. Earned(a)
  BY <1>3, <1>9, <1>8 DEF Earned, AnswerTo
<1>11. /\ RequestsAnswered'
      /\ answers' \in Seq([of : Nat, part : {"none", "head", "body"}, status : Nat])
  BY <1>1, <1>2, <1>6, <1>8, <1>9, <1>10, AnswerAdded
<1>12. HeadsFollowed'
  BY <1>1 DEF HttpInv, HeadsFollowed, Follows
<1>13. HttpTypeOK'
  BY <1>1, <1>11 DEF HttpInv, HttpTypeOK
<1>14. InStep'
  BY <1>1 DEF InStep
<1>. QED
  BY <1>11, <1>12, <1>13, <1>14 DEF HttpInv

LEMMA ThreadAccepts == ASSUME HttpInv, Accept PROVE HttpInv'
<1>1. /\ UNCHANGED <<requests, wire, written, hungUp, parsed, answers>>
      /\ at = "head" /\ at' = "body"
      /\ Serving.method \in {"GET", "POST"} /\ Refusal(Serving) = 0
  BY DEF Accept
<1>2. Serving = requests[Len(answers) + 1]
  BY <1>1, ServesNext
<1>3. HttpTypeOK' /\ HeadsFollowed'
  BY <1>1 DEF HttpInv, HttpTypeOK, HeadsFollowed, Follows
<1>4. RequestsAnswered'
  BY <1>1, AnswersKept
<1>5. InStep'
  BY <1>1, <1>2 DEF HttpInv, InStep, Follows
<1>. QED
  BY <1>3, <1>4, <1>5 DEF HttpInv

\* An accepted body ends where the next head stands.
LEMMA ThreadHandles == ASSUME HttpInv, Handle PROVE HttpInv'
<1>1. /\ UNCHANGED <<requests, written, hungUp, parsed>> /\ at = "body" /\ at' = "idle"
  BY DEF Handle
<1>2. PICK n : n = Len(answers) + 1
  OBVIOUS
<1>3. PICK r : r = requests[n]
  OBVIOUS
<1>4. /\ n \in 1 .. written.request /\ n \in 1 .. Len(requests) /\ n \in Nat
      /\ parsed.of = n /\ parsed.part = "head" /\ Serving = r
      /\ r.units \in Nat /\ Follows(n, 1)
      /\ r.framing \in {"none", "length", "chunked", "negative", "malformed"}
      /\ r.content \in {"text", "malformed", "raises"}
      /\ r.framing = "none" => r.units = 0
      /\ r.method = "POST" /\ r.units = 0 => r.content = "malformed"
  BY <1>1, <1>2, <1>3, ServesNext
<1>5. r.method \in {"GET", "POST"} /\ Refusal(r) = 0
  BY <1>1, <1>2, <1>3 DEF HttpInv, InStep
<1>6. /\ wire \in Seq(Units) /\ Len(wire) \in Nat /\ written.request \in Nat
      /\ written.units \in Nat /\ Len(answers) \in Nat
      /\ written.units <= requests[written.request].units
  <2>1. written.request # 0
    BY <1>4
  <2>. QED
    BY <2>1, HttpFacts DEF HttpInv, HttpTypeOK
<1>7. /\ r.framing \in {"none", "length"}
      /\ ~(r.framing = "length" /\ r.units > MaxBody)
      /\ Length(r) = r.units
  <2>1. r.framing \notin {"chunked", "negative", "malformed"}
    BY <1>5 DEF Refusal
  <2>2. ~(r.framing = "length" /\ r.units > MaxBody)
    BY <1>5 DEF Refusal
  <2>. QED
    BY <1>4, <2>1, <2>2 DEF Length
<1>8. Expected(r) = IF r.method = "POST" /\ r.route \in {"/redact", "/scan"}
                    THEN IF r.content = "text" /\ r.units > 0 THEN {200, 400} ELSE {400}
                    ELSE IF r.method = "GET" /\ r.route \in {"/health", "/version", "/detectors"}
                         THEN {200} ELSE {404}
  BY <1>5, <1>7 DEF Expected, Routed
<1>9. ASSUME NEW whole \in BOOLEAN, whole => ~Raises(r),
             answers' = Append(answers, AnswerTo(n, Dispatch(r, whole))),
             whole \/ (hungUp /\ written.request = n /\ written.units < r.units)
      PROVE  /\ RequestsAnswered' /\ Len(answers') = Len(answers) + 1
             /\ answers' \in Seq([of : Nat, part : {"none", "head", "body"}, status : Nat])
  <2>1. PICK status : status = Dispatch(r, whole)
    OBVIOUS
  <2>2. PICK a : a = AnswerTo(n, status)
    OBVIOUS
  <2>3. status \in {200, 400, 404} /\ status \in Expected(r)
    <3>1. CASE r.method = "POST" /\ r.route \in {"/redact", "/scan"}
      <4>1. status = IF whole /\ r.content = "text" THEN 200 ELSE 400
        BY <2>1, <3>1 DEF Dispatch
      <4>2. r.content = "text" => r.units > 0
        BY <1>4, <3>1
      <4>. QED
        BY <1>8, <3>1, <4>1, <4>2
    <3>2. CASE ~(r.method = "POST" /\ r.route \in {"/redact", "/scan"})
      BY <1>8, <2>1, <3>2 DEF Dispatch
    <3>. QED
      BY <3>1, <3>2
  <2>4. status = 400 /\ r.content # "malformed" => ~whole
    <3>1. CASE r.method = "POST" /\ r.route \in {"/redact", "/scan"}
      BY <1>4, <1>9, <2>1, <3>1 DEF Dispatch, Raises
    <3>2. CASE ~(r.method = "POST" /\ r.route \in {"/redact", "/scan"})
      BY <1>8, <2>3, <3>2
    <3>. QED
      BY <3>1, <3>2
  <2>5. Earned(a)
    BY <1>3, <1>9, <2>2, <2>3, <2>4 DEF Earned, AnswerTo
  <2>6. status \in Nat
    BY <2>3
  <2>. QED
    BY <1>1, <1>2, <1>9, <2>1, <2>2, <2>5, <2>6, AnswerAdded
<1>10. CASE Len(wire) >= Length(Serving)
  <2>1. /\ wire' = SubSeq(wire, r.units + 1, Len(wire)) /\ ~Raises(r)
        /\ answers' = Append(answers, AnswerTo(n, Dispatch(r, TRUE)))
    BY <1>4, <1>6, <1>7, <1>10 DEF Handle, Answer, AnswerTo
  <2>2. r.units \in 0 .. Len(wire)
    BY <1>4, <1>6, <1>7, <1>10
  <2>3. /\ RequestsAnswered' /\ Len(answers') = n
        /\ answers' \in Seq([of : Nat, part : {"none", "head", "body"}, status : Nat])
    BY <1>2, <1>9, <2>1
  <2>4. HeadsFollowed'
    BY <1>1, <2>1, <2>2, HeadsRead
  <2>5. wire' \in Seq(Units)
    BY <1>6, <2>1, <2>2, Dropped
  <2>6. HttpTypeOK'
    BY <1>1, <2>3, <2>5 DEF HttpInv, HttpTypeOK
  <2>7. InStep'
    <3>1. CASE n = written.request
      <4>1. Len(wire) = written.units
        BY <1>4, <1>6, <3>1 DEF Follows
      <4>2. Len(wire) = r.units /\ written.units = r.units
        BY <1>3, <1>6, <2>2, <3>1, <4>1
      <4>3. wire' = <<>>
        BY <1>6, <2>1, <2>2, <4>2, Dropped
      <4>4. BodySent'
        BY <1>1, <1>3, <3>1, <4>2 DEF BodySent
      <4>. QED
        BY <1>1, <2>3, <3>1, <4>3, <4>4 DEF InStep
    <3>2. CASE n # written.request
      <4>1. 1 + r.units <= Len(wire) /\ wire[1 + r.units] = [of |-> n + 1, part |-> "head"]
        BY <1>3, <1>4, <3>2 DEF Follows
      <4>2. wire' # <<>> /\ wire'[1] = wire[1 + r.units]
        <5>1. r.units < Len(wire)
          BY <1>4, <1>6, <4>1
        <5>. QED
          BY <1>6, <2>1, <2>2, <5>1, Dropped
      <4>3. wire'[1] = [of |-> Len(answers') + 1, part |-> "head"]
        BY <2>3, <4>1, <4>2
      <4>. QED
        BY <1>1, <4>2, <4>3 DEF InStep
    <3>. QED
      BY <3>1, <3>2
  <2>. QED
    BY <2>3, <2>4, <2>6, <2>7 DEF HttpInv
<1>11. CASE ~(Len(wire) >= Length(Serving))
  <2>1. /\ Len(wire) < r.units /\ hungUp /\ wire' = <<>>
        /\ answers' = Append(answers, AnswerTo(n, Dispatch(r, FALSE)))
    BY <1>4, <1>6, <1>7, <1>11 DEF Handle, Answer, AnswerTo
  <2>2. written.request = n /\ written.units < r.units
    <3>1. n = written.request
      BY <1>3, <1>4, <1>6, <2>1 DEF Follows
    <3>2. Len(wire) = written.units
      BY <1>4, <1>6, <3>1 DEF Follows
    <3>. QED
      BY <2>1, <3>1, <3>2
  <2>3. /\ RequestsAnswered' /\ Len(answers') = n
        /\ answers' \in Seq([of : Nat, part : {"none", "head", "body"}, status : Nat])
    BY <1>2, <1>9, <2>1, <2>2
  <2>4. wire' \in Seq(Units)
    BY <2>1
  <2>5. HttpTypeOK'
    BY <1>1, <2>4, <2>3 DEF HttpInv, HttpTypeOK
  <2>6. HeadsFollowed' /\ InStep'
    BY <1>1, <2>1 DEF HeadsFollowed, InStep
  <2>. QED
    BY <2>3, <2>5, <2>6 DEF HttpInv
<1>. QED
  BY <1>10, <1>11

LEMMA ThreadDrops == ASSUME HttpInv, Drop PROVE HttpInv'
<1>1. UNCHANGED <<requests, wire, written, hungUp, parsed, answers>> /\ at' = "closed"
  BY DEF Drop
<1>2. HttpTypeOK' /\ HeadsFollowed' /\ InStep'
  BY <1>1 DEF HttpInv, HttpTypeOK, HeadsFollowed, Follows, InStep
<1>3. RequestsAnswered'
  BY <1>1, AnswersKept
<1>. QED
  BY <1>2, <1>3 DEF HttpInv

LEMMA HttpStep == ASSUME HttpInv, [HttpNext]_httpVars PROVE HttpInv'
<1>1. CASE UNCHANGED httpVars
  <2>1. HttpTypeOK' /\ HeadsFollowed' /\ InStep'
    BY <1>1 DEF httpVars, HttpInv, HttpTypeOK, HeadsFollowed, Follows, InStep, BodySent
  <2>2. RequestsAnswered'
    BY <1>1, AnswersKept DEF httpVars
  <2>. QED
    BY <2>1, <2>2 DEF HttpInv
<1>. QED
  BY <1>1, ClientSends, ClientHangsUp, ThreadReads, ThreadRefuses, ThreadAccepts,
     ThreadHandles, ThreadDrops DEF HttpNext

\* In every conversation the wire holds what the client wrote, and the thread
\* stands between two requests or behind the head of the next.
THEOREM HttpInvariant == HttpSpec => []HttpInv
<1>. QED
  BY HttpInitial, HttpStep, PTL DEF HttpSpec

\* On every connection and every MCP input each request has its own answer, in
\* the order of the requests.
THEOREM AnswersKeepOrder == HttpSpec /\ McpSpec => []AnswersInOrder
<1>1. HttpInv /\ McpInv => AnswersInOrder
  BY DEF HttpInv, McpInv, AnswersInOrder
<1>. QED
  BY <1>1, HttpInvariant, McpInvariant, PTL

----------------------------------------------------------------------------
(* The constructor.                                                        *)

LEMMA Stages ==
    ASSUME NEW name, NEW s
    PROVE  Stage(name, s).stage = name /\ Stage(name, s).settings = s
  BY DEF Stage

\* Whatever a file and flags leave is a value for every key.
LEMMA SettingsOfKeys ==
    /\ Unset = [k \in Keys |-> Unset[k]]
    /\ \A entries : FromFile(entries) = [k \in Keys |-> FromFile(entries)[k]]
    /\ \A s : Overlaid(s) = [k \in Keys |-> Overlaid(s)[k]]
<1>1. Unset = [k \in Keys |-> Unset[k]]
  BY DEF Unset
<1>2. ASSUME NEW entries PROVE FromFile(entries) = [k \in Keys |-> FromFile(entries)[k]]
  BY DEF FromFile
<1>3. ASSUME NEW s PROVE Overlaid(s) = [k \in Keys |-> Overlaid(s)[k]]
  BY DEF Overlaid
<1> QED
  BY <1>1, <1>2, <1>3

\* What the settings build depends on nothing that changes.
LEMMA SameOrder ==
    ASSUME order' = order, building'.settings = building.settings
    PROVE  /\ Active(building.settings)' = Active(building.settings)
           /\ RedactorBuilds(building.settings)' <=> RedactorBuilds(building.settings)
<1>1. Active(building.settings)' = Active(building.settings)
  BY DEF Active, Plugins
<1>2. \A t : (WindowSafe(t)' <=> WindowSafe(t)) /\ Needs(t)' = Needs(t)
  BY DEF WindowSafe, Needs, Plugin
<1>3. EnforcesOverlap(building.settings)' <=> EnforcesOverlap(building.settings)
  BY <1>1, <1>2 DEF EnforcesOverlap
<1> QED
  BY <1>1, <1>2, <1>3 DEF RedactorBuilds

LEMMA AssemblyInitial == AssemblyInit => AssemblyInv
<1> SUFFICES ASSUME AssemblyInit PROVE AssemblyInv
  OBVIOUS
<1>1. building.stage = "started" /\ building.settings = Unset
  BY Stages DEF AssemblyInit
<1> QED
  BY <1>1, SettingsOfKeys DEF AssemblyInv

LEMMA AssemblyStep == AssemblyInv /\ [AssemblyNext]_assemblyVars => AssemblyInv'
<1> SUFFICES ASSUME AssemblyInv, [AssemblyNext]_assemblyVars PROVE AssemblyInv'
  OBVIOUS
<1>1. ASSUME NEW name, NEW s, building' = Stage(name, s), name # "built",
             s = [k \in Keys |-> s[k]]
      PROVE  AssemblyInv'
  <2>1. building'.stage # "built" /\ building'.settings = s
    BY <1>1, Stages
  <2> QED
    BY <1>1, <2>1 DEF AssemblyInv
<1>2. CASE Read
  <2>1. \/ building' = Stage("read", FromFile(order.file.entries))
        \/ building' = Stage("refused", Unset)
    BY <1>2 DEF Read
  <2> QED
    BY <1>1, <2>1, SettingsOfKeys
<1>3. CASE BuildPolicy
  <2>1. PICK name \in {"policy built", "refused"} :
          building' = Stage(name, Overlaid(building.settings))
    BY <1>3 DEF BuildPolicy
  <2> QED
    BY <1>1, <2>1, SettingsOfKeys
<1>4. CASE BuildRedactor
  <2> DEFINE s == building.settings
  <2>1. s = [k \in Keys |-> s[k]]
    BY DEF AssemblyInv
  <2>2. CASE ~RedactorBuilds(s)
    <3>1. building' = Stage("refused", s)
      BY <1>4, <2>2 DEF BuildRedactor
    <3> QED
      BY <1>1, <2>1, <3>1
  <2>3. CASE RedactorBuilds(s)
    <3>1. building' = Stage("built", s) /\ tiers' = Active(s) /\ order' = order
      BY <1>4, <2>3 DEF BuildRedactor
    <3>2. building'.settings = s
      BY <3>1, Stages
    <3>3. tiers' = Active(building.settings)' /\ RedactorBuilds(building.settings)'
      BY <2>3, <3>1, <3>2, SameOrder
    <3> QED
      BY <2>1, <3>2, <3>3 DEF AssemblyInv
  <2> QED
    BY <2>2, <2>3
<1>5. CASE UNCHANGED assemblyVars
  BY <1>5, SameOrder DEF assemblyVars, AssemblyInv
<1> QED
  BY <1>2, <1>3, <1>4, <1>5 DEF AssemblyNext

\* Leaving out the list of types changes no other setting.
LEMMA ListLeftOut ==
    ASSUME NEW s, s = [k \in Keys |-> s[k]], NEW free, free = [s EXCEPT !.types = {}]
    PROVE  /\ free.types = {}
           /\ \A k \in Keys \ {"types"} : free[k] = s[k]
           /\ \A k \in Keys \ {"types"} : On(free, k) <=> On(s, k)
           /\ Plugins(free) = Plugins(s)
<1>1. free.types = {} /\ \A k \in Keys \ {"types"} : free[k] = s[k]
  BY DEF Keys
<1>2. "profile" \in Keys \ {"types"} /\ "load_plugins" \in Keys \ {"types"}
  BY DEF Keys
<1>3. \A k \in Keys \ {"types"} : On(free, k) <=> On(s, k)
  BY <1>1, <1>2 DEF On
<1>4. Plugins(free) = Plugins(s)
  BY <1>2, <1>3 DEF Plugins
<1> QED
  BY <1>1, <1>3, <1>4

LEMMA ActiveTiers ==
    ASSUME NEW s, NEW t
    PROVE  t \in Active(s) <=>
             \/ t = "deterministic" \/ t \in Plugins(s)
             \/ /\ t \in DOMAIN Scoped /\ InScope(s, Scoped[t])
                /\ t \in {"entropy", "compound_secret"} => On(s, "use_entropy")
             \/ /\ t \in DOMAIN OptedIn
                /\ On(s, OptedIn[t].key) \/ OptedIn[t].types \cap s.types # {}
             \/ t \in DOMAIN Switched /\ On(s, Switched[t])
             \/ t = "custom" /\ s.custom_words \cup s.custom_patterns # {}
<1> DEFINE scoped == {x \in DOMAIN Scoped :
                        /\ InScope(s, Scoped[x])
                        /\ x \in {"entropy", "compound_secret"} => On(s, "use_entropy")}
           opted == {x \in DOMAIN OptedIn :
                       On(s, OptedIn[x].key) \/ OptedIn[x].types \cap s.types # {}}
           switched == {x \in DOMAIN Switched : On(s, Switched[x])}
           custom == IF s.custom_words \cup s.custom_patterns # {} THEN {"custom"} ELSE {}
<1>1. Active(s) = {"deterministic"} \cup scoped \cup opted \cup switched \cup custom \cup Plugins(s)
  BY Zenon DEF Active
<1>2. t \in scoped <=> /\ t \in DOMAIN Scoped /\ InScope(s, Scoped[t])
                       /\ t \in {"entropy", "compound_secret"} => On(s, "use_entropy")
  BY Zenon
<1>3. t \in opted <=> /\ t \in DOMAIN OptedIn
                      /\ On(s, OptedIn[t].key) \/ OptedIn[t].types \cap s.types # {}
  BY Zenon
<1>4. t \in switched <=> t \in DOMAIN Switched /\ On(s, Switched[t])
  BY Zenon
<1>5. t \in custom <=> t = "custom" /\ s.custom_words \cup s.custom_patterns # {}
  OBVIOUS
<1> HIDE DEF scoped, opted, switched, custom
<1> QED
  BY <1>1, <1>2, <1>3, <1>4, <1>5, Zenon

\* A tier that runs without a list, and can report a type of it, runs with it.
LEMMA ListKeepsTiers ==
    ASSUME building.settings = [k \in Keys |-> building.settings[k]],
           NEW t \in Active([building.settings EXCEPT !.types = {}]),
           (Reports(t) \ Unlisted(t)) \cap building.settings.types # {}
    PROVE  t \in Active(building.settings)
<1> DEFINE s == building.settings
           free == [s EXCEPT !.types = {}]
<1>1. /\ \A k \in Keys \ {"types"} : free[k] = s[k] /\ (On(free, k) <=> On(s, k))
      /\ Plugins(free) = Plugins(s) /\ free.types = {}
  BY ListLeftOut
<1>2. {"use_entropy", "use_regional", "use_urls", "use_prose_fields", "use_dates", "use_ner",
       "use_gazetteer", "use_ensemble", "custom_words", "custom_patterns"} \subseteq Keys \ {"types"}
  BY DEF Keys
<1> HIDE DEF s, free
<1>3. t \in Active(free) /\ (Reports(t) \ Unlisted(t)) \cap s.types # {}
  BY DEF s, free
<1> SUFFICES t \in Active(s)
  BY DEF s
<1>4. ASSUME t \in DOMAIN Scoped, t \in {"entropy", "compound_secret"} => On(s, "use_entropy")
      PROVE  t \in Active(s)
  <2>1. Reports(t) \ Unlisted(t) \subseteq Scoped[t]
    <3>1. t \in {"labeled_identifier", "structured_field", "entropy", "compound_secret",
                 "checksum_id", "postcode", "contextual"}
      BY <1>4 DEF Scoped
    <3>2. CASE t = "labeled_identifier"
      BY <3>2 DEF Reports, Switched, Scoped, LabeledTypes
    <3>3. CASE t = "structured_field"
      <4>1. /\ Reports(t) \subseteq FieldTypes \cup {"secret", "email"}
            /\ Unlisted(t) = {"secret", "email"} /\ Scoped[t] = FieldTypes
        BY <3>3 DEF Reports, Switched, Unlisted, Scoped, FieldTypes
      <4> QED
        BY <4>1
    <3>4. CASE t \in {"entropy", "compound_secret"}
      BY <3>4 DEF Reports, Switched, Scoped
    <3>5. CASE t = "checksum_id"
      BY <3>5 DEF Reports, Switched, Scoped, ChecksumTypes
    <3>6. CASE t \in {"postcode", "contextual"}
      BY <3>6 DEF Reports, Switched, Scoped
    <3> QED
      BY <3>1, <3>2, <3>3, <3>4, <3>5, <3>6
  <2>2. InScope(s, Scoped[t])
    BY <1>3, <2>1 DEF InScope
  <2> QED
    BY <1>4, <2>2, ActiveTiers
<1>5. CASE t \in DOMAIN Scoped /\ (t \in {"entropy", "compound_secret"} => On(free, "use_entropy"))
  <2>1. On(free, "use_entropy") <=> On(s, "use_entropy")
    BY <1>1, <1>2
  <2> QED
    BY <1>4, <1>5, <2>1
<1>6. CASE t \in DOMAIN OptedIn /\ (On(free, OptedIn[t].key) \/ OptedIn[t].types \cap free.types # {})
  <2>1. OptedIn[t].key \in {"use_regional", "use_urls", "use_prose_fields", "use_dates"}
    BY <1>6 DEF OptedIn
  <2>2. On(s, OptedIn[t].key)
    BY <1>1, <1>2, <1>6, <2>1
  <2> QED
    BY <1>6, <2>2, ActiveTiers
<1>7. CASE t \in DOMAIN Switched /\ On(free, Switched[t])
  <2>1. Switched[t] \in {"use_ner", "use_gazetteer", "use_ensemble"}
    BY <1>7 DEF Switched
  <2>2. On(s, Switched[t])
    BY <1>1, <1>2, <1>7, <2>1
  <2> QED
    BY <1>7, <2>2, ActiveTiers
<1>8. CASE t = "custom" /\ free.custom_words \cup free.custom_patterns # {}
  <2>1. free.custom_words = s.custom_words /\ free.custom_patterns = s.custom_patterns
    BY <1>1, <1>2
  <2> QED
    BY <1>8, <2>1, ActiveTiers
<1>9. CASE t = "deterministic" \/ t \in Plugins(free)
  BY <1>1, <1>9, ActiveTiers
<1> QED
  BY <1>3, <1>5, <1>6, <1>7, <1>8, <1>9, ActiveTiers

\* Whatever the configuration, the flags and the plugins, a redactor that is
\* built loses no type by listing it, and each of its tiers, plugins included,
\* sees whole windows, unless the operator said otherwise (redactor.Redactor,
\* registry.build_detectors, config.py, cli._build_redactor).
THEOREM ListingLosesNothing == AssemblySpec => []RequestsCovered
<1>1. AssemblyInv => RequestsCovered
  <2> SUFFICES ASSUME AssemblyInv, building.stage = "built" PROVE RequestsCovered
    BY DEF RequestsCovered
  <2> DEFINE s == building.settings
  <2>1. tiers = Active(s) /\ RedactorBuilds(s) /\ s = [k \in Keys |-> s[k]]
    BY DEF AssemblyInv
  <2>2. \A t \in Active([s EXCEPT !.types = {}]) :
          (Reports(t) \ Unlisted(t)) \cap s.types # {} => t \in tiers
    BY <2>1, ListKeepsTiers
  <2>3. On(s, "allow_unsafe_overlap") => s.allow_unsafe_overlap = {"true"}
    BY DEF On, ProseKeys
  <2>4. ASSUME NEW t \in tiers
        PROVE  /\ WindowSafe(t)
               /\ Needs(t) <= Overlap(s) \/ s.allow_unsafe_overlap = {"true"}
    BY <2>1, <2>3 DEF RedactorBuilds, EnforcesOverlap
  <2> QED
    BY <2>2, <2>4 DEF RequestsCovered
<1>2. AssemblySpec => []AssemblyInv
  BY AssemblyInitial, AssemblyStep, PTL DEF AssemblySpec
<1> QED
  BY <1>1, <1>2, PTL

----------------------------------------------------------------------------
(* The pattern tiers on either engine.                                     *)

LEMMA PatternsFinite == IsFiniteSet(Patterns)
<1> DEFINE a == Pattern("plus phone", "deterministic", "phone", "digit", 60)
           b == Pattern("bare phone", "deterministic", "phone", "digit", 45)
           c == Pattern("api key", "deterministic", "api_key", "label", 75)
           d == Pattern("email", "deterministic", "email", "at sign", 95)
<1>1. Patterns = ((({} \cup {a}) \cup {b}) \cup {c}) \cup {d}
  BY DEF Patterns
<1> HIDE DEF a, b, c, d
<1>2. IsFiniteSet({})
  BY FS_EmptySet
<1>3. IsFiniteSet({} \cup {a})
  BY <1>2, FS_AddElement
<1>4. IsFiniteSet(({} \cup {a}) \cup {b})
  BY <1>3, FS_AddElement
<1>5. IsFiniteSet((({} \cup {a}) \cup {b}) \cup {c})
  BY <1>4, FS_AddElement
<1> QED
  BY <1>1, <1>5, FS_AddElement

\* A wheel that matches this package and has one pattern of a type has them all.
LEMMA CoveredInFull ==
    ASSUME NEW wheel, SpecMatches(wheel), NEW w \in wheel.patterns,
           NEW p \in Patterns, p.type = w.type
    PROVE  [name |-> p.name, type |-> p.type] \in wheel.patterns
<1> DEFINE F(q) == [name |-> q.name, type |-> q.type]
           ours == {q \in Patterns : q.type = w.type}
           theirs == {v \in wheel.patterns : v.type = w.type}
           named == {F(q) : q \in ours}
           f == [q \in ours |-> F(q)]
<1>1. IsFiniteSet(ours)
  BY PatternsFinite, FS_Subset
<1>2. f \in Surjection(ours, named)
  BY DEF Surjection
<1>3. IsFiniteSet(named) /\ Cardinality(named) <= Cardinality(ours)
  <2> HIDE DEF f, ours, named
  <2> QED
    BY <1>1, <1>2, FS_Surjection
<1>4. theirs \in SUBSET named
  BY DEF SpecMatches
<1>5. Cardinality(ours) = Cardinality(theirs)
  BY DEF SpecMatches
<1>6. theirs = named
  <2> HIDE DEF ours, named, theirs
  <2>1. Cardinality(theirs) <= Cardinality(named)
    BY <1>3, <1>4, FS_Subset
  <2>2. IsFiniteSet(theirs)
    BY <1>3, <1>4, FS_Subset
  <2>3. Cardinality(theirs) \in Nat /\ Cardinality(named) \in Nat /\ Cardinality(ours) \in Nat
    BY <1>1, <1>3, <2>2, FS_CardinalityType
  <2>4. Cardinality(theirs) = Cardinality(named)
    BY <1>3, <1>5, <2>1, <2>3
  <2> QED
    BY <1>3, <1>4, <2>4, FS_Subset
<1>7. F(p) \in named
  OBVIOUS
<1> QED
  BY <1>6, <1>7

\* What a well-formed scan gives a tier: only a label can be skipped that is
\* there, and what one prefilter skips every prefilter does.
LEMMA ScanTypes ==
    ASSUME given \in Scans
    PROVE  /\ span.pattern \in Patterns \cup Others /\ span.valid \in BOOLEAN
           /\ given.prefilter \in BOOLEAN
           /\ \A t : Skipped(t, span.pattern) =>
                /\ t.prefilter /\ OnlyLongS /\ span.pattern.needs = "label"
                /\ Skipped(Prefiltering, span.pattern)
           /\ ~Skipped(Nothing, span.pattern)
<1>1. /\ span.pattern \in Patterns \cup Others /\ span.valid \in BOOLEAN
      /\ given.prefilter \in BOOLEAN
  BY ScanAssumption DEF span
<1>2. Nothing.prefilter = FALSE /\ Prefiltering.prefilter = TRUE
  BY DEF Nothing, Prefiltering
<1>3. ASSUME NEW t, Skipped(t, span.pattern)
      PROVE  /\ t.prefilter /\ OnlyLongS /\ span.pattern.needs = "label"
             /\ Skipped(Prefiltering, span.pattern)
  <2>1. t.prefilter /\ span.pattern.needs \notin window.around \cup Anchors(span)
    BY <1>3 DEF Skipped
  <2>2. span.pattern.needs = "label" /\ span.spelling = "long s"
    BY <2>1 DEF Anchors
  <2> QED
    BY <1>2, <1>3, <2>1, <2>2 DEF Skipped, OnlyLongS
<1>4. ~Skipped(Nothing, span.pattern)
  BY <1>2 DEF Skipped
<1> QED
  BY <1>1, <1>3, <1>4

\* Both engines together find what the Python patterns find, with the prefilter
\* or without.
LEMMA SameMatches ==
    ASSUME given \in Scans, TierSound
    PROVE  \/ PatternMatches(tier) = PatternMatches(Nothing)
           \/ /\ PatternMatches(tier) = PatternMatches(Prefiltering)
              /\ given.prefilter /\ OnlyLongS
<1> DEFINE asked == {p \in Chosen : p = span.pattern /\ span.valid}
<1>1. \A t, patterns : PythonMatches(t, patterns) =
         IF Skipped(t, span.pattern) THEN {}
         ELSE {p \in patterns : p = span.pattern /\ span.valid}
  BY DEF PythonMatches
<1>2. PatternMatches(Nothing) = asked
  BY <1>1, ScanTypes DEF PatternMatches, Nothing
<1>3. NativeMatches(tier) \subseteq asked
  BY DEF NativeMatches, TierSound, Chosen
<1>4. CASE Skipped(tier, span.pattern)
  <2>1. given.prefilter /\ OnlyLongS /\ Skipped(Prefiltering, span.pattern)
    BY <1>4, ScanTypes DEF TierSound
  <2>2. PatternMatches(Prefiltering) = {}
    BY <1>1, <2>1 DEF PatternMatches, Prefiltering, Nothing
  <2>3. PatternMatches(tier) \in {NativeMatches(tier), {}}
    BY <1>1, <1>4 DEF PatternMatches
  <2>4. NativeMatches(tier) \in {asked, {}}
    BY <1>3
  <2> QED
    BY <1>2, <2>1, <2>2, <2>3, <2>4
<1>5. CASE ~Skipped(tier, span.pattern) /\ ~(tier.native /\ ~CoreDeclines)
  BY <1>1, <1>2, <1>5 DEF PatternMatches
<1>6. CASE ~Skipped(tier, span.pattern) /\ tier.native /\ ~CoreDeclines
  <2>1. SpecMatches(given.wheel)
    BY <1>6 DEF TierSound, Loads
  <2>2. PatternMatches(tier) = NativeMatches(tier) \cup {p \in tier.python : p = span.pattern /\ span.valid}
    BY <1>1, <1>6 DEF PatternMatches
  <2>3. ASSUME NEW p \in asked, p.type \in tier.names PROVE p \in NativeMatches(tier)
    <3>1. p \in Patterns /\ p = span.pattern /\ span.valid
      BY DEF Chosen
    <3>2. PICK w \in given.wheel.patterns : w.type = p.type
      BY <2>3 DEF TierSound
    <3>3. [name |-> p.name, type |-> p.type] \in given.wheel.patterns
      BY <2>1, <3>1, <3>2, CoveredInFull
    <3> QED
      BY <2>3, <3>1, <3>3 DEF NativeMatches
  <2>4. tier.python = {p \in Chosen : p.type \notin tier.names}
    BY DEF TierSound
  <2> QED
    BY <1>2, <1>3, <2>2, <2>3, <2>4
<1> QED
  BY <1>4, <1>5, <1>6

\* What the other tiers look for has no label: the prefilter skips none of it
\* that is there.
LEMMA OthersNeedNoLabel == ASSUME NEW q \in Others PROVE q.needs # "label"
<1>1. CASE q = Pattern("date", "date", "date", "digit", 80)
  BY <1>1 DEF Pattern
<1>2. CASE q = Pattern("labelled", "labeled_identifier", "id_number", "nothing", 80)
  BY <1>2 DEF Pattern
<1>3. CASE q = Pattern("token", "entropy", "secret", "nothing", 60)
  BY <1>3 DEF Pattern
<1>4. CASE q = Pattern("compound", "compound_secret", "secret", "nothing", 60)
  BY <1>4 DEF Pattern
<1>5. CASE q = Pattern("bare ssn", "contextual", "ssn", "nothing", 80)
  BY <1>5 DEF Pattern
<1> QED
  BY <1>1, <1>2, <1>3, <1>4, <1>5 DEF Others

\* And what follows a match does not depend on the engine.
LEMMA SameReports ==
    ASSUME given \in Scans, TierSound, NEW t \in {Nothing, Prefiltering},
           PatternMatches(tier) = PatternMatches(t)
    PROVE  Findings(tier) = Findings(t)
<1>0. t.native = FALSE
  BY DEF Nothing, Prefiltering
<1>1. PatternFindings(tier) = PatternFindings(t)
  BY DEF PatternFindings
<1>2. OwnPatternFindings(tier) = OwnPatternFindings(t)
  <2>1. \A q \in Others : q.needs # "label"
    BY OthersNeedNoLabel
  <2>2. \A x : PythonMatches(x, {q \in Others : q.source = "date"})
                 = {q \in Others : q.source = "date" /\ q = span.pattern /\ span.valid}
    BY <2>1, ScanTypes DEF PythonMatches
  <2> QED
    BY <2>2 DEF OwnPatternFindings
<1>3. \A x : Qualifies(x) = span.valid
  BY ScanTypes DEF Qualifies, CoreVerdict
<1>4. TokenFindings(tier) = TokenFindings(t) /\ CompoundFindings(tier) = CompoundFindings(t)
  BY <1>3 DEF TokenFindings, CompoundFindings
<1>5. \A r : CueCounts(tier, r) = CueCounts(t, r)
  BY <1>0 DEF CueCounts, TierSound
<1>6. \A r : Adjusted(tier, r) = Adjusted(t, r)
  BY <1>5 DEF Adjusted
<1> QED
  BY <1>1, <1>2, <1>4, <1>6 DEF Findings

\* Nothing else than the scan and the tier has a say in it.
LEMMA SameScan ==
    ASSUME UNCHANGED <<given, tier>>
    PROVE  /\ TierSound' <=> TierSound
           /\ Findings(tier)' = Findings(tier)
<1>0. Chosen' = Chosen
  BY DEF Chosen
<1>1. window' = window /\ span' = span
  BY DEF window, span
<1>2. PatternMatches(tier)' = PatternMatches(tier)
  BY <1>0, <1>1 DEF PatternMatches, NativeMatches, PythonMatches, Skipped, Anchors, CoreDeclines
<1>3. PatternFindings(tier)' = PatternFindings(tier)
  BY <1>1, <1>2 DEF PatternFindings, Extent, ShapedConfidence
<1>4. OwnPatternFindings(tier)' = OwnPatternFindings(tier)
  BY <1>1 DEF OwnPatternFindings, PythonMatches, Skipped, Anchors
<1>5. Qualifies(tier)' = Qualifies(tier)
  BY <1>1 DEF Qualifies, CoreVerdict
<1>6. UNCHANGED <<LabelledFindings, TokenFindings(tier), CompoundFindings(tier), BareSsnFindings>>
  BY <1>1, <1>5 DEF LabelledFindings, TokenFindings, CompoundFindings, BareSsnFindings
<1>7. \A r : Adjusted(tier, r)' = Adjusted(tier, r)
  BY <1>1 DEF Adjusted, CueCounts, CoreDeclines
<1> QED
  BY <1>0, <1>3, <1>4, <1>6, <1>7 DEF Findings, TierSound

LEMMA ScanInitial == ScanInit => ScanInv
<1> SUFFICES ASSUME ScanInit PROVE ScanInv
  OBVIOUS
<1>1. given \in Scans /\ tier = Nothing /\ found.stage = "not built"
  BY DEF ScanInit, NotScanned
<1>2. tier \in Tiers
  BY <1>1 DEF Nothing, Tiers
<1> QED
  BY <1>1, <1>2 DEF ScanInv, Tiers

LEMMA ScanStep == ScanInv /\ [ScanNext]_scanVars => ScanInv'
<1> SUFFICES ASSUME ScanInv, [ScanNext]_scanVars PROVE ScanInv'
  OBVIOUS
<1> USE DEF Tiers
<1>1. CASE Construct
  <2> DEFINE native == Loads(given.backend, given.wheel)
             t == Built(native)
  <2>1. given' = given /\ found'.stage = "built" /\ tier' = t /\ given \in Scans
    BY <1>1 DEF Construct, NotScanned, ScanInv
  <2>2. Chosen' = Chosen /\ Chosen \subseteq Patterns
    BY <2>1 DEF Chosen
  <2>3. native \in BOOLEAN /\ given.prefilter \in BOOLEAN
    BY <2>1, ScanAssumption DEF Loads
  <2>4. /\ t \in Tiers
        /\ t.native = native /\ t.codes = native
        /\ t.names \subseteq {p.type : p \in Chosen} \cap {w.type : w \in given.wheel.patterns}
        /\ t.python = {p \in Chosen : p.type \notin t.names}
        /\ t.prefilter = given.prefilter
    <3> HIDE DEF native
    <3> QED
      BY <2>2, <2>3 DEF Built
  <2> HIDE DEF t
  <2>5. TierSound'
    BY <2>1, <2>2, <2>4 DEF TierSound
  <2> QED
    BY <2>1, <2>4, <2>5 DEF ScanInv
<1>2. CASE Ship
  <2> DEFINE native == given.worker = "same" /\ Loads(given.backend, given.wheel)
  <2>1. /\ given' = given /\ found'.stage = "shipped" /\ TierSound /\ given \in Scans
        /\ tier \in Tiers /\ tier' = [tier EXCEPT !.native = native]
    BY <1>2 DEF Ship, NotScanned, ScanInv
  <2>2. Chosen' = Chosen
    BY <2>1 DEF Chosen
  <2>3. native \in BOOLEAN /\ (native => Loads(given.backend, given.wheel))
    OBVIOUS
  <2>4. native => tier.codes
    BY <2>1, <2>3 DEF TierSound
  <2> HIDE DEF native
  <2>5. /\ tier' \in Tiers /\ tier'.native = native /\ tier'.codes = tier.codes
        /\ tier'.names = tier.names /\ tier'.python = tier.python
        /\ tier'.prefilter = tier.prefilter
    BY <2>1, <2>3
  <2>6. TierSound'
    BY <2>1, <2>2, <2>3, <2>4, <2>5 DEF TierSound
  <2> QED
    BY <2>1, <2>5, <2>6 DEF ScanInv
<1>3. CASE Scan
  <2>1. /\ given' = given /\ tier' = tier /\ TierSound /\ given \in Scans /\ tier \in Tiers
        /\ found' = [stage |-> "scanned", reported |-> Findings(tier)]
    BY <1>3 DEF Scan, ScanInv
  <2>2. TierSound' /\ Findings(tier)' = Findings(tier)
    BY <2>1, SameScan
  <2> QED
    BY <2>1, <2>2 DEF ScanInv
<1>4. CASE UNCHANGED scanVars
  BY <1>4, SameScan DEF scanVars, ScanInv
<1> QED
  BY <1>1, <1>2, <1>3, <1>4 DEF ScanNext

\* Whatever engine is asked for, whatever wheel is installed, wherever the tier
\* is shipped to and whatever the window holds: what is reported is what the
\* Python engine reports with no pattern skipped, but for a label that is in the
\* window only with a long s, where it is what that engine reports with the
\* prefilter or without (deterministic._load_native, DeterministicDetector.detect,
\* _detect_python, NativeBacked, contextual, entropy).
THEOREM EnginesReportTheSame == ScanSpec => []EnginesAgree
<1>1. ScanInv => EnginesAgree
  <2> SUFFICES ASSUME ScanInv, found.stage = "scanned"
               PROVE  /\ (given.prefilter /\ OnlyLongS) \/ found.reported = Findings(Nothing)
                      /\ found.reported \in {Findings(Nothing), Findings(Prefiltering)}
    BY DEF EnginesAgree
  <2>1. given \in Scans /\ TierSound /\ found.reported = Findings(tier)
    BY DEF ScanInv
  <2>2. CASE PatternMatches(tier) = PatternMatches(Nothing)
    BY <2>1, <2>2, SameReports
  <2>3. CASE PatternMatches(tier) = PatternMatches(Prefiltering) /\ given.prefilter /\ OnlyLongS
    BY <2>1, <2>3, SameReports
  <2> QED
    BY <2>1, <2>2, <2>3, SameMatches
<1>2. ScanSpec => []ScanInv
  BY ScanInitial, ScanStep, PTL DEF ScanSpec
<1> QED
  BY <1>1, <1>2, PTL
=============================================================================
