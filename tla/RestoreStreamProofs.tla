------------------------ MODULE RestoreStreamProofs ------------------------
(***************************************************************************)
(* Restoring a stream is restoring the text: for every text, every set of *)
(* tokens in it and every chunking, no token is cut between two pieces,   *)
(* so each is decrypted or counted exactly as in one pass, and the carry  *)
(* stays within one token.                                                 *)
(***************************************************************************)
EXTENDS RestoreStream, TLAPS

\* The text and its tokens do not change, and tokens are bracketed runs.
TokensOK ==
    /\ \A t \in tokens : t \in SpansOfText /\ Bracketed(t)
    /\ \A t \in authentic : t \in tokens /\ Size(t) <= MaxToken

StreamOK == YieldedRestored /\ NoTokenCut /\ CarryBounded /\ AllRestored

RestoreInv == TypeOK /\ TokensOK /\ StreamOK

----------------------------------------------------------------------------
\* A bracketed run holds no other "<": a cut at one does not fall inside it.
LEMMA OpeningsCutNoToken ==
    ASSUME RestoreInv, NEW t \in tokens, NEW c \in Positions, text[c] = "<"
    PROVE  ~Straddles(t, c)
<1>1. /\ t.start \in 0 .. TextLen /\ t.end \in 0 .. TextLen
      /\ text[t.end - 1] = ">" /\ \A p \in t.start + 1 .. t.end - 2 : text[p] = "."
  BY DEF RestoreInv, TokensOK, Bracketed, SpansOfText
<1>2. c \in Int /\ TextLen \in Nat
  BY RestoreAssumption DEF Positions
<1>3. SUFFICES ASSUME t.start < c, c < t.end PROVE FALSE
  BY DEF Straddles
<1>4. c # t.end - 1
  BY <1>1
<1>5. c \in t.start + 1 .. t.end - 2
  BY <1>1, <1>2, <1>3, <1>4
<1>6. QED
  BY <1>1, <1>5

\* Where nothing is carried, no token that fits is cut: its opening would have
\* been carried.
LEMMA NoCarryNoCut ==
    ASSUME RestoreInv, NEW r \in received .. TextLen,
           \A c \in emitted .. r - 1 : ~CarriesFrom(c, r),
           NEW t \in tokens, Size(t) <= MaxToken
    PROVE  ~Straddles(t, r)
<1>1. PICK s \in 0 .. TextLen, e \in 0 .. TextLen :
         /\ s = t.start /\ e = t.end
         /\ text[s] = "<" /\ \A p \in s + 1 .. e - 2 : text[p] = "."
  BY DEF RestoreInv, TokensOK, Bracketed, SpansOfText
<1>2. /\ TextLen \in Nat /\ MaxToken \in Nat
      /\ received \in Nat /\ emitted \in Nat /\ emitted <= received /\ r \in Nat
  BY RestoreAssumption DEF RestoreInv, TypeOK
<1>3. SUFFICES ASSUME s < r, r < e PROVE FALSE
  BY <1>1 DEF Straddles
<1>4. CASE s < emitted
  <2>1. Straddles(t, emitted)
    BY <1>1, <1>2, <1>3, <1>4 DEF Straddles
  <2>2. QED
    BY <2>1 DEF RestoreInv, StreamOK, NoTokenCut
<1>5. CASE emitted <= s
  <2>1. s \in emitted .. r - 1
    BY <1>2, <1>3, <1>5
  <2>2. \A p \in s + 1 .. r - 1 : text[p] = "."
    BY <1>1, <1>2, <1>3
  <2>3. LastOpen(s, r)
    BY <1>1, <2>1, <2>2 DEF LastOpen
  <2>4. \A p \in s .. r - 1 : text[p] # ">"
    <3>1. SUFFICES ASSUME NEW p \in s .. r - 1 PROVE text[p] # ">"
      OBVIOUS
    <3>2. p = s \/ p \in s + 1 .. r - 1
      BY <1>2
    <3>3. QED
      BY <1>1, <2>2, <3>2
  <2>5. r - s <= MaxToken
    BY <1>1, <1>2, <1>3 DEF Size
  <2>6. CarriesFrom(s, r)
    BY <2>3, <2>4, <2>5 DEF CarriesFrom
  <2>7. QED
    BY <2>1, <2>6
<1>6. QED
  BY <1>2, <1>4, <1>5

\* What is yielded ends at a place that cuts no token, with one at most carried.
LEMMA YieldCutsNothing ==
    ASSUME RestoreInv, NEW r \in received .. TextLen, YieldUpTo(r)
    PROVE  /\ emitted' \in emitted .. r /\ r - emitted' <= MaxToken
           /\ Restore(emitted, emitted')
           /\ \A t \in tokens : Size(t) <= MaxToken => ~Straddles(t, emitted')
<1>1. /\ TextLen \in Nat /\ MaxToken \in Nat /\ r \in Nat
      /\ received \in Nat /\ emitted \in Nat /\ emitted <= received
  BY RestoreAssumption DEF RestoreInv, TypeOK
<1>2. CASE \E c \in emitted .. r - 1 :
             CarriesFrom(c, r) /\ emitted' = c /\ Restore(emitted, c)
  <2>1. PICK c \in emitted .. r - 1 :
             CarriesFrom(c, r) /\ emitted' = c /\ Restore(emitted, c)
    BY <1>2
  <2>2. c \in Positions /\ c \in emitted .. r
    BY <1>1 DEF Positions
  <2>3. text[c] = "<" /\ r - c <= MaxToken
    BY <2>1 DEF CarriesFrom, LastOpen
  <2>4. \A t \in tokens : ~Straddles(t, c)
    BY <2>2, <2>3, OpeningsCutNoToken
  <2>5. QED
    BY <2>1, <2>2, <2>3, <2>4
<1>3. CASE /\ \A c \in emitted .. r - 1 : ~CarriesFrom(c, r)
           /\ emitted' = r
           /\ Restore(emitted, r)
  <2>1. \A t \in tokens : Size(t) <= MaxToken => ~Straddles(t, r)
    BY <1>3, NoCarryNoCut
  <2>2. r \in emitted .. r /\ r - r <= MaxToken
    BY <1>1
  <2>3. QED
    BY <1>3, <2>1, <2>2
<1>4. QED
  BY <1>2, <1>3 DEF YieldUpTo

\* Yielding up to e what was carried and received keeps the books: a token
\* ending in the piece began in it.
LEMMA PieceRestored ==
    ASSUME RestoreInv, NEW e \in emitted .. TextLen,
           emitted' = e, Restore(emitted, e), UNCHANGED <<text, tokens, authentic>>
    PROVE  /\ YieldedRestored'
           /\ restored' \subseteq authentic /\ failed' \subseteq tokens \ authentic
<1> DEFINE yielded == {t \in tokens : t.end <= emitted}
           later == {t \in tokens : t.end <= e}
           found == {t \in tokens : emitted <= t.start /\ t.end <= e}
<1>1. /\ restored' = restored \cup (found \cap authentic)
      /\ failed' = failed \cup (found \ authentic)
  BY DEF Restore
<1>2. /\ restored = yielded \cap authentic
      /\ {t \in yielded \ authentic : Size(t) <= MaxToken} \subseteq failed
      /\ restored \subseteq authentic /\ failed \subseteq tokens \ authentic
      /\ authentic \subseteq tokens
  BY DEF RestoreInv, StreamOK, YieldedRestored, TypeOK
<1>3. TextLen \in Nat /\ emitted \in Nat
  BY RestoreAssumption DEF RestoreInv, TypeOK
<1>4. ASSUME NEW t \in tokens
      PROVE  /\ t.start \in Nat /\ t.end \in Nat /\ t.start < t.end
             /\ t \in yielded => t \in later
             /\ t \in later /\ Size(t) <= MaxToken => t \in yielded \/ t \in found
  <2>1. t.start \in 0 .. TextLen /\ t.end \in 0 .. TextLen /\ t.start < t.end - 1
    BY <1>4 DEF RestoreInv, TokensOK, Bracketed, SpansOfText
  <2>2. Size(t) <= MaxToken => t.end <= emitted \/ emitted <= t.start
    BY <1>3, <1>4, <2>1 DEF RestoreInv, StreamOK, NoTokenCut, Straddles
  <2>3. t.start \in Nat /\ t.end \in Nat /\ t.start < t.end
    BY <1>3, <2>1
  <2>4. t.end <= emitted => t.end <= e
    BY <1>3, <2>3
  <2>5. QED
    BY <2>2, <2>3, <2>4
<1>5. \A t \in authentic : t \in tokens /\ Size(t) <= MaxToken
  BY DEF RestoreInv, TokensOK
<1>6. restored' = later \cap authentic
  BY <1>1, <1>2, <1>4, <1>5
<1>7. {t \in later \ authentic : Size(t) <= MaxToken} \subseteq failed'
  BY <1>1, <1>2, <1>4
<1>8. restored' \subseteq authentic /\ failed' \subseteq tokens \ authentic
  BY <1>1, <1>2
<1>9. QED
  BY <1>6, <1>7, <1>8 DEF YieldedRestored

----------------------------------------------------------------------------
LEMMA RestoreInit == Init => RestoreInv
<1> SUFFICES ASSUME Init PROVE RestoreInv
  OBVIOUS
<1>1. TextLen \in Nat /\ MaxToken \in Nat
  BY RestoreAssumption
<1>2. TokensOK
  BY DEF Init, TokensOK
<1>3. \A t \in tokens : t.start \in Nat /\ t.end \in Nat /\ t.start < t.end - 1
  BY <1>1, <1>2 DEF TokensOK, Bracketed, SpansOfText
<1>4. TypeOK
  <2>1. authentic \subseteq tokens /\ tokens \subseteq SpansOfText
    BY DEF Init
  <2>2. received \in 0 .. TextLen /\ emitted \in 0 .. received
    BY <1>1 DEF Init
  <2>3. QED
    BY <2>1, <2>2 DEF Init, TypeOK
<1>5. YieldedRestored
  <2>1. {t \in tokens : t.end <= emitted} = {}
    BY <1>3 DEF Init
  <2>2. restored = {} /\ failed = {}
    BY DEF Init
  <2>3. QED
    BY <2>1, <2>2 DEF YieldedRestored
<1>6. NoTokenCut
  BY <1>3 DEF Init, NoTokenCut, Straddles
<1>7. CarryBounded /\ AllRestored
  BY <1>1 DEF Init, CarryBounded, AllRestored
<1>8. QED
  BY <1>2, <1>4, <1>5, <1>6, <1>7 DEF RestoreInv, StreamOK

\* A chunk: the carry starts at an opening, or there is none.
LEMMA ChunkKeeps ==
    ASSUME RestoreInv, NEW n \in 0 .. MaxChunk, Chunk(n)
    PROVE  RestoreInv'
<1>1. /\ TextLen \in Nat /\ MaxToken \in Nat /\ n \in Nat
      /\ received \in Nat /\ emitted \in Nat /\ emitted <= received /\ received <= TextLen
  BY RestoreAssumption DEF RestoreInv, TypeOK
<1>2. PICK r \in received .. TextLen : /\ ~done /\ received' = r /\ YieldUpTo(r)
  <2>1. received + n \in received .. TextLen
    BY <1>1 DEF Chunk
  <2>2. QED
    BY <2>1 DEF Chunk
<1>3. text' = text /\ tokens' = tokens /\ authentic' = authentic /\ done' = done
  BY DEF Chunk
<1>4. /\ emitted' \in emitted .. r /\ r - emitted' <= MaxToken
      /\ Restore(emitted, emitted')
      /\ \A t \in tokens : Size(t) <= MaxToken => ~Straddles(t, emitted')
  BY <1>2, YieldCutsNothing
<1>5. emitted' \in emitted .. TextLen
  BY <1>1, <1>4
<1>6. /\ YieldedRestored'
      /\ restored' \subseteq authentic /\ failed' \subseteq tokens \ authentic
  BY <1>3, <1>4, <1>5, PieceRestored
<1>7. TypeOK'
  <2>1. received' \in 0 .. TextLen /\ emitted' \in 0 .. received'
    BY <1>1, <1>2, <1>4
  <2>2. QED
    BY <1>3, <1>6, <2>1 DEF RestoreInv, TypeOK
<1>8. TokensOK'
  BY <1>3 DEF RestoreInv, TokensOK, Bracketed
<1>9. NoTokenCut'
  BY <1>3, <1>4 DEF NoTokenCut
<1>10. CarryBounded' /\ AllRestored'
  BY <1>2, <1>3, <1>4 DEF CarryBounded, AllRestored
<1>11. QED
  BY <1>6, <1>7, <1>8, <1>9, <1>10 DEF RestoreInv, StreamOK

\* The end of the source: everything is yielded.
LEMMA FinishKeeps ==
    ASSUME RestoreInv, Finish
    PROVE  RestoreInv'
<1>1. /\ TextLen \in Nat /\ MaxToken \in Nat
      /\ received \in Nat /\ emitted \in Nat /\ emitted <= received
  BY RestoreAssumption DEF RestoreInv, TypeOK
<1>2. /\ received = TextLen /\ received' = received /\ emitted' = TextLen
      /\ Restore(emitted, TextLen) /\ done' = TRUE
      /\ text' = text /\ tokens' = tokens /\ authentic' = authentic
  BY DEF Finish
<1>3. TextLen \in emitted .. TextLen
  BY <1>1, <1>2
<1>4. /\ YieldedRestored'
      /\ restored' \subseteq authentic /\ failed' \subseteq tokens \ authentic
  BY <1>2, <1>3, PieceRestored
<1>5. TypeOK'
  <2>1. received' \in 0 .. TextLen /\ emitted' \in 0 .. received'
    BY <1>1, <1>2
  <2>2. QED
    BY <1>2, <1>4, <2>1 DEF RestoreInv, TypeOK
<1>6. TokensOK'
  BY <1>2 DEF RestoreInv, TokensOK, Bracketed
<1>7. \A t \in tokens : t.start \in Nat /\ t.end \in Nat /\ t.end <= TextLen
  BY <1>1 DEF RestoreInv, TokensOK, Bracketed, SpansOfText
<1>8. NoTokenCut'
  BY <1>1, <1>2, <1>7 DEF NoTokenCut, Straddles
<1>9. CarryBounded'
  BY <1>1, <1>2 DEF CarryBounded
<1>10. AllRestored'
  <2>1. restored' = {t \in tokens : t.end <= TextLen} \cap authentic
    BY <1>2, <1>4 DEF YieldedRestored
  <2>2. authentic \subseteq tokens
    BY DEF RestoreInv, TypeOK
  <2>3. restored' = authentic
    BY <1>7, <2>1, <2>2
  <2>4. QED
    BY <1>2, <2>3 DEF AllRestored
<1>11. QED
  BY <1>4, <1>5, <1>6, <1>8, <1>9, <1>10 DEF RestoreInv, StreamOK

\* The inductive invariant of restore_stream.
THEOREM RestoreInvariant == Spec => []RestoreInv
<1>1. ASSUME RestoreInv, [Next]_vars PROVE RestoreInv'
  <2>1. CASE \E n \in 0 .. MaxChunk : Chunk(n)
    BY <1>1, <2>1, ChunkKeeps
  <2>2. CASE Finish
    BY <1>1, <2>2, FinishKeeps
  <2>3. CASE UNCHANGED vars
    <3>1. UNCHANGED <<text, tokens, authentic, received, emitted, restored, failed, done>>
      BY <2>3 DEF vars
    <3>2. TypeOK' /\ TokensOK'
      BY <1>1, <3>1 DEF RestoreInv, TypeOK, TokensOK, Bracketed
    <3>3. StreamOK'
      BY <1>1, <3>1 DEF RestoreInv, StreamOK, YieldedRestored, NoTokenCut, CarryBounded, AllRestored
    <3>4. QED
      BY <3>2, <3>3 DEF RestoreInv
  <2>4. QED
    BY <1>1, <2>1, <2>2, <2>3 DEF Next
<1>2. QED
  BY <1>1, RestoreInit, PTL DEF Spec

----------------------------------------------------------------------------
\* restore_stream keeps only values its variables can hold.
THEOREM RestoreTypeCorrect == Spec => []TypeOK
BY RestoreInvariant, PTL DEF RestoreInv

\* Streaming restores what one pass over the text so far would have.
THEOREM StreamingRestoresAsWhole == Spec => []RestoresAsWhole
BY RestoreInvariant, PTL DEF RestoreInv, StreamOK, RestoresAsWhole

\* The carry holds at most one token.
THEOREM CarryStaysBounded == Spec => []CarryBounded
BY RestoreInvariant, PTL DEF RestoreInv, StreamOK

\* _MAX_TOKEN is long enough: no token encrypt_token writes, for any plaintext
\* it accepts and any label the pattern accepts, is longer.  This is what lets
\* Init give authentic tokens at most MaxToken characters.
THEOREM TokensFit ==
    \A n \in 0 .. MaxPlaintextBytes, l \in 1 .. 32 :
        TokenLen(n, l) <= MaxTokenOf(MaxPlaintextBytes)
<1>1. SUFFICES ASSUME NEW n \in 0 .. MaxPlaintextBytes, NEW l \in 1 .. 32
               PROVE  TokenLen(n, l) <= MaxTokenOf(MaxPlaintextBytes)
  OBVIOUS
<1>2. MaxTokenOf(MaxPlaintextBytes) = 46525
  BY SMTT(60) DEF MaxTokenOf, MaxPlaintextBytes, Overhead, Group
<1>3. PayloadLen(n) \in Nat /\ PayloadLen(n) <= 43728
  <2>1. \A y \in Nat : y \div 3 \in Nat /\ (y <= 131186 => y \div 3 <= 43728)
    OBVIOUS
  <2>2. 4 * (n + 28) + 2 \in Nat /\ 4 * (n + 28) + 2 <= 131186
    BY SMTT(60) DEF MaxPlaintextBytes
  <2>3. QED
    BY <2>1, <2>2 DEF PayloadLen, Overhead
<1>4. (PayloadLen(n) - 1) \div Group <= 2732
  <2>1. \A y \in Int : y <= 43727 => y \div 16 <= 2732
    OBVIOUS
  <2>2. QED
    BY <1>3, <2>1 DEF Group
<1>5. QED
  BY <1>2, <1>3, <1>4 DEF TokenLen, Group
=============================================================================
