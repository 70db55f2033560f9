--------------------------- MODULE RestoreStream ---------------------------
(***************************************************************************)
(* operators.Deanonymizer.restore_stream: the tokens that encrypt_token   *)
(* wrote into a text are found and decrypted again while the text streams *)
(* by in chunks of any size.                                               *)
(*                                                                         *)
(* A character is the "<" that opens a token, the ">" that closes one, or *)
(* any other.  Whether a bracketed run matches the token's pattern, and   *)
(* whether what matches authenticates under the key, is a property of the *)
(* text.  The source, the carry and what was yielded are positions:       *)
(* carry is emitted .. received - 1.                                       *)
(***************************************************************************)
EXTENDS Integers, Spans

CONSTANTS
    TextLen,    \* bound: the characters of the text
    MaxToken,   \* _MAX_TOKEN, the length of the longest token
    MaxChunk    \* bound: the characters of a chunk

ASSUME RestoreAssumption ==
    TextLen \in Nat /\ MaxToken \in Nat \ {0} /\ MaxChunk \in Nat \ {0}

VARIABLES
    text,       \* position -> character
    tokens,     \* what matches _TOKEN in the text
    authentic,  \* the tokens that decrypt under this key
    received,   \* characters taken from the source
    emitted,    \* characters yielded, restored
    restored,   \* tokens replaced by their plaintext
    failed,     \* tokens left in place and counted
    done        \* the generator is exhausted

vars == <<text, tokens, authentic, received, emitted, restored, failed, done>>

Positions == 0 .. TextLen - 1
Characters == {"<", ">", "."}

----------------------------------------------------------------------------
(* Tokens.                                                                  *)

\* What _TOKEN can match: from a "<" to a ">" with neither between.
Bracketed(t) ==
    /\ t.start < t.end - 1 /\ t.end <= TextLen
    /\ text[t.start] = "<" /\ text[t.end - 1] = ">"
    /\ \A p \in t.start + 1 .. t.end - 2 : text[p] = "."

SpansOfText == [start : 0 .. TextLen, end : 0 .. TextLen]

\* encrypt_token: the characters of the token for n bytes of plaintext and a
\* label of l characters.  base64 without padding, in groups of 16 joined by
\* a separator, in "<" label ":E:" payload ">".
Overhead == 28
Group == 16
PayloadLen(n) == (4 * (n + Overhead) + 2) \div 3
TokenLen(n, l) == PayloadLen(n) + (PayloadLen(n) - 1) \div Group + l + 5

\* _MAX_TOKEN as computed from MAX_PLAINTEXT_BYTES.
MaxPlaintextBytes == 32768
MaxTokenOf(n) ==
    LET b64 == (4 * (n + Overhead)) \div 3 IN b64 + b64 \div Group + 64

----------------------------------------------------------------------------
(* restore_stream.                                                          *)

Init ==
    /\ text \in [Positions -> Characters]
    /\ tokens \in SUBSET {t \in SpansOfText : Bracketed(t)}
    /\ authentic \in SUBSET {t \in tokens : Size(t) <= MaxToken}
    /\ received = 0 /\ emitted = 0
    /\ restored = {} /\ failed = {}
    /\ done = FALSE

\* restore: every token of the piece from .. to - 1, by _sub.
Restore(from, to) ==
    LET found == {t \in tokens : from <= t.start /\ t.end <= to} IN
      /\ restored' = restored \cup (found \cap authentic)
      /\ failed' = failed \cup (found \ authentic)

\* cut = text.rfind("<") over carry and chunk, r characters received.
LastOpen(c, r) ==
    /\ c \in emitted .. r - 1 /\ text[c] = "<"
    /\ \A p \in c + 1 .. r - 1 : text[p] # "<"

CarriesFrom_AnyLength(c, r) ==
    /\ LastOpen(c, r)
    /\ \A p \in c .. r - 1 : text[p] # ">"

CarriesFrom_OneShort(c, r) ==
    /\ LastOpen(c, r)
    /\ \A p \in c .. r - 1 : text[p] # ">"
    /\ r - c < MaxToken - 1

\* The carry after a chunk starts at an opening that is not closed yet and
\* that a token could still close.
CarriesFrom(c, r) ==
    /\ LastOpen(c, r)
    /\ \A p \in c .. r - 1 : text[p] # ">"
    /\ r - c <= MaxToken

\* With r characters received, everything before the carry is yielded.
YieldUpTo(r) ==
    \/ \E c \in emitted .. r - 1 :
         CarriesFrom(c, r) /\ emitted' = c /\ Restore(emitted, c)
    \/ /\ \A c \in emitted .. r - 1 : ~CarriesFrom(c, r)
       /\ emitted' = r /\ Restore(emitted, r)

\* A chunk of n characters.
Chunk(n) ==
    /\ ~done /\ received + n <= TextLen
    /\ received' = received + n
    /\ YieldUpTo(received + n)
    /\ UNCHANGED <<text, tokens, authentic, done>>

\* The source is exhausted: the carry is restored too.
Finish ==
    /\ ~done /\ received = TextLen
    /\ done' = TRUE
    /\ emitted' = TextLen
    /\ Restore(emitted, TextLen)
    /\ UNCHANGED <<text, tokens, authentic, received>>

Next == (\E n \in 0 .. MaxChunk : Chunk(n)) \/ Finish

Spec == Init /\ [][Next]_vars

----------------------------------------------------------------------------
\* The stream's positions and counters hold what the code can store in them.
TypeOK ==
    /\ text \in [Positions -> Characters]
    /\ tokens \subseteq SpansOfText /\ authentic \subseteq tokens
    /\ received \in 0 .. TextLen /\ emitted \in 0 .. received
    /\ restored \subseteq authentic /\ failed \subseteq tokens \ authentic
    /\ done \in BOOLEAN

\* Every token in what has been yielded was seen whole, in one piece, and
\* decrypted or counted; a look-alike longer than any token is exempt.
YieldedRestored ==
    LET yielded == {t \in tokens : t.end <= emitted}
    IN  /\ restored = yielded \cap authentic
        /\ {t \in yielded \ authentic : Size(t) <= MaxToken} \subseteq failed

\* When the generator is exhausted nothing is left behind in the carry.
AllRestored == done => restored = authentic /\ emitted = TextLen

\* restore_stream equals restore on the text so far, whatever the chunks, and
\* at the end on all of it.
RestoresAsWhole == YieldedRestored /\ AllRestored

\* No token is split between two yielded pieces.
NoTokenCut ==
    \A t \in tokens : Size(t) <= MaxToken => ~Straddles(t, emitted)

\* Constant memory: never more than one token is carried.
CarryBounded == received - emitted <= MaxToken
=============================================================================
