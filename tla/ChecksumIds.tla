---------------------------- MODULE ChecksumIds ----------------------------
(***************************************************************************)
(* Identifiers that carry their own check (detectors/regional.py), the     *)
(* card number and the international phone number                          *)
(* (detectors/deterministic.py): what is reported of one candidate.        *)
(*                                                                         *)
(* A candidate is a sequence of characters, a digit its own value and a    *)
(* letter 10 to 35, the groups it is written in, the cue words before it,  *)
(* and whether a letter or digit follows it.  The length of an IBAN is     *)
(* given for a few countries.  Hash-checked and shape-only identifiers     *)
(* (crypto addresses, NINO, PAN) are left out.                             *)
(***************************************************************************)
EXTENDS Integers, Sequences, FiniteSets

CONSTANTS
    Givens      \* records [kind, value, groups, cues, followed]

VARIABLES given, found

idsVars == <<given, found>>

Digit == 0..9
Letter == 10..35
AllDigits(v) == \A i \in DOMAIN v : v[i] \in Digit

WeightedSum(v, weights) ==
    LET Upto[i \in 0..Len(weights)] == IF i = 0 THEN 0 ELSE Upto[i - 1] + v[i] * weights[i]
    IN  Upto[Len(weights)]

----------------------------------------------------------------------------
\* Norway, Austria, Lithuania.
IbanLen == [NO |-> 15, AT |-> 20, LT |-> 20]
CountryOf(v) == CASE v[1] = 23 /\ v[2] = 24 -> "NO"
                  [] v[1] = 10 /\ v[2] = 29 -> "AT"
                  [] v[1] = 21 /\ v[2] = 29 -> "LT"
                  [] OTHER -> "none"

\* A letter stands for two digits.
Mod97(v) == LET Upto[i \in 0..Len(v)] ==
                    IF i = 0 THEN 0
                    ELSE (Upto[i - 1] * (IF v[i] \in Digit THEN 10 ELSE 100) + v[i]) % 97
            IN  Upto[Len(v)]

iban_ok(v) ==
    /\ CountryOf(v) \in DOMAIN IbanLen
    /\ Len(v) = IbanLen[CountryOf(v)]
    /\ Mod97(SubSeq(v, 5, Len(v)) \o SubSeq(v, 1, 4)) = 1

nhs_ok(v) ==
    LET check == 11 - (WeightedSum(v, <<10, 9, 8, 7, 6, 5, 4, 3, 2>>) % 11)
    IN  Len(v) = 10 /\ check # 10 /\ (IF check = 11 THEN 0 ELSE check) = v[10]

VerhoeffD == <<
    <<0, 1, 2, 3, 4, 5, 6, 7, 8, 9>>, <<1, 2, 3, 4, 0, 6, 7, 8, 9, 5>>,
    <<2, 3, 4, 0, 1, 7, 8, 9, 5, 6>>, <<3, 4, 0, 1, 2, 8, 9, 5, 6, 7>>,
    <<4, 0, 1, 2, 3, 9, 5, 6, 7, 8>>, <<5, 9, 8, 7, 6, 0, 4, 3, 2, 1>>,
    <<6, 5, 9, 8, 7, 1, 0, 4, 3, 2>>, <<7, 6, 5, 9, 8, 2, 1, 0, 4, 3>>,
    <<8, 7, 6, 5, 9, 3, 2, 1, 0, 4>>, <<9, 8, 7, 6, 5, 4, 3, 2, 1, 0>> >>

VerhoeffP == <<
    <<0, 1, 2, 3, 4, 5, 6, 7, 8, 9>>, <<1, 5, 7, 6, 2, 8, 3, 0, 9, 4>>,
    <<5, 8, 0, 3, 7, 9, 6, 1, 4, 2>>, <<8, 9, 1, 6, 0, 4, 3, 5, 2, 7>>,
    <<9, 4, 5, 3, 1, 2, 6, 8, 7, 0>>, <<4, 2, 8, 6, 5, 7, 3, 9, 0, 1>>,
    <<2, 7, 9, 3, 8, 0, 6, 4, 1, 5>>, <<7, 0, 4, 6, 9, 1, 3, 2, 5, 8>> >>

\* Mutant: digits are not permuted by position.
verhoeff_unpermuted(v) ==
    LET Upto[i \in 0..Len(v)] == IF i = 0 THEN 0 ELSE VerhoeffD[Upto[i - 1] + 1][v[Len(v) + 1 - i] + 1]
    IN  Upto[Len(v)] = 0

\* The digits are taken from the right; i counts from 0.
verhoeff_ok(v) ==
    LET Upto[i \in 0..Len(v)] ==
            IF i = 0 THEN 0
            ELSE VerhoeffD[Upto[i - 1] + 1][VerhoeffP[((i - 1) % 8) + 1][v[Len(v) + 1 - i] + 1] + 1]
    IN  Upto[Len(v)] = 0

abn_ok(v) ==
    /\ Len(v) = 11
    /\ (WeightedSum(v, <<10, 1, 3, 5, 7, 9, 11, 13, 15, 17, 19>>) - 10) % 89 = 0

acn_ok(v) ==
    Len(v) = 9 /\ (10 - (WeightedSum(v, <<8, 7, 6, 5, 4, 3, 2, 1>>) % 10)) % 10 = v[9]

tfn_ok(v) ==
    \/ Len(v) = 9 /\ WeightedSum(v, <<1, 4, 3, 7, 5, 8, 6, 9, 10>>) % 11 = 0
    \/ Len(v) = 8 /\ WeightedSum(v, <<10, 7, 8, 4, 6, 3, 5, 1>>) % 11 = 0

medicare_ok(v) ==
    /\ Len(v) \in {10, 11}
    /\ v[1] \in 2..6
    /\ WeightedSum(v, <<1, 3, 7, 9, 1, 3, 7, 9>>) % 10 = v[9]

\* S and T numbers end in one of J Z I H G F E D C B A, F and G numbers in one
\* of X W U T R Q P N M L K.
NricTable(series) == IF series \in {28, 29} THEN <<19, 35, 18, 17, 16, 15, 14, 13, 12, 11, 10>>
                     ELSE <<33, 32, 30, 29, 27, 26, 25, 23, 22, 21, 20>>

nric_ok(v) ==
    /\ Len(v) = 9
    /\ v[1] \in {28, 29, 15, 16}
    /\ LET total == WeightedSum(Tail(v), <<2, 7, 6, 5, 4, 3, 2>>)
                    + (IF v[1] \in {29, 16} THEN 4 ELSE 0)
       IN  NricTable(v[1])[(total % 11) + 1] = v[9]

\* Every second digit from the right is doubled, and loses nine over nine.
luhn_ok(v) ==
    LET Term(i) == LET d == v[i] * (IF (Len(v) - i) % 2 = 1 THEN 2 ELSE 1)
                   IN  IF d > 9 THEN d - 9 ELSE d
        Upto[i \in 0..Len(v)] == IF i = 0 THEN 0 ELSE Upto[i - 1] + Term(i)
    IN  Len(v) \in 13..19 /\ Upto[Len(v)] % 10 = 0

----------------------------------------------------------------------------
\* Mutant: an area that is itself a code beside the codes within it.
E164CountryCodes_Reserved == {1, 7, 21} \cup (210..219)

E164CountryCodes ==
    {1, 7, 20, 27, 36, 81, 82, 84, 86, 98} \cup (30..34) \cup (39..41) \cup (43..49) \cup (51..58)
    \cup (60..66) \cup (90..95) \cup (211..213) \cup {216, 218} \cup (220..258) \cup (260..269)
    \cup {290, 291, 297, 298, 299} \cup (350..359) \cup (370..378) \cup (380..383)
    \cup (385..387) \cup {389, 420, 421, 423} \cup (500..509) \cup (590..599) \cup {670}
    \cup (672..683) \cup (685..692) \cup {800, 808, 850, 852, 853, 855, 856, 870, 878, 886, 888}
    \cup (880..883) \cup (960..968) \cup (970..977) \cup {979} \cup (992..996) \cup {998}

NumberOf(v) == LET Upto[i \in 0..Len(v)] == IF i = 0 THEN 0 ELSE Upto[i - 1] * 10 + v[i]
               IN  Upto[Len(v)]

\* The codes the number after the + can be read as starting with: its first
\* group, when that is up to three digits long, or a prefix of it.
CountryCodes(run) ==
    IF run = <<>> \/ run[1] = 0 THEN {}
    ELSE {NumberOf(SubSeq(run, 1, n)) : n \in IF Len(run) <= 3 THEN {Len(run)} ELSE 1..3}
         \cap E164CountryCodes

----------------------------------------------------------------------------
value == given.value
Spaced == Len(given.groups) > 1
Cued(rule) == rule \in given.cues

\* Print form is groups of four; otherwise there are no spaces.
IbanShaped ==
    /\ ~given.followed
    /\ \/ Len(given.groups) = 1
       \/ \A i \in DOMAIN given.groups :
             given.groups[i] = 4 \/ (i = Len(given.groups) /\ given.groups[i] \in 1..4)

ShapedAs(shapes) == AllDigits(value) /\ ~given.followed /\ given.groups \in shapes

Acn == ShapedAs({<<3, 3, 3>>, <<9>>, <<8>>}) /\ acn_ok(value) /\ Cued("acn")

\* A plain run of digits needs its cue word, and some need it in any form.
Reported ==
    {rule \in {"iban", "nhs", "aadhaar", "abn", "acn", "tfn", "medicare", "nric", "itin", "card"} :
        CASE rule = "iban" -> IbanShaped /\ iban_ok(value)
          [] rule = "nhs" -> ShapedAs({<<3, 3, 4>>, <<10>>}) /\ nhs_ok(value) /\ (Spaced \/ Cued("nhs"))
          [] rule = "aadhaar" -> /\ ShapedAs({<<4, 4, 4>>, <<12>>}) /\ value[1] \in 2..9
                                 /\ verhoeff_ok(value) /\ (Spaced \/ Cued("aadhaar"))
          [] rule = "abn" -> ShapedAs({<<2, 3, 3, 3>>, <<11>>}) /\ abn_ok(value) /\ (Spaced \/ Cued("abn"))
          [] rule = "acn" -> Acn
          [] rule = "tfn" -> /\ ShapedAs({<<3, 3, 3>>, <<9>>, <<8>>})
                             /\ tfn_ok(value) /\ Cued("tfn") /\ ~Acn
          [] rule = "medicare" -> /\ ShapedAs({<<4, 5, 1>>, <<4, 5, 2>>, <<4, 5, 1, 1>>, <<10>>, <<11>>})
                                  /\ medicare_ok(value) /\ (Spaced \/ Cued("medicare"))
          [] rule = "nric" -> ~given.followed /\ ~Spaced /\ nric_ok(value)
          [] rule = "itin" -> /\ ShapedAs({<<3, 2, 4>>, <<9>>}) /\ value[1] = 9
                              /\ NumberOf(SubSeq(value, 4, 5)) \in (50..65) \cup (70..88) \cup (90..92) \cup (94..99)
                              /\ Cued("itin")
          [] rule = "card" -> AllDigits(value) /\ ~given.followed /\ luhn_ok(value)}

\* An international phone number has 7 to 15 digits; groups[1] of them follow
\* the + unbroken.
PhoneCodes == IF Len(value) \in 7..15 THEN CountryCodes(SubSeq(value, 1, given.groups[1])) ELSE {}

----------------------------------------------------------------------------
Unseen == [done |-> FALSE, rules |-> {}, codes |-> {}]

Init == given \in Givens /\ found = Unseen

Detect == /\ ~found.done
          /\ found' = [done |-> TRUE,
                       rules |-> IF given.kind = "identifier" THEN Reported ELSE {},
                       codes |-> IF given.kind = "phone" THEN PhoneCodes ELSE {}]
          /\ UNCHANGED given

Next == Detect

----------------------------------------------------------------------------
Accepts(rule, v) ==
    CASE rule = "iban" -> iban_ok(v) [] rule = "nhs" -> nhs_ok(v)
      [] rule = "aadhaar" -> verhoeff_ok(v) [] rule = "abn" -> abn_ok(v)
      [] rule = "tfn" -> tfn_ok(v) [] rule = "medicare" -> medicare_ok(v)
      [] rule = "nric" -> nric_ok(v) [] rule = "card" -> luhn_ok(v)

\* Every character but Medicare's last, the issue of the card.
Checked(rule, v) == IF rule = "medicare" THEN 1..9 ELSE DOMAIN v
Mistyped(rule, v) ==
    UNION {{[v EXCEPT ![i] = x] : x \in (IF v[i] \in Digit THEN Digit ELSE Letter) \ {v[i]}} :
              i \in Checked(rule, v)}

Transposed(v) ==
    {[v EXCEPT ![i] = v[i + 1], ![i + 1] = v[i]] :
        i \in {j \in DOMAIN v \ {Len(v)} : v[j] # v[j + 1] /\ {v[j], v[j + 1]} \subseteq Digit}}

\* A number reported because it passes its check would not have been with one
\* character mistyped, nor, where the check weighs neighbours differently,
\* with two adjacent digits exchanged.  (The company number's even weights and
\* the ranges of the ITIN promise neither.)
ErrorsCaught ==
    \A rule \in found.rules \ {"acn", "itin"} :
        /\ \A v \in Mistyped(rule, value) : ~Accepts(rule, v)
        /\ rule \in {"iban", "nhs", "aadhaar", "abn", "tfn", "nric"}
              => \A v \in Transposed(value) : ~Accepts(rule, v)

\* The leading digits of a number name at most one country.
OneCountry == Cardinality(found.codes) <= 1
=============================================================================
