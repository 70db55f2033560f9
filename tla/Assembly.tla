------------------------------ MODULE Assembly ------------------------------
(***************************************************************************)
(* How a Redactor comes to be (config.py, cli.py _build_redactor and       *)
(* _server_redactor, policy.py, detectors/registry.py, redactor.py's       *)
(* constructor): a policy file is read and validated, flags are laid over  *)
(* it, the policy and then the tiers are built, or nothing is.             *)
(*                                                                         *)
(* A setting's value is the set of the words given for it; {} is unset.    *)
(* Only the keys that decide what is built are kept.                       *)
(***************************************************************************)
EXTENDS Integers, FiniteSets

CONSTANTS
    Givens      \* records [entry, file, flags, environment, plugins]

VARIABLES
    order,      \* what a redactor is to be built from
    tiers,      \* the tiers it runs
    building    \* [stage, settings]

assemblyVars == <<order, tiers, building>>

\* The keys of a policy file and the kind each must have.
Schema == [
    detection |-> [types |-> "strings", use_ner |-> "boolean", use_gazetteer |-> "boolean",
                   use_ensemble |-> "boolean", use_entropy |-> "boolean",
                   use_regional |-> "boolean", use_dates |-> "boolean", profile |-> "string",
                   use_prose_fields |-> "boolean", use_urls |-> "boolean",
                   min_confidence |-> "number"],
    redaction |-> [mode |-> "string", hmac_key |-> "string", encrypt_key |-> "string"],
    custom |-> [words |-> "strings", patterns |-> "strings"],
    streaming |-> [overlap |-> "integer", allow_unsafe_overlap |-> "boolean"],
    plugins |-> [enabled |-> "boolean"]]

Keys == {"types", "use_ner", "use_gazetteer", "use_ensemble", "use_entropy", "use_regional",
         "use_dates", "profile", "use_prose_fields", "use_urls", "min_confidence", "mode",
         "hmac_key", "encrypt_key", "custom_words", "custom_patterns", "overlap",
         "allow_unsafe_overlap", "load_plugins"}

KeyOf(entry) == CASE entry.section = "custom" /\ entry.key = "words" -> "custom_words"
                  [] entry.section = "custom" /\ entry.key = "patterns" -> "custom_patterns"
                  [] entry.section = "plugins" -> "load_plugins"
                  [] OTHER -> entry.key

\* An integer is a number; a boolean is neither.
HasKind(kind, wanted) == kind = wanted \/ (kind = "integer" /\ wanted = "number")

ValidConfig(entries) ==
    \A e \in entries : /\ e.section \in DOMAIN Schema
                       /\ e.key \in DOMAIN Schema[e.section]
                       /\ HasKind(e.kind, Schema[e.section][e.key])

Unset == [k \in Keys |-> {}]
FromFile(entries) == [k \in Keys |-> UNION {e.value : e \in {x \in entries : KeyOf(x) = k}}]

\* Words and patterns are added to the file's; any other flag overrides it.
\* Of the servers' flags only the plugin switch is one.
Overlaid(settings) ==
    LET heeded == IF order.entry = "server" THEN {"load_plugins"} ELSE Keys
    IN  [k \in Keys |->
            IF k \notin heeded \/ order.flags[k] = {} THEN settings[k]
            ELSE IF k \in {"custom_words", "custom_patterns"} THEN settings[k] \cup order.flags[k]
            ELSE order.flags[k]]

----------------------------------------------------------------------------
EntityTypes == {"phone", "email", "url", "date", "ssn", "credit_card", "dob", "id_number",
                "person", "org", "loc", "address", "username", "sex", "title", "secret", "iban",
                "nhs_number", "in_aadhaar", "uk_nino", "in_pan", "crypto_address", "nrp",
                "custom"}

RegionalTypes == {"iban", "crypto_address", "uk_nino", "nhs_number", "in_aadhaar", "in_pan"}
LabeledTypes == {"ssn", "phone", "credit_card", "dob", "id_number"}
ChecksumTypes == {"iban", "nhs_number", "in_aadhaar", "id_number"}

\* Mutant: a type the structured fields report is not in their list.
FieldTypes_NoUsername == {"person", "address", "phone", "dob", "id_number", "sex", "title"}
FieldTypes == {"person", "address", "phone", "dob", "id_number", "username", "sex", "title"}

\* Tiers that run unless a list of types leaves out all of theirs.
Scoped == [labeled_identifier |-> LabeledTypes, structured_field |-> FieldTypes,
           entropy |-> {"secret"}, compound_secret |-> {"secret"},
           checksum_id |-> ChecksumTypes, postcode |-> {"address"}, contextual |-> {"ssn"}]

\* Tiers that run when switched on or when a type of theirs is listed.
OptedIn == [regional |-> [key |-> "use_regional", types |-> RegionalTypes],
            url |-> [key |-> "use_urls", types |-> {"url"}],
            nrp |-> [key |-> "use_prose_fields", types |-> {"nrp"}],
            date |-> [key |-> "use_dates", types |-> {"date"}]]

\* Tiers that run when switched on.
Switched == [ner |-> "use_ner", gazetteer_name |-> "use_gazetteer",
             semantic_ensemble |-> "use_ensemble"]

ProseKeys == {"use_dates", "use_prose_fields", "use_urls"}

\* A profile decides what is left unset.
On(s, key) == IF s[key] # {} THEN s[key] = {"true"}
              ELSE key = "use_entropy" \/ (key \in ProseKeys /\ s.profile = {"prose"})

InScope(s, types) == s.types = {} \/ types \cap s.types # {}

\* An installed plugin that does not load, or is no detector, is skipped.
Plugins(s) == IF On(s, "load_plugins")
              THEN {p.name : p \in {q \in order.plugins : q.loads /\ q.detects}} ELSE {}

Active(s) ==
    {"deterministic"}
    \cup {t \in DOMAIN Scoped : /\ InScope(s, Scoped[t])
                                /\ t \in {"entropy", "compound_secret"} => On(s, "use_entropy")}
    \cup {t \in DOMAIN OptedIn : On(s, OptedIn[t].key) \/ OptedIn[t].types \cap s.types # {}}
    \cup {t \in DOMAIN Switched : On(s, Switched[t])}
    \cup (IF s.custom_words \cup s.custom_patterns # {} THEN {"custom"} ELSE {})
    \cup Plugins(s)

\* The overlap each tier asks for.
Plugin(name) == CHOOSE p \in order.plugins : p.name = name
Needs(t) == CASE t \in {q.name : q \in order.plugins} -> Plugin(t).needs
              [] t = "labeled_identifier" -> 96
              [] t = "structured_field" -> 256
              [] t = "gazetteer_name" -> 72
              [] t = "semantic_ensemble" -> 2216
              [] t \in {"checksum_id", "regional"} -> 65
              [] t = "contextual" -> 48
              [] OTHER -> 8192
WindowSafe(t) == t \notin {q.name : q \in {x \in order.plugins : ~x.windows}}

SizeOf == [negative |-> -1, little |-> 64, default |-> 8192, large |-> 16384]
Overlap(s) == IF s.overlap = {} THEN 8192 ELSE SizeOf[CHOOSE w \in s.overlap : TRUE]

EnforcesOverlap(s) ==
    \/ \A t \in Active(s) : Needs(t) <= Overlap(s)
    \/ On(s, "allow_unsafe_overlap")

----------------------------------------------------------------------------
\* The command line takes a missing encryption key from its environment.
Keyed(s) ==
    LET encrypt == IF s.encrypt_key = {} /\ order.entry = "command" THEN order.environment
                   ELSE s.encrypt_key
    IN  /\ s.mode \in {{"pseudonymize"}, {"fictionalize"}} => s.hmac_key # {}
        /\ s.mode = {"encrypt"} => encrypt \notin {{}, {"short"}}

PolicyBuilds(s) ==
    /\ s.mode \in {{}} \cup {{w} : w \in {"replace", "mask", "pseudonymize", "hash", "encrypt",
                                          "fictionalize"}}
    /\ Keyed(s)

RedactorBuilds(s) ==
    /\ s.types \subseteq EntityTypes
    /\ s.profile \in {{}, {"default"}, {"prose"}}
    /\ Overlap(s) >= 0
    /\ s.min_confidence # {"above one"}
    /\ "invalid" \notin s.custom_patterns
    /\ \A t \in Active(s) : WindowSafe(t)
    /\ EnforcesOverlap(s)

----------------------------------------------------------------------------
Stage(name, settings) == [stage |-> name, settings |-> settings]

AssemblyInit == /\ order \in Givens
                /\ tiers = {}
                /\ building = Stage("started", Unset)

\* load_config and the two functions that turn the file into arguments.
Read == /\ building.stage = "started"
        /\ building' = IF order.file.parses /\ ValidConfig(order.file.entries)
                       THEN Stage("read", FromFile(order.file.entries))
                       ELSE Stage("refused", Unset)
        /\ UNCHANGED <<order, tiers>>

BuildPolicy == /\ building.stage = "read"
               /\ LET s == Overlaid(building.settings)
                  IN  building' = Stage(IF PolicyBuilds(s) THEN "policy built" ELSE "refused", s)
               /\ UNCHANGED <<order, tiers>>

BuildRedactor == /\ building.stage = "policy built"
                 /\ LET s == building.settings IN
                    IF RedactorBuilds(s)
                    THEN building' = Stage("built", s) /\ tiers' = Active(s)
                    ELSE building' = Stage("refused", s) /\ tiers' = {}
                 /\ UNCHANGED order

AssemblyNext == Read \/ BuildPolicy \/ BuildRedactor

AssemblySpec == AssemblyInit /\ [][AssemblyNext]_assemblyVars

----------------------------------------------------------------------------
\* The types each tier can report, as their detect methods build them.
Reports(t) ==
    CASE t = "deterministic" -> {"phone", "email", "ssn", "credit_card", "address"}
      [] t = "labeled_identifier" -> {"phone", "credit_card", "dob", "id_number"}
      [] t = "structured_field" ->
            {"person", "address", "phone", "dob", "id_number", "username", "secret", "email"}
            \cup (IF On(building.settings, "use_prose_fields") THEN {"sex", "title"} ELSE {})
      [] t = "checksum_id" -> {"iban", "nhs_number", "in_aadhaar", "id_number"}
      [] t = "regional" -> RegionalTypes
      [] t \in {"entropy", "compound_secret"} -> {"secret"}
      [] t = "contextual" -> {"ssn"}
      [] t = "postcode" -> {"address"}
      [] t \in {"url", "nrp", "date"} -> {t}
      [] t \in DOMAIN Switched -> {"person", "org", "loc"}
      [] OTHER -> {"custom"}

\* Two types the structured fields report are not among those that keep that
\* tier when listed.
Unlisted(t) == IF t = "structured_field" THEN {"secret", "email"} ELSE {}

\* The inductive invariant: what runs is what the settings ask for, and they
\* were accepted.
AssemblyInv ==
    /\ building.settings = [k \in Keys |-> building.settings[k]]
    /\ building.stage = "built" =>
         tiers = Active(building.settings) /\ RedactorBuilds(building.settings)

\* Listing types never loses one of them: each tier that runs without the list
\* and can report a listed type runs with it; and what runs, plugins included,
\* sees whole windows, or the operator said otherwise.
RequestsCovered ==
    building.stage = "built" =>
        /\ \A t \in Active([building.settings EXCEPT !.types = {}]) :
              (Reports(t) \ Unlisted(t)) \cap building.settings.types # {} => t \in tiers
        /\ \A t \in tiers :
              /\ WindowSafe(t)
              /\ Needs(t) <= Overlap(building.settings)
                   \/ building.settings.allow_unsafe_overlap = {"true"}
=============================================================================
