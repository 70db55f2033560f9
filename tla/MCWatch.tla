------------------------------ MODULE MCWatch ------------------------------
(***************************************************************************)
(* Small instances of the watcher, one chosen when the daemon starts:     *)
(* redact mode on inotify and on fanotify, and on inotify with an         *)
(* operator whose output is detected again, audit mode (WatchRedact), and *)
(* block mode (WatchBlock, fail-closed, with files too large to scan).    *)
(***************************************************************************)
EXTENDS WatchRedact, WatchBlock

vars == <<fileVars, daemon, redactVars, readVars>>

MCOptions == RedactOnInode \cup RedactOnPath \cup
    {[mode |-> "redact", byPath |-> TRUE, detectable |-> TRUE],
     [mode |-> "audit", byPath |-> FALSE, detectable |-> FALSE]}

\* Bound: where every rewrite is detected again, the other process does less.
EchoWrites == 2

\* Of WatchRedact only the option says that this daemon blocks.
Blocking == [mode |-> "block", byPath |-> FALSE, detectable |-> FALSE]

Init ==
    /\ BlockInit
    /\ option \in Options \cup {Blocking}
    /\ own = [name \in Names |-> NoVersion] /\ logged = {}

RewriteStep ==
    /\ option # Blocking
    /\ WatchNext /\ UNCHANGED readVars
    /\ option.detectable => writes' <= EchoWrites
BlockStep == option = Blocking /\ BlockNext /\ UNCHANGED redactVars

Next == RewriteStep \/ BlockStep

AnyDaemon ==
    \/ option # Blocking /\ Rewriter /\ UNCHANGED readVars
    \/ option = Blocking /\ Blocker /\ UNCHANGED redactVars

AnyClose == option # Blocking /\ Close /\ UNCHANGED <<daemon, redactVars, readVars>>

\* The daemon's thread is scheduled; in redact and audit mode the other
\* process closes what it opened.
Spec == Init /\ [][Next]_vars /\ WF_vars(AnyDaemon) /\ WF_vars(AnyClose)

----------------------------------------------------------------------------
\* The inductive invariant of the module whose daemon runs.
InvariantHolds == IF option = Blocking THEN BlockInv ELSE WatchInv

\* The daemon comes to rest again and again, however often it is woken: in redact
\* and audit mode its own rewrites do not feed it, even when what it writes is
\* detected again (_own, and the pid check on fanotify); in block mode no read is
\* left unanswered.
DaemonMovesOn == []<>(IF option = Blocking THEN reader = Gone ELSE AtRest)
=============================================================================
