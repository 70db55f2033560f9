------------------------------ MODULE NetGuard ------------------------------
(***************************************************************************)
(* netguard: the offline guard replaces the connecting calls of Python's  *)
(* socket class by ones that raise for an address outside the machine.    *)
(* The module keeps the originals in globals, which also say whether the  *)
(* guard is installed, and takes no lock: threads of one process (sessions *)
(* of the page, callers of redact_tree) interleave between any two of its *)
(* statements.  The four calls are saved, replaced and put back together; *)
(* one stands for them.                                                    *)
(***************************************************************************)
CONSTANT Threads

VARIABLES
    use,        \* thread -> "install" (for good) or "enforced" (a block)
    step,       \* thread -> its step
    already,    \* thread -> whether the guard was there when its call began
    original,   \* _original_connect: "none", or what connect was
    connect,    \* socket.socket.connect: "real", "guarded" or None
    raced       \* a call has begun while another depended on the guard being
                \* absent (never read by the code)

netVars == <<use, step, already, original, connect, raced>>

NetInit ==
    /\ use \in [Threads -> {"install", "enforced"}]
    /\ step = [t \in Threads |-> "idle"]
    /\ already = [t \in Threads |-> FALSE]
    /\ original = "none" /\ connect = "real"
    /\ raced = FALSE

Moves(t, from, to) == step[t] = from /\ step' = [step EXCEPT ![t] = to]

IsInstalled == original # "none"

\* A call that began without the guard and is not through with it: it is
\* putting it up, or will take it away.
Pending(t) ==
    ~already[t] /\ step[t] \in {"checking", "saving", "patching", "restoring", "clearing"}
                             \cup IF use[t] = "enforced" THEN {"inside"} ELSE {}

\* enforced() asks whether the guard is there; install() is called at once.
Begin(t) ==
    /\ Moves(t, "idle", "checking")
    /\ already' = [already EXCEPT ![t] = IsInstalled]
    /\ raced' = (raced \/ \E u \in Threads \ {t} : Pending(u))
    /\ UNCHANGED <<use, original, connect>>

\* install: nothing to do when the originals are saved.
Check(t) ==
    /\ Moves(t, "checking", IF IsInstalled THEN "inside" ELSE "saving")
    /\ UNCHANGED <<use, already, original, connect, raced>>

Save(t) ==
    /\ Moves(t, "saving", "patching")
    /\ original' = connect
    /\ UNCHANGED <<use, already, connect, raced>>

Patch(t) ==
    /\ Moves(t, "patching", "inside")
    /\ connect' = "guarded"
    /\ UNCHANGED <<use, already, original, raced>>

\* Mutant: the block always takes the guard away.
LeaveGuard_Uninstalls(t) ==
    /\ use[t] = "enforced"
    /\ Moves(t, "inside", IF IsInstalled THEN "restoring" ELSE "done")
    /\ UNCHANGED <<use, already, original, connect, raced>>

\* The block ends or raises; uninstall unless the guard was there before.
LeaveGuard(t) ==
    /\ use[t] = "enforced"
    /\ Moves(t, "inside", IF ~already[t] /\ IsInstalled THEN "restoring" ELSE "done")
    /\ UNCHANGED <<use, already, original, connect, raced>>

Restore(t) ==
    /\ Moves(t, "restoring", "clearing")
    /\ connect' = original
    /\ UNCHANGED <<use, already, original, raced>>

Clear(t) ==
    /\ Moves(t, "clearing", "done")
    /\ original' = "none"
    /\ UNCHANGED <<use, already, connect, raced>>

NetNext == \E t \in Threads :
    Begin(t) \/ Check(t) \/ Save(t) \/ Patch(t) \/ LeaveGuard(t) \/ Restore(t) \/ Clear(t)

NetSpec == NetInit /\ [][NetNext]_netVars

----------------------------------------------------------------------------
\* Where an address points: a path of the file system, a loopback name or
\* number, or anything else.
Addresses == {"unix", "loopback", "remote"}
IsLocal(address) == address \in {"unix", "loopback"}

\* A call of connect: what the caller gets.  The guarded call ends in the saved
\* original, looked up when it runs; a method that is None cannot be called.
Outcome(address) ==
    IF connect = "real" THEN "made"
    ELSE IF connect = "none" THEN "fails"
    ELSE IF ~IsLocal(address) THEN "blocked"
    ELSE CASE original = "real" -> "made"
           [] original = "guarded" -> "never returns"
           [] OTHER -> "fails"

\* Inside an enforced() block, and for good after install(), nothing leaves the
\* machine while local connections work, and when every block is over and no
\* one installed the guard the socket class is the original again: as long as
\* no call begins while another one that found the guard absent is building it
\* or is going to take it away.
GuardKept ==
    ~raced =>
        /\ (\E t \in Threads : step[t] = "inside") =>
             /\ Outcome("remote") = "blocked"
             /\ \A address \in {"unix", "loopback"} : Outcome(address) = "made"
        /\ (\A t \in Threads : step[t] = "done") => connect = "real" /\ ~IsInstalled

\* Steps and flags are those of the code; the guard's globals hold the class's
\* original method, the guarded one or nothing.
NetTypeOK ==
    /\ use \in [Threads -> {"install", "enforced"}]
    /\ step \in [Threads -> {"idle", "checking", "saving", "patching", "inside", "restoring",
                            "clearing", "done"}]
    /\ already \in [Threads -> BOOLEAN] /\ raced \in BOOLEAN
    /\ original \in {"none", "real", "guarded"} /\ connect \in {"none", "real", "guarded"}

\* What the globals are when t, which found no guard, is at its step.
Built(t) ==
    CASE step[t] \in {"checking", "saving"} -> original = "none" /\ connect = "real"
      [] step[t] \in {"patching", "clearing"} -> original = "real" /\ connect = "real"
      [] OTHER -> original = "real" /\ connect = "guarded"

\* Why GuardKept, as long as no two calls have raced: one thread builds the
\* guard or takes it away, and no other is in a call; or it is there for good,
\* and every other call has found it; or no one has called.
GuardInv ==
    ~raced =>
        \/ \E t \in Threads :
             /\ Pending(t) /\ Built(t)
             /\ \A u \in Threads \ {t} : step[u] \in {"idle", "done"}
        \/ /\ original = "real" /\ connect = "guarded"
           /\ \E t \in Threads : use[t] = "install" /\ step[t] = "inside"
           /\ \A u \in Threads :
                /\ ~Pending(u)
                /\ step[u] \in {"idle", "checking", "inside", "done"}
        \/ /\ original = "none" /\ connect = "real"
           /\ \A u \in Threads : step[u] \in {"idle", "done"}

\* The inductive invariant.
NetInv == NetTypeOK /\ GuardInv
=============================================================================
