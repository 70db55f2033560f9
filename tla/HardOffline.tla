---------------------------- MODULE HardOffline ----------------------------
(***************************************************************************)
(* netguard_hard: the two offline modes the kernel enforces, as functions *)
(* of what the platform and the kernel allow, and the seccomp program     *)
(* with the machine that runs it.                                          *)
(***************************************************************************)
EXTENDS Naturals, Sequences

\* What a process may meet: whether it is a POSIX system, the machine is in
\* the table, libc loads, and the kernel grants each request.
Platforms == [posix : BOOLEAN, inTable : BOOLEAN, libc : BOOLEAN, newnet : BOOLEAN,
              userns : BOOLEAN, noNewPrivs : BOOLEAN, seccomp : BOOLEAN, prctl : BOOLEAN]

\* The outcome, with the program the kernel now runs on every call of the
\* process and of those it starts.
Result(applied, mode, program) == [applied |-> applied, mode |-> mode, program |-> program]
NotApplied == Result(FALSE, "none", <<>>)

\* enable_network_namespace: with the privilege, or else in a user namespace.
NetworkNamespace(p) ==
    IF p.posix /\ p.libc /\ (p.newnet \/ p.userns)
    THEN Result(TRUE, "netns", <<>>)
    ELSE NotApplied

----------------------------------------------------------------------------
\* The system calls the program tells apart: the architecture it was made by,
\* its number, its first argument.
Arches == {"own", "other"}
Calls == [arch : Arches, nr : {"socket", "other"}, arg0 : {"INET", "INET6", "UNIX", "NETLINK"}]
IpSocketCalls == {c \in Calls : c.arch = "own" /\ c.nr = "socket"
                                 /\ c.arg0 \in {"INET", "INET6"}}

Load(field) == [op |-> "load", k |-> field, jt |-> 0, jf |-> 0]
JumpEq(k, jt, jf) == [op |-> "jeq", k |-> k, jt |-> jt, jf |-> jf]
Ret(action) == [op |-> "ret", k |-> action, jt |-> 0, jf |-> 0]

\* Mutant: the jump on AF_INET falls one short.
InetBlockFilter_ShortJump ==
    <<Load("arch"), JumpEq("own", 0, 6), Load("nr"), JumpEq("socket", 0, 4),
      Load("arg0"), JumpEq("INET", 0, 0), JumpEq("INET6", 0, 1), Ret("EACCES"), Ret("allow")>>

\* _build_inet_block_filter
InetBlockFilter ==
    <<Load("arch"), JumpEq("own", 0, 6),
      Load("nr"), JumpEq("socket", 0, 4),
      Load("arg0"), JumpEq("INET", 1, 0), JumpEq("INET6", 0, 1),
      Ret("EACCES"), Ret("allow")>>

\* The kernel's machine: the place in the program and an accumulator.  A return
\* is the end; jumps go forward.
Executed(program, call, m) ==
    LET i == program[m.pc] IN
    CASE i.op = "ret" -> m
      [] i.op = "load" -> [pc |-> m.pc + 1, acc |-> call[i.k]]
      [] i.op = "jeq" -> [pc |-> m.pc + 1 + (IF m.acc = i.k THEN i.jt ELSE i.jf), acc |-> m.acc]

ThreeSteps(program, call, m) ==
    Executed(program, call, Executed(program, call, Executed(program, call, m)))

\* So nine steps end a run of nine instructions, as many as the filter has.
Verdict(program, call) ==
    LET three(m) == ThreeSteps(program, call, m)
    IN  program[three(three(three([pc |-> 1, acc |-> "none"]))).pc].k

\* enable_seccomp_inet_block: seccomp(2), or else prctl.
SeccompInetBlock(p) ==
    IF p.posix /\ p.inTable /\ p.libc /\ p.noNewPrivs /\ (p.seccomp \/ p.prctl)
    THEN Result(TRUE, "seccomp", InetBlockFilter)
    ELSE NotApplied

HardModeResults == [applied : BOOLEAN, mode : {"none", "netns", "seccomp"},
                    program : {<<>>, InetBlockFilter}]

----------------------------------------------------------------------------
\* _apply_offline_hard: auto tries the namespace, then the filter.
ApplyOfflineHard(mode, p) ==
    CASE mode = "none" -> NotApplied
      [] mode = "seccomp" -> SeccompInetBlock(p)
      [] mode = "netns" -> NetworkNamespace(p)
      [] mode = "auto" -> IF NetworkNamespace(p).applied THEN NetworkNamespace(p)
                          ELSE SeccompInetBlock(p)

\* What becomes of a system call of the process or of one it starts.
Made(result, call) ==
    CASE result.mode = "none" -> "allow"
      [] result.mode = "netns" -> IF call.nr = "socket" THEN "unreachable" ELSE "allow"
      [] result.mode = "seccomp" -> Verdict(result.program, call)

\* A mode reported as applied leaves the process no way to an IP socket by the
\* calls of its own architecture and takes nothing else away; one that is not
\* applied, nor tried, takes nothing; and auto applies when either mode would.
HardModeContains(mode, p) ==
    LET r == ApplyOfflineHard(mode, p) IN
    /\ \A call \in Calls :
         IF r.applied /\ call \in IpSocketCalls THEN Made(r, call) # "allow"
         ELSE Made(r, call) = "allow" \/ r.mode = "netns"
    /\ mode = "auto" =>
         r.applied = (NetworkNamespace(p).applied \/ SeccompInetBlock(p).applied)
=============================================================================
