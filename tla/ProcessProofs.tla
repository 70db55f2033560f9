---------------------------- MODULE ProcessProofs ----------------------------
(***************************************************************************)
(* Proofs about the process around a redaction: the kernel's offline modes *)
(* on every platform (HardOffline), a run of the command from its arguments *)
(* to its exit status over any inputs (CommandRun), the admission under a  *)
(* memory limit for any request (MemoryBudget), and any number of tabs of  *)
(* one page server (PageSession).                                           *)
(***************************************************************************)
EXTENDS CommandRun, MemoryBudget, PageSession, FiniteSetTheorems, WellFoundedInduction, TLAPS

----------------------------------------------------------------------------
(* The kernel's offline modes.                                             *)

\* The nine instructions of the filter.
LEMMA FilterInstructions ==
    /\ InetBlockFilter[1] = Load("arch")
    /\ InetBlockFilter[2] = JumpEq("own", 0, 6)
    /\ InetBlockFilter[3] = Load("nr")
    /\ InetBlockFilter[4] = JumpEq("socket", 0, 4)
    /\ InetBlockFilter[5] = Load("arg0")
    /\ InetBlockFilter[6] = JumpEq("INET", 1, 0)
    /\ InetBlockFilter[7] = JumpEq("INET6", 0, 1)
    /\ InetBlockFilter[8] = Ret("EACCES")
    /\ InetBlockFilter[9] = Ret("allow")
  BY DEF InetBlockFilter

\* What the machine does at each kind of instruction.
LEMMA MachineStep ==
    ASSUME NEW program, NEW call, NEW pc, NEW acc
    PROVE  LET m == [pc |-> pc, acc |-> acc]
           IN  /\ \A k : program[pc] = Ret(k) => Executed(program, call, m) = m
               /\ \A k : program[pc] = Load(k) =>
                     Executed(program, call, m) = [pc |-> pc + 1, acc |-> call[k]]
               /\ \A k, jt, jf : program[pc] = JumpEq(k, jt, jf) =>
                     Executed(program, call, m) =
                        [pc |-> pc + 1 + (IF acc = k THEN jt ELSE jf), acc |-> acc]
<1> DEFINE m == [pc |-> pc, acc |-> acc]
<1>1. ASSUME NEW k, program[pc] = Ret(k) PROVE Executed(program, call, m) = m
  BY <1>1 DEF Executed, Ret
<1>2. ASSUME NEW k, program[pc] = Load(k)
      PROVE  Executed(program, call, m) = [pc |-> pc + 1, acc |-> call[k]]
  BY <1>2 DEF Executed, Load
<1>3. ASSUME NEW k, NEW jt, NEW jf, program[pc] = JumpEq(k, jt, jf)
      PROVE  Executed(program, call, m)
                = [pc |-> pc + 1 + (IF acc = k THEN jt ELSE jf), acc |-> acc]
  BY <1>3 DEF Executed, JumpEq
<1> QED
  BY <1>1, <1>2, <1>3

\* The filter turns away a process's own calls for an IP socket, and nothing
\* else.
LEMMA FilterVerdict ==
    ASSUME NEW call \in Calls
    PROVE  Verdict(InetBlockFilter, call)
              = IF call \in IpSocketCalls THEN "EACCES" ELSE "allow"
<1> DEFINE do(m) == Executed(InetBlockFilter, call, m)
           M(pc, acc) == [pc |-> pc, acc |-> acc]
           final(m) == do(do(do(do(do(do(do(do(do(m)))))))))
<1>1. Verdict(InetBlockFilter, call) = InetBlockFilter[final(M(1, "none")).pc].k
  BY DEF Verdict, ThreeSteps
<1>2. do(M(1, "none")) = M(2, call.arch)
  BY FilterInstructions, MachineStep
<1>3. \A acc : do(M(8, acc)) = M(8, acc) /\ do(M(9, acc)) = M(9, acc)
  BY FilterInstructions, MachineStep
<1>4. InetBlockFilter[8].k = "EACCES" /\ InetBlockFilter[9].k = "allow"
  BY FilterInstructions DEF Ret
<1> HIDE DEF do
<1>5. CASE call.arch # "own"
  <2>1. do(M(2, call.arch)) = M(9, call.arch)
    BY <1>5, FilterInstructions, MachineStep DEF do
  <2>2. final(M(1, "none")) = M(9, call.arch)
    BY <1>2, <1>3, <2>1
  <2> QED
    BY <1>1, <1>4, <1>5, <2>2 DEF IpSocketCalls
<1>6. CASE call.arch = "own"
  <2>1. do(M(2, call.arch)) = M(3, call.arch)
    BY <1>6, FilterInstructions, MachineStep DEF do
  <2>2. do(M(3, call.arch)) = M(4, call.nr)
    BY FilterInstructions, MachineStep DEF do
  <2>3. CASE call.nr # "socket"
    <3>1. do(M(4, call.nr)) = M(9, call.nr)
      BY <2>3, FilterInstructions, MachineStep DEF do
    <3>2. final(M(1, "none")) = M(9, call.nr)
      BY <1>2, <1>3, <2>1, <2>2, <3>1
    <3> QED
      BY <1>1, <1>4, <2>3, <3>2 DEF IpSocketCalls
  <2>4. CASE call.nr = "socket"
    <3>1. do(M(4, call.nr)) = M(5, call.nr)
      BY <2>4, FilterInstructions, MachineStep DEF do
    <3>2. do(M(5, call.nr)) = M(6, call.arg0)
      BY FilterInstructions, MachineStep DEF do
    <3>3. CASE call.arg0 = "INET"
      <4>1. do(M(6, call.arg0)) = M(8, call.arg0)
        BY <3>3, FilterInstructions, MachineStep DEF do
      <4>2. final(M(1, "none")) = M(8, call.arg0)
        BY <1>2, <1>3, <2>1, <2>2, <3>1, <3>2, <4>1
      <4> QED
        BY <1>1, <1>4, <1>6, <2>4, <3>3, <4>2 DEF IpSocketCalls
    <3>4. CASE call.arg0 # "INET"
      <4>1. do(M(6, call.arg0)) = M(7, call.arg0)
        BY <3>4, FilterInstructions, MachineStep DEF do
      <4>2. do(M(7, call.arg0)) = M(IF call.arg0 = "INET6" THEN 8 ELSE 9, call.arg0)
        BY FilterInstructions, MachineStep DEF do
      <4>3. final(M(1, "none")) = M(IF call.arg0 = "INET6" THEN 8 ELSE 9, call.arg0)
        BY <1>2, <1>3, <2>1, <2>2, <3>1, <3>2, <4>1, <4>2
      <4> QED
        BY <1>1, <1>4, <1>6, <2>4, <3>4, <4>3 DEF IpSocketCalls
    <3> QED
      BY <3>3, <3>4
  <2> QED
    BY <2>3, <2>4
<1> QED
  BY <1>5, <1>6

\* What a hard mode reports, on any platform.
LEMMA HardModeResult ==
    ASSUME NEW mode \in {"none", "seccomp", "netns", "auto"}, NEW p \in Platforms
    PROVE  /\ ApplyOfflineHard(mode, p) \in HardModeResults
           /\ ApplyOfflineHard(mode, p) \in
                {NotApplied, Result(TRUE, "netns", <<>>), Result(TRUE, "seccomp", InetBlockFilter)}
<1>1. NetworkNamespace(p) \in {NotApplied, Result(TRUE, "netns", <<>>)}
  BY DEF NetworkNamespace
<1>2. SeccompInetBlock(p) \in {NotApplied, Result(TRUE, "seccomp", InetBlockFilter)}
  BY DEF SeccompInetBlock
<1>3. ApplyOfflineHard(mode, p) \in {NotApplied, NetworkNamespace(p), SeccompInetBlock(p)}
  BY DEF ApplyOfflineHard
<1>4. ApplyOfflineHard(mode, p) \in
        {NotApplied, Result(TRUE, "netns", <<>>), Result(TRUE, "seccomp", InetBlockFilter)}
  BY <1>1, <1>2, <1>3
<1>5. /\ NotApplied \in HardModeResults
      /\ Result(TRUE, "netns", <<>>) \in HardModeResults
      /\ Result(TRUE, "seccomp", InetBlockFilter) \in HardModeResults
  <2> HIDE DEF InetBlockFilter
  <2> QED
    BY SMT DEF NotApplied, Result, HardModeResults
<1> QED
  BY <1>4, <1>5

\* On every platform and in every mode: an offline mode that is reported as
\* applied leaves a process no IP socket, one that is not takes nothing away,
\* and auto applies when either mode would (netguard_hard.py with
\* cli._apply_offline_hard).
THEOREM HardModesContain ==
    ASSUME NEW mode \in {"none", "seccomp", "netns", "auto"}, NEW p \in Platforms
    PROVE  HardModeContains(mode, p)
<1> DEFINE r == ApplyOfflineHard(mode, p)
<1>1. r \in {NotApplied, Result(TRUE, "netns", <<>>), Result(TRUE, "seccomp", InetBlockFilter)}
  BY HardModeResult
<1>2. ASSUME NEW call \in Calls
      PROVE  IF r.applied /\ call \in IpSocketCalls THEN Made(r, call) # "allow"
             ELSE Made(r, call) = "allow" \/ r.mode = "netns"
  <2> HIDE DEF r
  <2>1. CASE r = NotApplied
    BY <2>1 DEF NotApplied, Result, Made
  <2>2. CASE r = Result(TRUE, "netns", <<>>)
    BY <2>2 DEF Result, Made, IpSocketCalls
  <2>3. CASE r = Result(TRUE, "seccomp", InetBlockFilter)
    <3>1. Made(r, call) = Verdict(InetBlockFilter, call)
      BY <2>3 DEF Result, Made
    <3> QED
      BY <2>3, <3>1, FilterVerdict DEF Result
  <2> QED
    BY <1>1, <2>1, <2>2, <2>3
<1>3. mode = "auto" =>
        r.applied = (NetworkNamespace(p).applied \/ SeccompInetBlock(p).applied)
  BY DEF ApplyOfflineHard, NetworkNamespace, SeccompInetBlock, NotApplied, Result
<1> QED
  BY <1>2, <1>3 DEF HardModeContains

----------------------------------------------------------------------------
(* One run of the command.                                                 *)

\* What the arguments of each command carry.
LEMMA ArgumentTypes ==
    ASSUME args \in Arguments
    PROVE  /\ Contained => /\ args.offline_guard \in BOOLEAN
                           /\ args.offline_hard \in {"none", "auto"}
           /\ args.command = "redact" => args \in RedactArgs /\ args.report \in BOOLEAN
           /\ args.command \in {"redact", "detect", "deanonymize", "init-config", "serve",
                                "mcp-serve", "fanotify", "ui"}
<1>1. CASE args \in RedactArgs
  BY <1>1 DEF RedactArgs, Contained
<1>2. CASE args \in DetectArgs
  BY <1>2 DEF DetectArgs, Contained
<1>3. CASE args \in DeanonymizeArgs
  BY <1>3 DEF DeanonymizeArgs, Contained
<1>4. CASE args \in InitConfigArgs
  BY <1>4 DEF InitConfigArgs, Contained
<1>5. CASE args \in ServerArgs
  BY <1>5 DEF ServerArgs, Contained
<1>6. CASE args \in UiArgs
  BY <1>6 DEF UiArgs, Contained
<1> QED
  BY <1>1, <1>2, <1>3, <1>4, <1>5, <1>6 DEF Arguments

\* The next file is the first of those ahead; once it is read, the rest is.
LEMMA CurrentIsFirst ==
    ASSUME CommandTypeOK, Ahead # {}
    PROVE  /\ Current \in Ahead /\ \A i \in Ahead : Current <= i
           /\ Current \in Nat /\ Current > next
           /\ {i \in Todo : i > Current} = Ahead \ {Current}
<1>1. Ahead \subseteq Nat
  BY DEF Ahead, Todo, CommandTypeOK
<1>2. \E i \in Ahead : \A j \in Ahead : i <= j
  <2>1. PICK i \in Ahead : \A j \in Ahead : <<j, i>> \notin OpToRel(<, Nat)
    BY <1>1, NatLessThanWellFounded, WFMin
  <2>2. ASSUME NEW j \in Ahead PROVE i <= j
    <3>1. i \in Nat /\ j \in Nat
      BY <1>1
    <3>2. ~(j < i)
      BY <2>1, <3>1 DEF OpToRel
    <3> QED
      BY <3>1, <3>2
  <2> QED
    BY <2>1, <2>2
<1>3. Current \in Ahead /\ \A i \in Ahead : Current <= i
  BY <1>2, Zenon DEF Current
<1>4. next \in Nat
  BY DEF CommandTypeOK
<1>5. {i \in Todo : i > Current} = Ahead \ {Current}
  <2> HIDE DEF Current
  <2>1. \A i \in Todo : i \in Nat
    BY DEF Todo, CommandTypeOK
  <2> QED
    BY <1>1, <1>3, <1>4, <2>1 DEF Ahead
<1> HIDE DEF Current
<1> QED
  BY <1>1, <1>3, <1>4, <1>5 DEF Ahead

\* A step changes nothing that the arguments and the inputs decide.
LEMMA CommandStepKeeps ==
    ASSUME CommandNext
    PROVE  /\ UNCHANGED <<args, inputs, kernel>>
           /\ UNCHANGED <<Contained, OneInput, Todo, ToStdout, InWorkers, Buildable, Admits>>
<1>1. UNCHANGED <<args, inputs, kernel>>
  BY Zenon DEF CommandNext, Guard, Harden, Admitted, NotAdmitted, StartWorker, InitializeWorker,
            NoDirectory, WorkHere, OpenInput, CloseInput, WorkFails, WriteReport, ReportFails,
            CommandEnds, Deanonymize, InitConfig, Serve, Ui, Stop
<1> QED
  BY <1>1 DEF Contained, OneInput, Todo, ToStdout, InWorkers, Workers, Wanted, Buildable, Admits

\* The run over: this process has no input open, and no worker.
LEMMA ExitTypes ==
    ASSUME CommandTypeOK, NEW status \in {0, 1, 2, 3}, Exit(status)
    PROVE  /\ exit' = status /\ exit = StillRunning /\ phase' = "over"
           /\ main' \in Processes /\ ~main'.reading
           /\ worker' \in Processes /\ ~worker'.reading
<1>1. NoProcess \in Processes /\ ~NoProcess.reading
  BY DEF NoProcess, Processes, HardModeResults, NotApplied, Result
<1>2. main \in Processes
  BY DEF CommandTypeOK
<1>3. [main EXCEPT !.reading = FALSE] \in Processes
  BY <1>2 DEF Processes
<1> QED
  BY <1>1, <1>2, <1>3 DEF Exit, Processes

LEMMA CommandStepTypes ==
    ASSUME CommandTypeOK, StepsInv, ProgressInv, CommandNext
    PROVE  CommandTypeOK'
<1> DEFINE Phases == {"guard", "hard", "build", "work", "initialize", "read", "stream", "command",
                      "serving", "over"}
           Outputs == [replaced : SUBSET Nat, stdout : {"nothing", "part", "all"}]
           Exits == {StillRunning, 0, 1, 2, 3}
<1>1. UNCHANGED <<args, inputs, kernel>>
  BY CommandStepKeeps
<1>2. /\ main \in Processes /\ worker \in Processes /\ output \in Outputs
      /\ next \in Nat /\ hits \in Nat /\ report \in BOOLEAN /\ exit \in Exits /\ phase \in Phases
  BY DEF CommandTypeOK
<1>3. SUFFICES /\ main' \in Processes /\ worker' \in Processes /\ output' \in Outputs
               /\ next' \in Nat /\ hits' \in Nat /\ report' \in BOOLEAN /\ exit' \in Exits
               /\ phase' \in Phases
  BY <1>1 DEF CommandTypeOK
<1>4. \A o \in Outputs, x \in SUBSET Nat :
        /\ [o EXCEPT !.replaced = x] \in Outputs
        /\ [o EXCEPT !.stdout = "part"] \in Outputs
        /\ [o EXCEPT !.stdout = "all"] \in Outputs
  OBVIOUS
<1>5. \A o \in Outputs : o.replaced \subseteq Nat
                         /\ o.stdout \in {"nothing", "part", "all"}
  OBVIOUS
<1>6. \A p \in Processes, b \in BOOLEAN :
        [p EXCEPT !.reading = b] \in Processes /\ [p EXCEPT !.guarded = b] \in Processes
  BY DEF Processes
<1>7. CASE Guard
  <2>1. args.offline_guard \in BOOLEAN
    BY <1>7, ArgumentTypes DEF Guard, Step, StepsInv, CommandTypeOK
  <2> QED
    BY <1>2, <1>6, <1>7, <2>1 DEF Guard, Step
<1>8. CASE Harden
  <2>1. ApplyOfflineHard(args.offline_hard, kernel) \in HardModeResults
    BY <1>8, ArgumentTypes, HardModeResult DEF Harden, Step, StepsInv, CommandTypeOK
  <2>2. main' \in Processes
    BY <1>2, <1>8, <2>1 DEF Harden, Processes
  <2> QED
    BY <1>2, <1>8, <2>2 DEF Harden, Step
<1>9. CASE Admitted
  <2>1. PICK capped \in {"no", "limit"} : main' = [main EXCEPT !.capped = capped]
    BY <1>9 DEF Admitted
  <2>2. main' \in Processes
    BY <1>2, <2>1 DEF Processes
  <2> QED
    BY <1>2, <1>9, <2>2 DEF Admitted, Step
<1>10. CASE NotAdmitted
  BY <1>2, <1>10, ExitTypes DEF NotAdmitted
<1>11. CASE StartWorker
  <2>1. PICK forked \in BOOLEAN : worker' = [main EXCEPT !.guarded = @ /\ forked]
    BY <1>11 DEF StartWorker
  <2>2. (main.guarded /\ forked) \in BOOLEAN
    OBVIOUS
  <2>3. worker' \in Processes
    BY <1>2, <1>6, <2>1, <2>2, Zenon
  <2> QED
    BY <1>2, <1>11, <2>3 DEF StartWorker, Step
<1>12. CASE InitializeWorker
  <2>1. \A p \in Processes, b \in BOOLEAN, c \in {"no", "limit", "share"} :
          [p EXCEPT !.guarded = b, !.capped = c] \in Processes
    BY DEF Processes
  <2>2. worker.capped \in {"no", "limit", "share"}
    BY <1>2 DEF Processes
  <2>3. worker' \in Processes
    BY <1>2, <1>12, <2>1, <2>2 DEF InitializeWorker
  <2> QED
    BY <1>2, <1>12, <2>3 DEF InitializeWorker, Step
<1>13. CASE NoDirectory
  BY <1>2, <1>13, ExitTypes DEF NoDirectory
<1>14. CASE WorkHere
  BY <1>2, <1>14 DEF WorkHere, Step
<1>15. CASE OpenInput
  <2>1. main' \in Processes /\ worker' \in Processes
    BY <1>2, <1>6, <1>15 DEF OpenInput
  <2>2. output' = [output EXCEPT !.stdout = IF ToStdout THEN "part" ELSE @]
    BY <1>15 DEF OpenInput
  <2>3. output' \in Outputs
    BY <1>2, <2>2
  <2> QED
    BY <1>2, <1>15, <2>1, <2>3 DEF OpenInput
<1>16. CASE CloseInput
  <2>1. Current \in Nat
    BY <1>16, CurrentIsFirst DEF CloseInput, Step, ProgressInv
  <2>2. output' = [output EXCEPT !.replaced = IF args.command = "detect" \/ ToStdout THEN @
                                              ELSE @ \cup {Current}]
    BY <1>16 DEF CloseInput
  <2> HIDE DEF Current
  <2>3. output' \in Outputs
    BY <1>2, <2>1, <2>2
  <2>4. main' \in Processes /\ worker' \in Processes
    BY <1>2, <1>6, <1>16 DEF CloseInput
  <2>5. hits' \in Nat
    BY <1>2, <1>16 DEF CloseInput
  <2> QED
    BY <1>2, <1>16, <2>1, <2>3, <2>4, <2>5 DEF CloseInput, Step
<1>17. CASE WorkFails
  <2>1. Ahead \subseteq Nat
    BY DEF Ahead, Todo, CommandTypeOK
  <2>2. PICK others \in SUBSET Ahead : output' = [output EXCEPT !.replaced = @ \cup others]
    <3> HIDE DEF Current
    <3> QED
      BY <1>17 DEF WorkFails
  <2>3. output' \in Outputs
    BY <1>2, <2>1, <2>2
  <2>4. (\E status \in {1, 3} : Exit(status))
    BY <1>17 DEF WorkFails
  <2> QED
    BY <1>2, <1>17, <2>3, <2>4, ExitTypes DEF WorkFails
<1>18. CASE WriteReport
  BY <1>2, <1>18 DEF WriteReport
<1>19. CASE ReportFails
  BY <1>2, <1>4, <1>5, <1>19, ExitTypes DEF ReportFails
<1>20. CASE CommandEnds
  BY <1>2, <1>4, <1>5, <1>20, ExitTypes DEF CommandEnds, DetectStatus
<1>21. CASE Deanonymize
  BY <1>2, <1>21, ExitTypes DEF Deanonymize, Step
<1>22. CASE InitConfig
  BY <1>2, <1>4, <1>5, <1>22, ExitTypes DEF InitConfig
<1>23. CASE Serve
  <2>1. CASE \E status \in {1, 2} : Exit(status)
    BY <1>2, <1>23, <2>1, ExitTypes DEF Serve
  <2>2. CASE /\ Step("command", "serving") /\ UNCHANGED <<worker, exit>>
             /\ main' = [main EXCEPT !.reading = TRUE, !.guarded = args.command # "serve"]
    <3>1. (args.command # "serve") \in BOOLEAN
      OBVIOUS
    <3>2. \A p \in Processes, b \in BOOLEAN : [p EXCEPT !.reading = TRUE, !.guarded = b] \in Processes
      BY DEF Processes
    <3>3. main' \in Processes
      BY <1>2, <2>2, <3>1, <3>2, Zenon
    <3> QED
      BY <1>2, <1>23, <2>2, <3>3 DEF Serve, Step
  <2> QED
    BY <1>23, <2>1, <2>2 DEF Serve
<1>24. CASE Ui
  BY <1>2, <1>24, ExitTypes DEF Ui
<1>25. CASE Stop
  BY <1>2, <1>25, ExitTypes DEF Stop
<1> QED
  BY <1>7, <1>8, <1>9, <1>10, <1>11, <1>12, <1>13, <1>14, <1>15, <1>16, <1>17, <1>18, <1>19,
     <1>20, <1>21, <1>22, <1>23, <1>24, <1>25 DEF CommandNext

\* The steps follow one another as StepsInv says, and no process is left with an
\* input open.
LEMMA CommandStepSteps ==
    ASSUME CommandTypeOK, StepsInv, CommandNext
    PROVE  StepsInv'
<1>1. UNCHANGED <<args, Contained, InWorkers>>
  BY CommandStepKeeps
<1>2. main \in Processes /\ worker \in Processes
  BY DEF CommandTypeOK
<1>3. \A p \in Processes, b \in BOOLEAN : [p EXCEPT !.reading = b].reading = b
  BY DEF Processes
<1>4. ASSUME NEW status \in {0, 1, 2, 3}, Exit(status) PROVE StepsInv'
  BY <1>1, <1>4, ExitTypes DEF StepsInv, StillRunning
<1>5. CASE Guard
  BY <1>1, <1>2, <1>5 DEF Guard, Step, StepsInv, Processes
<1>6. CASE Harden
  BY <1>1, <1>2, <1>6 DEF Harden, Step, StepsInv, Processes
<1>7. CASE Admitted
  BY <1>1, <1>2, <1>7 DEF Admitted, Step, StepsInv, Processes, Contained
<1>8. CASE NotAdmitted
  BY <1>4, <1>8 DEF NotAdmitted
<1>9. CASE StartWorker
  BY <1>1, <1>2, <1>9 DEF StartWorker, Step, StepsInv, Processes
<1>10. CASE InitializeWorker
  BY <1>1, <1>2, <1>10 DEF InitializeWorker, Step, StepsInv, Processes, Contained
<1>11. CASE NoDirectory
  BY <1>4, <1>11 DEF NoDirectory
<1>12. CASE WorkHere
  BY <1>1, <1>2, <1>12 DEF WorkHere, Step, StepsInv, Contained
<1>13. CASE OpenInput
  BY <1>1, <1>2, <1>3, <1>13 DEF OpenInput, StepsInv
<1>14. CASE CloseInput
  BY <1>1, <1>2, <1>3, <1>14 DEF CloseInput, Step, StepsInv
<1>15. CASE WorkFails
  <2>1. \E status \in {1, 3} : Exit(status)
    BY <1>15 DEF WorkFails
  <2> QED
    BY <1>4, <2>1
<1>16. CASE WriteReport
  BY <1>1, <1>16 DEF WriteReport, StepsInv
<1>17. CASE ReportFails
  BY <1>4, <1>17 DEF ReportFails
<1>18. CASE CommandEnds
  <2>1. \E status \in {0, 1} : Exit(status)
    BY <1>18 DEF CommandEnds, DetectStatus
  <2> QED
    BY <1>4, <2>1
<1>19. CASE Deanonymize
  BY <1>1, <1>4, <1>19 DEF Deanonymize, Step, StepsInv, InWorkers
<1>20. CASE InitConfig
  <2>1. \E status \in {0, 1} : Exit(status)
    BY <1>20 DEF InitConfig
  <2> QED
    BY <1>4, <2>1
<1>21. CASE Serve
  <2>1. CASE \E status \in {1, 2} : Exit(status)
    BY <1>4, <2>1
  <2>2. CASE Step("command", "serving") /\ UNCHANGED <<worker, exit>>
    BY <1>1, <1>21, <2>2 DEF Serve, Step, StepsInv
  <2> QED
    BY <1>21, <2>1, <2>2 DEF Serve
<1>22. CASE Ui
  BY <1>4, <1>22 DEF Ui
<1>23. CASE Stop
  BY <1>4, <1>23 DEF Stop
<1> QED
  BY <1>5, <1>6, <1>7, <1>8, <1>9, <1>10, <1>11, <1>12, <1>13, <1>14, <1>15, <1>16, <1>17, <1>18,
     <1>19, <1>20, <1>21, <1>22, <1>23 DEF CommandNext

\* Containment is put up before the work and handed to every worker.
LEMMA CommandStepContain ==
    ASSUME CommandTypeOK, StepsInv, ContainInv, CommandNext
    PROVE  ContainInv'
<1>1. UNCHANGED <<args, kernel, Contained, InWorkers, Buildable, Admits>>
  BY CommandStepKeeps
<1>2. main \in Processes /\ worker \in Processes
  BY DEF CommandTypeOK
<1>3. \A p \in Processes, b \in BOOLEAN :
        LET q == [p EXCEPT !.reading = b]
        IN  q.guarded = p.guarded /\ q.hard = p.hard /\ q.capped = p.capped
  BY DEF Processes
<1>4. ASSUME NEW status, Exit(status) PROVE ContainInv'
  BY <1>4 DEF ContainInv, Exit
<1>5. CASE Guard
  BY <1>1, <1>2, <1>5 DEF Guard, Step, ContainInv, Processes
<1>6. CASE Harden
  BY <1>1, <1>2, <1>6 DEF Harden, Step, ContainInv, Processes
<1>7. CASE Admitted
  BY <1>1, <1>2, <1>7 DEF Admitted, Step, ContainInv, Processes
<1>8. CASE NotAdmitted
  BY <1>4, <1>8 DEF NotAdmitted
<1>9. CASE StartWorker
  BY <1>1, <1>2, <1>9 DEF StartWorker, Step, ContainInv, Processes
<1>10. CASE InitializeWorker
  BY <1>1, <1>2, <1>10 DEF InitializeWorker, Step, ContainInv, Processes
<1>11. CASE NoDirectory
  BY <1>4, <1>11 DEF NoDirectory
<1>12. CASE WorkHere
  BY <1>1, <1>2, <1>12 DEF WorkHere, Step, ContainInv
<1>13. CASE OpenInput
  BY <1>1, <1>2, <1>3, <1>13 DEF OpenInput, ContainInv
<1>14. CASE CloseInput
  BY <1>1, <1>2, <1>3, <1>14 DEF CloseInput, Step, ContainInv
<1>15. CASE WorkFails
  BY <1>4, <1>15 DEF WorkFails
<1>16. CASE WriteReport
  BY <1>1, <1>16 DEF WriteReport, ContainInv
<1>17. CASE ReportFails
  BY <1>4, <1>17 DEF ReportFails
<1>18. CASE CommandEnds
  <2>1. \E status : Exit(status)
    BY <1>18 DEF CommandEnds
  <2> QED
    BY <1>4, <2>1
<1>19. CASE Deanonymize
  <2>1. ~Contained
    BY <1>19 DEF Deanonymize, Contained
  <2> QED
    BY <1>1, <1>4, <1>19, <2>1 DEF Deanonymize, Step, ContainInv
<1>20. CASE InitConfig
  BY <1>4, <1>20 DEF InitConfig
<1>21. CASE Serve
  <2>1. ~Contained
    BY <1>21 DEF Serve, Contained
  <2>2. CASE \E status : Exit(status)
    BY <1>4, <2>2
  <2>3. CASE /\ Step("command", "serving")
             /\ main' = [main EXCEPT !.reading = TRUE, !.guarded = args.command # "serve"]
    <3>1. main'.guarded = (args.command # "serve")
      BY <1>2, <2>3 DEF Processes
    <3> QED
      BY <1>1, <2>1, <2>3, <3>1 DEF Step, ContainInv
  <2> QED
    BY <1>21, <2>2, <2>3 DEF Serve
<1>22. CASE Ui
  BY <1>4, <1>22 DEF Ui
<1>23. CASE Stop
  BY <1>4, <1>23 DEF Stop
<1> QED
  BY <1>5, <1>6, <1>7, <1>8, <1>9, <1>10, <1>11, <1>12, <1>13, <1>14, <1>15, <1>16, <1>17, <1>18,
     <1>19, <1>20, <1>21, <1>22, <1>23 DEF CommandNext

\* What has been read, counted and replaced stays told by how far the run is.
LEMMA CommandStepProgress ==
    ASSUME CommandTypeOK, StepsInv, ProgressInv, CommandNext
    PROVE  ProgressInv'
<1>1. UNCHANGED <<args, inputs, OneInput, Todo, ToStdout>>
  BY CommandStepKeeps
<1>2. (UNCHANGED next) => UNCHANGED <<Ahead, Behind, Current>>
  BY <1>1 DEF Ahead, Behind, Current
<1>3. ASSUME NEW status, Exit(status) PROVE ProgressInv'
  BY <1>1, <1>3 DEF ProgressInv, Exit
<1>4. Todo \subseteq Nat \ {0}
  BY DEF Todo, CommandTypeOK
<1>5. next = 0 => Ahead = Todo /\ Behind = {}
  <2>1. \A i \in Todo : i > 0
    BY <1>4
  <2> QED
    BY <2>1 DEF Ahead, Behind
\* A step before the files, or to them.
<1>6. ASSUME UNCHANGED <<next, hits, output, report>>, phase \notin {"read", "stream", "over"},
             phase' # "stream"
      PROVE  ProgressInv'
  BY <1>1, <1>2, <1>5, <1>6 DEF ProgressInv
<1>7. CASE Guard
  BY <1>6, <1>7 DEF Guard, Step
<1>8. CASE Harden
  BY <1>6, <1>8 DEF Harden, Step
<1>9. CASE Admitted
  BY <1>6, <1>9 DEF Admitted, Step
<1>10. CASE NotAdmitted
  BY <1>3, <1>10 DEF NotAdmitted
<1>11. CASE StartWorker
  BY <1>6, <1>11 DEF StartWorker, Step
<1>12. CASE InitializeWorker
  BY <1>6, <1>12 DEF InitializeWorker, Step
<1>13. CASE NoDirectory
  BY <1>3, <1>13 DEF NoDirectory
<1>14. CASE WorkHere
  BY <1>6, <1>14 DEF WorkHere, Step
<1>15. CASE OpenInput
  <2>1. output'.replaced = output.replaced
    BY <1>15 DEF OpenInput, CommandTypeOK
  <2>2. UNCHANGED <<next, hits, report, Ahead, Behind, Current>>
    BY <1>2, <1>15 DEF OpenInput
  <2> QED
    BY <1>1, <1>15, <2>1, <2>2 DEF OpenInput, ProgressInv
<1>16. CASE CloseInput
  <2>1. Ahead # {} /\ inputs[Current].readable /\ phase = "stream" /\ phase' = "read"
    BY <1>16 DEF CloseInput, Step, ProgressInv
  <2>2. PICK file \in Ahead : file = Current
    BY <2>1, CurrentIsFirst
  <2>3. Ahead' = Ahead \ {file} /\ Behind' = Behind \cup {file}
    <3>1. Ahead' = {i \in Todo : i > Current}
      BY <1>1, <1>16 DEF Ahead, CloseInput
    <3> QED
      BY <1>1, <2>1, <2>2, <3>1, CurrentIsFirst DEF Behind, Ahead
  <2>4. /\ hits' = hits + (IF inputs[file].hit THEN 1 ELSE 0)
        /\ output'.replaced = IF args.command = "detect" \/ ToStdout THEN output.replaced
                              ELSE output.replaced \cup {file}
        /\ report' = report
    <3> HIDE DEF Current
    <3> QED
      BY <1>16, <2>2 DEF CloseInput, CommandTypeOK
  <2>5. \A i \in Behind' : inputs[i].readable
    BY <2>1, <2>2, <2>3 DEF ProgressInv
  <2>6. hits' = 0 <=> \A i \in Behind' : ~inputs[i].hit
    <3>1. hits = 0 <=> \A i \in Behind : ~inputs[i].hit
      BY <2>1 DEF ProgressInv
    <3>2. hits' = 0 <=> hits = 0 /\ ~inputs[file].hit
      BY <2>4 DEF CommandTypeOK
    <3> QED
      BY <2>3, <3>1, <3>2
  <2>7. output'.replaced = IF args.command = "detect" \/ ToStdout THEN {} ELSE Behind'
    BY <2>1, <2>3, <2>4 DEF ProgressInv
  <2>8. ~report'
    BY <2>1, <2>4 DEF ProgressInv
  <2>9. OneInput => inputs # <<>>
    BY DEF ProgressInv
  <2> QED
    BY <1>1, <2>1, <2>5, <2>6, <2>7, <2>8, <2>9 DEF ProgressInv
<1>17. CASE WorkFails
  BY <1>3, <1>17 DEF WorkFails
<1>18. CASE WriteReport
  BY <1>1, <1>2, <1>18 DEF WriteReport, Finished, ProgressInv
<1>19. CASE ReportFails
  BY <1>3, <1>19 DEF ReportFails
<1>20. CASE CommandEnds
  <2>1. \E status : Exit(status)
    BY <1>20 DEF CommandEnds
  <2> QED
    BY <1>3, <2>1
<1>21. CASE Deanonymize
  <2>1. CASE Exit(1)
    BY <1>3, <2>1
  <2>2. CASE Step("command", "read")
    BY <1>6, <1>21, <2>2 DEF Deanonymize, Step
  <2> QED
    BY <1>21, <2>1, <2>2 DEF Deanonymize
<1>22. CASE InitConfig
  BY <1>3, <1>22 DEF InitConfig
<1>23. CASE Serve
  <2>1. CASE \E status : Exit(status)
    BY <1>3, <2>1
  <2>2. CASE Step("command", "serving")
    BY <1>6, <1>23, <2>2 DEF Serve, Step
  <2> QED
    BY <1>23, <2>1, <2>2 DEF Serve
<1>24. CASE Ui
  BY <1>3, <1>24 DEF Ui
<1>25. CASE Stop
  BY <1>3, <1>25 DEF Stop
<1> QED
  BY <1>7, <1>8, <1>9, <1>10, <1>11, <1>12, <1>13, <1>14, <1>15, <1>16, <1>17, <1>18, <1>19,
     <1>20, <1>21, <1>22, <1>23, <1>24, <1>25 DEF CommandNext

\* The status a run ends with is true of what it has done.
LEMMA CommandStepStatus ==
    ASSUME CommandTypeOK, StepsInv, ProgressInv, ExitTruthful, CommandNext
    PROVE  ExitTruthful'
<1>1. UNCHANGED <<args, inputs, Contained, OneInput, Todo, ToStdout>>
  BY CommandStepKeeps
<1>2. (UNCHANGED next) => UNCHANGED Ahead
  BY <1>1 DEF Ahead
\* The run goes on.
<1>3. ASSUME UNCHANGED exit, phase # "over" PROVE ExitTruthful'
  BY <1>3 DEF ExitTruthful, StepsInv, StillRunning
\* It fails, leaving its output alone.
<1>4. ASSUME NEW status \in {1, 2, 3}, Exit(status), status = 3 => Contained,
             args.command = "redact" /\ args.input # "directory" => output'.replaced = {}
      PROVE  ExitTruthful'
  BY <1>1, <1>4 DEF ExitTruthful, Exit
\* A command that reads no input ends.
<1>5. ASSUME NEW status \in {0, 1, 2}, Exit(status),
             args.command \notin {"redact", "detect", "deanonymize"}
      PROVE  ExitTruthful'
  BY <1>1, <1>5 DEF ExitTruthful, Exit
<1>6. CASE Guard
  BY <1>3, <1>6 DEF Guard, Step
<1>7. CASE Harden
  BY <1>3, <1>7 DEF Harden, Step
<1>8. CASE Admitted
  BY <1>3, <1>8 DEF Admitted, Step
<1>9. CASE NotAdmitted
  BY <1>4, <1>9 DEF NotAdmitted, ProgressInv, StepsInv
<1>10. CASE StartWorker
  BY <1>3, <1>10 DEF StartWorker, Step
<1>11. CASE InitializeWorker
  BY <1>3, <1>11 DEF InitializeWorker, Step
<1>12. CASE NoDirectory
  BY <1>4, <1>12 DEF NoDirectory
<1>13. CASE WorkHere
  BY <1>3, <1>13 DEF WorkHere, Step
<1>14. CASE OpenInput
  BY <1>3, <1>14 DEF OpenInput
<1>15. CASE CloseInput
  BY <1>3, <1>15 DEF CloseInput, Step
<1>16. CASE WorkFails
  <2>1. PICK status \in {1, 3} : Exit(status) /\ (status = 3 => Contained)
    BY <1>16 DEF WorkFails
  <2>2. phase \in {"read", "stream"} /\ Ahead # {}
    BY <1>16 DEF WorkFails, ProgressInv
  <2>3. ASSUME args.command = "redact", args.input # "directory" PROVE output'.replaced = {}
    <3>1. output'.replaced = output.replaced
      <4> HIDE DEF Current
      <4> QED
        BY <1>16, <2>3 DEF WorkFails, CommandTypeOK
    <3>2. Todo \subseteq {1}
      BY <2>3 DEF Todo, OneInput
    <3>3. Behind = {}
      BY <2>2, <3>2 DEF Behind, Ahead
    <3> QED
      BY <2>2, <3>1, <3>3 DEF ProgressInv
  <2> QED
    BY <1>4, <2>1, <2>3
<1>17. CASE WriteReport
  BY <1>3, <1>17 DEF WriteReport, Finished
<1>18. CASE ReportFails
  <2>1. Exit(1) /\ Ahead = {} /\ args.report /\ ~report /\ UNCHANGED <<next, report>>
    BY <1>18 DEF ReportFails, Finished
  <2> QED
    BY <1>1, <1>2, <2>1 DEF ExitTruthful, Exit
<1>19. CASE CommandEnds
  <2>1. phase = "read" /\ Ahead = {} /\ Behind = Todo /\ UNCHANGED <<next, report>> /\ Ahead' = {}
    BY <1>2, <1>19 DEF CommandEnds, Finished, Behind
  <2>2. /\ \A i \in Todo : inputs[i].readable
        /\ hits = 0 <=> \A i \in Todo : ~inputs[i].hit
        /\ output.replaced = IF args.command = "detect" \/ ToStdout THEN {} ELSE Todo
        /\ report => args.command = "redact" /\ args.report
    BY <2>1 DEF ProgressInv
  <2>3. args.command \in {"redact", "detect", "deanonymize"}
    BY <2>1 DEF StepsInv
  <2>4. output' = [output EXCEPT !.stdout = IF ToStdout THEN "all" ELSE @]
    BY <1>19 DEF CommandEnds
  <2>5. output'.replaced = output.replaced /\ (ToStdout => output'.stdout = "all")
    BY <2>4 DEF CommandTypeOK
  <2>6. CASE args.command = "redact"
    <3>1. Exit(0) /\ (args.report => report)
      BY <1>19, <2>6 DEF CommandEnds
    <3>2. report' = args.report
      BY <2>1, <2>2, <2>6, <3>1, ArgumentTypes DEF CommandTypeOK
    <3> QED
      BY <1>1, <2>1, <2>2, <2>5, <2>6, <3>1, <3>2 DEF ExitTruthful, Exit
  <2>7. CASE args.command = "detect"
    <3>1. Exit(DetectStatus)
      BY <1>19, <2>7 DEF CommandEnds
    <3>2. DetectStatus \in {0, 1}
          /\ (DetectStatus = 0 /\ args.fail_on_detect => hits = 0)
      BY DEF DetectStatus, CommandTypeOK
    <3>3. Todo = {i \in DOMAIN inputs : Wanted(inputs[i])}
      BY <2>7 DEF Todo, OneInput
    <3>4. \A f : Wanted(f)' <=> Wanted(f)
      BY <1>1 DEF Wanted
    <3>5. DetectStatus = 0 /\ args.fail_on_detect =>
            \A i \in DOMAIN inputs : Wanted(inputs[i])' => ~inputs[i].hit
      BY <1>1, <2>2, <3>2, <3>3, <3>4
    <3> QED
      BY <1>1, <2>1, <2>2, <2>7, <3>1, <3>2, <3>5 DEF ExitTruthful, Exit
  <2>8. CASE args.command = "deanonymize"
    <3>1. PICK status \in {0, 1} : Exit(status) /\ (status = 0 <=> ~(hits > 0))
      BY <1>19, <2>8 DEF CommandEnds
    <3>2. status = 0 => hits = 0
      BY <3>1 DEF CommandTypeOK
    <3>3. 1 \in Todo
      BY <2>8 DEF Todo, OneInput, ProgressInv, CommandTypeOK
    <3> QED
      BY <1>1, <2>1, <2>2, <2>8, <3>1, <3>2, <3>3 DEF ExitTruthful, Exit
  <2> QED
    BY <2>3, <2>6, <2>7, <2>8
<1>20. CASE Deanonymize
  BY <1>3, <1>4, <1>20 DEF Deanonymize
<1>21. CASE InitConfig
  <2>1. \E status \in {0, 1} : Exit(status)
    BY <1>21 DEF InitConfig
  <2> QED
    BY <1>5, <1>21, <2>1 DEF InitConfig
<1>22. CASE Serve
  <2>1. CASE \E status \in {1, 2} : Exit(status)
    BY <1>5, <1>22, <2>1 DEF Serve
  <2>2. CASE UNCHANGED exit
    BY <1>3, <1>22, <2>2 DEF Serve
  <2> QED
    BY <1>22, <2>1, <2>2 DEF Serve
<1>23. CASE Ui
  BY <1>5, <1>23 DEF Ui
<1>24. CASE Stop
  <2>1. Exit(0) /\ args.command \in {"serve", "mcp-serve", "fanotify"}
    BY <1>24 DEF Stop, StepsInv
  <2> QED
    BY <1>5, <2>1
<1> QED
  BY <1>6, <1>7, <1>8, <1>9, <1>10, <1>11, <1>12, <1>13, <1>14, <1>15, <1>16, <1>17, <1>18,
     <1>19, <1>20, <1>21, <1>22, <1>23, <1>24 DEF CommandNext

LEMMA CommandInitInv == CommandInit => CommandInv
<1> SUFFICES ASSUME CommandInit PROVE CommandInv
  OBVIOUS
<1>1. NoProcess \in Processes /\ ~NoProcess.reading
  BY DEF NoProcess, Processes, HardModeResults, NotApplied, Result
<1>2. CommandTypeOK
  <2>1. inputs \in Seq(InputFiles) /\ kernel \in Platforms
    BY CommandAssumption DEF CommandInit
  <2>2. output \in [replaced : SUBSET Nat, stdout : {"nothing", "part", "all"}]
    BY DEF CommandInit
  <2> QED
    BY <1>1, <2>1, <2>2 DEF CommandInit, CommandTypeOK
<1>3. StepsInv
  BY <1>1 DEF CommandInit, StepsInv
<1>4. ContainInv
  BY DEF CommandInit, ContainInv
<1>5. ProgressInv
  BY DEF CommandInit, ProgressInv
<1>6. ExitTruthful
  BY DEF CommandInit, ExitTruthful, StillRunning
<1> QED
  BY <1>2, <1>3, <1>4, <1>5, <1>6 DEF CommandInv

LEMMA CommandStepInv == CommandInv /\ [CommandNext]_commandVars => CommandInv'
<1> SUFFICES ASSUME CommandInv, [CommandNext]_commandVars PROVE CommandInv'
  OBVIOUS
<1>1. CASE CommandNext
  BY <1>1, CommandStepTypes, CommandStepSteps, CommandStepContain, CommandStepProgress,
     CommandStepStatus DEF CommandInv
<1>2. CASE UNCHANGED commandVars
  <2>1. UNCHANGED <<args, inputs, kernel, phase, main, worker, next, hits, output, report, exit>>
    BY <1>2 DEF commandVars
  <2>2. UNCHANGED <<Contained, OneInput, Todo, Ahead, Behind, Current, ToStdout, InWorkers,
                    Buildable, Admits>>
    BY <2>1 DEF Contained, OneInput, Todo, Ahead, Behind, Current, ToStdout, InWorkers, Workers,
                Wanted, Buildable, Admits
  <2>3. CommandTypeOK' /\ StepsInv' /\ ContainInv' /\ ProgressInv'
    BY <2>1, <2>2 DEF CommandInv, CommandTypeOK, StepsInv, ContainInv, ProgressInv
  <2>4. \A f : Wanted(f)' <=> Wanted(f)
    BY <2>1 DEF Wanted
  <2>5. ExitTruthful'
    BY <2>1, <2>2, <2>4 DEF CommandInv, ExitTruthful
  <2> QED
    BY <2>3, <2>5 DEF CommandInv
<1> QED
  BY <1>1, <1>2

LEMMA CommandInvariant == CommandSpec => []CommandInv
  BY CommandInitInv, CommandStepInv, PTL DEF CommandSpec

\* For any inputs and kernels: whichever process of redact or detect has an
\* input open, forked or spawned, was admitted and is behind the guard, the
\* kernel's offline mode and the memory cap the first process was given, and the
\* daemons read behind the guard (cli.main, scheduler._init_worker).
THEOREM CommandReadsContained == CommandSpec => []ReadersContained
<1>1. CommandInv => ReadersContained
  <2> SUFFICES ASSUME CommandInv PROVE ReadersContained
    OBVIOUS
  <2>1. ASSUME NEW p \in {main, worker}, p.reading, Contained
        PROVE  /\ Buildable /\ args.memory_limit # "scant"
               /\ args.offline_guard => p.guarded
               /\ main.hard.applied => \A call \in IpSocketCalls : Made(p.hard, call) # "allow"
               /\ main.capped = "limit" => p.capped # "no"
    <3>1. phase \in {"read", "stream"}
      BY <2>1 DEF CommandInv, StepsInv
    <3>2. p.hard = ApplyOfflineHard(args.offline_hard, kernel) /\ main.hard = p.hard
      BY <2>1, <3>1 DEF CommandInv, ContainInv, StepsInv
    <3>3. main.hard.applied => \A call \in IpSocketCalls : Made(p.hard, call) # "allow"
      <4>1. HardModeContains(args.offline_hard, kernel)
        BY <2>1, ArgumentTypes, HardModesContain DEF CommandInv, CommandTypeOK
      <4>2. IpSocketCalls \subseteq Calls
        BY DEF IpSocketCalls
      <4> QED
        BY <3>2, <4>1, <4>2 DEF HardModeContains
    <3>4. /\ Buildable /\ Admits
          /\ args.offline_guard => p.guarded
          /\ main.capped = "limit" => p.capped # "no"
      BY <2>1, <3>1 DEF CommandInv, ContainInv, StepsInv
    <3> QED
      BY <3>3, <3>4 DEF Admits
  <2>2. main.reading /\ args.command \in {"mcp-serve", "fanotify"} => main.guarded
    BY DEF CommandInv, StepsInv, ContainInv
  <2> QED
    BY <2>1, <2>2 DEF ReadersContained
<1> QED
  BY <1>1, CommandInvariant, PTL

\* For any inputs: status 0 says that every input was read to its end, with its
\* output and the report written, nothing found under --fail-on-detect and every
\* token restored; a run with one output that ends otherwise has left it alone
\* unless only the report failed; and 3 is kept for the memory limit (cli.main,
\* _cmd_redact, _cmd_detect, _cmd_deanonymize, _finish_run).
THEOREM CommandStatusTruthful == CommandSpec => []ExitTruthful
  BY CommandInvariant, PTL DEF CommandInv

----------------------------------------------------------------------------
(* The tabs of one page server.                                            *)

\* A directory on the disk is found by its name, and writing to it leaves the
\* names and the other directories as they are.
LEMMA DirOnDisk ==
    ASSUME OwnedInv, NEW d \in Ids
    PROVE  In(d) \in scratch /\ In(d).id = d
<1>1. \E w \in scratch : w.id = d
  BY DEF Ids
<1> QED
  BY <1>1, Zenon DEF In

LEMMA PutDir ==
    ASSUME NEW d \in Ids, NEW w, w.id = d, Put(d, w)
    PROVE  /\ Ids' = Ids /\ UNCHANGED workdirs
           /\ \A v \in scratch' : v = w \/ (v \in scratch /\ v.id # d)
  BY DEF Ids, Put, Without

\* Discarding one leaves the others.
LEMMA DiscardDir ==
    ASSUME NEW d, Discard(d)
    PROVE  /\ Ids' = Ids \ {d} /\ workdirs' = workdirs \ {d}
           /\ scratch' = {w \in scratch : w.id # d}
<1>1. scratch' = {w \in scratch : w.id # d} /\ workdirs' = workdirs \ {d}
  BY DEF Discard, Without
<1> QED
  BY <1>1 DEF Ids

\* What a rerun of a script comes to: the result it had is kept or forgotten with
\* its directory, and shown only if it is of what is selected.
LEMMA ScriptOutcome ==
    ASSUME NEW s \in Sessions, NEW c, NEW process, Script(s, c, process)
    PROVE  /\ \/ shown' = [shown EXCEPT ![s] = NoResult]
              \/ /\ shown' = [shown EXCEPT ![s] = large[s]] /\ UNCHANGED large
                 /\ large[s].key = <<c.upload.id, c.settings>>
           /\ \/ UNCHANGED <<large, scratch, workdirs>>
              \/ large' = [large EXCEPT ![s] = NoResult] /\ Discard(large[s].dir)
           /\ \/ script' = [script EXCEPT ![s] = "shown"]
              \/ script' = [script EXCEPT ![s] = "mkdtemp"]
  BY Zenon DEF Script, KeepDirs

LEMMA PageTypes ==
    /\ NoResult \in [key : Keys, dir : Nat, saved : Nat]
    /\ NoUpload \in [id : Nat, size : {"none", "small", "large"}, binary : BOOLEAN]
    /\ \A u \in Selected : u.id \in Nat
    /\ \A c \in [upload : Selected, settings : Settings] :
          <<c.upload.id, c.settings>> \in Keys /\ c.settings # "none"
<1>1. NoResult \in [key : Keys, dir : Nat, saved : Nat]
  BY DEF NoResult, Keys
<1>2. NoUpload \in [id : Nat, size : {"none", "small", "large"}, binary : BOOLEAN]
  BY DEF NoUpload
<1>3. \A u \in Selected : u.id \in Nat
  BY PageAssumption DEF Selected, NoUpload
<1>4. \A c \in [upload : Selected, settings : Settings] :
          <<c.upload.id, c.settings>> \in Keys /\ c.settings # "none"
  BY <1>3 DEF Keys, Settings
<1> QED
  BY <1>1, <1>2, <1>3, <1>4

\* A saved result keeps what it is of, and has no directory any more.
LEMMA MovedResult ==
    ASSUME PageTypeOK, NEW s \in Sessions, Move(s)
    PROVE  large' = [large EXCEPT ![s] = [key |-> large[s].key, dir |-> 0, saved |-> saveTo[s]]]
<1>1. ASSUME NEW r \in [key : Keys, dir : Nat, saved : Nat], NEW n
      PROVE  [[r EXCEPT !.saved = n] EXCEPT !.dir = 0] = [key |-> r.key, dir |-> 0, saved |-> n]
  <2> DEFINE moved == [r EXCEPT !.saved = n]
  <2>1. moved = [key |-> r.key, dir |-> r.dir, saved |-> n]
    OBVIOUS
  <2> HIDE DEF moved
  <2>2. [moved EXCEPT !.dir = 0] = [key |-> r.key, dir |-> 0, saved |-> n]
    BY <2>1
  <2> QED
    BY <2>2, Zenon DEF moved
<1>2. large[s] \in [key : Keys, dir : Nat, saved : Nat]
  BY DEF PageTypeOK
<1>3. large' = [large EXCEPT ![s] = [[large[s] EXCEPT !.saved = saveTo[s]] EXCEPT !.dir = 0]]
  BY DEF Move, PageTypeOK
<1> QED
  BY <1>1, <1>2, <1>3, Zenon

\* The steps of one tab's script.
LEMMA PageStepTypes ==
    ASSUME PageTypeOK, OwnedInv, PageNext
    PROVE  PageTypeOK'
<1> DEFINE Choices == [upload : Selected, settings : Settings]
           Results == [key : Keys, dir : Nat, saved : Nat]
           Scripts == Busy \cup {"shown", "move", "closed"}
           Dirs == [id : Nat \ {0}, source : Nat, output : Keys]
<1>1. /\ chosen \in [Sessions -> Choices] /\ script \in [Sessions -> Scripts]
      /\ large \in [Sessions -> Results] /\ shown \in [Sessions -> Results]
      /\ dir \in [Sessions -> Nat] /\ saveTo \in [Sessions -> Nat]
      /\ scratch \subseteq Dirs /\ IsFiniteSet(DOMAIN folder)
      /\ server \in {"up", "stopped"} /\ saveRaced \in BOOLEAN
  BY DEF PageTypeOK
<1>2. /\ chosen' \in [Sessions -> Choices] /\ script' \in [Sessions -> Scripts]
      /\ large' \in [Sessions -> Results] /\ shown' \in [Sessions -> Results]
      /\ dir' \in [Sessions -> Nat] /\ saveTo' \in [Sessions -> Nat]
      /\ scratch' \subseteq Dirs /\ IsFiniteSet(DOMAIN folder')
      /\ server' \in {"up", "stopped"} /\ saveRaced' \in BOOLEAN
      => PageTypeOK'
  BY DEF PageTypeOK
<1>3. NoResult \in Results /\ {"shown", "closed", "mkdtemp"} \subseteq Scripts
  BY PageTypes DEF Busy
<1>4. ASSUME NEW d, Discard(d) PROVE scratch' \subseteq Dirs
  BY <1>1, <1>4, DiscardDir
<1>5. ASSUME NEW s \in Sessions, NEW where \in {"shown", "closed"}, Abandon(s, where)
      PROVE  script' \in [Sessions -> Scripts] /\ dir' \in [Sessions -> Nat] /\ scratch' \subseteq Dirs
  BY <1>1, <1>3, <1>4, <1>5 DEF Abandon
<1>6. ASSUME NEW d \in Ids, NEW w \in Dirs, w.id = d, Put(d, w) PROVE scratch' \subseteq Dirs
  BY <1>1, <1>6, PutDir
<1>7. ASSUME NEW s \in Sessions, script[s] \in Busy \ {"mkdtemp"}, server = "up"
      PROVE  dir[s] \in Ids /\ In(dir[s]) \in Dirs /\ In(dir[s]).id = dir[s]
  BY <1>1, <1>7, DirOnDisk DEF OwnedInv
<1>8. CASE StopServer
  BY <1>1, <1>2, <1>8 DEF StopServer
<1>9. ASSUME NEW s \in Sessions, Rerun(s) PROVE PageTypeOK'
  <2>1. PICK u \in Selected, x \in Settings, process \in BOOLEAN :
          /\ chosen' = [chosen EXCEPT ![s] = [upload |-> u, settings |-> x]]
          /\ Script(s, [upload |-> u, settings |-> x], process)
    BY <1>9 DEF Rerun
  <2>2. shown' \in [Sessions -> Results] /\ large' \in [Sessions -> Results]
        /\ script' \in [Sessions -> Scripts]
    <3>1. /\ \/ shown' = [shown EXCEPT ![s] = NoResult]
             \/ shown' = [shown EXCEPT ![s] = large[s]]
          /\ UNCHANGED large \/ large' = [large EXCEPT ![s] = NoResult]
          /\ \/ script' = [script EXCEPT ![s] = "shown"]
             \/ script' = [script EXCEPT ![s] = "mkdtemp"]
      BY <2>1, ScriptOutcome, Zenon
    <3>2. large' \in [Sessions -> Results]
      BY <1>1, <1>3, <3>1
    <3>3. large[s] \in Results /\ NoResult \in Results
      BY <1>1, <1>3
    <3>4. shown' \in [Sessions -> Results]
      BY <1>1, <3>1, <3>3
    <3>5. script' \in [Sessions -> Scripts]
      BY <1>1, <1>3, <3>1
    <3> QED
      BY <3>2, <3>4, <3>5
  <2>3. scratch' \subseteq Dirs
    BY <1>1, <1>4, <2>1, ScriptOutcome
  <2>4. chosen' \in [Sessions -> Choices]
    BY <1>1, <2>1
  <2> QED
    BY <1>1, <1>2, <1>9, <2>2, <2>3, <2>4 DEF Rerun
<1>10. ASSUME NEW s \in Sessions, StopScript(s) PROVE PageTypeOK'
  BY <1>1, <1>2, <1>5, <1>10 DEF StopScript
<1>11. ASSUME NEW s \in Sessions, CloseTab(s) PROVE PageTypeOK'
  BY <1>1, <1>2, <1>3, <1>5, <1>11 DEF CloseTab, KeepDirs
<1>12. ASSUME NEW s \in Sessions, MakeWorkdir(s) PROVE PageTypeOK'
  <2>1. PICK d \in 1 .. MaxRuns + 1 :
          /\ dir' = [dir EXCEPT ![s] = d]
          /\ scratch' = scratch \cup {[id |-> d, source |-> 0, output |-> <<0, "none">>]}
    BY <1>12 DEF MakeWorkdir
  <2>2. d \in Nat \ {0}
    BY PageAssumption
  <2>3. [id |-> d, source |-> 0, output |-> <<0, "none">>] \in Dirs
    BY <2>2 DEF Keys
  <2> QED
    BY <1>1, <1>2, <1>12, <2>1, <2>2, <2>3 DEF MakeWorkdir, Busy
<1>13. ASSUME NEW s \in Sessions, Spool(s) PROVE PageTypeOK'
  <2>1. CASE Abandon(s, "shown")
    BY <1>1, <1>2, <1>5, <1>13, <2>1 DEF Spool
  <2>2. CASE /\ Put(dir[s], [In(dir[s]) EXCEPT !.source = chosen[s].upload.id])
             /\ script' = [script EXCEPT ![s] = "redact"] /\ UNCHANGED dir
    <3>1. dir[s] \in Ids /\ In(dir[s]) \in Dirs /\ In(dir[s]).id = dir[s]
      BY <1>7, <1>13 DEF Spool, Busy
    <3>2. chosen[s].upload.id \in Nat
      BY <1>1, PageTypes
    <3>3. [In(dir[s]) EXCEPT !.source = chosen[s].upload.id] \in Dirs
      BY <3>1, <3>2
    <3>4. scratch' \subseteq Dirs
      BY <1>6, <2>2, <3>1, <3>3
    <3> QED
      BY <1>1, <1>2, <1>13, <2>2, <3>4 DEF Spool, Busy
  <2> QED
    BY <1>13, <2>1, <2>2 DEF Spool
<1>14. ASSUME NEW s \in Sessions, RedactLarge(s) PROVE PageTypeOK'
  <2>1. CASE Abandon(s, "shown")
    BY <1>1, <1>2, <1>5, <1>14, <2>1 DEF RedactLarge
  <2>2. CASE /\ Put(dir[s], [In(dir[s]) EXCEPT
                               !.output = <<In(dir[s]).source, chosen[s].settings>>])
             /\ script' = [script EXCEPT ![s] = "remove"] /\ UNCHANGED dir
    <3>1. dir[s] \in Ids /\ In(dir[s]) \in Dirs /\ In(dir[s]).id = dir[s]
      BY <1>7, <1>14 DEF RedactLarge, Busy
    <3>2. <<In(dir[s]).source, chosen[s].settings>> \in Keys
      BY <1>1, <3>1 DEF Keys
    <3>3. [In(dir[s]) EXCEPT !.output = <<In(dir[s]).source, chosen[s].settings>>] \in Dirs
      BY <3>1, <3>2
    <3>4. scratch' \subseteq Dirs
      BY <1>6, <2>2, <3>1, <3>3
    <3> QED
      BY <1>1, <1>2, <1>14, <2>2, <3>4 DEF RedactLarge, Busy
  <2> QED
    BY <1>14, <2>1, <2>2 DEF RedactLarge
<1>15. ASSUME NEW s \in Sessions, RemoveSource(s) PROVE PageTypeOK'
  <2>1. dir[s] \in Ids /\ In(dir[s]) \in Dirs /\ In(dir[s]).id = dir[s]
    BY <1>7, <1>15 DEF RemoveSource, Busy
  <2>2. [In(dir[s]) EXCEPT !.source = 0] \in Dirs
    BY <2>1
  <2>3. scratch' \subseteq Dirs
    BY <1>6, <1>15, <2>1, <2>2 DEF RemoveSource
  <2> QED
    BY <1>1, <1>2, <1>15, <2>3 DEF RemoveSource, Busy
<1>16. ASSUME NEW s \in Sessions, Commit(s) PROVE PageTypeOK'
  <2>1. [key |-> Key(s), dir |-> dir[s], saved |-> 0] \in Results
    BY <1>1, PageTypes DEF Key
  <2> QED
    BY <1>1, <1>2, <1>16, <2>1 DEF Commit
<1>17. ASSUME NEW s \in Sessions, FindName(s) PROVE PageTypeOK'
  <2>1. FreeName \in Nat
    BY <1>1, FS_CardinalityType DEF FreeName
  <2> QED
    BY <1>1, <1>2, <1>17, <2>1 DEF FindName
<1>18. ASSUME NEW s \in Sessions, Move(s) PROVE PageTypeOK'
  <2>1. large' = [large EXCEPT ![s] = [key |-> large[s].key, dir |-> 0, saved |-> saveTo[s]]]
    BY <1>18, MovedResult DEF PageTypeOK
  <2>2. [key |-> large[s].key, dir |-> 0, saved |-> saveTo[s]] \in Results
    BY <1>1
  <2>3. large' \in [Sessions -> Results]
    BY <1>1, <2>1, <2>2
  <2>4. shown' \in [Sessions -> Results]
    BY <1>1, <1>18, <2>3 DEF Move
  <2>5. IsFiniteSet(DOMAIN folder')
    <3>1. DOMAIN folder' = DOMAIN folder \cup {saveTo[s]}
      BY <1>18 DEF Move
    <3>2. IsFiniteSet(DOMAIN folder \cup {saveTo[s]})
      BY <1>1, FS_AddElement, Zenon
    <3> QED
      BY <3>1, <3>2
  <2>6. scratch' \subseteq Dirs
    BY <1>4, <1>18 DEF Move
  <2>7. saveRaced' \in BOOLEAN
    BY <1>18 DEF Move
  <2> QED
    BY <1>1, <1>2, <1>18, <2>3, <2>4, <2>5, <2>6, <2>7 DEF Move
<1> QED
  BY <1>2, <1>8, <1>9, <1>10, <1>11, <1>12, <1>13, <1>14, <1>15, <1>16, <1>17, <1>18 DEF PageNext

\* A step of one tab's script, and what it leaves alone: the other tabs.
TabStep(s) ==
    \/ Rerun(s) \/ StopScript(s) \/ CloseTab(s) \/ MakeWorkdir(s) \/ Spool(s)
    \/ RedactLarge(s) \/ RemoveSource(s) \/ Commit(s) \/ FindName(s) \/ Move(s)

OthersKeep(s) ==
    \A r \in Sessions \ {s} :
       /\ chosen'[r] = chosen[r] /\ script'[r] = script[r] /\ large'[r] = large[r]
       /\ shown'[r] = shown[r] /\ dir'[r] = dir[r] /\ saveTo'[r] = saveTo[r]

LEMMA OtherTabs ==
    ASSUME PageTypeOK, NEW s \in Sessions, TabStep(s)
    PROVE  server = "up" /\ server' = "up" /\ OthersKeep(s)
<1>1. server = "up" /\ server' = "up"
  BY DEF TabStep, Rerun, StopScript, CloseTab, MakeWorkdir, Spool, RedactLarge, RemoveSource,
         Commit, FindName, Move
<1>2. chosen' = chosen \/ \E c : chosen' = [chosen EXCEPT ![s] = c]
  BY Zenon DEF TabStep, Rerun, StopScript, CloseTab, MakeWorkdir, Spool, RedactLarge, RemoveSource,
         Commit, FindName, Move
<1>3. \E c : script' = [script EXCEPT ![s] = c]
  <2>1. CASE Rerun(s)
    BY <2>1, ScriptOutcome, Zenon DEF Rerun
  <2>2. CASE ~Rerun(s)
    BY <2>2, Zenon DEF TabStep, StopScript, CloseTab, MakeWorkdir, Spool, RedactLarge,
         RemoveSource, Commit, FindName, Move, Abandon
  <2> QED
    BY <2>1, <2>2
<1>4. large' = large \/ \E c : large' = [large EXCEPT ![s] = c]
  <2>1. CASE Rerun(s)
    BY <2>1, ScriptOutcome, Zenon DEF Rerun
  <2>2. CASE Move(s)
    BY <2>2, MovedResult, Zenon
  <2>3. CASE ~Rerun(s) /\ ~Move(s)
    BY <2>3, Zenon DEF TabStep, StopScript, CloseTab, MakeWorkdir, Spool, RedactLarge,
         RemoveSource, Commit, FindName
  <2> QED
    BY <2>1, <2>2, <2>3
<1>5. shown' = shown \/ \E c : shown' = [shown EXCEPT ![s] = c]
  <2>1. CASE Rerun(s)
    BY <2>1, ScriptOutcome, Zenon DEF Rerun
  <2>2. CASE ~Rerun(s)
    BY <2>2, Zenon DEF TabStep, StopScript, CloseTab, MakeWorkdir, Spool, RedactLarge,
         RemoveSource, Commit, FindName, Move
  <2> QED
    BY <2>1, <2>2
<1>6. dir' = dir \/ \E c : dir' = [dir EXCEPT ![s] = c]
  BY Zenon DEF TabStep, Rerun, StopScript, CloseTab, MakeWorkdir, Spool, RedactLarge, RemoveSource,
         Commit, FindName, Move, Abandon
<1>7. saveTo' = saveTo \/ \E c : saveTo' = [saveTo EXCEPT ![s] = c]
  BY Zenon DEF TabStep, Rerun, StopScript, CloseTab, MakeWorkdir, Spool, RedactLarge, RemoveSource,
         Commit, FindName, Move
<1>8. ASSUME NEW r \in Sessions \ {s}
      PROVE  /\ chosen'[r] = chosen[r] /\ script'[r] = script[r] /\ large'[r] = large[r]
             /\ shown'[r] = shown[r] /\ dir'[r] = dir[r] /\ saveTo'[r] = saveTo[r]
  BY <1>2, <1>3, <1>4, <1>5, <1>6, <1>7 DEF PageTypeOK
<1> QED
  BY <1>1, <1>8 DEF OthersKeep

\* If the tab that steps has, after it, only directories it had or that were free,
\* each directory still has one owner.
LEMMA StillOwned ==
    ASSUME OwnedInv, NEW s \in Sessions, server = "up", server' = "up", OthersKeep(s),
           \A v, w \in scratch' : v.id = w.id => v = w,
           dir'[s] # 0 <=> script'[s] \in Busy \ {"mkdtemp"},
           dir'[s] # 0 => large'[s].dir # dir'[s],
           Ids' = workdirs',
           {dir'[s], large'[s].dir} \subseteq Ids' \cup {0},
           \A d \in {dir'[s], large'[s].dir} : d \in {0, dir[s], large[s].dir} \/ d \notin Ids,
           \A d \in Ids : d \notin {dir[s], large[s].dir} => d \in Ids'
    PROVE  OwnedInv'
<1>1. /\ \A r, q \in Sessions : r # q /\ dir[r] # 0 => dir[r] # dir[q]
      /\ \A r, q \in Sessions : r # q /\ large[r].dir # 0 => large[r].dir # large[q].dir
      /\ \A r, q \in Sessions : large[r].dir # 0 => large[r].dir # dir[q]
      /\ \A r \in Sessions : {dir[r], large[r].dir} \subseteq Ids \cup {0}
      /\ \A r \in Sessions : dir[r] # 0 <=> script[r] \in Busy \ {"mkdtemp"}
  BY DEF OwnedInv
<1>2. \A r \in Sessions : r # s => /\ dir'[r] = dir[r] /\ large'[r].dir = large[r].dir
                                   /\ script'[r] = script[r]
  BY DEF OthersKeep
<1>3. \A r \in Sessions : dir'[r] # 0 <=> script'[r] \in Busy \ {"mkdtemp"}
  BY <1>1, <1>2
<1>4. ASSUME NEW r \in Sessions, r # s
      PROVE  /\ {dir'[r], large'[r].dir} \subseteq Ids' \cup {0}
             /\ dir'[r] # 0 => dir'[r] \notin {dir'[s], large'[s].dir}
             /\ large'[r].dir # 0 => large'[r].dir \notin {dir'[s], large'[s].dir}
  BY <1>1, <1>2, <1>4
<1>5. \A r, q \in Sessions : r # q /\ dir'[r] # 0 => dir'[r] # dir'[q]
  BY <1>1, <1>2, <1>4
<1>6. \A r, q \in Sessions : r # q /\ large'[r].dir # 0 => large'[r].dir # large'[q].dir
  BY <1>1, <1>2, <1>4
<1>7. \A r, q \in Sessions : large'[r].dir # 0 => large'[r].dir # dir'[q]
  BY <1>1, <1>2, <1>4
<1>8. \A r \in Sessions : {dir'[r], large'[r].dir} \subseteq Ids' \cup {0}
  BY <1>4
<1> QED
  BY <1>3, <1>5, <1>6, <1>7, <1>8 DEF OwnedInv

\* If only its own directory was written to, the others hold what they held.
LEMMA StillHeld ==
    ASSUME PageTypeOK', OwnedInv', HoldsInv, NEW s \in Sessions, OthersKeep(s),
           \A w \in scratch' : w \in scratch \/ w.id = dir'[s],
           \A w \in scratch' : w.source # 0 =>
             \/ w \in scratch /\ w.id # dir[s]
             \/ w.id = dir'[s] /\ script'[s] \in {"redact", "remove"},
           \A w \in scratch' : w.id = dir'[s] =>
             /\ script'[s] = "redact" => w.source = chosen'[s].upload.id
             /\ script'[s] \in {"remove", "commit"} => w.output = Key(s)',
           \A w \in scratch' : w.id = large'[s].dir => w.output = large'[s].key
    PROVE  HoldsInv'
<1>1. \A r \in Sessions : r # s => /\ dir'[r] = dir[r] /\ large'[r] = large[r]
                                   /\ script'[r] = script[r] /\ chosen'[r] = chosen[r]
  BY DEF OthersKeep
<1>2. \A w \in scratch' : w.id # 0
  BY DEF PageTypeOK
<1>3. ASSUME NEW r \in Sessions, r # s, NEW w \in scratch', w.id \in {dir'[r], large'[r].dir}
      PROVE  w \in scratch
  BY <1>2, <1>3 DEF OwnedInv
<1>4. ASSUME NEW w \in scratch', w.source # 0
      PROVE  \E r \in Sessions : dir'[r] = w.id /\ script'[r] \in {"redact", "remove"}
  BY <1>1, <1>4 DEF HoldsInv
<1>5. ASSUME NEW r \in Sessions, NEW w \in scratch', dir'[r] = w.id
      PROVE  /\ script'[r] = "redact" => w.source = chosen'[r].upload.id
             /\ script'[r] \in {"remove", "commit"} => w.output = Key(r)'
  <2>1. CASE r = s
    BY <1>5, <2>1
  <2>2. CASE r # s
    BY <1>1, <1>3, <1>5, <2>2 DEF HoldsInv, Key
  <2> QED
    BY <2>1, <2>2
<1>6. ASSUME NEW r \in Sessions, NEW w \in scratch', large'[r].dir = w.id
      PROVE  w.output = large'[r].key
  BY <1>1, <1>3, <1>6 DEF HoldsInv
<1> QED
  BY <1>4, <1>5, <1>6 DEF HoldsInv

\* What one tab has of a result, shows of it and is about to save.
TabResult(s) ==
    /\ large[s] # NoResult /\ large[s].saved = 0 => large[s].dir # 0
    /\ large[s].saved # 0 =>
         saveRaced \/ (large[s].saved \in DOMAIN folder /\ folder[large[s].saved] = large[s].key)
    /\ shown[s] # NoResult => shown[s] = large[s] /\ shown[s].key = Key(s)
    /\ script[s] = "move" =>
         shown[s] = large[s] /\ large[s].dir # 0 /\ large[s].saved = 0 /\ saveTo[s] # 0

\* If what was saved stays, or a save raced, the other tabs' results stay good.
LEMMA StillResults ==
    ASSUME ResultInv, NEW s \in Sessions, OthersKeep(s), TabResult(s)',
           saveRaced => saveRaced',
           saveRaced' \/ \A n \in DOMAIN folder : n \in DOMAIN folder' /\ folder'[n] = folder[n]
    PROVE  ResultInv'
<1>1. \A r \in Sessions : r # s =>
         /\ large'[r] = large[r] /\ shown'[r] = shown[r] /\ script'[r] = script[r]
         /\ chosen'[r] = chosen[r] /\ saveTo'[r] = saveTo[r]
  BY DEF OthersKeep
<1>2. ASSUME NEW r \in Sessions PROVE TabResult(r)'
  <2>1. CASE r = s
    BY <2>1
  <2>2. CASE r # s
    <3>1. TabResult(r)
      BY DEF ResultInv, TabResult
    <3> QED
      BY <1>1, <2>2, <3>1 DEF TabResult, Key
  <2> QED
    BY <2>1, <2>2
<1> QED
  BY <1>2 DEF TabResult, ResultInv

LEMMA PageStepOwned ==
    ASSUME PageTypeOK, OwnedInv, PageNext
    PROVE  OwnedInv'
<1> DEFINE Working == Busy \ {"mkdtemp"}
<1>1. CASE StopServer
  <2>1. PICK left \in SUBSET {dir[s] : s \in {r \in Sessions : script[r] \in Busy}} :
          scratch' = {w \in scratch : w.id \notin workdirs \/ w.id \in left}
    BY <1>1 DEF StopServer
  <2>2. Ids = workdirs /\ server' = "stopped" /\ UNCHANGED <<script, large, dir>>
    BY <1>1 DEF StopServer, OwnedInv
  <2>3. scratch' \subseteq scratch /\ \A w \in scratch' : w.id \in left
    BY <2>1, <2>2 DEF Ids
  <2>4. Ids' \subseteq {dir[s] : s \in Sessions}
    BY <2>3 DEF Ids
  <2> QED
    BY <2>2, <2>3, <2>4 DEF OwnedInv
<1>2. ASSUME NEW s \in Sessions, TabStep(s)
      PROVE  OwnedInv'
  <2>1. server = "up" /\ server' = "up" /\ OthersKeep(s)
    BY <1>2, OtherTabs
  <2>2. /\ \A v, w \in scratch : v.id = w.id => v = w
        /\ dir[s] # 0 <=> script[s] \in Working
        /\ large[s].dir # 0 => large[s].dir # dir[s]
        /\ Ids = workdirs /\ {dir[s], large[s].dir} \subseteq Ids \cup {0}
    BY <2>1 DEF OwnedInv
  <2>3. NoResult.dir = 0 /\ {"shown", "closed", "mkdtemp", "move"} \cap Working = {}
    BY DEF NoResult, Busy
  \* The step has a form of these: nothing on the disk, a directory discarded,
  \* a directory written to.
  <2>4. ASSUME /\ dir' = dir
               /\ \/ UNCHANGED <<large, scratch, workdirs>>
                  \/ large'[s].dir = 0 /\ Discard(large[s].dir)
                  \/ large'[s].dir = 0 /\ UNCHANGED <<scratch, workdirs>>
               /\ script'[s] \notin Working /\ script[s] \notin Working
        PROVE  OwnedInv'
    <3>1. Ids' = Ids \/ (large'[s].dir = 0 /\ Ids' = Ids \ {large[s].dir})
      BY <2>4, DiscardDir DEF Ids
    <3>2. \A v, w \in scratch' : v.id = w.id => v = w
      BY <2>2, <2>4, DiscardDir
    <3>3. Ids' = workdirs'
      BY <2>2, <2>4, DiscardDir DEF Ids
    <3>4. dir'[s] = 0 /\ large'[s].dir \in {0, large[s].dir}
      BY <2>2, <2>4
    <3>5. {dir'[s], large'[s].dir} \subseteq Ids' \cup {0}
      BY <2>2, <3>1, <3>4
    <3>6. \A d \in Ids : d \notin {dir[s], large[s].dir} => d \in Ids'
      BY <3>1
    <3> QED
      BY <2>1, <2>4, <3>2, <3>3, <3>4, <3>5, <3>6, StillOwned
  <2>5. ASSUME NEW where \in {"shown", "closed"}, Abandon(s, where), large'[s].dir \in {0, large[s].dir}
        PROVE  OwnedInv'
    <3>1. dir'[s] = 0 /\ script'[s] = where
      BY <2>5 DEF Abandon, PageTypeOK
    <3>2. Ids' = Ids \ {dir[s]} /\ workdirs' = workdirs \ {dir[s]} /\ scratch' \subseteq scratch
      BY <2>5, DiscardDir DEF Abandon
    <3> QED
      BY <2>1, <2>2, <2>3, <2>5, <3>1, <3>2, StillOwned
  <2>6. ASSUME NEW w, w.id = dir[s], Put(dir[s], w), dir[s] \in Ids,
               UNCHANGED <<dir, large>>, script[s] \in Working, script'[s] \in Working
        PROVE  OwnedInv'
    <3>1. Ids' = Ids /\ UNCHANGED workdirs
      BY <2>6, PutDir
    <3>2. \A u, v \in scratch' : u.id = v.id => u = v
      BY <2>2, <2>6, PutDir
    <3> QED
      BY <2>1, <2>2, <2>6, <3>1, <3>2, StillOwned
  <2>7. CASE Rerun(s)
    <3>1. PICK c, process : Script(s, c, process)
      BY <1>2, <2>7 DEF Rerun
    <3>2. /\ \/ UNCHANGED <<large, scratch, workdirs>>
             \/ large'[s].dir = 0 /\ Discard(large[s].dir)
          /\ script'[s] \in {"shown", "mkdtemp"}
      <4>1. /\ \/ UNCHANGED <<large, scratch, workdirs>>
               \/ large' = [large EXCEPT ![s] = NoResult] /\ Discard(large[s].dir)
            /\ \/ script' = [script EXCEPT ![s] = "shown"]
               \/ script' = [script EXCEPT ![s] = "mkdtemp"]
        BY <3>1, ScriptOutcome, Zenon
      <4> QED
        BY <2>3, <4>1 DEF PageTypeOK
    <3> QED
      BY <2>3, <2>4, <2>7, <3>2 DEF Rerun
  <2>8. CASE StopScript(s)
    BY <2>5, <2>8 DEF StopScript
  <2>9. CASE CloseTab(s)
    <3>1. large'[s].dir = 0
      BY <2>3, <2>9 DEF CloseTab, PageTypeOK
    <3>2. CASE script[s] = "shown"
      <4>1. script' = [script EXCEPT ![s] = "closed"] /\ UNCHANGED <<dir, scratch, workdirs>>
        BY <2>9, <3>2 DEF CloseTab, KeepDirs
      <4> QED
        BY <2>3, <2>4, <3>1, <3>2, <4>1 DEF PageTypeOK
    <3>3. CASE script[s] # "shown"
      BY <2>5, <2>9, <3>1, <3>3 DEF CloseTab
    <3> QED
      BY <3>2, <3>3
  <2>10. CASE MakeWorkdir(s)
    <3>1. PICK d \in 1 .. MaxRuns + 1 :
            /\ d \notin Ids /\ dir' = [dir EXCEPT ![s] = d]
            /\ scratch' = scratch \cup {[id |-> d, source |-> 0, output |-> <<0, "none">>]}
            /\ workdirs' = workdirs \cup {d}
      BY <2>10 DEF MakeWorkdir, Fresh
    <3>2. dir'[s] = d /\ script'[s] = "spool" /\ UNCHANGED large /\ dir[s] = 0
      BY <2>2, <2>10, <3>1 DEF MakeWorkdir, PageTypeOK
    <3>3. Ids' = Ids \cup {d}
      <4> DEFINE empty == [id |-> d, source |-> 0, output |-> <<0, "none">>]
      <4>1. empty.id = d
        OBVIOUS
      <4> HIDE DEF empty
      <4>2. scratch' = scratch \cup {empty}
        BY <3>1 DEF empty
      <4> QED
        BY <4>1, <4>2 DEF Ids
    <3>4. \A v, w \in scratch' : v.id = w.id => v = w
      BY <2>2, <3>1 DEF Ids
    <3>5. d # 0 /\ "spool" \in Working
      BY PageAssumption DEF Busy
    <3>6. large'[s].dir # dir'[s]
      BY <2>2, <3>1, <3>2, <3>5
    <3> QED
      BY <2>1, <2>2, <3>1, <3>2, <3>3, <3>4, <3>5, <3>6, StillOwned
  <2>11. ASSUME script[s] \in Working
         PROVE  dir[s] \in Ids /\ In(dir[s]).id = dir[s]
    BY <2>2, <2>11, DirOnDisk
  <2>12. CASE Spool(s) /\ ~Abandon(s, "shown")
    <3>1. /\ Put(dir[s], [In(dir[s]) EXCEPT !.source = chosen[s].upload.id])
          /\ script' = [script EXCEPT ![s] = "redact"] /\ UNCHANGED <<dir, large>>
          /\ script[s] = "spool"
      BY <2>12 DEF Spool
    <3>2. script[s] \in Working /\ script'[s] \in Working
      BY <3>1 DEF Busy, PageTypeOK
    <3>3. In(dir[s]) \in [id : Nat \ {0}, source : Nat, output : Keys]
      BY <2>11, <3>2, DirOnDisk DEF PageTypeOK
    <3>4. [In(dir[s]) EXCEPT !.source = chosen[s].upload.id].id = dir[s]
      BY <2>11, <3>2, <3>3
    <3> QED
      BY <2>6, <2>11, <3>1, <3>2, <3>4
  <2>13. CASE RedactLarge(s) /\ ~Abandon(s, "shown")
    <3>1. /\ Put(dir[s], [In(dir[s]) EXCEPT
                            !.output = <<In(dir[s]).source, chosen[s].settings>>])
          /\ script' = [script EXCEPT ![s] = "remove"] /\ UNCHANGED <<dir, large>>
          /\ script[s] = "redact"
      BY <2>13 DEF RedactLarge
    <3>2. script[s] \in Working /\ script'[s] \in Working
      BY <3>1 DEF Busy, PageTypeOK
    <3>3. In(dir[s]) \in [id : Nat \ {0}, source : Nat, output : Keys]
      BY <2>11, <3>2, DirOnDisk DEF PageTypeOK
    <3>4. [In(dir[s]) EXCEPT !.output = <<In(dir[s]).source, chosen[s].settings>>].id = dir[s]
      BY <2>11, <3>2, <3>3
    <3> QED
      BY <2>6, <2>11, <3>1, <3>2, <3>4
  <2>14. CASE (Spool(s) \/ RedactLarge(s)) /\ Abandon(s, "shown")
    BY <2>5, <2>14 DEF Spool, RedactLarge
  <2>15. CASE RemoveSource(s)
    <3>1. /\ Put(dir[s], [In(dir[s]) EXCEPT !.source = 0])
          /\ script' = [script EXCEPT ![s] = "commit"] /\ UNCHANGED <<dir, large>>
          /\ script[s] = "remove"
      BY <2>15 DEF RemoveSource
    <3>2. script[s] \in Working /\ script'[s] \in Working
      BY <3>1 DEF Busy, PageTypeOK
    <3>3. In(dir[s]) \in [id : Nat \ {0}, source : Nat, output : Keys]
      BY <2>11, <3>2, DirOnDisk DEF PageTypeOK
    <3>4. [In(dir[s]) EXCEPT !.source = 0].id = dir[s]
      BY <2>11, <3>2, <3>3
    <3> QED
      BY <2>6, <2>11, <3>1, <3>2, <3>4
  <2>16. CASE Commit(s)
    <3>1. /\ large'[s].dir = dir[s] /\ dir'[s] = 0 /\ script'[s] = "shown"
          /\ UNCHANGED <<scratch, workdirs>>
      BY <2>16 DEF Commit, PageTypeOK
    <3>2. Ids' = Ids
      BY <3>1 DEF Ids
    <3> QED
      BY <2>1, <2>2, <2>3, <3>1, <3>2, StillOwned
  <2>17. CASE FindName(s)
    <3>1. script'[s] = "move" /\ script[s] = "shown" /\ UNCHANGED <<dir, large, scratch, workdirs>>
      BY <2>17 DEF FindName, PageTypeOK
    <3> QED
      BY <2>3, <2>4, <3>1
  <2>18. CASE Move(s)
    <3>1. /\ Discard(large[s].dir) /\ UNCHANGED dir
          /\ script[s] = "move" /\ script'[s] = "shown"
      BY <2>18 DEF Move, PageTypeOK
    <3>2. large' = [large EXCEPT ![s] = [key |-> large[s].key, dir |-> 0, saved |-> saveTo[s]]]
      BY <2>18, MovedResult
    <3>3. large'[s].dir = 0
      BY <3>2 DEF PageTypeOK
    <3> QED
      BY <2>3, <2>4, <3>1, <3>3
  <2> QED
    BY <1>2, <2>7, <2>8, <2>9, <2>10, <2>12, <2>13, <2>14, <2>15, <2>16, <2>17, <2>18 DEF TabStep
<1> QED
  BY <1>1, <1>2 DEF PageNext, TabStep

LEMMA PageStepHolds ==
    ASSUME PageTypeOK, OwnedInv, HoldsInv, PageNext
    PROVE  HoldsInv'
<1> DEFINE Working == Busy \ {"mkdtemp"}
           Results == [key : Keys, dir : Nat, saved : Nat]
           Dirs == [id : Nat \ {0}, source : Nat, output : Keys]
<1>1. PageTypeOK' /\ OwnedInv'
  BY PageStepTypes, PageStepOwned
<1>2. CASE StopServer
  <2>1. PICK left \in SUBSET {dir[s] : s \in {r \in Sessions : script[r] \in Busy}} :
          scratch' = {w \in scratch : w.id \notin workdirs \/ w.id \in left}
    BY <1>2 DEF StopServer
  <2>2. scratch' \subseteq scratch /\ UNCHANGED <<chosen, script, large, dir>>
    BY <1>2, <2>1 DEF StopServer
  <2> QED
    BY <2>2 DEF HoldsInv, Key
<1>3. ASSUME NEW s \in Sessions, TabStep(s)
      PROVE  HoldsInv'
  <2>1. server = "up" /\ server' = "up" /\ OthersKeep(s)
    BY <1>3, OtherTabs
  <2>2. /\ \A r \in Sessions : dir[r] # 0 <=> script[r] \in Working
        /\ \A r \in Sessions : r # s /\ dir[s] # 0 => dir[s] # dir[r]
        /\ large[s].dir # 0 => large[s].dir # dir[s]
        /\ scratch \subseteq Dirs /\ scratch' \subseteq Dirs
        /\ large[s] \in Results /\ script[s] \in Busy \cup {"shown", "move", "closed"}
    BY <1>1 DEF OwnedInv, PageTypeOK
  <2>3. /\ \A w \in scratch : dir[s] = w.id =>
             /\ script[s] = "redact" => w.source = chosen[s].upload.id
             /\ script[s] \in {"remove", "commit"} => w.output = Key(s)
        /\ \A w \in scratch : large[s].dir = w.id => w.output = large[s].key
    BY DEF HoldsInv
  <2>4. NoResult.dir = 0 /\ {"shown", "closed", "mkdtemp", "move"} \cap Working = {}
    BY DEF NoResult, Busy
  <2>5. \A w \in scratch \cup scratch' : w.id # 0
    BY <2>2
  \* A step of one that has no directory, or gives it up.
  <2>6. ASSUME scratch' \subseteq scratch, dir'[s] = 0,
               \A w \in scratch' : w.id # dir[s],
               large'[s].dir = 0 \/ large'[s] = large[s]
        PROVE  HoldsInv'
    <3>1. \A w \in scratch' : w.id = large'[s].dir => w.output = large'[s].key
      BY <2>3, <2>5, <2>6
    <3> QED
      BY <1>1, <2>1, <2>5, <2>6, <3>1, StillHeld
  <2>7. ASSUME dir' = dir, script[s] \notin Working,
               \/ UNCHANGED <<large, scratch, workdirs>>
               \/ large'[s].dir = 0 /\ Discard(large[s].dir)
               \/ large'[s].dir = 0 /\ UNCHANGED <<scratch, workdirs>>
        PROVE  HoldsInv'
    <3>1. dir'[s] = 0 /\ dir[s] = 0 /\ scratch' \subseteq scratch
      BY <2>2, <2>7, DiscardDir
    <3> QED
      BY <2>5, <2>6, <2>7, <3>1
  <2>8. ASSUME NEW where \in {"shown", "closed"}, Abandon(s, where),
               large'[s].dir = 0 \/ large'[s] = large[s]
        PROVE  HoldsInv'
    <3>1. dir'[s] = 0 /\ scratch' \subseteq scratch /\ \A w \in scratch' : w.id # dir[s]
      BY <2>8, DiscardDir DEF Abandon, PageTypeOK
    <3> QED
      BY <2>6, <2>8, <3>1
  \* A step that writes to its own.
  <2>9. ASSUME NEW w, w.id = dir[s], dir[s] \in Ids, Put(dir[s], w),
               UNCHANGED <<dir, large>>, script[s] \in Working,
               w.source # 0 => script'[s] \in {"redact", "remove"},
               script'[s] = "redact" => w.source = chosen'[s].upload.id,
               script'[s] \in {"remove", "commit"} => w.output = Key(s)'
        PROVE  HoldsInv'
    <3>1. \A v \in scratch' : v = w \/ (v \in scratch /\ v.id # dir[s])
      BY <2>9, PutDir
    <3>2. \A v \in scratch' : v.id = large'[s].dir => v.output = large'[s].key
      BY <2>2, <2>3, <2>5, <2>9, <3>1
    <3>3. \A v \in scratch' : v.source # 0 =>
             \/ v \in scratch /\ v.id # dir[s]
             \/ v.id = dir'[s] /\ script'[s] \in {"redact", "remove"}
      BY <2>9, <3>1
    <3>4. \A v \in scratch' : v \in scratch \/ v.id = dir'[s]
      BY <2>9, <3>1
    <3>5. \A v \in scratch' : v.id = dir'[s] =>
             /\ script'[s] = "redact" => v.source = chosen'[s].upload.id
             /\ script'[s] \in {"remove", "commit"} => v.output = Key(s)'
      BY <2>9, <3>1
    <3> QED
      BY <1>1, <2>1, <3>2, <3>3, <3>4, <3>5, StillHeld
  <2>10. CASE Rerun(s)
    <3>1. PICK c, process : Script(s, c, process)
      BY <2>10 DEF Rerun
    <3>2. \/ UNCHANGED <<large, scratch, workdirs>>
          \/ large' = [large EXCEPT ![s] = NoResult] /\ Discard(large[s].dir)
      BY <3>1, ScriptOutcome, Zenon
    <3>3. UNCHANGED <<large, scratch, workdirs>> \/ (large'[s].dir = 0 /\ Discard(large[s].dir))
      BY <2>4, <3>2 DEF PageTypeOK
    <3> QED
      BY <2>4, <2>7, <2>10, <3>3 DEF Rerun
  <2>11. CASE StopScript(s)
    BY <2>8, <2>11 DEF StopScript
  <2>12. CASE CloseTab(s)
    <3>1. large'[s].dir = 0
      BY <2>4, <2>12 DEF CloseTab, PageTypeOK
    <3>2. CASE script[s] = "shown"
      BY <2>4, <2>7, <2>12, <3>1, <3>2 DEF CloseTab, KeepDirs
    <3>3. CASE script[s] # "shown"
      BY <2>8, <2>12, <3>1, <3>3 DEF CloseTab
    <3> QED
      BY <3>2, <3>3
  <2>13. CASE MakeWorkdir(s)
    <3> DEFINE empty(d) == [id |-> d, source |-> 0, output |-> <<0, "none">>]
    <3>1. PICK d \in 1 .. MaxRuns + 1 :
            dir' = [dir EXCEPT ![s] = d] /\ scratch' = scratch \cup {empty(d)}
      BY <2>13 DEF MakeWorkdir
    <3>2. empty(d).id = d /\ empty(d).source = 0
      OBVIOUS
    <3> HIDE DEF empty
    <3>3. dir'[s] = d /\ script'[s] = "spool" /\ UNCHANGED large /\ dir[s] = 0
      BY <2>2, <2>13, <3>1 DEF MakeWorkdir, PageTypeOK, Busy
    <3>4. d # 0 /\ d # large[s].dir
      BY <1>1, <3>3, PageAssumption DEF OwnedInv
    <3>5. \A w \in scratch' : w.id = large'[s].dir => w.output = large'[s].key
      BY <2>3, <3>1, <3>2, <3>3, <3>4
    <3>6. \A w \in scratch' : w.source # 0 => w \in scratch /\ w.id # dir[s]
      BY <2>5, <3>1, <3>2, <3>3
    <3> QED
      BY <1>1, <2>1, <3>1, <3>2, <3>3, <3>5, <3>6, StillHeld
  <2>14. ASSUME script[s] \in Working
         PROVE  dir[s] \in Ids /\ In(dir[s]) \in Dirs /\ In(dir[s]) \in scratch /\ In(dir[s]).id = dir[s]
    <3>1. dir[s] \in Ids
      BY <2>1, <2>2, <2>14 DEF OwnedInv
    <3> QED
      BY <2>2, <3>1, DirOnDisk
  <2>15. CASE Spool(s) /\ ~Abandon(s, "shown")
    <3> DEFINE spooled == [In(dir[s]) EXCEPT !.source = chosen[s].upload.id]
    <3>1. /\ Put(dir[s], spooled) /\ script' = [script EXCEPT ![s] = "redact"]
          /\ UNCHANGED <<dir, large, chosen>> /\ script[s] = "spool"
      BY <2>15 DEF Spool
    <3>2. script[s] \in Working /\ script'[s] = "redact"
      BY <3>1 DEF Busy, PageTypeOK
    <3>3. spooled.id = dir[s] /\ spooled.source = chosen[s].upload.id
      BY <2>14, <3>2
    <3> HIDE DEF spooled
    <3> QED
      BY <2>9, <2>14, <3>1, <3>2, <3>3
  <2>16. CASE RedactLarge(s) /\ ~Abandon(s, "shown")
    <3> DEFINE redacted == [In(dir[s]) EXCEPT !.output = <<In(dir[s]).source, chosen[s].settings>>]
    <3>1. /\ Put(dir[s], redacted) /\ script' = [script EXCEPT ![s] = "remove"]
          /\ UNCHANGED <<dir, large, chosen>> /\ script[s] = "redact"
      BY <2>16 DEF RedactLarge
    <3>2. script[s] \in Working /\ script'[s] = "remove"
      BY <3>1 DEF Busy, PageTypeOK
    <3>3. redacted.id = dir[s] /\ redacted.output = <<In(dir[s]).source, chosen[s].settings>>
      BY <2>14, <3>2
    <3>4. In(dir[s]).source = chosen[s].upload.id
      BY <2>3, <2>14, <3>1, <3>2
    <3>5. redacted.output = Key(s)'
      BY <3>1, <3>3, <3>4 DEF Key
    <3> HIDE DEF redacted
    <3> QED
      BY <2>9, <2>14, <3>1, <3>2, <3>3, <3>5
  <2>17. CASE (Spool(s) \/ RedactLarge(s)) /\ Abandon(s, "shown")
    BY <2>8, <2>17 DEF Spool, RedactLarge
  <2>18. CASE RemoveSource(s)
    <3> DEFINE emptied == [In(dir[s]) EXCEPT !.source = 0]
    <3>1. /\ Put(dir[s], emptied) /\ script' = [script EXCEPT ![s] = "commit"]
          /\ UNCHANGED <<dir, large, chosen>> /\ script[s] = "remove"
      BY <2>18 DEF RemoveSource
    <3>2. script[s] \in Working /\ script'[s] = "commit"
      BY <3>1 DEF Busy, PageTypeOK
    <3>3. emptied.id = dir[s] /\ emptied.source = 0 /\ emptied.output = In(dir[s]).output
      BY <2>14, <3>2
    <3>4. emptied.output = Key(s)'
      BY <2>3, <2>14, <3>1, <3>2, <3>3 DEF Key
    <3> HIDE DEF emptied
    <3> QED
      BY <2>9, <2>14, <3>1, <3>2, <3>3, <3>4
  <2>19. CASE Commit(s)
    <3>1. /\ large' = [large EXCEPT ![s] = [key |-> Key(s), dir |-> dir[s], saved |-> 0]]
          /\ dir'[s] = 0 /\ script[s] = "commit" /\ UNCHANGED scratch
      BY <2>19 DEF Commit, PageTypeOK
    <3>2. large'[s].dir = dir[s] /\ large'[s].key = Key(s)
      BY <3>1 DEF PageTypeOK
    <3>3. \A w \in scratch : w.id = large'[s].dir => w.output = large'[s].key
      BY <2>3, <3>1, <3>2
    <3>4. \A w \in scratch : w.source # 0 => w.id # dir[s]
      <4> SUFFICES ASSUME NEW w \in scratch, w.source # 0, w.id = dir[s] PROVE FALSE
        OBVIOUS
      <4>1. PICK r \in Sessions : dir[r] = w.id /\ script[r] \in {"redact", "remove"}
        BY DEF HoldsInv
      <4> QED
        BY <2>2, <2>5, <3>1, <4>1
    <3> QED
      BY <1>1, <2>1, <2>5, <3>1, <3>3, <3>4, StillHeld
  <2>20. CASE FindName(s)
    BY <2>4, <2>7, <2>20 DEF FindName
  <2>21. CASE Move(s)
    <3>1. large' = [large EXCEPT ![s] = [key |-> large[s].key, dir |-> 0, saved |-> saveTo[s]]]
      BY <2>21, MovedResult
    <3>2. large'[s].dir = 0
      BY <3>1 DEF PageTypeOK
    <3>3. Discard(large[s].dir) /\ dir' = dir /\ script[s] = "move"
      BY <2>21 DEF Move
    <3> QED
      BY <2>4, <2>7, <3>2, <3>3
  <2> QED
    BY <1>3, <2>10, <2>11, <2>12, <2>13, <2>15, <2>16, <2>17, <2>18, <2>19, <2>20, <2>21
       DEF TabStep
<1> QED
  BY <1>2, <1>3 DEF PageNext, TabStep

LEMMA PageStepResults ==
    ASSUME PageTypeOK, OwnedInv, HoldsInv, ResultInv, PageNext
    PROVE  ResultInv'
<1> DEFINE Results == [key : Keys, dir : Nat, saved : Nat]
<1>1. CASE StopServer
  BY <1>1 DEF StopServer, ResultInv, Key
<1>2. ASSUME NEW s \in Sessions, TabStep(s)
      PROVE  ResultInv'
  <2>1. server = "up" /\ server' = "up" /\ OthersKeep(s)
    BY <1>2, OtherTabs
  <2>2. /\ large[s] # NoResult /\ large[s].saved = 0 => large[s].dir # 0
        /\ large[s].saved # 0 =>
             saveRaced \/ (large[s].saved \in DOMAIN folder /\ folder[large[s].saved] = large[s].key)
        /\ shown[s] # NoResult => shown[s] = large[s] /\ shown[s].key = Key(s)
        /\ script[s] = "move" =>
             shown[s] = large[s] /\ large[s].dir # 0 /\ large[s].saved = 0 /\ saveTo[s] # 0
    BY DEF ResultInv
  <2>3. NoResult.dir = 0 /\ NoResult.saved = 0
    BY DEF NoResult
  <2>4. chosen[s] \in [upload : Selected, settings : Settings] /\ large[s] \in Results
    BY DEF PageTypeOK
  <2>5. ASSUME TabResult(s)', UNCHANGED <<folder, saveRaced>>
        PROVE  ResultInv'
    BY <2>1, <2>5, StillResults
  \* Nothing that concerns the result, or it is dropped.
  <2>6. ASSUME UNCHANGED <<chosen, folder, saveRaced>>, script'[s] # "move",
               \/ large'[s] = large[s] /\ shown'[s] = shown[s]
               \/ large'[s] = NoResult /\ shown'[s] = NoResult
        PROVE  ResultInv'
    <3>1. TabResult(s)'
      BY <2>2, <2>3, <2>6 DEF TabResult, Key
    <3> QED
      BY <2>5, <2>6, <3>1
  <2>7. CASE Rerun(s)
    <3>1. PICK u \in Selected, x \in Settings, process \in BOOLEAN :
            /\ chosen' = [chosen EXCEPT ![s] = [upload |-> u, settings |-> x]]
            /\ Script(s, [upload |-> u, settings |-> x], process)
      BY <2>7 DEF Rerun
    <3> DEFINE c == [upload |-> u, settings |-> x]
    <3>2. /\ \/ shown' = [shown EXCEPT ![s] = NoResult]
             \/ /\ shown' = [shown EXCEPT ![s] = large[s]] /\ UNCHANGED large
                /\ large[s].key = <<c.upload.id, c.settings>>
          /\ \/ UNCHANGED large
             \/ large' = [large EXCEPT ![s] = NoResult]
          /\ \/ script' = [script EXCEPT ![s] = "shown"]
             \/ script' = [script EXCEPT ![s] = "mkdtemp"]
      BY <3>1, ScriptOutcome, Zenon
    <3>3. Key(s)' = <<c.upload.id, c.settings>>
      BY <3>1 DEF Key, PageTypeOK
    <3>4. \/ shown'[s] = NoResult /\ large'[s] \in {large[s], NoResult}
          \/ /\ shown'[s] = large[s] /\ large'[s] = large[s] /\ large[s].key = Key(s)'
      BY <3>2, <3>3 DEF PageTypeOK
    <3>5. script'[s] # "move"
      BY <3>2 DEF PageTypeOK
    <3>6. TabResult(s)'
      BY <2>2, <2>3, <2>7, <3>4, <3>5 DEF TabResult, Rerun
    <3> QED
      BY <2>5, <2>7, <3>6 DEF Rerun
  <2>8. ASSUME NEW where \in {"shown", "closed"}, Abandon(s, where) PROVE script'[s] # "move"
    BY <2>8 DEF Abandon, PageTypeOK
  <2>9. CASE StopScript(s)
    BY <2>6, <2>8, <2>9 DEF StopScript
  <2>10. CASE CloseTab(s)
    <3>1. large'[s] = NoResult /\ shown'[s] = NoResult
      BY <2>10 DEF CloseTab, PageTypeOK
    <3>2. script'[s] # "move"
      BY <2>8, <2>10 DEF CloseTab, PageTypeOK
    <3> QED
      BY <2>6, <2>10, <3>1, <3>2 DEF CloseTab
  <2>11. CASE MakeWorkdir(s)
    BY <2>6, <2>11 DEF MakeWorkdir, PageTypeOK
  <2>12. CASE Spool(s)
    <3>1. script'[s] # "move"
      BY <2>8, <2>12 DEF Spool, PageTypeOK
    <3> QED
      BY <2>6, <2>12, <3>1 DEF Spool
  <2>13. CASE RedactLarge(s)
    <3>1. script'[s] # "move"
      BY <2>8, <2>13 DEF RedactLarge, PageTypeOK
    <3> QED
      BY <2>6, <2>13, <3>1 DEF RedactLarge
  <2>14. CASE RemoveSource(s)
    BY <2>6, <2>14 DEF RemoveSource, PageTypeOK
  <2>15. CASE Commit(s)
    <3>1. /\ large'[s] = [key |-> Key(s), dir |-> dir[s], saved |-> 0]
          /\ shown'[s] = large'[s] /\ script'[s] = "shown" /\ UNCHANGED <<chosen, folder, saveRaced>>
      BY <2>15 DEF Commit, PageTypeOK
    <3>2. dir[s] # 0
      BY <2>15 DEF Commit, OwnedInv, Busy
    <3>3. TabResult(s)'
      BY <3>1, <3>2 DEF TabResult, Key
    <3> QED
      BY <2>5, <3>1, <3>3
  <2>16. CASE FindName(s)
    <3>1. /\ saveTo'[s] = FreeName /\ script'[s] = "move" /\ shown[s].dir # 0 /\ shown[s].saved = 0
          /\ UNCHANGED <<chosen, large, shown, folder, saveRaced>>
      BY <2>16 DEF FindName, PageTypeOK
    <3>2. FreeName # 0
      <4>1. Cardinality(DOMAIN folder) \in Nat
        BY FS_CardinalityType DEF PageTypeOK
      <4> QED
        BY <4>1 DEF FreeName
    <3>3. TabResult(s)'
      BY <2>2, <2>3, <3>1, <3>2 DEF TabResult, Key
    <3> QED
      BY <2>5, <3>1, <3>3
  <2>17. CASE Move(s)
    <3>1. large' = [large EXCEPT ![s] = [key |-> large[s].key, dir |-> 0, saved |-> saveTo[s]]]
      BY <2>17, MovedResult
    <3>2. large'[s] = [key |-> large[s].key, dir |-> 0, saved |-> saveTo[s]]
      BY <3>1 DEF PageTypeOK
    <3>3. /\ saveRaced' = (saveRaced \/ saveTo[s] \in DOMAIN folder)
          /\ shown'[s] = large'[s] /\ script'[s] = "shown" /\ script[s] = "move" /\ chosen' = chosen
      BY <2>17 DEF Move, PageTypeOK
    <3>4. /\ DOMAIN folder' = DOMAIN folder \cup {saveTo[s]}
          /\ folder'[saveTo[s]] = In(large[s].dir).output
          /\ \A n \in DOMAIN folder : n # saveTo[s] => folder'[n] = folder[n]
      BY <2>17 DEF Move
    <3>5. In(large[s].dir).output = large[s].key
      <4>1. large[s].dir \in Ids
        BY <2>1, <2>2, <3>3 DEF OwnedInv
      <4>2. In(large[s].dir) \in scratch /\ In(large[s].dir).id = large[s].dir
        BY <4>1, DirOnDisk
      <4> QED
        BY <4>2 DEF HoldsInv
    <3>6. shown[s] # NoResult /\ saveTo[s] # 0
      BY <2>2, <2>3, <3>3
    <3>7. large'[s].key = Key(s)'
      BY <2>2, <3>2, <3>3, <3>6 DEF Key
    <3>8. TabResult(s)'
      BY <3>2, <3>3, <3>4, <3>5, <3>6, <3>7 DEF TabResult
    <3>9. saveRaced' \/ \A n \in DOMAIN folder : n \in DOMAIN folder' /\ folder'[n] = folder[n]
      BY <3>3, <3>4
    <3> QED
      BY <2>1, <3>3, <3>8, <3>9, StillResults
  <2> QED
    BY <1>2, <2>7, <2>9, <2>10, <2>11, <2>12, <2>13, <2>14, <2>15, <2>16, <2>17 DEF TabStep
<1> QED
  BY <1>1, <1>2 DEF PageNext, TabStep

LEMMA PageInitInv == PageInit => PageInv
<1> SUFFICES ASSUME PageInit PROVE PageInv
  OBVIOUS
<1>1. NoUpload \in Selected /\ "a" \in Settings
  BY DEF Selected, Settings
<1>2. DOMAIN folder = {} /\ IsFiniteSet(DOMAIN folder)
  BY FS_EmptySet DEF PageInit
<1>3. PageTypeOK
  BY <1>1, <1>2, PageTypes DEF PageInit, PageTypeOK
<1>4. OwnedInv /\ HoldsInv
  BY DEF PageInit, OwnedInv, HoldsInv, Ids, NoResult, Busy
<1>5. ResultInv
  BY DEF PageInit, ResultInv, NoResult
<1> QED
  BY <1>3, <1>4, <1>5 DEF PageInv

LEMMA PageStepInv == PageInv /\ [PageNext]_pageVars => PageInv'
<1> SUFFICES ASSUME PageInv, [PageNext]_pageVars PROVE PageInv'
  OBVIOUS
<1>1. CASE PageNext
  BY <1>1, PageStepTypes, PageStepOwned, PageStepHolds, PageStepResults DEF PageInv
<1>2. CASE UNCHANGED pageVars
  <2>1. PageTypeOK'
    BY <1>2 DEF pageVars, PageInv, PageTypeOK
  <2>2. OwnedInv'
    BY <1>2 DEF pageVars, PageInv, OwnedInv, Ids
  <2>3. HoldsInv' /\ ResultInv'
    BY <1>2 DEF pageVars, PageInv, HoldsInv, ResultInv, Key
  <2> QED
    BY <2>1, <2>2, <2>3 DEF PageInv
<1> QED
  BY <1>1, <1>2

LEMMA PageInvariant == PageSpec => []PageInv
  BY PageInitInv, PageStepInv, PTL DEF PageSpec

\* For any tabs, uploads and number of reruns: the copy of an upload is on the
\* disk only while its own tab's script works on it, the cleanup at exit knows
\* every scratch directory, and what a tab shows is of its upload and settings
\* and is where it says (ui.app.main, _process_large, _large_output; ui.core
\* new_workdir, discard_workdir, _cleanup_workdirs).
THEOREM PageScratchKept == PageSpec => []ScratchKept
<1>1. PageInv => ScratchKept
  <2> SUFFICES ASSUME PageInv PROVE ScratchKept
    OBVIOUS
  <2> DEFINE working == {s \in Sessions : script[s] \in Busy}
             results == {s \in Sessions : large[s] # NoResult}
  <2>1. \A w \in scratch : w.source # 0 => \E s \in working : dir[s] = w.id
    BY DEF PageInv, HoldsInv, Busy
  <2>2. server = "up" => Ids = workdirs
    BY DEF PageInv, OwnedInv
  <2>3. ASSUME server = "stopped", NEW w \in scratch PROVE \E s \in working : dir[s] = w.id
    <3>1. w.id \in Ids /\ w.id # 0
      BY DEF Ids, PageInv, PageTypeOK
    <3>2. PICK s \in Sessions : dir[s] = w.id
      BY <2>3, <3>1 DEF PageInv, OwnedInv
    <3>3. script[s] \in Busy
      BY <3>1, <3>2 DEF PageInv, OwnedInv
    <3> QED
      BY <3>2, <3>3
  <2>4. \A s \in Sessions : shown[s] # NoResult => shown[s] = large[s] /\ shown[s].key = Key(s)
    BY DEF PageInv, ResultInv
  <2>5. ASSUME server = "up", NEW s \in results
        PROVE  IF large[s].saved = 0 THEN \E w \in scratch : w.id = large[s].dir /\ w.output = large[s].key
                                     ELSE saveRaced \/ folder[large[s].saved] = large[s].key
    <3>1. CASE large[s].saved = 0
      <4>1. large[s].dir \in Ids
        BY <2>5, <3>1 DEF PageInv, ResultInv, OwnedInv
      <4>2. PICK w \in scratch : w.id = large[s].dir
        BY <4>1 DEF Ids
      <4>3. w.output = large[s].key
        BY <4>2 DEF PageInv, HoldsInv
      <4> QED
        BY <3>1, <4>2, <4>3
    <3>2. CASE large[s].saved # 0
      BY <3>2 DEF PageInv, ResultInv
    <3> QED
      BY <3>1, <3>2
  <2>6. \A s, r \in results : s # r /\ large[s].dir # 0 => large[s].dir # large[r].dir
    BY DEF PageInv, OwnedInv
  <2> QED
    BY <2>1, <2>2, <2>3, <2>4, <2>5, <2>6 DEF ScratchKept
<1> QED
  BY <1>1, PageInvariant, PTL

----------------------------------------------------------------------------
(* Admission under --memory-limit.                                         *)

\* What \div does, and that more of what costs something costs no less.
LEMMA Division ==
    ASSUME NEW a \in Nat, NEW b \in Nat \ {0}
    PROVE  /\ a \div b \in Nat
           /\ b * (a \div b) <= a
           /\ a < b * (a \div b) + b
<1>1. a \div b \in Int
  OBVIOUS
<1>2. a \div b >= 0
  OBVIOUS
<1>3. b * (a \div b) <= a
  OBVIOUS
<1>4. a < b * (a \div b) + b
  OBVIOUS
<1> QED
  BY <1>1, <1>2, <1>3, <1>4

LEMMA FewerCostLess ==
    ASSUME NEW a \in Nat, NEW b \in Nat, a <= b, NEW c \in Nat
    PROVE  a * c \in Nat /\ a * c <= b * c
<1>1. PICK d \in Nat : b = a + d
  <2>1. b - a \in Nat /\ b = a + (b - a)
    OBVIOUS
  <2> QED
    BY <2>1
<1>2. a * c \in Nat /\ d * c \in Nat
  OBVIOUS
<1>3. b * c = a * c + d * c
  BY <1>1
<1> QED
  BY <1>2, <1>3

\* The sizes that a plan is computed from.
LEMMA PlanSizes ==
    ASSUME NEW r \in Requests(Nat \ {0}, Nat \ {0}, Nat, Nat, Nat)
    PROVE  /\ r.limit \in Nat \ {0} /\ r.chunk \in Nat \ {0} /\ r.overlap \in Nat
           /\ r.workers \in Nat /\ r.cpus \in Nat
           /\ PerWorkerFixed(r) \in Nat /\ ModelBytes(r) \in Nat /\ ReserveBytes(r) \in Nat
           /\ Allocatable(r) = r.limit - ModelBytes(r) - ReserveBytes(r) /\ Allocatable(r) \in Int
           /\ EffectiveChunk(r.chunk, r.overlap) \in Nat \ {0}
           /\ EstimatedChars(r.chunk, r.overlap)
                = 4 * (EffectiveChunk(r.chunk, r.overlap) + r.overlap)
           /\ PerWorkerEstimate(r) = EstimatedChars(r.chunk, r.overlap) + PerWorkerFixed(r)
           /\ PerWorkerEstimate(r) \in Nat \ {0}
<1>1. /\ r.limit \in Nat \ {0} /\ r.chunk \in Nat \ {0} /\ r.overlap \in Nat
      /\ r.workers \in Nat /\ r.cpus \in Nat
  BY DEF Requests
<1>2. PerWorkerFixed(r) \in Nat /\ ModelBytes(r) \in Nat
  BY BudgetAssumption DEF PerWorkerFixed, ModelBytes
<1>3. ReserveBytes(r) \in Nat
  BY <1>1 DEF ReserveBytes, ReservePercent
<1>4. EffectiveChunk(r.chunk, r.overlap) \in Nat \ {0}
  BY <1>1 DEF EffectiveChunk
<1>5. EstimatedChars(r.chunk, r.overlap) = 4 * (EffectiveChunk(r.chunk, r.overlap) + r.overlap)
  BY DEF EstimatedChars, STREAM_CHAR_FACTOR
<1>6. PerWorkerEstimate(r) = EstimatedChars(r.chunk, r.overlap) + PerWorkerFixed(r)
  BY DEF PerWorkerEstimate
<1>7. PerWorkerEstimate(r) \in Nat \ {0}
  <2>1. \A e \in Nat \ {0}, o, f \in Nat : 4 * (e + o) + f \in Nat \ {0}
    OBVIOUS
  <2> QED
    BY <1>1, <1>2, <1>4, <1>5, <1>6, <2>1
<1>8. Allocatable(r) = r.limit - ModelBytes(r) - ReserveBytes(r) /\ Allocatable(r) \in Int
  BY <1>1, <1>2, <1>3 DEF Allocatable
<1> QED
  BY <1>1, <1>2, <1>3, <1>4, <1>5, <1>6, <1>7, <1>8

\* Twice the estimate covers what a pass of the engine holds.
LEMMA EstimateCovers ==
    ASSUME NEW chunk \in Nat \ {0}, NEW overlap \in Nat
    PROVE  \A held \in HeldByPasses(chunk, overlap) : held <= 2 * EstimatedChars(chunk, overlap)
<1> DEFINE need == overlap + Larger(Larger(overlap, chunk), 1)
           effective == EffectiveChunk(chunk, overlap)
<1>1. /\ need \in Nat /\ effective \in Nat
      /\ chunk >= overlap => need = overlap + chunk /\ effective = chunk
      /\ chunk < overlap => need = overlap + overlap /\ effective = chunk + overlap
  BY DEF Larger, EffectiveChunk
<1>2. EstimatedChars(chunk, overlap) = 4 * (effective + overlap)
  BY DEF EstimatedChars, STREAM_CHAR_FACTOR
<1> HIDE DEF need, effective
<1>3. ASSUME NEW left \in Nat, left <= need, left + chunk <= need + chunk - 1 \/ left = 0,
             NEW prefix \in 0 .. overlap
      PROVE  Held(chunk, overlap, left, prefix) <= 2 * EstimatedChars(chunk, overlap)
  <2> DEFINE chunks == (need - left + chunk - 1) \div chunk
             buffer == BufferAfter(chunk, overlap, left)
  <2>1. need - left + chunk - 1 \in Nat
    BY <1>1, <1>3
  <2>2. chunks \in Nat /\ chunk * chunks \in Nat /\ chunk * chunks <= need - left + chunk - 1
    <3> HIDE DEF chunks
    <3>1. chunks \in Nat /\ chunk * chunks <= need - left + chunk - 1
      BY <2>1, Division DEF chunks
    <3> QED
      BY <3>1
  <2>3. buffer = left + chunk * Larger(chunks, 1)
    BY DEF BufferAfter, need
  <2> HIDE DEF chunks, buffer
  <2>4. chunk * Larger(chunks, 1) = chunk * chunks \/ chunk * Larger(chunks, 1) = chunk
    BY <2>2 DEF Larger
  <2>5. buffer \in Nat /\ (buffer <= need + chunk - 1 \/ buffer <= left + chunk)
    BY <1>1, <1>3, <2>2, <2>3, <2>4
  <2>6. buffer <= need + chunk
    BY <1>1, <1>3, <2>5
  <2>7. /\ Held(chunk, overlap, left, prefix) \in Int
        /\ Held(chunk, overlap, left, prefix) <= 4 * buffer + prefix - 2 * overlap
    BY <1>3, <2>5 DEF Held, buffer
  <2>8. 4 * buffer + prefix - 2 * overlap <= 8 * (effective + overlap)
    BY <1>1, <1>3, <2>5, <2>6
  <2>9. 8 * (effective + overlap) = 2 * EstimatedChars(chunk, overlap)
    BY <1>1, <1>2
  <2> QED
    BY <1>1, <1>3, <2>5, <2>7, <2>8, <2>9
<1>4. Held(chunk, overlap, 0, 0) <= 2 * EstimatedChars(chunk, overlap)
  BY <1>1, <1>3
<1>5. ASSUME NEW left \in overlap .. Larger(overlap, 2 * overlap - 1)
      PROVE  Held(chunk, overlap, left, overlap) <= 2 * EstimatedChars(chunk, overlap)
  <2>1. left \in Nat /\ (left < need \/ left = 0)
    BY <1>1, <1>5 DEF Larger
  <2> QED
    BY <1>1, <1>3, <2>1
<1> QED
  BY <1>4, <1>5 DEF HeldByPasses

\* An admitted plan keeps its promises; a refusal was right.
LEMMA PlansHold ==
    ASSUME NEW r \in Requests(Nat \ {0}, Nat \ {0}, Nat, Nat, Nat)
    PROVE  PlanHolds(r)
<1> DEFINE per == PerWorkerEstimate(r)
           model == ModelBytes(r)
           reserve == ReserveBytes(r)
           alloc == Allocatable(r)
           affordable == Larger(1, alloc \div per)
           asked == IF r.workers = 0 THEN affordable ELSE Smaller(affordable, r.workers)
           workers == Smaller(asked, Larger(1, r.cpus))
<1>1. /\ per \in Nat \ {0} /\ model \in Nat /\ reserve \in Nat /\ alloc \in Int
      /\ alloc = r.limit - model - reserve
      /\ r.limit \in Nat /\ r.workers \in Nat /\ r.cpus \in Nat
  BY PlanSizes
<1>2. Plan(r) = IF model >= r.limit \/ per > alloc THEN Refused
                ELSE [admitted |-> TRUE, workers |-> workers, perWorker |-> per,
                      headroom |-> r.limit - (workers * per + model + reserve)]
  BY DEF Plan
<1>3. CASE model >= r.limit \/ per > alloc
  <2>1. ~Plan(r).admitted
    BY <1>2, <1>3 DEF Refused
  <2>2. model >= r.limit \/ per + model + reserve > r.limit
    <3> HIDE DEF per, model, reserve, alloc
    <3> QED
      BY <1>1, <1>3
  <2> QED
    BY <2>1, <2>2 DEF PlanHolds
<1>4. CASE ~(model >= r.limit \/ per > alloc)
  <2>1. /\ Plan(r).admitted /\ Plan(r).workers = workers /\ Plan(r).perWorker = per
        /\ Plan(r).headroom = r.limit - (workers * per + model + reserve)
    BY <1>2, <1>4
  <2>2. per <= alloc /\ alloc \in Nat
    <3> HIDE DEF per, model, reserve, alloc
    <3> QED
      BY <1>1, <1>4
  <2>3. /\ alloc \div per \in Nat \ {0} /\ per * (alloc \div per) <= alloc
    <3> HIDE DEF per, model, reserve, alloc
    <3> DEFINE q == alloc \div per
    <3>1. q \in Nat /\ per * q <= alloc /\ alloc < per * q + per
      BY <1>1, <2>2, Division
    <3> HIDE DEF q
    <3>2. q # 0
      BY <1>1, <2>2, <3>1
    <3> QED
      BY <3>1, <3>2 DEF q
  <2>4. affordable = alloc \div per
    <3> HIDE DEF per, alloc
    <3> QED
      BY <2>3 DEF Larger
  <2>5. /\ workers \in 1 .. Larger(1, r.cpus) /\ workers <= affordable
        /\ r.workers # 0 => workers <= r.workers
    <3>1. affordable \in Nat \ {0}
      BY <2>3, <2>4
    <3> HIDE DEF affordable
    <3> QED
      BY <1>1, <3>1 DEF Larger, Smaller
  <2>6. r.limit - (workers * per + model + reserve) >= 0
    <3>1. workers \in Nat /\ affordable \in Nat /\ per * affordable <= alloc
      BY <2>3, <2>4, <2>5
    <3> HIDE DEF workers, affordable, per, model, reserve, alloc
    <3>2. workers * per \in Nat /\ workers * per <= affordable * per
      BY <1>1, <2>5, <3>1, FewerCostLess
    <3>3. affordable * per = per * affordable
      BY <1>1, <3>1
    <3>4. workers * per <= alloc
      BY <1>1, <3>1, <3>2, <3>3
    <3> QED
      BY <1>1, <3>2, <3>4
  <2>7. \A held \in HeldByPasses(r.chunk, r.overlap) : held <= 2 * (per - PerWorkerFixed(r))
    <3>1. per - PerWorkerFixed(r) = EstimatedChars(r.chunk, r.overlap)
      <4>1. \A e, o, f \in Nat : 4 * (e + o) + f - f = 4 * (e + o)
        OBVIOUS
      <4> QED
        BY <4>1, PlanSizes
    <3> QED
      BY <3>1, EstimateCovers, PlanSizes
  <2> QED
    BY <2>1, <2>5, <2>6, <2>7 DEF PlanHolds
<1> QED
  BY <1>3, <1>4

\* The hint of a refusal is the largest chunk that is admitted.
LEMMA HintsFit ==
    ASSUME NEW r \in Requests(Nat \ {0}, Nat \ {0}, Nat, Nat, Nat)
    PROVE  HintFits(r)
<1> DEFINE hint == LargestFittingChunk(r)
           with(chunk) == [r EXCEPT !.chunk = chunk, !.workers = 1]
           fixed == PerWorkerFixed(r)
           alloc == Allocatable(r)
<1>1. SUFFICES ASSUME hint >= r.overlap, hint > 0
               PROVE  Plan(with(hint)).admitted /\ ~Plan(with(hint + 1)).admitted
  BY DEF HintFits
<1>2. /\ alloc \in Int /\ fixed \in Nat /\ r.overlap \in Nat /\ r.limit \in Nat
      /\ ModelBytes(r) \in Nat /\ ReserveBytes(r) \in Nat
      /\ alloc = r.limit - ModelBytes(r) - ReserveBytes(r)
  BY PlanSizes
<1>3. hint \in Nat /\ 4 * (hint + r.overlap) <= alloc - fixed
                   /\ alloc - fixed < 4 * (hint + 1 + r.overlap)
  <2>1. hint = Larger(0, (alloc - fixed) \div 4 - r.overlap)
    BY DEF LargestFittingChunk, STREAM_CHAR_FACTOR
  <2> HIDE DEF hint, alloc, fixed
  <2> QED
    BY <1>1, <1>2, <2>1 DEF Larger
<1>4. ASSUME NEW chunk \in Nat \ {0}, chunk >= r.overlap
      PROVE  /\ PerWorkerEstimate(with(chunk)) = 4 * (chunk + r.overlap) + fixed
             /\ ModelBytes(with(chunk)) = ModelBytes(r) /\ with(chunk).limit = r.limit
             /\ Allocatable(with(chunk)) = alloc
  <2>1. /\ with(chunk).chunk = chunk /\ with(chunk).overlap = r.overlap
        /\ with(chunk).limit = r.limit /\ with(chunk).model = r.model
        /\ with(chunk).native = r.native
    BY DEF Requests
  <2> HIDE DEF with
  <2>2. PerWorkerFixed(with(chunk)) = fixed /\ ModelBytes(with(chunk)) = ModelBytes(r)
    BY <2>1 DEF PerWorkerFixed, ModelBytes
  <2>3. Allocatable(with(chunk)) = alloc
    BY <2>1, <2>2 DEF Allocatable, ReserveBytes
  <2>4. EstimatedChars(chunk, r.overlap) = 4 * (chunk + r.overlap)
    BY <1>4 DEF EstimatedChars, STREAM_CHAR_FACTOR, EffectiveChunk
  <2>5. PerWorkerEstimate(with(chunk)) = 4 * (chunk + r.overlap) + fixed
    BY <2>1, <2>2, <2>4 DEF PerWorkerEstimate
  <2> QED
    BY <2>1, <2>2, <2>3, <2>5
<1>5. Plan(with(hint)).admitted
  <2>1. /\ PerWorkerEstimate(with(hint)) = 4 * (hint + r.overlap) + fixed
        /\ ModelBytes(with(hint)) = ModelBytes(r) /\ with(hint).limit = r.limit
        /\ Allocatable(with(hint)) = alloc
    <3>1. hint \in Nat \ {0} /\ hint >= r.overlap
      <4> HIDE DEF hint
      <4> QED
        BY <1>1, <1>3
    <3> HIDE DEF hint, alloc, fixed, with
    <3> QED
      BY <3>1, <1>4
  <2>2. /\ ~(ModelBytes(r) >= r.limit) /\ ~(4 * (hint + r.overlap) + fixed > alloc)
    <3> HIDE DEF hint, alloc, fixed
    <3> QED
      BY <1>1, <1>2, <1>3
  <2>3. ~(ModelBytes(with(hint)) >= with(hint).limit)
        /\ ~(PerWorkerEstimate(with(hint)) > Allocatable(with(hint)))
    BY <2>1, <2>2, Zenon
  <2> HIDE DEF with, hint
  <2> QED
    BY <2>3 DEF Plan
<1>6. ~Plan(with(hint + 1)).admitted
  <2>1. /\ PerWorkerEstimate(with(hint + 1)) = 4 * (hint + 1 + r.overlap) + fixed
        /\ Allocatable(with(hint + 1)) = alloc
    <3>1. hint + 1 \in Nat \ {0} /\ hint + 1 >= r.overlap
      <4> HIDE DEF hint
      <4> QED
        BY <1>1, <1>2, <1>3
    <3> HIDE DEF hint, alloc, fixed, with
    <3> QED
      BY <3>1, <1>4
  <2>2. 4 * (hint + 1 + r.overlap) + fixed > alloc
    <3> HIDE DEF hint, alloc, fixed
    <3> QED
      BY <1>2, <1>3
  <2>3. PerWorkerEstimate(with(hint + 1)) > Allocatable(with(hint + 1))
    BY <2>1, <2>2, Zenon
  <2> HIDE DEF with, hint
  <2> QED
    BY <2>3 DEF Plan, Refused
<1> QED
  BY <1>5, <1>6

\* A cap is never above the limits in force, and not below what was asked for
\* unless they are.
LEMMA CapsTighten ==
    ASSUME NEW l \in Rlimits, NEW growth \in Nat \ {0}, l.size + growth <= Unlimited
    PROVE  CapOnlyTightens(l.size, growth, l.soft, l.hard)
<1> DEFINE new == AddressSpaceLimit(l.size, growth, l.soft, l.hard)
           cap == l.size + growth
<1>1. /\ l.size \in Nat /\ l.soft \in 0 .. Unlimited /\ l.hard \in 0 .. Unlimited
      /\ l.soft <= l.hard /\ Unlimited \in Nat
  BY BudgetAssumption
<1>2. Larger(1, growth) = growth
  BY DEF Larger
<1> DEFINE hard == IF l.hard = Unlimited THEN cap ELSE Smaller(cap, l.hard)
           soft == IF l.soft = Unlimited THEN hard ELSE Smaller(Smaller(cap, hard), l.soft)
<1>3. new.hard = hard /\ new.soft = soft
  BY <1>2 DEF AddressSpaceLimit
<1>4. /\ soft <= hard /\ soft <= l.soft /\ hard <= l.hard /\ soft <= cap
      /\ cap <= l.soft => soft = cap
  BY <1>1 DEF Smaller
<1> QED
  BY <1>3, <1>4 DEF CapOnlyTightens

\* For any sizes: an admitted run keeps within its limit with at least one
\* worker, twice the estimate covers what the engine holds, a refusal was right
\* and its hint is the largest chunk that fits, and the cap asked of the kernel
\* only tightens what is in force (memory_budget: plan, _largest_fitting_chunk,
\* enforce_address_space_limit; streaming.stream_windows).
THEOREM BudgetAlwaysHolds == BudgetInit => BudgetHolds
<1> SUFFICES ASSUME BudgetInit PROVE BudgetHolds
  OBVIOUS
<1>1. request \in Asked /\ request \in Requests(Nat \ {0}, Nat \ {0}, Nat, Nat, Nat)
  BY BudgetAssumption DEF BudgetInit
<1>2. ASSUME NEW l \in Rlimits, NEW growth \in {request.limit, PerWorkerEstimate(request)}
      PROVE  CapOnlyTightens(l.size, growth, l.soft, l.hard)
  <2>1. l.size + growth <= Unlimited
    BY <1>1, BudgetAssumption
  <2>2. growth \in Nat \ {0}
    BY <1>1, PlanSizes
  <2> QED
    BY <2>1, <2>2, CapsTighten
<1> QED
  BY <1>1, <1>2, PlansHold, HintsFit DEF BudgetHolds
=============================================================================
