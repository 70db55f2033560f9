----------------------------- MODULE CommandRun -----------------------------
(***************************************************************************)
(* cli.main: one run of the safestream command, from its arguments to its *)
(* exit status: the offline guard, the kernel's offline mode, the policy  *)
(* file under the flags, admission under --memory-limit, the work in this *)
(* process or in workers, the report.                                     *)
(*                                                                         *)
(* Inputs are a sequence of files, each with what reading it does; text   *)
(* is whether it holds a detection.  The work itself is StreamWindows,    *)
(* ParallelRedact, RedactTree and RestoreStream.                          *)
(***************************************************************************)
EXTENDS HardOffline, Integers

CONSTANTS
    Inputs,         \* the sequences of input files considered
    Kernels         \* the members of Platforms considered

VARIABLES
    args,       \* the parsed arguments
    inputs,     \* what the input arguments name
    kernel,     \* the platform
    phase,      \* the step of main
    main,       \* what contains this process: guarded, hard, capped
    worker,     \* and its workers, or NoProcess
    next,       \* the place of the last file read to the end
    hits,       \* detections counted, or tokens that could not be restored
    output,     \* the files replaced, and how much of stdout is written
    report,     \* the run report is written
    exit        \* the exit status, StillRunning before

commandVars == <<args, inputs, kernel, phase, main, worker, next, hits, output, report, exit>>

StillRunning == -1
NoProcess == [guarded |-> FALSE, hard |-> NotApplied, capped |-> "no", reading |-> FALSE]

----------------------------------------------------------------------------
(* Arguments.                                                              *)

\* A file: what the walk of a directory makes of it, whether it can be read,
\* whether it holds a detection.
InputFiles == [kind : {"named", "plain", "link", "vcs", "binary"}, readable : BOOLEAN, hit : BOOLEAN]

ASSUME CommandAssumption ==
    Inputs \subseteq Seq(InputFiles) /\ Kernels \subseteq Platforms /\ Kernels # {}

\* config is the policy file: absent, valid, or refused by validate_config or the
\* constructor.  redact: the input is the first file, standard input, or the
\* directory of all of them.  key says where an encryption key comes from.
RedactArgs ==
    [command : {"redact"}, config : {"none", "valid", "refused"}, offline_guard : BOOLEAN,
     offline_hard : {"none", "auto"}, memory_limit : {"none", "one", "two", "scant"},
     input : {"file", "stdin", "directory"}, output : {"path", "-"}, workers : {0, 2},
     mode : {"replace", "encrypt"}, key : {"none", "environment"}, report : BOOLEAN]

\* The options redact shares, and its own.
DetectArgs ==
    [command : {"detect"}, config : {"none", "valid", "refused"}, offline_guard : BOOLEAN,
     offline_hard : {"none", "auto"}, memory_limit : {"none", "one", "two", "scant"},
     fail_on_detect : BOOLEAN]

DeanonymizeArgs ==
    [command : {"deanonymize"}, output : {"path", "-"}, key : {"none", "short", "good"}]
InitConfigArgs ==
    [command : {"init-config"}, output : {"path", "-"}, exists : BOOLEAN, force : BOOLEAN]
ServerArgs ==
    [command : {"serve", "mcp-serve", "fanotify"}, config : {"none", "valid", "refused"},
     available : BOOLEAN]
UiArgs == [command : {"ui"}, installed : BOOLEAN, max_upload_mb : {0, 1}]

Arguments == RedactArgs \cup DetectArgs \cup DeanonymizeArgs
             \cup InitConfigArgs \cup ServerArgs \cup UiArgs

Contained == args.command \in {"redact", "detect"}
OneInput ==
    args.command = "deanonymize" \/ (args.command = "redact" /\ args.input # "directory")
Hardened == IF Contained THEN args.offline_hard # "none" ELSE FALSE

CommandInit ==
    /\ args \in Arguments
    /\ inputs \in Inputs /\ (OneInput => inputs # <<>>)
    /\ kernel \in Kernels /\ (Hardened \/ kernel = CHOOSE k \in Kernels : TRUE)
    /\ phase = IF Contained THEN "guard" ELSE "command"
    /\ main = NoProcess /\ worker = NoProcess
    /\ next = 0 /\ hits = 0
    /\ output = [replaced |-> {}, stdout |-> "nothing"]
    /\ report = FALSE /\ exit = StillRunning

Step(from, to) == exit = StillRunning /\ phase = from /\ phase' = to

\* The run is over; the files of this process are closed.
Exit(status) ==
    /\ exit = StillRunning /\ exit' = status
    /\ phase' = "over"
    /\ main' = [main EXCEPT !.reading = FALSE] /\ worker' = NoProcess

----------------------------------------------------------------------------
(* Before any input: main, _build_redactor, _plan_budget.                  *)

Guard ==
    /\ Step("guard", "hard")
    /\ main' = [main EXCEPT !.guarded = args.offline_guard]
    /\ UNCHANGED <<args, inputs, kernel, worker, next, hits, output, report, exit>>

Harden ==
    /\ Step("hard", "build")
    /\ main' = [main EXCEPT !.hard = ApplyOfflineHard(args.offline_hard, kernel)]
    /\ UNCHANGED <<args, inputs, kernel, worker, next, hits, output, report, exit>>

\* The file first, the flags on top; encrypt needs a key from somewhere.
Buildable ==
    /\ args.config # "refused"
    /\ args.command = "redact" => (args.mode = "encrypt" => args.key # "none")

\* MemoryBudget.Plan on the redactor's sizes.
Admits == args.memory_limit # "scant"

Admitted ==
    /\ Step("build", "work") /\ Buildable /\ Admits
    /\ \E capped \in IF args.memory_limit = "none" THEN {"no"} ELSE {"no", "limit"} :
         main' = [main EXCEPT !.capped = capped]
    /\ UNCHANGED <<args, inputs, kernel, worker, next, hits, output, report, exit>>

NotAdmitted ==
    /\ phase = "build"
    /\ \/ ~Buildable /\ Exit(1)
       \/ Buildable /\ ~Admits /\ Exit(3)
    /\ UNCHANGED <<args, inputs, kernel, next, hits, output, report>>

\* --workers under the budget: never more than it permits, all it permits when
\* none were asked for.  0 leaves it to ram_aware_workers, here on a machine
\* with several processors.
Workers ==
    CASE args.memory_limit = "one" -> 1
      [] args.memory_limit = "two" -> 2
      [] OTHER -> args.workers

----------------------------------------------------------------------------
(* The files of a run.                                                     *)

\* redact_tree skips links; detect also version-control directories and binary
\* files, and always scans what was named.
Wanted(f) ==
    CASE args.command = "redact" -> f.kind # "link"
      [] args.command = "detect" -> f.kind \in {"named", "plain"}
      [] OTHER -> TRUE

\* One file, or what the walk of the directories finds: the places of the files
\* to read.  They are read in order; those ahead come after the last one read.
Todo == {i \in DOMAIN inputs : IF OneInput THEN i = 1 ELSE Wanted(inputs[i])}
Ahead == {i \in Todo : i > next}
Current == CHOOSE i \in Ahead : \A j \in Ahead : i <= j

ToStdout == args.command = "redact" /\ args.input # "directory" /\ args.output = "-"
InWorkers ==
    /\ args.command = "redact" /\ ~ToStdout
    /\ CASE args.input = "stdin" -> FALSE
         [] args.input = "file" -> Workers > 1
         [] args.input = "directory" -> Workers # 1 /\ \E i, j \in Todo : i # j

\* A worker starts forked, with all that contains its parent, or spawned, with
\* what the kernel enforces; the pool's initializer then installs the guard and,
\* for the ranges of one file, lowers the cap.
StartWorker ==
    /\ Step("work", "initialize") /\ InWorkers
    /\ \E forked \in BOOLEAN :
         worker' = [main EXCEPT !.guarded = @ /\ forked]
    /\ UNCHANGED <<args, inputs, kernel, main, next, hits, output, report, exit>>

InitializeWorker_Bare ==
    /\ Step("initialize", "read")
    /\ UNCHANGED <<args, inputs, kernel, main, worker, next, hits, output, report, exit>>

InitializeWorker ==
    /\ Step("initialize", "read")
    /\ worker' = [worker EXCEPT !.guarded = @ \/ args.offline_guard,
                                !.capped = IF args.input = "file" /\ @ = "limit" THEN "share" ELSE @]
    /\ UNCHANGED <<args, inputs, kernel, main, next, hits, output, report, exit>>

\* A directory needs an output directory.
NoDirectory ==
    /\ phase = "work" /\ args.command = "redact"
    /\ args.input = "directory" /\ args.output = "-"
    /\ Exit(1)
    /\ UNCHANGED <<args, inputs, kernel, next, hits, output, report>>

WorkHere ==
    /\ Step("work", "read") /\ Contained /\ ~InWorkers
    /\ ~(args.command = "redact" /\ args.input = "directory" /\ args.output = "-")
    /\ UNCHANGED <<args, inputs, kernel, main, worker, next, hits, output, report, exit>>

\* The next file is opened by whoever works; pieces may go to stdout.
OpenInput ==
    /\ exit = StillRunning /\ phase = "read" /\ Ahead # {} /\ inputs[Current].readable
    /\ phase' = "stream"
    /\ IF InWorkers THEN worker' = [worker EXCEPT !.reading = TRUE] /\ UNCHANGED main
                    ELSE main' = [main EXCEPT !.reading = TRUE] /\ UNCHANGED worker
    /\ output' = [output EXCEPT !.stdout = IF ToStdout THEN "part" ELSE @]
    /\ UNCHANGED <<args, inputs, kernel, next, hits, report, exit>>

\* It has been read to its end: the output is replaced, or the findings
\* counted.
CloseInput ==
    /\ Step("stream", "read")
    /\ next' = Current
    /\ hits' = hits + (IF inputs[Current].hit THEN 1 ELSE 0)
    /\ output' = [output EXCEPT !.replaced = IF args.command = "detect" \/ ToStdout THEN @
                                             ELSE @ \cup {Current}]
    /\ main' = [main EXCEPT !.reading = FALSE] /\ worker' = [worker EXCEPT !.reading = FALSE]
    /\ UNCHANGED <<args, inputs, kernel, report, exit>>

\* A file that cannot be read, a span the window cannot hold; or an allocation
\* refused.  Other workers of a directory may have finished files further on.
WorkFails ==
    /\ \/ phase = "read" /\ Ahead # {} /\ ~inputs[Current].readable /\ Exit(1)
       \/ phase = "stream" /\ (Exit(1) \/ (Contained /\ Exit(3)))
    /\ \E others \in SUBSET (IF InWorkers /\ args.input = "directory"
                             THEN Ahead \ {Current} ELSE {}) :
         output' = [output EXCEPT !.replaced = @ \cup others]
    /\ UNCHANGED <<args, inputs, kernel, next, hits, report>>

\* Everything is read: stdout is flushed, the report written, _finish_run.
Finished == phase = "read" /\ Ahead = {}

WriteReport ==
    /\ Finished /\ args.command = "redact" /\ args.report /\ ~report
    /\ report' = TRUE
    /\ UNCHANGED <<args, inputs, kernel, phase, main, worker, next, hits, output, exit>>

ReportFails ==
    /\ Finished /\ args.command = "redact" /\ args.report /\ ~report
    /\ Exit(1)
    /\ output' = [output EXCEPT !.stdout = IF ToStdout THEN "all" ELSE @]
    /\ UNCHANGED <<args, inputs, kernel, next, hits, report>>

\* Mutant: the count of the last file decides.
DetectStatus_LastFile ==
    IF args.fail_on_detect /\ next > 0 /\ inputs[next].hit THEN 1 ELSE 0

DetectStatus == IF args.fail_on_detect /\ hits > 0 THEN 1 ELSE 0

CommandEnds ==
    /\ Finished
    /\ CASE args.command = "redact" -> (args.report => report) /\ Exit(0)
         [] args.command = "detect" -> Exit(DetectStatus)
         [] OTHER -> Exit(IF hits > 0 THEN 1 ELSE 0)
    /\ output' = [output EXCEPT !.stdout = IF ToStdout THEN "all" ELSE @]
    /\ UNCHANGED <<args, inputs, kernel, next, hits, report>>

----------------------------------------------------------------------------
(* The other commands.                                                     *)

\* A key is needed, of at least sixteen bytes; hits are the tokens left.
Deanonymize ==
    /\ phase = "command" /\ args.command = "deanonymize"
    /\ IF args.key = "good"
       THEN Step("command", "read") /\ UNCHANGED <<main, worker, exit>>
       ELSE Exit(1)
    /\ UNCHANGED <<args, inputs, kernel, next, hits, output, report>>

InitConfig ==
    /\ phase = "command" /\ args.command = "init-config"
    /\ IF args.output = "path" /\ args.exists /\ ~args.force
       THEN Exit(1) /\ UNCHANGED output
       ELSE /\ Exit(0)
            /\ output' = IF args.output = "path" THEN [output EXCEPT !.replaced = {1}]
                                                 ELSE [output EXCEPT !.stdout = "all"]
    /\ UNCHANGED <<args, inputs, kernel, next, hits, report>>

\* serve and mcp-serve build their redactor from the policy file; so does the
\* watcher, which also needs its kernel interface.  All but serve are guarded
\* before the first request or event.
Serve ==
    /\ phase = "command" /\ args.command \in {"serve", "mcp-serve", "fanotify"}
    /\ \/ /\ args.config = "refused"
          /\ Exit(IF args.command = "fanotify" THEN 2 ELSE 1)
       \/ /\ args.config # "refused" /\ args.command = "fanotify" /\ ~args.available
          /\ Exit(2)
       \/ /\ args.config # "refused" /\ (args.command = "fanotify" => args.available)
          /\ Step("command", "serving")
          /\ main' = [main EXCEPT !.reading = TRUE, !.guarded = args.command # "serve"]
          /\ UNCHANGED <<worker, exit>>
    /\ UNCHANGED <<args, inputs, kernel, next, hits, output, report>>

\* The page is another process; its status is passed on.
Ui ==
    /\ phase = "command" /\ args.command = "ui"
    /\ IF ~args.installed THEN Exit(1)
       ELSE IF args.max_upload_mb < 1 THEN Exit(2)
       ELSE Exit(0)
    /\ UNCHANGED <<args, inputs, kernel, next, hits, output, report>>

Stop ==
    /\ phase = "serving" /\ Exit(0)
    /\ UNCHANGED <<args, inputs, kernel, next, hits, output, report>>

CommandNext ==
    \/ Guard \/ Harden \/ Admitted \/ NotAdmitted
    \/ StartWorker \/ InitializeWorker \/ NoDirectory \/ WorkHere
    \/ OpenInput \/ CloseInput \/ WorkFails \/ WriteReport \/ ReportFails \/ CommandEnds
    \/ Deanonymize \/ InitConfig \/ Serve \/ Ui \/ Stop

CommandSpec == CommandInit /\ [][CommandNext]_commandVars

----------------------------------------------------------------------------
\* The types.
Processes == [guarded : BOOLEAN, hard : HardModeResults, capped : {"no", "limit", "share"},
              reading : BOOLEAN]
CommandTypeOK ==
    /\ args \in Arguments /\ inputs \in Seq(InputFiles) /\ kernel \in Platforms
    /\ phase \in {"guard", "hard", "build", "work", "initialize", "read", "stream", "command",
                  "serving", "over"}
    /\ main \in Processes /\ worker \in Processes
    /\ next \in Nat /\ hits \in Nat
    /\ output \in [replaced : SUBSET Nat, stdout : {"nothing", "part", "all"}]
    /\ report \in BOOLEAN /\ exit \in {StillRunning, 0, 1, 2, 3}

\* Which steps a command goes through, and which of its processes may read.
StepsInv ==
    /\ phase = "over" <=> exit # StillRunning
    /\ phase \in {"guard", "hard", "build", "work", "initialize"} => Contained
    /\ phase \in {"command", "serving"} => ~Contained
    /\ phase = "serving" => args.command \in {"serve", "mcp-serve", "fanotify"}
    /\ phase \in {"read", "stream"} => args.command \in {"redact", "detect", "deanonymize"}
    /\ phase \notin {"read", "stream", "serving"} => ~main.reading
    /\ phase \in {"read", "stream"} /\ InWorkers => ~main.reading
    /\ ~(phase \in {"read", "stream"} /\ InWorkers) => ~worker.reading
    /\ phase = "initialize" => InWorkers

\* What contains each process, step by step.
ContainInv ==
    /\ Contained =>
         /\ phase \in {"hard", "build", "work", "initialize", "read", "stream"} =>
              main.guarded = args.offline_guard
         /\ phase \in {"build", "work", "initialize", "read", "stream"} =>
              main.hard = ApplyOfflineHard(args.offline_hard, kernel)
         /\ phase \in {"work", "initialize", "read", "stream"} => Buildable /\ Admits
         /\ phase = "initialize" => worker.hard = main.hard /\ worker.capped = main.capped
         /\ phase \in {"read", "stream"} /\ InWorkers =>
              /\ worker.hard = main.hard
              /\ args.offline_guard => worker.guarded
              /\ main.capped = "limit" => worker.capped # "no"
    /\ phase = "serving" => (main.guarded <=> args.command # "serve")

\* What has been read, counted and replaced so far.
Behind == Todo \ Ahead
ProgressInv ==
    /\ OneInput => inputs # <<>>
    /\ phase \notin {"read", "stream", "over"} =>
         next = 0 /\ hits = 0 /\ output.replaced = {} /\ ~report
    /\ phase \in {"read", "stream"} =>
         /\ \A i \in Behind : inputs[i].readable
         /\ hits = 0 <=> \A i \in Behind : ~inputs[i].hit
         /\ output.replaced = IF args.command = "detect" \/ ToStdout THEN {} ELSE Behind
         /\ report => Ahead = {} /\ args.command = "redact" /\ args.report
    /\ phase = "stream" => Ahead # {} /\ inputs[Current].readable

----------------------------------------------------------------------------
\* Whatever process of redact or detect has an input open, forked or spawned:
\* the run was admitted, the guard is on unless it was waived, the kernel
\* enforces on it what the first process was told it does, and a memory cap in
\* force on the first process is in force there; the daemon and the MCP server
\* read behind the guard.
ReadersContained ==
    /\ \A p \in {main, worker} : p.reading /\ Contained =>
         /\ Buildable /\ args.memory_limit # "scant"
         /\ args.offline_guard => p.guarded
         /\ main.hard.applied => \A call \in IpSocketCalls : Made(p.hard, call) # "allow"
         /\ main.capped = "limit" => p.capped # "no"
    /\ main.reading /\ args.command \in {"mcp-serve", "fanotify"} => main.guarded

\* Status 0 says that every input was read to its end and its output is there,
\* with the report; that nothing was detected under --fail-on-detect, and every
\* token restored.  Any other status of a run with one output file leaves that
\* file alone unless only the report or the restoring failed.
ExitTruthful ==
    /\ exit = 0 /\ args.command \in {"redact", "detect", "deanonymize"} =>
         /\ Ahead = {} /\ \A i \in Todo : inputs[i].readable
         /\ args.command = "redact" =>
              /\ report = args.report
              /\ IF ToStdout THEN output.stdout = "all" ELSE output.replaced = Todo
         /\ args.command = "detect" /\ args.fail_on_detect =>
              \A i \in DOMAIN inputs : Wanted(inputs[i]) => ~inputs[i].hit
         /\ args.command = "deanonymize" => ~inputs[1].hit
    /\ exit \in 1 .. 3 /\ args.command = "redact" /\ args.input # "directory"
         /\ output.replaced # {} => Ahead = {} /\ args.report /\ ~report
    /\ exit = 3 => Contained

\* The inductive invariant.
CommandInv == CommandTypeOK /\ StepsInv /\ ContainInv /\ ProgressInv /\ ExitTruthful
=============================================================================
