----------------------------- MODULE RedactTree -----------------------------
(***************************************************************************)
(* scheduler.redact_tree: a directory tree redacted file by file, by a    *)
(* process pool or, with one worker or one file, in the calling process.  *)
(* The parent takes results as they complete and hands them out in input  *)
(* order; a file that fails raises in the parent, which leaves the pool   *)
(* only when every job still queued has run.                               *)
(*                                                                         *)
(* A text is the path it came from and how often it has been redacted;    *)
(* reading a file and replacing the output are one step each (the input   *)
(* is read through one descriptor, the output renamed into place).         *)
(***************************************************************************)
EXTENDS Integers, Sequences, FiniteSets

CONSTANTS
    Trees,          \* the job lists of possible trees: sequences of [in, out]
    MaxWorkers      \* what ram_aware_workers may choose

Paths(J) == UNION {{J[i].in, J[i].out} : i \in DOMAIN J}

\* Every file once, each with an output of its own, and the output tree apart
\* from the input tree or the same: what discover and _output_path make of two
\* such trees.
ASSUME RedactTreeAssumption ==
    /\ \A J \in Trees :
         /\ J \in Seq([in : Paths(J), out : Paths(J)])
         /\ \A i, j \in DOMAIN J :
              i # j => J[i].in # J[j].in /\ J[i].out # J[j].out /\ J[i].in # J[j].out
    /\ MaxWorkers \in Nat

VARIABLES
    jobs,       \* (input, output) per file, in sorted input order
    before,     \* the files when the call started (never read by the code)
    disk,       \* the files: path -> text
    n,          \* workers
    job,        \* per job: queued, running (with the text read), done, failed
    taken,      \* the jobs whose results the parent has
    results,    \* the list returned
    caller,     \* "running", "failing" (an exception leaves the with block),
                \* "returned", "raised"
    guard       \* netguard in the calling process: before and now

vars == <<jobs, before, disk, n, job, taken, results, caller, guard>>

Missing == [from |-> "nothing", passes |-> 0]
Original(p) == [from |-> p, passes |-> 0]
Redacted(text) == [text EXCEPT !.passes = @ + 1]

Jobs == 1 .. Len(jobs)
InProcess == n = 1 \/ Len(jobs) = 1

Queued == [at |-> "queued"]
Running(text) == [at |-> "running", text |-> text]
Done == [at |-> "done"]
Failed == [at |-> "failed"]
At(where) == {i \in Jobs : job[i].at = where}

TreeInit ==
    /\ jobs \in Trees
    /\ before = [p \in Paths(jobs) |->
                    IF \E i \in DOMAIN jobs : jobs[i].in = p THEN Original(p) ELSE Missing]
    /\ disk = before
    /\ n \in 1 .. MaxWorkers
    /\ job = [i \in DOMAIN jobs |-> Queued]
    /\ taken = {} /\ results = <<>> /\ caller = "running"
    /\ \E g \in BOOLEAN : guard = [before |-> g, now |-> InProcess \/ g]

\* The pool hands jobs out in the order of submission; in the calling process
\* a job starts when the one before it is done.
MayStart(i) ==
    /\ \A j \in At("queued") : i <= j
    /\ IF InProcess THEN caller = "running" /\ taken = 1 .. i - 1
       ELSE Cardinality(At("running")) < n

\* _redact_one opens the input; redact_file refuses a file onto itself.
Start(i) ==
    /\ job[i].at = "queued" /\ MayStart(i)
    /\ job' = [job EXCEPT ![i] = IF jobs[i].in = jobs[i].out THEN Failed
                                 ELSE Running(disk[jobs[i].in])]
    /\ UNCHANGED <<jobs, before, disk, n, taken, results, caller, guard>>

\* It replaces the output and returns.
Finish(i) ==
    /\ job[i].at = "running"
    /\ disk' = [disk EXCEPT ![jobs[i].out] = Redacted(job[i].text)]
    /\ job' = [job EXCEPT ![i] = Done]
    /\ UNCHANGED <<jobs, before, n, taken, results, caller, guard>>

\* It raises: an unreadable input, no room for the output.
Fail(i) ==
    /\ job[i].at = "running"
    /\ job' = [job EXCEPT ![i] = Failed]
    /\ UNCHANGED <<jobs, before, disk, n, taken, results, caller, guard>>

\* A worker process is killed. The pool is broken: the other workers are
\* terminated, some after the replace, and every job not done fails.
WorkerDies ==
    /\ ~InProcess /\ At("running") # {}
    /\ \E W \in SUBSET At("running") :
         disk' = [p \in DOMAIN disk |->
                    IF \E i \in W : jobs[i].out = p
                    THEN Redacted(job[CHOOSE i \in W : jobs[i].out = p].text)
                    ELSE disk[p]]
    /\ job' = [i \in Jobs |-> IF job[i].at = "done" THEN Done ELSE Failed]
    /\ UNCHANGED <<jobs, before, n, taken, results, caller, guard>>

\* as_completed: the parent takes the result of any job that is done.
Take(i) ==
    /\ caller = "running" /\ job[i].at = "done" /\ i \notin taken
    /\ taken' = taken \cup {i}
    /\ UNCHANGED <<jobs, before, disk, n, job, results, caller, guard>>

\* fut.result() raises.
TakeFailure(i) ==
    /\ caller = "running" /\ job[i].at = "failed"
    /\ caller' = "failing"
    /\ UNCHANGED <<jobs, before, disk, n, job, taken, results, guard>>

\* Mutant: the guard is taken away whoever installed it.
GuardRestored_Uninstalls == guard' = [guard EXCEPT !.now = @ /\ ~InProcess]

\* netguard.enforced, on the way out.
GuardRestored == guard' = [guard EXCEPT !.now = @ /\ (guard.before \/ ~InProcess)]

\* Mutants: the pool is not waited for; or nothing is left running either way.
Raise_AtOnce ==
    /\ caller = "failing"
    /\ caller' = "raised"
    /\ GuardRestored
    /\ UNCHANGED <<jobs, before, disk, n, job, taken, results>>

Raise_WaitsForAll ==
    /\ caller = "failing"
    /\ At("queued") \cup At("running") = {}
    /\ caller' = "raised"
    /\ GuardRestored
    /\ UNCHANGED <<jobs, before, disk, n, job, taken, results>>

\* The exception leaves redact_tree once the pool has shut down, which waits
\* for the jobs still queued; in the calling process nothing is left to wait
\* for.
Raise ==
    /\ caller = "failing"
    /\ InProcess \/ At("queued") \cup At("running") = {}
    /\ caller' = "raised"
    /\ GuardRestored
    /\ UNCHANGED <<jobs, before, disk, n, job, taken, results>>

\* [by_index[i] for i in range(total)]
Return ==
    /\ caller = "running" /\ taken = Jobs
    /\ caller' = "returned"
    /\ results' = [i \in Jobs |-> jobs[i]]
    /\ GuardRestored
    /\ UNCHANGED <<jobs, before, disk, n, job, taken>>

Worker == \E i \in Jobs : Start(i) \/ Finish(i) \/ Fail(i)
Parent == (\E i \in Jobs : Take(i) \/ TakeFailure(i)) \/ Raise \/ Return

Next == Worker \/ WorkerDies \/ Parent

SafetySpec == TreeInit /\ [][Next]_vars

\* The operating system runs the workers and the parent.
Spec == SafetySpec /\ WF_vars(Worker) /\ WF_vars(Parent)

----------------------------------------------------------------------------
(* Properties.                                                             *)

Texts == [from : Paths(jobs) \cup {"nothing"}, passes : Nat]

\* Jobs, files and results hold what the code can store in them.
TypeOK ==
    /\ jobs \in Trees /\ before \in [Paths(jobs) -> Texts] /\ disk \in [Paths(jobs) -> Texts]
    /\ n \in 1 .. MaxWorkers /\ taken \subseteq At("done")
    /\ job \in [Jobs -> {Queued, Done, Failed} \cup [at : {"running"}, text : Texts]]
    /\ Cardinality(At("running")) <= n
    /\ caller \in {"running", "failing", "returned", "raised"}
    /\ guard \in [before : BOOLEAN, now : BOOLEAN]

\* What the files are to job i: its input is what it was, and so is its output
\* unless the job has run.
FilesOf(i) ==
    LET source == before[jobs[i].in] dest == disk[jobs[i].out] IN
      IF jobs[i].in = jobs[i].out
      THEN job[i].at \in {"queued", "failed"} /\ dest = source
      ELSE /\ source.passes = 0 /\ before[jobs[i].out].passes = 0 /\ disk[jobs[i].in] = source
           /\ job[i].at = "running" => job[i].text = source
           /\ job[i].at \in {"queued", "running"} => dest = before[jobs[i].out]
           /\ job[i].at = "done" => dest = Redacted(source)
           /\ job[i].at = "failed" => dest \in {before[jobs[i].out], Redacted(source)}

\* In the calling process the jobs run one after the other; a call that has
\* ended, or fails in the calling process, has none running or to come.
CallInOrder ==
    /\ InProcess => \A i \in Jobs : job[i].at # "queued" => 1 .. i - 1 \subseteq taken
    /\ InProcess /\ caller # "running" => At("running") = {}
    /\ ~InProcess /\ caller \in {"returned", "raised"} => At("queued") \cup At("running") = {}
    /\ guard.now = IF caller \in {"returned", "raised"} THEN guard.before
                   ELSE InProcess \/ guard.before

\* The inductive invariant.
TreeInv == TypeOK /\ (\A i \in Jobs : FilesOf(i)) /\ CallInOrder

\* Every output is the redaction of its input as it was at the call, written
\* whole and once; nothing else changes, nothing is written once the call has
\* returned or raised, the results are "in sorted input-path order regardless
\* of completion order", and the guard of the call does not outlive it while
\* one the caller had survives, whichever workers fail or die.
Promise == INSTANCE TreeContract WITH
    caller <- IF caller = "failing" THEN "running" ELSE caller
ImplementsContract == Promise!TSpec

\* The call returns or raises.
Ends == <>(caller \in {"returned", "raised"})
=============================================================================
