---------------------------- MODULE TreeContract ----------------------------
(***************************************************************************)
(* What scheduler.redact_tree promises: every output is the redaction of  *)
(* its input as it was when the call started, each is written whole and   *)
(* once, nothing else changes, nothing is written once the call has       *)
(* returned or raised, the results come in the order of the inputs, and    *)
(* the caller has its offline guard again as it had it before.              *)
(***************************************************************************)
CONSTANT Redacted(_)    \* the redaction of a text

VARIABLES
    jobs,       \* input and output path of every file
    before,     \* the files when the call started
    disk,       \* the files now
    results,    \* what the call returned, one per file
    caller,     \* "running", "returned" or "raised"
    guard       \* netguard in the calling process: before the call and now

\* The files once the jobs in W have been written.
Written(files, W) ==
    [p \in DOMAIN files |->
        IF \E j \in W : j.out = p
        THEN Redacted(before[(CHOOSE j \in W : j.out = p).in])
        ELSE files[p]]

AllJobs == {jobs[i] : i \in DOMAIN jobs}

\* Outputs not there yet appear; a worker that dies may take others with it, so not
\* only one at a time.
WriteOutputs(W) ==
    /\ caller = "running"
    /\ \A j \in W : disk[j.out] # Redacted(before[j.in])
    /\ disk' = Written(disk, W)
    /\ UNCHANGED <<jobs, before, results, caller, guard>>

GuardAsBefore == guard' = [guard EXCEPT !.now = guard.before]

ReturnResults ==
    /\ caller = "running"
    /\ \A j \in AllJobs : disk[j.out] = Redacted(before[j.in])
    /\ results' = jobs
    /\ caller' = "returned"
    /\ GuardAsBefore
    /\ UNCHANGED <<jobs, before, disk>>

RaiseError ==
    /\ caller = "running"
    /\ caller' = "raised"
    /\ GuardAsBefore
    /\ UNCHANGED <<jobs, before, disk, results>>

TInit == disk = before /\ results = <<>> /\ caller = "running"
TNext == (\E W \in SUBSET AllJobs : WriteOutputs(W)) \/ ReturnResults \/ RaiseError

TSpec == TInit /\ [][TNext]_<<jobs, before, disk, results, caller, guard>>
=============================================================================
