---------------------------- MODULE AtomicOutput ----------------------------
(***************************************************************************)
(* _atomic: every output of the package is written to a temporary file    *)
(* beside its destination, given the mode the destination would have had, *)
(* and renamed over it.  The writers are threads of one process (sessions *)
(* of the page) that share the umask; one of them is the main thread,     *)
(* where Python raises KeyboardInterrupt between any two steps.  The       *)
(* process may be killed at any time.                                      *)
(***************************************************************************)
CONSTANTS
    Writers,        \* the threads
    Main,           \* the main thread, one of them
    Destinations    \* the destinations

ASSUME AtomicAssumption == Main \in Writers

VARIABLES
    target,     \* writer -> its destination
    first,      \* the files before
    file,       \* path -> NoFile, or who wrote it, whether whole, its mode
    temp,       \* writer -> NoFile or its temporary file
    at,         \* writer -> its step
    mode,       \* writer -> the mode it is about to set
    umask,      \* of the process: "set" or "zero"
    saved,      \* writer -> the umask it read, "none" before
    alive       \* the process has not been killed

atomicVars == <<target, first, file, temp, at, mode, umask, saved, alive>>

NoFile == [by |-> "nobody"]
OldFile == [by |-> "before", whole |-> TRUE, mode |-> "kept"]
Resting == {"idle", "done", "failed", "interrupted"}

AtomicInit ==
    /\ target \in [Writers -> Destinations]
    /\ first \in [Destinations -> {NoFile, OldFile}]
    /\ file = first
    /\ temp = [w \in Writers |-> NoFile]
    /\ at = [w \in Writers |-> "idle"]
    /\ mode = [w \in Writers |-> "private"]
    /\ umask = "set" /\ saved = [w \in Writers |-> "none"]
    /\ alive = TRUE

Goes(w, from, to) == alive /\ at[w] = from /\ at' = [at EXCEPT ![w] = to]

\* mkstemp: an empty file of mode 0600, not in the try block yet.
Create(w) ==
    /\ Goes(w, "idle", "created")
    /\ temp' = [temp EXCEPT ![w] = [by |-> w, whole |-> FALSE, mode |-> "private"]]
    /\ UNCHANGED <<target, first, file, mode, umask, saved, alive>>

\* The try block and the caller's.
Enter(w) ==
    /\ Goes(w, "created", "writing")
    /\ UNCHANGED <<target, first, file, temp, mode, umask, saved, alive>>

Close_NotFlushed(w) ==
    /\ Goes(w, "writing", "written")
    /\ UNCHANGED <<target, first, file, temp, mode, umask, saved, alive>>

\* The caller has written everything and the file is closed.
Close(w) ==
    /\ Goes(w, "writing", "written")
    /\ temp' = [temp EXCEPT ![w].whole = TRUE]
    /\ UNCHANGED <<target, first, file, mode, umask, saved, alive>>

----------------------------------------------------------------------------
(* _match_destination_mode.                                                *)

\* os.stat finds the destination: its mode.
StatOld(w) ==
    /\ file[target[w]] # NoFile
    /\ Goes(w, "written", "chmod")
    /\ mode' = [mode EXCEPT ![w] = file[target[w]].mode]
    /\ UNCHANGED <<target, first, file, temp, umask, saved, alive>>

\* It does not: on to the umask,
StatNew(w) ==
    /\ file[target[w]] = NoFile
    /\ Goes(w, "written", "umask")
    /\ UNCHANGED <<target, first, file, temp, mode, umask, saved, alive>>

\* which can only be read by setting it,
ReadUmask(w) ==
    /\ Goes(w, "umask", "umaskRead")
    /\ saved' = [saved EXCEPT ![w] = umask]
    /\ umask' = "zero"
    /\ UNCHANGED <<target, first, file, temp, mode, alive>>

\* 0o666 & ~umask
NewMode(mask) == IF mask = "set" THEN "masked" ELSE "open"

RestoreUmask_Skipped(w) ==
    /\ Goes(w, "umaskRead", "chmod")
    /\ mode' = [mode EXCEPT ![w] = NewMode(saved[w])]
    /\ UNCHANGED <<target, first, file, temp, umask, saved, alive>>

\* and is set back.
RestoreUmask(w) ==
    /\ Goes(w, "umaskRead", "chmod")
    /\ umask' = saved[w]
    /\ mode' = [mode EXCEPT ![w] = NewMode(saved[w])]
    /\ UNCHANGED <<target, first, file, temp, saved, alive>>

\* os.chmod, whose failure is ignored.
Chmod(w) ==
    /\ Goes(w, "chmod", "replace")
    /\ \/ temp' = [temp EXCEPT ![w].mode = mode[w]]
       \/ UNCHANGED temp
    /\ UNCHANGED <<target, first, file, mode, umask, saved, alive>>

----------------------------------------------------------------------------
(* _replace_on_success, after the block.                                   *)

Replace(w) ==
    /\ Goes(w, "replace", "replaced")
    /\ file' = [file EXCEPT ![target[w]] = temp[w]]
    /\ temp' = [temp EXCEPT ![w] = NoFile]
    /\ UNCHANGED <<target, first, mode, umask, saved, alive>>

LeaveBlock(w) ==
    /\ Goes(w, "replaced", "done")
    /\ UNCHANGED <<target, first, file, temp, mode, umask, saved, alive>>

\* The block raises, or the file cannot be closed or renamed: the handler.
FailWrite(w) ==
    /\ \E from \in {"writing", "replace"} : Goes(w, from, "failing")
    /\ UNCHANGED <<target, first, file, temp, mode, umask, saved, alive>>

\* The main thread is interrupted: inside the try block the handler runs,
\* before it nothing does.
Interrupt ==
    /\ at[Main] \notin Resting \cup {"failing", "stopping"}
    /\ Goes(Main, at[Main], IF at[Main] = "created" THEN "interrupted" ELSE "stopping")
    /\ UNCHANGED <<target, first, file, temp, mode, umask, saved, alive>>

\* The handler removes the temporary file, if it is there, and raises again.
Unlink(w) ==
    /\ \/ Goes(w, "failing", "failed")
       \/ Goes(w, "stopping", "interrupted")
    /\ temp' = [temp EXCEPT ![w] = NoFile]
    /\ UNCHANGED <<target, first, file, mode, umask, saved, alive>>

Kill ==
    /\ alive /\ alive' = FALSE
    /\ UNCHANGED <<target, first, file, temp, at, mode, umask, saved>>

AtomicNext ==
    \/ \E w \in Writers :
         \/ Create(w) \/ Enter(w) \/ Close(w)
         \/ StatOld(w) \/ StatNew(w) \/ ReadUmask(w) \/ RestoreUmask(w) \/ Chmod(w)
         \/ Replace(w) \/ LeaveBlock(w) \/ FailWrite(w) \/ Unlink(w)
    \/ Interrupt \/ Kill

AtomicSpec == AtomicInit /\ [][AtomicNext]_atomicVars

----------------------------------------------------------------------------
Modes == {"private", "masked", "open", "kept"}
Files == [by : Writers, whole : BOOLEAN, mode : Modes]
Steps == Resting \cup {"created", "writing", "written", "umask", "umaskRead", "chmod",
                      "replace", "replaced", "failing", "stopping"}

\* Files, steps and modes are those the code can leave; a temporary file is
\* its writer's.
AtomicTypeOK ==
    /\ target \in [Writers -> Destinations] /\ first \in [Destinations -> {NoFile, OldFile}]
    /\ file \in [Destinations -> {NoFile, OldFile} \cup Files]
    /\ temp \in [Writers -> {NoFile} \cup Files]
    /\ \A w \in Writers : temp[w] # NoFile => temp[w].by = w
    /\ at \in [Writers -> Steps] /\ mode \in [Writers -> Modes]
    /\ umask \in {"set", "zero"} /\ saved \in [Writers -> {"none", "set", "zero"}]
    /\ alive \in BOOLEAN

\* A destination is what it was or the whole output of one writer, never of
\* one that failed, at every moment and also after a kill; and a writer that
\* has finished or failed leaves no temporary file.  (One that is interrupted
\* between mkstemp and the try block, or killed, does.)
OldOrWhole ==
    /\ \A p \in Destinations :
         \/ file[p] = first[p]
         \/ \E w \in Writers :
              /\ file[p] \in Files /\ file[p].by = w /\ file[p].whole /\ target[w] = p
              /\ at[w] \in {"replaced", "done", "stopping", "interrupted"}
    /\ \A w \in Writers : at[w] \in {"done", "failed"} => temp[w] = NoFile

\* Why OldOrWhole: what is renamed is there and whole, and gone afterwards.
TempsInv ==
    \A w \in Writers :
        /\ at[w] \in {"created", "writing"} => temp[w] # NoFile
        /\ at[w] \in {"written", "umask", "umaskRead", "chmod", "replace"} =>
             temp[w] # NoFile /\ temp[w].whole
        /\ at[w] \in {"idle", "replaced", "done", "failed"} => temp[w] = NoFile

\* What a direct write of w would leave: the mode of the file it overwrites,
\* or the umask's; or a more private one where the mode cannot be set.
DirectModes(p) == {IF first[p] = NoFile THEN "masked" ELSE "kept", "private"}
AsDirectWrite ==
    /\ \A p \in Destinations : file[p] # NoFile => file[p].mode \in DirectModes(p)
    /\ (\A w \in Writers : at[w] \in {"idle", "done", "failed"}) => umask = "set"

\* One thread at most has set the umask to read it, as one does that creates a
\* new file.
OneCreator == \A v, w \in Writers : saved[v] # "none" /\ saved[w] # "none" => v = w

\* Modes and umask are those of a direct write as long as one thread at most
\* has created a new file.
OneCreatorAsDirect == OneCreator => AsDirectWrite

\* Why OneCreatorAsDirect: who goes on to the umask found no file, and a lone
\* creator read the umask that was set and is the only one to have it at zero.
ModesInv ==
    /\ \A p \in Destinations : first[p] # NoFile => file[p] # NoFile
    /\ \A w \in Writers :
         /\ at[w] \in {"umask", "umaskRead"} => first[target[w]] = NoFile
         /\ at[w] \in {"idle", "created", "writing", "written", "umask"} => saved[w] = "none"
         /\ at[w] = "umaskRead" => saved[w] # "none"
    /\ OneCreator =>
         /\ umask = "zero" => \E w \in Writers :
              saved[w] # "none" /\ at[w] \in {"umaskRead", "stopping", "interrupted"}
         /\ \A w \in Writers :
              /\ saved[w] # "zero"
              /\ temp[w] # NoFile => temp[w].mode \in DirectModes(target[w])
              /\ at[w] = "chmod" => mode[w] \in DirectModes(target[w])
         /\ \A p \in Destinations : file[p] # NoFile => file[p].mode \in DirectModes(p)

\* The inductive invariant.
AtomicInv == AtomicTypeOK /\ OldOrWhole /\ TempsInv /\ ModesInv
=============================================================================
