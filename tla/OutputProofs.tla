---------------------------- MODULE OutputProofs ----------------------------
(***************************************************************************)
(* Proofs about the parts around a redaction: the offline guard in any     *)
(* number of threads (NetGuard), the atomic replacement of outputs by any  *)
(* number of writers (AtomicOutput), and redact_tree over any trees and any *)
(* number of workers, which implements its contract (RedactTree).           *)
(***************************************************************************)
EXTENDS RedactTree, AtomicOutput, NetGuard, FiniteSetTheorems, SequenceTheorems, TLAPS

----------------------------------------------------------------------------
(* The offline guard.                                                      *)

\* Every step of a thread keeps the types.
LEMMA NetStepTypes ==
    ASSUME NetTypeOK, NEW t \in Threads,
           Begin(t) \/ Check(t) \/ Save(t) \/ Patch(t) \/ LeaveGuard(t) \/ Restore(t) \/ Clear(t)
    PROVE  NetTypeOK'
<1> USE DEF NetTypeOK, Moves
<1>1. CASE Begin(t)
  <2>1. already' \in [Threads -> BOOLEAN]
    <3>1. IsInstalled \in BOOLEAN
      BY DEF IsInstalled
    <3> QED
      BY <1>1, <3>1, Zenon DEF Begin
  <2>2. raced' \in BOOLEAN
    BY <1>1, Zenon DEF Begin
  <2>3. step' \in [Threads -> {"idle", "checking", "saving", "patching", "inside", "restoring",
                              "clearing", "done"}]
    BY <1>1 DEF Begin
  <2> QED
    BY <1>1, <2>1, <2>2, <2>3 DEF Begin
<1>2. CASE Check(t)
  BY <1>2 DEF Check
<1>3. CASE Save(t)
  BY <1>3 DEF Save
<1>4. CASE Patch(t)
  BY <1>4 DEF Patch
<1>5. CASE LeaveGuard(t)
  BY <1>5 DEF LeaveGuard
<1>6. CASE Restore(t)
  BY <1>6 DEF Restore
<1>7. CASE Clear(t)
  BY <1>7 DEF Clear
<1> QED
  BY <1>1, <1>2, <1>3, <1>4, <1>5, <1>6, <1>7

\* Every step of a thread keeps the reason for GuardKept.
LEMMA NetStepGuard ==
    ASSUME NetTypeOK, NetTypeOK', GuardInv, NEW t \in Threads,
           Begin(t) \/ Check(t) \/ Save(t) \/ Patch(t) \/ LeaveGuard(t) \/ Restore(t) \/ Clear(t)
    PROVE  GuardInv'
<1> DEFINE Building(x) == Pending(x) /\ Built(x)
                          /\ \A u \in Threads \ {x} : step[u] \in {"idle", "done"}
           ForGood == /\ original = "real" /\ connect = "guarded"
                      /\ \E x \in Threads : use[x] = "install" /\ step[x] = "inside"
                      /\ \A u \in Threads : /\ ~Pending(u)
                                            /\ step[u] \in {"idle", "checking", "inside", "done"}
           Absent == /\ original = "none" /\ connect = "real"
                     /\ \A u \in Threads : step[u] \in {"idle", "done"}
<1>1. SUFFICES ASSUME ~raced'
               PROVE  (\E x \in Threads : Building(x)') \/ ForGood' \/ Absent'
  BY DEF GuardInv
<1>2. ~raced
  BY <1>1, Zenon DEF Begin, Check, Save, Patch, LeaveGuard, Restore, Clear
<1>3. (\E x \in Threads : Building(x)) \/ ForGood \/ Absent
  BY <1>2 DEF GuardInv
<1> USE DEF NetTypeOK, Moves, Pending, Built, IsInstalled
<1>4. CASE Begin(t)
  <2>1. \A u \in Threads \ {t} : ~Pending(u)
    BY <1>1, <1>4, Zenon DEF Begin
  <2>2. step[t] = "idle" /\ step' = [step EXCEPT ![t] = "checking"]
    BY <1>4 DEF Begin
  <2>3. CASE ForGood
    <3>1. UNCHANGED <<use, original, connect>>
      BY <1>4 DEF Begin
    <3>2. already' = [already EXCEPT ![t] = TRUE]
      <4>1. IsInstalled = TRUE
        BY <2>3
      <4> QED
        BY <1>4, <4>1, Zenon DEF Begin
    <3>3. /\ step'[t] = "checking" /\ already'[t]
          /\ \A u \in Threads \ {t} : step'[u] = step[u] /\ already'[u] = already[u]
      BY <2>2, <3>2
    <3>4. /\ \E x \in Threads : use'[x] = "install" /\ step'[x] = "inside"
          /\ \A u \in Threads : step'[u] \in {"idle", "checking", "inside", "done"}
      BY <2>2, <2>3, <3>1, <3>3
    <3>5. \A u \in Threads : ~Pending(u)'
      BY <2>3, <3>1, <3>3
    <3> QED
      BY <2>3, <3>1, <3>4, <3>5
  <2>4. CASE Absent
    <3>1. already' = [already EXCEPT ![t] = FALSE]
      <4>1. IsInstalled = FALSE
        BY <2>4
      <4> QED
        BY <1>4, <4>1, Zenon DEF Begin
    <3>2. ~already'[t] /\ step'[t] = "checking"
      BY <2>2, <3>1
    <3>3. Pending(t)'
      BY <3>2
    <3>4. Built(t)'
      BY <1>4, <2>4, <3>2 DEF Begin
    <3>5. \A u \in Threads \ {t} : step'[u] \in {"idle", "done"}
      BY <2>2, <2>4
    <3> QED
      BY <3>3, <3>4, <3>5
  <2>5. ~\E x \in Threads : Building(x)
    BY <2>1, <2>2
  <2> QED
    BY <1>3, <2>3, <2>4, <2>5
<1>5. CASE Check(t)
  <2>1. CASE ForGood
    BY <1>5, <2>1 DEF Check
  <2>2. ASSUME NEW x \in Threads, Building(x) PROVE Building(x)'
    BY <1>5, <2>2 DEF Check
  <2> QED
    BY <1>3, <1>5, <2>1, <2>2 DEF Check
<1>6. CASE Save(t)
  <2>1. Building(t)
    BY <1>3, <1>6 DEF Save
  <2> QED
    BY <1>6, <2>1 DEF Save
<1>7. CASE Patch(t)
  <2>1. Building(t)
    BY <1>3, <1>7 DEF Patch
  <2>2. CASE use[t] = "install"
    BY <1>7, <2>1, <2>2 DEF Patch
  <2>3. CASE use[t] = "enforced"
    BY <1>7, <2>1, <2>3 DEF Patch
  <2> QED
    BY <2>2, <2>3
<1>8. CASE LeaveGuard(t)
  <2>1. CASE ForGood
    BY <1>8, <2>1 DEF LeaveGuard
  <2>2. ASSUME NEW x \in Threads, Building(x) PROVE Building(x)'
    BY <1>8, <2>2 DEF LeaveGuard
  <2> QED
    BY <1>3, <1>8, <2>1, <2>2 DEF LeaveGuard
<1>9. CASE Restore(t)
  <2>1. Building(t)
    BY <1>3, <1>9 DEF Restore
  <2> QED
    BY <1>9, <2>1 DEF Restore
<1>10. CASE Clear(t)
  <2>1. Building(t)
    BY <1>3, <1>10 DEF Clear
  <2> QED
    BY <1>10, <2>1 DEF Clear
<1> QED
  BY <1>4, <1>5, <1>6, <1>7, <1>8, <1>9, <1>10

\* The inductive invariant of the guard, for any number of threads that install
\* it or enter enforced() blocks and are interleaved at every statement: as long
\* as no call has begun while another one was building the guard or going to take
\* it away, at most one thread is at either, and the globals are as far as it is.
THEOREM NetInvariant == NetSpec => []NetInv
<1>1. NetInit => NetInv
  BY DEF NetInit, NetInv, NetTypeOK, GuardInv
<1>2. NetInv /\ [NetNext]_netVars => NetInv'
  <2> SUFFICES ASSUME NetInv, [NetNext]_netVars PROVE NetInv'
    OBVIOUS
  <2>1. CASE NetNext
    BY <2>1, NetStepTypes, NetStepGuard DEF NetNext, NetInv
  <2>2. CASE UNCHANGED netVars
    BY <2>2 DEF netVars, NetInv, NetTypeOK, GuardInv, Pending, Built
  <2> QED
    BY <2>1, <2>2
<1> QED
  BY <1>1, <1>2, PTL DEF NetSpec

\* What the guard promises of netguard.enforced and install, whatever threads use
\* it, as long as no call races with one that found the guard absent.
THEOREM GuardIsKept == NetSpec => []GuardKept
<1>1. NetInv => GuardKept
  BY DEF NetInv, NetTypeOK, GuardInv, GuardKept, Outcome, IsLocal, IsInstalled, Pending, Built
<1> QED
  BY <1>1, NetInvariant, PTL

----------------------------------------------------------------------------
(* Atomic output.                                                          *)

\* A file a writer makes, and what closing it and setting its mode change.
LEMMA NoFiles == NoFile \notin Files /\ NoFile # OldFile
BY DEF NoFile, OldFile, Files

LEMMA FileMade ==
    ASSUME NEW w \in Writers, NEW f, f = [by |-> w, whole |-> FALSE, mode |-> "private"]
    PROVE  f \in Files /\ f # NoFile /\ f.by = w /\ f.mode = "private"
<1>1. f \in Files
  <2>1. FALSE \in BOOLEAN
    OBVIOUS
  <2> QED
    BY <2>1 DEF Files, Modes
<1> QED
  BY <1>1, NoFiles

LEMMA FileClosed ==
    ASSUME NEW f \in Files, NEW g, g = [f EXCEPT !.whole = TRUE]
    PROVE  g \in Files /\ g # NoFile /\ g.by = f.by /\ g.whole /\ g.mode = f.mode
<1>1. g \in Files
  BY DEF Files
<1>2. g.by = f.by /\ g.mode = f.mode
  BY DEF Files
<1>3. g.whole = TRUE
  BY DEF Files
<1> QED
  BY <1>1, <1>2, <1>3, NoFiles

LEMMA FileModeSet ==
    ASSUME NEW f \in Files, NEW m \in Modes, NEW g, g = [f EXCEPT !.mode = m]
    PROVE  g \in Files /\ g # NoFile /\ g.by = f.by /\ g.whole = f.whole /\ g.mode = m
<1>1. g \in Files
  BY DEF Files
<1>2. g.by = f.by /\ g.whole = f.whole /\ g.mode = m
  BY DEF Files
<1> QED
  BY <1>1, <1>2, NoFiles

\* temp after a step of w on its own file.
LEMMA TempSet ==
    ASSUME AtomicTypeOK, NEW w \in Writers, NEW g, temp' = [temp EXCEPT ![w] = g]
    PROVE  temp'[w] = g /\ \A v \in Writers \ {w} : temp'[v] = temp[v]
BY DEF AtomicTypeOK

\* What a step of a writer changes of its temporary file.
LEMMA TempSteps ==
    ASSUME AtomicTypeOK, TempsInv, NEW w \in Writers,
           Create(w) \/ Close(w) \/ Chmod(w) \/ Replace(w) \/ Unlink(w)
    PROVE  \E f \in {NoFile} \cup Files :
             /\ temp' = [temp EXCEPT ![w] = f]
             /\ f # NoFile => f.by = w
<1> USE DEF Goes
<1>1. CASE Create(w)
  <2>1. PICK f : /\ f = [by |-> w, whole |-> FALSE, mode |-> "private"]
                 /\ temp' = [temp EXCEPT ![w] = f]
    BY <1>1 DEF Create
  <2>2. f \in Files /\ f.by = w
    BY <2>1, FileMade
  <2> QED
    BY <2>1, <2>2
<1>2. CASE Close(w)
  <2> temp[w] \in Files /\ temp[w].by = w
    BY <1>2 DEF Close, TempsInv, AtomicTypeOK
  <2> QED
    <3>1. PICK f : f = [temp[w] EXCEPT !.whole = TRUE] /\ temp' = [temp EXCEPT ![w] = f]
      BY <1>2 DEF Close
    <3>2. f \in Files /\ f.by = temp[w].by
      BY <3>1, FileClosed
    <3> QED
      BY <3>1, <3>2
<1>3. CASE Chmod(w)
  <2>1. temp[w] \in Files /\ temp[w].by = w /\ mode[w] \in Modes
    BY <1>3 DEF Chmod, TempsInv, AtomicTypeOK
  <2>2. CASE temp' = [temp EXCEPT ![w].mode = mode[w]]
    <3>1. PICK f : f = [temp[w] EXCEPT !.mode = mode[w]] /\ temp' = [temp EXCEPT ![w] = f]
      BY <2>2
    <3>2. f \in Files /\ f.by = temp[w].by
      BY <2>1, <3>1, FileModeSet
    <3> QED
      BY <2>1, <3>1, <3>2
  <2>3. CASE UNCHANGED temp
    <3> temp' = [temp EXCEPT ![w] = temp[w]]
      BY <2>3 DEF AtomicTypeOK
    <3> QED
      BY <2>1
  <2> QED
    BY <1>3, <2>2, <2>3 DEF Chmod
<1>4. CASE Replace(w)
  BY <1>4 DEF Replace
<1>5. CASE Unlink(w)
  BY <1>5 DEF Unlink
<1> QED
  BY <1>1, <1>2, <1>3, <1>4, <1>5

\* A step of at.
LEMMA AtSet ==
    ASSUME AtomicTypeOK, NEW w \in Writers, NEW from, NEW to \in Steps, Goes(w, from, to)
    PROVE  /\ alive /\ at[w] = from /\ at'[w] = to /\ at' \in [Writers -> Steps]
           /\ \A v \in Writers \ {w} : at'[v] = at[v]
BY DEF AtomicTypeOK, Goes

\* The types are kept by every step.
LEMMA AtomicTypes ==
    ASSUME AtomicTypeOK, TempsInv, ModesInv, AtomicNext
    PROVE  AtomicTypeOK'
<1>1. ASSUME NEW w \in Writers,
             Create(w) \/ Close(w) \/ Chmod(w) \/ Replace(w) \/ Unlink(w)
      PROVE  /\ temp' \in [Writers -> {NoFile} \cup Files]
             /\ \A v \in Writers : temp'[v] # NoFile => temp'[v].by = v
  <2>1. PICK f \in {NoFile} \cup Files : /\ temp' = [temp EXCEPT ![w] = f]
                                         /\ f # NoFile => f.by = w
    BY <1>1, TempSteps
  <2>2. temp \in [Writers -> {NoFile} \cup Files]
        /\ \A v \in Writers : temp[v] # NoFile => temp[v].by = v
    BY DEF AtomicTypeOK
  <2>3. temp'[w] = f /\ \A v \in Writers \ {w} : temp'[v] = temp[v]
    BY <2>1, <2>2
  <2>4. temp' \in [Writers -> {NoFile} \cup Files]
    BY <2>1, <2>2
  <2> QED
    BY <2>1, <2>2, <2>3, <2>4
<1> USE DEF AtomicTypeOK, Steps, Resting
<1>2. ASSUME NEW w \in Writers, Create(w) PROVE AtomicTypeOK'
  BY <1>1, <1>2, AtSet DEF Create
<1>3. ASSUME NEW w \in Writers, Enter(w) PROVE AtomicTypeOK'
  BY <1>3, AtSet DEF Enter
<1>4. ASSUME NEW w \in Writers, Close(w) PROVE AtomicTypeOK'
  BY <1>1, <1>4, AtSet DEF Close
<1>5. ASSUME NEW w \in Writers, StatOld(w) PROVE AtomicTypeOK'
  <2>1. file[target[w]].mode \in Modes
    BY <1>5, NoFiles DEF StatOld, Modes, OldFile, Files
  <2> QED
    BY <1>5, <2>1, AtSet DEF StatOld
<1>6. ASSUME NEW w \in Writers, StatNew(w) PROVE AtomicTypeOK'
  BY <1>6, AtSet DEF StatNew
<1>7. ASSUME NEW w \in Writers, ReadUmask(w) PROVE AtomicTypeOK'
  BY <1>7, AtSet DEF ReadUmask
<1>8. ASSUME NEW w \in Writers, RestoreUmask(w) PROVE AtomicTypeOK'
  <2>1. NewMode(saved[w]) \in Modes
    BY DEF NewMode, Modes
  <2>2. saved[w] \in {"set", "zero"}
    BY <1>8 DEF RestoreUmask, Goes, ModesInv
  <2> QED
    BY <1>8, <2>1, <2>2, AtSet DEF RestoreUmask
<1>9. ASSUME NEW w \in Writers, Chmod(w) PROVE AtomicTypeOK'
  BY <1>1, <1>9, AtSet DEF Chmod
<1>10. ASSUME NEW w \in Writers, Replace(w) PROVE AtomicTypeOK'
  <2>1. temp[w] \in {NoFile} \cup Files
    BY <1>10
  <2> QED
    BY <1>1, <1>10, <2>1, AtSet DEF Replace
<1>11. ASSUME NEW w \in Writers, LeaveBlock(w) PROVE AtomicTypeOK'
  BY <1>11, AtSet DEF LeaveBlock
<1>12. ASSUME NEW w \in Writers, FailWrite(w) PROVE AtomicTypeOK'
  BY <1>12, AtSet DEF FailWrite
<1>13. ASSUME NEW w \in Writers, Unlink(w) PROVE AtomicTypeOK'
  BY <1>1, <1>13, AtSet DEF Unlink
<1>14. ASSUME Interrupt PROVE AtomicTypeOK'
  BY <1>14, AtomicAssumption, AtSet DEF Interrupt
<1>15. ASSUME Kill PROVE AtomicTypeOK'
  BY <1>15 DEF Kill
<1> QED
  BY <1>2, <1>3, <1>4, <1>5, <1>6, <1>7, <1>8, <1>9, <1>10, <1>11, <1>12, <1>13, <1>14, <1>15 DEF AtomicNext

\* What a writer makes of its temporary file: it is there, whole once closed,
\* and has the mode that was to be set or the one it had.
LEMMA TempEffects ==
    ASSUME AtomicTypeOK, TempsInv, NEW w \in Writers
    PROVE  /\ Create(w) => temp'[w] # NoFile /\ temp'[w].mode = "private"
           /\ Close(w) => /\ temp[w] # NoFile /\ temp'[w] # NoFile
                          /\ temp'[w].whole /\ temp'[w].mode = temp[w].mode
           /\ Chmod(w) => /\ temp[w] # NoFile /\ temp'[w] # NoFile
                          /\ temp'[w].whole = temp[w].whole
                          /\ temp'[w].mode \in {mode[w], temp[w].mode}
           /\ \A v \in Writers \ {w} :
                Create(w) \/ Close(w) \/ Chmod(w) \/ Replace(w) \/ Unlink(w) => temp'[v] = temp[v]
<1> USE DEF Goes
<1>1. ASSUME Create(w) PROVE temp'[w] # NoFile /\ temp'[w].mode = "private"
  <2>1. PICK f : /\ f = [by |-> w, whole |-> FALSE, mode |-> "private"]
                 /\ temp' = [temp EXCEPT ![w] = f]
    BY <1>1 DEF Create
  <2>2. f # NoFile /\ f.mode = "private"
    BY <2>1, FileMade
  <2> QED
    BY <2>1, <2>2 DEF AtomicTypeOK
<1>2. ASSUME Close(w) PROVE /\ temp[w] # NoFile /\ temp'[w] # NoFile
                            /\ temp'[w].whole /\ temp'[w].mode = temp[w].mode
  <2>1. temp[w] \in Files
    BY <1>2 DEF Close, TempsInv, AtomicTypeOK
  <2>2. PICK f : f = [temp[w] EXCEPT !.whole = TRUE] /\ temp' = [temp EXCEPT ![w] = f]
    BY <1>2 DEF Close
  <2>3. f # NoFile /\ f.whole /\ f.mode = temp[w].mode
    BY <2>1, <2>2, FileClosed
  <2>4. temp'[w] = f
    BY <2>2 DEF AtomicTypeOK
  <2> QED
    BY <2>1, <2>3, <2>4, NoFiles
<1>3. ASSUME Chmod(w) PROVE /\ temp[w] # NoFile /\ temp'[w] # NoFile
                            /\ temp'[w].whole = temp[w].whole
                            /\ temp'[w].mode \in {mode[w], temp[w].mode}
  <2>1. temp[w] \in Files /\ mode[w] \in Modes
    BY <1>3 DEF Chmod, TempsInv, AtomicTypeOK
  <2>2. CASE temp' = [temp EXCEPT ![w].mode = mode[w]]
    <3>1. PICK f : f = [temp[w] EXCEPT !.mode = mode[w]] /\ temp' = [temp EXCEPT ![w] = f]
      BY <2>2
    <3>2. f # NoFile /\ f.whole = temp[w].whole /\ f.mode = mode[w]
      BY <2>1, <3>1, FileModeSet
    <3>3. temp'[w] = f
      BY <3>1 DEF AtomicTypeOK
    <3> QED
      BY <2>1, <3>2, <3>3, NoFiles
  <2>3. CASE UNCHANGED temp
    BY <2>1, <2>3, NoFiles
  <2> QED
    BY <1>3, <2>2, <2>3 DEF Chmod
<1>4. ASSUME NEW v \in Writers \ {w},
             Create(w) \/ Close(w) \/ Chmod(w) \/ Replace(w) \/ Unlink(w)
      PROVE  temp'[v] = temp[v]
  <2>1. PICK f \in {NoFile} \cup Files : temp' = [temp EXCEPT ![w] = f]
    BY <1>4, TempSteps
  <2> QED
    BY <2>1 DEF AtomicTypeOK
<1> QED
  BY <1>1, <1>2, <1>3, <1>4

\* A temporary file is there while it is needed, whole once closed, and gone
\* afterwards.
LEMMA TempsKept ==
    ASSUME AtomicTypeOK, AtomicTypeOK', TempsInv, AtomicNext
    PROVE  TempsInv'
<1> USE DEF Steps, Resting, TempsInv
<1>1. ASSUME NEW w \in Writers, Create(w) PROVE TempsInv'
  <2>1. temp'[w] # NoFile
    BY <1>1, TempEffects
  <2>2. \A v \in Writers \ {w} : temp'[v] = temp[v]
    BY <1>1, TempEffects
  <2>3. /\ at[w] = "idle" /\ at'[w] = "created"
        /\ \A v \in Writers \ {w} : at'[v] = at[v]
    BY <1>1, AtSet DEF Create
  <2> QED
    BY <2>1, <2>2, <2>3
<1>2. ASSUME NEW w \in Writers, Enter(w) PROVE TempsInv'
  BY <1>2, AtSet DEF Enter
<1>3. ASSUME NEW w \in Writers, Close(w) PROVE TempsInv'
  <2>1. temp'[w] # NoFile /\ temp'[w].whole
    BY <1>3, TempEffects
  <2>2. \A v \in Writers \ {w} : temp'[v] = temp[v]
    BY <1>3, TempEffects
  <2>3. /\ at[w] = "writing" /\ at'[w] = "written"
        /\ \A v \in Writers \ {w} : at'[v] = at[v]
    BY <1>3, AtSet DEF Close
  <2> QED
    BY <2>1, <2>2, <2>3
<1>4. ASSUME NEW w \in Writers, StatOld(w) PROVE TempsInv'
  BY <1>4, AtSet DEF StatOld
<1>5. ASSUME NEW w \in Writers, StatNew(w) PROVE TempsInv'
  BY <1>5, AtSet DEF StatNew
<1>6. ASSUME NEW w \in Writers, ReadUmask(w) PROVE TempsInv'
  BY <1>6, AtSet DEF ReadUmask
<1>7. ASSUME NEW w \in Writers, RestoreUmask(w) PROVE TempsInv'
  BY <1>7, AtSet DEF RestoreUmask
<1>8. ASSUME NEW w \in Writers, Chmod(w) PROVE TempsInv'
  <2>1. temp'[w] # NoFile /\ temp'[w].whole = temp[w].whole
    BY <1>8, TempEffects
  <2>2. \A v \in Writers \ {w} : temp'[v] = temp[v]
    BY <1>8, TempEffects
  <2>3. /\ at[w] = "chmod" /\ at'[w] = "replace"
        /\ \A v \in Writers \ {w} : at'[v] = at[v]
    BY <1>8, AtSet DEF Chmod
  <2> QED
    BY <2>1, <2>2, <2>3
<1>9. ASSUME NEW w \in Writers, Replace(w) PROVE TempsInv'
  <2>1. temp'[w] = NoFile
    BY <1>9 DEF Replace, AtomicTypeOK
  <2> QED
    BY <1>9, <2>1, AtSet, TempEffects DEF Replace
<1>10. ASSUME NEW w \in Writers, LeaveBlock(w) PROVE TempsInv'
  BY <1>10, AtSet DEF LeaveBlock
<1>11. ASSUME NEW w \in Writers, FailWrite(w) PROVE TempsInv'
  BY <1>11, AtSet DEF FailWrite
<1>12. ASSUME NEW w \in Writers, Unlink(w) PROVE TempsInv'
  <2>1. temp'[w] = NoFile
    BY <1>12 DEF Unlink, AtomicTypeOK
  <2> QED
    BY <1>12, <2>1, AtSet, TempEffects DEF Unlink
<1>13. ASSUME Interrupt PROVE TempsInv'
  BY <1>13, AtomicAssumption, AtSet DEF Interrupt
<1>14. ASSUME Kill PROVE TempsInv'
  BY <1>14 DEF Kill
<1> QED
  BY <1>1, <1>2, <1>3, <1>4, <1>5, <1>6, <1>7, <1>8, <1>9, <1>10, <1>11, <1>12, <1>13, <1>14 DEF AtomicNext

\* What is renamed over a destination is the whole file of the writer whose
\* destination it is.
LEMMA WholeKept ==
    ASSUME AtomicTypeOK, AtomicTypeOK', TempsInv, TempsInv', OldOrWhole, AtomicNext
    PROVE  OldOrWhole'
<1> USE DEF Steps, Resting
<1> DEFINE Kept(p) ==
        \/ file[p] = first[p]
        \/ \E w \in Writers :
             /\ file[p] \in Files /\ file[p].by = w /\ file[p].whole /\ target[w] = p
             /\ at[w] \in {"replaced", "done", "stopping", "interrupted"}
<1>1. SUFFICES ASSUME NEW p \in Destinations PROVE Kept(p)'
  BY DEF OldOrWhole, TempsInv
<1>2. Kept(p)
  BY DEF OldOrWhole
<1>3. ASSUME NEW w \in Writers, Create(w) PROVE Kept(p)'
  BY <1>2, <1>3, AtSet DEF Create
<1>4. ASSUME NEW w \in Writers, Enter(w) PROVE Kept(p)'
  BY <1>2, <1>4, AtSet DEF Enter
<1>5. ASSUME NEW w \in Writers, Close(w) PROVE Kept(p)'
  BY <1>2, <1>5, AtSet DEF Close
<1>6. ASSUME NEW w \in Writers, StatOld(w) PROVE Kept(p)'
  BY <1>2, <1>6, AtSet DEF StatOld
<1>7. ASSUME NEW w \in Writers, StatNew(w) PROVE Kept(p)'
  BY <1>2, <1>7, AtSet DEF StatNew
<1>8. ASSUME NEW w \in Writers, ReadUmask(w) PROVE Kept(p)'
  BY <1>2, <1>8, AtSet DEF ReadUmask
<1>9. ASSUME NEW w \in Writers, RestoreUmask(w) PROVE Kept(p)'
  BY <1>2, <1>9, AtSet DEF RestoreUmask
<1>10. ASSUME NEW w \in Writers, Chmod(w) PROVE Kept(p)'
  BY <1>2, <1>10, AtSet DEF Chmod
<1>11. ASSUME NEW w \in Writers, Replace(w) PROVE Kept(p)'
  <2>1. temp[w] \in Files /\ temp[w].whole /\ temp[w].by = w
    BY <1>11 DEF Replace, Goes, TempsInv, AtomicTypeOK
  <2>2. at'[w] = "replaced" /\ target' = target /\ first' = first
    BY <1>11, AtSet DEF Replace
  <2>3. CASE target[w] = p
    <3>1. file'[p] = temp[w]
      BY <1>11, <2>3 DEF Replace, AtomicTypeOK
    <3> QED
      BY <2>1, <2>2, <2>3, <3>1
  <2>4. CASE target[w] # p
    <3>1. file'[p] = file[p]
      BY <1>11, <2>4 DEF Replace, AtomicTypeOK
    <3> QED
      BY <1>2, <1>11, <2>2, <3>1, AtSet DEF Replace
  <2> QED
    BY <2>3, <2>4
<1>12. ASSUME NEW w \in Writers, LeaveBlock(w) PROVE Kept(p)'
  BY <1>2, <1>12, AtSet DEF LeaveBlock
<1>13. ASSUME NEW w \in Writers, FailWrite(w) PROVE Kept(p)'
  BY <1>2, <1>13, AtSet DEF FailWrite
<1>14. ASSUME NEW w \in Writers, Unlink(w) PROVE Kept(p)'
  BY <1>2, <1>14, AtSet DEF Unlink
<1>15. ASSUME Interrupt PROVE Kept(p)'
  BY <1>2, <1>15, AtomicAssumption, AtSet DEF Interrupt
<1>16. ASSUME Kill PROVE Kept(p)'
  BY <1>2, <1>16 DEF Kill
<1> QED
  BY <1>3, <1>4, <1>5, <1>6, <1>7, <1>8, <1>9, <1>10, <1>11, <1>12, <1>13, <1>14, <1>15, <1>16 DEF AtomicNext

\* The parts of ModesInv.
FoundNone ==
    /\ \A p \in Destinations : first[p] # NoFile => file[p] # NoFile
    /\ \A w \in Writers :
         /\ at[w] \in {"umask", "umaskRead"} => first[target[w]] = NoFile
         /\ at[w] \in {"idle", "created", "writing", "written", "umask"} => saved[w] = "none"
         /\ at[w] = "umaskRead" => saved[w] # "none"
ZeroHasOwner == umask = "zero" => \E w \in Writers :
    saved[w] # "none" /\ at[w] \in {"umaskRead", "stopping", "interrupted"}
OwnModes == \A w \in Writers :
    /\ saved[w] # "zero"
    /\ temp[w] # NoFile => temp[w].mode \in DirectModes(target[w])
    /\ at[w] = "chmod" => mode[w] \in DirectModes(target[w])
FileModes == \A p \in Destinations : file[p] # NoFile => file[p].mode \in DirectModes(p)

LEMMA ModesParts == ModesInv <=> FoundNone /\ (OneCreator => ZeroHasOwner /\ OwnModes /\ FileModes)
BY DEF ModesInv, FoundNone, ZeroHasOwner, OwnModes, FileModes

\* A writer that goes on to the umask has found no file, also before the call.
LEMMA FoundNoneKept ==
    ASSUME AtomicTypeOK, AtomicTypeOK', TempsInv, FoundNone, AtomicNext
    PROVE  FoundNone'
<1> USE DEF Steps, Resting, FoundNone
<1>1. ASSUME NEW w \in Writers, Create(w) PROVE FoundNone'
  BY <1>1, AtSet DEF Create
<1>2. ASSUME NEW w \in Writers, Enter(w) PROVE FoundNone'
  BY <1>2, AtSet DEF Enter
<1>3. ASSUME NEW w \in Writers, Close(w) PROVE FoundNone'
  BY <1>3, AtSet DEF Close
<1>4. ASSUME NEW w \in Writers, StatOld(w) PROVE FoundNone'
  BY <1>4, AtSet DEF StatOld
<1>5. ASSUME NEW w \in Writers, StatNew(w) PROVE FoundNone'
  <2>1. target[w] \in Destinations
    BY DEF AtomicTypeOK
  <2>2. first[target[w]] = NoFile
    BY <1>5, <2>1 DEF StatNew
  <2> QED
    BY <1>5, <2>2, AtSet DEF StatNew
<1>6. ASSUME NEW w \in Writers, ReadUmask(w) PROVE FoundNone'
  <2>1. umask # "none"
    BY DEF AtomicTypeOK
  <2>2. saved'[w] = umask /\ \A v \in Writers \ {w} : saved'[v] = saved[v]
    BY <1>6 DEF ReadUmask, AtomicTypeOK
  <2> QED
    BY <1>6, <2>1, <2>2, AtSet DEF ReadUmask
<1>7. ASSUME NEW w \in Writers, RestoreUmask(w) PROVE FoundNone'
  BY <1>7, AtSet DEF RestoreUmask
<1>8. ASSUME NEW w \in Writers, Chmod(w) PROVE FoundNone'
  BY <1>8, AtSet DEF Chmod
<1>9. ASSUME NEW w \in Writers, Replace(w) PROVE FoundNone'
  <2>1. temp[w] # NoFile
    BY <1>9 DEF Replace, Goes, TempsInv
  <2>2. \A p \in Destinations : file'[p] \in {file[p], temp[w]}
    BY <1>9 DEF Replace, AtomicTypeOK
  <2> QED
    BY <1>9, <2>1, <2>2, AtSet DEF Replace
<1>10. ASSUME NEW w \in Writers, LeaveBlock(w) PROVE FoundNone'
  BY <1>10, AtSet DEF LeaveBlock
<1>11. ASSUME NEW w \in Writers, FailWrite(w) PROVE FoundNone'
  BY <1>11, AtSet DEF FailWrite
<1>12. ASSUME NEW w \in Writers, Unlink(w) PROVE FoundNone'
  BY <1>12, AtSet DEF Unlink
<1>13. ASSUME Interrupt PROVE FoundNone'
  BY <1>13, AtomicAssumption, AtSet DEF Interrupt
<1>14. ASSUME Kill PROVE FoundNone'
  BY <1>14 DEF Kill
<1> QED
  BY <1>1, <1>2, <1>3, <1>4, <1>5, <1>6, <1>7, <1>8, <1>9, <1>10, <1>11, <1>12, <1>13, <1>14 DEF AtomicNext

\* Who has read the umask has read it: two that have were two before.
LEMMA CreatorsStay ==
    ASSUME AtomicTypeOK, AtomicNext, OneCreator'
    PROVE  OneCreator
<1>1. \A v \in Writers : saved[v] # "none" => saved'[v] # "none"
  <2>1. ASSUME NEW w \in Writers, ReadUmask(w), NEW v \in Writers, saved[v] # "none"
        PROVE  saved'[v] # "none"
    BY <2>1 DEF ReadUmask, AtomicTypeOK
  <2>2. CASE UNCHANGED saved
    BY <2>2
  <2>3. (\E w \in Writers : ReadUmask(w)) \/ UNCHANGED saved
    BY DEF AtomicNext, Create, Enter, Close, StatOld, StatNew, RestoreUmask, Chmod,
           Replace, LeaveBlock, FailWrite, Unlink, Interrupt, Kill
  <2> QED
    BY <2>1, <2>2, <2>3
<1> QED
  BY <1>1 DEF OneCreator

\* With one creator at most, the umask is at zero only while that one has it, and
\* every mode set or about to be set is that of a direct write.
LEMMA LoneModesKept ==
    ASSUME AtomicTypeOK, AtomicTypeOK', TempsInv, FoundNone, OneCreator, OneCreator',
           ZeroHasOwner, OwnModes, FileModes, AtomicNext
    PROVE  ZeroHasOwner' /\ OwnModes' /\ FileModes'
<1> USE DEF Steps, Resting, DirectModes
<1>1. first' = first /\ target' = target /\ target \in [Writers -> Destinations]
  BY DEF AtomicTypeOK, AtomicNext, Create, Enter, Close, StatOld, StatNew, ReadUmask, RestoreUmask,
         Chmod, Replace, LeaveBlock, FailWrite, Unlink, Interrupt, Kill
<1>2. ASSUME NEW w \in Writers, Create(w) PROVE ZeroHasOwner' /\ OwnModes' /\ FileModes'
  <2>1. ZeroHasOwner' /\ FileModes'
    BY <1>1, <1>2, AtSet DEF Create, ZeroHasOwner, FileModes
  <2>2. temp'[w].mode \in DirectModes(target[w])
    BY <1>2, TempEffects DEF OwnModes, Create
  <2>3. \A v \in Writers \ {w} : temp'[v] = temp[v]
    BY <1>2, TempEffects
  <2> QED
    BY <1>1, <1>2, <2>1, <2>2, <2>3, AtSet DEF Create, OwnModes
<1>3. ASSUME NEW w \in Writers, Enter(w) PROVE ZeroHasOwner' /\ OwnModes' /\ FileModes'
  BY <1>1, <1>3, AtSet DEF Enter, ZeroHasOwner, OwnModes, FileModes
<1>4. ASSUME NEW w \in Writers, Close(w) PROVE ZeroHasOwner' /\ OwnModes' /\ FileModes'
  <2>1. ZeroHasOwner' /\ FileModes'
    BY <1>1, <1>4, AtSet DEF Close, ZeroHasOwner, FileModes
  <2>2. temp'[w].mode \in DirectModes(target[w])
    BY <1>4, TempEffects DEF OwnModes, Close
  <2>3. \A v \in Writers \ {w} : temp'[v] = temp[v]
    BY <1>4, TempEffects
  <2> QED
    BY <1>1, <1>4, <2>1, <2>2, <2>3, AtSet DEF Close, OwnModes
<1>5. ASSUME NEW w \in Writers, StatOld(w) PROVE ZeroHasOwner' /\ OwnModes' /\ FileModes'
  <2>1. ZeroHasOwner' /\ FileModes'
    BY <1>1, <1>5, AtSet DEF StatOld, ZeroHasOwner, FileModes
  <2>2. file[target[w]].mode \in DirectModes(target[w])
    BY <1>1, <1>5 DEF FileModes, StatOld
  <2>3. mode'[w] = file[target[w]].mode /\ \A v \in Writers \ {w} : mode'[v] = mode[v]
    BY <1>5 DEF StatOld, AtomicTypeOK
  <2> QED
    BY <1>1, <1>5, <2>1, <2>2, <2>3, AtSet DEF StatOld, OwnModes
<1>6. ASSUME NEW w \in Writers, StatNew(w) PROVE ZeroHasOwner' /\ OwnModes' /\ FileModes'
  BY <1>1, <1>6, AtSet DEF StatNew, ZeroHasOwner, OwnModes, FileModes
<1>7. ASSUME NEW w \in Writers, ReadUmask(w) PROVE ZeroHasOwner' /\ OwnModes' /\ FileModes'
  <2>1. saved'[w] = umask /\ \A v \in Writers \ {w} : saved'[v] = saved[v]
    BY <1>7 DEF ReadUmask, AtomicTypeOK
  <2>2. umask = "set"
    <3>1. ASSUME umask = "zero" PROVE FALSE
      <4>1. PICK v \in Writers : saved[v] # "none"
        BY <3>1 DEF ZeroHasOwner
      <4>2. v # w
        BY <1>7, <4>1 DEF FoundNone, ReadUmask, Goes
      <4> QED
        BY <2>1, <3>1, <4>1, <4>2 DEF OneCreator
    <3> QED
      BY <3>1 DEF AtomicTypeOK
  <2>3. ZeroHasOwner'
    BY <1>7, <2>1, <2>2, AtSet DEF ReadUmask, ZeroHasOwner
  <2> QED
    BY <1>1, <1>7, <2>1, <2>2, <2>3, AtSet DEF ReadUmask, OwnModes, FileModes
<1>8. ASSUME NEW w \in Writers, RestoreUmask(w) PROVE ZeroHasOwner' /\ OwnModes' /\ FileModes'
  <2>1. saved[w] = "set" /\ first[target[w]] = NoFile
    BY <1>8 DEF RestoreUmask, Goes, FoundNone, OwnModes, AtomicTypeOK
  <2>2. mode'[w] = "masked" /\ \A v \in Writers \ {w} : mode'[v] = mode[v]
    BY <1>8, <2>1 DEF RestoreUmask, NewMode, AtomicTypeOK
  <2>3. ZeroHasOwner'
    BY <1>8, <2>1 DEF RestoreUmask, ZeroHasOwner
  <2> QED
    BY <1>1, <1>8, <2>1, <2>2, <2>3, AtSet DEF RestoreUmask, OwnModes, FileModes
<1>9. ASSUME NEW w \in Writers, Chmod(w) PROVE ZeroHasOwner' /\ OwnModes' /\ FileModes'
  <2>1. ZeroHasOwner' /\ FileModes'
    BY <1>1, <1>9, AtSet DEF Chmod, ZeroHasOwner, FileModes
  <2>2. temp'[w].mode \in DirectModes(target[w])
    BY <1>9, TempEffects DEF OwnModes, Chmod, Goes
  <2>3. \A v \in Writers \ {w} : temp'[v] = temp[v]
    BY <1>9, TempEffects
  <2> QED
    BY <1>1, <1>9, <2>1, <2>2, <2>3, AtSet DEF Chmod, OwnModes
<1>10. ASSUME NEW w \in Writers, Replace(w) PROVE ZeroHasOwner' /\ OwnModes' /\ FileModes'
  <2>1. ZeroHasOwner'
    BY <1>10, AtSet DEF Replace, ZeroHasOwner
  <2>2. temp'[w] = NoFile /\ \A v \in Writers \ {w} : temp'[v] = temp[v]
    BY <1>10 DEF Replace, AtomicTypeOK
  <2>3. OwnModes'
    BY <1>1, <1>10, <2>2, AtSet DEF Replace, OwnModes
  <2>4. temp[w].mode \in DirectModes(target[w])
    BY <1>10 DEF Replace, Goes, TempsInv, OwnModes
  <2>5. \A p \in Destinations : file'[p] = IF p = target[w] THEN temp[w] ELSE file[p]
    BY <1>10 DEF Replace, AtomicTypeOK
  <2> QED
    BY <1>1, <2>1, <2>3, <2>4, <2>5 DEF FileModes
<1>11. ASSUME NEW w \in Writers, LeaveBlock(w) PROVE ZeroHasOwner' /\ OwnModes' /\ FileModes'
  BY <1>1, <1>11, AtSet DEF LeaveBlock, ZeroHasOwner, OwnModes, FileModes
<1>12. ASSUME NEW w \in Writers, FailWrite(w) PROVE ZeroHasOwner' /\ OwnModes' /\ FileModes'
  BY <1>1, <1>12, AtSet DEF FailWrite, ZeroHasOwner, OwnModes, FileModes
<1>13. ASSUME NEW w \in Writers, Unlink(w) PROVE ZeroHasOwner' /\ OwnModes' /\ FileModes'
  <2>1. ZeroHasOwner' /\ FileModes'
    BY <1>1, <1>13, AtSet DEF Unlink, ZeroHasOwner, FileModes
  <2>2. temp'[w] = NoFile /\ \A v \in Writers \ {w} : temp'[v] = temp[v]
    BY <1>13 DEF Unlink, AtomicTypeOK
  <2> QED
    BY <1>1, <1>13, <2>1, <2>2, AtSet DEF Unlink, OwnModes
<1>14. ASSUME Interrupt PROVE ZeroHasOwner' /\ OwnModes' /\ FileModes'
  BY <1>1, <1>14, AtomicAssumption, AtSet DEF Interrupt, ZeroHasOwner, OwnModes, FileModes
<1>15. ASSUME Kill PROVE ZeroHasOwner' /\ OwnModes' /\ FileModes'
  BY <1>1, <1>15 DEF Kill, ZeroHasOwner, OwnModes, FileModes
<1> QED
  BY <1>2, <1>3, <1>4, <1>5, <1>6, <1>7, <1>8, <1>9, <1>10, <1>11, <1>12, <1>13, <1>14, <1>15 DEF AtomicNext

\* The inductive invariant of the writers, for any number of them: what the
\* destinations are, that a temporary file is there and whole when it is renamed,
\* and whose the umask is while it is at zero.
THEOREM AtomicInvariant == AtomicSpec => []AtomicInv
<1>1. AtomicInit => AtomicInv
  <2> SUFFICES ASSUME AtomicInit PROVE AtomicInv
    OBVIOUS
  <2>1. AtomicTypeOK
    BY DEF AtomicInit, AtomicTypeOK, Modes, Steps, Resting
  <2>2. OldOrWhole /\ TempsInv
    BY DEF AtomicInit, OldOrWhole, TempsInv
  <2>3. FoundNone /\ ZeroHasOwner /\ OwnModes
    BY DEF AtomicInit, FoundNone, ZeroHasOwner, OwnModes
  <2>4. FileModes
    BY DEF AtomicInit, FileModes, DirectModes, OldFile
  <2> QED
    BY <2>1, <2>2, <2>3, <2>4, ModesParts DEF AtomicInv
<1>2. AtomicInv /\ [AtomicNext]_atomicVars => AtomicInv'
  <2> SUFFICES ASSUME AtomicInv, [AtomicNext]_atomicVars PROVE AtomicInv'
    OBVIOUS
  <2>1. CASE AtomicNext
    <3>1. AtomicTypeOK /\ TempsInv /\ OldOrWhole /\ ModesInv
      BY DEF AtomicInv
    <3>2. AtomicTypeOK'
      BY <2>1, <3>1, AtomicTypes
    <3>3. TempsInv'
      BY <2>1, <3>1, <3>2, TempsKept
    <3>4. OldOrWhole'
      BY <2>1, <3>1, <3>2, <3>3, WholeKept
    <3>5. FoundNone'
      BY <2>1, <3>1, <3>2, FoundNoneKept, ModesParts
    <3>6. OneCreator' => ZeroHasOwner' /\ OwnModes' /\ FileModes'
      BY <2>1, <3>1, <3>2, CreatorsStay, LoneModesKept, ModesParts
    <3>7. ModesInv'
      BY <3>5, <3>6 DEF ModesInv, FoundNone, ZeroHasOwner, OwnModes, FileModes
    <3> QED
      BY <3>2, <3>3, <3>4, <3>7 DEF AtomicInv
  <2>2. CASE UNCHANGED atomicVars
    BY <2>2 DEF atomicVars, AtomicInv, AtomicTypeOK, OldOrWhole, TempsInv, ModesInv, OneCreator,
                DirectModes
  <2> QED
    BY <2>1, <2>2
<1> QED
  BY <1>1, <1>2, PTL DEF AtomicSpec

\* What _atomic promises: whatever fails, is interrupted or killed, between any
\* two steps of any number of writers, a destination is as it was or the whole
\* output of one writer, and a writer that ended leaves no temporary file.
THEOREM OutputOldOrWhole == AtomicSpec => []OldOrWhole
<1>1. AtomicInv => OldOrWhole
  BY DEF AtomicInv
<1> QED
  BY <1>1, AtomicInvariant, PTL

\* The modes and the umask are those of a direct write as long as one thread at
\* most has created a new file; AtomicUmask.cfg shows what two do.
THEOREM LoneCreatorAsDirect == AtomicSpec => []OneCreatorAsDirect
<1>1. AtomicInv => OneCreatorAsDirect
  <2> SUFFICES ASSUME AtomicInv, OneCreator PROVE AsDirectWrite
    BY DEF OneCreatorAsDirect
  <2>1. AtomicTypeOK /\ FoundNone /\ ZeroHasOwner /\ FileModes
    BY ModesParts DEF AtomicInv
  <2>2. (\A w \in Writers : at[w] \in {"idle", "done", "failed"}) => umask = "set"
    BY <2>1 DEF ZeroHasOwner, AtomicTypeOK
  <2> QED
    BY <2>1, <2>2 DEF AsDirectWrite, FileModes
<1> QED
  BY <1>1, AtomicInvariant, PTL

----------------------------------------------------------------------------
(* The tree.                                                               *)

\* What the assumption says of the jobs of a call.
LEMMA JobFacts ==
    ASSUME jobs \in Trees
    PROVE  /\ Len(jobs) \in Nat /\ DOMAIN jobs = Jobs
           /\ \A i \in Jobs : jobs[i].in \in Paths(jobs) /\ jobs[i].out \in Paths(jobs)
           /\ \A i, j \in Jobs : i # j => /\ jobs[i].in # jobs[j].in /\ jobs[i].out # jobs[j].out
                                          /\ jobs[i].in # jobs[j].out
<1>1. jobs \in Seq([in : Paths(jobs), out : Paths(jobs)])
  BY RedactTreeAssumption
<1> HIDE DEF Paths
<1>2. Len(jobs) \in Nat /\ DOMAIN jobs = Jobs
  BY <1>1 DEF Jobs
<1>3. \A i \in Jobs : jobs[i].in \in Paths(jobs) /\ jobs[i].out \in Paths(jobs)
  <2> TAKE i \in Jobs
  <2>1. jobs[i] \in [in : Paths(jobs), out : Paths(jobs)]
    BY <1>1, <1>2, ElementOfSeq DEF Jobs
  <2> QED
    BY <2>1
<1> QED
  BY <1>2, <1>3, RedactTreeAssumption

\* The redaction of a text is one, and not the text of a file never redacted.
LEMMA RedactedFacts ==
    ASSUME NEW t \in Texts
    PROVE  Redacted(t) \in Texts /\ Redacted(t).passes = t.passes + 1
BY DEF Texts, Redacted

LEMMA RedactedDiffers ==
    ASSUME NEW t \in Texts, NEW u \in Texts, t.passes = 0
    PROVE  Redacted(u) # t
<1>1. Redacted(u).passes = u.passes + 1 /\ u.passes \in Nat
  BY RedactedFacts DEF Texts
<1> QED
  BY <1>1

\* The states of a job.
LEMMA JobStates ==
    /\ Queued.at = "queued" /\ Done.at = "done" /\ Failed.at = "failed"
    /\ \A t : Running(t).at = "running" /\ Running(t).text = t
    /\ \A t \in Texts : Running(t) \in [at : {"running"}, text : Texts]
    /\ \A s \in {Queued, Done, Failed} \cup [at : {"running"}, text : Texts] :
         /\ s.at \in {"queued", "running", "done", "failed"}
         /\ s.at = "running" => s.text \in Texts
BY DEF Queued, Done, Failed, Running

\* The running jobs are finitely many.
LEMMA RunningFinite ==
    ASSUME jobs \in Trees
    PROVE  \A S \in SUBSET Jobs : IsFiniteSet(S) /\ Cardinality(S) \in Nat
<1>1. IsFiniteSet(Jobs)
  BY JobFacts, FS_Interval DEF Jobs
<1> QED
  BY <1>1, FS_Subset, FS_CardinalityType

\* The call starts with nothing redacted.
LEMMA TreeInitially ==
    ASSUME TreeInit
    PROVE  TreeInv
<1> USE DEF TreeInit
<1>1. /\ jobs \in Trees /\ DOMAIN jobs = Jobs
      /\ \A i \in Jobs : jobs[i].in \in Paths(jobs) /\ jobs[i].out \in Paths(jobs)
  BY JobFacts
<1>2. \A i \in Jobs : job[i] = Queued /\ job[i].at = "queued"
  BY <1>1, JobStates
<1>3. \A where \in {"running", "done"} : At(where) = {}
  BY <1>2 DEF At
<1>4. \A p \in Paths(jobs) : Original(p) \in Texts /\ Missing \in Texts
  BY DEF Original, Missing, Texts
<1>5. before \in [Paths(jobs) -> Texts]
  BY <1>4
<1>6. \A p \in Paths(jobs) : before[p].passes = 0
  BY DEF Original, Missing
<1>7. TypeOK
  <2>1. guard \in [before : BOOLEAN, now : BOOLEAN]
    <3>1. PICK g \in BOOLEAN : guard = [before |-> g, now |-> InProcess \/ g]
      OBVIOUS
    <3>2. (InProcess \/ g) \in BOOLEAN
      BY Zenon DEF InProcess
    <3> QED
      BY <3>1, <3>2
  <2>2. Cardinality(At("running")) <= n
    <3>1. MaxWorkers \in Nat /\ n \in 1 .. MaxWorkers
      BY RedactTreeAssumption
    <3>2. Cardinality(At("running")) = 0
      BY <1>3, FS_EmptySet
    <3> QED
      BY <3>1, <3>2
  <2>3. job \in [Jobs -> {Queued, Done, Failed} \cup [at : {"running"}, text : Texts]]
    BY <1>1
  <2>4. taken \subseteq At("done")
    OBVIOUS
  <2> QED
    BY <1>1, <1>5, <2>1, <2>2, <2>3, <2>4 DEF TypeOK
<1>8. \A i \in Jobs : FilesOf(i)
  BY <1>1, <1>2, <1>6 DEF FilesOf
<1>9. CallInOrder
  <2>1. guard.now = (InProcess \/ guard.before)
    <3>1. PICK g \in BOOLEAN : guard = [before |-> g, now |-> InProcess \/ g]
      OBVIOUS
    <3>2. guard.before = g /\ guard.now = (InProcess \/ g)
      BY <3>1
    <3> QED
      BY <3>2, Zenon
  <2>2. InProcess => \A i \in Jobs : job[i].at # "queued" => 1 .. i - 1 \subseteq taken
    BY <1>2
  <2>3. At("running") = {}
    BY <1>3
  <2> QED
    BY <2>1, <2>2, <2>3 DEF CallInOrder
<1> QED
  BY <1>7, <1>8, <1>9 DEF TreeInv

\* What the invariant says of a job, in one place.
LEMMA TreeFacts ==
    ASSUME TreeInv
    PROVE  /\ jobs \in Trees /\ n \in Nat /\ n >= 1
           /\ job \in [Jobs -> {Queued, Done, Failed} \cup [at : {"running"}, text : Texts]]
           /\ \A i \in Jobs : job[i].at \in {"queued", "running", "done", "failed"}
           /\ before \in [Paths(jobs) -> Texts] /\ disk \in [Paths(jobs) -> Texts]
           /\ \A i \in Jobs : FilesOf(i)
           /\ taken \subseteq At("done") /\ CallInOrder
<1>1. MaxWorkers \in Nat
  BY RedactTreeAssumption
<1> QED
  BY <1>1, JobStates DEF TreeInv, TypeOK

\* A step of one job leaves the others and the shape of the call.
LEMMA JobStep ==
    ASSUME TreeInv, NEW i \in Jobs,
           NEW s \in {Queued, Done, Failed} \cup [at : {"running"}, text : Texts],
           job' = [job EXCEPT ![i] = s], UNCHANGED <<jobs, n>>
    PROVE  /\ Jobs' = Jobs /\ InProcess' = InProcess /\ Texts' = Texts
           /\ job' \in [Jobs -> {Queued, Done, Failed} \cup [at : {"running"}, text : Texts]]
           /\ job'[i] = s /\ \A j \in Jobs \ {i} : job'[j] = job[j]
           /\ \A where : At(where)' = IF s.at = where THEN At(where) \cup {i} ELSE At(where) \ {i}
<1>1. job \in [Jobs -> {Queued, Done, Failed} \cup [at : {"running"}, text : Texts]]
  BY TreeFacts
<1>2. Jobs' = Jobs /\ InProcess' = InProcess /\ Texts' = Texts
  BY DEF Jobs, InProcess, Texts
<1>3. /\ job' \in [Jobs -> {Queued, Done, Failed} \cup [at : {"running"}, text : Texts]]
      /\ job'[i] = s /\ \A j \in Jobs \ {i} : job'[j] = job[j]
  BY <1>1
<1> QED
  BY <1>2, <1>3 DEF At

\* Job i is handed out: it is the first that waits, and in the calling process
\* the ones before it are done.
LEMMA StartKeeps ==
    ASSUME TreeInv, NEW i \in Jobs, Start(i)
    PROVE  TreeInv'
<1>1. PICK s : /\ s = IF jobs[i].in = jobs[i].out THEN Failed ELSE Running(disk[jobs[i].in])
               /\ job' = [job EXCEPT ![i] = s]
  BY DEF Start
<1>2. /\ jobs[i].in \in Paths(jobs) /\ disk[jobs[i].in] \in Texts
  BY TreeFacts, JobFacts
<1>3. s \in {Queued, Done, Failed} \cup [at : {"running"}, text : Texts]
  BY <1>1, <1>2, JobStates
<1>4. UNCHANGED <<jobs, before, disk, n, taken, results, caller, guard>> /\ job[i].at = "queued"
      /\ MayStart(i)
  BY DEF Start
<1>5. /\ Jobs' = Jobs /\ InProcess' = InProcess /\ Texts' = Texts
      /\ job' \in [Jobs -> {Queued, Done, Failed} \cup [at : {"running"}, text : Texts]]
      /\ job'[i] = s /\ \A j \in Jobs \ {i} : job'[j] = job[j]
      /\ \A where : At(where)' = IF s.at = where THEN At(where) \cup {i} ELSE At(where) \ {i}
  BY <1>1, <1>3, <1>4, JobStep, ZenonT(60)
<1>6. s.at = IF jobs[i].in = jobs[i].out THEN "failed" ELSE "running"
  BY <1>1, JobStates
<1>7. InProcess => caller = "running" /\ taken = 1 .. i - 1 /\ At("running") = {}
  <2> SUFFICES ASSUME InProcess, NEW j \in Jobs, job[j].at = "running"
               PROVE  FALSE
    BY <1>4 DEF MayStart, At
  <2>1. taken = 1 .. i - 1
    BY <1>4 DEF MayStart
  <2>2. 1 .. j - 1 \subseteq taken
    BY TreeFacts DEF CallInOrder
  <2>3. j \notin taken /\ i \notin taken
    BY <1>4, TreeFacts DEF At
  <2>4. i # j /\ i \in Nat /\ j \in Nat /\ i >= 1 /\ j >= 1
    BY <1>4, TreeFacts, JobFacts DEF Jobs
  <2> QED
    BY <2>1, <2>2, <2>3, <2>4
<1>8. TypeOK'
  <2>1. taken' \subseteq At("done")'
    BY <1>4, <1>5, <1>6, TreeFacts DEF At
  <2>2. Cardinality(At("running")') <= n
    <3>1. At("running") \subseteq Jobs
      BY DEF At
    <3>2. /\ IsFiniteSet(At("running")) /\ Cardinality(At("running")) \in Nat
          /\ Cardinality(At("running")) <= n /\ n \in Nat /\ n >= 1
      BY <3>1, RunningFinite, TreeFacts DEF TreeInv, TypeOK
    <3>3. CASE s.at # "running"
      <4>1. At("running")' \subseteq At("running")
        BY <1>5, <3>3
      <4>2. Cardinality(At("running")') <= Cardinality(At("running"))
            /\ Cardinality(At("running")') \in Nat
        BY <3>1, <3>2, <4>1, FS_Subset, RunningFinite, TreeFacts
      <4> QED
        BY <3>2, <4>2
    <3>4. CASE s.at = "running"
      <4>1. At("running")' = At("running") \cup {i}
        BY <1>5, <3>4
      <4>2. CASE InProcess
        <5>1. Cardinality(At("running")') = 1
          BY <1>7, <4>1, <4>2, FS_Singleton
        <5> QED
          BY <3>2, <5>1
      <4>3. CASE ~InProcess
        <5>1. Cardinality(At("running")) < n
          BY <1>4, <4>3 DEF MayStart
        <5>2. Cardinality(At("running")') <= Cardinality(At("running")) + 1
              /\ Cardinality(At("running")') \in Nat
          <6>1. Cardinality(At("running") \cup {i}) =
                  IF i \in At("running") THEN Cardinality(At("running"))
                                         ELSE Cardinality(At("running")) + 1
            BY <3>2, FS_AddElement
          <6> QED
            BY <3>2, <4>1, <6>1
        <5> QED
          BY <3>2, <5>1, <5>2
      <4> QED
        BY <4>2, <4>3
    <3> QED
      BY <3>3, <3>4
  <2> QED
    BY <1>4, <1>5, <2>1, <2>2 DEF TreeInv, TypeOK
<1>9. \A j \in Jobs : FilesOf(j)'
  <2> TAKE j \in Jobs
  <2>1. FilesOf(j)
    BY TreeFacts
  <2>2. CASE j # i
    BY <1>4, <1>5, <2>1, <2>2 DEF FilesOf
  <2>3. CASE j = i /\ jobs[i].in = jobs[i].out
    BY <1>4, <1>5, <1>6, <2>1, <2>3 DEF FilesOf
  <2>4. CASE j = i /\ jobs[i].in # jobs[i].out
    <3>1. job'[i].text = disk[jobs[i].in]
      BY <1>1, <1>5, <2>4, JobStates
    <3> QED
      BY <1>4, <1>5, <1>6, <2>1, <2>4, <3>1 DEF FilesOf
  <2> QED
    BY <2>2, <2>3, <2>4
<1>10. CallInOrder'
  <2>1. InProcess => \A j \in Jobs : job'[j].at # "queued" => 1 .. j - 1 \subseteq taken
    BY <1>5, <1>7, TreeFacts DEF CallInOrder
  <2>2. InProcess /\ caller # "running" => At("running")' = {}
    BY <1>7
  <2>3. ~InProcess /\ caller \in {"returned", "raised"} => FALSE
    BY <1>4, TreeFacts DEF CallInOrder, At
  <2>4. guard.now = IF caller \in {"returned", "raised"} THEN guard.before
                    ELSE InProcess \/ guard.before
    BY TreeFacts DEF CallInOrder
  <2> QED
    BY <1>4, <1>5, <2>1, <2>2, <2>3, <2>4 DEF CallInOrder
<1> QED
  BY <1>5, <1>8, <1>9, <1>10 DEF TreeInv

\* Fewer run than before.
LEMMA FewerRun ==
    ASSUME TreeInv, NEW S, S \subseteq At("running")
    PROVE  Cardinality(S) <= n
<1>1. At("running") \subseteq Jobs
  BY DEF At
<1>2. IsFiniteSet(At("running")) /\ Cardinality(At("running")) \in Nat /\ Cardinality(S) \in Nat
  BY <1>1, RunningFinite, TreeFacts
<1>3. Cardinality(S) <= Cardinality(At("running"))
  BY <1>2, FS_Subset
<1> QED
  BY <1>2, <1>3, TreeFacts DEF TreeInv, TypeOK

\* A running job has its input as it was, and an output that is not there yet.
LEMMA RunningFacts ==
    ASSUME TreeInv, NEW i \in Jobs, job[i].at = "running"
    PROVE  /\ jobs[i].in # jobs[i].out /\ job[i].text = before[jobs[i].in]
           /\ jobs[i].in \in Paths(jobs) /\ jobs[i].out \in Paths(jobs)
           /\ before[jobs[i].in] \in Texts /\ disk[jobs[i].out] \in Texts
           /\ disk[jobs[i].out].passes = 0
           /\ disk[jobs[i].out] # Redacted(before[jobs[i].in])
<1>1. /\ jobs[i].in \in Paths(jobs) /\ jobs[i].out \in Paths(jobs)
      /\ before[jobs[i].in] \in Texts /\ disk[jobs[i].out] \in Texts
  BY TreeFacts, JobFacts
<1>2. FilesOf(i)
  BY TreeFacts
<1>3. jobs[i].in # jobs[i].out /\ job[i].text = before[jobs[i].in]
      /\ disk[jobs[i].out].passes = 0
  BY <1>2 DEF FilesOf
<1> QED
  BY <1>1, <1>3, RedactedDiffers

\* Job i replaces its output and is done.
LEMMA FinishKeeps ==
    ASSUME TreeInv, NEW i \in Jobs, Finish(i)
    PROVE  TreeInv'
<1>1. /\ job[i].at = "running" /\ job' = [job EXCEPT ![i] = Done]
      /\ disk' = [disk EXCEPT ![jobs[i].out] = Redacted(job[i].text)]
      /\ UNCHANGED <<jobs, before, n, taken, results, caller, guard>>
  BY DEF Finish
<1>2. /\ Jobs' = Jobs /\ InProcess' = InProcess /\ Texts' = Texts
      /\ job' \in [Jobs -> {Queued, Done, Failed} \cup [at : {"running"}, text : Texts]]
      /\ job'[i] = Done /\ \A j \in Jobs \ {i} : job'[j] = job[j]
      /\ \A where : At(where)' = IF Done.at = where THEN At(where) \cup {i} ELSE At(where) \ {i}
  BY <1>1, JobStep
<1>3. Done.at = "done"
  BY JobStates
<1>4. /\ jobs[i].in # jobs[i].out /\ job[i].text = before[jobs[i].in]
      /\ before[jobs[i].in] \in Texts
  BY <1>1, RunningFacts
<1>5. disk' \in [Paths(jobs) -> Texts]
  BY <1>1, <1>4, RedactedFacts, TreeFacts
<1>6. \A p \in Paths(jobs) :
        disk'[p] = IF p = jobs[i].out THEN Redacted(before[jobs[i].in]) ELSE disk[p]
  BY <1>1, <1>4, TreeFacts
<1>7. TypeOK'
  <2>1. taken' \subseteq At("done")'
    BY <1>1, <1>2, <1>3, TreeFacts
  <2>2. Cardinality(At("running")') <= n
    BY <1>2, <1>3, FewerRun
  <2> QED
    BY <1>1, <1>2, <1>5, <2>1, <2>2 DEF TreeInv, TypeOK
<1>8. \A j \in Jobs : FilesOf(j)'
  <2> TAKE j \in Jobs
  <2>1. FilesOf(j) /\ FilesOf(i)
    BY TreeFacts
  <2>2. jobs[j].in \in Paths(jobs) /\ jobs[j].out \in Paths(jobs)
    BY TreeFacts, JobFacts
  <2>3. CASE j # i
    <3>1. jobs[j].in # jobs[i].out /\ jobs[j].out # jobs[i].out
      BY <2>3, TreeFacts, JobFacts
    <3>2. disk'[jobs[j].in] = disk[jobs[j].in] /\ disk'[jobs[j].out] = disk[jobs[j].out]
      BY <1>6, <2>2, <3>1
    <3> QED
      BY <1>1, <1>2, <2>1, <2>3, <3>2 DEF FilesOf
  <2>4. CASE j = i
    <3>1. /\ disk'[jobs[i].in] = disk[jobs[i].in]
          /\ disk'[jobs[i].out] = Redacted(before[jobs[i].in])
      BY <1>4, <1>6, <2>2, <2>4
    <3> QED
      BY <1>1, <1>2, <1>3, <1>4, <2>1, <2>4, <3>1 DEF FilesOf
  <2> QED
    BY <2>3, <2>4
<1>9. CallInOrder'
  <2>1. InProcess => \A j \in Jobs : job'[j].at # "queued" => 1 .. j - 1 \subseteq taken
    BY <1>1, <1>2, TreeFacts DEF CallInOrder
  <2>2. At("running")' \subseteq At("running") /\ At("queued")' = At("queued")
    BY <1>1, <1>2, <1>3 DEF At
  <2>3. i \in At("running")
    BY <1>1 DEF At
  <2> QED
    BY <1>1, <1>2, <2>1, <2>2, <2>3, TreeFacts DEF CallInOrder
<1> QED
  BY <1>2, <1>7, <1>8, <1>9 DEF TreeInv

\* Job i fails and leaves its output as it was.
LEMMA FailKeeps ==
    ASSUME TreeInv, NEW i \in Jobs, Fail(i)
    PROVE  TreeInv'
<1>1. /\ job[i].at = "running" /\ job' = [job EXCEPT ![i] = Failed]
      /\ UNCHANGED <<jobs, before, disk, n, taken, results, caller, guard>>
  BY DEF Fail
<1>2. /\ Jobs' = Jobs /\ InProcess' = InProcess /\ Texts' = Texts
      /\ job' \in [Jobs -> {Queued, Done, Failed} \cup [at : {"running"}, text : Texts]]
      /\ job'[i] = Failed /\ \A j \in Jobs \ {i} : job'[j] = job[j]
      /\ \A where : At(where)' = IF Failed.at = where THEN At(where) \cup {i} ELSE At(where) \ {i}
  BY <1>1, JobStep
<1>3. Failed.at = "failed"
  BY JobStates
<1>4. TypeOK'
  <2>1. taken' \subseteq At("done")'
    BY <1>1, <1>2, <1>3, TreeFacts DEF At
  <2>2. Cardinality(At("running")') <= n
    BY <1>2, <1>3, FewerRun
  <2> QED
    BY <1>1, <1>2, <2>1, <2>2 DEF TreeInv, TypeOK
<1>5. \A j \in Jobs : FilesOf(j)'
  <2> TAKE j \in Jobs
  <2>1. FilesOf(j)
    BY TreeFacts
  <2> QED
    BY <1>1, <1>2, <1>3, <2>1 DEF FilesOf
<1>6. CallInOrder'
  <2>1. InProcess => \A j \in Jobs : job'[j].at # "queued" => 1 .. j - 1 \subseteq taken
    BY <1>1, <1>2, TreeFacts DEF CallInOrder
  <2>2. At("running")' \subseteq At("running") /\ At("queued")' = At("queued")
    BY <1>1, <1>2, <1>3 DEF At
  <2>3. i \in At("running")
    BY <1>1 DEF At
  <2> QED
    BY <1>1, <1>2, <2>1, <2>2, <2>3, TreeFacts DEF CallInOrder
<1> QED
  BY <1>2, <1>4, <1>5, <1>6 DEF TreeInv

\* The files after the death of a worker: those of the jobs in W are written.
LEMMA DeathWrites ==
    ASSUME TreeInv, NEW W \in SUBSET At("running"),
           disk' = [p \in DOMAIN disk |->
                      IF \E i \in W : jobs[i].out = p
                      THEN Redacted(job[CHOOSE i \in W : jobs[i].out = p].text)
                      ELSE disk[p]]
    PROVE  /\ disk' \in [Paths(jobs) -> Texts]
           /\ \A i \in W : disk'[jobs[i].out] = Redacted(before[jobs[i].in])
           /\ \A p \in Paths(jobs) : (\A i \in W : jobs[i].out # p) => disk'[p] = disk[p]
<1>1. DOMAIN disk = Paths(jobs)
  BY TreeFacts
<1>2. \A i \in W : /\ i \in Jobs /\ job[i].at = "running" /\ job[i].text = before[jobs[i].in]
                   /\ jobs[i].out \in Paths(jobs) /\ before[jobs[i].in] \in Texts
  BY RunningFacts DEF At
<1>3. ASSUME NEW i \in W PROVE disk'[jobs[i].out] = Redacted(before[jobs[i].in])
  <2> DEFINE k == CHOOSE k \in W : jobs[k].out = jobs[i].out
  <2>1. k \in W /\ jobs[k].out = jobs[i].out
    OBVIOUS
  <2>2. k = i
    BY <1>2, <2>1, TreeFacts, JobFacts
  <2>3. disk'[jobs[i].out] = Redacted(job[k].text)
    BY <1>1, <1>2
  <2> QED
    BY <1>2, <2>2, <2>3
<1>4. \A p \in Paths(jobs) : (\A i \in W : jobs[i].out # p) => disk'[p] = disk[p]
  BY <1>1
<1>5. ASSUME NEW p \in Paths(jobs) PROVE disk'[p] \in Texts
  <2>1. CASE \E i \in W : jobs[i].out = p
    BY <1>2, <1>3, <2>1, RedactedFacts
  <2>2. CASE ~\E i \in W : jobs[i].out = p
    BY <1>4, <2>2, TreeFacts
  <2> QED
    BY <2>1, <2>2
<1>6. disk' \in [Paths(jobs) -> Texts]
  <2>1. disk' = [p \in Paths(jobs) |-> disk'[p]]
    BY <1>1
  <2> QED
    BY <1>5, <2>1
<1> QED
  BY <1>3, <1>4, <1>6

\* A worker dies: every job that is not done fails, some with their output written.
LEMMA DeathKeeps ==
    ASSUME TreeInv, WorkerDies
    PROVE  TreeInv'
<1>1. /\ ~InProcess /\ At("running") # {}
      /\ job' = [i \in Jobs |-> IF job[i].at = "done" THEN Done ELSE Failed]
      /\ UNCHANGED <<jobs, before, n, taken, results, caller, guard>>
  BY DEF WorkerDies
<1>2. PICK W \in SUBSET At("running") :
        disk' = [p \in DOMAIN disk |->
                   IF \E i \in W : jobs[i].out = p
                   THEN Redacted(job[CHOOSE i \in W : jobs[i].out = p].text)
                   ELSE disk[p]]
  BY DEF WorkerDies
<1>3. /\ disk' \in [Paths(jobs) -> Texts]
      /\ \A i \in W : disk'[jobs[i].out] = Redacted(before[jobs[i].in])
      /\ \A p \in Paths(jobs) : (\A i \in W : jobs[i].out # p) => disk'[p] = disk[p]
  BY <1>2, DeathWrites
<1>4. Jobs' = Jobs /\ InProcess' = InProcess /\ Texts' = Texts
  BY <1>1 DEF Jobs, InProcess, Texts
<1>5. \A i \in Jobs : /\ job'[i].at = IF job[i].at = "done" THEN "done" ELSE "failed"
                      /\ job'[i] \in {Done, Failed}
  BY <1>1, JobStates
<1>6. /\ At("done")' = At("done") /\ At("running")' = {} /\ At("queued")' = {}
  BY <1>4, <1>5 DEF At
<1>7. TypeOK'
  <2>1. Cardinality(At("running")') <= n
    BY <1>6, FewerRun
  <2>2. job' \in [Jobs -> {Queued, Done, Failed} \cup [at : {"running"}, text : Texts]]
    BY <1>1
  <2> QED
    BY <1>1, <1>3, <1>4, <1>6, <2>1, <2>2 DEF TreeInv, TypeOK
<1>8. \A j \in Jobs : FilesOf(j)'
  <2> TAKE j \in Jobs
  <2>1. FilesOf(j)
    BY TreeFacts
  <2>2. /\ jobs[j].in \in Paths(jobs) /\ jobs[j].out \in Paths(jobs)
        /\ \A i \in Jobs : i # j => jobs[j].in # jobs[i].out /\ jobs[j].out # jobs[i].out
    BY TreeFacts, JobFacts
  <2>3. W \subseteq Jobs /\ \A i \in W : job[i].at = "running" /\ jobs[i].in # jobs[i].out
    BY RunningFacts DEF At
  <2>4. disk'[jobs[j].in] = disk[jobs[j].in]
    <3>1. CASE j \in W \/ jobs[j].in # jobs[j].out
      BY <1>3, <2>2, <2>3, <3>1
    <3>2. CASE j \notin W
      BY <1>3, <2>2, <2>3, <3>2
    <3> QED
      BY <3>1, <3>2
  <2>5. CASE j \in W
    BY <1>1, <1>3, <1>5, <2>1, <2>3, <2>4, <2>5 DEF FilesOf
  <2>6. CASE j \notin W
    <3>1. disk'[jobs[j].out] = disk[jobs[j].out]
      BY <1>3, <2>2, <2>3, <2>6
    <3> QED
      BY <1>1, <1>5, <2>1, <2>4, <3>1, TreeFacts DEF FilesOf
  <2> QED
    BY <2>5, <2>6
<1>9. CallInOrder'
  BY <1>1, <1>4, <1>6, TreeFacts DEF CallInOrder
<1> QED
  BY <1>4, <1>7, <1>8, <1>9 DEF TreeInv

\* The files and the jobs are untouched by the parent.
LEMMA ParentLeavesFiles ==
    ASSUME TreeInv, UNCHANGED <<jobs, before, disk, n, job>>
    PROVE  /\ Jobs' = Jobs /\ InProcess' = InProcess /\ Texts' = Texts
           /\ \A where : At(where)' = At(where)
           /\ \A j \in Jobs : FilesOf(j)'
<1>1. Jobs' = Jobs /\ InProcess' = InProcess /\ Texts' = Texts
  BY DEF Jobs, InProcess, Texts
<1> QED
  BY <1>1, TreeFacts DEF FilesOf, At

\* The guard the caller had, and nothing else, is left when the call ends.
LEMMA GuardRestoredFacts ==
    ASSUME TreeInv, GuardRestored, caller \in {"running", "failing"}
    PROVE  /\ guard' \in [before : BOOLEAN, now : BOOLEAN]
           /\ guard'.before = guard.before /\ guard'.now = guard.before
           /\ guard' = [guard EXCEPT !.now = guard.before]
<1>1. guard \in [before : BOOLEAN, now : BOOLEAN] /\ guard.now = (InProcess \/ guard.before)
  BY DEF TreeInv, TypeOK, CallInOrder
<1>2. (guard.now /\ (guard.before \/ ~InProcess)) = guard.before
  <2>1. guard.before \in BOOLEAN /\ InProcess \in BOOLEAN
    BY <1>1 DEF InProcess
  <2> QED
    BY <1>1, <2>1, Zenon
<1>3. guard' = [guard EXCEPT !.now = guard.before]
  <2>1. guard' = [guard EXCEPT !.now = guard.now /\ (guard.before \/ ~InProcess)]
    BY DEF GuardRestored
  <2> QED
    BY <1>2, <2>1, Zenon
<1> QED
  BY <1>1, <1>3

\* The parent takes a result, or meets a failure and leaves the pool.
LEMMA TakeKeeps ==
    ASSUME TreeInv, NEW i \in Jobs, Take(i) \/ TakeFailure(i)
    PROVE  TreeInv'
<1>1. UNCHANGED <<jobs, before, disk, n, job, results, guard>> /\ caller = "running"
  BY DEF Take, TakeFailure
<1>2. /\ Jobs' = Jobs /\ InProcess' = InProcess /\ Texts' = Texts
      /\ \A where : At(where)' = At(where)
      /\ \A j \in Jobs : FilesOf(j)'
  BY <1>1, ParentLeavesFiles
<1>3. taken \subseteq taken' /\ taken' \subseteq At("done") /\ caller' \in {"running", "failing"}
  BY TreeFacts DEF Take, TakeFailure, At
<1>4. TypeOK'
  BY <1>1, <1>2, <1>3 DEF TreeInv, TypeOK
<1>5. CallInOrder'
  <2>1. InProcess => \A j \in Jobs : job[j].at # "queued" => 1 .. j - 1 \subseteq taken'
    BY <1>3, TreeFacts DEF CallInOrder
  <2>2. InProcess /\ caller' # "running" => At("running") = {}
    <3> SUFFICES ASSUME InProcess, caller' # "running", NEW j \in Jobs, job[j].at = "running"
                 PROVE  FALSE
      BY DEF At
    <3>1. job[i].at = "failed"
      BY <1>1 DEF Take, TakeFailure
    <3>2. 1 .. i - 1 \subseteq taken /\ 1 .. j - 1 \subseteq taken
      BY <3>1, TreeFacts DEF CallInOrder
    <3>3. i \notin taken /\ j \notin taken /\ i # j
      BY <3>1, TreeFacts DEF At
    <3>4. i \in Nat /\ j \in Nat /\ i >= 1 /\ j >= 1
      BY TreeFacts, JobFacts DEF Jobs
    <3> QED
      BY <3>2, <3>3, <3>4
  <2>3. guard.now = (InProcess \/ guard.before)
    BY <1>1, TreeFacts DEF CallInOrder
  <2>4. caller' \notin {"returned", "raised"}
    BY <1>3
  <2> QED
    BY <1>1, <1>2, <2>1, <2>2, <2>3, <2>4 DEF CallInOrder
<1> QED
  BY <1>2, <1>4, <1>5 DEF TreeInv

\* The call ends.
LEMMA EndKeeps ==
    ASSUME TreeInv, Raise \/ Return
    PROVE  TreeInv'
<1>1. /\ UNCHANGED <<jobs, before, disk, n, job, taken>> /\ GuardRestored
      /\ caller \in {"running", "failing"} /\ caller' \in {"returned", "raised"}
  BY DEF Raise, Return
<1>2. /\ Jobs' = Jobs /\ InProcess' = InProcess /\ Texts' = Texts
      /\ \A where : At(where)' = At(where)
      /\ \A j \in Jobs : FilesOf(j)'
  BY <1>1, ParentLeavesFiles
<1>3. /\ guard' \in [before : BOOLEAN, now : BOOLEAN]
      /\ guard'.before = guard.before /\ guard'.now = guard.before
  BY <1>1, GuardRestoredFacts
<1>4. TypeOK'
  BY <1>1, <1>2, <1>3 DEF TreeInv, TypeOK
<1>5. At("running") = {} /\ (~InProcess => At("queued") = {})
  <2>1. CASE Return
    BY <2>1, TreeFacts DEF Return, At
  <2>2. CASE Raise
    BY <2>2, TreeFacts DEF Raise, CallInOrder
  <2> QED
    BY <2>1, <2>2
<1>6. CallInOrder'
  BY <1>1, <1>2, <1>3, <1>5, TreeFacts DEF CallInOrder
<1> QED
  BY <1>2, <1>4, <1>6 DEF TreeInv

\* The inductive invariant of redact_tree, for any trees and any number of workers:
\* types, what every file is at every state of its job, and which jobs can still be
\* running when.
THEOREM TreeInvariant == SafetySpec => []TreeInv
<1>1. TreeInit => TreeInv
  BY TreeInitially
<1>2. TreeInv /\ [Next]_vars => TreeInv'
  <2> SUFFICES ASSUME TreeInv, [Next]_vars PROVE TreeInv'
    OBVIOUS
  <2>1. CASE Next
    BY <2>1, StartKeeps, FinishKeeps, FailKeeps, DeathKeeps, TakeKeeps, EndKeeps
    DEF Next, Worker, Parent
  <2>2. CASE UNCHANGED vars
    <3>1. UNCHANGED <<jobs, before, disk, n, job, taken, caller, guard>>
      BY <2>2 DEF vars
    <3>2. /\ Jobs' = Jobs /\ InProcess' = InProcess /\ Texts' = Texts
          /\ \A where : At(where)' = At(where)
          /\ \A j \in Jobs : FilesOf(j)'
      BY <3>1, ParentLeavesFiles
    <3> QED
      BY <3>1, <3>2 DEF TreeInv, TypeOK, CallInOrder
  <2> QED
    BY <2>1, <2>2
<1> QED
  BY <1>1, <1>2, PTL DEF SafetySpec

----------------------------------------------------------------------------
(* The tree implements its contract: a job that finishes writes one output, *)
(* a worker that dies writes those of W, the rest is internal.               *)

\* The files once the outputs of the jobs in W are there, as the contract says it.
LEMMA WrittenIs ==
    ASSUME TreeInv, NEW W \in SUBSET At("running"),
           disk' \in [Paths(jobs) -> Texts],
           \A i \in W : disk'[jobs[i].out] = Redacted(before[jobs[i].in]),
           \A p \in Paths(jobs) : (\A i \in W : jobs[i].out # p) => disk'[p] = disk[p]
    PROVE  disk' = Promise!Written(disk, {jobs[i] : i \in W})
<1> DEFINE V == {jobs[i] : i \in W}
<1>1. W \subseteq Jobs /\ DOMAIN disk = Paths(jobs)
  BY TreeFacts DEF At
<1>2. \A i \in W : jobs[i].out \in Paths(jobs)
  BY <1>1, TreeFacts, JobFacts
<1>3. ASSUME NEW p \in Paths(jobs), NEW i \in W, jobs[i].out = p
      PROVE  disk'[p] = Redacted(before[(CHOOSE j \in V : j.out = p).in])
  <2> DEFINE c == CHOOSE j \in V : j.out = p
  <2>1. c \in V /\ c.out = p
    BY <1>3
  <2>2. PICK k \in W : c = jobs[k]
    BY <2>1
  <2>3. k = i
    BY <1>1, <1>3, <2>1, <2>2, TreeFacts, JobFacts
  <2> QED
    BY <1>3, <2>2, <2>3
<1>4. \A p \in Paths(jobs) :
        disk'[p] = IF \E j \in V : j.out = p
                   THEN Redacted(before[(CHOOSE j \in V : j.out = p).in])
                   ELSE disk[p]
  <2> TAKE p \in Paths(jobs)
  <2>1. CASE \E j \in V : j.out = p
    <3>1. PICK i \in W : jobs[i].out = p
      BY <2>1
    <3> QED
      BY <1>3, <2>1, <3>1
  <2>2. CASE ~\E j \in V : j.out = p
    <3>1. \A i \in W : jobs[i].out # p
      BY <2>2
    <3> QED
      BY <2>2, <3>1
  <2> QED
    BY <2>1, <2>2
<1>5. disk' = [p \in Paths(jobs) |-> disk'[p]]
  OBVIOUS
<1> QED
  BY <1>1, <1>4, <1>5 DEF Promise!Written

\* The outputs of running jobs appear.
LEMMA WritesOutputs ==
    ASSUME TreeInv, NEW W \in SUBSET At("running"), caller \in {"running", "failing"},
           disk' = Promise!Written(disk, {jobs[i] : i \in W}),
           UNCHANGED <<jobs, before, results, caller, guard>>
    PROVE  \E V \in SUBSET Promise!AllJobs : Promise!WriteOutputs(V)
<1> DEFINE V == {jobs[i] : i \in W}
<1>1. V \subseteq Promise!AllJobs
  BY TreeFacts, JobFacts DEF At, Promise!AllJobs
<1>2. \A j \in V : disk[j.out] # Redacted(before[j.in])
  BY RunningFacts DEF At
<1>3. Promise!WriteOutputs(V)
  BY <1>2 DEF Promise!WriteOutputs
<1> QED
  BY <1>1, <1>3

\* A job runs only while the call has not ended.
LEMMA RunningMeansCalled ==
    ASSUME TreeInv, NEW i \in Jobs, job[i].at = "running"
    PROVE  caller \in {"running", "failing"}
BY DEF TreeInv, TypeOK, CallInOrder, At

\* Every step of the scheduler is one of the contract's or none.
LEMMA StepImplements ==
    ASSUME TreeInv, Next
    PROVE  \/ Promise!TNext
           \/ UNCHANGED <<jobs, before, disk, results,
                          IF caller = "failing" THEN "running" ELSE caller, guard>>
<1>1. ASSUME NEW i \in Jobs, Start(i) \/ Fail(i) \/ Take(i) \/ TakeFailure(i)
      PROVE  UNCHANGED <<jobs, before, disk, results,
                         IF caller = "failing" THEN "running" ELSE caller, guard>>
  BY <1>1 DEF Start, Fail, Take, TakeFailure
<1>2. ASSUME NEW i \in Jobs, Finish(i) PROVE Promise!TNext
  <2>1. /\ job[i].at = "running" /\ disk' = [disk EXCEPT ![jobs[i].out] = Redacted(job[i].text)]
        /\ UNCHANGED <<jobs, before, results, caller, guard>>
    BY <1>2 DEF Finish
  <2>2. {i} \in SUBSET At("running") /\ caller \in {"running", "failing"}
    BY <2>1, RunningMeansCalled DEF At
  <2>3. job[i].text = before[jobs[i].in] /\ before[jobs[i].in] \in Texts
        /\ jobs[i].out \in Paths(jobs) /\ disk \in [Paths(jobs) -> Texts]
    BY <2>1, RunningFacts, TreeFacts
  <2>4. /\ disk' \in [Paths(jobs) -> Texts]
        /\ \A k \in {i} : disk'[jobs[k].out] = Redacted(before[jobs[k].in])
        /\ \A p \in Paths(jobs) : (\A k \in {i} : jobs[k].out # p) => disk'[p] = disk[p]
    BY <2>1, <2>3, RedactedFacts
  <2>5. disk' = Promise!Written(disk, {jobs[k] : k \in {i}})
    BY <2>2, <2>4, WrittenIs
  <2>6. \E V \in SUBSET Promise!AllJobs : Promise!WriteOutputs(V)
    BY <2>1, <2>2, <2>5, WritesOutputs
  <2> QED
    BY <2>6 DEF Promise!TNext
<1>3. ASSUME WorkerDies PROVE Promise!TNext
  <2>1. UNCHANGED <<jobs, before, results, caller, guard>>
    BY <1>3 DEF WorkerDies
  <2>2. PICK W \in SUBSET At("running") :
          disk' = [p \in DOMAIN disk |->
                     IF \E i \in W : jobs[i].out = p
                     THEN Redacted(job[CHOOSE i \in W : jobs[i].out = p].text)
                     ELSE disk[p]]
    BY <1>3 DEF WorkerDies
  <2>3. disk' = Promise!Written(disk, {jobs[i] : i \in W})
    BY <2>2, DeathWrites, WrittenIs
  <2>4. caller \in {"running", "failing"}
    BY <1>3, RunningMeansCalled DEF WorkerDies, At
  <2>5. \E V \in SUBSET Promise!AllJobs : Promise!WriteOutputs(V)
    BY <2>1, <2>3, <2>4, WritesOutputs
  <2> QED
    BY <2>5 DEF Promise!TNext
<1>4. ASSUME Raise PROVE Promise!TNext
  <2>1. Promise!GuardAsBefore
    BY <1>4, GuardRestoredFacts DEF Raise, Promise!GuardAsBefore
  <2>2. Promise!RaiseError
    BY <1>4, <2>1 DEF Raise, Promise!RaiseError
  <2> QED
    BY <2>2 DEF Promise!TNext
<1>5. ASSUME Return PROVE Promise!TNext
  <2>1. Promise!GuardAsBefore
    BY <1>5, GuardRestoredFacts DEF Return, Promise!GuardAsBefore
  <2>2. jobs = [i \in Jobs |-> jobs[i]]
    <3>1. jobs \in Seq([in : Paths(jobs), out : Paths(jobs)])
      BY TreeFacts, RedactTreeAssumption
    <3> HIDE DEF Paths
    <3> QED
      BY <3>1 DEF Jobs
  <2>3. \A j \in Promise!AllJobs : disk[j.out] = Redacted(before[j.in])
    <3>1. \A i \in Jobs : job[i].at = "done" /\ FilesOf(i)
      BY <1>5, TreeFacts DEF Return, At
    <3>2. \A i \in Jobs : disk[jobs[i].out] = Redacted(before[jobs[i].in])
      BY <3>1 DEF FilesOf
    <3> QED
      BY <3>2, TreeFacts, JobFacts DEF Promise!AllJobs
  <2>4. Promise!ReturnResults
    BY <1>5, <2>1, <2>2, <2>3 DEF Return, Promise!ReturnResults
  <2> QED
    BY <2>4 DEF Promise!TNext
<1> QED
  BY <1>1, <1>2, <1>3, <1>4, <1>5 DEF Next, Worker, Parent

\* redact_tree implements its contract for any trees whose files have outputs of
\* their own and any number of workers, whichever of them fail or die.
THEOREM TreeImplementsContract == SafetySpec => ImplementsContract
<1>1. TreeInit => Promise!TInit
  BY DEF TreeInit, Promise!TInit
<1>2. TreeInv /\ [Next]_vars =>
        [Promise!TNext]_<<jobs, before, disk, results,
                          IF caller = "failing" THEN "running" ELSE caller, guard>>
  <2>1. ASSUME TreeInv, UNCHANGED vars
        PROVE  UNCHANGED <<jobs, before, disk, results,
                           IF caller = "failing" THEN "running" ELSE caller, guard>>
    BY <2>1 DEF vars
  <2> QED
    BY <2>1, StepImplements
<1> QED
  BY <1>1, <1>2, TreeInvariant, PTL DEF SafetySpec, ImplementsContract, Promise!TSpec
=============================================================================
