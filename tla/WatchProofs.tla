----------------------------- MODULE WatchProofs -----------------------------
(***************************************************************************)
(* What the DLP daemon guarantees on any watched file, whatever the other *)
(* process does between its system calls: WatchRedact misses no secret it  *)
(* is told of, and the verdicts and the cache of WatchBlock are right.     *)
(***************************************************************************)
EXTENDS WatchRedact, WatchBlock, SequenceTheorems, TLAPS

----------------------------------------------------------------------------
(* The file and the queue.                                                  *)

\* A notification joins the queue at its end; the others keep their places.
LEMMA Queued ==
    ASSUME NEW S, NEW q \in Seq(S), NEW e \in S,
           NEW r, r = Append(q, e)
    PROVE  /\ r \in Seq(S) /\ Len(r) = Len(q) + 1 /\ Len(q) \in Nat
           /\ \A k \in 1 .. Len(q) : r[k] = q[k]
           /\ r[Len(q) + 1] = e
           /\ \A k \in 1 .. Len(r) : k > Len(q) => r[k] = e
           /\ \E k \in 1 .. Len(r) : r[k] = e
  <1>1. /\ r \in Seq(S) /\ Len(r) = Len(q) + 1 /\ Len(q) \in Nat
        /\ \A k \in 1 .. Len(q) : r[k] = q[k]
        /\ r[Len(q) + 1] = e
    BY AppendProperties
  <1>2. \A k \in 1 .. Len(r) : k > Len(q) => r[k] = e
    BY <1>1
  <1>3. Len(q) + 1 \in 1 .. Len(r)
    BY <1>1
  <1> QED
    BY <1>1, <1>2, <1>3

\* A notification is taken from the front; the others move up by one.
LEMMA Taken ==
    ASSUME NEW S, NEW q \in Seq(S), q # <<>>,
           NEW r, r = Tail(q)
    PROVE  /\ r \in Seq(S) /\ Len(r) = Len(q) - 1 /\ Len(q) \in Nat \ {0}
           /\ Head(q) = q[1] /\ q[1] \in S
           /\ \A k \in 1 .. Len(r) : r[k] = q[k + 1] /\ k + 1 \in 1 .. Len(q)
           /\ \A k \in 1 .. Len(q) : k # 1 => k - 1 \in 1 .. Len(r) /\ r[k - 1] = q[k]
  <1>1. Len(q) \in Nat \ {0}
    BY EmptySeq, LenProperties
  <1>2. Head(q) = q[1]
    OBVIOUS
  <1>3. /\ r \in Seq(S) /\ Len(r) = Len(q) - 1 /\ q[1] \in S
        /\ \A k \in 1 .. Len(r) : r[k] = q[k + 1] /\ k + 1 \in 1 .. Len(q)
    BY <1>1, <1>2, HeadTailProperties, ElementOfSeq
  <1>4. ASSUME NEW k \in 1 .. Len(q), k # 1
        PROVE  k - 1 \in 1 .. Len(r) /\ r[k - 1] = q[k]
    <2>1. k - 1 \in 1 .. Len(r) /\ (k - 1) + 1 = k
      BY <1>1, <1>3, <1>4
    <2> QED
      BY <1>3, <2>1
  <1> QED
    BY <1>1, <1>2, <1>3, <1>4

\* What an inode or a notification may be only grows with the clock and the
\* number of inodes.
LEMMA TypesGrow ==
    ASSUME clock \in Nat, clock' \in Nat, clock <= clock',
           Len(inode) \in Nat, Len(inode') \in Nat, Len(inode) <= Len(inode')
    PROVE  /\ \A q \in Seq(Inodes) : q \in Seq(Inodes')
           /\ \A q \in Seq(Events) : q \in Seq(Events')
  <1>1. Inodes \subseteq Inodes'
    BY DEF Inodes
  <1>2. Events \subseteq Events'
    BY DEF Events
  <1> QED
    BY <1>1, <1>2, SeqMonotonic

\* The step tells the daemon of inode i, under the path's name.
Told(i) == \E k \in 1 .. Len(queue') : queue'[k] = Written(i, "file", "other")

\* What every step of the other process leaves of the file: an inode keeps its
\* version unless it is written through an open file; a new inode comes with a
\* later stamp; what comes to the path is announced, or, on fanotify, was
\* announced before or is silent; a close is announced.
FileMoves(byPath) ==
    /\ FileTypeOK'
    /\ Len(inode) \in Nat /\ Len(inode') \in Nat /\ Len(inode) <= Len(inode')
    /\ clock \in Nat /\ clock' \in Nat /\ clock <= clock'
    /\ \A i \in 1 .. Len(inode) :
         inode'[i] = inode[i] \/ (open = i /\ open' = i /\ inode'[i].stamp = clock + 1)
    /\ \A i \in 1 .. Len(inode') : i > Len(inode) => inode'[i].stamp = clock + 1
    /\ Len(queue) <= Len(queue') /\ Len(queue) \in Nat /\ Len(queue') \in Nat
    /\ \A k \in 1 .. Len(queue) : queue'[k] = queue[k]
    /\ \A k \in 1 .. Len(queue') : k > Len(queue) => queue'[k].kind = "written"
    /\ at' \in {at, Gone, temp} \/ at' > Len(inode)
    /\ \/ at' \in {at, Gone}
       \/ Told(at')
       \/ ~byPath /\ (at' \in silent' \/ CloseWaits(at)')
    /\ temp' \in {temp, Gone} \/ temp' > Len(inode)
    /\ Apart => Apart'
    /\ open' = open \/ open = Gone \/ Told(open)
    /\ \A i \in silent : i \in silent' \/ Told(i)
    /\ byPath => silent' \subseteq silent

\* A new inode comes after the others, with a later stamp.
LEMMA InodeAdded ==
    ASSUME FileTypeOK, NEW c \in {"clean", "secret", "huge"}, NewInode(c)
    PROVE  /\ Len(inode) \in Nat /\ Len(inode') = Len(inode) + 1
           /\ Len(inode') \in 1 .. MaxInodes
           /\ clock \in Nat /\ clock' = clock + 1
           /\ inode' \in Seq(Inodes') /\ queue \in Seq(Events') /\ Len(queue) \in Nat
           /\ \A i \in 1 .. Len(inode) : inode'[i] = inode[i]
           /\ \A i \in 1 .. Len(inode') : i > Len(inode) => inode'[i].stamp = clock + 1
           /\ 0 .. Len(inode) \subseteq 0 .. Len(inode')
           /\ 1 .. Len(inode) \subseteq 1 .. Len(inode')
  <1>1. /\ inode \in Seq(Inodes) /\ Len(inode) \in 1 .. MaxInodes /\ clock \in Nat
        /\ queue \in Seq(Events)
    BY DEF FileTypeOK
  <1>2. Len(inode) \in Nat /\ Len(queue) \in Nat
    BY <1>1, LenProperties
  <1> DEFINE new == [content |-> c, stamp |-> clock + 1]
  <1>3. Len(inode) < MaxInodes /\ inode' = Append(inode, new) /\ clock' = clock + 1
    BY DEF NewInode
  <1>4. Len(inode') = Len(inode) + 1
    BY <1>1, <1>3, AppendProperties
  <1>5. inode \in Seq(Inodes') /\ queue \in Seq(Events')
    BY <1>1, <1>2, <1>3, <1>4, TypesGrow
  <1>6. new \in Inodes'
    BY <1>1, <1>3 DEF Inodes
  <1>7. /\ inode' \in Seq(Inodes')
        /\ \A i \in 1 .. Len(inode) : inode'[i] = inode[i]
        /\ \A i \in 1 .. Len(inode') : i > Len(inode) => inode'[i] = new
    BY <1>3, <1>5, <1>6, Queued
  <1>8. Len(inode') \in 1 .. MaxInodes
    BY <1>1, <1>2, <1>3, <1>4, WatchedFileAssumption
  <1> QED
    BY <1>1, <1>2, <1>3, <1>4, <1>5, <1>7, <1>8

\* A save puts a new inode at the other name.
LEMMA SaveTempMoves ==
    ASSUME FileTypeOK, NEW c \in Contents, SaveTemp(c), NEW byPath
    PROVE  FileMoves(byPath)
  <1> DEFINE event == Written(Len(inode) + 1, "temp", "other")
  <1>1. /\ NewInode(c) /\ temp' = Len(inode) + 1 /\ queue' = Append(queue, event)
        /\ UNCHANGED <<at, open, silent>> /\ c \in {"clean", "secret", "huge"}
    BY WatchedFileAssumption DEF SaveTemp
  <1>2. /\ at \in 0 .. Len(inode) /\ open \in 0 .. Len(inode)
        /\ silent \subseteq 1 .. Len(inode)
    BY DEF FileTypeOK
  <1>3. /\ Len(inode) \in Nat /\ Len(inode') = Len(inode) + 1
        /\ Len(inode') \in 1 .. MaxInodes
        /\ clock \in Nat /\ clock' = clock + 1
        /\ inode' \in Seq(Inodes') /\ queue \in Seq(Events') /\ Len(queue) \in Nat
        /\ \A i \in 1 .. Len(inode) : inode'[i] = inode[i]
        /\ \A i \in 1 .. Len(inode') : i > Len(inode) => inode'[i].stamp = clock + 1
        /\ 0 .. Len(inode) \subseteq 0 .. Len(inode')
        /\ 1 .. Len(inode) \subseteq 1 .. Len(inode')
    BY <1>1, InodeAdded
  <1>4. event \in Events' /\ event.kind = "written"
    BY <1>3 DEF Events, Written, Names
  <1> HIDE DEF event
  <1>5. /\ queue' \in Seq(Events') /\ Len(queue') = Len(queue) + 1
        /\ \A k \in 1 .. Len(queue) : queue'[k] = queue[k]
        /\ \A k \in 1 .. Len(queue') : k > Len(queue) => queue'[k] = event
    BY <1>1, <1>3, <1>4, Queued
  <1>6. FileTypeOK'
    BY <1>1, <1>2, <1>3, <1>5 DEF FileTypeOK
  <1>7. temp' > Len(inode) /\ Apart'
    BY <1>1, <1>2, <1>3 DEF Apart
  <1> QED
    BY <1>1, <1>3, <1>4, <1>5, <1>6, <1>7 DEF FileMoves

\* A rename over the path is announced, or was by the close still queued, or is
\* silent.
LEMMA RenameTempMoves ==
    ASSUME FileTypeOK, NEW byPath \in BOOLEAN, RenameTemp(byPath)
    PROVE  FileMoves(byPath)
  <1>1. /\ temp # Gone /\ at' = temp /\ temp' = Gone /\ UNCHANGED <<inode, clock, open>>
    BY DEF RenameTemp
  <1>2. /\ inode \in Seq(Inodes) /\ Len(inode) \in 1 .. MaxInodes /\ clock \in Nat
        /\ at \in 0 .. Len(inode) /\ open \in 0 .. Len(inode) /\ temp \in 1 .. Len(inode)
        /\ silent \subseteq 1 .. Len(inode) /\ queue \in Seq(Events)
        /\ Len(inode) \in Nat /\ Len(queue) \in Nat
    BY <1>1, LenProperties DEF FileTypeOK, Gone
  <1>3. Inodes' = Inodes /\ Events' = Events /\ Apart'
    BY <1>1 DEF Inodes, Events, Apart
  <1>4. CASE byPath
    <2>1. queue' = Append(queue, Written(temp, "file", "other")) /\ silent' = silent
      BY <1>4 DEF RenameTemp
    <2>2. Written(temp, "file", "other") \in Events
      BY <1>2 DEF Events, Written, Names
    <2>3. /\ queue' \in Seq(Events) /\ Len(queue') = Len(queue) + 1
          /\ \A k \in 1 .. Len(queue) : queue'[k] = queue[k]
          /\ \A k \in 1 .. Len(queue') : k > Len(queue) =>
               queue'[k] = Written(temp, "file", "other")
          /\ \E k \in 1 .. Len(queue') : queue'[k] = Written(temp, "file", "other")
      BY <1>2, <2>1, <2>2, Queued
    <2>4. FileTypeOK'
      BY <1>1, <1>2, <1>3, <2>1, <2>3 DEF FileTypeOK, Gone
    <2>5. Told(at') /\ Written(temp, "file", "other").kind = "written"
      BY <1>1, <2>3 DEF Told, Written
    <2> QED
      BY <1>1, <1>2, <1>3, <2>1, <2>3, <2>4, <2>5 DEF FileMoves
  <1>5. CASE ~byPath
    <2>1. queue' = queue /\ silent' = IF CloseWaits(temp) THEN silent ELSE silent \cup {temp}
      BY <1>5 DEF RenameTemp
    <2>2. silent' \subseteq 1 .. Len(inode) /\ silent \subseteq silent'
      BY <1>2, <2>1
    <2>3. at' \in silent' \/ CloseWaits(at)'
      BY <1>1, <2>1 DEF CloseWaits
    <2>4. FileTypeOK'
      BY <1>1, <1>2, <1>3, <2>1, <2>2 DEF FileTypeOK, Gone
    <2> QED
      BY <1>1, <1>2, <1>3, <1>5, <2>1, <2>2, <2>3, <2>4 DEF FileMoves
  <1> QED
    BY <1>4, <1>5

\* So is a file moved in.
LEMMA MoveInMoves ==
    ASSUME FileTypeOK, NEW byPath \in BOOLEAN, NEW c \in Contents, MoveIn(c, byPath)
    PROVE  FileMoves(byPath)
  <1> DEFINE event == Written(Len(inode) + 1, "file", "other")
  <1>1. /\ NewInode(c) /\ at' = Len(inode) + 1
        /\ UNCHANGED <<temp, open>> /\ c \in {"clean", "secret", "huge"}
    BY WatchedFileAssumption DEF MoveIn
  <1>2. /\ temp \in 0 .. Len(inode) /\ open \in 0 .. Len(inode)
        /\ silent \subseteq 1 .. Len(inode)
    BY DEF FileTypeOK
  <1>3. /\ Len(inode) \in Nat /\ Len(inode') = Len(inode) + 1
        /\ Len(inode') \in 1 .. MaxInodes
        /\ clock \in Nat /\ clock' = clock + 1
        /\ inode' \in Seq(Inodes') /\ queue \in Seq(Events') /\ Len(queue) \in Nat
        /\ \A i \in 1 .. Len(inode) : inode'[i] = inode[i]
        /\ \A i \in 1 .. Len(inode') : i > Len(inode) => inode'[i].stamp = clock + 1
        /\ 0 .. Len(inode) \subseteq 0 .. Len(inode')
        /\ 1 .. Len(inode) \subseteq 1 .. Len(inode')
    BY <1>1, InodeAdded
  <1>4. at' > Len(inode) /\ (Apart => Apart') /\ at' \in 1 .. Len(inode')
    BY <1>1, <1>2, <1>3 DEF Apart
  <1>5. CASE byPath
    <2>1. queue' = Append(queue, event) /\ silent' = silent
      BY <1>5 DEF MoveIn
    <2>2. event \in Events' /\ event.kind = "written" /\ event = Written(at', "file", "other")
      BY <1>1, <1>3 DEF Events, Written, Names
    <2> HIDE DEF event
    <2>3. /\ queue' \in Seq(Events') /\ Len(queue') = Len(queue) + 1
          /\ \A k \in 1 .. Len(queue) : queue'[k] = queue[k]
          /\ \A k \in 1 .. Len(queue') : k > Len(queue) => queue'[k] = event
          /\ \E k \in 1 .. Len(queue') : queue'[k] = event
      BY <1>3, <2>1, <2>2, Queued
    <2>4. FileTypeOK'
      BY <1>1, <1>2, <1>3, <1>4, <2>1, <2>3 DEF FileTypeOK
    <2>5. Told(at')
      BY <2>2, <2>3 DEF Told
    <2> QED
      BY <1>1, <1>3, <1>4, <2>1, <2>2, <2>3, <2>4, <2>5 DEF FileMoves
  <1>6. CASE ~byPath
    <2>1. queue' = queue /\ silent' = silent \cup {at'}
      BY <1>1, <1>6 DEF MoveIn
    <2>2. queue' \in Seq(Events')
      BY <1>3, <2>1
    <2>3. silent' \subseteq 1 .. Len(inode')
      BY <1>2, <1>3, <1>4, <2>1
    <2>4. temp' \in 0 .. Len(inode') /\ open' \in 0 .. Len(inode') /\ at' \in 0 .. Len(inode')
      BY <1>1, <1>2, <1>3, <1>4
    <2>5. FileTypeOK'
      BY <1>3, <2>2, <2>3, <2>4 DEF FileTypeOK
    <2> QED
      BY <1>1, <1>3, <1>4, <1>6, <2>1, <2>5 DEF FileMoves
  <1> QED
    BY <1>5, <1>6

\* A process that opens the file for writing leaves the rest as it is.
LEMMA OpenMoves ==
    ASSUME FileTypeOK, Open, NEW byPath
    PROVE  FileMoves(byPath)
  <1>1. /\ at \in 0 .. Len(inode) /\ inode \in Seq(Inodes) /\ queue \in Seq(Events)
        /\ clock \in Nat /\ Len(queue) \in Nat /\ Len(inode) \in Nat
    BY LenProperties DEF FileTypeOK
  <1>2. FileTypeOK'
    BY DEF FileTypeOK, Open, Inodes, Events
  <1>3. Apart => Apart'
    BY DEF Apart, Open
  <1> QED
    BY <1>1, <1>2, <1>3 DEF FileMoves, Open, Gone

\* A write gives the open inode its version.
LEMMA WriteMoves ==
    ASSUME FileTypeOK, NEW c \in Contents, Write(c), NEW byPath
    PROVE  FileMoves(byPath)
  <1>1. /\ inode \in Seq(Inodes) /\ Len(inode) \in 1 .. MaxInodes /\ clock \in Nat
        /\ at \in 0 .. Len(inode) /\ open \in 1 .. Len(inode) /\ queue \in Seq(Events)
    BY DEF FileTypeOK, Write, Gone
  <1>2. Len(inode) \in Nat /\ Len(queue) \in Nat
    BY <1>1, LenProperties
  <1> DEFINE new == [content |-> c, stamp |-> clock + 1]
  <1>3. /\ inode' = [inode EXCEPT ![open] = new] /\ clock' = clock + 1
        /\ UNCHANGED <<at, temp, open, queue, silent>>
    BY DEF Write
  <1>4. new \in [content : {"clean", "secret", "huge"}, stamp : 0 .. clock'] /\ new.stamp = clock + 1
    BY <1>1, <1>3, WatchedFileAssumption
  <1>5. Len(inode') = Len(inode)
    BY <1>1, <1>3, LenProperties
  <1>6. inode \in Seq(Inodes') /\ queue \in Seq(Events')
    BY <1>1, <1>2, <1>3, <1>5, TypesGrow
  <1>7. new \in Inodes'
    BY <1>4 DEF Inodes
  <1> HIDE DEF new
  <1>8. inode' \in Seq(Inodes') /\ \A i \in 1 .. Len(inode) : inode'[i] = IF i = open THEN new ELSE inode[i]
    BY <1>1, <1>3, <1>6, <1>7, ExceptSeq
  <1>9. FileTypeOK'
    BY <1>1, <1>2, <1>3, <1>5, <1>6, <1>8 DEF FileTypeOK
  <1>10. \A i \in 1 .. Len(inode) : inode'[i] = inode[i] \/ (open = i /\ inode'[i].stamp = clock + 1)
    BY <1>4, <1>8
  <1>11. Apart => Apart'
    BY <1>3 DEF Apart
  <1> QED
    BY <1>1, <1>2, <1>3, <1>5, <1>9, <1>10, <1>11 DEF FileMoves

\* A close notifies the daemon of the inode.
LEMMA CloseMoves ==
    ASSUME FileTypeOK, Close, NEW byPath
    PROVE  FileMoves(byPath)
  <1>1. /\ inode \in Seq(Inodes) /\ Len(inode) \in 1 .. MaxInodes /\ clock \in Nat
        /\ at \in 0 .. Len(inode) /\ open \in 1 .. Len(inode) /\ queue \in Seq(Events)
        /\ temp \in 0 .. Len(inode) /\ silent \subseteq 1 .. Len(inode) /\ Len(inode) \in Nat
    BY LenProperties DEF FileTypeOK, Close, Gone
  <1>2. /\ Written(open, "file", "other") \in Events
        /\ queue' = Append(queue, Written(open, "file", "other"))
        /\ UNCHANGED <<inode, at, temp, clock>> /\ open' = Gone /\ silent' = silent \ {open}
    BY <1>1 DEF Close, Events, Written, Names
  <1>3. /\ queue' \in Seq(Events) /\ Len(queue') = Len(queue) + 1 /\ Len(queue) \in Nat
        /\ \A k \in 1 .. Len(queue) : queue'[k] = queue[k]
        /\ \A k \in 1 .. Len(queue') : k > Len(queue) => queue'[k] = Written(open, "file", "other")
        /\ \E k \in 1 .. Len(queue') : queue'[k] = Written(open, "file", "other")
    BY <1>1, <1>2, Queued
  <1>4. FileTypeOK'
    <2>1. Inodes' = Inodes /\ Events' = Events
      BY <1>2 DEF Inodes, Events
    <2>2. silent' \subseteq 1 .. Len(inode) /\ open' \in 0 .. Len(inode)
      BY <1>1, <1>2 DEF Gone
    <2> QED
      BY <1>1, <1>2, <1>3, <2>1, <2>2 DEF FileTypeOK
  <1>5. Told(open) /\ Written(open, "file", "other").kind = "written"
    BY <1>3 DEF Told, Written
  <1>6. Apart => Apart'
    BY <1>2 DEF Apart, Gone
  <1> QED
    BY <1>1, <1>2, <1>3, <1>4, <1>5, <1>6 DEF FileMoves

\* So does every step of the other process.
LEMMA OtherMoves ==
    ASSUME FileTypeOK, NEW byPath \in BOOLEAN, OtherProcess(byPath)
    PROVE  FileMoves(byPath)
  <1>1. CASE Delete
    <2>1. /\ at' = Gone /\ UNCHANGED <<inode, temp, clock, open, queue, silent>>
          /\ inode \in Seq(Inodes) /\ queue \in Seq(Events) /\ clock \in Nat /\ Len(queue) \in Nat
          /\ Len(inode) \in Nat
      BY <1>1, LenProperties DEF Delete, FileTypeOK
    <2>2. FileTypeOK' /\ (Apart => Apart')
      BY <2>1 DEF FileTypeOK, Inodes, Events, Gone, Apart
    <2> QED
      BY <2>1, <2>2 DEF FileMoves
  <1> QED
    BY <1>1, OpenMoves, CloseMoves, WriteMoves, SaveTempMoves, RenameTempMoves, MoveInMoves
    DEF OtherProcess

----------------------------------------------------------------------------
(* WatchRedact.                                                             *)

\* What a configuration, and with it the daemon's mode, can be.
LEMMA OptionModes ==
    ASSUME option \in Options
    PROVE  option.mode \in {"audit", "redact"} /\ option.byPath \in BOOLEAN
                /\ option.detectable \in BOOLEAN
  BY WatchRedactAssumption

\* What the daemon's thread can be at, and hold.
DaemonTypeOK ==
    /\ \/ daemon \in {Idle, Dead}
       \/ daemon \in [at : {"stat", "scan"}, ino : 1 .. Len(inode),
                      name : Names \cup {"elsewhere"}]
       \/ daemon \in [at : {"read", "remember"}, name : Names]
       \/ daemon \in [at : {"replace"}, name : Names, copy : 1 .. Len(inode)]
    /\ daemon.at = "scan" => daemon.name \in Names

\* A step that only adds to the file keeps the types of what it leaves alone.
LEMMA WatchTypesGrow ==
    ASSUME WatchTypeOK, FileTypeOK', Len(inode) <= Len(inode'), clock <= clock',
           UNCHANGED redactVars,
           \A k \in 1 .. Len(queue') : queue'[k].kind = "written",
           daemon' = daemon \/ DaemonTypeOK'
    PROVE  WatchTypeOK'
  <1>1. Len(inode) \in Nat /\ Len(inode') \in Nat /\ clock \in Nat /\ clock' \in Nat
    BY LenProperties DEF WatchTypeOK, FileTypeOK
  <1>2. 0 .. clock \subseteq 0 .. clock' /\ 1 .. Len(inode) \subseteq 1 .. Len(inode')
            /\ 0 .. Len(inode) \subseteq 0 .. Len(inode')
    BY <1>1
  <1>3. /\ own' \in [Names -> [ino : 0 .. Len(inode'), stamp : 0 .. clock']]
        /\ logged' \subseteq [ino : 1 .. Len(inode'), stamp : 0 .. clock']
        /\ option' \in Options
    BY <1>2 DEF WatchTypeOK, redactVars
  <1>4. DaemonTypeOK'
    <2>1. CASE daemon' = daemon
      <3>1. DaemonTypeOK
        BY DEF WatchTypeOK, DaemonTypeOK
      <3> QED
        BY <1>2, <2>1, <3>1 DEF DaemonTypeOK
    <2> QED
      BY <2>1
  <1> QED
    BY <1>3, <1>4 DEF WatchTypeOK, DaemonTypeOK

\* What the daemon holds in WatchTypeOK, and how it is made from its parts.
LEMMA WatchTypeParts ==
    /\ WatchTypeOK => DaemonTypeOK /\ FileTypeOK
    /\ /\ WatchTypeOK /\ DaemonTypeOK' /\ FileTypeOK' /\ option' = option
       /\ UNCHANGED <<inode, clock>>
       /\ \A k \in 1 .. Len(queue') : queue'[k].kind = "written"
       /\ own' \in [Names -> [ino : 0 .. Len(inode), stamp : 0 .. clock]]
       /\ logged' \subseteq [ino : 1 .. Len(inode), stamp : 0 .. clock]
       => WatchTypeOK'
  BY DEF WatchTypeOK, DaemonTypeOK

\* What the path or the other name leads to is an inode.
LEMMA FoundInode ==
    ASSUME FileTypeOK, NEW name, Found(name) # Gone
    PROVE  /\ Found(name) \in 1 .. Len(inode) /\ name \in Names
           /\ inode[Found(name)] \in Inodes
           /\ Version(Found(name)) \in [ino : 1 .. Len(inode), stamp : 0 .. clock]
  <1>1. Found(name) \in 1 .. Len(inode) /\ name \in Names
    BY DEF FileTypeOK, Found, Names, Gone
  <1>2. inode[Found(name)] \in Inodes
    BY <1>1, ElementOfSeq DEF FileTypeOK
  <1> QED
    BY <1>1, <1>2 DEF Version, Inodes

\* A secret the daemon has not seen stays pending while the other process runs.
LEMMA OtherStepWatch ==
    ASSUME WatchInv, Other
    PROVE  WatchInv'
  <1>1. /\ FileMoves(option.byPath) /\ UNCHANGED <<daemon, redactVars, option, own, logged>>
        /\ option.byPath \in BOOLEAN
    BY OtherMoves, OptionModes DEF Other, WatchInv, WatchTypeOK, redactVars
  <1>2. WatchTypeOK'
    <2>1. \A k \in 1 .. Len(queue') : queue'[k].kind = "written"
      BY <1>1 DEF WatchInv, WatchTypeOK, FileMoves
    <2> QED
      BY <1>1, <2>1, WatchTypesGrow DEF WatchInv, FileMoves
  <1>3. (option.byPath => silent = {})'
    BY <1>1 DEF WatchInv, FileMoves
  <1>4. ASSUME Unseen'
        PROVE  Pending'
    <2>1. at' # Gone /\ at' \notin silent'
      BY <1>4 DEF Unseen
    <2>2. CASE Told(at')
      BY <2>2 DEF Told, Pending, Leads, Written
    <2>3. CASE ~option.byPath /\ CloseWaits(at)'
      BY <1>1, <2>3 DEF CloseWaits, Pending, Leads
    <2>4. CASE at' = at
      <3>1. at \in 1 .. Len(inode)
        BY <2>1, <2>4 DEF WatchInv, WatchTypeOK, FileTypeOK, Gone
      <3>2. CASE inode'[at] # inode[at]
        BY <1>1, <2>4, <3>1, <3>2 DEF FileMoves, Pending
      <3>3. CASE at \in silent
        BY <1>1, <2>1, <2>2, <2>4, <3>3 DEF FileMoves
      <3>4. CASE inode'[at] = inode[at] /\ at \notin silent
        <4>1. Pending
          BY <1>1, <1>4, <2>4, <3>4 DEF WatchInv, Unseen, Content, Version
        <4>2. CASE open = at
          BY <1>1, <2>1, <2>2, <2>4, <4>2 DEF FileMoves, Pending
        <4>3. ASSUME NEW k \in 1 .. Len(queue), Leads(queue[k])
              PROVE  Pending'
          <5>1. k \in 1 .. Len(queue') /\ queue'[k] = queue[k]
            BY <1>1 DEF FileMoves
          <5>2. Leads(queue[k])'
            BY <1>1, <2>4, <4>3, <5>1 DEF Leads
          <5> QED
            BY <5>1, <5>2 DEF Pending, Leads
        <4> QED
          BY <1>1, <2>4, <4>1, <4>2, <4>3 DEF Pending
      <3> QED
        BY <3>2, <3>3, <3>4
    <2> QED
      BY <1>1, <2>1, <2>2, <2>3, <2>4 DEF FileMoves
  <1> QED
    BY <1>1, <1>2, <1>3, <1>4 DEF WatchInv

\* A notification taken from the queue is the one the daemon looks at, unless
\* it is of its own rewrite.
LEMMA TakeStepWatch ==
    ASSUME WatchInv, Take
    PROVE  WatchInv'
  <1> DEFINE e == queue[1]
             name == IF option.byPath THEN e.name ELSE NameOf(e.ino)
  <1>1. /\ daemon = Idle /\ queue # <<>> /\ queue' = Tail(queue)
        /\ UNCHANGED <<inode, at, temp, clock, open, silent, option, own, logged>>
    BY DEF Take, redactVars
  <1>2. /\ queue' \in Seq(Events) /\ Len(queue) \in Nat \ {0} /\ Len(queue') = Len(queue) - 1
        /\ Head(queue) = e /\ e \in Events
        /\ \A k \in 1 .. Len(queue') : queue'[k] = queue[k + 1] /\ k + 1 \in 1 .. Len(queue)
        /\ \A k \in 1 .. Len(queue) : k # 1 =>
             k - 1 \in 1 .. Len(queue') /\ queue'[k - 1] = queue[k]
    BY <1>1, Taken DEF WatchInv, WatchTypeOK, FileTypeOK
  <1>3. e.ino \in 1 .. Len(inode) /\ e.name \in Names \cup {"elsewhere"} /\ e.who \in {"other", "daemon"}
    BY <1>2 DEF Events
  <1>4. name \in Names \cup {"elsewhere"}
    BY <1>3 DEF NameOf, Names
  <1>5. daemon' = IF e.who = "daemon" /\ ~option.byPath THEN Idle
                  ELSE [at |-> "stat", ino |-> e.ino, name |-> name]
    BY <1>2 DEF Take
  <1>6. FileTypeOK'
    BY <1>1, <1>2 DEF WatchInv, WatchTypeOK, FileTypeOK, Inodes, Events
  <1>7. Leads(e) => ~(e.who = "daemon" /\ ~option.byPath) /\ name = "file"
    <2>1. CASE option.byPath
      BY <2>1 DEF Leads
    <2>2. CASE ~option.byPath
      BY <2>2 DEF Leads, NameOf
    <2> QED
      BY <2>1, <2>2
  <1>8. ~option.byPath /\ Leads(e) => e.ino = at
    BY DEF Leads
  <1> HIDE DEF name, e
  <1>9. WatchTypeOK'
    <2>1. DaemonTypeOK'
      <3>1. CASE daemon' = Idle
        BY <3>1 DEF DaemonTypeOK, Idle
      <3>2. CASE daemon' = [at |-> "stat", ino |-> e.ino, name |-> name]
        BY <1>1, <1>3, <1>4, <3>2 DEF DaemonTypeOK
      <3> QED
        BY <1>5, <3>1, <3>2
    <2>2. \A k \in 1 .. Len(queue') : queue'[k].kind = "written"
      BY <1>2 DEF WatchInv, WatchTypeOK
    <2> QED
      BY <1>1, <1>6, <2>1, <2>2, WatchTypeParts DEF WatchInv, WatchTypeOK
  <1>10. ASSUME Unseen'
         PROVE  Pending'
    <2>1. Pending
      BY <1>1, <1>10 DEF WatchInv, Unseen, Content, Version
    <2>2. CASE open = at
      BY <1>1, <2>2 DEF Pending
    <2>3. ASSUME NEW k \in 1 .. Len(queue), Leads(queue[k])
          PROVE  Pending'
      <3>1. CASE k = 1
        <4>1. Leads(e)
          BY <2>3, <3>1 DEF e
        <4>2. daemon' = [at |-> "stat", ino |-> e.ino, name |-> "file"]
          BY <1>5, <1>7, <4>1
        <4>3. daemon'.at = "stat" /\ daemon'.ino = e.ino /\ daemon'.name = "file"
          BY <4>2
        <4> QED
          BY <1>1, <1>8, <4>1, <4>3, OptionModes DEF Pending, WatchInv, WatchTypeOK
      <3>2. CASE k # 1
        <4>1. k - 1 \in 1 .. Len(queue') /\ queue'[k - 1] = queue[k]
          BY <1>2, <3>2
        <4> QED
          BY <1>1, <2>3, <4>1 DEF Pending, Leads
      <3> QED
        BY <3>1, <3>2
    <2> QED
      BY <1>1, <2>1, <2>2, <2>3 DEF Pending, Idle
  <1>11. daemon'.at \in {"idle", "stat"}
    BY <1>5 DEF Idle
  <1> QED
    BY <1>1, <1>9, <1>10, <1>11 DEF WatchInv

\* The stat lets go only of a notification that leads to nothing, or to the
\* version the daemon wrote.
LEMMA StatStepWatch ==
    ASSUME WatchInv, Stat
    PROVE  WatchInv'
  <1> DEFINE found == Found(daemon.name)
  <1>1. /\ daemon.at = "stat"
        /\ UNCHANGED <<inode, at, temp, clock, open, queue, silent, option, own, logged>>
        /\ daemon' = IF found = Gone \/ own[daemon.name] = Version(found) THEN Idle
                     ELSE [daemon EXCEPT !.at = "scan"]
    BY DEF Stat, fileVars, redactVars
  <1>2. daemon \in [at : {"stat", "scan"}, ino : 1 .. Len(inode), name : Names \cup {"elsewhere"}]
    BY <1>1 DEF WatchInv, WatchTypeOK, Idle, Dead
  <1>3. FileTypeOK' /\ FileTypeOK
    BY <1>1 DEF WatchInv, WatchTypeOK, FileTypeOK, Inodes, Events
  <1>4. CASE found = Gone \/ own[daemon.name] = Version(found)
    <2>1. daemon' = Idle
      BY <1>1, <1>4
    <2>2. WatchTypeOK'
      BY <1>1, <1>3, <2>1, WatchTypeParts DEF WatchInv, WatchTypeOK, DaemonTypeOK, Idle
    <2>3. ASSUME Unseen'
          PROVE  Pending'
      <3>1. Unseen
        BY <1>1, <2>3 DEF Unseen, Content, Version
      <3>2. own["file"] # Version(at)
        <4>1. CASE option.mode = "redact"
          BY <3>1, <4>1 DEF Unseen
        <4>2. CASE option.mode = "audit"
          BY <3>1, <4>2 DEF WatchInv, Unseen, NoVersion, Version, Names
        <4> QED
          BY <4>1, <4>2, OptionModes DEF WatchInv, WatchTypeOK
      <3>3. daemon.name # "file"
        BY <1>4, <3>1, <3>2 DEF Found, Unseen
      <3>4. Pending /\ (daemon.at = "stat" /\ daemon.name # "file")
        BY <1>1, <3>1, <3>3 DEF WatchInv
      <3>5. open = at \/ \E k \in 1 .. Len(queue) : Leads(queue[k])
        BY <3>4 DEF Pending
      <3> QED
        BY <1>1, <3>5 DEF Pending, Leads
    <2> QED
      BY <1>1, <2>1, <2>2, <2>3 DEF WatchInv, Idle
  <1>5. CASE ~(found = Gone \/ own[daemon.name] = Version(found))
    <2>1. daemon' = [daemon EXCEPT !.at = "scan"]
      BY <1>1, <1>5
    <2>2. /\ daemon' \in [at : {"stat", "scan"}, ino : 1 .. Len(inode), name : Names \cup {"elsewhere"}]
          /\ daemon'.at = "scan" /\ daemon'.ino = daemon.ino /\ daemon'.name = daemon.name
      BY <1>2, <2>1
    <2>3. daemon'.name \in Names
      BY <1>3, <1>5, <2>2, FoundInode
    <2>4. WatchTypeOK'
      BY <1>1, <1>3, <2>2, <2>3, WatchTypeParts DEF WatchInv, WatchTypeOK, DaemonTypeOK
    <2>5. Unseen' => Pending'
      <3>1. Unseen' => Unseen
        BY <1>1 DEF Unseen, Content, Version
      <3>2. Pending => Pending'
        BY <1>1, <2>2 DEF Pending, Leads
      <3> QED
        BY <3>1, <3>2 DEF WatchInv
    <2> QED
      BY <1>1, <2>2, <2>4, <2>5 DEF WatchInv
  <1> QED
    BY <1>4, <1>5

\* A scan of what is at the path finds its secret: it is rewritten next, or
\* reported.
LEMMA ScanStepWatch ==
    ASSUME WatchInv, Scan
    PROVE  WatchInv'
  <1> DEFINE target == IF option.byPath THEN Found(daemon.name) ELSE daemon.ino
             hit == target # Gone /\ Content(target) = "secret"
  <1>1. /\ daemon.at = "scan"
        /\ UNCHANGED <<inode, at, temp, clock, open, queue, silent, option, own>>
        /\ daemon' = IF hit /\ option.mode = "redact"
                     THEN [at |-> "read", name |-> daemon.name] ELSE Idle
        /\ logged' = IF hit /\ option.mode = "audit" THEN logged \cup {Version(target)} ELSE logged
    BY DEF Scan, fileVars
  <1>2. /\ daemon \in [at : {"stat", "scan"}, ino : 1 .. Len(inode), name : Names \cup {"elsewhere"}]
        /\ daemon.ino \in 1 .. Len(inode) /\ daemon.name \in Names
    BY <1>1 DEF WatchInv, WatchTypeOK, Idle, Dead
  <1>3. FileTypeOK' /\ FileTypeOK /\ option \in Options
    BY <1>1 DEF WatchInv, WatchTypeOK, FileTypeOK, Inodes, Events
  <1>4. target # Gone => Version(target) \in [ino : 1 .. Len(inode), stamp : 0 .. clock]
    <2>1. inode[daemon.ino] \in Inodes
      BY <1>2, <1>3, ElementOfSeq DEF FileTypeOK
    <2>2. Version(daemon.ino) \in [ino : 1 .. Len(inode), stamp : 0 .. clock]
      BY <1>2, <2>1 DEF Version, Inodes
    <2> QED
      BY <1>3, <2>2, FoundInode
  <1>5. \/ daemon' = Idle
        \/ daemon' = [at |-> "read", name |-> daemon.name] /\ option.mode = "redact"
    BY <1>1
  <1>6. daemon'.at \in {"idle", "read"} /\ (option.mode = "audit" => daemon'.at = "idle")
    BY <1>5 DEF Idle
  <1>7. (option.byPath \/ daemon.ino = at) /\ daemon.name = "file" => target = at
    BY DEF Found
  <1> HIDE DEF target
  <1>8. WatchTypeOK'
    <2>1. DaemonTypeOK'
      <3>1. CASE daemon' = Idle
        BY <3>1 DEF DaemonTypeOK, Idle
      <3>2. CASE daemon' = [at |-> "read", name |-> daemon.name]
        BY <1>2, <3>2 DEF DaemonTypeOK
      <3> QED
        BY <1>5, <3>1, <3>2
    <2>2. logged' \subseteq [ino : 1 .. Len(inode), stamp : 0 .. clock]
      BY <1>1, <1>4 DEF WatchInv, WatchTypeOK
    <2> QED
      BY <1>1, <1>3, <2>1, <2>2, WatchTypeParts DEF WatchInv, WatchTypeOK
  <1>9. ASSUME Unseen'
        PROVE  Pending'
    <2>1. Unseen
      BY <1>1, <1>9 DEF Unseen, Content, Version
    <2>2. CASE (option.byPath \/ daemon.ino = at) /\ daemon.name = "file"
      <3>1. target = at /\ hit
        BY <1>7, <2>1, <2>2 DEF Unseen, Content
      <3>2. CASE option.mode = "redact"
        <4>1. daemon' = [at |-> "read", name |-> "file"]
          BY <1>1, <2>2, <3>1, <3>2
        <4>2. daemon'.at = "read" /\ daemon'.name = "file"
          BY <4>1
        <4> QED
          BY <4>2 DEF Pending
      <3>3. CASE option.mode = "audit"
        <4>1. Version(at)' = Version(at) /\ Version(at) \in logged'
          BY <1>1, <3>1, <3>3 DEF Version
        <4> QED
          BY <1>1, <1>9, <3>3, <4>1 DEF Unseen
      <3> QED
        BY <1>3, <3>2, <3>3, OptionModes
    <2>3. CASE ~((option.byPath \/ daemon.ino = at) /\ daemon.name = "file")
      <3>1. open = at \/ \E k \in 1 .. Len(queue) : Leads(queue[k])
        BY <1>1, <2>1, <2>3 DEF WatchInv, Pending
      <3> QED
        BY <1>1, <3>1 DEF Pending, Leads
    <2> QED
      BY <2>2, <2>3
  <1> QED
    BY <1>1, <1>6, <1>8, <1>9 DEF WatchInv

\* While the daemon goes on with the rewrite of one name, a secret at the path
\* stays pending: it is the name in hand, or its notification still waits.
LEMMA StaysPending ==
    ASSUME WatchInv, daemon.at \in {"read", "replace", "remember"},
           UNCHANGED <<open, option>>,
           \A k \in 1 .. Len(queue) : k \in 1 .. Len(queue') /\ queue'[k] = queue[k],
           daemon.name = "file" =>
             \/ daemon'.at \in {"replace", "remember"} /\ daemon'.name = "file"
             \/ daemon'.at = "dead",
           daemon.name # "file" /\ Unseen' => Unseen /\ at' = at
    PROVE  Unseen' => Pending'
  <1> SUFFICES ASSUME Unseen'
               PROVE  Pending'
    OBVIOUS
  <1>1. CASE daemon.name = "file"
    BY <1>1 DEF Pending
  <1>2. CASE daemon.name # "file"
    <2>1. Pending /\ at' = at
      BY <1>2 DEF WatchInv
    <2>2. CASE open = at
      BY <2>1, <2>2 DEF Pending
    <2>3. ASSUME NEW k \in 1 .. Len(queue), Leads(queue[k])
          PROVE  Pending'
      <3>1. k \in 1 .. Len(queue') /\ queue'[k] = queue[k]
        OBVIOUS
      <3> QED
        BY <2>1, <2>3, <3>1 DEF Pending, Leads
    <2> QED
      BY <1>2, <2>1, <2>2, <2>3 DEF Pending
  <1> QED
    BY <1>1, <1>2

\* The copy is a new inode; a path that has gone ends the daemon.
LEMMA ReadStepWatch ==
    ASSUME WatchInv, Read
    PROVE  WatchInv'
  <1> DEFINE found == Found(daemon.name)
             event == Written(Len(inode) + 1, "elsewhere", "daemon")
  <1>1. /\ daemon.at = "read" /\ UNCHANGED <<at, temp, open, silent, option, own, logged>>
        /\ UNCHANGED redactVars
    BY DEF Read, redactVars
  <1>2. daemon \in [at : {"read", "remember"}, name : Names]
    BY <1>1 DEF WatchInv, WatchTypeOK, Idle, Dead
  <1>3. option.mode # "audit" /\ FileTypeOK
    BY <1>1 DEF WatchInv, WatchTypeOK
  <1>4. CASE found = Gone
    <2>1. daemon' = Dead /\ UNCHANGED <<inode, clock, queue>>
      BY <1>4 DEF Read
    <2>2. FileTypeOK'
      BY <1>1, <1>3, <2>1 DEF FileTypeOK, Inodes, Events
    <2>3. DaemonTypeOK' /\ daemon'.at = "dead"
      BY <2>1 DEF DaemonTypeOK, Dead
    <2>4. WatchTypeOK'
      BY <1>1, <2>1, <2>2, <2>3, WatchTypeParts DEF WatchInv, WatchTypeOK
    <2> QED
      BY <1>1, <1>3, <2>3, <2>4 DEF WatchInv, Pending
  <1>5. CASE found # Gone
    <2>1. /\ NewInode(Redacted(Content(found))) /\ queue' = Append(queue, event)
          /\ daemon' = [at |-> "replace", name |-> daemon.name, copy |-> Len(inode) + 1]
      BY <1>5 DEF Read
    <2>2. Redacted(Content(found)) \in {"clean", "secret", "huge"}
      <3>1. inode[found] \in Inodes
        BY <1>3, <1>5, FoundInode
      <3> QED
        BY <3>1 DEF Inodes, Content, Redacted
    <2>3. /\ Len(inode) \in Nat /\ Len(inode') = Len(inode) + 1
          /\ Len(inode') \in 1 .. MaxInodes
          /\ clock \in Nat /\ clock' = clock + 1
          /\ inode' \in Seq(Inodes') /\ queue \in Seq(Events') /\ Len(queue) \in Nat
          /\ \A i \in 1 .. Len(inode) : inode'[i] = inode[i]
          /\ 0 .. Len(inode) \subseteq 0 .. Len(inode')
          /\ 1 .. Len(inode) \subseteq 1 .. Len(inode')
      BY <1>3, <2>1, <2>2, InodeAdded
    <2>4. event \in Events' /\ event.kind = "written"
      BY <2>3 DEF Events, Written, Names
    <2> HIDE DEF event, found
    <2>5. /\ queue' \in Seq(Events') /\ Len(queue') = Len(queue) + 1
          /\ \A k \in 1 .. Len(queue) : queue'[k] = queue[k]
          /\ \A k \in 1 .. Len(queue') : k > Len(queue) => queue'[k] = event
      BY <2>1, <2>3, <2>4, Queued
    <2>6. \A k \in 1 .. Len(queue) : k \in 1 .. Len(queue') /\ queue'[k] = queue[k]
      BY <2>3, <2>5
    <2>7. FileTypeOK'
      BY <1>1, <1>3, <2>3, <2>5 DEF FileTypeOK
    <2>8. DaemonTypeOK' /\ daemon'.at = "replace" /\ daemon'.name = daemon.name
      <3>1. Len(inode) + 1 \in 1 .. Len(inode') /\ daemon.name \in Names
        BY <1>2, <2>3
      <3> QED
        BY <2>1, <3>1 DEF DaemonTypeOK
    <2>9. WatchTypeOK'
      <3>1. \A k \in 1 .. Len(queue') : queue'[k].kind = "written"
        <4>1. \A k \in 1 .. Len(queue) : queue[k].kind = "written"
          BY DEF WatchInv, WatchTypeOK
        <4> QED
          BY <2>3, <2>4, <2>5, <4>1
      <3> QED
        BY <1>1, <2>3, <2>7, <2>8, <3>1, WatchTypesGrow DEF WatchInv
    <2>10. Unseen' => Unseen /\ at' = at
      <3>1. at # Gone => inode'[at] = inode[at]
        BY <1>3, <2>3 DEF FileTypeOK, Gone
      <3> QED
        BY <1>1, <3>1 DEF Unseen, Content, Version
    <2>11. Unseen' => Pending'
      BY <1>1, <2>6, <2>8, <2>10, StaysPending
    <2> QED
      BY <1>1, <1>3, <2>9, <2>11 DEF WatchInv
  <1> QED
    BY <1>4, <1>5

\* The copy takes the name.
LEMMA ReplaceStepWatch ==
    ASSUME WatchInv, Replace
    PROVE  WatchInv'
  <1> DEFINE event == Written(daemon.copy, daemon.name, "daemon")
  <1>1. /\ daemon.at = "replace" /\ UNCHANGED <<inode, clock, open, silent, option, own, logged>>
        /\ daemon' = [at |-> "remember", name |-> daemon.name] /\ UNCHANGED redactVars
        /\ at' = IF daemon.name = "file" THEN daemon.copy ELSE at
        /\ temp' = IF daemon.name = "file" THEN temp ELSE daemon.copy
        /\ queue' = IF option.byPath THEN Append(queue, event) ELSE queue
    BY DEF Replace, redactVars
  <1>2. daemon \in [at : {"replace"}, name : Names, copy : 1 .. Len(inode)]
    BY <1>1 DEF WatchInv, WatchTypeOK, Idle, Dead
  <1>3. option.mode # "audit" /\ FileTypeOK
    BY <1>1 DEF WatchInv, WatchTypeOK
  <1>4. event \in Events /\ event.kind = "written"
    BY <1>2 DEF Events, Written
  <1> HIDE DEF event
  <1>5. queue \in Seq(Events) /\ Len(queue) \in Nat
    BY <1>3, LenProperties DEF FileTypeOK
  <1>6. /\ queue' \in Seq(Events)
        /\ \A k \in 1 .. Len(queue) : k \in 1 .. Len(queue') /\ queue'[k] = queue[k]
        /\ \A k \in 1 .. Len(queue') : queue'[k] = event \/ k \in 1 .. Len(queue)
    <2>1. CASE option.byPath
      <3>1. /\ queue' \in Seq(Events) /\ Len(queue') = Len(queue) + 1
            /\ \A k \in 1 .. Len(queue) : queue'[k] = queue[k]
            /\ \A k \in 1 .. Len(queue') : k > Len(queue) => queue'[k] = event
        BY <1>1, <1>4, <1>5, <2>1, Queued
      <3> QED
        BY <1>5, <3>1
    <2>2. CASE ~option.byPath
      BY <1>1, <1>5, <2>2
    <2> QED
      BY <2>1, <2>2
  <1>7. FileTypeOK'
    <2>1. daemon.copy \in 0 .. Len(inode)
      BY <1>2
    <2>2. at' \in 0 .. Len(inode) /\ temp' \in 0 .. Len(inode)
      BY <1>1, <1>3, <2>1 DEF FileTypeOK
    <2> QED
      BY <1>1, <1>3, <1>6, <2>2 DEF FileTypeOK, Inodes, Events
  <1>8. DaemonTypeOK' /\ daemon'.at = "remember" /\ daemon'.name = daemon.name
    BY <1>1, <1>2 DEF DaemonTypeOK
  <1>9. WatchTypeOK'
    <2>1. \A k \in 1 .. Len(queue') : queue'[k].kind = "written"
      BY <1>4, <1>6 DEF WatchInv, WatchTypeOK
    <2> QED
      BY <1>1, <1>7, <1>8, <2>1, WatchTypeParts DEF WatchInv, WatchTypeOK
  <1>10. daemon.name # "file" /\ Unseen' => Unseen /\ at' = at
    BY <1>1 DEF Unseen, Content, Version
  <1>11. Unseen' => Pending'
    BY <1>1, <1>6, <1>8, <1>10, StaysPending
  <1> QED
    BY <1>1, <1>3, <1>9, <1>11 DEF WatchInv

\* The version the daemon remembers as its own is the one it finds.
LEMMA RememberStepWatch ==
    ASSUME WatchInv, Remember
    PROVE  WatchInv'
  <1> DEFINE found == Found(daemon.name)
  <1>1. /\ daemon.at = "remember"
        /\ UNCHANGED <<inode, at, temp, clock, open, queue, silent, option, logged>>
    BY DEF Remember, fileVars
  <1>2. FileTypeOK' /\ FileTypeOK
    BY <1>1 DEF WatchInv, WatchTypeOK, FileTypeOK, Inodes, Events
  <1>3. option.mode = "redact"
    BY <1>1, OptionModes DEF WatchInv, WatchTypeOK
  <1>4. daemon \in [at : {"read", "remember"}, name : Names]
    BY <1>1 DEF WatchInv, WatchTypeOK, Idle, Dead
  <1>5. CASE found = Gone
    <2>1. daemon' = Dead /\ UNCHANGED own
      BY <1>5 DEF Remember
    <2>2. DaemonTypeOK' /\ daemon'.at = "dead"
      BY <2>1 DEF DaemonTypeOK, Dead
    <2>3. WatchTypeOK'
      BY <1>1, <1>2, <2>1, <2>2, WatchTypeParts DEF WatchInv, WatchTypeOK
    <2> QED
      BY <1>1, <1>3, <2>2, <2>3 DEF WatchInv, Pending
  <1>6. CASE found # Gone
    <2>1. daemon' = Idle /\ own' = [own EXCEPT ![daemon.name] = Version(found)]
      BY <1>6 DEF Remember
    <2>2. Version(found) \in [ino : 1 .. Len(inode), stamp : 0 .. clock]
      BY <1>2, <1>6, FoundInode
    <2>3. own \in [Names -> [ino : 0 .. Len(inode), stamp : 0 .. clock]] /\ daemon.name \in Names
      BY <1>4 DEF WatchInv, WatchTypeOK
    <2>4. own' \in [Names -> [ino : 0 .. Len(inode), stamp : 0 .. clock]]
      BY <2>1, <2>2, <2>3
    <2>5. DaemonTypeOK' /\ daemon'.at = "idle"
      BY <2>1 DEF DaemonTypeOK, Idle
    <2>6. WatchTypeOK'
      BY <1>1, <1>2, <2>4, <2>5, WatchTypeParts DEF WatchInv, WatchTypeOK
    <2>7. ASSUME Unseen'
          PROVE  Pending'
      <3>1. CASE daemon.name = "file"
        <4>1. own'["file"] = Version(at)
          BY <2>1, <2>3, <3>1 DEF Found
        <4> QED
          BY <1>1, <1>3, <2>7, <4>1 DEF Unseen, Version
      <3>2. CASE daemon.name # "file"
        <4>1. own'["file"] = own["file"]
          BY <2>1, <2>3, <3>2 DEF Names
        <4>2. Unseen
          BY <1>1, <2>7, <4>1 DEF Unseen, Content, Version
        <4>3. open = at \/ \E k \in 1 .. Len(queue) : Leads(queue[k])
          BY <1>1, <3>2, <4>2 DEF WatchInv, Pending
        <4> QED
          BY <1>1, <4>3 DEF Pending, Leads
      <3> QED
        BY <3>1, <3>2
    <2> QED
      BY <1>1, <1>3, <2>6, <2>7 DEF WatchInv
  <1> QED
    BY <1>5, <1>6

\* One clean inode, nothing queued: nothing to see.
LEMMA FileStarts ==
    ASSUME FileInit
    PROVE  FileTypeOK /\ Len(inode) = 1 /\ at = 1 /\ inode[1].content = "clean"
  <1>1. /\ inode = <<[content |-> "clean", stamp |-> 0]>> /\ queue = <<>> /\ silent = {}
        /\ at = 1 /\ temp = Gone /\ clock = 0 /\ open = Gone
    BY DEF FileInit
  <1>2. [content |-> "clean", stamp |-> 0] \in Inodes
    BY <1>1 DEF Inodes
  <1>3. inode \in Seq(Inodes) /\ Len(inode) = 1 /\ inode[1].content = "clean"
    BY <1>1, <1>2
  <1> QED
    BY <1>1, <1>3, WatchedFileAssumption DEF FileTypeOK, Gone

\* Every step of the daemon or of the other process keeps the invariant.
LEMMA WatchStep ==
    ASSUME WatchInv, [WatchNext]_watchVars
    PROVE  WatchInv'
  <1>1. CASE UNCHANGED watchVars
    <2>1. UNCHANGED <<inode, at, temp, clock, open, queue, silent, daemon, option, own, logged>>
      BY <1>1 DEF watchVars, fileVars, redactVars
    <2>2. WatchTypeOK'
      BY <2>1 DEF WatchInv, WatchTypeOK, FileTypeOK, Inodes, Events
    <2>3. (Unseen' => Unseen) /\ (Pending => Pending')
      BY <2>1 DEF Unseen, Pending, Leads, Content, Version
    <2> QED
      BY <2>1, <2>2, <2>3 DEF WatchInv
  <1> QED
    BY <1>1, OtherStepWatch, TakeStepWatch, StatStepWatch, ScanStepWatch, ReadStepWatch,
       ReplaceStepWatch, RememberStepWatch DEF WatchNext, Rewriter

\* The types of the watcher and of the file, and the reason why a secret at the
\* path that was neither rewritten nor reported will still be looked at, hold
\* in every state of redact and audit mode: always on inotify; on fanotify,
\* which tells of no rename (watch.py:234), unless what is at the path came
\* there moved in, or renamed with no close of it left in the queue (silent).
THEOREM WatchInvariant == WatchSafety => []WatchInv
  <1>1. WatchInit => WatchInv
    <2> SUFFICES ASSUME WatchInit
                 PROVE  WatchInv
      OBVIOUS
    <2>1. FileTypeOK /\ at = 1 /\ inode[1].content = "clean" /\ Len(inode) = 1
      BY FileStarts DEF WatchInit
    <2>2. /\ daemon = Idle /\ queue = <<>> /\ clock = 0 /\ silent = {} /\ option \in Options
          /\ own = [name \in Names |-> NoVersion] /\ logged = {}
      BY DEF WatchInit, FileInit
    <2>3. WatchTypeOK
      BY <2>1, <2>2 DEF WatchTypeOK, NoVersion, Gone, Idle
    <2> QED
      BY <2>1, <2>2, <2>3 DEF WatchInv, Unseen, Content, Idle
  <1> QED
    BY <1>1, WatchStep, PTL DEF WatchSafety

\* Whatever the other process and the daemon do in whatever order: once the
\* writers have closed and the queue is drained, redact mode has left no secret
\* at the path but in a version it takes for its own, and audit mode has
\* reported the very version that holds one -- of all that inotify tells, which
\* is every way a file comes to the path, and of all that fanotify tells, which
\* is every close (DlpWatcher._on_written).
THEOREM NoSecretMissed == WatchSafety => []NothingMissed
  <1>1. WatchInv => NothingMissed
    BY DEF WatchInv, NothingMissed, Quiet, Unseen, Pending, Idle
  <1> QED
    BY <1>1, WatchInvariant, PTL

----------------------------------------------------------------------------
(* WatchBlock.                                                              *)

\* An entry of the cache is empty or carries a stamp already given.
LEMMA CacheStamps ==
    ASSUME BlockTypeOK, NEW i \in 1 .. MaxInodes
    PROVE  /\ cache[i].stamp \in Int /\ cache[i].stamp <= clock /\ clock \in Nat
           /\ cache[i].stamp >= 0 => cache[i] \in
                [stamp : 0 .. clock, secret : BOOLEAN, from : {"verdict", "written"}]
  <1>1. cache[i] \in {Nothing} \cup
            [stamp : 0 .. clock, secret : BOOLEAN, from : {"verdict", "written"}]
    BY DEF BlockTypeOK
  <1>2. clock \in Nat
    BY DEF BlockTypeOK, FileTypeOK
  <1> QED
    BY <1>1, <1>2 DEF Nothing

\* What is known of an inode at the path.
LEMMA InodeKnown ==
    ASSUME FileTypeOK, NEW i \in 1 .. Len(inode)
    PROVE  /\ inode[i].content \in {"clean", "secret", "huge"}
           /\ inode[i].stamp \in 0 .. clock /\ clock \in Nat /\ i \in 1 .. MaxInodes
           /\ i # Gone
  <1>1. inode[i] \in Inodes /\ clock \in Nat
    BY ElementOfSeq DEF FileTypeOK
  <1>2. i \in 1 .. MaxInodes /\ i # Gone
    BY WatchedFileAssumption DEF FileTypeOK, Gone
  <1> QED
    BY <1>1, <1>2 DEF Inodes

\* A hit of the cache is an entry with the inode's stamp.
LEMMA EntryIsCurrent ==
    ASSUME BlockTypeOK, NEW i \in 1 .. Len(inode)
    PROVE  /\ Entry(i) # Nothing => Entry(i) = cache[i] /\ cache[i].stamp = inode[i].stamp
           /\ cache[i].stamp = inode[i].stamp => Entry(i) = cache[i] /\ Entry(i) # Nothing
  <1>1. inode[i].stamp \in 0 .. clock /\ clock \in Nat
    BY InodeKnown DEF BlockTypeOK
  <1> QED
    BY <1>1 DEF Entry, Nothing

\* Everything but the file keeps its type while inodes and stamps are added.
LEMMA BlockTypesGrow ==
    ASSUME BlockTypeOK, FileTypeOK', Len(inode) <= Len(inode'), clock <= clock',
           UNCHANGED <<daemon, cache, reader, verdict>>, wasClean' \in BOOLEAN
    PROVE  BlockTypeOK'
  <1>1. Len(inode) \in Nat /\ Len(inode') \in Nat /\ clock \in Nat /\ clock' \in Nat
    BY LenProperties DEF BlockTypeOK, FileTypeOK
  <1>2. 0 .. clock \subseteq 0 .. clock' /\ 1 .. Len(inode) \subseteq 1 .. Len(inode')
            /\ 0 .. Len(inode) \subseteq 0 .. Len(inode')
    BY <1>1
  <1>3. \/ daemon' = Idle
        \/ daemon' \in [at : {"verdict"}, ino : 1 .. Len(inode'), stamp : 0 .. clock']
        \/ daemon' \in [at : {"answer"}, ino : 1 .. Len(inode'), stamp : 0 .. clock',
                       secret : BOOLEAN]
        \/ daemon' \in [at : {"stat"}, ino : 1 .. Len(inode'), name : Names \cup {"elsewhere"}]
        \/ daemon' \in [at : {"scan"}, ino : 1 .. Len(inode')]
        \/ daemon' \in [at : {"warm"}, ino : 1 .. Len(inode'), secret : BOOLEAN]
    BY <1>2 DEF BlockTypeOK
  <1>4. cache' \in [1 .. MaxInodes -> {Nothing} \cup
            [stamp : 0 .. clock', secret : BOOLEAN, from : {"verdict", "written"}]]
    BY <1>2 DEF BlockTypeOK
  <1>5. reader' \in 0 .. Len(inode')
    BY <1>2 DEF BlockTypeOK
  <1>6. verdict' \in [allow : BOOLEAN, right : BOOLEAN,
                     from : {"none", "verdict", "written", "oversize"}]
    BY DEF BlockTypeOK
  <1> QED
    BY <1>3, <1>4, <1>5, <1>6 DEF BlockTypeOK

\* A close that is ahead stays ahead until the daemon takes it.
LEMMA CloseStaysAhead ==
    ASSUME FileMoves(FALSE), at' = at, at # Gone, CloseAhead(at)
    PROVE  CloseAhead(at)'
  <1>1. CASE open = at
    BY <1>1 DEF FileMoves, Told, CloseAhead, CloseWaits, Written
  <1>2. CASE CloseWaits(at)
    <2>1. PICK k \in 1 .. Len(queue) :
             queue[k].kind = "written" /\ queue[k].ino = at /\ queue[k].who = "other"
      BY <1>2 DEF CloseWaits
    <2>2. k \in 1 .. Len(queue') /\ queue'[k] = queue[k]
      BY DEF FileMoves
    <2> QED
      BY <2>1, <2>2 DEF CloseAhead, CloseWaits
  <1> QED
    BY <1>1, <1>2 DEF CloseAhead

\* What the cache and the daemon hold of an inode that is new, or not written,
\* is as true as it was.
LEMMA TruthStays ==
    ASSUME BlockTypeOK, FileMoves(FALSE), UNCHANGED <<daemon, cache>>,
           NEW i \in 1 .. Len(inode'),
           i > Len(inode) \/ inode'[i] = inode[i]
    PROVE  /\ i > Len(inode) => EntryTrue(i)' /\ CountTrue(i)'
           /\ i \in 1 .. Len(inode) /\ EntryTrue(i) => EntryTrue(i)'
           /\ i \in 1 .. Len(inode) /\ CountTrue(i) => CountTrue(i)'
  <1>1. i \in 1 .. MaxInodes
    BY WatchedFileAssumption DEF FileMoves, FileTypeOK
  <1>2. CASE i > Len(inode)
    <2>1. inode'[i].stamp = clock + 1 /\ ~(i \in 1 .. Len(inode))
      BY <1>2 DEF FileMoves
    <2>2. cache'[i].stamp # inode'[i].stamp
      BY <1>1, <2>1, CacheStamps
    <2>3. daemon.at = "warm" => daemon.ino \in 1 .. Len(inode)
      BY DEF BlockTypeOK, Idle
    <2> QED
      BY <2>1, <2>2, <2>3 DEF EntryTrue, CountTrue
  <1>3. CASE i \in 1 .. Len(inode) /\ inode'[i] = inode[i]
    <2>1. ~(i > Len(inode))
      BY <1>3 DEF FileMoves
    <2> QED
      BY <1>3, <2>1 DEF EntryTrue, CountTrue, True, Content
  <1>4. i > Len(inode) \/ i \in 1 .. Len(inode)
    BY DEF FileMoves
  <1> QED
    BY <1>2, <1>3, <1>4

\* Whatever the other process does to the file: a later stamp disowns what is
\* remembered of an inode, and a later close corrects what is not.
LEMMA OtherStepBlock ==
    ASSUME BlockInv, OtherWhileRead
    PROVE  BlockInv'
  <1>1. /\ FileMoves(FALSE) /\ UNCHANGED <<daemon, cache, reader, verdict>>
        /\ wasClean' = (wasClean \/ (reader # Gone /\ inode'[reader].content = "clean"))
    BY OtherMoves DEF OtherWhileRead, BlockInv, BlockTypeOK
  <1>2. BlockTypeOK'
    <2>1. wasClean' \in BOOLEAN
      BY <1>1 DEF BlockInv, BlockTypeOK
    <2> QED
      BY <1>1, <2>1, BlockTypesGrow DEF BlockInv, FileMoves
  <1>3. ASSUME NEW i \in 1 .. Len(inode'), NEW stamp \in Int, stamp <= clock,
               stamp = inode'[i].stamp
        PROVE  i \in 1 .. Len(inode) /\ inode'[i] = inode[i]
    <2>1. clock \in Nat /\ Len(inode) \in Nat /\ Len(inode') \in Nat
      BY <1>1, LenProperties DEF BlockInv, BlockTypeOK, FileTypeOK, FileMoves
    <2>2. inode'[i].stamp # clock + 1
      BY <1>3, <2>1
    <2> QED
      BY <1>1, <2>1, <2>2 DEF FileMoves
  <1>4. OneRead'
    <2>1. ASSUME NEW k \in 1 .. Len(queue'), queue'[k].kind = "read"
          PROVE  k \in 1 .. Len(queue) /\ queue'[k] = queue[k]
      BY <1>1, <2>1 DEF FileMoves
    <2> QED
      BY <1>1, <2>1 DEF BlockInv, OneRead
  <1>5. VerdictsInv'
    <2>1. ASSUME NEW i \in 1 .. Len(inode'), cache'[i].stamp = inode'[i].stamp,
                 cache'[i].from = "verdict"
          PROVE  True(i, cache[i].secret)'
      <3>1. i \in 1 .. MaxInodes
        BY <1>2, WatchedFileAssumption DEF BlockTypeOK, FileTypeOK
      <3>2. i \in 1 .. Len(inode) /\ inode'[i] = inode[i]
        BY <1>1, <1>3, <2>1, <3>1, CacheStamps DEF BlockInv
      <3> QED
        BY <1>1, <2>1, <3>2 DEF BlockInv, VerdictsInv, True, Content
    <2>2. ASSUME daemon'.at = "answer"
          PROVE  /\ daemon'.stamp = inode'[daemon'.ino].stamp => True(daemon.ino, daemon.secret)'
                 /\ ~daemon'.secret => wasClean'
      <3>1. daemon.at = "answer"
        BY <1>1, <2>2
      <3>2. daemon.ino \in 1 .. Len(inode) /\ daemon.stamp \in 0 .. clock /\ clock \in Nat
              /\ daemon.ino \in 1 .. Len(inode')
        BY <1>1, <1>2, <3>1 DEF BlockInv, BlockTypeOK, FileTypeOK, Idle
      <3>3. ASSUME daemon'.stamp = inode'[daemon'.ino].stamp
            PROVE  True(daemon.ino, daemon.secret)'
        <4>1. inode'[daemon.ino] = inode[daemon.ino]
          BY <1>1, <1>3, <3>2, <3>3
        <4> QED
          BY <1>1, <3>1, <3>3, <4>1 DEF BlockInv, VerdictsInv, True, Content
      <3>4. ~daemon'.secret => wasClean'
        BY <1>1, <3>1 DEF BlockInv, VerdictsInv
      <3> QED
        BY <3>3, <3>4
    <2>3. (reader # Gone /\ Content(reader) = "clean" => wasClean)'
      BY <1>1 DEF Content
    <2>4. (verdict.from = "verdict" => verdict.right)'
      BY <1>1 DEF BlockInv, VerdictsInv
    <2> QED
      BY <1>1, <2>1, <2>2, <2>3, <2>4 DEF VerdictsInv
  <1>6. WarmInv'
    <2>1. Apart' /\ Apart
      BY <1>1 DEF BlockInv, WarmInv, FileMoves
    <2>2. ASSUME at' # Gone
          PROVE  /\ ~EntryTrue(at)' =>
                      \/ CloseAhead(at)'
                      \/ daemon.at = "stat" /\ daemon.ino = at' /\ daemon.name = "file"
                      \/ daemon.at = "scan" /\ daemon.ino = at'
                      \/ daemon.at = "warm" /\ daemon.ino = at' /\ True(at, daemon.secret)'
                 /\ ~CountTrue(at)' => CloseAhead(at)'
      <3>1. at' \in 1 .. Len(inode') /\ at \in 0 .. Len(inode) /\ temp \in 0 .. Len(inode)
              /\ Len(inode) \in Nat
        BY <1>1, <1>2, <2>2 DEF BlockInv, BlockTypeOK, FileTypeOK, FileMoves, Gone
      <3>2. CASE at' > Len(inode)
        BY <1>1, <3>1, <3>2, TruthStays DEF BlockInv
      <3>3. CASE at' = temp
        <4>1. temp # Gone /\ temp \in 1 .. Len(inode) /\ inode'[temp] = inode[temp]
          BY <1>1, <2>1, <2>2, <3>1, <3>3 DEF FileMoves, Apart, Gone
        <4>2. EntryTrue(temp) /\ CountTrue(temp)
          BY <4>1 DEF BlockInv, WarmInv
        <4>3. EntryTrue(at)' /\ CountTrue(at)'
          BY <1>1, <3>3, <4>1, <4>2 DEF EntryTrue, CountTrue, True, Content
        <4> QED
          BY <4>3
      <3>4. CASE at' = at
        <4>1. at \in 1 .. Len(inode) /\ at # Gone
          BY <2>2, <3>1, <3>4 DEF Gone
        <4>2. CASE inode'[at] # inode[at]
          BY <1>1, <3>4, <4>1, <4>2 DEF FileMoves, CloseAhead
        <4>3. CASE inode'[at] = inode[at]
          <5>1. CloseAhead(at) => CloseAhead(at)'
            BY <1>1, <3>4, <4>1, CloseStaysAhead
          <5>2. EntryTrue(at) = EntryTrue(at)' /\ CountTrue(at) = CountTrue(at)'
            BY <1>1, <3>4, <4>3 DEF EntryTrue, CountTrue, True, Content
          <5>3. True(at, daemon.secret) => True(at, daemon.secret)'
            BY <1>1, <3>4, <4>3 DEF True, Content
          <5> QED
            BY <3>4, <4>1, <5>1, <5>2, <5>3 DEF BlockInv, WarmInv
        <4> QED
          BY <4>2, <4>3
      <3> QED
        BY <1>1, <2>2, <3>2, <3>3, <3>4 DEF FileMoves
    <2>3. ASSUME temp' # Gone
          PROVE  EntryTrue(temp)' /\ CountTrue(temp)'
      <3>1. temp' \in 1 .. Len(inode') /\ temp \in 0 .. Len(inode) /\ Len(inode) \in Nat
        BY <1>1, <1>2, <2>3 DEF BlockInv, BlockTypeOK, FileTypeOK, FileMoves, Gone
      <3>2. CASE temp' > Len(inode)
        BY <1>1, <3>1, <3>2, TruthStays DEF BlockInv
      <3>3. CASE temp' = temp
        <4>1. temp # Gone /\ temp \in 1 .. Len(inode) /\ inode'[temp] = inode[temp]
          BY <1>1, <2>1, <2>3, <3>1, <3>3 DEF FileMoves, Apart, Gone
        <4>2. EntryTrue(temp) /\ CountTrue(temp)
          BY <4>1 DEF BlockInv, WarmInv
        <4> QED
          BY <1>1, <3>3, <4>1, <4>2 DEF EntryTrue, CountTrue, True, Content
      <3> QED
        BY <1>1, <2>3, <3>2, <3>3 DEF FileMoves
    <2> QED
      BY <1>1, <2>1, <2>2, <2>3 DEF WarmInv
  <1> QED
    BY <1>2, <1>4, <1>5, <1>6 DEF BlockInv

\* A read takes its place in the queue; there was no other.
LEMMA AskStep ==
    ASSUME BlockInv, Ask
    PROVE  BlockInv'
  <1> DEFINE event == [kind |-> "read", ino |-> at, name |-> "file", who |-> "other"]
  <1>1. /\ reader = Gone /\ at # Gone /\ verdict.from = "none" /\ reader' = at
        /\ wasClean' = (Content(at) = "clean") /\ queue' = Append(queue, event)
        /\ UNCHANGED <<inode, at, temp, clock, open, writes, silent, daemon, cache, verdict>>
    BY DEF Ask
  <1>2. at \in 1 .. Len(inode) /\ Len(inode) \in Nat /\ queue \in Seq(Events)
    BY <1>1 DEF BlockInv, BlockTypeOK, FileTypeOK, Gone
  <1>3. event \in Events
    BY <1>2 DEF Events, Names
  <1>4. /\ queue' \in Seq(Events) /\ Len(queue') = Len(queue) + 1 /\ Len(queue) \in Nat
        /\ \A k \in 1 .. Len(queue) : queue'[k] = queue[k]
        /\ queue'[Len(queue) + 1] = event
    BY <1>1, <1>2, <1>3, Queued
  <1>5. BlockTypeOK'
    <2>1. FileTypeOK'
      BY <1>1, <1>4 DEF BlockInv, BlockTypeOK, FileTypeOK, Inodes, Events
    <2> QED
      BY <1>1, <1>2, <2>1 DEF BlockInv, BlockTypeOK
  <1>6. daemon.at \notin {"verdict", "answer"}
    <2>1. daemon.at \in {"verdict", "answer"} => daemon.ino \in 1 .. Len(inode)
      BY DEF BlockInv, BlockTypeOK, Idle
    <2> QED
      BY <1>1, <2>1 DEF BlockInv, OneRead, Gone
  <1>7. OneRead'
    <2>1. \A k \in 1 .. Len(queue) : queue[k].kind # "read"
      <3>1. \A k \in 1 .. Len(queue) : queue[k].ino # Gone
        <4>1. \A k \in 1 .. Len(queue) : queue[k] \in Events
          BY <1>2, ElementOfSeq
        <4> QED
          BY <4>1 DEF Events, Gone
      <3> QED
        BY <1>1, <3>1 DEF BlockInv, OneRead
    <2>2. ASSUME NEW k \in 1 .. Len(queue'), queue'[k].kind = "read"
          PROVE  k = Len(queue) + 1 /\ queue'[k] = event
      BY <1>4, <2>1, <2>2
    <2> QED
      BY <1>1, <1>6, <2>2 DEF OneRead
  <1>8. VerdictsInv'
    BY <1>1, <1>6 DEF BlockInv, VerdictsInv, True, Content
  <1>9. WarmInv'
    <2>1. CloseAhead(at) => CloseAhead(at)'
      BY <1>1, <1>4 DEF CloseAhead, CloseWaits
    <2> QED
      BY <1>1, <2>1 DEF BlockInv, WarmInv, EntryTrue, CountTrue, Apart, True, Content
  <1> QED
    BY <1>5, <1>7, <1>8, <1>9 DEF BlockInv

\* The answer is delivered.
LEMMA ResumeStep ==
    ASSUME BlockInv, Resume
    PROVE  BlockInv'
  <1>1. /\ verdict' = NoVerdict
        /\ UNCHANGED <<inode, at, temp, clock, open, queue, silent, daemon, cache, reader, wasClean>>
    BY DEF Resume, fileVars
  <1>2. BlockTypeOK'
    BY <1>1 DEF BlockInv, BlockTypeOK, FileTypeOK, Inodes, Events, NoVerdict
  <1> QED
    BY <1>1, <1>2 DEF BlockInv, OneRead, VerdictsInv, WarmInv, EntryTrue, CountTrue, Apart, CloseAhead, CloseWaits, True, Content, NoVerdict

\* An entry dropped for other files says nothing any more.
LEMMA EvictStep ==
    ASSUME BlockInv, Evict
    PROVE  BlockInv'
  <1>1. PICK e \in DOMAIN cache : cache' = [cache EXCEPT ![e] = Nothing]
    BY DEF Evict
  <1>2. UNCHANGED <<inode, at, temp, clock, open, queue, silent, daemon, reader, wasClean, verdict>>
    BY DEF Evict, fileVars
  <1>3. /\ DOMAIN cache = 1 .. MaxInodes
        /\ \A i \in 1 .. MaxInodes : cache'[i] = IF i = e THEN Nothing ELSE cache[i]
    BY <1>1 DEF BlockInv, BlockTypeOK
  <1>4. BlockTypeOK'
    BY <1>1, <1>2, <1>3 DEF BlockInv, BlockTypeOK, FileTypeOK, Inodes, Events
  <1>5. ASSUME NEW i \in 1 .. Len(inode), cache'[i].stamp = inode[i].stamp
        PROVE  cache'[i] = cache[i]
    BY <1>3, <1>5, InodeKnown DEF BlockInv, BlockTypeOK, Nothing
  <1>6. OneRead'
    BY <1>2 DEF BlockInv, OneRead
  <1>7. VerdictsInv'
    BY <1>2, <1>5 DEF BlockInv, VerdictsInv, True, Content
  <1>8. WarmInv'
    <2>1. /\ at # Gone => at \in 1 .. Len(inode)
          /\ temp # Gone => temp \in 1 .. Len(inode)
      BY DEF BlockInv, BlockTypeOK, FileTypeOK, Gone
    <2>2. \A i \in 1 .. Len(inode) : EntryTrue(i) => EntryTrue(i)'
      BY <1>2, <1>5 DEF EntryTrue, True, Content
    <2>3. \A i : /\ CountTrue(i)' <=> CountTrue(i)
                 /\ CloseAhead(i)' <=> CloseAhead(i)
                 /\ True(i, daemon.secret)' <=> True(i, daemon.secret)
      BY <1>2 DEF CountTrue, CloseAhead, CloseWaits, True, Content
    <2> QED
      BY <1>2, <2>1, <2>2, <2>3 DEF BlockInv, WarmInv, Apart
  <1> QED
    BY <1>4, <1>6, <1>7, <1>8 DEF BlockInv

\* What is left of the queue when its first notification is taken.
LEMMA HeadTaken ==
    ASSUME BlockInv, queue # <<>>, queue' = Tail(queue)
    PROVE  /\ queue' \in Seq(Events) /\ Len(queue) \in Nat \ {0} /\ Len(queue') = Len(queue) - 1
           /\ Head(queue) = queue[1] /\ queue[1] \in Events
           /\ \A k \in 1 .. Len(queue') : queue'[k] = queue[k + 1] /\ k + 1 \in 1 .. Len(queue)
           /\ \A k \in 1 .. Len(queue) : k # 1 =>
                k - 1 \in 1 .. Len(queue') /\ queue'[k - 1] = queue[k]
  BY Taken DEF BlockInv, BlockTypeOK, FileTypeOK

\* A read is answered from the cache, or the daemon goes on to scan for it.
LEMMA TakeReadStep ==
    ASSUME BlockInv, TakeRead
    PROVE  BlockInv'
  <1> DEFINE i == queue[1].ino
  <1>1. /\ daemon = Idle /\ queue # <<>> /\ queue' = Tail(queue) /\ Head(queue).kind = "read"
        /\ UNCHANGED <<inode, at, temp, clock, open, writes, silent, cache>>
    BY DEF TakeRead
  <1>2. /\ queue' \in Seq(Events) /\ Len(queue) \in Nat \ {0} /\ Len(queue') = Len(queue) - 1
        /\ Head(queue) = queue[1] /\ queue[1] \in Events
        /\ \A k \in 1 .. Len(queue') : queue'[k] = queue[k + 1] /\ k + 1 \in 1 .. Len(queue)
        /\ \A k \in 1 .. Len(queue) : k # 1 =>
             k - 1 \in 1 .. Len(queue') /\ queue'[k - 1] = queue[k]
    BY <1>1, HeadTaken
  <1>3. queue[1].kind = "read" /\ i \in 1 .. Len(inode) /\ i = reader /\ i # Gone
    BY <1>1, <1>2 DEF Events, BlockInv, OneRead, Gone
  <1>4. \A k \in 1 .. Len(queue') : queue'[k].kind # "read"
    BY <1>2, <1>3 DEF BlockInv, OneRead
  <1>5. FileTypeOK'
    BY <1>1, <1>2 DEF BlockInv, BlockTypeOK, FileTypeOK, Inodes, Events
  <1>6. (at # Gone /\ CloseAhead(at)) => CloseAhead(at)'
    BY <1>1, <1>2, <1>3 DEF CloseAhead, CloseWaits
  <1>7. CASE Entry(i) # Nothing
    <2>1. /\ verdict' = [allow |-> ~Entry(i).secret, right |-> (~Entry(i).secret => wasClean),
                         from |-> Entry(i).from]
          /\ reader' = Gone /\ wasClean' = FALSE /\ daemon' = Idle
      BY <1>1, <1>2, <1>7 DEF TakeRead, Answer
    <2>2. Entry(i) = cache[i] /\ cache[i].stamp = inode[i].stamp
      BY <1>3, <1>7, EntryIsCurrent DEF BlockInv
    <2>3. cache[i].secret \in BOOLEAN /\ cache[i].from \in {"verdict", "written"}
      BY <1>3, <2>2, InodeKnown, CacheStamps DEF BlockInv, BlockTypeOK
    <2>4. wasClean \in BOOLEAN
      BY DEF BlockInv, BlockTypeOK
    <2>5. verdict' \in [allow : BOOLEAN, right : BOOLEAN,
                       from : {"none", "verdict", "written", "oversize"}]
      BY <2>1, <2>2, <2>3, <2>4
    <2>6. BlockTypeOK'
      <3>1. Len(inode) \in Nat /\ reader' \in 0 .. Len(inode') /\ wasClean' \in BOOLEAN
        <4>1. Len(inode) \in Nat
          BY LenProperties DEF BlockInv, BlockTypeOK, FileTypeOK
        <4>2. reader' = 0 /\ Len(inode') = Len(inode)
          BY <1>1, <2>1 DEF Gone
        <4>3. reader' \in 0 .. Len(inode')
          BY <4>1, <4>2
        <4>4. wasClean' \in BOOLEAN
          BY <2>1, Zenon
        <4> QED
          BY <4>1, <4>3, <4>4
      <3>2. cache' \in [1 .. MaxInodes -> {Nothing} \cup
                [stamp : 0 .. clock', secret : BOOLEAN, from : {"verdict", "written"}]]
        BY <1>1 DEF BlockInv, BlockTypeOK
      <3> QED
        BY <1>5, <2>1, <2>5, <3>1, <3>2 DEF BlockTypeOK
    <2>7. cache[i].from = "verdict" /\ ~cache[i].secret => wasClean
      <3>1. ASSUME cache[i].from = "verdict", ~cache[i].secret
            PROVE  Content(reader) = "clean"
        BY <1>3, <2>2, <3>1, InodeKnown DEF BlockInv, BlockTypeOK, VerdictsInv, True, Content
      <3> QED
        BY <1>3, <3>1 DEF BlockInv, VerdictsInv
    <2>8. verdict'.from = "verdict" => verdict'.right
      BY <2>1, <2>2, <2>7
    <2>9. OneRead'
      BY <1>4, <2>1 DEF OneRead, Idle
    <2>10. VerdictsInv'
      BY <1>1, <2>1, <2>8 DEF BlockInv, VerdictsInv, True, Content, Idle
    <2>11. WarmInv'
      BY <1>1, <1>6, <2>1 DEF BlockInv, WarmInv, EntryTrue, CountTrue, Apart, True, Content, Idle
    <2> QED
      BY <2>6, <2>9, <2>10, <2>11 DEF BlockInv
  <1>8. CASE Entry(i) = Nothing
    <2>1. /\ daemon' = [at |-> "verdict", ino |-> i, stamp |-> inode[i].stamp]
          /\ UNCHANGED <<reader, wasClean, verdict>>
      BY <1>1, <1>2, <1>8 DEF TakeRead
    <2>2. inode[i].stamp \in 0 .. clock
      BY <1>3, InodeKnown DEF BlockInv, BlockTypeOK
    <2>3. daemon' \in [at : {"verdict"}, ino : 1 .. Len(inode), stamp : 0 .. clock]
              /\ daemon'.at = "verdict" /\ daemon'.ino = i
      BY <1>3, <2>1, <2>2
    <2>4. BlockTypeOK'
      BY <1>1, <1>5, <2>1, <2>3 DEF BlockInv, BlockTypeOK
    <2>5. OneRead'
      BY <1>3, <1>4, <2>1, <2>3 DEF OneRead
    <2>6. VerdictsInv'
      BY <1>1, <2>1, <2>3 DEF BlockInv, VerdictsInv, True, Content
    <2>7. WarmInv'
      BY <1>1, <1>6, <2>1, <2>3 DEF BlockInv, WarmInv, EntryTrue, CountTrue, Apart, True, Content, Idle
    <2> QED
      BY <2>4, <2>5, <2>6, <2>7 DEF BlockInv
  <1> QED
    BY <1>7, <1>8

\* The scan says of the file what it holds when it is read; what it cannot
\* take is answered at once.
LEMMA ScanForVerdictStep ==
    ASSUME BlockInv, ScanForVerdict
    PROVE  BlockInv'
  <1>1. daemon.at = "verdict" /\ UNCHANGED <<inode, at, temp, clock, open, queue, silent, cache>>
    BY DEF ScanForVerdict, fileVars
  <1>2. daemon \in [at : {"verdict"}, ino : 1 .. Len(inode), stamp : 0 .. clock]
    BY <1>1 DEF BlockInv, BlockTypeOK, Idle
  <1>3. daemon.ino \in 1 .. Len(inode) /\ daemon.stamp \in 0 .. clock /\ daemon.ino = reader
            /\ Len(inode) \in Nat /\ reader # Gone
    BY <1>1, <1>2, LenProperties DEF BlockInv, BlockTypeOK, FileTypeOK, OneRead, Gone
  <1>4. Content(daemon.ino) \in {"clean", "secret", "huge"}
    BY <1>3, InodeKnown DEF BlockInv, BlockTypeOK, Content
  <1>5. FileTypeOK'
    BY <1>1 DEF BlockInv, BlockTypeOK, FileTypeOK, Inodes, Events
  <1>6. \A k \in 1 .. Len(queue) : queue[k].kind # "read"
    BY <1>1 DEF BlockInv, OneRead
  <1>7. (at # Gone /\ CloseAhead(at)) => CloseAhead(at)'
    BY <1>1 DEF CloseAhead, CloseWaits
  <1>8. CASE Content(daemon.ino) = "huge"
    <2>1. /\ verdict' = [allow |-> FailOpen, right |-> FailOpen => wasClean, from |-> "oversize"]
          /\ reader' = 0 /\ wasClean' = FALSE /\ daemon' = Idle
      BY <1>8 DEF ScanForVerdict, Answer, Gone
    <2>2. verdict' \in [allow : BOOLEAN, right : BOOLEAN,
                       from : {"none", "verdict", "written", "oversize"}]
      BY <2>1, WatchBlockAssumption DEF BlockInv, BlockTypeOK
    <2>3. reader' \in 0 .. Len(inode) /\ wasClean' \in BOOLEAN
      <3>1. reader' = 0 /\ wasClean' \in BOOLEAN
        BY <2>1, Zenon
      <3> QED
        BY <1>3, <3>1
    <2>4. BlockTypeOK'
      BY <1>1, <1>5, <2>1, <2>2, <2>3 DEF BlockInv, BlockTypeOK
    <2>5. OneRead'
      BY <1>1, <1>6, <2>1 DEF OneRead, Idle
    <2>6. VerdictsInv'
      BY <1>1, <2>1 DEF BlockInv, VerdictsInv, True, Content, Idle, Gone
    <2>7. WarmInv'
      BY <1>1, <1>7, <2>1 DEF BlockInv, WarmInv, EntryTrue, CountTrue, Apart, True, Content, Idle
    <2> QED
      BY <2>4, <2>5, <2>6, <2>7 DEF BlockInv
  <1>9. CASE Content(daemon.ino) # "huge"
    <2>1. /\ daemon' = [at |-> "answer", ino |-> daemon.ino, stamp |-> daemon.stamp,
                        secret |-> Content(daemon.ino) = "secret"]
          /\ UNCHANGED <<reader, wasClean, verdict>>
      BY <1>9 DEF ScanForVerdict
    <2>2. /\ daemon' \in [at : {"answer"}, ino : 1 .. Len(inode), stamp : 0 .. clock,
                         secret : BOOLEAN]
          /\ daemon'.at = "answer" /\ daemon'.ino = daemon.ino
          /\ daemon'.secret = (Content(daemon.ino) = "secret")
      BY <1>3, <2>1
    <2>3. BlockTypeOK'
      BY <1>1, <1>5, <2>1, <2>2 DEF BlockInv, BlockTypeOK
    <2>4. OneRead'
      BY <1>1, <1>3, <1>6, <2>1, <2>2 DEF OneRead
    <2>5. VerdictsInv'
      <3>1. True(daemon.ino, daemon.secret)'
        BY <1>1, <1>9, <2>2 DEF True, Content
      <3>2. ~daemon'.secret => wasClean'
        BY <1>3, <1>4, <1>9, <2>1, <2>2 DEF BlockInv, VerdictsInv
      <3> QED
        BY <1>1, <2>1, <3>1, <3>2 DEF BlockInv, VerdictsInv, True, Content
    <2>6. WarmInv'
      BY <1>1, <1>7, <2>2 DEF BlockInv, WarmInv, EntryTrue, CountTrue, Apart, True, Content
    <2> QED
      BY <2>3, <2>4, <2>5, <2>6 DEF BlockInv
  <1> QED
    BY <1>8, <1>9

\* What the scan found is remembered for the version seen before it, and is
\* the answer.
LEMMA AnswerScanStep ==
    ASSUME BlockInv, AnswerScan
    PROVE  BlockInv'
  <1> DEFINE entry == [stamp |-> daemon.stamp, secret |-> daemon.secret, from |-> "verdict"]
  <1>1. /\ daemon.at = "answer" /\ UNCHANGED <<inode, at, temp, clock, open, queue, silent>>
        /\ cache' = [cache EXCEPT ![daemon.ino] = entry]
        /\ verdict' = [allow |-> ~daemon.secret, right |-> ~daemon.secret => wasClean,
                       from |-> "verdict"]
        /\ reader' = 0 /\ wasClean' = FALSE /\ daemon' = Idle
    BY DEF AnswerScan, Answer, fileVars, Gone
  <1>2. daemon \in [at : {"answer"}, ino : 1 .. Len(inode), stamp : 0 .. clock, secret : BOOLEAN]
    BY <1>1 DEF BlockInv, BlockTypeOK, Idle
  <1>3. /\ daemon.ino \in 1 .. Len(inode) /\ daemon.ino \in 1 .. MaxInodes
        /\ daemon.stamp \in 0 .. clock /\ daemon.secret \in BOOLEAN /\ Len(inode) \in Nat
    BY <1>1, <1>2, InodeKnown, LenProperties DEF BlockInv, BlockTypeOK, FileTypeOK
  <1>4. FileTypeOK'
    BY <1>1 DEF BlockInv, BlockTypeOK, FileTypeOK, Inodes, Events
  <1>5. \A k \in 1 .. Len(queue) : queue[k].kind # "read"
    BY <1>1 DEF BlockInv, OneRead
  <1>6. ~daemon.secret => wasClean
    BY <1>1 DEF BlockInv, VerdictsInv
  <1>7. entry \in [stamp : 0 .. clock, secret : BOOLEAN, from : {"verdict", "written"}]
            /\ entry.stamp = daemon.stamp /\ entry.secret = daemon.secret
    BY <1>3
  <1> HIDE DEF entry
  <1>8. \A i \in 1 .. MaxInodes : cache'[i] = IF i = daemon.ino THEN entry ELSE cache[i]
    BY <1>1 DEF BlockInv, BlockTypeOK
  <1>9. BlockTypeOK'
    <2>1. cache' \in [1 .. MaxInodes -> {Nothing} \cup
              [stamp : 0 .. clock, secret : BOOLEAN, from : {"verdict", "written"}]]
      BY <1>1, <1>7 DEF BlockInv, BlockTypeOK
    <2>2. verdict' \in [allow : BOOLEAN, right : BOOLEAN,
                       from : {"none", "verdict", "written", "oversize"}]
      BY <1>1, <1>3 DEF BlockInv, BlockTypeOK
    <2>3. reader' \in 0 .. Len(inode) /\ wasClean' \in BOOLEAN
      <3>1. reader' = 0 /\ wasClean' \in BOOLEAN
        BY <1>1, Zenon
      <3> QED
        BY <1>3, <3>1
    <2> QED
      BY <1>1, <1>4, <2>1, <2>2, <2>3 DEF BlockTypeOK
  <1>10. OneRead'
    BY <1>1, <1>5 DEF OneRead, Idle
  <1>11. ASSUME entry.stamp = inode[daemon.ino].stamp
         PROVE  True(daemon.ino, entry.secret)
    BY <1>1, <1>7, <1>11 DEF BlockInv, VerdictsInv
  <1>12. VerdictsInv'
    <2>1. ASSUME NEW i \in 1 .. Len(inode), cache'[i].stamp = inode[i].stamp,
                 cache'[i].from = "verdict"
          PROVE  True(i, cache[i].secret)'
      <3>1. i \in 1 .. MaxInodes
        BY InodeKnown DEF BlockInv, BlockTypeOK
      <3>2. CASE i = daemon.ino
        BY <1>1, <1>8, <1>11, <2>1, <3>1, <3>2 DEF True, Content
      <3>3. CASE i # daemon.ino
        BY <1>1, <1>8, <2>1, <3>1, <3>3 DEF BlockInv, VerdictsInv, True, Content
      <3> QED
        BY <3>2, <3>3
    <2>2. verdict'.right
      BY <1>1, <1>6
    <2> QED
      BY <1>1, <2>1, <2>2 DEF VerdictsInv, Idle, Gone
  <1>13. WarmInv'
    <2>1. /\ at # Gone => at \in 1 .. MaxInodes
          /\ temp # Gone => temp \in 1 .. MaxInodes
      BY InodeKnown DEF BlockInv, BlockTypeOK, FileTypeOK, Gone
    <2>2. ASSUME NEW i \in 1 .. MaxInodes, EntryTrue(i)
          PROVE  EntryTrue(i)'
      <3>1. CASE i = daemon.ino
        BY <1>1, <1>8, <1>11, <3>1 DEF EntryTrue, True, Content
      <3>2. CASE i # daemon.ino
        BY <1>1, <1>8, <2>2, <3>2 DEF EntryTrue, True, Content
      <3> QED
        BY <3>1, <3>2
    <2>3. \A i : CountTrue(i)' /\ (CloseAhead(i)' <=> CloseAhead(i))
      BY <1>1 DEF CountTrue, CloseAhead, CloseWaits, Idle
    <2>4. at # Gone /\ ~EntryTrue(at) => CloseAhead(at)
      BY <1>1 DEF BlockInv, WarmInv
    <2>5. Apart' /\ (temp # Gone => EntryTrue(temp))
      BY <1>1 DEF BlockInv, WarmInv, Apart
    <2> QED
      BY <1>1, <2>1, <2>2, <2>3, <2>4, <2>5 DEF WarmInv
  <1> QED
    BY <1>9, <1>10, <1>12, <1>13 DEF BlockInv

\* A close of the inode at the path is taken with the path's name.
LEMMA TakeWrittenStep ==
    ASSUME BlockInv, TakeWritten
    PROVE  BlockInv'
  <1> DEFINE i == queue[1].ino
  <1>1. /\ daemon = Idle /\ queue # <<>> /\ queue' = Tail(queue) /\ Head(queue).kind = "written"
        /\ UNCHANGED <<inode, at, temp, clock, open, silent, cache, reader, wasClean, verdict>>
        /\ daemon' = [at |-> "stat", ino |-> Head(queue).ino, name |-> NameOf(Head(queue).ino)]
    BY DEF TakeWritten
  <1>2. /\ queue' \in Seq(Events) /\ Len(queue) \in Nat \ {0} /\ Len(queue') = Len(queue) - 1
        /\ Head(queue) = queue[1] /\ queue[1] \in Events
        /\ \A k \in 1 .. Len(queue') : queue'[k] = queue[k + 1] /\ k + 1 \in 1 .. Len(queue)
        /\ \A k \in 1 .. Len(queue) : k # 1 =>
             k - 1 \in 1 .. Len(queue') /\ queue'[k - 1] = queue[k]
    BY <1>1, HeadTaken
  <1>3. FileTypeOK'
    BY <1>1, <1>2 DEF BlockInv, BlockTypeOK, FileTypeOK, Inodes, Events
  <1>4. daemon' = [at |-> "stat", ino |-> i, name |-> NameOf(i)]
    BY <1>1, <1>2
  <1>5. i \in 1 .. Len(inode) /\ NameOf(i) \in Names \cup {"elsewhere"}
    BY <1>2 DEF Events, NameOf, Names
  <1>6. daemon'.at = "stat" /\ daemon'.ino = i /\ daemon'.name = NameOf(i)
    BY <1>4
  <1> HIDE DEF i
  <1>7. BlockTypeOK'
    BY <1>1, <1>3, <1>4, <1>5 DEF BlockInv, BlockTypeOK
  <1>8. OneRead'
    <2>1. ASSUME NEW k \in 1 .. Len(queue'), queue'[k].kind = "read"
          PROVE  /\ queue'[k].ino = reader
                 /\ \A l \in 1 .. Len(queue') : queue'[l].kind = "read" => l = k
      <3>1. k + 1 \in 1 .. Len(queue) /\ queue'[k] = queue[k + 1]
        BY <1>2
      <3>2. queue'[k].ino = reader
                /\ \A l \in 1 .. Len(queue) : queue[l].kind = "read" => l = k + 1
        BY <2>1, <3>1 DEF BlockInv, OneRead
      <3>3. ASSUME NEW l \in 1 .. Len(queue'), queue'[l].kind = "read"
            PROVE  l = k
        BY <1>2, <3>2, <3>3
      <3> QED
        BY <3>2, <3>3
    <2> QED
      BY <1>1, <1>6, <2>1 DEF OneRead
  <1>9. VerdictsInv'
    BY <1>1, <1>6 DEF BlockInv, VerdictsInv, True, Content
  <1>10. WarmInv'
    <2>1. CASE at # Gone /\ i = at
      <3>1. daemon'.name = "file"
        BY <1>6, <2>1 DEF NameOf
      <3>2. ~CountTrue(at)' => CloseAhead(at)'
        BY <1>6 DEF CountTrue
      <3>3. (temp # Gone => EntryTrue(temp) /\ CountTrue(temp))'
        BY <1>1, <1>6 DEF BlockInv, WarmInv, EntryTrue, CountTrue, True, Content
      <3> QED
        BY <1>1, <1>6, <2>1, <3>1, <3>2, <3>3 DEF BlockInv, WarmInv, Apart
    <2>2. CASE at = Gone \/ i # at
      <3>1. at # Gone /\ CloseAhead(at) => CloseAhead(at)'
        <4>1. ASSUME NEW k \in 1 .. Len(queue), queue[k].kind = "written", queue[k].ino = at,
                     queue[k].who = "other", at # Gone
              PROVE  \E l \in 1 .. Len(queue') : queue'[l] = queue[k]
          <5>1. k # 1 /\ k \in Nat
            BY <2>2, <4>1 DEF i
          <5>2. k - 1 \in 1 .. Len(queue') /\ queue'[k - 1] = queue[k]
            BY <1>2, <5>1
          <5> QED
            BY <5>2
        <4> QED
          BY <1>1, <4>1 DEF CloseAhead, CloseWaits
      <3> QED
        BY <1>1, <1>6, <3>1 DEF BlockInv, WarmInv, EntryTrue, CountTrue, Apart, True, Content, Idle
    <2> QED
      BY <2>1, <2>2
  <1> QED
    BY <1>7, <1>8, <1>9, <1>10 DEF BlockInv

\* What has the path's name is scanned.
LEMMA StatWrittenStep ==
    ASSUME BlockInv, StatWritten
    PROVE  BlockInv'
  <1>1. /\ daemon.at = "stat"
        /\ UNCHANGED <<inode, at, temp, clock, open, queue, silent, cache, reader, wasClean, verdict>>
        /\ daemon' = IF Found(daemon.name) # Gone THEN [at |-> "scan", ino |-> daemon.ino] ELSE Idle
    BY DEF StatWritten, fileVars
  <1>2. daemon \in [at : {"stat"}, ino : 1 .. Len(inode), name : Names \cup {"elsewhere"}]
    BY <1>1 DEF BlockInv, BlockTypeOK, Idle
  <1>3. FileTypeOK'
    BY <1>1 DEF BlockInv, BlockTypeOK, FileTypeOK, Inodes, Events
  <1>4. daemon' = Idle \/ daemon' = [at |-> "scan", ino |-> daemon.ino]
    BY <1>1
  <1>5. daemon'.at \in {"idle", "scan"}
    BY <1>4 DEF Idle
  <1>6. BlockTypeOK'
    <2>1. daemon' = Idle \/ daemon' \in [at : {"scan"}, ino : 1 .. Len(inode)]
      BY <1>2, <1>4
    <2> QED
      BY <1>1, <1>3, <2>1 DEF BlockInv, BlockTypeOK
  <1>7. OneRead' /\ VerdictsInv'
    BY <1>1, <1>5 DEF BlockInv, OneRead, VerdictsInv, True, Content
  <1>8. WarmInv'
    <2>1. CloseAhead(at) => CloseAhead(at)'
      BY <1>1 DEF CloseAhead, CloseWaits
    <2>2. at # Gone /\ daemon.name = "file" => daemon'.at = "scan" /\ daemon'.ino = daemon.ino
      BY <1>1 DEF Found
    <2> QED
      BY <1>1, <1>5, <2>1, <2>2 DEF BlockInv, WarmInv, EntryTrue, CountTrue, Apart, True, Content
  <1> QED
    BY <1>6, <1>7, <1>8 DEF BlockInv

\* The scan after a close says of the file what it holds when it is read.
LEMMA ScanWrittenStep ==
    ASSUME BlockInv, ScanWritten
    PROVE  BlockInv'
  <1>1. /\ daemon.at = "scan"
        /\ UNCHANGED <<inode, at, temp, clock, open, queue, silent, cache, reader, wasClean, verdict>>
        /\ daemon' = IF Content(daemon.ino) = "huge" THEN Idle
                     ELSE [at |-> "warm", ino |-> daemon.ino,
                           secret |-> Content(daemon.ino) = "secret"]
    BY DEF ScanWritten, fileVars
  <1>2. daemon \in [at : {"scan"}, ino : 1 .. Len(inode)]
    BY <1>1 DEF BlockInv, BlockTypeOK, Idle
  <1>3. FileTypeOK'
    BY <1>1 DEF BlockInv, BlockTypeOK, FileTypeOK, Inodes, Events
  <1>4. CloseAhead(at) => CloseAhead(at)'
    BY <1>1 DEF CloseAhead, CloseWaits
  <1>5. CASE Content(daemon.ino) = "huge"
    <2>1. daemon' = Idle
      BY <1>1, <1>5
    <2>2. BlockTypeOK'
      BY <1>1, <1>3, <2>1 DEF BlockInv, BlockTypeOK
    <2>3. OneRead' /\ VerdictsInv'
      BY <1>1, <2>1 DEF BlockInv, OneRead, VerdictsInv, True, Content, Idle
    <2>4. WarmInv'
      BY <1>1, <1>4, <1>5, <2>1 DEF BlockInv, WarmInv, EntryTrue, CountTrue, Apart, True, Content, Idle
    <2> QED
      BY <2>2, <2>3, <2>4 DEF BlockInv
  <1>6. CASE Content(daemon.ino) # "huge"
    <2>1. daemon' = [at |-> "warm", ino |-> daemon.ino,
                     secret |-> Content(daemon.ino) = "secret"]
      BY <1>1, <1>6
    <2>2. /\ daemon' \in [at : {"warm"}, ino : 1 .. Len(inode), secret : BOOLEAN]
          /\ daemon'.at = "warm" /\ daemon'.ino = daemon.ino
          /\ daemon'.secret = (Content(daemon.ino) = "secret")
      BY <1>2, <2>1
    <2>3. BlockTypeOK'
      BY <1>1, <1>3, <2>2 DEF BlockInv, BlockTypeOK
    <2>4. OneRead' /\ VerdictsInv'
      BY <1>1, <2>2 DEF BlockInv, OneRead, VerdictsInv, True, Content
    <2>5. True(daemon.ino, daemon.secret)'
      BY <1>1, <1>6, <2>2 DEF True, Content
    <2>6. WarmInv'
      BY <1>1, <1>4, <2>2, <2>5 DEF BlockInv, WarmInv, EntryTrue, CountTrue, Apart, True, Content
    <2> QED
      BY <2>3, <2>4, <2>6 DEF BlockInv
  <1> QED
    BY <1>5, <1>6

\* The counts are remembered for the version found now: right, or there is a
\* close to follow.
LEMMA WarmStep ==
    ASSUME BlockInv, Warm
    PROVE  BlockInv'
  <1> DEFINE entry == [stamp |-> inode[daemon.ino].stamp, secret |-> daemon.secret,
                       from |-> "written"]
  <1>1. /\ daemon.at = "warm"
        /\ UNCHANGED <<inode, at, temp, clock, open, queue, silent, reader, wasClean, verdict>>
        /\ cache' = [cache EXCEPT ![daemon.ino] = entry] /\ daemon' = Idle
    BY DEF Warm, fileVars
  <1>2. daemon \in [at : {"warm"}, ino : 1 .. Len(inode), secret : BOOLEAN]
    BY <1>1 DEF BlockInv, BlockTypeOK, Idle
  <1>3. daemon.ino \in 1 .. Len(inode) /\ daemon.ino \in 1 .. MaxInodes
            /\ daemon.secret \in BOOLEAN /\ inode[daemon.ino].stamp \in 0 .. clock
    BY <1>2, InodeKnown DEF BlockInv, BlockTypeOK
  <1>4. FileTypeOK'
    BY <1>1 DEF BlockInv, BlockTypeOK, FileTypeOK, Inodes, Events
  <1>5. entry \in [stamp : 0 .. clock, secret : BOOLEAN, from : {"verdict", "written"}]
            /\ entry.secret = daemon.secret /\ entry.from = "written"
    BY <1>3
  <1> HIDE DEF entry
  <1>6. \A i \in 1 .. MaxInodes : cache'[i] = IF i = daemon.ino THEN entry ELSE cache[i]
    BY <1>1 DEF BlockInv, BlockTypeOK
  <1>7. BlockTypeOK'
    <2>1. cache' \in [1 .. MaxInodes -> {Nothing} \cup
              [stamp : 0 .. clock, secret : BOOLEAN, from : {"verdict", "written"}]]
      BY <1>1, <1>5 DEF BlockInv, BlockTypeOK
    <2> QED
      BY <1>1, <1>4, <2>1 DEF BlockInv, BlockTypeOK
  <1>8. OneRead'
    BY <1>1 DEF BlockInv, OneRead, Idle
  <1>9. VerdictsInv'
    <2>1. ASSUME NEW i \in 1 .. Len(inode), cache'[i].from = "verdict"
          PROVE  cache'[i] = cache[i]
      BY <1>5, <1>6, <2>1, InodeKnown DEF BlockInv, BlockTypeOK
    <2> QED
      BY <1>1, <2>1 DEF BlockInv, VerdictsInv, True, Content, Idle
  <1>10. WarmInv'
    <2>1. /\ at # Gone => at \in 1 .. MaxInodes
          /\ temp # Gone => temp \in 1 .. MaxInodes
      BY InodeKnown DEF BlockInv, BlockTypeOK, FileTypeOK, Gone
    <2>2. ASSUME NEW i \in 1 .. MaxInodes, CountTrue(i),
                 EntryTrue(i) \/ (daemon.ino = i /\ True(i, daemon.secret))
          PROVE  EntryTrue(i)'
      <3>1. CASE i = daemon.ino
        BY <1>1, <1>5, <1>6, <2>2, <3>1 DEF EntryTrue, CountTrue, True, Content
      <3>2. CASE i # daemon.ino
        BY <1>1, <1>6, <2>2, <3>2 DEF EntryTrue, True, Content
      <3> QED
        BY <3>1, <3>2
    <2>3. \A i : CountTrue(i)' /\ (CloseAhead(i)' <=> CloseAhead(i))
      BY <1>1 DEF CountTrue, CloseAhead, CloseWaits, Idle
    <2>4. at # Gone /\ ~CloseAhead(at) =>
              /\ CountTrue(at)
              /\ EntryTrue(at) \/ (daemon.ino = at /\ True(at, daemon.secret))
      BY <1>1 DEF BlockInv, WarmInv
    <2>5. Apart' /\ (temp # Gone => EntryTrue(temp) /\ CountTrue(temp))
      BY <1>1 DEF BlockInv, WarmInv, Apart
    <2> QED
      BY <1>1, <2>1, <2>2, <2>3, <2>4, <2>5 DEF WarmInv
  <1> QED
    BY <1>7, <1>8, <1>9, <1>10 DEF BlockInv

\* Every step in block mode keeps the invariant.
LEMMA BlockStep ==
    ASSUME BlockInv, [BlockNext]_blockVars
    PROVE  BlockInv'
  <1>1. CASE UNCHANGED blockVars
    <2>1. UNCHANGED <<inode, at, temp, clock, open, queue, silent, daemon, cache, reader, wasClean, verdict>>
      BY <1>1 DEF blockVars, fileVars, readVars
    <2>2. BlockTypeOK'
      BY <2>1 DEF BlockInv, BlockTypeOK, FileTypeOK, Inodes, Events
    <2>3. OneRead' /\ VerdictsInv' /\ WarmInv'
      BY <2>1 DEF BlockInv, OneRead, VerdictsInv, WarmInv, EntryTrue, CountTrue, Apart, CloseAhead, CloseWaits, True, Content
    <2> QED
      BY <2>2, <2>3 DEF BlockInv
  <1> QED
    BY <1>1, OtherStepBlock, AskStep, ResumeStep, EvictStep, TakeReadStep, ScanForVerdictStep,
       AnswerScanStep, TakeWrittenStep, StatWrittenStep, ScanWrittenStep, WarmStep DEF BlockNext, Blocker

\* The types of the blocking daemon, its single pending read, and what keeps
\* the verdicts and the warmed cache right, hold in every state of block mode.
THEOREM BlockInvariant == BlockSafety => []BlockInv
  <1>1. BlockInit => BlockInv
    <2> SUFFICES ASSUME BlockInit
                 PROVE  BlockInv
      OBVIOUS
    <2>1. FileTypeOK /\ at = 1 /\ Len(inode) = 1 /\ inode[1] \in Inodes
      BY FileStarts, ElementOfSeq DEF BlockInit, FileTypeOK
    <2>2. /\ daemon = Idle /\ queue = <<>> /\ clock = 0 /\ temp = Gone
          /\ cache = [i \in 1 .. MaxInodes |-> Nothing]
          /\ reader = Gone /\ wasClean = FALSE /\ verdict = NoVerdict
      BY DEF BlockInit, FileInit
    <2>3. BlockTypeOK
      <3>1. reader \in 0 .. Len(inode) /\ wasClean \in BOOLEAN
        <4>1. reader = 0 /\ wasClean \in BOOLEAN
          BY <2>2, Zenon DEF Gone
        <4> QED
          BY <2>1, <4>1
      <3>2. verdict \in [allow : BOOLEAN, right : BOOLEAN,
                        from : {"none", "verdict", "written", "oversize"}]
        BY <2>2 DEF NoVerdict
      <3> QED
        BY <2>1, <2>2, <3>1, <3>2 DEF BlockTypeOK
    <2>4. \A i \in 1 .. Len(inode) : cache[i].stamp # inode[i].stamp
      BY <2>1, <2>2, <2>3, InodeKnown DEF BlockTypeOK, Nothing
    <2> QED
      BY <2>1, <2>2, <2>3, <2>4 DEF BlockInv, OneRead, VerdictsInv, WarmInv, EntryTrue, CountTrue, Apart, Idle, NoVerdict
  <1> QED
    BY <1>1, BlockStep, PTL DEF BlockSafety

\* A read answered from a scan made for a read, at once or later from the
\* cache, is allowed only if the file was clean at some moment while the read
\* waited, whatever was written meanwhile (DlpWatcher._verdict).
THEOREM VerdictsFromScansHold == BlockSafety => []VerdictScansHold
  <1>1. BlockInv => VerdictScansHold
    BY DEF BlockInv, VerdictsInv, VerdictScansHold
  <1> QED
    BY <1>1, BlockInvariant, PTL

\* Once the writers have closed and everything is answered, what the cache says
\* of the version at the path is true (DlpWatcher._on_written in block mode,
\* _VerdictCache).
THEOREM QuietCacheIsTrue == BlockSafety => []QuietCacheTrue
  <1>1. BlockInv => QuietCacheTrue
    <2> SUFFICES ASSUME BlockInv, queue = <<>>, daemon = Idle, open = Gone, at # Gone,
                        Entry(at) # Nothing, Content(at) # "huge"
                 PROVE  Entry(at).secret = (Content(at) = "secret")
      BY DEF QuietCacheTrue
    <2>1. at \in 1 .. Len(inode)
      BY DEF BlockInv, BlockTypeOK, FileTypeOK, Gone
    <2>2. Entry(at) = cache[at] /\ cache[at].stamp = inode[at].stamp
      BY <2>1, EntryIsCurrent DEF BlockInv
    <2>3. ~CloseAhead(at)
      BY DEF CloseAhead, CloseWaits
    <2>4. True(at, cache[at].secret)
      BY <2>2, <2>3 DEF BlockInv, WarmInv, EntryTrue, CountTrue, Apart, Idle
    <2> QED
      BY <2>2, <2>4 DEF True
  <1> QED
    BY <1>1, BlockInvariant, PTL
=============================================================================
