---------------------------- MODULE WatchedFile ----------------------------
(***************************************************************************)
(* What the DLP daemon of watch.py watches: one path in a watched         *)
(* directory, a second name beside it under which another process saves   *)
(* before it renames, the inodes behind both, and the queue of             *)
(* notifications the kernel keeps for the daemon.  None of it is the       *)
(* daemon's code; it is modelled from the calls watch.py makes (fanotify,  *)
(* inotify, stat, pread, rename) and the events it asks for.               *)
(*                                                                         *)
(* A version of the file is an inode and its stamp: size, mtime and ctime *)
(* in one number that every write advances.                                *)
(***************************************************************************)
EXTENDS Integers, Sequences

CONSTANTS
    Contents,       \* what the other process writes; "huge" is more than
                    \* the daemon scans
    MaxWrites,      \* bound: opens, writes, saves and moves by the other
                    \* process
    MaxInodes,      \* bound: inodes ever in the directory
    MayDelete       \* the other process also deletes the file

ASSUME WatchedFileAssumption ==
    /\ Contents \subseteq {"clean", "secret", "huge"}
    /\ MaxInodes \in Nat \ {0}

VARIABLES
    inode,      \* the inodes: content and stamp
    at,         \* the inode at the path; Gone when there is none
    temp,       \* the inode at the name the other process saves under; or Gone
    clock,      \* the last stamp given
    open,       \* the inode the other process has open for writing; or Gone
    writes,     \* opens, writes, saves and moves so far
    queue,      \* notifications the daemon has not taken
    silent,     \* the inodes that came to the path by a rename the daemon is
                \* told nothing of, before it or after
    daemon      \* the step the daemon's thread is at, and what it holds

fileVars == <<inode, at, temp, clock, open, writes, queue, silent>>

Gone == 0
Idle == [at |-> "idle"]
Names == {"file", "temp"}

Content(i) == inode[i].content
Version(i) == [ino |-> i, stamp |-> inode[i].stamp]

\* What a name leads to, and what the name of a descriptor's inode reads:
\* "(deleted)" at its end, or another directory, once it has left both.
Found(name) == IF name = "file" THEN at ELSE IF name = "temp" THEN temp ELSE Gone
NameOf(i) == IF i = at THEN "file" ELSE IF i = temp THEN "temp" ELSE "elsewhere"

\* A file closed after writing, or moved to the name (inotify only).  fanotify
\* gives the inode and the process, inotify the name.
Written(i, name, who) == [kind |-> "written", ino |-> i, name |-> name, who |-> who]

\* The other process's close of inode i waits in the queue.
CloseWaits(i) ==
    \E k \in 1 .. Len(queue) :
        queue[k].kind = "written" /\ queue[k].ino = i /\ queue[k].who = "other"

FileInit ==
    /\ inode = <<[content |-> "clean", stamp |-> 0]>>
    /\ at = 1 /\ temp = Gone /\ clock = 0 /\ open = Gone /\ writes = 0
    /\ queue = <<>> /\ silent = {}
    /\ daemon = Idle

Open ==
    /\ open = Gone /\ at # Gone /\ writes < MaxWrites
    /\ open' = at /\ writes' = writes + 1
    /\ UNCHANGED <<inode, at, temp, clock, queue, silent>>

Write(c) ==
    /\ open # Gone /\ writes < MaxWrites
    /\ inode' = [inode EXCEPT ![open] = [content |-> c, stamp |-> clock + 1]]
    /\ clock' = clock + 1 /\ writes' = writes + 1
    /\ UNCHANGED <<at, temp, open, queue, silent>>

Close ==
    /\ open # Gone
    /\ open' = Gone
    /\ queue' = Append(queue, Written(open, "file", "other"))
    /\ silent' = silent \ {open}
    /\ UNCHANGED <<inode, at, temp, clock, writes>>

\* A new inode with content c.
NewInode(c) ==
    /\ Len(inode) < MaxInodes
    /\ inode' = Append(inode, [content |-> c, stamp |-> clock + 1])
    /\ clock' = clock + 1

\* An editor that saves by renaming first writes and closes a temporary file
\* of the same directory ...
SaveTemp(c) ==
    /\ writes < MaxWrites
    /\ NewInode(c)
    /\ temp' = Len(inode) + 1
    /\ writes' = writes + 1
    /\ queue' = Append(queue, Written(Len(inode) + 1, "temp", "other"))
    /\ UNCHANGED <<at, open, silent>>

\* ... and then renames it over the path.  Only inotify asks for the rename
\* (IN_MOVED_TO); fanotify has told of the close, which may have been taken by
\* now, when the file still had its other name.
RenameTemp(byPath) ==
    /\ temp # Gone
    /\ at' = temp /\ temp' = Gone
    /\ IF byPath
       THEN queue' = Append(queue, Written(temp, "file", "other")) /\ UNCHANGED silent
       ELSE /\ UNCHANGED queue
            /\ silent' = IF CloseWaits(temp) THEN silent ELSE silent \cup {temp}
    /\ UNCHANGED <<inode, clock, open, writes>>

\* A file moved to the path from a directory that is not watched.
MoveIn(c, byPath) ==
    /\ writes < MaxWrites
    /\ NewInode(c)
    /\ at' = Len(inode) + 1
    /\ writes' = writes + 1
    /\ IF byPath
       THEN queue' = Append(queue, Written(Len(inode) + 1, "file", "other")) /\ UNCHANGED silent
       ELSE UNCHANGED queue /\ silent' = silent \cup {Len(inode) + 1}
    /\ UNCHANGED <<temp, open>>

Delete ==
    /\ MayDelete /\ at # Gone
    /\ at' = Gone
    /\ UNCHANGED <<inode, temp, clock, open, writes, queue, silent>>

OtherProcess(byPath) ==
    \/ Open \/ Close \/ Delete \/ RenameTemp(byPath)
    \/ \E c \in Contents : Write(c) \/ SaveTemp(c) \/ MoveIn(c, byPath)

----------------------------------------------------------------------------
Inodes == [content : {"clean", "secret", "huge"}, stamp : 0 .. clock]
Events == [kind : {"written", "read"}, ino : 1 .. Len(inode),
           name : Names \cup {"elsewhere"}, who : {"other", "daemon"}]

\* The inodes have a content and a stamp no later than the last, the names and
\* the other process lead to inodes, and notifications name them.
FileTypeOK ==
    /\ inode \in Seq(Inodes) /\ Len(inode) \in 1 .. MaxInodes /\ clock \in Nat
    /\ at \in 0 .. Len(inode) /\ open \in 0 .. Len(inode)
    /\ temp \in 0 .. Len(inode) /\ silent \subseteq 1 .. Len(inode)
    /\ queue \in Seq(Events)

\* What is saved under the other name is neither at the path nor open.
Apart == temp # Gone => temp \notin {at, open}
=============================================================================
