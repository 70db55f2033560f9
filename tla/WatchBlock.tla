----------------------------- MODULE WatchBlock -----------------------------
(***************************************************************************)
(* watch.DlpWatcher in block mode: a read of the watched file waits for   *)
(* the daemon's verdict, which comes from the verdict cache or from a     *)
(* scan; the scan after a writer's close warms the cache.  One thread     *)
(* answers everything; the writer goes on between any two of its system   *)
(* calls.                                                                  *)
(*                                                                         *)
(* Only fanotify can block, so notifications name the inode.  The cache   *)
(* holds many files; what it keeps of the others can only push out the    *)
(* entry of this one, at any time (Evict).                                 *)
(***************************************************************************)
EXTENDS WatchedFile

CONSTANTS
    FailOpen    \* --fail-open: allow what cannot be scanned

ASSUME WatchBlockAssumption == FailOpen \in BOOLEAN

VARIABLES
    cache,      \* inode -> what the cache says of it; Nothing when absent
    reader,     \* the inode a read waits on; Gone when none
    wasClean,   \* the content the read waits on has been clean at some
                \* moment since the read was issued
    verdict     \* the last answer

readVars == <<cache, reader, wasClean, verdict>>
blockVars == <<fileVars, daemon, readVars>>

Nothing == [stamp |-> -1]
NoVerdict == [allow |-> FALSE, right |-> TRUE, from |-> "none"]

BlockInit ==
    /\ FileInit
    /\ cache = [i \in 1 .. MaxInodes |-> Nothing]
    /\ reader = Gone /\ wasClean = FALSE /\ verdict = NoVerdict

\* The other process; a write to the file being read may make it clean.
OtherWhileRead ==
    /\ OtherProcess(FALSE)
    /\ wasClean' = (wasClean \/ (reader # Gone /\ inode'[reader].content = "clean"))
    /\ UNCHANGED <<daemon, cache, reader, verdict>>

\* A process reads the file at the path; the kernel holds the read.
Ask ==
    /\ reader = Gone /\ at # Gone
    /\ verdict.from = "none"
    /\ reader' = at
    /\ wasClean' = (Content(at) = "clean")
    /\ queue' = Append(queue, [kind |-> "read", ino |-> at, name |-> "file", who |-> "other"])
    /\ UNCHANGED <<inode, at, temp, clock, open, writes, silent, daemon, cache, verdict>>

\* The answer reaches the reader.
Resume ==
    /\ verdict.from # "none"
    /\ verdict' = NoVerdict
    /\ UNCHANGED <<fileVars, daemon, cache, reader, wasClean>>

Entry(i) == IF cache[i].stamp = inode[i].stamp THEN cache[i] ELSE Nothing

Answer(allow, from) ==
    /\ verdict' = [allow |-> allow, right |-> allow => wasClean, from |-> from]
    /\ reader' = Gone /\ wasClean' = FALSE

----------------------------------------------------------------------------
(* _verdict: a read waits.                                                  *)

\* fstat, and the cache.
TakeRead ==
    /\ daemon = Idle /\ queue # <<>> /\ Head(queue).kind = "read"
    /\ queue' = Tail(queue)
    /\ LET i == Head(queue).ino IN
         IF Entry(i) # Nothing
         THEN Answer(~Entry(i).secret, Entry(i).from) /\ UNCHANGED daemon
         ELSE /\ daemon' = [at |-> "verdict", ino |-> i, stamp |-> inode[i].stamp]
              /\ UNCHANGED <<reader, wasClean, verdict>>
    /\ UNCHANGED <<inode, at, temp, clock, open, writes, silent, cache>>

ScanForVerdict_OversizeSilent ==
    /\ daemon.at = "verdict"
    /\ IF Content(daemon.ino) = "huge"
       THEN daemon' = Idle
       ELSE daemon' = [at |-> "answer", ino |-> daemon.ino, stamp |-> daemon.stamp,
                       secret |-> Content(daemon.ino) = "secret"]
    /\ UNCHANGED <<fileVars, cache, reader, wasClean, verdict>>

\* The scan; a file too large for it (or one it fails on, to the same effect)
\* is denied, or allowed with FailOpen, and not remembered.
ScanForVerdict ==
    /\ daemon.at = "verdict"
    /\ IF Content(daemon.ino) = "huge"
       THEN /\ daemon' = Idle /\ Answer(FailOpen, "oversize")
       ELSE /\ daemon' = [at |-> "answer", ino |-> daemon.ino, stamp |-> daemon.stamp,
                          secret |-> Content(daemon.ino) = "secret"]
            /\ UNCHANGED <<reader, wasClean, verdict>>
    /\ UNCHANGED <<fileVars, cache>>

AnswerScan_StampNow ==
    /\ daemon.at = "answer"
    /\ cache' = [cache EXCEPT ![daemon.ino] =
           [stamp |-> inode[daemon.ino].stamp, secret |-> daemon.secret, from |-> "verdict"]]
    /\ Answer(~daemon.secret, "verdict")
    /\ daemon' = Idle
    /\ UNCHANGED fileVars

\* The counts are remembered for the version seen before the scan.
AnswerScan ==
    /\ daemon.at = "answer"
    /\ cache' = [cache EXCEPT ![daemon.ino] =
           [stamp |-> daemon.stamp, secret |-> daemon.secret, from |-> "verdict"]]
    /\ Answer(~daemon.secret, "verdict")
    /\ daemon' = Idle
    /\ UNCHANGED fileVars

----------------------------------------------------------------------------
(* _on_written in block mode.                                               *)

\* The descriptor's name.
TakeWritten ==
    /\ daemon = Idle /\ queue # <<>> /\ Head(queue).kind = "written"
    /\ queue' = Tail(queue)
    /\ daemon' = [at |-> "stat", ino |-> Head(queue).ino, name |-> NameOf(Head(queue).ino)]
    /\ UNCHANGED <<inode, at, temp, clock, open, writes, silent, cache, reader, wasClean, verdict>>

StatWritten_SkipCached ==
    /\ daemon.at = "stat"
    /\ daemon' = IF Found(daemon.name) # Gone /\ Entry(daemon.ino) = Nothing
                 THEN [at |-> "scan", ino |-> daemon.ino] ELSE Idle
    /\ UNCHANGED <<fileVars, cache, reader, wasClean, verdict>>

\* os.stat of that name: a file that has left it is not scanned, unless another
\* has taken its place.
StatWritten ==
    /\ daemon.at = "stat"
    /\ daemon' = IF Found(daemon.name) # Gone THEN [at |-> "scan", ino |-> daemon.ino] ELSE Idle
    /\ UNCHANGED <<fileVars, cache, reader, wasClean, verdict>>

ScanWritten ==
    /\ daemon.at = "scan"
    /\ daemon' = IF Content(daemon.ino) = "huge" THEN Idle
                 ELSE [at |-> "warm", ino |-> daemon.ino,
                       secret |-> Content(daemon.ino) = "secret"]
    /\ UNCHANGED <<fileVars, cache, reader, wasClean, verdict>>

\* The counts are remembered for the version seen after the scan.
Warm ==
    /\ daemon.at = "warm"
    /\ cache' = [cache EXCEPT ![daemon.ino] =
           [stamp |-> inode[daemon.ino].stamp, secret |-> daemon.secret, from |-> "written"]]
    /\ daemon' = Idle
    /\ UNCHANGED <<fileVars, reader, wasClean, verdict>>

\* put() of other files drops the least recently used entries.
Evict ==
    /\ \E i \in DOMAIN cache : cache[i] # Nothing /\ cache' = [cache EXCEPT ![i] = Nothing]
    /\ UNCHANGED <<fileVars, daemon, reader, wasClean, verdict>>

Blocker ==
    TakeRead \/ ScanForVerdict \/ AnswerScan \/ TakeWritten \/ StatWritten \/ ScanWritten \/ Warm

BlockNext == OtherWhileRead \/ Ask \/ Resume \/ Blocker \/ Evict

BlockSafety == BlockInit /\ [][BlockNext]_blockVars

\* The daemon's thread is scheduled.
BlockSpec == BlockSafety /\ WF_blockVars(Blocker)

----------------------------------------------------------------------------
\* The daemon, the cache and the file hold what the code can store in them.
BlockTypeOK ==
    /\ FileTypeOK
    /\ \/ daemon = Idle
       \/ daemon \in [at : {"verdict"}, ino : 1 .. Len(inode), stamp : 0 .. clock]
       \/ daemon \in [at : {"answer"}, ino : 1 .. Len(inode), stamp : 0 .. clock,
                      secret : BOOLEAN]
       \/ daemon \in [at : {"stat"}, ino : 1 .. Len(inode), name : Names \cup {"elsewhere"}]
       \/ daemon \in [at : {"scan"}, ino : 1 .. Len(inode)]
       \/ daemon \in [at : {"warm"}, ino : 1 .. Len(inode), secret : BOOLEAN]
    /\ cache \in [1 .. MaxInodes -> {Nothing} \cup
                     [stamp : 0 .. clock, secret : BOOLEAN, from : {"verdict", "written"}]]
    /\ reader \in 0 .. Len(inode) /\ wasClean \in BOOLEAN
    /\ verdict \in [allow : BOOLEAN, right : BOOLEAN,
                    from : {"none", "verdict", "written", "oversize"}]

\* secret is what a scan of inode i says now.
True(i, secret) == Content(i) # "huge" /\ secret = (Content(i) = "secret")

\* There is one read at a time: it waits in the queue, or the daemon handles it.
OneRead ==
    /\ \A k \in 1 .. Len(queue) : queue[k].kind = "read" =>
         /\ queue[k].ino = reader
         /\ daemon.at \notin {"verdict", "answer"}
         /\ \A l \in 1 .. Len(queue) : queue[l].kind = "read" => l = k
    /\ daemon.at \in {"verdict", "answer"} => daemon.ino = reader

\* Why VerdictScansHold: what a scan for a read said is true of the version
\* fstat saw before it, if that is still the version; a clean answer means
\* that the content was clean while the read waited.
VerdictsInv ==
    /\ \A i \in 1 .. Len(inode) :
         cache[i].stamp = inode[i].stamp /\ cache[i].from = "verdict" => True(i, cache[i].secret)
    /\ daemon.at = "answer" =>
         /\ daemon.stamp = inode[daemon.ino].stamp => True(daemon.ino, daemon.secret)
         /\ ~daemon.secret => wasClean
    /\ reader # Gone /\ Content(reader) = "clean" => wasClean
    /\ verdict.from = "verdict" => verdict.right

\* A writer's close of inode i is still to come, or waits in the queue.
CloseAhead(i) == open = i \/ CloseWaits(i)

\* The current entry of inode i, and what the daemon is about to store of it.
EntryTrue(i) ==
    cache[i].stamp = inode[i].stamp /\ Content(i) # "huge" => True(i, cache[i].secret)
CountTrue(i) ==
    daemon.at = "warm" /\ daemon.ino = i /\ Content(i) # "huge" => True(i, daemon.secret)

\* Why QuietCacheTrue: a wrong current entry for the path is about to be
\* replaced, the daemon never holds a wrong count with no close to follow, and
\* of the file saved under the other name, which nobody writes any more, nothing
\* wrong is ever held: it may come to the path with no notification ahead.
WarmInv ==
    /\ Apart
    /\ at # Gone /\ ~EntryTrue(at) =>
         \/ CloseAhead(at)
         \/ daemon.at = "stat" /\ daemon.ino = at /\ daemon.name = "file"
         \/ daemon.at = "scan" /\ daemon.ino = at
         \/ daemon.at = "warm" /\ daemon.ino = at /\ True(at, daemon.secret)
    /\ at # Gone /\ ~CountTrue(at) => CloseAhead(at)
    /\ temp # Gone => EntryTrue(temp) /\ CountTrue(temp)

\* The inductive invariant.
BlockInv == BlockTypeOK /\ OneRead /\ VerdictsInv /\ WarmInv

\* A read that was answered from a scan made for a read -- its own, or an
\* earlier one remembered in the cache -- is allowed only if the file was
\* clean at some moment while the read waited.
VerdictScansHold == verdict.from = "verdict" => verdict.right

\* Once the writers have closed and everything is answered, the cache says
\* of the version at the path what is true of it (files the scan can take).
QuietCacheTrue ==
    queue = <<>> /\ daemon = Idle /\ open = Gone /\ at # Gone /\ Entry(at) # Nothing
        /\ Content(at) # "huge" =>
        Entry(at).secret = (Content(at) = "secret")

\* watch.py:14 "Deny read() of any file that contains a detection": a read
\* is allowed only if the file was clean at some moment while it waited.
AllowedOnlyClean == verdict.from # "none" /\ verdict.allow => verdict.right
=============================================================================
