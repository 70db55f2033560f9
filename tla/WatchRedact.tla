---------------------------- MODULE WatchRedact ----------------------------
(***************************************************************************)
(* watch.DlpWatcher in redact and audit mode: one thread takes a          *)
(* notification, stats its path, scans the file and, when it finds         *)
(* something, rewrites it through atomic_output.  Every system call is a  *)
(* step of its own: the other process runs between any two.                *)
(***************************************************************************)
EXTENDS WatchedFile

CONSTANTS
    Options     \* the configurations the daemon is started with: the mode;
                \* whether events name the path (inotify) or the inode
                \* (fanotify); whether the operator's output is itself
                \* detected (a fictional name is a name)

ASSUME WatchRedactAssumption ==
    Options \subseteq [mode : {"audit", "redact"}, byPath : BOOLEAN, detectable : BOOLEAN]

VARIABLES
    option,     \* the configuration of this daemon
    own,        \* _own: by name, the version the daemon believes it wrote
    logged      \* audit: the versions reported

redactVars == <<option, own, logged>>
watchVars == <<fileVars, daemon, redactVars>>

\* Redacting on fanotify, and on inotify, with an operator whose output is clean.
RedactOnInode == {[mode |-> "redact", byPath |-> FALSE, detectable |-> FALSE]}
RedactOnPath == {[mode |-> "redact", byPath |-> TRUE, detectable |-> FALSE]}

NoVersion == [ino |-> Gone, stamp |-> 0]
Dead == [at |-> "dead"]

WatchInit ==
    /\ FileInit
    /\ option \in Options
    /\ own = [name \in Names |-> NoVersion] /\ logged = {}

Other == OtherProcess(option.byPath) /\ UNCHANGED <<daemon, redactVars>>

\* events(), and the pid check (inotify reports no pid).  inotify's event names
\* the path, whatever is there now; fanotify's is a descriptor, whose name is
\* read here.
Take ==
    /\ daemon = Idle /\ queue # <<>>
    /\ queue' = Tail(queue)
    /\ LET e == Head(queue) IN
         daemon' = IF e.who = "daemon" /\ ~option.byPath THEN Idle
                   ELSE [at |-> "stat", ino |-> e.ino,
                         name |-> IF option.byPath THEN e.name ELSE NameOf(e.ino)]
    /\ UNCHANGED <<inode, at, temp, clock, open, writes, silent, redactVars>>

Stat_OwnByInode ==
    /\ daemon.at = "stat"
    /\ LET found == Found(daemon.name) IN
         daemon' = IF found = Gone \/ own[daemon.name].ino = found THEN Idle
                   ELSE [daemon EXCEPT !.at = "scan"]
    /\ UNCHANGED <<fileVars, redactVars>>

\* os.stat(path), and the comparison with the version of our own rewrite.
Stat ==
    /\ daemon.at = "stat"
    /\ LET found == Found(daemon.name) IN
         daemon' = IF found = Gone \/ own[daemon.name] = Version(found) THEN Idle
                   ELSE [daemon EXCEPT !.at = "scan"]
    /\ UNCHANGED <<fileVars, redactVars>>

Scan_OncePerInode ==
    /\ daemon.at = "scan"
    /\ LET target == IF option.byPath THEN Found(daemon.name) ELSE daemon.ino
           hit == target # Gone /\ Content(target) = "secret"
                  /\ \A v \in logged : v.ino # target
       IN /\ daemon' = IF hit /\ option.mode = "redact"
                       THEN [at |-> "read", name |-> daemon.name] ELSE Idle
          /\ logged' = IF hit /\ option.mode = "audit" THEN logged \cup {Version(target)} ELSE logged
    /\ UNCHANGED <<fileVars, option, own>>

\* scan_fd on the event's descriptor, or on the path opened now.  A path that
\* has gone is an OSError: logged, and the daemon goes on.
Scan ==
    /\ daemon.at = "scan"
    /\ LET target == IF option.byPath THEN Found(daemon.name) ELSE daemon.ino
           hit == target # Gone /\ Content(target) = "secret"
       IN /\ daemon' = IF hit /\ option.mode = "redact"
                       THEN [at |-> "read", name |-> daemon.name] ELSE Idle
          /\ logged' = IF hit /\ option.mode = "audit" THEN logged \cup {Version(target)} ELSE logged
    /\ UNCHANGED <<fileVars, option, own>>

\* What redact_in_place makes of a file.
Redacted(content) ==
    IF content = "secret" /\ ~option.detectable THEN "clean" ELSE content

\* redact_in_place reads the path again and writes and closes the redacted copy
\* beside it, under a name of its own.  The daemon does not catch its
\* FileNotFoundError: run() ends.
Read ==
    /\ daemon.at = "read"
    /\ LET found == Found(daemon.name) IN
         IF found = Gone
         THEN daemon' = Dead /\ UNCHANGED <<inode, clock, queue>>
         ELSE /\ NewInode(Redacted(Content(found)))
              /\ queue' = Append(queue, Written(Len(inode) + 1, "elsewhere", "daemon"))
              /\ daemon' = [at |-> "replace", name |-> daemon.name, copy |-> Len(inode) + 1]
    /\ UNCHANGED <<at, temp, open, writes, silent, redactVars>>

\* os.replace of the path by the copy, whatever has become of the path.
Replace ==
    /\ daemon.at = "replace"
    /\ IF daemon.name = "file"
       THEN at' = daemon.copy /\ UNCHANGED temp
       ELSE temp' = daemon.copy /\ UNCHANGED at
    /\ queue' = IF option.byPath THEN Append(queue, Written(daemon.copy, daemon.name, "daemon"))
                ELSE queue
    /\ daemon' = [at |-> "remember", name |-> daemon.name]
    /\ UNCHANGED <<inode, clock, open, writes, silent, redactVars>>

Remember_Nothing ==
    /\ daemon.at = "remember"
    /\ daemon' = Idle
    /\ UNCHANGED <<fileVars, redactVars>>

\* os.stat(path) again, for _own; also uncaught.
Remember ==
    /\ daemon.at = "remember"
    /\ LET found == Found(daemon.name) IN
         IF found = Gone THEN daemon' = Dead /\ UNCHANGED own
         ELSE daemon' = Idle /\ own' = [own EXCEPT ![daemon.name] = Version(found)]
    /\ UNCHANGED <<fileVars, option, logged>>

Rewriter == Take \/ Stat \/ Scan \/ Read \/ Replace \/ Remember

WatchNext == Other \/ Rewriter

WatchSafety == WatchInit /\ [][WatchNext]_watchVars

\* The daemon's thread is scheduled; the other process closes what it opened.
WatchSpec ==
    /\ WatchSafety
    /\ WF_watchVars(Rewriter)
    /\ WF_watchVars(Close /\ UNCHANGED <<daemon, redactVars>>)

----------------------------------------------------------------------------
\* The daemon and the file hold what the code can store in them.
WatchTypeOK ==
    /\ FileTypeOK
    /\ \/ daemon \in {Idle, Dead}
       \/ daemon \in [at : {"stat", "scan"}, ino : 1 .. Len(inode),
                      name : Names \cup {"elsewhere"}]
       \/ daemon \in [at : {"read", "remember"}, name : Names]
       \/ daemon \in [at : {"replace"}, name : Names, copy : 1 .. Len(inode)]
    /\ daemon.at = "scan" => daemon.name \in Names
    /\ \A k \in 1 .. Len(queue) : queue[k].kind = "written"
    /\ option \in Options
    /\ own \in [Names -> [ino : 0 .. Len(inode), stamp : 0 .. clock]]
    /\ logged \subseteq [ino : 1 .. Len(inode), stamp : 0 .. clock]

\* The secret at the path is in a version of which the daemon was told, and
\* which it neither takes for its own rewrite nor has reported.
Unseen ==
    /\ at # Gone /\ Content(at) = "secret" /\ at \notin silent
    /\ option.mode = "redact" => own["file"] # Version(at)
    /\ option.mode = "audit" => Version(at) \notin logged

\* The notification leads the daemon to what is at the path.
Leads(e) == IF option.byPath THEN e.name = "file" ELSE e.ino = at /\ e.who = "other"

\* Why the daemon will still look at the path: a writer has yet to close what
\* is there, a notification of it waits or is being handled, or the rewrite of
\* the path is under way, or the daemon has ended.
Pending ==
    \/ open = at
    \/ \E k \in 1 .. Len(queue) : Leads(queue[k])
    \/ /\ daemon.at \in {"stat", "scan"} /\ daemon.name = "file"
       /\ option.byPath \/ daemon.ino = at
    \/ daemon.at \in {"read", "replace", "remember"} /\ daemon.name = "file"
    \/ daemon.at = "dead"

\* The inductive invariant: what was not seen is still pending; inotify tells of
\* every rename; an auditing daemon rewrites nothing.
WatchInv ==
    /\ WatchTypeOK
    /\ Unseen => Pending
    /\ option.byPath => silent = {}
    /\ option.mode = "audit" =>
         /\ \A name \in Names : own[name] = NoVersion
         /\ daemon.at \notin {"read", "replace", "remember", "dead"}

Quiet == queue = <<>> /\ daemon = Idle /\ open = Gone

\* Once the writers have closed and the queue is drained, no secret is left at
\* the path that the daemon missed, whatever interleaving of writes, saves,
\* renames, deletes, scans and rewrites led there: in redact mode a version that
\* still holds one is one the daemon took for its own rewrite, and in audit mode
\* the very version at the path has been reported.  inotify tells of every file
\* that comes to the path; fanotify does not of one moved in, or of one renamed
\* after its close was taken (silent), and of these nothing is claimed.
NothingMissed ==
    Quiet /\ at # Gone /\ Content(at) = "secret" /\ (option.byPath \/ at \notin silent) =>
        /\ option.mode = "redact" => own["file"] = Version(at)
        /\ option.mode = "audit" => Version(at) \in logged

\* The daemon has handled all it was told, or has ended.
AtRest == daemon = Dead \/ (daemon = Idle /\ queue = <<>>)

\* watch.py:12 "After a file is written and closed, rewrite it in place with
\* every detection redacted": while the daemon lives, a file nobody deletes ends
\* redacted.
EventuallyRedacted == <>[](daemon # Dead /\ at # Gone => Content(at) # "secret")
=============================================================================
