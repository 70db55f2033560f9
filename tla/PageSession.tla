----------------------------- MODULE PageSession -----------------------------
(***************************************************************************)
(* ui.app and the large-file part of ui.core: the browser tabs of one page *)
(* server.  Each widget a user touches runs the page's script again; a run *)
(* is stopped at its next display call when another one is asked for or   *)
(* the tab is closed.  An upload too large for the page is redacted in a   *)
(* scratch directory that outlives the run that made it.                   *)
(***************************************************************************)
EXTENDS Naturals, FiniteSets

CONSTANTS
    Sessions,       \* browser tabs
    Uploads,        \* what may be selected: [id, size, binary]
    MaxRuns         \* reruns of the scripts that are explored

ASSUME PageAssumption ==
    /\ Uploads \subseteq [id : Nat \ {0}, size : {"small", "large"}, binary : BOOLEAN]
    /\ MaxRuns \in Nat

VARIABLES
    chosen,     \* by tab: the sidebar and the selected upload
    script,         \* by tab: where its script is
    large,      \* by tab: session_state["large"], or NoResult
    shown,      \* by tab: the result on the page
    dir,        \* by tab: the scratch directory its script works in, or 0
    scratch,       \* the scratch directories: [id, source, output]
    workdirs,   \* _WORKDIRS
    saveTo,     \* by tab: the free name save_destination found, or 0
    folder,     \* the saved files: what each holds
    server,     \* "up" or "stopped"
    runs,       \* reruns so far
    saveRaced       \* another tab saved between a tab's check and its move

pageVars == <<chosen, script, large, shown, dir, scratch, workdirs, saveTo, folder,
              server, runs, saveRaced>>

NoUpload == [id |-> 0, size |-> "none", binary |-> FALSE]
NoResult == [key |-> <<0, "none">>, dir |-> 0, saved |-> 0]
Key(s) == <<chosen[s].upload.id, chosen[s].settings>>

PageInit ==
    /\ chosen = [s \in Sessions |-> [upload |-> NoUpload, settings |-> "a"]]
    /\ script = [s \in Sessions |-> "shown"]
    /\ large = [s \in Sessions |-> NoResult] /\ shown = [s \in Sessions |-> NoResult]
    /\ dir = [s \in Sessions |-> 0] /\ scratch = {} /\ workdirs = {}
    /\ saveTo = [s \in Sessions |-> 0] /\ folder = <<>>
    /\ server = "up" /\ runs = 0 /\ saveRaced = FALSE

----------------------------------------------------------------------------
(* A rerun: _sidebar, _read_input, main down to _process_large.            *)

\* discard_workdir: off the disk, then out of _WORKDIRS.
Without(d) == {w \in scratch : w.id # d}

\* discard_workdir is all that _forget_large_file does beside forgetting.
Discard(d) == scratch' = Without(d) /\ workdirs' = workdirs \ {d}
KeepDirs == UNCHANGED <<scratch, workdirs>>

\* What the input tabs and the sidebar may hold; an upload or a pasted text that
\* the page refuses is not read.
Selected == Uploads \cup {NoUpload}
Settings == {"a", "b", "invalid"}
Refusable(u) == u.size # "large" /\ (u.binary \/ u = NoUpload)

\* Every outcome of a script up to its display or to the copying of the upload:
\* input that is refused ends it; with no large upload what the tab had is
\* forgotten; invalid settings show an error; a result for this very upload and
\* settings is shown; processing starts on request only.
Script(s, c, process) ==
    LET key == <<c.upload.id, c.settings>> IN
    \/ /\ Refusable(c.upload)
       /\ shown' = [shown EXCEPT ![s] = NoResult] /\ script' = [script EXCEPT ![s] = "shown"]
       /\ UNCHANGED large /\ KeepDirs
    \/ /\ c.upload.size # "large" /\ ~c.upload.binary
       /\ large' = [large EXCEPT ![s] = NoResult] /\ Discard(large[s].dir)
       /\ shown' = [shown EXCEPT ![s] = NoResult]
       /\ script' = [script EXCEPT ![s] = "shown"]
    \/ /\ c.upload.size = "large"
       /\ c.settings = "invalid" \/ (large[s].key # key /\ ~process)
       /\ shown' = [shown EXCEPT ![s] = NoResult] /\ script' = [script EXCEPT ![s] = "shown"]
       /\ UNCHANGED large /\ KeepDirs
    \/ /\ c.upload.size = "large" /\ c.settings # "invalid" /\ large[s].key = key
       /\ shown' = [shown EXCEPT ![s] = large[s]] /\ script' = [script EXCEPT ![s] = "shown"]
       /\ UNCHANGED large /\ KeepDirs
    \/ /\ c.upload.size = "large" /\ c.settings # "invalid" /\ large[s].key # key /\ process
       /\ large' = [large EXCEPT ![s] = NoResult] /\ Discard(large[s].dir)
       /\ shown' = [shown EXCEPT ![s] = NoResult]
       /\ script' = [script EXCEPT ![s] = "mkdtemp"]

Busy == {"mkdtemp", "spool", "redact", "remove", "commit"}
Display == {"spool", "redact", "commit"}      \* places with a display call

Rerun(s) ==
    /\ server = "up" /\ script[s] = "shown" /\ runs < MaxRuns
    /\ \E u \in Selected, x \in Settings, process \in BOOLEAN :
         LET c == [upload |-> u, settings |-> x] IN
         /\ chosen' = [chosen EXCEPT ![s] = c]
         /\ Script(s, c, process)
    /\ runs' = runs + 1
    /\ UNCHANGED <<dir, saveTo, folder, server, saveRaced>>

\* The run is stopped at a display call, or fails, within the try: the scratch
\* goes, what the script was about to record is not recorded.
\* Mutant: only InputError is cleaned up after.
Abandon_Kept(s, where) ==
    /\ script' = [script EXCEPT ![s] = where] /\ dir' = [dir EXCEPT ![s] = 0] /\ KeepDirs

Abandon(s, where) ==
    /\ script' = [script EXCEPT ![s] = where] /\ dir' = [dir EXCEPT ![s] = 0] /\ Discard(dir[s])

StopScript(s) ==
    /\ server = "up" /\ script[s] \in Display /\ Abandon(s, "shown")
    /\ UNCHANGED <<chosen, large, shown, saveTo, folder, server, runs, saveRaced>>

\* The tab is closed: its session state is dropped; a script under way is
\* stopped like any other.
CloseTab(s) ==
    /\ server = "up" /\ script[s] \in Display \cup {"shown"}
    /\ IF script[s] = "shown" THEN script' = [script EXCEPT ![s] = "closed"] /\ UNCHANGED dir /\ KeepDirs
                          ELSE Abandon(s, "closed")
    /\ large' = [large EXCEPT ![s] = NoResult] /\ shown' = [shown EXCEPT ![s] = NoResult]
    /\ UNCHANGED <<chosen, saveTo, folder, server, runs, saveRaced>>

----------------------------------------------------------------------------
(* _process_large.                                                         *)

Ids == {w.id : w \in scratch}

\* mkdtemp makes up a name that is free; here the first.
Fresh(d) == d \notin Ids /\ \A e \in 1 .. d - 1 : e \in Ids

\* new_workdir: on the disk, then in _WORKDIRS.
MakeWorkdir(s) ==
    /\ server = "up" /\ script[s] = "mkdtemp"
    /\ script' = [script EXCEPT ![s] = "spool"]
    /\ \E d \in 1 .. MaxRuns + 1 :
         /\ Fresh(d) /\ dir' = [dir EXCEPT ![s] = d]
         /\ scratch' = scratch \cup {[id |-> d, source |-> 0, output |-> <<0, "none">>]}
         /\ workdirs' = workdirs \cup {d}
    /\ UNCHANGED <<chosen, large, shown, saveTo, folder, server, runs, saveRaced>>

In(d) == CHOOSE w \in scratch : w.id = d
Put(d, w) == scratch' = Without(d) \cup {w} /\ UNCHANGED workdirs

\* spool_upload, with what it copied before it refused or failed.
Spool(s) ==
    /\ server = "up" /\ script[s] = "spool"
    /\ \/ ~chosen[s].upload.binary
          /\ Put(dir[s], [In(dir[s]) EXCEPT !.source = chosen[s].upload.id])
          /\ script' = [script EXCEPT ![s] = "redact"] /\ UNCHANGED dir
       \/ Abandon(s, "shown")
    /\ UNCHANGED <<chosen, large, shown, saveTo, folder, server, runs, saveRaced>>

RedactLarge(s) ==
    /\ server = "up" /\ script[s] = "redact"
    /\ \/ /\ Put(dir[s], [In(dir[s]) EXCEPT !.output = <<In(dir[s]).source, chosen[s].settings>>])
          /\ script' = [script EXCEPT ![s] = "remove"] /\ UNCHANGED dir
       \/ Abandon(s, "shown")
    /\ UNCHANGED <<chosen, large, shown, saveTo, folder, server, runs, saveRaced>>

RemoveSource(s) ==
    /\ server = "up" /\ script[s] = "remove"
    /\ Put(dir[s], [In(dir[s]) EXCEPT !.source = 0]) /\ script' = [script EXCEPT ![s] = "commit"]
    /\ UNCHANGED <<chosen, large, shown, dir, saveTo, folder, server, runs, saveRaced>>

Commit(s) ==
    /\ server = "up" /\ script[s] = "commit"
    /\ large' = [large EXCEPT ![s] = [key |-> Key(s), dir |-> dir[s], saved |-> 0]]
    /\ shown' = [shown EXCEPT ![s] = large'[s]]
    /\ script' = [script EXCEPT ![s] = "shown"] /\ dir' = [dir EXCEPT ![s] = 0]
    /\ UNCHANGED <<chosen, scratch, workdirs, saveTo, folder, server, runs, saveRaced>>

----------------------------------------------------------------------------
(* _large_output: save_destination, then save_output, in one run.          *)

\* The folder's files by number, the first free one is taken.
FreeName == 1 + Cardinality(DOMAIN folder)

FindName(s) ==
    /\ server = "up" /\ script[s] = "shown" /\ shown[s].dir # 0 /\ shown[s].saved = 0
    /\ saveTo' = [saveTo EXCEPT ![s] = FreeName] /\ script' = [script EXCEPT ![s] = "move"]
    /\ UNCHANGED <<chosen, large, shown, dir, scratch, workdirs, folder, server, runs, saveRaced>>

\* shutil.move renames over what is there.
Move(s) ==
    /\ server = "up" /\ script[s] = "move"
    /\ folder' = [n \in DOMAIN folder \cup {saveTo[s]} |->
                    IF n = saveTo[s] THEN In(large[s].dir).output ELSE folder[n]]
    /\ saveRaced' = (saveRaced \/ saveTo[s] \in DOMAIN folder)
    /\ large' = [large EXCEPT ![s].saved = saveTo[s], ![s].dir = 0]
    /\ shown' = [shown EXCEPT ![s] = large'[s]]
    /\ Discard(large[s].dir)
    /\ script' = [script EXCEPT ![s] = "shown"] /\ saveTo' = [saveTo EXCEPT ![s] = 0]
    /\ UNCHANGED <<chosen, dir, server, runs>>

\* An orderly end runs _cleanup_workdirs; where a script is still writing,
\* rmtree may leave the directory behind.
StopServer ==
    /\ server = "up" /\ server' = "stopped"
    /\ \E left \in SUBSET {dir[s] : s \in {r \in Sessions : script[r] \in Busy}} :
         scratch' = {w \in scratch : w.id \notin workdirs \/ w.id \in left}
    /\ workdirs' = {}
    /\ UNCHANGED <<chosen, script, large, shown, dir, saveTo, folder, runs, saveRaced>>

PageNext ==
    \/ StopServer
    \/ \E s \in Sessions :
         \/ Rerun(s) \/ StopScript(s) \/ CloseTab(s) \/ MakeWorkdir(s) \/ Spool(s)
         \/ RedactLarge(s) \/ RemoveSource(s) \/ Commit(s) \/ FindName(s) \/ Move(s)

PageSpec == PageInit /\ [][PageNext]_pageVars

----------------------------------------------------------------------------
\* The types.
Keys == Nat \X (Settings \cup {"none"})
PageTypeOK ==
    /\ chosen \in [Sessions -> [upload : Selected, settings : Settings]]
    /\ script \in [Sessions -> Busy \cup {"shown", "move", "closed"}]
    /\ large \in [Sessions -> [key : Keys, dir : Nat, saved : Nat]]
    /\ shown \in [Sessions -> [key : Keys, dir : Nat, saved : Nat]]
    /\ dir \in [Sessions -> Nat] /\ saveTo \in [Sessions -> Nat]
    /\ scratch \subseteq [id : Nat \ {0}, source : Nat, output : Keys]
    /\ IsFiniteSet(DOMAIN folder)
    /\ server \in {"up", "stopped"} /\ saveRaced \in BOOLEAN

\* Whose each scratch directory is: one script's, from mkdtemp until it ends, or
\* one result's.
OwnedInv ==
    /\ \A v, w \in scratch : v.id = w.id => v = w
    /\ \A s \in Sessions : dir[s] # 0 <=> script[s] \in Busy \ {"mkdtemp"}
    /\ \A s, r \in Sessions : s # r /\ dir[s] # 0 => dir[s] # dir[r]
    /\ \A s, r \in Sessions : s # r /\ large[s].dir # 0 => large[s].dir # large[r].dir
    /\ \A s, r \in Sessions : large[s].dir # 0 => large[s].dir # dir[r]
    /\ server = "up" => Ids = workdirs
    /\ server = "up" => \A s \in Sessions : {dir[s], large[s].dir} \subseteq Ids \cup {0}
    /\ server = "stopped" => Ids \subseteq {dir[s] : s \in Sessions}

\* What is in it at each step.
HoldsInv ==
    /\ \A w \in scratch : w.source # 0 =>
         \E s \in Sessions : dir[s] = w.id /\ script[s] \in {"redact", "remove"}
    /\ \A s \in Sessions, w \in scratch : dir[s] = w.id =>
         /\ script[s] = "redact" => w.source = chosen[s].upload.id
         /\ script[s] \in {"remove", "commit"} => w.output = Key(s)
    /\ \A s \in Sessions, w \in scratch : large[s].dir = w.id => w.output = large[s].key

\* What a tab has of a result, shows of it and is about to save.
ResultInv ==
    \A s \in Sessions :
      /\ large[s] # NoResult /\ large[s].saved = 0 => large[s].dir # 0
      /\ large[s].saved # 0 =>
           saveRaced \/ (large[s].saved \in DOMAIN folder /\ folder[large[s].saved] = large[s].key)
      /\ shown[s] # NoResult => shown[s] = large[s] /\ shown[s].key = Key(s)
      /\ script[s] = "move" =>
           shown[s] = large[s] /\ large[s].dir # 0 /\ large[s].saved = 0 /\ saveTo[s] # 0

\* The inductive invariant.
PageInv == PageTypeOK /\ OwnedInv /\ HoldsInv /\ ResultInv

----------------------------------------------------------------------------
\* Whatever runs are stopped, tabs closed and files saved in any order: the
\* copy of an upload is on the disk only while its own tab's script is working
\* on it; every scratch directory is known to the cleanup at exit, which leaves
\* none that nobody writes to; a tab's result is of the upload and the settings
\* it is shown for, and its output is there, in the scratch or where it was
\* saved, unless two tabs saved at once.
ScratchKept ==
    LET working == {s \in Sessions : script[s] \in Busy}
        results == {s \in Sessions : large[s] # NoResult}
    IN
    /\ \A w \in scratch : w.source # 0 => \E s \in working : dir[s] = w.id
    /\ server = "up" => Ids = workdirs
    /\ server = "stopped" => \A w \in scratch : \E s \in working : dir[s] = w.id
    /\ \A s \in Sessions : shown[s] # NoResult => shown[s] = large[s] /\ shown[s].key = Key(s)
    /\ server = "up" => \A s \in results :
         IF large[s].saved = 0 THEN \E w \in scratch : w.id = large[s].dir /\ w.output = large[s].key
                               ELSE saveRaced \/ folder[large[s].saved] = large[s].key
    /\ \A s, r \in results : s # r /\ large[s].dir # 0 => large[s].dir # large[r].dir
=============================================================================
