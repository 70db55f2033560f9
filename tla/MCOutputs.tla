----------------------------- MODULE MCOutputs -----------------------------
(***************************************************************************)
(* Small instances of the parts around a redaction, one chosen at the      *)
(* start: RedactTree; AtomicOutput, two threads with one or two            *)
(* destinations; NetGuard, three threads; CommandRun; the admission of     *)
(* MemoryBudget; PageSession, two tabs; and the page's Inspector.  The     *)
(* others rest.                                                            *)
(***************************************************************************)
EXTENDS RedactTree, AtomicOutput, NetGuard, CommandRun, MemoryBudget, PageSession

VARIABLES
    setup,
    source, trace, index, last, playing, armed, view, events            \* Inspector

treeVars == vars
inspectVars == <<source, trace, index, last, playing, armed, view, events>>
outputVars == <<setup, treeVars, atomicVars, netVars, commandVars, request, pageVars, inspectVars>>

File(kind, readable, hit) == [kind |-> kind, readable |-> readable, hit |-> hit]

\* No file; one, with a detection or unreadable; a tree in which detect passes
\* over files with detections, one whose last file cannot be read, one with a
\* link.
MCInputs == {
    <<>>,
    <<File("named", TRUE, TRUE)>>,
    <<File("named", FALSE, FALSE)>>,
    <<File("plain", TRUE, FALSE), File("binary", TRUE, TRUE)>>,
    <<File("plain", TRUE, TRUE), File("vcs", TRUE, TRUE), File("plain", FALSE, FALSE)>>,
    <<File("link", TRUE, TRUE), File("plain", TRUE, TRUE), File("plain", TRUE, FALSE)>>}

\* Kernels that allow both modes, one, or none.
Kernel(netns, seccomp) ==
    [posix |-> TRUE, inTable |-> TRUE, libc |-> TRUE, noNewPrivs |-> TRUE,
     newnet |-> FALSE, userns |-> netns, seccomp |-> FALSE, prctl |-> seccomp]
MCKernels == {Kernel(TRUE, TRUE), Kernel(FALSE, TRUE), Kernel(FALSE, FALSE)}

\* Sizes in units of the instance; RLIM_INFINITY is 999.
MCAsked == Requests({ParseSize(tenths, "b") : tenths \in {205, 400, 600, 900}},
                    1 .. 6, 0 .. 4, {0, 1, 3}, 1 .. 3)
MCRlimits == {l \in [size : {1, 6}, soft : {10, 60, 999}, hard : {10, 61, 999}] : l.soft <= l.hard}

MCUploads == {[id |-> 1, size |-> "large", binary |-> FALSE],
              [id |-> 2, size |-> "large", binary |-> TRUE],
              [id |-> 3, size |-> "small", binary |-> FALSE],
              [id |-> 4, size |-> "small", binary |-> TRUE]}

\* Texts of up to eleven characters with up to two detections, which the page
\* streams in chunks of one or two overlaps: short ones, and longer ones the
\* engine refuses or does not see.  Other callers of trace_chunks have them
\* traced, or no overlap: some pin whole passes.
Span(a, b) == [start |-> a, end |-> b]
MCTruths == {{}, {Span(1, 3)}, {Span(2, 4), Span(5, 7)}, {Span(1, 6)}, {Span(3, 5), Span(6, 7)},
             {Span(1, 2), Span(7, 10)}}
\* The text of a length with the detections that fit it.
Text(len, chunk, overlap, strict, T) ==
    [len |-> len, chunk |-> chunk, overlap |-> overlap, strict |-> strict,
     truth |-> {d \in T : d.end <= len}]
MCTexts == {Text(len, chunk, 2, TRUE, T) : len \in {3, 11}, chunk \in {2, 4}, T \in MCTruths}
MCTraced == {Text(len, chunk, overlap, FALSE, T) : len \in {3, 11}, chunk \in {1, 3, 5}, overlap \in {0, 2},
                T \in MCTruths \cup {{Span(2, 4), Span(5, 8)}, {Span(0, 5)}, {Span(3, 9)}}}

Passes == INSTANCE Inspector WITH
    Texts <- MCTexts, Traced <- MCTraced,
    MaxEvents <- 3, INSPECTOR_RETAINED <- 3, PREVIEW_CHARS <- 7

\* Three files into another tree; one file; a tree redacted onto itself.
OneFile == <<[in |-> "a", out |-> "o/a"]>>
MCTrees == {
    <<[in |-> "a", out |-> "o/a"], [in |-> "b", out |-> "o/b"], [in |-> "c", out |-> "o/c"]>>,
    OneFile,
    <<[in |-> "a", out |-> "a"], [in |-> "b", out |-> "b"]>>}

NoTree == jobs = OneFile /\ n = 1 /\ guard.before

NoWriter ==
    /\ target = [w \in Writers |-> "a"]
    /\ first = [p \in Destinations |-> NoFile]

NoThread ==
    /\ use = [t \in Threads |-> "install"]
    /\ step = [t \in Threads |-> "done"]
    /\ already = [t \in Threads |-> FALSE]
    /\ original = "none" /\ connect = "real" /\ raced = FALSE

NoCommand ==
    /\ args = [command |-> "none"] /\ inputs = <<>> /\ kernel = Kernel(FALSE, FALSE)
    /\ phase = "over" /\ main = NoProcess /\ worker = NoProcess
    /\ next = 0 /\ hits = 0 /\ output = [replaced |-> {}, stdout |-> "nothing"]
    /\ report = FALSE /\ exit = 0

NoRequest == [limit |-> 20, chunk |-> 1, overlap |-> 0, model |-> FALSE, native |-> FALSE,
              workers |-> 1, cpus |-> 1]

\* Nothing on the page; the inspector before its first run.
NoTab ==
    /\ chosen = [s \in Sessions |-> [upload |-> NoUpload, settings |-> "a"]]
    /\ script = [s \in Sessions |-> "closed"]
    /\ large = [s \in Sessions |-> NoResult] /\ shown = large
    /\ dir = [s \in Sessions |-> 0] /\ saveTo = dir
    /\ scratch = {} /\ workdirs = {} /\ folder = <<>>
    /\ server = "stopped" /\ runs = 0 /\ saveRaced = FALSE

NoText ==
    /\ source = CHOOSE t \in MCTexts : TRUE
    /\ trace = Passes!NoTrace /\ index = 0 /\ last = 0
    /\ playing = FALSE /\ armed = FALSE /\ view = -1 /\ events = 0

\* Each part alone; MemoryBudget is a function of its request and takes no step.
Alone(tree, writer, thread, command, budget, page, text) ==
    /\ IF tree THEN TRUE ELSE NoTree
    /\ IF writer THEN TRUE ELSE NoWriter
    /\ IF thread THEN NetInit ELSE NoThread
    /\ IF command THEN CommandInit ELSE NoCommand
    /\ IF budget THEN BudgetInit ELSE request = NoRequest
    /\ IF page THEN PageInit ELSE NoTab
    /\ IF text THEN Passes!Init ELSE NoText

OutputsInit ==
    /\ TreeInit /\ AtomicInit
    /\ \/ setup = "tree" /\ Alone(TRUE, FALSE, FALSE, FALSE, FALSE, FALSE, FALSE)
       \/ setup = "atomic" /\ Alone(FALSE, TRUE, FALSE, FALSE, FALSE, FALSE, FALSE)
       \/ setup = "guard" /\ Alone(FALSE, FALSE, TRUE, FALSE, FALSE, FALSE, FALSE)
       \/ setup = "command" /\ Alone(FALSE, FALSE, FALSE, TRUE, FALSE, FALSE, FALSE)
       \/ setup = "budget" /\ Alone(FALSE, FALSE, FALSE, FALSE, TRUE, FALSE, FALSE)
       \/ setup = "page" /\ Alone(FALSE, FALSE, FALSE, FALSE, FALSE, TRUE, FALSE)
       \/ setup = "inspect" /\ Alone(FALSE, FALSE, FALSE, FALSE, FALSE, FALSE, TRUE)

TreeNext == setup = "tree" /\ Next
            /\ UNCHANGED <<setup, atomicVars, netVars, commandVars, request, pageVars, inspectVars>>
AtomicStep == setup = "atomic" /\ AtomicNext
              /\ UNCHANGED <<setup, treeVars, netVars, commandVars, request, pageVars, inspectVars>>
NetStep == setup = "guard" /\ NetNext
           /\ UNCHANGED <<setup, treeVars, atomicVars, commandVars, request, pageVars, inspectVars>>
CommandRuns == setup = "command" /\ CommandNext
               /\ UNCHANGED <<setup, treeVars, atomicVars, netVars, request, pageVars, inspectVars>>
PageRuns == setup = "page" /\ PageNext
            /\ UNCHANGED <<setup, treeVars, atomicVars, netVars, commandVars, request, inspectVars>>
InspectNext == setup = "inspect" /\ Passes!Next
               /\ UNCHANGED <<setup, treeVars, atomicVars, netVars, commandVars, request, pageVars>>

OutputsNext == TreeNext \/ AtomicStep \/ NetStep \/ CommandRuns \/ PageRuns \/ InspectNext

TreeWorker == setup = "tree" /\ Worker
              /\ UNCHANGED <<setup, atomicVars, netVars, commandVars, request, pageVars, inspectVars>>
TreeParent == setup = "tree" /\ Parent
              /\ UNCHANGED <<setup, atomicVars, netVars, commandVars, request, pageVars, inspectVars>>

PageTimer == setup = "inspect" /\ Passes!Tick
             /\ UNCHANGED <<setup, treeVars, atomicVars, netVars, commandVars, request, pageVars>>

\* As in RedactTree: the workers and the parent run.  The browser's timer does.
OutputsSpec ==
    OutputsInit /\ [][OutputsNext]_outputVars
    /\ WF_outputVars(TreeWorker) /\ WF_outputVars(TreeParent) /\ WF_outputVars(PageTimer)

----------------------------------------------------------------------------
\* The inductive invariants of the parts that are proved; and an offline mode
\* reported as applied closes every way to an IP socket, on every platform.
PartsInvariant ==
    /\ TreeInv /\ AtomicInv /\ NetInv /\ PageInv
    /\ setup = "command" => CommandInv
    /\ setup = "budget" /\ request = NoRequest =>
         \A m \in {"none", "seccomp", "netns", "auto"}, p \in Platforms : HardModeContains(m, p)

\* The inspector shows the passes of the text inspected, as the engine ran them.
PassesShown == setup = "inspect" => Passes!PassesShown

\* redact_tree returns or raises; and playback comes to its end.
TreeEnds == (setup = "tree" => Ends) /\ Passes!PlaybackEnds
=============================================================================
