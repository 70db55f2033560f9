# SafeStream Redactor in TLA+

Formal models of `safestream_redactor` (Python 3, `src/safestream_redactor`), a
tool that finds and rewrites sensitive spans in text, streams, files and whole
directories without holding the input in memory. The project states what the
tool promises (a streamed or parallel redaction equals the whole-document one,
overlapping findings resolve to a disjoint set, outputs appear whole or not at
all, a watched file does not keep a secret), models the code that has to keep
those promises, model-checks it with TLC and proves the central results with
TLAPS.

Every definition is translated from the source; `PROJECT.json` ("map") gives
the lines each one stands for. File names below are relative to
`src/src/safestream_redactor` unless they start with `docs/` or `native/`.

## 1. The system

A `Redactor` assembles detectors (regular expressions, checksums, entropy,
optional name tiers) and a policy that renders a finding. Everything else moves
text through them:

    CLI / REST / MCP / web page / watcher
            |                         |
        redact_tree ---- pool ---- redact_file ---- redact_file_parallel
        (scheduler)                   |                  (parallel)
                                      |                      | one per range
                                 stream_windows  <-----------+
                                   (engine)
                                      |  detect(window)
                            detectors -> resolve_overlaps (entities)
                                      |
                              atomic_output (_atomic)

### Components, their state and what makes them correct

| component | state | operations | hard part | correct when |
|---|---|---|---|---|
| engine (`engine.py`) | rolling buffer, prefix, pass threshold | one pass per chunk: accumulate, emit, pin, raise, flush | verdicts near a window edge are unreliable; the boundary must not cut an entity; a span may pin the buffer | the stream yields what the whole-document pass would; buffer bounded; every pass makes progress |
| overlap resolution (`entities.py`) | kept spans, current cluster | best-first selection with a bisection; clustering with NER spans | one comparison per candidate; ties; chains | disjoint; nothing dropped for less; merging neither exposes nor hides text |
| intra-file parallelism (`parallel.py`) | per worker: cursor, held-back segments, seam decisions; caller: parts, temporary output | stream a padded range, decide both seams, flush; compare seams, assemble or fall back | workers share nothing and must conclude the same at a seam | each character once, in order, redacted as the sequential pass does; output replaced whole; parts removed |
| watcher, redact/audit (`watch.py`) | queue, `_own` version, log | take an event, stat, scan, rewrite, remember | another process writes between any two system calls; the daemon sees its own rewrites | nothing left with a secret once quiet; no self-feeding |
| watcher, block | verdict cache by version | answer a read from cache or scan; warm the cache on close | a verdict for one version stored under another | allowed reads were clean; every read answered |
| tree scheduler (`scheduler.py`) | jobs, futures, results, guard | run jobs in a pool or in process | failing files, dying workers, completion order | outputs are redactions of the inputs; nothing written after the call; results in input order; guard scoped |
| redactor facade (`redactor.py`) | configuration | build, detect, redact file/stream | the overlap it accepts is what all of the above rest on | rejects an unsafe overlap; never redacts a file onto itself |
| atomic output (`_atomic.py`) | temporary file, umask | write, chmod, replace | kill between steps; umask is process-wide, interrupts | destination is old or new, whole, with the mode a direct write gives |
| offline guard (`netguard.py`) | saved socket methods, in globals without a lock | install, uninstall, `enforced()` | nesting, threads | there for everyone who relies on it, local connections work |
| hard offline (`netguard_hard.py`) | kernel state | unshare, seccomp filter | jump offsets of the filter | inet sockets denied, all else allowed |
| memory budget (`memory_budget.py`) | none | plan, estimate, parse sizes | rounding, the chunk < overlap case | admitted plan fits; the estimate bounds the engine |
| operators, policy | counters of `Deanonymizer` | render, encrypt, restore a stream | a token across chunks | restoring a stream equals restoring the text |
| REST API, MCP server | connection; initialized flag | one response per request | bytes left on a kept-alive connection; an exception between request and response | every request its own answer, in order |
| CLI (`cli.py`) | process state: guard, kernel mode, memory cap | every command, from arguments to exit status | containment is put up in steps and inherited differently by forked and spawned workers; many files, one exit status | no input read without the containment asked for; the status is true |
| policy files (`config.py`), assembly (`redactor.py`, `policy.py`, `registry.py`) | none | read, validate, lay flags over, build | a default, a file, a profile, a flag and a type list all decide one tier | what is asked for is looked for, or construction fails |
| reports, positions | counters, `LineTracker` | count, locate | tracker must be fed in order | positions are those in the text |
| web page (`ui/`) | page sessions, scratch directories, inspector position | scripts rerun by every widget, large files, playback | a script is stopped at any display call; results outlive settings; timer against buttons | no copy is lost sight of, no result shown for what it is not; the inspector shows the engine's passes |
| pattern detectors (`deterministic`, `contextual`, `labeled_id`, `entropy`, `regional`) | the compiled module, the types it takes over | build, pickle into a worker, scan, adjust | two engines; wheels of other versions; workers without the wheel; hand-copied checksum tables | same findings in every engine; a checksum catches typing errors |
| name detectors (`semantic_ensemble` and models) | names confirmed in this call | score candidates in document order | a verdict depends on names confirmed earlier | a window that holds the declared context decides as the document does |
| native core (`native/`) | none | as the pattern detectors | offset maps, Unicode classes | declines what it could decide differently |

How they interact: by call and return inside a process; by files between the
workers of a pool and their caller; by kernel notifications and the file system
between the watcher and everybody else. There is no shared memory between
workers and no lock anywhere in the package.

## 2. Modules

| module | models | kind |
|---|---|---|
| `Spans` | half-open spans and their relations | helper operators |
| `RangeContract` | what a streamed range promises, no buffer in sight | abstract |
| `StreamWindows` | `engine.stream_windows`, whole loop | detailed; implements `RangeContract` |
| `StreamWindowsProofs` | theorems on it | proofs |
| `ParallelRedact` | `parallel.py`, workers and caller | composes `RangeContract` per worker |
| `ParallelRedactProofs` | theorems on it | proofs |
| `Arbitration` | `entities.resolve_overlaps`, both loops | detailed |
| `ArbitrationProofs` | theorems on it | proofs |
| `WatchedFile` | one path, its inodes, another process, the notification queue | environment |
| `WatchRedact` | the watcher in redact and audit mode | extends `WatchedFile` |
| `WatchBlock` | the watcher in block mode with its verdict cache | extends `WatchedFile` |
| `WatchProofs` | theorems on both daemons | proofs |
| `TreeContract` | what `redact_tree` promises | abstract |
| `RedactTree` | `scheduler.redact_tree` and the file redaction it runs | detailed; implements `TreeContract` |
| `AtomicOutput` | `_atomic.py`, in threads of one process | detailed |
| `OutputProofs` | theorems on `RedactTree`, `AtomicOutput` and `NetGuard` | proofs |
| `RestoreStream` | `operators.Deanonymizer.restore_stream` and the length of a token | detailed |
| `RestoreStreamProofs` | theorems on it | proofs |
| `LineTracker` | `locate.LineTracker` and the loops of its callers | detailed |
| `ByteRanges` | `parallel.py`: split points over bytes, what a worker decodes | function of a file |
| `NetGuard` | `netguard.py` in threads | detailed |
| `HardOffline` | `netguard_hard.py`, the BPF program with the machine that runs it | functions of a platform |
| `MemoryBudget` | `memory_budget.py` beside what the engine holds | functions of a request |
| `CommandRun` | `cli.main`, every command | extends `HardOffline` |
| `HttpConnection` | one connection of `api.py` | detailed, with its client |
| `McpServer` | the loop and tools of `mcp_server.py` | detailed |
| `Servers` | the two servers side by side | composes them |
| `ProcessProofs` | theorems on `HardOffline`, `CommandRun`, `MemoryBudget` and `PageSession` | proofs |
| `TextProofs` | theorems on `LineTracker`, `Servers`, `Assembly` and `PatternScan` | proofs |
| `PageSession` | `ui.app` and the large-file part of `ui.core`, several tabs | detailed |
| `PageViews` | what `ui.core` draws of a text | functions |
| `Inspector` | the chunk inspector and its playback | extends `PageViews` |
| `PatternScan` | the pattern tiers on either engine | detailed |
| `SemanticNames` | the semantic ensemble, on a document and on a window | detailed |
| `ChecksumIds` | checksummed identifiers, card and phone numbers | functions of a candidate |
| `Assembly` | a policy file and flags to a built redactor | detailed |
| `MCDocuments`, `MC...` | instances for TLC | model values |

`MCOutputs`, `MCText` and `MCWatch` hold several parts each: a behaviour
chooses one when it starts and the others rest, so that their states add up and
do not multiply. The parts that are proved about are extended (`MCOutputs`
extends `RedactTree`, `AtomicOutput`, `NetGuard`, `CommandRun`, `MemoryBudget`
and `PageSession`, `MCText` `RestoreStream`, `LineTracker`, `Servers`,
`Assembly` and `PatternScan`, `MCWatch` both daemons), so that a run checks the
very definitions the theorems state; the others are instantiated. What couples
parts is in the modules themselves (`CommandRun` with `HardOffline`,
`MemoryBudget` with the engine's buffer, `Inspector` with the engine's passes,
`ParallelRedact` with `RangeContract`).

A definition with a suffix (`Planned_NoHoldback`, `Joins_LastEnd`, ...) is a
deliberately wrong variant of the definition after it. `PROJECT.json` names,
for every property, a variant that breaks it: this is how we know the property
depends on the code.

### How state and actions correspond to the code

*StreamWindows.* Characters are their positions in the document; `received`,
`emitted` and `context` are the ends of the source text, of the yielded text
and the start of the rescanned prefix, so that `buffered = received - emitted`
and the prefix is `context .. emitted - 1`. One action per outcome of a turn of
the loop: `Accumulate` (below the threshold), `Emit`, `Pin` (a detection covers
the whole planned segment; threshold raised), `FailOverlong` (`strict_spans`),
and `Flush` after the source ends. The detectors are an environment: any span
of at most `MaxSpan` characters may be reported or missed where the window does
not hold the span with its declared context, and the verdict is the
whole-document one where it does. That is assumptions A1 and A2 of
`docs/FORMAL_MODEL.md` and nothing more. `Retreated` states where
`_retreat_boundary`'s loop stops instead of iterating it.

*ParallelRedact.* A worker streams its range with the pads through
`RangeContract`, i.e. through anything the engine theorem allows, with its own
segment boundaries; `AfterSegment` and `AfterStream` are `_redact_range`'s loop
body and tail. `safe` says whether this call's overlap is within the guarantee:
without it a worker may report anything disjoint. Output is counted per
character, so loss and duplication are visible. `Collect` is `pool.map` plus
leaving the pool, then the seam valve.

*Arbitration.* The two loops, one candidate per step; the bisection appears as
"the last kept span that starts before the candidate ends". Ties that the sort
key leaves open are open in the model.

*WatchedFile and Watch\*.* Each system call of the daemon is a step of its own
and another process opens, writes, closes and deletes the file in between, saves
it through a temporary name in the same directory (`SaveTemp`, then
`RenameTemp`), or moves a file to the path from elsewhere (`MoveIn`). There are
therefore two names, `at` and `temp`, and `own` is kept for each. A version is an
inode and a stamp that every write advances (size, mtime and ctime in
nanoseconds; a write that changes none of them is not modelled). Reading a file
is one step. `option.byPath` is the source of notifications. inotify names the
file, asks for closes and for renames to it (`watch.py` 292), and gives no
process. fanotify gives a descriptor and a process, and asks for closes only
(`watch.py` 234): the descriptor's name is read when the event is taken
(`Take`), the path is looked up a step later (`Stat`), and a rename brings
nothing. `silent` holds the inodes that came to the path that way with no close
of theirs left in the queue.

*RedactTree.* A text is the path it came from and how often it was redacted.
Reading an input is one step, replacing an output another; workers fail, and
worker processes die taking the pool with them. The guard the call installs
around its work is part of the contract.

*AtomicOutput.* Every system call of a writer is a step (`Create`, `Close`,
`StatOld`/`StatNew`, `ReadUmask`, `RestoreUmask`, `Chmod`, `Replace`), so that
threads, an interrupt in the main thread and a kill come between any two. The
other modules take the replace as one step of their writers, which is what
`OldOrWhole` justifies.

*RestoreStream.* The carry is `emitted .. received - 1`; `Chunk(n)` is one turn
of the loop, `Finish` what follows it. What the token pattern matches and what
authenticates are choices of the initial state, bound only by the pattern's
shape and by the longest token `encrypt_token` can write (`TokensFit`).

*LineTracker.* The tracker's three fields, and for each caller the order in
which it asks: the start of every finding (the plain report and the page's
scan), start and end (SARIF), or the segment's first line, the findings and its
last line (the page's chunk inspector). `FindFrom` keeps what Python does with
the negative index of a lookup behind the segment.

*ByteRanges.* A byte is named for what a UTF-8 decoder can tell of it; faults
are U+FFFD of one or more bytes as CPython's decoder replaces them. `Plan` cuts
the file; the property decodes each range, and what a worker reads around it,
and compares with the file decoded whole.

*NetGuard.* One action per statement of `install`, `uninstall` and
`enforced()`; the globals are the model's variables, and the four patched
methods are one. `connect` is what a socket would call: the original, the guard,
or nothing where two calls raced (`raced`). Threads use the guard in each of the
ways the package does.

*HardOffline.* `InetBlockFilter` is the instruction list as the code builds it,
and `Verdict` runs it on a system call; `ApplyOfflineHard` is the command's
choice among modes for what the platform grants.

*MemoryBudget.* `Plan` with its refusals and hint, `AddressSpaceLimit`, and
`Held`, the characters the engine holds at each chunk, by the engine's own
arithmetic.

*CommandRun.* `Guard`, `Harden`, build, admit, work, report, status in the order
of `main`; `StartWorker` is fork or spawn, and what a worker has of guard,
kernel mode and cap is what that start method passes on or `InitializeWorker`
sets up again. Inputs are files with what reading does; detections are one bit.

*HttpConnection.* The socket carries units, and a body unit may read like a
head: `ReadHead` parses whatever is next. `Reject`, `Refuse`, `Accept`, `Handle`
are the handler's early returns and its body; the client may pipeline, send a
short body, or hang up. A request's `units` are the body it has by HTTP, sent in
full unless the client hangs up.

*McpServer.* One line per `Serve`; what `json.loads`, the dispatch, the redactor
and the encoder of the answer make of it is the line's kind.

*PageSession, PageViews, Inspector.* A script is a sequence of steps between
display calls, where it can be stopped by the next rerun or a closed tab. The
scratch directories, the cached result and the one shown are separate state.
`Inspector` runs `stream_windows` with `min_emit = chunk_size`, as
`detect_stream` calls it, rebuilds the passes as `trace_chunks` does from
`on_window`, and plays them with the timer, the buttons and the slider. The page
is always strict and offers chunks of one or two overlaps (`Texts`), so it never
shows a pinned pass; a detection longer than the overlap ends the run of the
script with an error and leaves the playback where it was (`FailedRun`). Pinned
passes are for other callers of `trace_chunks`, with `allow_unsafe_overlap`
(`Traced`, as `tests/test_ui_core.py` 403 does).

*PatternScan.* A text is one candidate span, the words near it and what a
prefilter finds around it. Of the span itself it finds what `Anchors` says:
patterns with a label ignore case and the prefilter looks for the label in
`text.lower()`, which agree on ASCII letters and not on the long s, U+017F, an
"s" to the pattern that `lower()` leaves as it is. `spelling` is how the label of
the span is written. `Construct`, `Ship` (pickling into a worker with the same wheel or
none) and `Scan`. The core is external: it reports what the Python patterns of
the same source report, declines ambiguous characters and lone surrogates, and
leaves an entropy near the threshold undecided. The property compares the
findings with those of the Python engine with no prefilter, and allows for one
difference (`OnlyLongS`, section 5).

*SemanticNames.* `Detect(lo, hi)` is `detect()` on the words from `lo` to `hi`,
candidate after candidate with the queue of confirmed names; one step runs it on
a document and on a window of it.

*ChecksumIds.* The check algorithms and their tables digit by digit; a candidate
carries the groups it is written in and the cue words near it.

*Assembly.* `Read`, `BuildPolicy`, `BuildRedactor`, each of which may refuse. A
setting is the set of words given for it, so that "unset" differs from "false".

## 3. Runs

| run | bounds | shows |
|---|---|---|
| `StreamSafe` | text of 10, range 2..9, overlap 3, chunks up to 3 (also empty), every document of spans up to 2 | the range never cuts an entity, reports exactly the reference, buffer bounded, each pass emits, implements `RangeContract` |
| `StreamOutside` | text of 7, overlap 2, spans up to 4, `strict_spans` on and off | outside the guarantee: buffers are pinned and released, detections reported once and disjoint, over-long ones never with `strict_spans`, still ends |
| `Parallel` | ranges of 1, 1 and 5 characters, overlap 2, so that a pad passes the neighbour and one worker flushes while it reads; calls within the guarantee and outside it | text complete and in order, whatever the workers report; within the guarantee neighbours agree and the result is the sequential one; clean-up and replacement under failure and kill; the inductive invariant of the theorems; the call ends |
| `Arbitration` | every set of up to four detections in both tiers | the properties of the resolver, and that its loops compute one function |
| `Watch` | 3 opens, writes, saves and moves in (2 where output is detected again: `EchoWrites`), any renames of what was saved, deletes; redact on inotify, also with output that is detected again, redact on fanotify, audit; block with oversize files; 10 inodes, the most any behaviour makes | a secret left behind is only ever a version taken for our own, one reported in audit, or on fanotify one that came by a rename it tells nothing of; the daemon comes to rest; verdict scans hold, quiet cache true, every read answered; both inductive invariants |
| `Outputs` | three files, one file, a tree onto itself, 1 to 3 workers; two threads writing to one or two paths; three threads using the guard; every command over six lists of inputs (none, one file, trees) and three kernels; limits 20 to 90, chunks and overlaps up to 6 and 4; two tabs, four runs of the script; texts of 3 and 11 characters with a playback of three events | the tree implements `TreeContract` and ends; a destination is old or whole; one creator leaves modes and umask as a direct write; the guard is there for its users; nothing reads an input uncontained and the seccomp program closes IP sockets on every platform; the exit status is true; an admitted plan fits and the estimate is within a factor of two of what is held; scratch directories and results of the page; the inspector's passes; the inductive invariants of tree, writers, guard, command and page (`PartsInvariant`) |
| `Text` | files of up to 8 bytes of every kind and of 32 to 40 of one stretch repeated, cut in 2 or 3; text of 6, tokens up to 4, chunks of 0 to 6, every choice of what matches and authenticates; text of 5 with every set of line breaks and findings; up to three HTTP requests of ten kinds; three MCP lines of any kind; each pattern in each shape under seven wheels and three kinds of worker; every document of 7 words of four kinds and of 4 words of eleven; configurations of eight files, thirteen sets of flags, every type, four plugin sets, three entry points; numbers with one odd digit at each place and every check digit | a restored stream is the restored text, the carry stays within one token, positions are those of the whole text, every request has its answer in order, ranges of bytes decode to the characters of the file, engines and windows agree, requests are covered, typing errors are caught |
| `StreamTheorem1`, `ArbitrationA2`, `WatchEventually`, `WatchBlockStale`, `AtomicUmask` | | divergences, section 5 |

Why the bounds are enough. In the stream a text longer than twice the threshold
plus a chunk sees a first, a middle and a last pass, a full and a short prefix,
and every relative position of a span and a boundary; a range inside the
document (2..9 of 10) sees both artificial ends. In the parallel run two ranges
shorter than a pad are the case the code's byte floor cannot exclude in
multi-byte text, the third is long enough for a worker to hold back and flush,
and the two seams are compared in every order of the three workers. The same
invariant was checked once with a right context, with overlap 3 and 0, and with
an empty range. Three or four
detections give nesting, partial overlap, touching and ties. Three writes or
saves, each with its closes, renames and deletes, are enough for one that starts
the daemon and one between any two of its steps, with one more to follow.
Two requests around an early return show whether it left bytes behind. A wheel
is missing, lacks a function or a table, covers all, part or half of a type, or
knows another pattern: the outcomes `_native_matches_spec` can tell apart. Seven
words are more than the declared context of a name in the instance (1 + 2 + 2)
before the word that decides. A checksum is linear in its digits or a table
look-up by position, so that one odd digit at each place reaches each weight and
each row. Byte stretches longer than `4 n + 4` reach past what a worker reads.

`SemanticNames` was also compared with the program on 29,282 documents,
`ByteRanges`' decoder with CPython's on 137,256 byte strings, and `Assembly`'s
tiers with the constructor on 11,664 configurations, with equal results.

Deadlock checking is off throughout: each of these systems ends (a generator
exhausted, a call returned) or waits for events that the bounds stop.

## 4. Fairness

*StreamWindows.* Weak fairness of "a chunk of at least one character" and of
`Flush`: the consumer drives the generator to its end and the source is finite.
Empty chunks may come at any time and count for nothing.
*ParallelRedact, RedactTree.* Weak fairness of the workers together and of the
caller: the operating system schedules processes. No fairness of failures,
deaths or kills. *WatchRedact, WatchBlock.* Weak fairness of the daemon's
thread, and in WatchRedact of the other process's `Close`: a file held open for
writing for ever sends no event. Nothing is assumed of how the steps of writer
and daemon interleave. *Inspector.* Weak fairness of `Tick`: while the fragment
is shown the browser asks for it at its interval. Nothing is assumed of the
user. The servers, the command and the page state safety only: a client may
hang up and a user may leave.

## 5. What the code does not keep

Each is a run with an expected counterexample.

- `StreamTheorem1`: `docs/FORMAL_MODEL.md` (219) gives `w >= max(L_max, C_left,
  C_right)` as the premise of Theorem 1. With a span that starts just before
  the planned boundary its end and right context lie beyond the window: the
  entity is cut and goes out undetected. The code requires the right premise,
  `max(L_max + C_right, C_left)` (`SafeOverlap`), under which the theorem is
  proved here.
- `ArbitrationA2`: assumption A2 (76) does not hold of best-first selection:
  whether a Tier-0 span survives may depend on a chain of overlaps longer than
  any context.
- `WatchEventually`: a file written, or renamed over, between the daemon's
  replace and the stat after it is remembered as the daemon's own version and
  stays unredacted.
- `AtomicUmask`: two threads that create new outputs toggle the process's umask;
  one can publish a world-writable file and leave the process without a umask.
- `WatchBlockStale`: a version written during the scan after a close is cached
  with the verdict of the text before it, and a later read is allowed.

Observed while modelling, without a run of their own:

- `ARCHITECTURE.md` (33) says no entity is left partly visible, yet the loser of
  two partly overlapping Tier-0 detections is dropped and its remainder stays in
  the clear (`entities.py` 186).
- A file deleted between scan and rewrite raises out of `DlpWatcher.run`
  (`watch.py` 445, the model's `Dead`). So does a save through a temporary file
  whose rename falls there, when the daemon handles the temporary file's close:
  it scans the file and then rewrites a name that has gone.
- On fanotify the mask is `FAN_CLOSE_WRITE | FAN_EVENT_ON_CHILD` (`watch.py`
  234). A file moved into the directory is never scanned, as
  `docs/FANOTIFY.md` (74) implies by giving moved-in files to inotify. But
  neither is a temporary file, as an editor saves, that is renamed to the path
  after its close has been taken and before its name is looked up: its secret
  stays until the next write (`silent`, of which `NothingMissed` claims
  nothing).
- `deterministic.py` says output is identical with the prefilter disabled (1066)
  and that the native engine's is byte-identical to Python's (1072). `ſecret =
  ...`, with the long s, is an API key to the pattern, which ignores case, and to
  the native core; the prefilter looks for "secret" in `text.lower()`, where the
  letter is still there (1178), and skips the pattern. Any other label of the
  pattern in the same window brings it back, so that a stream and a whole-document
  pass may differ too (`OnlyLongS`, which `EnginesAgree` excludes).
- The buffer bound of Theorem 3 (`docs/FORMAL_MODEL.md` 316) is smaller than what
  the engine buffers (`BoundedBuffer` is the bound that holds).
- With an output tree inside the input tree a second run's inputs are a first
  run's outputs (`scheduler.py` 126).
- A `KeyboardInterrupt` that arrives after `os.replace` leaves the new file in
  place and still raises, one between `mkstemp` and the `try` leaves the
  temporary file (`_atomic.py` 43 says otherwise): the model's `interrupted`,
  which the second half of `OldOrWhole` therefore leaves out.
- Outside the overlap guarantee `docs/FORMAL_MODEL.md` (265) still promises
  equality with the sequential pass, but the seam valve only sees spans across
  seams; elsewhere the passes of a worker fall differently.
- `memory_budget.py` 352 estimates `4 (chunk + overlap)` bytes of text per
  worker; a first pass holds `2 chunk` characters before it emits, so for small
  overlaps the engine holds up to twice the estimate (`BudgetHolds` states the
  bound that holds). `_largest_fitting_chunk` can suggest a chunk below the
  overlap that does not fit. Workers of a tree run each inherit the cap of the
  whole budget.
- `serve` and `deanonymize` run without the offline guard (`CommandRun`).
- `mcp_server.py` 312 says malformed lines never end the loop. A line on which
  `json.loads` raises something other than `JSONDecodeError`, undecodable bytes
  on standard input, or a lone surrogate in the text of an answer does
  (`Kills`). `explain_detection` says (258) that none of its notes is the secret
  text, yet a gazetteer finding's `meta` is its normalized value and a labelled
  one's is up to 32 characters of its cue.
- The inspector: a text the engine refuses (a detection longer than the overlap)
  leaves `inspect_playing` set, and going back to the text before it plays on.
- The page: "never overwrites" of `save_destination` is a check before a move,
  and two tabs can race; a kill leaves scratch directories; a refused small
  upload does not forget the large result before it (`app.py` 606); the
  inspector's replay "from the start" does not begin with the first pass.
- A list of types is not a filter on what is reported: naming `phone` keeps the
  tiers that also report account numbers and dates of birth. And a list of
  `secret` or `email` alone leaves out the structured fields, which report both
  (`Unlisted`): `{"password": "hunter2"}` is found with no list and not with
  `types=["secret"]`.
- `semantic_ensemble.py` 34 promises equality between windows and the document.
  A run of more than four capitalised words is cut from where it is met, so a
  window that begins inside one can cut it elsewhere (`CutsNoLongRun` excludes
  it).
- `onnx_ner.py` and `gazetteer_ner.py` declare spans (256, 64) that their
  candidates can exceed.
- A wheel found between construction and unpickling would run without the cue
  codes learned at construction (`Built`'s `codes`); the model has no such
  worker, since the wheel of a pool's workers is that of the installation.
- The company number's even weights miss a digit off by five, and Medicare's
  issue digit is in no check: `ErrorsCaught` leaves these two out.
- The timeout of the REST server is per read, not per request (`api.py` 44).

## 6. What is proved

`StreamWindowsProofs`, for every text length, range, overlap, chunking, span
length and context, from `StreamAssumption` (the constants are naturals, the
range lies in the text, references are disjoint sets of short spans):

- `TypeCorrect`: type correctness, with no premise on the overlap.
- `StreamInvariant`: at `SafeOverlap`, `StreamInv` is invariant. It strengthens
  the checked properties by `WindowReach`: the prefix reaches back a full
  overlap or to the start of the text, and the threshold is always the unpinned
  one. Without the first conjunct a window could lack the left context of a
  span; without the second a pass could start below it. The argument of a pass:
  spans that end before the planned boundary, and those that straddle it, are
  reliable in the window (`WindowVerdict`), so the retreat ends where no
  reference entity is cut and costs less than one span (`RetreatIsShort`), so
  the pass emits (`NeverPinned`) and what it yields is the reference.
- the corollaries for `StreamingEquivalence`, `BoundedBuffer` and
  `EveryPassEmits`, and `StreamImplementsContract`: every step of the engine is
  a step of `RangeContract` or leaves it unchanged.
- `DetectionsStayDisjoint` and `StrictStreamFailsClosed`, outside the guarantee:
  whatever detectors report and whatever the overlap, no two detections of a
  stream share a character, and with `strict_spans` none is longer than the
  overlap. Type correctness is enough: all that is yielded lies before
  `emitted` and a pass reports from there on.

`ParallelRedactProofs`, for every file, number and size of ranges (down to empty
ones), overlap, segmentation of each worker's stream and interleaving, from
`ParallelAssumption` (seams ascend from the start of the text to its end;
references are disjoint sets of spans of at most `MaxSpan`; where a call is
`safe`, the overlap is at least `MaxSpan + RightContext`):

- `CallInvariant`: `CallInv` has a part per worker and one for the caller. A
  worker's text (`TextSoFar`): what it has written and what it holds back are
  adjacent and end at its cursor, so each character of its range is in exactly
  one of them; this holds whatever the detectors report. Within the guarantee
  (`ShownSoFar`) the segments it holds back and the detections it remembers are
  the reference where what it reads settles them. That is needed further back
  than the seam window: a worker that forgot a detection before its seam
  decision could miss the straddler. `ShownDone` is what is left of it at the
  end: both its reports name the reference straddler of their seam, and two
  workers that share no state agree because each is right
  (`SeamValveStaysShut`). The caller's part says which prefix of the parts the
  draft holds; parts meet because both sides derive the cut from the same report
  (`PartsMeet`).
- the corollaries `ParallelKeepsText`, `ParallelAgreesWithSequential` and the
  action property `OutputReplacedWhole`. `CallInv` also holds `CleanedUp` and
  `HoldbackBounded`.

`ArbitrationProofs`, for every finite set of non-empty detections:

- `ArbitrationInvariant`: the inductive invariant of both loops. The
  selection loop needs that every candidate still waiting is no better than any
  kept one and that what was dropped is blocked by a kept span; disjointness of
  the kept set is what makes the bisection's single comparison sufficient. The
  clustering loop needs that waiting spans start no earlier than the cluster,
  that closed runs end before them, and that closed runs and cluster cover
  exactly what has been taken.
- the corollaries `KeptDisjoint`, `DroppedForBetter`, `ResultDisjoint`,
  `NothingExposed`, and type correctness.
- `LoopsComputeTheFunction`: whatever the order of ties and equal starts, the
  result is `ResolvedSpans`, a function of the set of detections. The selection
  rule allows one set only (of two that differ, take the best detection in one
  and not the other: what blocks it in the other is better and in both), so
  the first loop keeps `Chosen`; the second leaves behind runs
  (`RunsInvariant`): no span crosses a run's ends, some span crosses every
  position inside, which makes a run the connected component that the function
  takes.

`WatchProofs`, for any configurations, any number of writes, renames, deletes and
inodes, from `WatchedFileAssumption`, `WatchRedactAssumption` and
`WatchBlockAssumption` (types of the constants only):

- `WatchInvariant`, redact and audit mode: besides types, a secret at the path
  that has been neither taken for the daemon's own rewrite nor reported is
  `Pending`: a writer has yet to close it, a notification that leads to it
  (`Leads`) waits or is in hand, or the path is being rewritten (which may end
  the daemon, `Dead`). On inotify what leads to the path is any event of its
  name, and everything that comes to the path brings one. On fanotify it is the
  close of the very inode, and an inode that comes to the path with none waiting
  is `silent`, of which nothing is claimed: the proof is that there is no third
  way. `NothingMissed` is the case where nothing pends; a version is taken for
  the daemon's own only in `Remember`, which is the divergence
  `WatchEventually`.
- `BlockInvariant`, block mode: `VerdictsInv` carries, from the moment a read is
  issued, whether its content has been clean since, through queue, scan and
  cache; `WarmInv` says that a wrong entry for the path is about to be
  corrected by a close still ahead or a scan under way. Blocking needs fanotify,
  so a rename to the path brings no event that could correct one: that is why the
  invariant also says that of the file at the temporary name, which is neither
  open nor at the path (`Apart`), nothing wrong is held. The corollaries are
  `VerdictsFromScansHold` and `QuietCacheIsTrue`.

`OutputProofs`, for any number of threads, writers, files and workers:

- `NetInvariant` and `GuardIsKept`: until two calls race, one thread at most is
  building the guard or taking it away while no other is in a call, or the
  guard is there for good. The premise is needed: `enforced()` in two
  threads breaks it, which is why the property excludes `raced`.
- `AtomicInvariant`: `OutputOldOrWhole` needs that a temporary file that is
  about to be renamed is there and whole, and belongs to one writer
  (`TempsInv`). `LoneCreatorAsDirect` needs `ModesInv`: while the process's
  umask is zero the only writer that set it holds the value to put back, so no
  file takes its mode from the zero umask. From `AtomicAssumption`: the main
  thread is one of the writers.
- `TreeInvariant` and `TreeImplementsContract`: `FilesOf` says for each job what
  its input and output hold at each of its states, and `CallInOrder` which jobs
  can still run when the call fails or ends. Under the refinement mapping
  (`caller` with "failing" still running) a worker that finishes or dies in the
  middle of a write is the contract's `WriteOutputs`, the end of the call its
  `Return` or `Raise`, and everything else stutters. From
  `RedactTreeAssumption`: inputs and outputs of different jobs are different
  paths (an output tree inside the input tree is section 5).

`RestoreStreamProofs`, for every text, choice of tokens and key, chunking and
longest token:

- `RestoreInvariant`: besides the checked properties, tokens keep the pattern's
  shape and none short enough to be carried straddles `emitted` (`NoTokenCut`).
  A token that straddled a new `emitted` would have its opening either in
  the carry, where the last "<" is the only candidate and is kept while it can
  still close, or before it, where a ">" or a "<" in between rules it out.
- the corollaries `StreamingRestoresAsWhole`, `CarryStaysBounded` and type
  correctness; `TokensFit`, the arithmetic of base64
  groups against `_MAX_TOKEN`.

`TextProofs`, for every text and every input:

- `LineInvariant` and `PositionsAreTrue`, for every set of line breaks, every
  disjoint findings and every segmentation that cuts none: the tracker never
  looks back. What the caller has still to ask for is not behind it
  (`AheadOfTracker`, a clause for each point of each caller's loop), and its
  line is one more than the breaks before it. Without the first part the
  negative index of `FindFrom` would count breaks twice.
- `HttpInvariant`: from any head on, the wire holds what the client wrote, in
  order (`HeadsFollowed`), and the thread stands between two requests or behind
  the head of the next (`InStep`). Every early return either closes the
  connection or has nothing left to skip, and that is what each case of the
  proof comes down to. From `HttpAssumption`: a request that frames no body
  has none (what follows it is the next request), and an empty body is not a
  JSON text.
- `McpInvariant`: a line that ends the loop is the last one read.
- `AnswersKeepOrder`: on both servers every request has its own answer, in
  order.

- `ListingLosesNothing`, for every policy file, set of flags, environment and
  plugins: what is built has the tiers `Active` gives for its settings
  (`AssemblyInv`), and each tier's own list of types, kept by hand in the code,
  is compared with what the tier reports. Exact except for `Unlisted`
  (section 5).
- `EnginesReportTheSame`, for every wheel, list of types, worker and window.
  `TierSound` is what stays true of a tier while it is pickled from process to
  process: the two engines share the patterns asked for between them, and the
  cue codes are there wherever the core runs. `SpecMatches` only counts a
  wheel's patterns by type; `CoveredInFull` shows that this is enough, because
  they are all ours. A match that the prefilter skips has a label with a long s
  (`ScanTypes`, from what `Anchors` finds of it); then, and only where no other
  label is in the window, what is reported is what Python reports with or without
  the prefilter, as the core runs or not. `ScanAssumption` has only the types of
  what is scanned.

`ProcessProofs`, on what one process does before and while it redacts:

- `HardModesContain`, for every mode and platform: the instructions of
  `InetBlockFilter` are run one by one over every call (`FilterVerdict`), which
  settles the jump offsets.
- `CommandReadsContained` and `CommandStatusTruthful`, for any list of inputs
  and any kernels, from `CommandAssumption` (inputs are finite sequences of
  files, kernels are platforms). `CommandInv` is the inductive invariant:
  `StepsInv` ties each step of `main` to the commands that reach it and to who
  may have an input open; `ContainInv` says what contains each process at each
  step, a worker's part by way of its start method; `ProgressInv` counts: until
  an input is reached it is not read, those behind `next` were readable, `hits`
  is zero exactly if none of them had a detection, and the outputs replaced are
  theirs. Without `ProgressInv` a status of 0 would say nothing of the inputs
  before the last one.
- `PageScratchKept`, for any number of tabs, uploads and reruns, from
  `PageAssumption` (uploads are numbered from one). `PageInv` adds to the
  property whose a scratch directory is: `OwnedInv` (no two scripts or results
  have one in common, and the cleanup knows them all while the server is up),
  `HoldsInv` (what is in it at each step of its script) and `ResultInv` (what a
  tab remembers, shows and is about to save). Ownership is the point: a step of
  one tab then cannot touch another tab's directory (`OthersKeep`), and each
  action is proved for its own tab only.
- `BudgetAlwaysHolds`, for all sizes, overlaps, worker counts and limits in
  force, from `BudgetAssumption` (sizes are naturals, chunk and limit positive,
  a soft limit is at most its hard one, and no sum exceeds `RLIM_INFINITY`). The
  plan's and the hint's rounding come down to one fact about division
  (`Division`); twice the estimate covers the engine because a pass starts with
  at most one chunk more than the threshold, or than what the pass before left
  (`EstimateCovers`).

The inductive invariants were checked by TLC before they were proved:
`CallInv`, `WatchInv`, `BlockInv`, `TreeInv`, `AtomicInv`, `NetInv`,
`CommandInv` and `PageInv` as properties of the runs (`InvariantHolds` and
`PartsInvariant` are conjunctions of them by part), the others on the same
instances.

Only model-checked:

- liveness (`Terminates`, `Finishes`, `DaemonMovesOn`, `TreeEnds`): the prover
  has no rule for fairness or ENABLED;
- what is defined by recursion or a fold over data: the rest of `SameFindings`
  (names on a document and on a window, the decoding of byte ranges),
  `ErrorsCaught` (check digits) and `PassesShown` (the passes of a text and the
  drawings of a page): tlapm cannot instantiate the induction theorems.

## 7. Not modelled, and what comes next

Out of reach: the languages of the regular expressions and of the native core's
matchers, the statistical models (spaCy, ONNX), cryptography, page layout. What
these have of control is in `PatternScan` and `Assembly`. Left out by choice:

- structured fields, placeholder lists, the gazetteer and the shape-only
  regional identifiers: one pattern or table each, no state and no order;
- counters, tables and output formats of reports, calibration;
- `memstream/`: a record type and its codec with no user in this commit;
- benchmarks, tests, scripts and packaging;
- in the watchers directory rescans, queue overflow and the "blocked" log; in
  `RedactTree` output paths are distinct from other inputs; in `NetGuard` the
  four patched methods are one.

A scan of a file is one step, so reads torn by a writer are not seen; a queue
overflow loses notifications and nothing rescans; a file rewritten while a
parallel run reads it gives seam texts of different versions. Nothing in the
code promises anything about the three.

Every safety invariant that a run checks is proved, but for those defined by
recursion over data. What is left to the checker is listed in section 6; of it, the
window argument of `SemanticNames` would be worth the most, and needs an
induction over the candidates of a document.
