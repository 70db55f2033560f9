---------------------------- MODULE MemoryBudget ----------------------------
(***************************************************************************)
(* memory_budget: admission of a run under --memory-limit, the cap the    *)
(* kernel is asked for, and what the engine really holds while it streams. *)
(* Sizes are numbers; the fixed costs are constants so that an instance    *)
(* can be small.  A run plans once, so its request is all the state.       *)
(***************************************************************************)
EXTENDS Spans

CONSTANTS
    PER_WORKER_FIXED, NATIVE_PER_WORKER,    \* bytes a worker costs whatever it reads
    ModelBudget,                            \* set aside for a model
    Unlimited,                              \* RLIM_INFINITY: above every size
    Asked,                                  \* the requests considered
    Rlimits                                 \* what RLIMIT_AS may be: [size, soft, hard]

VARIABLE request                            \* what this run asks for

STREAM_CHAR_FACTOR == 4
ReservePercent == 15

\* A request: --memory-limit, the redactor's chunk_size and overlap, whether a
\* model tier and the native core are used, --workers (0 for none), the CPUs.
Requests(limits, chunks, overlaps, workers, cpus) ==
    [limit : limits, chunk : chunks, overlap : overlaps, model : BOOLEAN, native : BOOLEAN,
     workers : workers, cpus : cpus]

BudgetInit == request \in Asked

\* parse_size: a whole number of tenths and a unit, or no size.
Units == [b |-> 1, kb |-> 1000, kib |-> 1024, k |-> 1024, mb |-> 1000000, m |-> 1048576]
ParseSize(tenths, unit) ==
    IF unit \in DOMAIN Units /\ (tenths * Units[unit]) \div 10 > 0
    THEN (tenths * Units[unit]) \div 10 ELSE -1

PerWorkerFixed(r) == PER_WORKER_FIXED + (IF r.native THEN NATIVE_PER_WORKER ELSE 0)
ModelBytes(r) == IF r.model THEN ModelBudget ELSE 0
ReserveBytes(r) == (r.limit * ReservePercent) \div 100
Allocatable(r) == r.limit - ModelBytes(r) - ReserveBytes(r)

EffectiveChunk(chunk, overlap) == IF chunk >= overlap THEN chunk ELSE chunk + overlap

\* Mutant: one buffer and its redacted copy.
EstimatedChars_OneCopy(chunk, overlap) == 2 * (EffectiveChunk(chunk, overlap) + overlap)

EstimatedChars(chunk, overlap) ==
    STREAM_CHAR_FACTOR * (EffectiveChunk(chunk, overlap) + overlap)
PerWorkerEstimate(r) == EstimatedChars(r.chunk, r.overlap) + PerWorkerFixed(r)

\* No size overflows into RLIM_INFINITY; a soft limit is below its hard one.
ASSUME BudgetAssumption ==
    /\ {PER_WORKER_FIXED, NATIVE_PER_WORKER, ModelBudget, Unlimited} \subseteq Nat
    /\ Asked \subseteq Requests(Nat \ {0}, Nat \ {0}, Nat, Nat, Nat)
    /\ Rlimits \subseteq [size : Nat, soft : 0 .. Unlimited, hard : 0 .. Unlimited]
    /\ \A l \in Rlimits : l.soft <= l.hard
    /\ \A l \in Rlimits, r \in Asked : /\ l.size + r.limit <= Unlimited
                                     /\ l.size + PerWorkerEstimate(r) <= Unlimited

Refused == [admitted |-> FALSE, workers |-> 0, perWorker |-> 0, headroom |-> 0]

\* MemoryBudget.plan
Plan(r) ==
    LET per == PerWorkerEstimate(r)
        affordable == Larger(1, Allocatable(r) \div per)
        asked == IF r.workers = 0 THEN affordable ELSE Smaller(affordable, r.workers)
        workers == Smaller(asked, Larger(1, r.cpus))
    IN  IF ModelBytes(r) >= r.limit \/ per > Allocatable(r) THEN Refused
        ELSE [admitted |-> TRUE, workers |-> workers, perWorker |-> per,
              headroom |-> r.limit - (workers * per + ModelBytes(r) + ReserveBytes(r))]

\* _largest_fitting_chunk, the hint of the refusal.
LargestFittingChunk(r) ==
    Larger(0, (Allocatable(r) - PerWorkerFixed(r)) \div STREAM_CHAR_FACTOR - r.overlap)

\* enforce_address_space_limit: the new (soft, hard) limits of a process of
\* size current that may grow by growth.
AddressSpaceLimit(current, growth, soft, hard) ==
    LET cap == current + Larger(1, growth)
        newHard == IF hard = Unlimited THEN cap ELSE Smaller(cap, hard)
    IN  [hard |-> newHard,
         soft |-> IF soft = Unlimited THEN newHard ELSE Smaller(Smaller(cap, newHard), soft)]

----------------------------------------------------------------------------
(* What stream_windows holds, in characters.                               *)

\* The buffer a detection pass starts with: what the pass before left over and
\* as many chunks as it takes to reach need.
BufferAfter(chunk, overlap, left) ==
    LET need == overlap + Larger(Larger(overlap, chunk), 1)
        chunks == (need - left + chunk - 1) \div chunk
    IN  left + chunk * Larger(chunks, 1)

\* Held while the segment is handed out: the pieces and the buffer they were
\* joined to, the prefix, the segment and its redacted form.
Held(chunk, overlap, left, prefix) ==
    LET buffer == BufferAfter(chunk, overlap, left)
        pieces == IF left = 0 /\ buffer = chunk THEN 0 ELSE buffer
    IN  pieces + buffer + prefix + 2 * (buffer - overlap)

\* The first pass has nothing before it; a later one the overlap, and up to
\* twice that when a detection made the boundary retreat.
HeldByPasses(chunk, overlap) ==
    {Held(chunk, overlap, 0, 0)}
    \cup {Held(chunk, overlap, left, overlap) : left \in overlap .. Larger(overlap, 2 * overlap - 1)}

----------------------------------------------------------------------------
\* An admitted run keeps within the limit what it promises to hold, with at
\* least one worker and no more than asked for or than there are processors; a
\* refused one could not have had even one worker; and twice the estimate
\* covers what the engine really holds.  (The estimate itself does not.)
PlanHolds(r) ==
    LET plan == Plan(r) IN
    /\ plan.admitted =>
         /\ plan.workers \in 1 .. Larger(1, r.cpus)
         /\ r.workers # 0 => plan.workers <= r.workers
         /\ plan.headroom >= 0
         /\ \A held \in HeldByPasses(r.chunk, r.overlap) :
              held <= 2 * (plan.perWorker - PerWorkerFixed(r))
    /\ ~plan.admitted =>
         \/ ModelBytes(r) >= r.limit
         \/ PerWorkerEstimate(r) + ModelBytes(r) + ReserveBytes(r) > r.limit

\* The chunk size a refusal suggests is the largest that is admitted with the
\* same overlap, wherever it is not below the overlap.
HintFits(r) ==
    LET hint == LargestFittingChunk(r)
        with(chunk) == Plan([r EXCEPT !.chunk = chunk, !.workers = 1])
    IN  hint >= r.overlap /\ hint > 0 => with(hint).admitted /\ ~with(hint + 1).admitted

\* The cap only tightens the limits in force, and leaves the growth asked for
\* wherever they did.
CapOnlyTightens(current, growth, soft, hard) ==
    LET new == AddressSpaceLimit(current, growth, soft, hard) IN
    /\ new.soft <= new.hard /\ new.soft <= soft /\ new.hard <= hard
    /\ new.soft <= current + growth
    /\ current + growth <= soft => new.soft = current + growth

\* All of it, for this run's request, wherever the process stood when the cap of
\* the run, or of a worker, was asked for.
BudgetHolds ==
    /\ PlanHolds(request) /\ HintFits(request)
    /\ \A l \in Rlimits, growth \in {request.limit, PerWorkerEstimate(request)} :
         CapOnlyTightens(l.size, growth, l.soft, l.hard)
=============================================================================
