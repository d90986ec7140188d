----------------------------- MODULE ParRuntime -----------------------------
(***************************************************************************)
(* The two-core runtime appended to every program with a parallel loop     *)
(* (kSysyParallelRuntimeAsm, parallelRuntime.hpp).  The thread that runs   *)
(* main() splits a region in two, hands the upper half to one resident     *)
(* worker, runs the lower half itself and spins until the worker is done.  *)
(*                                                                         *)
(* Plain stores are weakly ordered on AArch64: they stay in unposted (main)*)
(* or unflushed (worker) until a Drain step makes them visible, in any     *)
(* order.  A store-release (stlr) waits until the thread's earlier plain   *)
(* stores are visible.                                                     *)
(***************************************************************************)
EXTENDS MachineInt, FiniteSets

CONSTANTS
  Ids,      \* the outlined loop bodies __sysy_par_body_<id>
  Ranges,   \* the <<lo, hi>> pairs the program calls with
  Masks     \* the affinity masks the process may be started with

ASSUME RangesAssumption == Ranges \subseteq Int32 \X Int32
\* hi - lo does not wrap downwards: the caller's empty ranges are not so far
\* apart that the subtraction of line 138 turns them into a positive length.
ASSUME LengthAssumption == \A r \in Ranges : r[2] - r[1] >= IntMin
\* A mask is 128 bytes of processor numbers (__sysy_orig_mask).
ASSUME MasksAssumption == \A m \in Masks : m \subseteq Nat /\ IsFiniteSet(m)

VARIABLES
  mpc,              \* where the main thread is
  arg,              \* w22, w21, w20: the arguments of the call in progress
  target,           \* w20 after line 155: the sequence number waited for
  mchunk,           \* the part of the region main's dispatch is running
  wpc,              \* where the worker is
  seen,             \* w19: the last job the worker took
  wchunk,           \* the part of the region the worker's dispatch is running
  job_seq, done_seq,                \* the two release/acquire words
  job_id, job_lo, job_hi,           \* the job, as other threads see it
  worker_started, worker_ok, orig_mask_valid,
  allowed,          \* the mask sched_getaffinity reports
  affinity,         \* the CPUs each thread may run on
  unposted,         \* main's plain stores nobody else sees yet
  unflushed,        \* iterations whose stores only the worker sees yet
  runs              \* history: how often each iteration ran in this call

mainVars == <<mpc, arg, target, mchunk>>
workerVars == <<wpc, seen, wchunk>>
jobVars == <<job_id, job_lo, job_hi>>
startVars == <<worker_started, worker_ok, orig_mask_valid, allowed, affinity>>
vars == <<mainVars, workerVars, job_seq, done_seq, jobVars, startVars,
          unposted, unflushed, runs>>

Chunk(id, lo, hi) == [id |-> id, i |-> lo, hi |-> hi]

NothingRan == [x \in Ids \X Int32 |-> 0]

\* The plain stores a publication depends on: what the caller stored before
\* the call (the __sysy_par_ctx_* slots and all other program data), and the
\* three words of the job.
Fields == {"data", "id", "lo", "hi"}

\* The which-th processor of a mask, counted from 0, if there is one.
NthCpu(mask, which) ==
  {c \in mask : Cardinality({d \in mask : d < c}) = which}

\* Main asks for the third processor, the worker for the fourth.
MainCpu == 2
WorkerCpu_shared == 2
WorkerCpu == 3

\* sched_setaffinity is called only when there is such a processor.
Bind(thread, which) ==
  IF NthCpu(allowed, which) = {} THEN UNCHANGED affinity
  ELSE affinity' = [affinity EXCEPT ![thread] = NthCpu(allowed, which)]

Init ==
  /\ mpc = "app"  /\ target = 0  /\ wpc = "none"  /\ seen = 0
  /\ arg \in {Chunk(id, 0, 0) : id \in Ids} /\ mchunk = arg /\ wchunk = arg
  /\ job_seq = 0 /\ done_seq = 0
  /\ job_id = arg.id /\ job_lo = 0 /\ job_hi = 0
  /\ worker_started = FALSE /\ worker_ok = FALSE /\ orig_mask_valid = FALSE
  /\ allowed \in Masks
  /\ affinity = [t \in {"main", "worker"} |-> allowed]
  /\ unposted = {} /\ unflushed = {} /\ runs = NothingRan

-----------------------------------------------------------------------------
(* The main thread: __sysy_parallel_for.                                   *)

\* Lines 138-147: the call is entered and its way through is decided.  The
\* caller has stored the live-ins with plain stores just before.
Call(id, lo, hi) ==
  /\ mpc = "app"
  /\ arg' = Chunk(id, lo, hi)
  /\ runs' = NothingRan
  /\ unposted' = unposted \cup {"data"}
  /\ \/ /\ ~Splits(lo, hi) \/ (worker_started /\ ~worker_ok)
        /\ mpc' = "serial"
        /\ mchunk' = Chunk(id, lo, hi)
     \/ /\ Splits(lo, hi) /\ (worker_started => worker_ok)
        /\ mpc' = IF worker_started THEN "post" ELSE "getmask"
        /\ UNCHANGED mchunk
  /\ UNCHANGED <<target, workerVars, job_seq, done_seq, jobVars, startVars,
                 unflushed>>

\* Lines 210-222: worker_started is set; sched_getaffinity may fail; main
\* pins itself to the third processor of the mask when there is one.
GetMask ==
  /\ mpc = "getmask"
  /\ worker_started' = TRUE
  /\ \/ orig_mask_valid' = TRUE /\ Bind("main", MainCpu)
     \/ UNCHANGED <<orig_mask_valid, affinity>>
  /\ mpc' = "clone"
  /\ UNCHANGED <<arg, target, mchunk, workerVars, job_seq, done_seq, jobVars,
                 worker_ok, allowed, unposted, unflushed, runs>>

\* Lines 233-237: what worker_ok becomes for the value clone returned.
CloneOk_nonzero(pid) == pid /= 0
CloneOk(pid) == pid > 0

\* Lines 223-238 and 146-147: clone succeeds (the worker inherits main's
\* affinity) or fails (every call from now on runs serially).
CloneWorker ==
  /\ mpc = "clone"
  /\ \E pid \in {-1, 1} :
       /\ worker_ok' = CloneOk(pid)
       /\ IF pid > 0
          THEN /\ wpc' = "bind"
               /\ affinity' = [affinity EXCEPT !["worker"] = affinity["main"]]
          ELSE UNCHANGED <<wpc, affinity>>
       /\ IF CloneOk(pid)
          THEN mpc' = "post" /\ UNCHANGED mchunk
          ELSE mpc' = "serial" /\ mchunk' = arg
  /\ UNCHANGED <<arg, target, seen, wchunk, job_seq, done_seq, jobVars,
                 worker_started, orig_mask_valid, allowed, unposted,
                 unflushed, runs>>

\* Lines 151-153: three plain stores.
PostJob ==
  /\ mpc = "post"
  /\ unposted' = unposted \cup {"id", "lo", "hi"}
  /\ mpc' = "release"
  /\ UNCHANGED <<arg, target, mchunk, workerVars, job_seq, done_seq, jobVars,
                 startVars, unflushed, runs>>

\* Line 149 and 152: where the worker's half begins.
WorkerLo_overlap == arg.i
WorkerLo == Mid(arg.i, arg.hi)

\* One of main's pending plain stores becomes visible.
DrainPosted(f) ==
  /\ f \in unposted
  /\ unposted' = unposted \ {f}
  /\ job_id' = IF f = "id" THEN arg.id ELSE job_id
  /\ job_lo' = IF f = "lo" THEN WorkerLo ELSE job_lo
  /\ job_hi' = IF f = "hi" THEN arg.hi ELSE job_hi
  /\ UNCHANGED <<mainVars, workerVars, job_seq, done_seq, startVars,
                 unflushed, runs>>

\* What the stlr of line 156 waits for; a plain str would not.
PriorStoresVisible_str == TRUE
PriorStoresVisible == unposted = {}

\* Lines 154-159: the store-release of job_seq, and main's half begins.
Release ==
  /\ mpc = "release"
  /\ PriorStoresVisible
  /\ job_seq' = Inc(job_seq)
  /\ target' = Inc(job_seq)
  /\ mchunk' = Chunk(arg.id, arg.i, Mid(arg.i, arg.hi))
  /\ mpc' = "body"
  /\ UNCHANGED <<arg, workerVars, done_seq, jobVars, startVars, unposted,
                 unflushed, runs>>

\* One iteration of the body main dispatched to.
MainIterate ==
  /\ mpc \in {"body", "serial"}
  /\ mchunk.i < mchunk.hi
  /\ runs' = [runs EXCEPT ![<<mchunk.id, mchunk.i>>] = @ + 1]
  /\ mchunk' = [mchunk EXCEPT !.i = @ + 1]
  /\ UNCHANGED <<mpc, arg, target, workerVars, job_seq, done_seq, jobVars,
                 startVars, unposted, unflushed>>

\* Main's own half is finished: on to the spin of line 162.
MainHalfDone ==
  /\ mpc = "body"
  /\ mchunk.i >= mchunk.hi
  /\ mpc' = "join"
  /\ UNCHANGED <<arg, target, mchunk, workerVars, job_seq, done_seq, jobVars,
                 startVars, unposted, unflushed, runs>>

\* The call returns: from the serial dispatch of line 201 ...
ReturnSerial ==
  /\ mpc = "serial"
  /\ mchunk.i >= mchunk.hi
  /\ mpc' = "app"
  /\ UNCHANGED <<arg, target, mchunk, workerVars, job_seq, done_seq, jobVars,
                 startVars, unposted, unflushed, runs>>

JoinReady_unchecked == TRUE
JoinReady == done_seq = target

\* ... or from the spin of lines 162-165, whose ldar sees done_seq.
Join ==
  /\ mpc = "join"
  /\ JoinReady
  /\ mpc' = "app"
  /\ UNCHANGED <<arg, target, mchunk, workerVars, job_seq, done_seq, jobVars,
                 startVars, unposted, unflushed, runs>>

-----------------------------------------------------------------------------
(* The worker: __sysy_worker.                                              *)

\* Lines 86-92.
WorkerBind ==
  /\ wpc = "bind"
  /\ IF orig_mask_valid THEN Bind("worker", WorkerCpu) ELSE UNCHANGED affinity
  /\ wpc' = "spin"
  /\ UNCHANGED <<mainVars, seen, wchunk, job_seq, done_seq, jobVars,
                 worker_started, worker_ok, orig_mask_valid, allowed,
                 unposted, unflushed, runs>>

\* The worker does not remember which job it has taken.
TakeJob_forgets ==
  /\ wpc = "spin"
  /\ job_seq /= seen
  /\ wchunk' = Chunk(job_id, job_lo, job_hi)
  /\ wpc' = "body"
  /\ UNCHANGED <<mainVars, seen, job_seq, done_seq, jobVars, startVars, unposted,
                 unflushed, runs>>

\* Lines 96-105 (and 107-110): the ldar sees a new sequence number, the job
\* is loaded and dispatched.
TakeJob ==
  /\ wpc = "spin"
  /\ job_seq /= seen
  /\ seen' = Inc(seen)
  /\ wchunk' = Chunk(job_id, job_lo, job_hi)
  /\ wpc' = "body"
  /\ UNCHANGED <<mainVars, job_seq, done_seq, jobVars, startVars, unposted,
                 unflushed, runs>>

\* One iteration of the body the worker dispatched to; its stores are plain.
WorkerIterate ==
  /\ wpc = "body"
  /\ wchunk.i < wchunk.hi
  /\ runs' = [runs EXCEPT ![<<wchunk.id, wchunk.i>>] = @ + 1]
  /\ unflushed' = unflushed \cup {wchunk.i}
  /\ wchunk' = [wchunk EXCEPT !.i = @ + 1]
  /\ UNCHANGED <<mainVars, wpc, seen, job_seq, done_seq, jobVars, startVars,
                 unposted>>

\* The stores of one of the worker's iterations become visible.
DrainFlushed(i) ==
  /\ i \in unflushed
  /\ unflushed' = unflushed \ {i}
  /\ UNCHANGED <<mainVars, workerVars, job_seq, done_seq, jobVars, startVars,
                 unposted, runs>>

\* What the stlr of line 106 waits for.
ResultsVisible_str == TRUE
ResultsVisible == unflushed = {}

\* Line 106: the store-release of done_seq.
FinishJob ==
  /\ wpc = "body"
  /\ wchunk.i >= wchunk.hi
  /\ ResultsVisible
  /\ done_seq' = seen
  /\ wpc' = "spin"
  /\ UNCHANGED <<mainVars, seen, wchunk, job_seq, jobVars, startVars,
                 unposted, unflushed, runs>>

-----------------------------------------------------------------------------
MainStep ==
  \/ GetMask \/ CloneWorker \/ PostJob \/ Release
  \/ MainIterate \/ MainHalfDone \/ ReturnSerial \/ Join

WorkerStep == WorkerBind \/ TakeJob \/ WorkerIterate \/ FinishJob

Drain ==
  \/ \E f \in Fields : DrainPosted(f)
  \/ \E i \in Int32 : DrainFlushed(i)

Next ==
  \/ \E id \in Ids, r \in Ranges : Call(id, r[1], r[2])
  \/ MainStep
  \/ WorkerStep
  \/ Drain

Spec == Init /\ [][Next]_vars

\* The kernel runs both threads, and a store buffer drains.
Fairness == WF_vars(MainStep) /\ WF_vars(WorkerStep) /\ WF_vars(Drain)

FairSpec == Spec /\ Fairness
-----------------------------------------------------------------------------
(* Properties.                                                             *)

ChunkType == [id : Ids, i : Int32, hi : Int32]

\* The type invariant.
TypeOK ==
  /\ mpc \in {"app", "getmask", "clone", "post", "release", "body", "join",
              "serial"}
  /\ wpc \in {"none", "bind", "spin", "body"}
  /\ arg \in ChunkType /\ mchunk \in ChunkType /\ wchunk \in ChunkType
  /\ target \in Int32 /\ seen \in Int32
  /\ job_seq \in Int32 /\ done_seq \in Int32
  /\ job_id \in Ids /\ job_lo \in Int32 /\ job_hi \in Int32
  /\ worker_started \in BOOLEAN /\ worker_ok \in BOOLEAN
  /\ orig_mask_valid \in BOOLEAN
  /\ unposted \subseteq Fields /\ unflushed \subseteq Int32
  /\ runs \in [Ids \X Int32 -> Nat]

\* The iterations of the call in progress.
Owed == {arg.id} \X (arg.i .. arg.hi - 1)

\* The worker never runs a mixture of two jobs, and what the caller stored
\* before the call (the captured live-ins) is visible to it while it runs:
\* that is what the release of job_seq and the acquire of line 97 are for.
JobIsWhole ==
  wpc = "body" =>
    /\ unposted = {}
    /\ wchunk.id = arg.id
    /\ wchunk.hi = arg.hi
    /\ wchunk.i >= Mid(arg.i, arg.hi)

\* When the call has returned every iteration has run exactly once, nothing
\* else has, and the caller sees what the worker's iterations stored: it may
\* read the partial results of a reduction at once.
ReturnIsComplete ==
  mpc = "app" =>
    /\ unflushed = {}
    /\ \A x \in Ids \X Int32 : runs[x] = IF x \in Owed THEN 1 ELSE 0

\* "There is exactly one worker and the producer waits for every job before
\* publishing the next one" (par_runtime_only.c:41-42): a publication finds
\* the previous job completed.  With it, done_seq needs no atomic update.
PublishAfterCompletion == [][job_seq' /= job_seq => done_seq = job_seq]_vars

\* Nothing is published when there is no worker to take it, whatever clone
\* answered: a published job has a worker past its start.
PublishedHasWorker == job_seq /= done_seq => wpc \in {"bind", "spin", "body"}

\* Two threads that spin on each other need a processor each.
CanRunApart == \E a \in affinity["main"], b \in affinity["worker"] : a /= b

\* With four processors in the mask, pinning keeps the threads apart.
SpinnersApart ==
  orig_mask_valid /\ wpc \in {"spin", "body"} /\ Cardinality(allowed) >= 4
  => CanRunApart

\* Main spins at line 162 only for a worker that has the job still to take or
\* to finish: the two never wait for each other.
NeverWaitsInVain ==
  mpc = "join" /\ done_seq /= target
  => wpc \in {"bind", "body"} \/ (wpc = "spin" /\ job_seq /= seen)

\* How many steps a call has still to take at most, of both threads and of their
\* store buffers.
Left(chunk) == IF chunk.i < chunk.hi THEN chunk.hi - chunk.i ELSE 0
StepsOfPhase ==
  [getmask |-> 12, clone |-> 11, post |-> 9, release |-> 5, body |-> 2, join |-> 1,
   serial |-> 1, app |-> 0]
MainSteps ==
  StepsOfPhase[mpc]
    + (IF mpc \in {"body", "serial"} THEN Left(mchunk)
       ELSE IF mpc \in {"getmask", "clone", "post", "release"} THEN 2 * Left(arg) ELSE 0)
WorkerSteps ==
  (IF wpc = "bind" THEN 1 ELSE 0)
    + (IF wpc = "body" THEN 2 * Left(wchunk) + 1
       ELSE IF job_seq /= seen THEN 2 * Left(Chunk(arg.id, WorkerLo, arg.hi)) + 2 ELSE 0)
StepsLeft == MainSteps + WorkerSteps + Cardinality(unposted) + Cardinality(unflushed)

\* Whoever takes the next step, and in whatever order the stores become visible, it
\* brings the return of the call in progress nearer: nothing is run or posted twice,
\* and no spin is entered again.
ReturnComesNearer == [][mpc /= "app" => StepsLeft' \in 0 .. StepsLeft - 1]_vars

\* Every call returns, with a worker or without.
EveryCallReturns == mpc /= "app" ~> mpc = "app"

Promise ==
  INSTANCE ParallelFor WITH
    region <- IF mpc = "app" THEN [open |-> FALSE]
              ELSE [open |-> TRUE, id |-> arg.id, lo |-> arg.i, hi |-> arg.hi]

\* The runtime keeps the promise of ParallelFor.
KeepsPromise == Promise!Spec
=============================================================================
