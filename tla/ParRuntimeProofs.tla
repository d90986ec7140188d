-------------------------- MODULE ParRuntimeProofs --------------------------
(***************************************************************************)
(* For every int width, set of ranges and number of calls: ParRuntime is   *)
(* type correct, never runs a torn job, completes a region before it       *)
(* returns, publishes a job only after the previous one, and implements    *)
(* ParallelFor.                                                            *)
(***************************************************************************)
EXTENDS ParRuntime, FiniteSetTheorems, WellFoundedInduction, TLAPS

-----------------------------------------------------------------------------
(* The inductive invariant.                                                *)

Forked == {"body", "join"}
Parallel == {"getmask", "clone", "post", "release"} \cup Forked

\* A region that is split has two iterations or more, and no wrapped length.
SplitRegion ==
  mpc \in Parallel => arg.hi - arg.i >= 2 /\ arg.hi - arg.i <= IntMax

\* The worker exists exactly when clone has succeeded.
Started ==
  /\ worker_ok <=> wpc /= "none"
  /\ worker_ok => worker_started
  /\ mpc \in {"post", "release"} \cup Forked => worker_ok
  /\ mpc = "getmask" => ~worker_started
  /\ mpc = "clone" => worker_started /\ ~worker_ok

\* Outside the fork the worker is idle and has completed every job.
IdleOutside ==
  mpc \notin Forked =>
    /\ seen = job_seq /\ done_seq = job_seq
    /\ wpc /= "body"
    /\ unflushed = {}

\* The stores still to come before the release.
PostedJob ==
  /\ mpc /= "release" => unposted \subseteq {"data"}
  /\ mpc = "release" =>
    /\ "id" \in unposted \/ job_id = arg.id
    /\ "lo" \in unposted \/ job_lo = Mid(arg.i, arg.hi)
    /\ "hi" \in unposted \/ job_hi = arg.hi

\* Inside the fork a job is published, being run, or finished.
JobPublished ==
  /\ seen = done_seq /\ job_seq = Inc(done_seq)
  /\ wpc \in {"bind", "spin"}
  /\ job_id = arg.id /\ job_lo = Mid(arg.i, arg.hi) /\ job_hi = arg.hi
  /\ unflushed = {}

JobRunning ==
  /\ seen = job_seq /\ job_seq = Inc(done_seq)
  /\ wpc = "body"
  /\ wchunk.id = arg.id /\ wchunk.hi = arg.hi
  /\ wchunk.i >= Mid(arg.i, arg.hi) /\ wchunk.i <= arg.hi

JobFinished ==
  /\ seen = job_seq /\ done_seq = job_seq
  /\ wpc = "spin"
  /\ unflushed = {}

Fork ==
  mpc \in Forked =>
    /\ target = job_seq
    /\ unposted = {}
    /\ JobPublished \/ JobRunning \/ JobFinished

\* Main's own part of the region.
MainPart ==
  /\ mpc \in Forked =>
       /\ mchunk.id = arg.id /\ mchunk.hi = Mid(arg.i, arg.hi)
       /\ mchunk.i >= arg.i /\ mchunk.i <= mchunk.hi
  /\ mpc = "join" => mchunk.i = mchunk.hi
  /\ mpc = "serial" =>
       /\ mchunk.id = arg.id /\ mchunk.hi = arg.hi
       /\ mchunk.i >= arg.i
       /\ mchunk.i <= mchunk.hi \/ mchunk.i = arg.i

\* How far the worker has got in its half.
WorkerTop ==
  IF seen /= job_seq THEN Mid(arg.i, arg.hi)
  ELSE IF wpc = "body" THEN wchunk.i ELSE arg.hi

\* Which iterations have been run.
Ran(k) ==
  \/ mpc = "app" /\ k >= arg.i /\ k < arg.hi
  \/ mpc = "serial" /\ k >= arg.i /\ k < mchunk.i
  \/ mpc \in Forked /\ k >= arg.i /\ k < mchunk.i
  \/ mpc \in Forked /\ k >= Mid(arg.i, arg.hi) /\ k < WorkerTop

RunsExact ==
  \A b \in Ids, k \in Int32 :
    runs[<<b, k>>] = IF b = arg.id /\ Ran(k) THEN 1 ELSE 0

IInv ==
  /\ TypeOK
  /\ SplitRegion
  /\ Started
  /\ IdleOutside
  /\ PostedJob
  /\ Fork
  /\ MainPart
  /\ RunsExact
-----------------------------------------------------------------------------
(* Arithmetic of the width-limited ints.                                   *)

\* A sequence number and its successor differ, also where job_seq wraps.
LEMMA IncFacts ==
  ASSUME NEW n \in Int32
  PROVE  Inc(n) \in Int32 /\ Inc(n) /= n
BY IntMaxAssumption DEF Inc, Wrap, Int32, IntMin

\* A range whose computed length exceeds 1 really is that long.
LEMMA SplitLength ==
  ASSUME NEW r \in Ranges, Splits(r[1], r[2])
  PROVE  r[2] - r[1] >= 2 /\ r[2] - r[1] <= IntMax
<1>1. r[1] \in Int32 /\ r[2] \in Int32 /\ r[2] - r[1] >= IntMin
  BY RangesAssumption, LengthAssumption
<1> QED
  BY <1>1, IntMaxAssumption DEF Splits, Wrap, Int32, IntMin

\* The midpoint lies strictly inside a region that is split.
LEMMA MidFacts ==
  ASSUME NEW lo \in Int32, NEW hi \in Int32, hi - lo >= 2, hi - lo <= IntMax
  PROVE  Mid(lo, hi) \in Int32 /\ lo < Mid(lo, hi) /\ Mid(lo, hi) < hi
<1> DEFINE n == hi - lo
<1>1. n \in Int /\ n \div 2 \in Int /\ n \div 2 >= 1 /\ n \div 2 < n
  BY IntMaxAssumption DEF Int32, IntMin
<1>2. Wrap(n) = n
  BY <1>1, IntMaxAssumption DEF Wrap, IntMin
<1> HIDE DEF n
<1>3. lo + n \div 2 < hi /\ lo < lo + n \div 2
  BY <1>1, IntMaxAssumption DEF Int32, IntMin, n
<1>4. Wrap(lo + n \div 2) = lo + n \div 2
  BY <1>1, <1>3, IntMaxAssumption DEF Wrap, Int32, IntMin
<1>5. Mid(lo, hi) = lo + n \div 2
  BY <1>2, <1>4 DEF Mid, n
<1> QED
  BY <1>1, <1>3, <1>5, IntMaxAssumption DEF Int32, IntMin

-----------------------------------------------------------------------------
(* The invariant holds initially and every step preserves it.              *)

LEMMA InitIInv == Init => IInv
<1> SUFFICES ASSUME Init PROVE IInv
  OBVIOUS
<1>1. 0 \in Int32
  BY IntMaxAssumption DEF Int32, IntMin
<1>2. PICK id \in Ids : arg = Chunk(id, 0, 0)
  BY DEF Init
<1>3. TypeOK
  BY <1>1, <1>2 DEF Init, TypeOK, ChunkType, Chunk, NothingRan, Fields
<1>4. ASSUME NEW k \in Int32 PROVE ~Ran(k)
  BY <1>2 DEF Init, Ran, Chunk, Int32, Forked
<1>5. ASSUME NEW b \in Ids, NEW k \in Int32 PROVE runs[<<b, k>>] = 0
  BY DEF Init, NothingRan
<1>6. RunsExact
  BY <1>4, <1>5 DEF RunsExact
<1> QED
  BY <1>2, <1>3, <1>6 DEF Init, IInv, SplitRegion, Started, IdleOutside, PostedJob,
     Fork, MainPart, Parallel, Forked, Chunk

\* What every step below knows of the state it starts in.
LEMMA StateFacts ==
  ASSUME IInv
  PROVE  /\ Int32 \subseteq Int /\ IntMax \in Nat
         /\ Inc(seen) \in Int32 /\ Inc(job_seq) \in Int32
         /\ Inc(done_seq) /= done_seq
         /\ arg.i \in Int32 /\ arg.hi \in Int32 /\ mchunk.i \in Int32
         /\ mchunk.hi \in Int32 /\ wchunk.i \in Int32 /\ wchunk.hi \in Int32
         /\ arg.id \in Ids /\ mchunk.id \in Ids /\ wchunk.id \in Ids
         /\ mpc \in Parallel =>
              /\ Mid(arg.i, arg.hi) \in Int32
              /\ arg.i < Mid(arg.i, arg.hi) /\ Mid(arg.i, arg.hi) < arg.hi
<1>1. TypeOK /\ SplitRegion
  BY DEF IInv
<1>2. /\ arg.i \in Int32 /\ arg.hi \in Int32 /\ mchunk.i \in Int32
      /\ mchunk.hi \in Int32 /\ wchunk.i \in Int32 /\ wchunk.hi \in Int32
      /\ arg.id \in Ids /\ mchunk.id \in Ids /\ wchunk.id \in Ids
  BY <1>1 DEF TypeOK, ChunkType
<1>3. Inc(seen) \in Int32 /\ Inc(job_seq) \in Int32 /\ Inc(done_seq) /= done_seq
  BY <1>1, IncFacts DEF TypeOK
<1>4. Int32 \subseteq Int /\ IntMax \in Nat
  BY IntMaxAssumption DEF Int32
<1>5. ASSUME mpc \in Parallel
      PROVE  /\ Mid(arg.i, arg.hi) \in Int32
             /\ arg.i < Mid(arg.i, arg.hi) /\ Mid(arg.i, arg.hi) < arg.hi
  BY <1>1, <1>2, <1>5, MidFacts DEF SplitRegion
<1> QED
  BY <1>2, <1>3, <1>4, <1>5

\* In a state of the fork the job is in exactly one of its three phases.
LEMMA ForkPhases ==
  ASSUME IInv, mpc \in Forked
  PROVE  /\ job_seq /= seen => JobPublished
         /\ wpc = "body" => JobRunning
         /\ done_seq = target => JobFinished
<1>1. target = job_seq /\ (JobPublished \/ JobRunning \/ JobFinished)
  BY DEF IInv, Fork
<1>2. Inc(done_seq) /= done_seq
  BY StateFacts
<1> QED
  BY <1>1, <1>2 DEF JobPublished, JobRunning, JobFinished

\* One more iteration in runs, and in nothing else.
LEMMA OneMoreRun ==
  ASSUME IInv, NEW j \in Int32, ~Ran(j),
         runs' = [runs EXCEPT ![<<arg.id, j>>] = @ + 1],
         arg' = arg,
         \A k \in Int32 : Ran(k)' <=> (Ran(k) \/ k = j)
  PROVE  RunsExact'
<1>1. runs \in [Ids \X Int32 -> Nat] /\ RunsExact /\ arg.id \in Ids
  BY StateFacts DEF IInv, TypeOK
<1>2. SUFFICES ASSUME NEW b \in Ids, NEW k \in Int32
               PROVE  runs'[<<b, k>>] = IF b = arg'.id /\ Ran(k)' THEN 1 ELSE 0
  BY DEF RunsExact
<1>3. runs[<<b, k>>] = IF b = arg.id /\ Ran(k) THEN 1 ELSE 0
  BY <1>1 DEF RunsExact
<1>4. CASE b = arg.id /\ k = j
  BY <1>1, <1>3, <1>4
<1>5. CASE ~(b = arg.id /\ k = j)
  <2>1. runs'[<<b, k>>] = runs[<<b, k>>]
    BY <1>1, <1>5
  <2> QED
    BY <1>3, <1>5, <2>1
<1> QED
  BY <1>4, <1>5

\* Nothing ran and no iteration changed its side.
LEMMA SameRuns ==
  ASSUME RunsExact, runs' = runs, arg' = arg,
         \A k \in Int32 : Ran(k)' <=> Ran(k)
  PROVE  RunsExact'
<1> SUFFICES ASSUME NEW b \in Ids, NEW k \in Int32
             PROVE  runs'[<<b, k>>] = IF b = arg'.id /\ Ran(k)' THEN 1 ELSE 0
  BY DEF RunsExact
<1>1. runs[<<b, k>>] = IF b = arg.id /\ Ran(k) THEN 1 ELSE 0
  BY DEF RunsExact
<1> QED
  BY <1>1

LEMMA NextIInv == IInv /\ [Next]_vars => IInv'
<1> SUFFICES ASSUME IInv, [Next]_vars PROVE IInv'
  OBVIOUS
<1> USE DEF mainVars, workerVars, jobVars, startVars, Parallel, Forked
<1>0. TypeOK /\ SplitRegion /\ Started /\ IdleOutside /\ PostedJob /\ Fork
      /\ MainPart /\ RunsExact
  BY DEF IInv
<1>1. ASSUME NEW id \in Ids, NEW r \in Ranges, Call(id, r[1], r[2])
      PROVE  IInv'
  <2>1. r[1] \in Int32 /\ r[2] \in Int32
    BY RangesAssumption
  <2>2. TypeOK'
    BY <1>0, <1>1, <2>1 DEF Call, TypeOK, ChunkType, Chunk, Fields, NothingRan
  <2>3. /\ mpc' \in {"serial", "post", "getmask"}
        /\ mpc' = "serial" => mchunk' = Chunk(id, r[1], r[2])
        /\ mpc' /= "serial" => Splits(r[1], r[2])
        /\ mpc' = "post" => worker_ok
        /\ mpc' = "getmask" => ~worker_started
    BY <1>0, <1>1 DEF Call, TypeOK
  <2>4. SplitRegion'
    BY <1>1, <2>3, SplitLength DEF Call, SplitRegion, Chunk
  <2>5. Started' /\ IdleOutside' /\ PostedJob' /\ Fork'
    BY <1>0, <1>1, <2>3 DEF Call, Started, IdleOutside, PostedJob, Fork
  <2>6. MainPart'
    BY <1>1, <2>1, <2>3, StateFacts DEF Call, MainPart, Chunk
  <2>7. ASSUME NEW k \in Int32 PROVE ~Ran(k)'
    BY <1>1, <2>1, <2>3, StateFacts DEF Call, Ran, Chunk
  <2>8. RunsExact'
    BY <1>1, <2>7 DEF Call, RunsExact, NothingRan
  <2> QED
    BY <2>2, <2>4, <2>5, <2>6, <2>8 DEF IInv
<1>2. CASE GetMask
  <2>1. TypeOK'
    BY <1>0, <1>2 DEF GetMask, TypeOK
  <2>2. SplitRegion' /\ Started' /\ IdleOutside' /\ PostedJob' /\ Fork' /\ MainPart'
    BY <1>0, <1>2 DEF GetMask, SplitRegion, Started, IdleOutside, PostedJob, Fork, MainPart
  <2>3. \A k \in Int32 : Ran(k)' <=> Ran(k)
    BY <1>2 DEF GetMask, Ran
  <2> QED
    BY <1>0, <1>2, <2>1, <2>2, <2>3, SameRuns DEF GetMask, IInv
<1>3. CASE CloneWorker
  <2>a. \/ mpc' = "post" /\ worker_ok' = TRUE /\ wpc' = "bind" /\ mchunk' = mchunk
        \/ mpc' = "serial" /\ worker_ok' = FALSE /\ wpc' = wpc /\ mchunk' = arg
    <3>1. PICK pid \in {-1, 1} :
            /\ worker_ok' = CloneOk(pid)
            /\ IF pid > 0 THEN wpc' = "bind" ELSE wpc' = wpc
            /\ IF CloneOk(pid) THEN mpc' = "post" /\ mchunk' = mchunk
               ELSE mpc' = "serial" /\ mchunk' = arg
      BY <1>3 DEF CloneWorker
    <3>2. CloneOk(1) = TRUE /\ CloneOk(-1) = FALSE
      BY DEF CloneOk
    <3>3. CASE pid = 1
      BY <3>1, <3>2, <3>3
    <3>4. CASE pid = -1
      BY <3>1, <3>2, <3>4
    <3> QED
      BY <3>3, <3>4
  <2>b. /\ mpc = "clone"
        /\ UNCHANGED <<arg, target, seen, wchunk, job_seq, done_seq, job_id,
                       job_lo, job_hi, worker_started, orig_mask_valid,
                       unposted, unflushed, runs>>
    BY <1>3 DEF CloneWorker
  <2>1. /\ \/ mpc' = "post" /\ worker_ok' = TRUE /\ wpc' = "bind" /\ mchunk' = mchunk
           \/ mpc' = "serial" /\ worker_ok' = FALSE /\ wpc' = wpc /\ mchunk' = arg
        /\ mpc = "clone"
        /\ UNCHANGED <<arg, target, seen, wchunk, job_seq, done_seq, job_id,
                       job_lo, job_hi, worker_started, orig_mask_valid,
                       unposted, unflushed, runs>>
    BY <2>a, <2>b
  <2>2. TypeOK'
    BY <1>0, <2>1 DEF TypeOK
  <2>3. SplitRegion' /\ Started' /\ IdleOutside' /\ PostedJob' /\ Fork'
    BY <1>0, <2>1 DEF SplitRegion, Started, IdleOutside, PostedJob, Fork
  <2>4. MainPart'
    BY <2>1, StateFacts DEF MainPart
  <2>5. \A k \in Int32 : Ran(k)' <=> Ran(k)
    BY <2>1, StateFacts DEF Ran
  <2> QED
    BY <1>0, <2>1, <2>2, <2>3, <2>4, <2>5, SameRuns DEF IInv
<1>4. CASE PostJob
  <2>1. TypeOK'
    BY <1>0, <1>4 DEF PostJob, TypeOK, Fields
  <2>2. SplitRegion' /\ Started' /\ IdleOutside' /\ PostedJob' /\ Fork' /\ MainPart'
    BY <1>0, <1>4 DEF PostJob, SplitRegion, Started, IdleOutside, PostedJob, Fork, MainPart
  <2>3. \A k \in Int32 : Ran(k)' <=> Ran(k)
    BY <1>4 DEF PostJob, Ran
  <2> QED
    BY <1>0, <1>4, <2>1, <2>2, <2>3, SameRuns DEF PostJob, IInv
<1>5. ASSUME NEW f \in Fields, DrainPosted(f)
      PROVE  IInv'
  <2>1. f \in unposted /\ mpc \notin Forked /\ (mpc /= "release" => f = "data")
    BY <1>0, <1>5 DEF DrainPosted, Fork, PostedJob
  <2>2. /\ job_id' \in Ids /\ job_hi' \in Int32 /\ job_lo' \in Int32
        /\ UNCHANGED <<mpc, arg, target, mchunk, wpc, seen, wchunk, job_seq,
                       done_seq, worker_started, worker_ok, orig_mask_valid,
                       unflushed, runs>>
        /\ unposted' = unposted \ {f}
    BY <1>0, <1>5, <2>1, StateFacts DEF DrainPosted, WorkerLo, TypeOK
  <2>3. TypeOK'
    BY <1>0, <2>2 DEF TypeOK
  <2>4. PostedJob'
    BY <1>0, <1>5, <2>1 DEF DrainPosted, WorkerLo, PostedJob
  <2>5. SplitRegion' /\ Started' /\ IdleOutside' /\ Fork' /\ MainPart'
    BY <1>0, <2>1, <2>2 DEF SplitRegion, Started, IdleOutside, Fork, MainPart
  <2>6. \A k \in Int32 : Ran(k)' <=> Ran(k)
    BY <2>1, <2>2 DEF Ran
  <2> QED
    BY <1>0, <2>2, <2>3, <2>4, <2>5, <2>6, SameRuns DEF IInv
<1>6. CASE Release
  <2>1. /\ mpc = "release" /\ mpc' = "body" /\ unposted = {}
        /\ job_seq' = Inc(job_seq) /\ target' = Inc(job_seq)
        /\ mchunk' = Chunk(arg.id, arg.i, Mid(arg.i, arg.hi))
        /\ UNCHANGED <<arg, wpc, seen, wchunk, done_seq, job_id, job_lo,
                       job_hi, worker_started, worker_ok, orig_mask_valid,
                       unposted, unflushed, runs>>
    BY <1>6 DEF Release, PriorStoresVisible
  <2>2. TypeOK'
    BY <1>0, <2>1, StateFacts DEF TypeOK, ChunkType, Chunk
  <2>3. SplitRegion' /\ Started' /\ IdleOutside' /\ PostedJob'
    BY <1>0, <2>1 DEF SplitRegion, Started, IdleOutside, PostedJob
  <2>4. JobPublished' /\ seen' /= job_seq'
    BY <1>0, <2>1, StateFacts DEF JobPublished, IdleOutside, PostedJob, Started, TypeOK
  <2>5. Fork'
    BY <2>1, <2>4 DEF Fork
  <2>6. MainPart'
    BY <2>1, StateFacts DEF MainPart, Chunk
  <2>7. WorkerTop' = Mid(arg.i, arg.hi)
    BY <2>1, <2>4 DEF WorkerTop
  <2>8. \A k \in Int32 : Ran(k)' <=> Ran(k)
    BY <2>1, <2>7, StateFacts DEF Ran, Chunk
  <2> QED
    BY <1>0, <2>1, <2>2, <2>3, <2>5, <2>6, <2>8, SameRuns DEF IInv
<1>7. CASE MainIterate
  <2> DEFINE j == mchunk.i
  <2>1. /\ mpc \in {"body", "serial"} /\ j < mchunk.hi /\ j \in Int32
        /\ mchunk.id = arg.id
        /\ mchunk' = [mchunk EXCEPT !.i = j + 1]
        /\ runs' = [runs EXCEPT ![<<arg.id, j>>] = @ + 1]
        /\ UNCHANGED <<mpc, arg, target, wpc, seen, wchunk, job_seq, done_seq,
                       job_id, job_lo, job_hi, worker_started, worker_ok,
                       orig_mask_valid, unposted, unflushed>>
    BY <1>0, <1>7, StateFacts DEF MainIterate, MainPart
  <2>2. j + 1 \in Int32
    BY <2>1, StateFacts DEF Int32, IntMin
  <2>3. mchunk' \in ChunkType /\ mchunk'.i = j + 1 /\ mchunk'.hi = mchunk.hi
        /\ mchunk'.id = mchunk.id
    BY <1>0, <2>1, <2>2 DEF TypeOK, ChunkType
  <2>4. runs' \in [Ids \X Int32 -> Nat]
    BY <1>0, <2>1, StateFacts DEF TypeOK
  <2>5. TypeOK'
    BY <1>0, <2>1, <2>3, <2>4 DEF TypeOK
  <2>6. SplitRegion' /\ Started' /\ IdleOutside' /\ PostedJob' /\ Fork'
    BY <1>0, <2>1 DEF SplitRegion, Started, IdleOutside, PostedJob, Fork,
       JobPublished, JobRunning, JobFinished
  <2>7. MainPart'
    BY <1>0, <2>1, <2>3, StateFacts DEF MainPart
  <2>8. WorkerTop' = WorkerTop
    BY <2>1 DEF WorkerTop
  <2>9. ~Ran(j) /\ \A k \in Int32 : Ran(k)' <=> (Ran(k) \/ k = j)
    BY <1>0, <2>1, <2>3, <2>8, StateFacts DEF Ran, MainPart
  <2>10. RunsExact'
    BY <2>1, <2>9, OneMoreRun
  <2> QED
    BY <2>5, <2>6, <2>7, <2>10 DEF IInv
<1>8. CASE MainHalfDone
  <2>1. TypeOK'
    BY <1>0, <1>8 DEF MainHalfDone, TypeOK
  <2>2. SplitRegion' /\ Started' /\ IdleOutside' /\ PostedJob'
    BY <1>0, <1>8 DEF MainHalfDone, SplitRegion, Started, IdleOutside, PostedJob
  <2>3. Fork'
    BY <1>0, <1>8 DEF MainHalfDone, Fork, JobPublished, JobRunning, JobFinished
  <2>4. MainPart'
    BY <1>0, <1>8, StateFacts DEF MainHalfDone, MainPart
  <2>5. \A k \in Int32 : Ran(k)' <=> Ran(k)
    BY <1>8 DEF MainHalfDone, Ran, WorkerTop
  <2> QED
    BY <1>0, <1>8, <2>1, <2>2, <2>3, <2>4, <2>5, SameRuns DEF MainHalfDone, IInv
<1>9. CASE ReturnSerial
  <2>1. TypeOK'
    BY <1>0, <1>9 DEF ReturnSerial, TypeOK
  <2>2. SplitRegion' /\ Started' /\ IdleOutside' /\ PostedJob' /\ Fork' /\ MainPart'
    BY <1>0, <1>9 DEF ReturnSerial, SplitRegion, Started, IdleOutside, PostedJob,
       Fork, MainPart
  <2>3. \A k \in Int32 : Ran(k)' <=> Ran(k)
    BY <1>0, <1>9, StateFacts DEF ReturnSerial, Ran, MainPart
  <2> QED
    BY <1>0, <1>9, <2>1, <2>2, <2>3, SameRuns DEF ReturnSerial, IInv
<1>10. CASE Join
  <2>1. JobFinished
    BY <1>10, ForkPhases DEF Join, JoinReady
  <2>2. TypeOK'
    BY <1>0, <1>10 DEF Join, TypeOK
  <2>3. SplitRegion' /\ Started' /\ IdleOutside' /\ PostedJob' /\ Fork' /\ MainPart'
    BY <1>0, <1>10, <2>1 DEF Join, SplitRegion, Started, IdleOutside, PostedJob,
       Fork, MainPart, JobFinished
  <2>4. WorkerTop = arg.hi
    BY <2>1 DEF WorkerTop, JobFinished
  <2>5. \A k \in Int32 : Ran(k)' <=> Ran(k)
    BY <1>0, <1>10, <2>4, StateFacts DEF Join, Ran, MainPart
  <2> QED
    BY <1>0, <1>10, <2>2, <2>3, <2>5, SameRuns DEF Join, IInv
<1>11. CASE WorkerBind
  <2>1. TypeOK'
    BY <1>0, <1>11 DEF WorkerBind, TypeOK
  <2>2. SplitRegion' /\ Started' /\ IdleOutside' /\ PostedJob' /\ MainPart'
    BY <1>0, <1>11 DEF WorkerBind, SplitRegion, Started, IdleOutside, PostedJob,
       MainPart
  <2>3. Fork'
    BY <1>0, <1>11 DEF WorkerBind, Fork, JobPublished, JobRunning, JobFinished
  <2>4. \A k \in Int32 : Ran(k)' <=> Ran(k)
    BY <1>11 DEF WorkerBind, Ran, WorkerTop
  <2> QED
    BY <1>0, <1>11, <2>1, <2>2, <2>3, <2>4, SameRuns DEF WorkerBind, IInv
<1>12. CASE TakeJob
  <2>1. mpc \in Forked /\ JobPublished
    BY <1>0, <1>12, ForkPhases DEF TakeJob, IdleOutside
  <2>2. /\ seen' = job_seq /\ wpc' = "body"
        /\ wchunk' = Chunk(arg.id, Mid(arg.i, arg.hi), arg.hi)
        /\ UNCHANGED <<mpc, arg, target, mchunk, job_seq, done_seq, job_id,
                       job_lo, job_hi, worker_started, worker_ok,
                       orig_mask_valid, unposted, unflushed, runs>>
    BY <1>12, <2>1 DEF TakeJob, JobPublished
  <2>3. TypeOK'
    BY <1>0, <2>1, <2>2, StateFacts DEF TypeOK, ChunkType, Chunk
  <2>4. SplitRegion' /\ Started' /\ IdleOutside' /\ PostedJob' /\ MainPart'
    BY <1>0, <2>1, <2>2, <1>12 DEF TakeJob, SplitRegion, Started, IdleOutside,
       PostedJob, MainPart
  <2>5. JobRunning'
    BY <2>1, <2>2, StateFacts DEF JobRunning, JobPublished, Chunk
  <2>6. Fork'
    BY <1>0, <2>2, <2>5 DEF Fork
  <2>7. WorkerTop = Mid(arg.i, arg.hi) /\ WorkerTop' = Mid(arg.i, arg.hi)
    BY <1>12, <2>2 DEF TakeJob, WorkerTop, Chunk
  <2>8. \A k \in Int32 : Ran(k)' <=> Ran(k)
    BY <2>2, <2>7 DEF Ran
  <2> QED
    BY <1>0, <2>2, <2>3, <2>4, <2>6, <2>8, SameRuns DEF IInv
<1>13. CASE WorkerIterate
  <2> DEFINE j == wchunk.i
  <2>1. mpc \in Forked /\ JobRunning
    BY <1>0, <1>13, ForkPhases DEF WorkerIterate, IdleOutside
  <2>2. /\ j < wchunk.hi /\ j \in Int32 /\ wchunk.id = arg.id
        /\ wchunk' = [wchunk EXCEPT !.i = j + 1]
        /\ runs' = [runs EXCEPT ![<<arg.id, j>>] = @ + 1]
        /\ unflushed' = unflushed \cup {j}
        /\ UNCHANGED <<mpc, arg, target, mchunk, wpc, seen, job_seq, done_seq,
                       job_id, job_lo, job_hi, worker_started, worker_ok,
                       orig_mask_valid, unposted>>
    BY <1>13, <2>1, StateFacts DEF WorkerIterate, JobRunning
  <2>3. j + 1 \in Int32
    BY <2>2, StateFacts DEF Int32, IntMin
  <2>4. wchunk' \in ChunkType /\ wchunk'.i = j + 1 /\ wchunk'.hi = wchunk.hi
        /\ wchunk'.id = wchunk.id
    BY <1>0, <2>2, <2>3 DEF TypeOK, ChunkType
  <2>5. runs' \in [Ids \X Int32 -> Nat]
    BY <1>0, <2>2, StateFacts DEF TypeOK
  <2>6. TypeOK'
    BY <1>0, <2>2, <2>4, <2>5 DEF TypeOK
  <2>7. SplitRegion' /\ Started' /\ IdleOutside' /\ PostedJob' /\ MainPart'
    BY <1>0, <2>1, <2>2 DEF SplitRegion, Started, IdleOutside, PostedJob, MainPart
  <2>8. JobRunning'
    BY <2>1, <2>2, <2>4, StateFacts DEF JobRunning
  <2>9. Fork'
    BY <1>0, <2>1, <2>2, <2>8 DEF Fork
  <2>10. WorkerTop = j /\ WorkerTop' = j + 1
    BY <2>1, <2>2, <2>4 DEF WorkerTop, JobRunning
  <2>11. ~Ran(j) /\ \A k \in Int32 : Ran(k)' <=> (Ran(k) \/ k = j)
    BY <1>0, <2>1, <2>2, <2>10, StateFacts DEF Ran, MainPart, JobRunning
  <2>12. RunsExact'
    BY <2>2, <2>11, OneMoreRun
  <2> QED
    BY <2>6, <2>7, <2>9, <2>12 DEF IInv
<1>14. ASSUME NEW i \in Int32, DrainFlushed(i)
       PROVE  IInv'
  <2>1. mpc \in Forked /\ JobRunning
    BY <1>0, <1>14 DEF DrainFlushed, IdleOutside, Fork, JobPublished, JobFinished
  <2>2. TypeOK'
    BY <1>0, <1>14 DEF DrainFlushed, TypeOK
  <2>3. SplitRegion' /\ Started' /\ IdleOutside' /\ PostedJob' /\ MainPart'
    BY <1>0, <1>14, <2>1 DEF DrainFlushed, SplitRegion, Started, IdleOutside,
       PostedJob, MainPart
  <2>4. Fork'
    BY <1>0, <1>14, <2>1 DEF DrainFlushed, Fork, JobRunning
  <2>5. \A k \in Int32 : Ran(k)' <=> Ran(k)
    BY <1>14 DEF DrainFlushed, Ran, WorkerTop
  <2> QED
    BY <1>0, <1>14, <2>2, <2>3, <2>4, <2>5, SameRuns DEF DrainFlushed, IInv
<1>15. CASE FinishJob
  <2>1. mpc \in Forked /\ JobRunning
    BY <1>0, <1>15, ForkPhases DEF FinishJob, IdleOutside
  <2>2. TypeOK'
    BY <1>0, <1>15 DEF FinishJob, TypeOK
  <2>3. SplitRegion' /\ Started' /\ IdleOutside' /\ PostedJob' /\ MainPart'
    BY <1>0, <1>15, <2>1 DEF FinishJob, SplitRegion, Started, IdleOutside,
       PostedJob, MainPart
  <2>4. JobFinished'
    BY <1>15, <2>1 DEF FinishJob, ResultsVisible, JobRunning, JobFinished
  <2>5. Fork'
    BY <1>0, <1>15, <2>1, <2>4 DEF FinishJob, Fork
  <2>6. WorkerTop' = WorkerTop
    BY <1>15, <2>1, StateFacts DEF FinishJob, WorkerTop, JobRunning
  <2>7. \A k \in Int32 : Ran(k)' <=> Ran(k)
    BY <1>15, <2>6 DEF FinishJob, Ran
  <2> QED
    BY <1>0, <1>15, <2>2, <2>3, <2>5, <2>7, SameRuns DEF FinishJob, IInv
<1>16. CASE UNCHANGED vars
  <2>1. TypeOK' /\ SplitRegion' /\ Started' /\ IdleOutside' /\ PostedJob' /\ MainPart'
    BY <1>0, <1>16 DEF vars, TypeOK, SplitRegion, Started, IdleOutside, PostedJob,
       MainPart
  <2>2. Fork'
    BY <1>0, <1>16 DEF vars, Fork, JobPublished, JobRunning, JobFinished
  <2>3. \A k \in Int32 : Ran(k)' <=> Ran(k)
    BY <1>16 DEF vars, Ran, WorkerTop
  <2> QED
    BY <1>0, <1>16, <2>1, <2>2, <2>3, SameRuns DEF vars, IInv
<1> QED
  BY <1>1, <1>2, <1>3, <1>4, <1>5, <1>6, <1>7, <1>8, <1>9, <1>10, <1>11, <1>12,
     <1>13, <1>14, <1>15, <1>16 DEF Next, MainStep, WorkerStep, Drain

-----------------------------------------------------------------------------
(* The theorems.                                                           *)

\* The strengthening from which everything below follows.
THEOREM InvariantHolds == Spec => []IInv
<1>1. Init => IInv
  BY InitIInv
<1>2. IInv /\ [Next]_vars => IInv'
  BY NextIInv
<1> QED
  BY <1>1, <1>2, PTL DEF Spec

\* The 32-bit words of the runtime stay 32-bit ints, job_seq wrapping included.
THEOREM TypeCorrect == Spec => []TypeOK
<1>1. IInv => TypeOK
  BY DEF IInv
<1> QED
  BY <1>1, InvariantHolds, PTL

\* The worker runs its half of the job of the call in progress and never a
\* mixture of two jobs, with the caller's captured values visible to it
\* (store-release of line 156, load-acquire of line 97).
THEOREM JobsAreWhole == Spec => []JobIsWhole
<1>1. ASSUME IInv PROVE JobIsWhole
  <2>1. CASE wpc = "body"
    <3>1. mpc \in Forked
      BY <1>1, <2>1 DEF IInv, IdleOutside
    <3>2. JobRunning
      BY <1>1, <2>1, <3>1, ForkPhases
    <3> QED
      BY <1>1, <3>1, <3>2 DEF IInv, Fork, JobRunning, JobIsWhole
  <2> QED
    BY <2>1 DEF JobIsWhole
<1> QED
  BY <1>1, InvariantHolds, PTL

\* Between calls every iteration of the last region has run exactly once and
\* the worker's stores are visible (lines 106 and 162-165).
THEOREM ReturnsAreComplete == Spec => []ReturnIsComplete
<1>1. ASSUME IInv, mpc = "app"
      PROVE  unflushed = {} /\ \A x \in Ids \X Int32 :
                                 runs[x] = IF x \in Owed THEN 1 ELSE 0
  <2>1. unflushed = {} /\ RunsExact
    BY <1>1 DEF IInv, IdleOutside, Forked
  <2>2. ASSUME NEW b \in Ids, NEW k \in Int32
        PROVE  runs[<<b, k>>] = IF <<b, k>> \in Owed THEN 1 ELSE 0
    <3>1. k \in Int /\ arg.i \in Int /\ arg.hi \in Int
      BY <1>1, StateFacts
    <3>2. Ran(k) <=> k >= arg.i /\ k < arg.hi
      BY <1>1 DEF Ran, Forked
    <3>3. <<b, k>> \in Owed <=> b = arg.id /\ Ran(k)
      BY <3>1, <3>2 DEF Owed
    <3> QED
      BY <2>1, <3>3 DEF RunsExact
  <2> QED
    BY <2>1, <2>2
<1>2. IInv => ReturnIsComplete
  BY <1>1 DEF ReturnIsComplete
<1> QED
  BY <1>2, InvariantHolds, PTL

\* Whatever clone answered, a published job has a worker.
THEOREM PublishedJobsHaveWorker == Spec => []PublishedHasWorker
<1>1. IInv => PublishedHasWorker
  BY DEF IInv, TypeOK, IdleOutside, Started, Forked, PublishedHasWorker
<1> QED
  BY <1>1, InvariantHolds, PTL

\* A job is published only when the one before it has been completed, so the
\* worker may write done_seq without an atomic update.
THEOREM PublishesAfterCompletion == Spec => PublishAfterCompletion
<1>1. ASSUME IInv, [Next]_vars, job_seq' /= job_seq
      PROVE  done_seq = job_seq
  <2>1. Release
    BY <1>1 DEF Next, MainStep, WorkerStep, Drain, Call, GetMask, CloneWorker,
       PostJob, MainIterate, MainHalfDone, ReturnSerial, Join, WorkerBind,
       TakeJob, WorkerIterate, FinishJob, DrainPosted, DrainFlushed, vars
  <2> QED
    BY <1>1, <2>1 DEF Release, IInv, IdleOutside, Forked
<1>2. IInv /\ [Next]_vars => [job_seq' /= job_seq => done_seq = job_seq]_vars
  BY <1>1
<1> QED
  BY <1>2, InvariantHolds, PTL DEF Spec, PublishAfterCompletion

-----------------------------------------------------------------------------
(* Which processors the two threads are bound to.                          *)

\* Main is bound once, where the mask has been read, and stays there; the
\* worker inherits that and binds itself before its first look at job_seq.
CpuInv ==
  /\ allowed \in Masks
  /\ affinity \in [{"main", "worker"} -> SUBSET allowed]
  /\ mpc = "getmask" => wpc = "none"
  /\ NthCpu(allowed, MainCpu) /= {} /\ orig_mask_valid =>
       affinity["main"] = NthCpu(allowed, MainCpu)
  /\ NthCpu(allowed, WorkerCpu) /= {} /\ orig_mask_valid /\ wpc \in {"spin", "body"} =>
       affinity["worker"] = NthCpu(allowed, WorkerCpu)

\* A set of processor numbers has a lowest.
LEMMA LowestCpu ==
  ASSUME NEW S \in SUBSET Nat, S /= {}
  PROVE  \E c \in S : \A d \in S : c <= d
<1> DEFINE R == OpToRel(<, Nat)
<1>1. IsWellFoundedOn(R, Nat)
  BY NatLessThanWellFounded
<1>2. \A x, y \in Nat : x < y => <<x, y>> \in R
  BY DEF OpToRel
<1> HIDE DEF R
<1>3. PICK c \in S : \A d \in S : ~(<<d, c>> \in R)
  BY <1>1, WFMin
<1>4. \A d \in S : c <= d
  <2> SUFFICES ASSUME NEW d \in S PROVE ~(d < c)
    OBVIOUS
  <2> QED
    BY <1>2, <1>3
<1> QED
  BY <1>4

\* The third and the fourth processor of a mask of four or more exist.
LEMMA FourCpus ==
  ASSUME NEW S \in SUBSET Nat, IsFiniteSet(S), Cardinality(S) >= 4
  PROVE  NthCpu(S, 2) /= {} /\ NthCpu(S, 3) /= {}
<1>1. \A T \in SUBSET S : IsFiniteSet(T) /\ Cardinality(T) \in Nat
  BY FS_Subset, FS_CardinalityType
<1>2. \A T \in SUBSET S : Cardinality(T) >= 1 =>
        \E c \in T : /\ \A d \in T : c <= d
                     /\ Cardinality(T \ {c}) = Cardinality(T) - 1
  <2> SUFFICES ASSUME NEW T \in SUBSET S, Cardinality(T) >= 1
               PROVE  \E c \in T : /\ \A d \in T : c <= d
                                   /\ Cardinality(T \ {c}) = Cardinality(T) - 1
    OBVIOUS
  <2>1. T /= {} /\ T \in SUBSET Nat
    BY FS_EmptySet
  <2>2. PICK c \in T : \A d \in T : c <= d
    BY <2>1, LowestCpu
  <2>3. Cardinality(T \ {c}) = Cardinality(T) - 1
    BY <1>1, FS_RemoveElement
  <2> QED
    BY <2>2, <2>3
<1>3. PICK c0 \in S : /\ \A d \in S : c0 <= d
                      /\ Cardinality(S \ {c0}) = Cardinality(S) - 1
  BY <1>1, <1>2
<1>4. PICK c1 \in S \ {c0} : /\ \A d \in S \ {c0} : c1 <= d
                             /\ Cardinality((S \ {c0}) \ {c1}) = Cardinality(S) - 2
  BY <1>1, <1>2, <1>3
<1>5. PICK c2 \in (S \ {c0}) \ {c1} :
        /\ \A d \in (S \ {c0}) \ {c1} : c2 <= d
        /\ Cardinality(((S \ {c0}) \ {c1}) \ {c2}) = Cardinality(S) - 3
  BY <1>1, <1>2, <1>4
<1>6. PICK c3 \in ((S \ {c0}) \ {c1}) \ {c2} :
        \A d \in ((S \ {c0}) \ {c1}) \ {c2} : c3 <= d
  <2> DEFINE T == ((S \ {c0}) \ {c1}) \ {c2}
  <2>1. Cardinality(T) = Cardinality(S) - 3
    BY <1>5
  <2>2. T \in SUBSET S
    OBVIOUS
  <2> HIDE DEF T
  <2>3. Cardinality(T) >= 1
    BY <1>1, <2>1
  <2>4. \E c3 \in T : \A d \in T : c3 <= d
    BY <1>2, <2>2, <2>3
  <2> QED
    BY <2>4 DEF T
<1>7. /\ c0 \in Nat /\ c1 \in Nat /\ c2 \in Nat /\ c3 \in Nat
      /\ c0 < c1 /\ c1 < c2 /\ c2 < c3
  BY <1>3, <1>4, <1>5, <1>6
<1>8. {d \in S : d < c2} = {c0, c1} /\ {d \in S : d < c3} = {c0, c1, c2}
  <2>1. c0 \in S /\ c1 \in S /\ c2 \in S
    OBVIOUS
  <2>2. \A d \in S : d < c2 <=> d \in {c0, c1}
    BY <1>5, <1>7
  <2>3. \A d \in S : d < c3 <=> d \in {c0, c1, c2}
    BY <1>6, <1>7
  <2> QED
    BY <2>1, <2>2, <2>3
<1>9. Cardinality({c0, c1}) = 2 /\ Cardinality({c0, c1, c2}) = 3
  <2>1. IsFiniteSet({c0}) /\ Cardinality({c0}) = 1
    BY FS_Singleton
  <2>2. {c0, c1} = {c0} \cup {c1} /\ {c0, c1, c2} = {c0, c1} \cup {c2}
    OBVIOUS
  <2>3. c1 \notin {c0} /\ c2 \notin {c0, c1}
    BY <1>7
  <2>4. /\ IsFiniteSet({c0} \cup {c1})
        /\ Cardinality({c0} \cup {c1}) = Cardinality({c0}) + 1
    BY <2>1, <2>3, FS_AddElement
  <2>5. Cardinality({c0, c1} \cup {c2}) = Cardinality({c0, c1}) + 1
    <3> DEFINE D == {c0, c1}
    <3>1. IsFiniteSet(D) /\ c2 \notin D
      BY <2>2, <2>3, <2>4
    <3> HIDE DEF D
    <3>2. Cardinality(D \cup {c2}) = Cardinality(D) + 1
      BY <3>1, FS_AddElement
    <3> QED
      BY <3>2 DEF D
  <2> QED
    BY <2>1, <2>2, <2>4, <2>5
<1> QED
  BY <1>8, <1>9 DEF NthCpu

LEMMA InitCpus == Init => CpuInv
BY DEF Init, CpuInv

LEMMA NextCpus == IInv /\ CpuInv /\ [Next]_vars => CpuInv'
<1> SUFFICES ASSUME IInv, CpuInv, [Next]_vars PROVE CpuInv'
  OBVIOUS
<1> USE DEF mainVars, workerVars, jobVars, startVars
<1>1. \A n : NthCpu(allowed, n) \subseteq allowed
  BY DEF NthCpu
<1>2. mpc = "getmask" => wpc = "none"
  BY DEF CpuInv
<1>3. ASSUME NEW id \in Ids, NEW r \in Ranges, Call(id, r[1], r[2])
      PROVE  CpuInv'
  <2>1. mpc' = "getmask" => wpc' = "none"
    BY <1>3 DEF Call, IInv, Started, TypeOK
  <2> QED
    BY <1>3, <2>1 DEF Call, CpuInv, NthCpu
<1>4. CASE GetMask
  <2>1. allowed' = allowed /\ wpc' = "none" /\ mpc' = "clone"
    BY <1>2, <1>4 DEF GetMask
  <2>2. /\ affinity' \in [{"main", "worker"} -> SUBSET allowed]
        /\ NthCpu(allowed, MainCpu) /= {} /\ orig_mask_valid' =>
             affinity'["main"] = NthCpu(allowed, MainCpu)
    BY <1>1, <1>4 DEF GetMask, CpuInv, Bind
  <2> QED
    BY <2>1, <2>2 DEF CpuInv, NthCpu
<1>5. CASE CloneWorker
  <2>1. /\ allowed' = allowed /\ orig_mask_valid' = orig_mask_valid
        /\ mpc' \in {"post", "serial"} /\ (wpc' = "bind" \/ UNCHANGED <<wpc, affinity>>)
        /\ affinity' = affinity \/ affinity' = [affinity EXCEPT !["worker"] = affinity["main"]]
    BY <1>5 DEF CloneWorker
  <2> QED
    BY <2>1 DEF CpuInv, NthCpu
<1>6. CASE WorkerBind
  <2>1. /\ allowed' = allowed /\ orig_mask_valid' = orig_mask_valid
        /\ wpc = "bind" /\ wpc' = "spin" /\ mpc' = mpc
    BY <1>6 DEF WorkerBind
  <2>2. /\ affinity' \in [{"main", "worker"} -> SUBSET allowed]
        /\ affinity'["main"] = affinity["main"]
        /\ NthCpu(allowed, WorkerCpu) /= {} /\ orig_mask_valid =>
             affinity'["worker"] = NthCpu(allowed, WorkerCpu)
    BY <1>1, <1>6 DEF WorkerBind, CpuInv, Bind
  <2> QED
    BY <1>2, <2>1, <2>2 DEF CpuInv, NthCpu
<1>7. CASE \/ PostJob \/ Release \/ MainIterate \/ MainHalfDone \/ ReturnSerial \/ Join
           \/ TakeJob \/ WorkerIterate \/ FinishJob \/ Drain \/ UNCHANGED vars
  <2>1. /\ UNCHANGED <<allowed, affinity, orig_mask_valid>>
        /\ mpc' = "getmask" => mpc = "getmask"
        /\ wpc' = wpc \/ (wpc \in {"spin", "body"} /\ mpc' = mpc)
    BY <1>7 DEF PostJob, Release, MainIterate, MainHalfDone, ReturnSerial, Join, TakeJob,
       WorkerIterate, FinishJob, Drain, DrainPosted, DrainFlushed, vars
  <2> QED
    BY <2>1 DEF CpuInv, NthCpu
<1> QED
  BY <1>3, <1>4, <1>5, <1>6, <1>7 DEF Next, MainStep, WorkerStep

\* Where sched_getaffinity has reported four processors or more, the two
\* threads that spin on each other's word may run on different ones, from the
\* worker's first look at job_seq on, whatever the numbers of the processors.
THEOREM SpinnersHaveACpuEach == Spec => []SpinnersApart
<1>1. ASSUME CpuInv, orig_mask_valid, wpc \in {"spin", "body"}, Cardinality(allowed) >= 4
      PROVE  CanRunApart
  <2>1. NthCpu(allowed, 2) /= {} /\ NthCpu(allowed, 3) /= {}
    BY <1>1, MasksAssumption, FourCpus DEF CpuInv
  <2>2. affinity["main"] = NthCpu(allowed, 2) /\ affinity["worker"] = NthCpu(allowed, 3)
    BY <1>1, <2>1 DEF CpuInv, MainCpu, WorkerCpu
  <2>3. NthCpu(allowed, 2) \cap NthCpu(allowed, 3) = {}
    BY DEF NthCpu
  <2> QED
    BY <2>1, <2>2, <2>3 DEF CanRunApart
<1>2. CpuInv => SpinnersApart
  BY <1>1 DEF SpinnersApart
<1>3. Init => CpuInv
  BY InitCpus
<1>4. IInv /\ CpuInv /\ [Next]_vars => CpuInv'
  BY NextCpus
<1> QED
  BY <1>2, <1>3, <1>4, InvariantHolds, PTL DEF Spec

-----------------------------------------------------------------------------
(* The refinement of ParallelFor.                                          *)

\* One iteration of the call in progress that has not been run is a step of
\* the promise.
LEMMA IterateRefines ==
  ASSUME IInv, mpc /= "app", mpc' = mpc, arg' = arg,
         NEW k \in Int32, ~Ran(k), k >= arg.i, k < arg.hi,
         runs' = [runs EXCEPT ![<<arg.id, k>>] = @ + 1]
  PROVE  Promise!Next
<1>1. runs \in [Ids \X Int32 -> Nat] /\ RunsExact /\ arg.id \in Ids
      /\ arg.i \in Int /\ arg.hi \in Int /\ k \in Int
  BY StateFacts DEF IInv, TypeOK
<1> DEFINE x == <<arg.id, k>>
<1>2. x \in Ids \X Int32 /\ x \in {arg.id} \X (arg.i .. arg.hi - 1)
  BY <1>1
<1>3. runs[x] = 0
  BY <1>1 DEF RunsExact
<1>4. runs' = [runs EXCEPT ![x] = 1]
  BY <1>1, <1>2, <1>3
<1>5. Promise!Iterate(x)
  BY <1>2, <1>3, <1>4 DEF Promise!Iterate, Promise!Owes
<1> QED
  BY <1>2, <1>5 DEF Promise!Next

\* A return that finds every iteration run is a step of the promise.
LEMMA ReturnRefines ==
  ASSUME IInv, mpc /= "app", mpc' = "app", UNCHANGED runs,
         \A k \in Int32 : k >= arg.i /\ k < arg.hi => Ran(k)
  PROVE  Promise!Next
<1>1. RunsExact /\ arg.id \in Ids /\ arg.i \in Int32 /\ arg.hi \in Int32
      /\ IntMax \in Nat
  BY StateFacts DEF IInv
<1>2. ASSUME NEW k \in arg.i .. arg.hi - 1
      PROVE  runs[<<arg.id, k>>] = 1
  <2>1. k \in Int32 /\ k >= arg.i /\ k < arg.hi
    BY <1>1 DEF Int32, IntMin
  <2> QED
    BY <1>1, <2>1 DEF RunsExact
<1>3. \A x \in {arg.id} \X (arg.i .. arg.hi - 1) : runs[x] = 1
  BY <1>2
<1> QED
  BY <1>3 DEF Promise!Next, Promise!Return, Promise!Owes, Promise!NoRegion

LEMMA NextRefines ==
  IInv /\ [Next]_vars => [Promise!Next]_(Promise!vars)
<1> SUFFICES ASSUME IInv, [Next]_vars PROVE Promise!Next \/ UNCHANGED Promise!vars
  OBVIOUS
<1> USE DEF mainVars, workerVars, jobVars, startVars
<1>1. ASSUME NEW id \in Ids, NEW r \in Ranges, Call(id, r[1], r[2])
      PROVE  Promise!Next
  <2>1. mpc = "app" /\ mpc' /= "app" /\ arg' = Chunk(id, r[1], r[2])
        /\ runs' = NothingRan
    BY <1>1 DEF Call
  <2>2. Promise!Call(id, r[1], r[2])
    BY <2>1 DEF Promise!Call, Promise!Region, Promise!NothingRan, NothingRan, Chunk
  <2> QED
    BY <2>2 DEF Promise!Next
<1>2. CASE MainIterate
  <2>1. /\ mpc /= "app" /\ mpc' = mpc /\ arg' = arg
        /\ mchunk.id = arg.id /\ mchunk.i \in Int32
        /\ mchunk.i >= arg.i /\ mchunk.i < arg.hi /\ ~Ran(mchunk.i)
    <3>1. MainPart
      BY DEF IInv
    <3>2. CASE mpc = "serial"
      BY <1>2, <3>1, <3>2, StateFacts DEF MainIterate, MainPart, Ran, Forked
    <3>3. CASE mpc = "body"
      BY <1>2, <3>1, <3>3, StateFacts DEF MainIterate, MainPart, Ran, Forked,
         Parallel
    <3> QED
      BY <1>2, <3>2, <3>3 DEF MainIterate
  <2> QED
    BY <1>2, <2>1, IterateRefines DEF MainIterate
<1>3. CASE WorkerIterate
  <2>1. mpc \in Forked /\ JobRunning
    BY <1>3, ForkPhases DEF WorkerIterate, IInv, IdleOutside
  <2>2. MainPart /\ WorkerTop = wchunk.i
    BY <2>1 DEF IInv, WorkerTop, JobRunning
  <2>3. /\ wchunk.id = arg.id /\ wchunk.i \in Int32
        /\ wchunk.i >= arg.i /\ wchunk.i < arg.hi /\ ~Ran(wchunk.i)
    BY <1>3, <2>1, <2>2, StateFacts DEF WorkerIterate, JobRunning, MainPart, Ran,
       Forked, Parallel
  <2> QED
    BY <1>3, <2>1, <2>3, IterateRefines DEF WorkerIterate, Forked
<1>4. CASE ReturnSerial
  <2>1. MainPart
    BY DEF IInv
  <2>2. \A k \in Int32 : k >= arg.i /\ k < arg.hi => Ran(k)
    BY <1>4, <2>1, StateFacts DEF ReturnSerial, MainPart, Ran
  <2> QED
    BY <1>4, <2>2, ReturnRefines DEF ReturnSerial
<1>5. CASE Join
  <2>1. mpc = "join" /\ mpc \in Forked /\ done_seq = target
    BY <1>5 DEF Join, JoinReady, Forked
  <2>2. JobFinished /\ MainPart
    BY <2>1, ForkPhases DEF IInv
  <2>3. WorkerTop = arg.hi /\ mchunk.i = Mid(arg.i, arg.hi)
    BY <2>1, <2>2 DEF WorkerTop, JobFinished, MainPart
  <2>4. \A k \in Int32 : k >= arg.i /\ k < arg.hi => Ran(k)
    BY <2>1, <2>3, StateFacts DEF Ran
  <2> QED
    BY <1>5, <2>4, ReturnRefines DEF Join
<1>6. CASE \/ GetMask \/ CloneWorker \/ PostJob \/ Release \/ MainHalfDone
           \/ WorkerBind \/ TakeJob \/ FinishJob
           \/ (\E f \in Fields : DrainPosted(f))
           \/ (\E i \in Int32 : DrainFlushed(i))
           \/ UNCHANGED vars
  <2>1. UNCHANGED <<arg, runs>> /\ (mpc = "app" <=> mpc' = "app")
    BY <1>6 DEF GetMask, CloneWorker, PostJob, Release, MainHalfDone, WorkerBind,
       TakeJob, FinishJob, DrainPosted, DrainFlushed, vars
  <2> QED
    BY <2>1 DEF Promise!vars
<1> QED
  BY <1>1, <1>2, <1>3, <1>4, <1>5, <1>6 DEF Next, MainStep, WorkerStep, Drain

\* The runtime, with its midpoint split, weakly ordered stores, lazily started
\* worker and serial fallbacks, runs every iteration of a region exactly once.
THEOREM RuntimeKeepsPromise == Spec => KeepsPromise
<1>1. Init => Promise!Init
  BY DEF Init, Promise!Init, Promise!NoRegion, Promise!NothingRan, NothingRan
<1>2. IInv /\ [Next]_vars => [Promise!Next]_(Promise!vars)
  BY NextRefines
<1> QED
  BY <1>1, <1>2, InvariantHolds, PTL DEF Spec, KeepsPromise, Promise!Spec

-----------------------------------------------------------------------------
(* Why a call returns: main never spins for nothing, and every step brings *)
(* the return nearer.  With the weak fairness of FairSpec that is what     *)
(* EveryCallReturns says.                                                  *)

\* While main spins at line 162 its job is done, or the worker has it still to
\* take or to finish.
THEOREM MainNeverWaitsInVain == Spec => []NeverWaitsInVain
<1>1. ASSUME IInv, mpc = "join", done_seq /= target
      PROVE  wpc \in {"bind", "body"} \/ (wpc = "spin" /\ job_seq /= seen)
  <2>1. Fork /\ Inc(done_seq) /= done_seq
    BY <1>1, StateFacts DEF IInv
  <2> QED
    BY <1>1, <2>1 DEF Fork, Forked, JobPublished, JobRunning, JobFinished
<1>2. IInv => NeverWaitsInVain
  BY <1>1 DEF NeverWaitsInVain
<1> QED
  BY <1>2, InvariantHolds, PTL

LEMMA OneMore ==
  ASSUME NEW S, NEW x, IsFiniteSet(S)
  PROVE  /\ IsFiniteSet(S \cup {x})
         /\ Cardinality(S) \in Nat /\ Cardinality(S \cup {x}) \in Nat
         /\ Cardinality(S \cup {x}) <= Cardinality(S) + 1
<1>1. IsFiniteSet(S \cup {x})
  BY FS_AddElement
<1>2. Cardinality(S) \in Nat /\ Cardinality(S \cup {x}) \in Nat
  BY <1>1, FS_CardinalityType
<1>3. Cardinality(S \cup {x}) = IF x \in S THEN Cardinality(S) ELSE Cardinality(S) + 1
  BY FS_AddElement
<1> QED
  BY <1>1, <1>2, <1>3

\* The store buffers are finite.
LEMMA BufferSizes ==
  ASSUME TypeOK
  PROVE  /\ IsFiniteSet(unposted) /\ Cardinality(unposted) \in Nat
         /\ IsFiniteSet(unflushed) /\ Cardinality(unflushed) \in Nat
<1>1. IsFiniteSet({}) /\ IsFiniteSet({} \cup {"data"})
  BY FS_EmptySet, OneMore
<1>2. IsFiniteSet(Fields)
  <2>1. IsFiniteSet(({} \cup {"data"}) \cup {"id"})
    BY <1>1, OneMore
  <2>2. IsFiniteSet((({} \cup {"data"}) \cup {"id"}) \cup {"lo"})
    BY <2>1, OneMore
  <2>3. IsFiniteSet(((({} \cup {"data"}) \cup {"id"}) \cup {"lo"}) \cup {"hi"})
    BY <2>2, OneMore
  <2>4. Fields = ((({} \cup {"data"}) \cup {"id"}) \cup {"lo"}) \cup {"hi"}
    BY DEF Fields
  <2> QED
    BY <2>3, <2>4
<1>3. IsFiniteSet(unposted)
  BY <1>2, FS_Subset DEF TypeOK
<1>4. IsFiniteSet(Int32)
  BY FS_Interval, IntMaxAssumption DEF Int32, IntMin
<1>5. IsFiniteSet(unflushed)
  BY <1>4, FS_Subset DEF TypeOK
<1> QED
  BY <1>3, <1>5, FS_CardinalityType

\* The three words of a job are at most three more stores.
LEMMA PostedSize ==
  ASSUME NEW S, IsFiniteSet(S)
  PROVE  /\ Cardinality(S \cup {"id", "lo", "hi"}) \in Nat
         /\ Cardinality(S \cup {"id", "lo", "hi"}) <= Cardinality(S) + 3
<1>1. PICK S1 : S1 = S \cup {"id"}
  OBVIOUS
<1>2. PICK S2 : S2 = S1 \cup {"lo"}
  OBVIOUS
<1>3. PICK S3 : S3 = S2 \cup {"hi"}
  OBVIOUS
<1>4. IsFiniteSet(S1) /\ Cardinality(S1) \in Nat /\ Cardinality(S) \in Nat
      /\ Cardinality(S1) <= Cardinality(S) + 1
  BY <1>1, OneMore
<1>5. IsFiniteSet(S2) /\ Cardinality(S2) \in Nat /\ Cardinality(S2) <= Cardinality(S1) + 1
  BY <1>2, <1>4, OneMore
<1>6. Cardinality(S3) \in Nat /\ Cardinality(S3) <= Cardinality(S2) + 1
  BY <1>3, <1>5, OneMore
<1>7. S3 = S \cup {"id", "lo", "hi"}
  BY <1>1, <1>2, <1>3
<1>8. Cardinality(S3) <= Cardinality(S) + 3
  BY <1>4, <1>5, <1>6
<1> QED
  BY <1>6, <1>7, <1>8

\* The steps of each thread, phase by phase.
MainStepsByPhase ==
  /\ mpc = "app" => MainSteps = 0
  /\ mpc = "getmask" => MainSteps = 12 + 2 * (arg.hi - arg.i)
  /\ mpc = "clone" => MainSteps = 11 + 2 * (arg.hi - arg.i)
  /\ mpc = "post" => MainSteps = 9 + 2 * (arg.hi - arg.i)
  /\ mpc = "release" => MainSteps = 5 + 2 * (arg.hi - arg.i)
  /\ mpc = "body" => MainSteps = 2 + (mchunk.hi - mchunk.i)
  /\ mpc = "join" => MainSteps = 1
  /\ mpc = "serial" => MainSteps = 1 + Left(mchunk)

WorkerStepsByPhase ==
  /\ mpc \notin Forked => WorkerSteps = IF wpc = "bind" THEN 1 ELSE 0
  /\ mpc \in Forked /\ job_seq /= seen =>
       WorkerSteps = (IF wpc = "bind" THEN 1 ELSE 0) + 2 * (arg.hi - WorkerLo) + 2
  /\ wpc = "body" => WorkerSteps = 2 * (wchunk.hi - wchunk.i) + 1
  /\ job_seq = seen /\ wpc = "spin" => WorkerSteps = 0

LEMMA MainStepsAre == IInv => MainStepsByPhase
<1> SUFFICES ASSUME IInv PROVE MainStepsByPhase
  OBVIOUS
<1>1. /\ StepsOfPhase["app"] = 0 /\ StepsOfPhase["getmask"] = 12
      /\ StepsOfPhase["clone"] = 11 /\ StepsOfPhase["post"] = 9
      /\ StepsOfPhase["release"] = 5 /\ StepsOfPhase["body"] = 2
      /\ StepsOfPhase["join"] = 1 /\ StepsOfPhase["serial"] = 1
  BY DEF StepsOfPhase
<1>2. mpc \in Parallel => Left(arg) = arg.hi - arg.i
  BY StateFacts DEF Left, IInv, SplitRegion
<1>3. mpc = "body" => Left(mchunk) = mchunk.hi - mchunk.i
  BY StateFacts DEF Left, IInv, MainPart, Forked
<1>4. Left(mchunk) \in Int /\ arg.hi - arg.i \in Int
  BY StateFacts DEF Left
<1> QED
  BY <1>1, <1>2, <1>3, <1>4 DEF MainStepsByPhase, MainSteps, Parallel, Forked

LEMMA WorkerStepsAre == IInv => WorkerStepsByPhase
<1> SUFFICES ASSUME IInv PROVE WorkerStepsByPhase
  OBVIOUS
<1>1. mpc \notin Forked => job_seq = seen /\ wpc # "body"
  BY DEF IInv, IdleOutside
<1>2. mpc \in Forked =>
        Left(Chunk(arg.id, WorkerLo, arg.hi)) = arg.hi - WorkerLo
  BY StateFacts DEF Left, Chunk, WorkerLo, Parallel
<1>3. mpc \in Forked /\ job_seq /= seen => wpc # "body"
  BY ForkPhases DEF JobPublished
<1>4. wpc = "body" => Left(wchunk) = wchunk.hi - wchunk.i
  BY <1>1, ForkPhases, StateFacts DEF Left, JobRunning
<1>5. Left(wchunk) \in Int /\ arg.hi \in Int /\ (mpc \in Forked => WorkerLo \in Int)
  BY StateFacts DEF Left, WorkerLo, Parallel
<1> QED
  BY <1>1, <1>2, <1>3, <1>4, <1>5 DEF WorkerStepsByPhase, WorkerSteps

LEMMA StepsAreNatural ==
  IInv => MainSteps \in Nat /\ WorkerSteps \in Nat /\ StepsLeft \in Nat
<1> SUFFICES ASSUME IInv PROVE MainSteps \in Nat /\ WorkerSteps \in Nat /\ StepsLeft \in Nat
  OBVIOUS
<1>1. TypeOK /\ MainStepsByPhase /\ WorkerStepsByPhase
  BY MainStepsAre, WorkerStepsAre DEF IInv
<1>2. Left(mchunk) \in Nat /\ Left(wchunk) \in Nat
  BY StateFacts DEF Left
<1>3. MainSteps \in Nat
  BY <1>1, <1>2, StateFacts DEF MainStepsByPhase, TypeOK, IInv, SplitRegion, MainPart,
     Parallel, Forked
<1>4. wpc = "body" => wchunk.hi - wchunk.i \in Nat
  BY ForkPhases, StateFacts DEF IInv, IdleOutside, JobRunning
<1>5. mpc \in Forked => arg.hi - WorkerLo \in Nat
  BY StateFacts DEF WorkerLo, Parallel
<1>6. WorkerSteps \in Nat
  <2>1. CASE mpc \notin Forked
    BY <2>1, <1>1 DEF WorkerStepsByPhase
  <2>2. CASE wpc = "body"
    BY <2>2, <1>1, <1>4 DEF WorkerStepsByPhase
  <2>3. CASE mpc \in Forked /\ job_seq /= seen
    BY <2>3, <1>1, <1>5 DEF WorkerStepsByPhase
  <2>4. CASE mpc \in Forked /\ job_seq = seen /\ wpc # "body"
    <3>1. wpc = "spin"
      BY <2>4, StateFacts DEF IInv, Fork, JobPublished, JobRunning, JobFinished
    <3> QED
      BY <2>4, <3>1, <1>1 DEF WorkerStepsByPhase
  <2> QED
    BY <2>1, <2>2, <2>3, <2>4
<1> QED
  BY <1>1, <1>3, <1>6, BufferSizes DEF StepsLeft

\* What the lemmas above say of the state a step leads to.
LEMMA StepsAfter ==
  IInv' => /\ MainStepsByPhase' /\ WorkerStepsByPhase'
           /\ MainSteps' \in Nat /\ WorkerSteps' \in Nat /\ StepsLeft' \in Nat
<1>1. IInv => /\ MainStepsByPhase /\ WorkerStepsByPhase
              /\ MainSteps \in Nat /\ WorkerSteps \in Nat /\ StepsLeft \in Nat
  BY MainStepsAre, WorkerStepsAre, StepsAreNatural
<1>2. (IInv => /\ MainStepsByPhase /\ WorkerStepsByPhase
               /\ MainSteps \in Nat /\ WorkerSteps \in Nat /\ StepsLeft \in Nat)'
  BY <1>1, PTL
<1> QED
  BY <1>2

\* A step that takes more from one of the parts than it adds to the others.
LEMMA LessIsLeft ==
  ASSUME IInv, IInv',
         MainSteps' + WorkerSteps' + Cardinality(unposted)' + Cardinality(unflushed)'
           < MainSteps + WorkerSteps + Cardinality(unposted) + Cardinality(unflushed)
  PROVE  StepsLeft' \in 0 .. StepsLeft - 1
<1>1. StepsLeft \in Nat /\ StepsLeft' \in Nat
  BY StepsAreNatural, StepsAfter
<1>2. StepsLeft' < StepsLeft
  BY DEF StepsLeft
<1> QED
  BY <1>1, <1>2

LEMMA MainComesNearer ==
  ASSUME IInv, IInv', GetMask \/ PostJob \/ Release \/ MainIterate \/ MainHalfDone
                        \/ ReturnSerial \/ Join
  PROVE  StepsLeft' \in 0 .. StepsLeft - 1
<1> USE DEF mainVars, workerVars, jobVars, startVars
<1>1. /\ MainStepsByPhase /\ MainStepsByPhase' /\ WorkerStepsByPhase /\ WorkerStepsByPhase'
      /\ MainSteps \in Nat /\ WorkerSteps \in Nat /\ MainSteps' \in Nat /\ WorkerSteps' \in Nat
  BY MainStepsAre, WorkerStepsAre, StepsAreNatural, StepsAfter
<1>2. /\ IsFiniteSet(unposted) /\ Cardinality(unposted) \in Nat
      /\ Cardinality(unflushed) \in Nat
  BY BufferSizes DEF IInv
<1>3. CASE GetMask
  <2>1. MainSteps' = MainSteps - 1
    BY <1>1, <1>3, StateFacts DEF GetMask, MainStepsByPhase
  <2>2. WorkerSteps' = WorkerSteps
    BY <1>1, <1>3 DEF GetMask, WorkerStepsByPhase, Forked
  <2>3. UNCHANGED <<unposted, unflushed>>
    BY <1>3 DEF GetMask
  <2> QED
    BY <1>1, <1>2, <2>1, <2>2, <2>3, LessIsLeft
<1>4. CASE PostJob
  <2>1. MainSteps' = MainSteps - 4
    BY <1>1, <1>4, StateFacts DEF PostJob, MainStepsByPhase
  <2>2. WorkerSteps' = WorkerSteps
    BY <1>1, <1>4 DEF PostJob, WorkerStepsByPhase, Forked
  <2>3. Cardinality(unposted)' \in Nat /\ Cardinality(unposted)' <= Cardinality(unposted) + 3
    BY <1>2, <1>4, PostedSize DEF PostJob
  <2>4. UNCHANGED unflushed
    BY <1>4 DEF PostJob
  <2> QED
    BY <1>1, <1>2, <2>1, <2>2, <2>3, <2>4, LessIsLeft
<1>5. CASE Release
  <2>1. /\ MainSteps = 5 + 2 * (arg.hi - arg.i)
        /\ MainSteps' = 2 + (WorkerLo - arg.i)
    BY <1>1, <1>5 DEF Release, MainStepsByPhase, WorkerLo, Chunk
  <2>2. WorkerSteps' = WorkerSteps + 2 * (arg.hi - WorkerLo) + 2
    <3>1. job_seq = seen /\ job_seq' /= seen' /\ UNCHANGED <<arg, wpc>> /\ mpc = "release"
          /\ mpc' = "body"
      BY <1>5, StateFacts DEF Release, IInv, IdleOutside, Forked
    <3>2. WorkerLo' = WorkerLo
      BY <3>1 DEF WorkerLo
    <3> QED
      BY <1>1, <3>1, <3>2, StateFacts DEF WorkerStepsByPhase, Forked
  <2>3. WorkerLo \in Int /\ arg.i < WorkerLo /\ WorkerLo < arg.hi /\ arg.i \in Int /\ arg.hi \in Int
    BY <1>5, StateFacts DEF Release, WorkerLo, Parallel
  <2>4. UNCHANGED <<unposted, unflushed>>
    BY <1>5 DEF Release
  <2> QED
    BY <1>1, <1>2, <2>1, <2>2, <2>3, <2>4, LessIsLeft
<1>6. CASE MainIterate
  <2>1. MainSteps' = MainSteps - 1
    <3>1. /\ mpc' = mpc /\ mpc \in {"body", "serial"} /\ mchunk.i < mchunk.hi
          /\ mchunk'.i = mchunk.i + 1 /\ mchunk'.hi = mchunk.hi
          /\ mchunk.i \in Int /\ mchunk.hi \in Int
      BY <1>6, StateFacts DEF MainIterate, IInv, TypeOK, ChunkType
    <3> QED
      BY <1>1, <3>1 DEF MainStepsByPhase, Left
  <2>2. WorkerSteps' = WorkerSteps
    BY <1>6 DEF MainIterate, WorkerSteps, Left, WorkerLo
  <2>3. UNCHANGED <<unposted, unflushed>>
    BY <1>6 DEF MainIterate
  <2> QED
    BY <1>1, <1>2, <2>1, <2>2, <2>3, LessIsLeft
<1>7. CASE MainHalfDone
  <2>1. MainSteps' < MainSteps
    BY <1>1, <1>7, StateFacts DEF MainHalfDone, MainStepsByPhase, IInv, MainPart, Forked
  <2>2. WorkerSteps' = WorkerSteps
    BY <1>7 DEF MainHalfDone, WorkerSteps, Left, WorkerLo
  <2>3. UNCHANGED <<unposted, unflushed>>
    BY <1>7 DEF MainHalfDone
  <2> QED
    BY <1>1, <1>2, <2>1, <2>2, <2>3, LessIsLeft
<1>8. CASE ReturnSerial \/ Join
  <2>1. MainSteps' < MainSteps
    BY <1>1, <1>8, StateFacts DEF ReturnSerial, Join, MainStepsByPhase, Left
  <2>2. WorkerSteps' = WorkerSteps
    BY <1>8 DEF ReturnSerial, Join, WorkerSteps, Left, WorkerLo
  <2>3. UNCHANGED <<unposted, unflushed>>
    BY <1>8 DEF ReturnSerial, Join
  <2> QED
    BY <1>1, <1>2, <2>1, <2>2, <2>3, LessIsLeft
<1> QED
  BY <1>3, <1>4, <1>5, <1>6, <1>7, <1>8

LEMMA CloneComesNearer ==
  ASSUME IInv, IInv', CloneWorker
  PROVE  StepsLeft' \in 0 .. StepsLeft - 1
<1> USE DEF mainVars, workerVars, jobVars, startVars
<1>1. /\ MainStepsByPhase /\ MainStepsByPhase' /\ WorkerStepsByPhase /\ WorkerStepsByPhase'
      /\ MainSteps \in Nat /\ WorkerSteps \in Nat /\ MainSteps' \in Nat /\ WorkerSteps' \in Nat
  BY MainStepsAre, WorkerStepsAre, StepsAreNatural, StepsAfter
<1>2. Cardinality(unposted) \in Nat /\ Cardinality(unflushed) \in Nat
  BY BufferSizes DEF IInv
<1>3. mpc = "clone" /\ UNCHANGED <<arg, unposted, unflushed>> /\ arg.hi - arg.i >= 2
      /\ arg.i \in Int /\ arg.hi \in Int
  BY StateFacts DEF CloneWorker, IInv, SplitRegion, Parallel
<1>4. (mpc' = "post") \/ (mpc' = "serial" /\ mchunk' = arg)
  BY DEF CloneWorker
<1>5. MainSteps' <= MainSteps - 2
  BY <1>1, <1>3, <1>4 DEF MainStepsByPhase, Left
<1>6. WorkerSteps' <= WorkerSteps + 1
  BY <1>1, <1>3, <1>4 DEF WorkerStepsByPhase, Forked
<1> QED
  BY <1>1, <1>2, <1>3, <1>5, <1>6, LessIsLeft

LEMMA WorkerComesNearer ==
  ASSUME IInv, IInv', WorkerStep
  PROVE  StepsLeft' \in 0 .. StepsLeft - 1
<1> USE DEF mainVars, workerVars, jobVars, startVars
<1>1. /\ WorkerStepsByPhase /\ WorkerStepsByPhase'
      /\ MainSteps \in Nat /\ WorkerSteps \in Nat /\ MainSteps' \in Nat /\ WorkerSteps' \in Nat
  BY WorkerStepsAre, StepsAreNatural, StepsAfter
<1>2. /\ IsFiniteSet(unflushed) /\ Cardinality(unposted) \in Nat
      /\ Cardinality(unflushed) \in Nat
  BY BufferSizes DEF IInv
<1>3. UNCHANGED <<mpc, arg, mchunk, unposted>>
  BY DEF WorkerStep, WorkerBind, TakeJob, WorkerIterate, FinishJob
<1>4. MainSteps' = MainSteps
  BY <1>3 DEF MainSteps, Left
<1>5. CASE WorkerBind
  <2>1. wpc = "bind" /\ wpc' = "spin" /\ UNCHANGED <<seen, wchunk, job_seq, unflushed>>
    BY <1>5 DEF WorkerBind
  <2>2. WorkerSteps' = WorkerSteps - 1
    <3>1. WorkerLo' = WorkerLo
      BY <1>3 DEF WorkerLo
    <3>2. CASE mpc \notin Forked
      BY <1>1, <1>3, <2>1, <3>2 DEF WorkerStepsByPhase
    <3>3. CASE mpc \in Forked
      <4>1. job_seq /= seen
        BY <2>1, <3>3, StateFacts DEF IInv, Fork, JobPublished, JobRunning, JobFinished
      <4>2. WorkerLo \in Int /\ arg.hi \in Int
        BY <3>3, StateFacts DEF WorkerLo, Parallel
      <4> QED
        BY <1>1, <1>3, <2>1, <3>1, <3>3, <4>1, <4>2 DEF WorkerStepsByPhase
    <3> QED
      BY <3>2, <3>3
  <2> QED
    BY <1>1, <1>2, <1>3, <1>4, <2>1, <2>2, LessIsLeft
<1>6. CASE TakeJob
  <2>1. mpc \in Forked /\ JobPublished /\ wpc = "spin" /\ wpc' = "body"
        /\ wchunk' = Chunk(job_id, job_lo, job_hi) /\ UNCHANGED unflushed
    BY <1>6, ForkPhases DEF TakeJob, IInv, IdleOutside
  <2>2. wchunk'.i = WorkerLo /\ wchunk'.hi = arg.hi /\ job_seq /= seen
    BY <2>1, <1>6 DEF JobPublished, Chunk, WorkerLo, TakeJob
  <2>3. WorkerLo \in Int /\ arg.hi \in Int
    BY <2>1, StateFacts DEF WorkerLo, Parallel
  <2>4. WorkerSteps' = WorkerSteps - 1
    BY <1>1, <2>1, <2>2, <2>3 DEF WorkerStepsByPhase
  <2> QED
    BY <1>1, <1>2, <1>3, <1>4, <2>1, <2>4, LessIsLeft
<1>7. CASE WorkerIterate
  <2>1. /\ wpc = "body" /\ wpc' = "body" /\ wchunk'.i = wchunk.i + 1
        /\ wchunk'.hi = wchunk.hi /\ unflushed' = unflushed \cup {wchunk.i}
        /\ wchunk.i \in Int /\ wchunk.hi \in Int
    BY <1>7, StateFacts DEF WorkerIterate, IInv, TypeOK, ChunkType
  <2>2. WorkerSteps' = WorkerSteps - 2
    BY <1>1, <2>1 DEF WorkerStepsByPhase
  <2>3. Cardinality(unflushed)' \in Nat
        /\ Cardinality(unflushed)' <= Cardinality(unflushed) + 1
    BY <1>2, <2>1, OneMore
  <2> QED
    BY <1>1, <1>2, <1>3, <1>4, <2>2, <2>3, LessIsLeft
<1>8. CASE FinishJob
  <2>1. wpc = "body" /\ wpc' = "spin" /\ UNCHANGED <<seen, wchunk, job_seq, unflushed>>
    BY <1>8 DEF FinishJob
  <2>2. seen = job_seq /\ wchunk.i <= wchunk.hi /\ wchunk.i \in Int /\ wchunk.hi \in Int
    BY <2>1, ForkPhases, StateFacts DEF IInv, IdleOutside, JobRunning
  <2>3. WorkerSteps' < WorkerSteps
    BY <1>1, <2>1, <2>2 DEF WorkerStepsByPhase
  <2> QED
    BY <1>1, <1>2, <1>3, <1>4, <2>1, <2>3, LessIsLeft
<1> QED
  BY <1>5, <1>6, <1>7, <1>8 DEF WorkerStep

LEMMA DrainComesNearer ==
  ASSUME IInv, IInv', Drain
  PROVE  StepsLeft' \in 0 .. StepsLeft - 1
<1> USE DEF mainVars, workerVars, jobVars, startVars
<1>1. MainSteps \in Nat /\ WorkerSteps \in Nat
  BY StepsAreNatural
<1>2. /\ IsFiniteSet(unposted) /\ Cardinality(unposted) \in Nat
      /\ IsFiniteSet(unflushed) /\ Cardinality(unflushed) \in Nat
  BY BufferSizes DEF IInv
<1>3. UNCHANGED <<mpc, arg, mchunk, wpc, wchunk, seen, job_seq>>
  BY DEF Drain, DrainPosted, DrainFlushed
<1>4. MainSteps' = MainSteps /\ WorkerSteps' = WorkerSteps
  BY <1>3 DEF MainSteps, WorkerSteps, Left, WorkerLo
<1>5. ASSUME NEW f \in Fields, DrainPosted(f)
      PROVE  StepsLeft' \in 0 .. StepsLeft - 1
  <2>1. f \in unposted /\ unposted' = unposted \ {f} /\ unflushed' = unflushed
    BY <1>5 DEF DrainPosted
  <2>2. Cardinality(unposted \ {f}) = Cardinality(unposted) - 1
    BY <1>2, <2>1, FS_RemoveElement
  <2> QED
    BY <1>1, <1>2, <1>4, <2>1, <2>2, LessIsLeft
<1>6. ASSUME NEW i \in Int32, DrainFlushed(i)
      PROVE  StepsLeft' \in 0 .. StepsLeft - 1
  <2>1. i \in unflushed /\ unflushed' = unflushed \ {i} /\ unposted' = unposted
    BY <1>6 DEF DrainFlushed
  <2>2. Cardinality(unflushed \ {i}) = Cardinality(unflushed) - 1
    BY <1>2, <2>1, FS_RemoveElement
  <2> QED
    BY <1>1, <1>2, <1>4, <2>1, <2>2, LessIsLeft
<1> QED
  BY <1>5, <1>6 DEF Drain

\* No call takes more than StepsLeft further steps, whichever thread or store
\* buffer takes them: no iteration is run and no job taken again, and no spin is
\* entered twice.
THEOREM ReturnsComeNearer == Spec => ReturnComesNearer
<1>1. ASSUME IInv, IInv', [Next]_vars, mpc /= "app", ~UNCHANGED vars
      PROVE  StepsLeft' \in 0 .. StepsLeft - 1
  <2>1. ASSUME NEW id \in Ids, NEW r \in Ranges, Call(id, r[1], r[2]) PROVE FALSE
    BY <1>1, <2>1 DEF Call
  <2> QED
    BY <1>1, <2>1, MainComesNearer, CloneComesNearer, WorkerComesNearer, DrainComesNearer
    DEF Next, MainStep
<1>2. IInv /\ IInv' /\ [Next]_vars =>
        [mpc /= "app" => StepsLeft' \in 0 .. StepsLeft - 1]_vars
  BY <1>1
<1> QED
  BY <1>2, InvariantHolds, PTL DEF Spec, ReturnComesNearer
=============================================================================
