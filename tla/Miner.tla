------------------------------- MODULE Miner -------------------------------
(***************************************************************************)
(* The worker scheduler of src/src/miner.c: one mutex-protected miner_t    *)
(* shared by the thread that owns it (the Stratum client or the autotuner) *)
(* and by the CPU, OpenCL and CUDA worker threads.  A critical section of  *)
(* the code is one action.  Hash computation is abstracted: a scan may     *)
(* report any nonce of its range as a match.                               *)
(***************************************************************************)
EXTENDS Integers, FiniteSets

CONSTANTS
    CpuThreads,      \* CPU threads requested
    OpenclDevices,   \* OpenCL devices resolved from the configuration
    CudaDevices,     \* 1 when CUDA is enabled, 0 otherwise
    MaxNonce,        \* UINT32_MAX
    CpuBatch,        \* MINER_BATCH_SIZE
    MixedCpuBatch,   \* MINER_MIXED_CPU_BATCH_SIZE
    GpuBatch,        \* batch size of a GPU device
    QueueSize,       \* SHARE_QUEUE_SIZE
    MaxSeq,          \* bound on the number of jobs
    MaxEpoch         \* bound on the number of pauses

ASSUME WorkerAssumption ==
    /\ CpuThreads \in Nat
    /\ OpenclDevices \in Nat
    /\ CudaDevices \in {0, 1}

ASSUME SizeAssumption ==
    /\ MaxNonce \in Nat
    /\ CpuBatch \in Nat \ {0}
    /\ MixedCpuBatch \in Nat \ {0}
    /\ GpuBatch \in Nat
    /\ QueueSize \in Nat \ {0}
    /\ MaxSeq \in Nat
    /\ MaxEpoch \in Nat

(* Workers in the order miner_start creates them and miner_stop joins them. *)
NumWorkers == CpuThreads + OpenclDevices + CudaDevices
Workers    == 1..NumWorkers
IsCpu(w)   == w <= CpuThreads
IsCuda(w)  == w > CpuThreads + OpenclDevices
IsOpencl(w) == ~IsCpu(w) /\ ~IsCuda(w)

Nonces == 0..MaxNonce
Slots  == 0..(QueueSize - 1)

(* A share carries the job it was found for and its nonce; the pool's job  *)
(* id, extranonce2 and ntime are functions of the job.                     *)
Share     == [seq : Nat, nonce : Nonces]
ZeroShare == [seq |-> 0, nonce |-> 0]

(* A worker's copy of the job: seq and pause_epoch at hand-out, and the    *)
(* nonces start .. start + count - 1.                                      *)
NonceRange == [seq : Nat, epoch : Nat, start : Nat, count : Nat]
NoRange    == [seq |-> 0, epoch |-> 0, start |-> 0, count |-> 0]

(* Faulty variants: a scan that runs one nonce past its range, and one     *)
(* that stops one nonce short of it.                                       *)
NoncesOfInclusive(r) == r.start .. (r.start + r.count)
NoncesOfShort(r) == r.start .. (r.start + r.count - 2)

NoncesOf(r) == r.start .. (r.start + r.count - 1)

VARIABLES
    \* fields of miner_t
    stop, paused, pause_epoch,
    job,                               \* [seq, valid] of the active job
    next_nonce, nonce_exhausted,
    hashes, thread_hashes,
    shares, share_head, share_tail, share_count,
    thread_count, started, opencl_started, cuda_started,
    device,                            \* GPU handles: "none", "live", "destroyed"
    \* the owning thread: where it is in miner_start / miner_stop
    main, cursor,
    \* locals of the worker threads
    pc, batch, range,
    todo,                              \* nonces the scan may still report
    \* auxiliary: history the properties speak about
    handed,                            \* times a nonce of the active job was handed out
    delivered,                         \* shares returned by miner_pop_share
    interrupted,                       \* a pause began since the worker's hand-out
    lost                               \* nonces of the active job whose scan failed

control == <<stop, paused, pause_epoch>>
work    == <<job, next_nonce, nonce_exhausted>>
queue   == <<shares, share_head, share_tail, share_count>>
counts  == <<hashes, thread_hashes>>
life    == <<thread_count, started, opencl_started, cuda_started, device, main, cursor>>
locals  == <<batch, range, todo>>
history == <<handed, delivered, interrupted, lost>>

vars == <<control, work, queue, counts, life, pc, locals, history>>

(* miner_create: everything zero, no job. *)
Init ==
    /\ stop = FALSE /\ paused = FALSE /\ pause_epoch = 0
    /\ job = [seq |-> 0, valid |-> FALSE]
    /\ next_nonce = 0 /\ nonce_exhausted = FALSE
    /\ hashes = 0 /\ thread_hashes = [w \in Workers |-> 0]
    /\ shares = [i \in Slots |-> ZeroShare]
    /\ share_head = 0 /\ share_tail = 0 /\ share_count = 0
    /\ thread_count = CpuThreads /\ started = FALSE
    /\ opencl_started = 0 /\ cuda_started = FALSE
    /\ device = [w \in Workers |-> "none"]
    /\ main = "probe" /\ cursor = CpuThreads + 1
    /\ pc = [w \in Workers |-> "none"]
    /\ batch = [w \in Workers |-> 0]
    /\ range = [w \in Workers |-> NoRange]
    /\ todo = [w \in Workers |-> {}]
    /\ handed = [n \in Nonces |-> 0]
    /\ delivered = {}
    /\ interrupted = [w \in Workers |-> FALSE]
    /\ lost = {}

(* Faulty variants: pthread_cond_signal wakes one waiting worker; a        *)
(* forgotten broadcast wakes none.                                         *)
SignalOne(p) ==
    [w \in Workers |-> IF p[w] = "blocked" /\ \A v \in 1..(w - 1) : p[v] # "blocked"
                       THEN "wait" ELSE p[w]]
WakeNone(p) == p

(* pthread_cond_broadcast(&work_cond). *)
Broadcast(p) == [w \in Workers |-> IF p[w] = "blocked" THEN "wait" ELSE p[w]]

-----------------------------------------------------------------------------
(* miner_start, run by the owning thread while the workers it has already  *)
(* created are running.                                                    *)

(* The next GPU: self test and device creation; either may fail, and the   *)
(* device is then skipped.                                                 *)
ProbeDevice ==
    /\ main = "probe" /\ cursor <= NumWorkers
    /\ \/ /\ device' = [device EXCEPT ![cursor] = "live"]
          /\ opencl_started' = opencl_started + (IF IsOpencl(cursor) THEN 1 ELSE 0)
          /\ cuda_started' = (cuda_started \/ IsCuda(cursor))
       \/ UNCHANGED <<device, opencl_started, cuda_started>>
    /\ cursor' = cursor + 1
    /\ UNCHANGED <<control, work, queue, counts, thread_count, started, main, pc, locals, history>>

(* Without a CPU thread and a GPU device miner_start returns -1. *)
ProbeDone ==
    /\ main = "probe" /\ cursor = NumWorkers + 1
    /\ IF CpuThreads = 0 /\ opencl_started = 0 /\ ~cuda_started
       THEN main' = "failed" /\ UNCHANGED <<thread_count, cursor>>
       ELSE main' = "spawn" /\ cursor' = 1 /\ thread_count' = 0
    /\ UNCHANGED <<control, work, queue, counts, started, opencl_started, cuda_started,
                   device, pc, locals, history>>

SpawnCpu ==
    /\ main = "spawn" /\ cursor <= CpuThreads
    /\ pc' = [pc EXCEPT ![cursor] = "check"]
    /\ thread_count' = cursor
    /\ cursor' = cursor + 1
    /\ UNCHANGED <<control, work, queue, counts, started, opencl_started, cuda_started,
                   device, main, locals, history>>

(* stop_partially_started_cpu_threads: destroy the GPU devices (none has a *)
(* thread yet), then miner_stop joins the threads that were created.       *)
SpawnCpuFails ==
    /\ main = "spawn" /\ cursor <= CpuThreads
    /\ device' = [w \in Workers |-> IF device[w] = "live" THEN "destroyed" ELSE device[w]]
    /\ opencl_started' = 0 /\ cuda_started' = FALSE
    /\ thread_count' = cursor - 1 /\ started' = TRUE
    /\ stop' = TRUE /\ pc' = Broadcast(pc)
    /\ main' = "joining" /\ cursor' = 1
    /\ UNCHANGED <<paused, pause_epoch, work, queue, counts, locals, history>>

SpawnGpu ==
    /\ main = "spawn" /\ cursor > CpuThreads /\ cursor <= NumWorkers
    /\ \/ /\ device[cursor] = "live"
          /\ pc' = [pc EXCEPT ![cursor] = "check"]
          /\ UNCHANGED <<device, cuda_started>>
       \/ /\ device[cursor] = "live"                  \* malloc or pthread_create fails
          /\ device' = [device EXCEPT ![cursor] = "destroyed"]
          /\ cuda_started' = (cuda_started /\ ~IsCuda(cursor))
          /\ UNCHANGED pc
       \/ /\ device[cursor] = "none"
          /\ UNCHANGED <<pc, device, cuda_started>>
    /\ cursor' = cursor + 1
    /\ UNCHANGED <<control, work, queue, counts, thread_count, started, opencl_started,
                   main, locals, history>>

StartDone ==
    /\ main = "spawn" /\ cursor = NumWorkers + 1
    /\ IF \A w \in Workers : pc[w] = "none"
       THEN main' = "failed" /\ UNCHANGED started
       ELSE main' = "running" /\ started' = TRUE
    /\ UNCHANGED <<control, work, queue, counts, thread_count, opencl_started, cuda_started,
                   device, cursor, pc, locals, history>>

-----------------------------------------------------------------------------
(* Operations of the owning thread on a running miner. *)

(* miner_set_job: a new job discards the queue and restarts the nonces. *)
MinerSetJob ==
    /\ main = "running" /\ job.seq < MaxSeq
    /\ job' = [seq |-> job.seq + 1, valid |-> TRUE]
    /\ next_nonce' = 0
    /\ nonce_exhausted' = FALSE
    /\ share_head' = 0 /\ share_tail' = 0 /\ share_count' = 0
    /\ pc' = Broadcast(pc)
    /\ handed' = [n \in Nonces |-> 0]
    /\ lost' = {}
    /\ UNCHANGED <<control, shares, counts, life, locals, delivered, interrupted>>

(* miner_set_paused: the epoch counts the transitions into the pause. *)
MinerSetPaused(next_paused) ==
    /\ main = "running"
    /\ (~paused /\ next_paused) => pause_epoch < MaxEpoch
    /\ pause_epoch' = pause_epoch + (IF ~paused /\ next_paused THEN 1 ELSE 0)
    /\ paused' = next_paused
    /\ pc' = Broadcast(pc)
    /\ interrupted' = [w \in Workers |->
                          interrupted[w] \/ (pc[w] = "scan" /\ ~paused /\ next_paused)]
    /\ UNCHANGED <<stop, work, queue, counts, life, locals, handed, delivered, lost>>

MinerTakeNonceExhausted ==
    /\ main = "running" /\ nonce_exhausted
    /\ nonce_exhausted' = FALSE
    /\ UNCHANGED <<control, job, next_nonce, queue, counts, life, pc, locals, history>>

(* Faulty variant: the share stays counted. *)
MinerPopShareKeepsCount ==
    /\ main = "running" /\ share_count > 0
    /\ delivered' = delivered \cup {shares[share_head]}
    /\ share_head' = (share_head + 1) % QueueSize
    /\ UNCHANGED <<control, work, shares, share_tail, share_count, counts, life, pc, locals,
                   handed, interrupted, lost>>

MinerPopShare ==
    /\ main = "running" /\ share_count > 0
    /\ delivered' = delivered \cup {shares[share_head]}
    /\ share_head' = (share_head + 1) % QueueSize
    /\ share_count' = share_count - 1
    /\ UNCHANGED <<control, work, shares, share_tail, counts, life, pc, locals,
                   handed, interrupted, lost>>

(* miner_stop: raise the flag under the lock, then join thread by thread. *)
MinerStop ==
    /\ main = "running"
    /\ stop' = TRUE
    /\ pc' = Broadcast(pc)
    /\ main' = "joining" /\ cursor' = 1
    /\ UNCHANGED <<paused, pause_epoch, work, queue, counts, thread_count, started,
                   opencl_started, cuda_started, device, locals, history>>

(* Faulty variant: a GPU is destroyed without joining its thread. *)
JoinWorkerDetached ==
    /\ main = "joining" /\ cursor <= NumWorkers
    /\ (IsCpu(cursor) /\ cursor <= thread_count) => pc[cursor] = "exited"
    /\ device' = [device EXCEPT ![cursor] = IF @ = "live" THEN "destroyed" ELSE @]
    /\ cursor' = cursor + 1
    /\ UNCHANGED <<control, work, queue, counts, thread_count, started, opencl_started,
                   cuda_started, main, pc, locals, history>>

(* A CPU thread below thread_count is joined; a GPU whose handle is not    *)
(* NULL is joined and then destroyed.                                      *)
JoinWorker ==
    /\ main = "joining" /\ cursor <= NumWorkers
    /\ IF IsCpu(cursor)
       THEN /\ cursor <= thread_count => pc[cursor] = "exited"
            /\ UNCHANGED device
       ELSE /\ device[cursor] = "live" => pc[cursor] = "exited"
            /\ device' = [device EXCEPT ![cursor] = IF @ = "live" THEN "destroyed" ELSE @]
    /\ cursor' = cursor + 1
    /\ UNCHANGED <<control, work, queue, counts, thread_count, started, opencl_started,
                   cuda_started, main, pc, locals, history>>

StopDone ==
    /\ main = "joining" /\ cursor = NumWorkers + 1
    /\ opencl_started' = 0 /\ cuda_started' = FALSE /\ started' = FALSE
    /\ main' = "stopped"
    /\ UNCHANGED <<control, work, queue, counts, thread_count, device, cursor, pc, locals, history>>

(* miner_destroy after miner_stop or a failed miner_start: the memory goes. *)
MinerFree ==
    /\ main \in {"stopped", "failed"}
    /\ main' = "freed"
    /\ UNCHANGED <<control, work, queue, counts, thread_count, started, opencl_started,
                   cuda_started, device, cursor, pc, locals, history>>

-----------------------------------------------------------------------------
(* The worker loop: worker_main, opencl_worker_main, cuda_worker_main. *)

(* copy_job_and_nonce_range reads the GPU flags without the lock.          *)
BatchSize(w) ==
    IF ~IsCpu(w) THEN GpuBatch
    ELSE IF opencl_started > 0 \/ cuda_started THEN MixedCpuBatch ELSE CpuBatch

(* The head of the loop: read stop and paused. *)
WorkerCheck(w) ==
    /\ pc[w] = "check"
    /\ pc' = [pc EXCEPT ![w] = IF stop THEN "exited" ELSE IF paused THEN "wait" ELSE "copy"]
    /\ batch' = [batch EXCEPT ![w] = IF stop \/ paused THEN 0 ELSE BatchSize(w)]
    /\ UNCHANGED <<control, work, queue, counts, life, range, todo, history>>

Min2(a, b) == IF a < b THEN a ELSE b

(* Faulty variant: a whole batch, whatever is left. *)
RangeCountUnclipped(w) == IF batch[w] = 0 THEN CpuBatch ELSE batch[w]

(* The number of nonces handed out: what is left, at most a batch; a batch *)
(* of zero means MINER_BATCH_SIZE.                                         *)
RangeCount(w) ==
    Min2(MaxNonce - next_nonce + 1, IF batch[w] = 0 THEN CpuBatch ELSE batch[w])

(* copy_job_and_nonce_range_sized: take the next range ... *)
CopyRange(w) ==
    /\ pc[w] = "copy" /\ ~stop /\ ~paused /\ job.valid /\ next_nonce <= MaxNonce
    /\ LET r == [seq |-> job.seq, epoch |-> pause_epoch,
                 start |-> next_nonce, count |-> RangeCount(w)]
       IN /\ range' = [range EXCEPT ![w] = r]
          /\ todo' = [todo EXCEPT ![w] = NoncesOf(r)]
          /\ next_nonce' = next_nonce + r.count
          /\ handed' = [n \in Nonces |-> handed[n] + (IF n \in NoncesOf(r) THEN 1 ELSE 0)]
    /\ pc' = [pc EXCEPT ![w] = "scan"]
    /\ batch' = [batch EXCEPT ![w] = 0]
    /\ interrupted' = [interrupted EXCEPT ![w] = FALSE]
    /\ UNCHANGED <<control, job, nonce_exhausted, queue, counts, life, delivered, lost>>

(* Faulty variant: the last nonce is never handed out. *)
CopyExhaustedEarly(w) ==
    /\ pc[w] = "copy" /\ ~stop /\ ~paused /\ job.valid /\ next_nonce >= MaxNonce
    /\ job' = [job EXCEPT !.valid = FALSE]
    /\ nonce_exhausted' = TRUE
    /\ pc' = [pc EXCEPT ![w] = "wait"]
    /\ batch' = [batch EXCEPT ![w] = 0]
    /\ UNCHANGED <<control, next_nonce, queue, counts, life, range, todo, history>>

(* ... or report the nonces exhausted and invalidate the job ... *)
CopyExhausted(w) ==
    /\ pc[w] = "copy" /\ ~stop /\ ~paused /\ job.valid /\ next_nonce > MaxNonce
    /\ job' = [job EXCEPT !.valid = FALSE]
    /\ nonce_exhausted' = TRUE
    /\ pc' = [pc EXCEPT ![w] = "wait"]
    /\ batch' = [batch EXCEPT ![w] = 0]
    /\ UNCHANGED <<control, next_nonce, queue, counts, life, range, todo, history>>

(* ... or find nothing to do. *)
CopyNothing(w) ==
    /\ pc[w] = "copy" /\ (stop \/ paused \/ ~job.valid)
    /\ pc' = [pc EXCEPT ![w] = "wait"]
    /\ batch' = [batch EXCEPT ![w] = 0]
    /\ UNCHANGED <<control, work, queue, counts, life, range, todo, history>>

(* miner_wait_for_work tests its condition with the lock held and blocks   *)
(* on the condition variable, or returns to the head of the loop.          *)
MustWait == ~stop /\ (paused \/ ~job.valid)

WaitForWork(w) ==
    /\ pc[w] = "wait"
    /\ pc' = [pc EXCEPT ![w] = IF MustWait THEN "blocked" ELSE "check"]
    /\ UNCHANGED <<control, work, queue, counts, life, locals, history>>

(* pthread_cond_wait may return without a broadcast. *)
SpuriousWake(w) ==
    /\ pc[w] = "blocked"
    /\ pc' = [pc EXCEPT ![w] = "wait"]
    /\ UNCHANGED <<control, work, queue, counts, life, locals, history>>

(* Faulty variants: without the test of the job, and without that of the   *)
(* pause epoch.                                                            *)
StillCurrentAnyJob(w) == ~stop /\ ~paused /\ pause_epoch = range[w].epoch
StillCurrentAnyEpoch(w) == ~stop /\ ~paused /\ job.seq = range[w].seq

(* scan_result_still_current_locked. *)
StillCurrent(w) ==
    ~stop /\ ~paused /\ pause_epoch = range[w].epoch /\ job.seq = range[w].seq

(* Faulty variant: a full queue overwrites its oldest share. *)
QueueShareUnbounded(s) ==
    /\ shares' = [shares EXCEPT ![share_tail] = s]
    /\ share_tail' = (share_tail + 1) % QueueSize
    /\ share_count' = share_count + 1
    /\ UNCHANGED share_head

(* queue_share_locked: a full queue drops the share. *)
QueueShare(s) ==
    IF share_count >= QueueSize
    THEN UNCHANGED queue
    ELSE /\ shares' = [shares EXCEPT ![share_tail] = s]
         /\ share_tail' = (share_tail + 1) % QueueSize
         /\ share_count' = share_count + 1
         /\ UNCHANGED share_head

(* queue_scan_match: a CPU scan reports in ascending order, a GPU reports  *)
(* after the scan, in the order its work items stored their results.       *)
ScanMatch(w, n) ==
    /\ pc[w] = "scan" /\ n \in todo[w]
    /\ todo' = [todo EXCEPT ![w] = IF IsCpu(w) THEN {m \in @ : m > n} ELSE @ \ {n}]
    /\ IF StillCurrent(w)
       THEN QueueShare([seq |-> range[w].seq, nonce |-> n])
       ELSE UNCHANGED queue
    /\ UNCHANGED <<control, work, counts, life, pc, batch, range, history>>

(* Faulty variant: the range is scanned again. *)
LeaveScanRepeats(w) == UNCHANGED <<pc, range, todo, interrupted>>

LeaveScan(w) ==
    /\ pc' = [pc EXCEPT ![w] = "check"]
    /\ range' = [range EXCEPT ![w] = NoRange]
    /\ todo' = [todo EXCEPT ![w] = {}]
    /\ interrupted' = [interrupted EXCEPT ![w] = FALSE]

(* The scan is over: its hashes count only if its job is still current. *)
ScanDone(w) ==
    /\ pc[w] = "scan"
    /\ IF StillCurrent(w)
       THEN /\ hashes' = hashes + range[w].count
            /\ thread_hashes' = [thread_hashes EXCEPT ![w] =
                 IF IsCpu(w) /\ w > thread_count THEN @ ELSE @ + range[w].count]
       ELSE UNCHANGED counts
    /\ LeaveScan(w)
    /\ UNCHANGED <<control, work, queue, life, batch, handed, delivered, lost>>

(* A GPU scan fails before it reports anything: the worker sleeps and      *)
(* starts its loop again.                                                  *)
ScanFails(w) ==
    /\ pc[w] = "scan" /\ ~IsCpu(w) /\ todo[w] = NoncesOf(range[w])
    /\ lost' = IF range[w].seq = job.seq THEN lost \cup NoncesOf(range[w]) ELSE lost
    /\ LeaveScan(w)
    /\ UNCHANGED <<control, work, queue, counts, life, batch, handed, delivered>>

-----------------------------------------------------------------------------
Worker(w) ==
    \/ WorkerCheck(w)
    \/ CopyRange(w)
    \/ CopyExhausted(w)
    \/ CopyNothing(w)
    \/ WaitForWork(w)
    \/ \E n \in Nonces : ScanMatch(w, n)
    \/ ScanDone(w)
    \/ ScanFails(w)

(* What the owning thread does without being asked to. *)
Startup  == ProbeDevice \/ ProbeDone \/ SpawnCpu \/ SpawnCpuFails \/ SpawnGpu \/ StartDone
Shutdown == JoinWorker \/ StopDone \/ MinerFree

Operation ==
    \/ MinerSetJob
    \/ \E p \in BOOLEAN : MinerSetPaused(p)
    \/ MinerTakeNonceExhausted
    \/ MinerPopShare
    \/ MinerStop

Terminated == main = "freed" /\ UNCHANGED vars

Next ==
    \/ Startup
    \/ Operation
    \/ Shutdown
    \/ \E w \in Workers : Worker(w) \/ SpuriousWake(w)
    \/ Terminated

Spec == Init /\ [][Next]_vars

(* The scheduler runs every thread that can run, a scan ends, and the      *)
(* owning thread finishes a miner_start or miner_stop it has begun.  It    *)
(* need not call any operation.                                            *)
Fairness ==
    /\ \A w \in Workers : WF_vars(Worker(w))
    /\ WF_vars(Startup)
    /\ WF_vars(Shutdown)

FairSpec == Spec /\ Fairness
-----------------------------------------------------------------------------
(* Properties. *)

FlagTypes ==
    /\ stop \in BOOLEAN /\ paused \in BOOLEAN /\ nonce_exhausted \in BOOLEAN
    /\ started \in BOOLEAN /\ cuda_started \in BOOLEAN

WorkTypes ==
    /\ pause_epoch \in 0..MaxEpoch
    /\ job \in [seq : 0..MaxSeq, valid : BOOLEAN]
    /\ next_nonce \in 0..(MaxNonce + 1)
    /\ hashes \in Nat
    /\ thread_hashes \in [Workers -> Nat]

QueueTypes ==
    /\ shares \in [Slots -> Share]
    /\ share_head \in Slots /\ share_tail \in Slots
    /\ share_count \in 0..QueueSize

LifeTypes ==
    /\ thread_count \in 0..CpuThreads
    /\ opencl_started \in Nat
    /\ device \in [Workers -> {"none", "live", "destroyed"}]
    /\ main \in {"probe", "spawn", "running", "joining", "stopped", "failed", "freed"}
    /\ cursor \in 1..(NumWorkers + 1)

WorkerTypes ==
    /\ pc \in [Workers -> {"none", "check", "copy", "scan", "wait", "blocked", "exited"}]
    /\ batch \in [Workers -> Nat]
    /\ range \in [Workers -> NonceRange]
    /\ todo \in [Workers -> SUBSET Nonces]
    /\ interrupted \in [Workers -> BOOLEAN]

HistoryTypes ==
    /\ handed \in [Nonces -> Nat]
    /\ delivered \subseteq Share
    /\ lost \subseteq Nonces

(* The fields of miner_t, the owning thread and the workers' locals keep   *)
(* their types; next_nonce stops one past the nonce space.                 *)
TypeOK ==
    FlagTypes /\ WorkTypes /\ QueueTypes /\ LifeTypes /\ WorkerTypes /\ HistoryTypes

(* The workers share one nonce allocator: two ranges being scanned for the *)
(* same job never overlap, whatever the kinds of the workers, and even     *)
(* when one was taken before a pause and the other after it.               *)
RangesDisjoint ==
    \A v, w \in Workers :
        (v # w /\ pc[v] = "scan" /\ pc[w] = "scan" /\ range[v].seq = range[w].seq)
        => NoncesOf(range[v]) \cap NoncesOf(range[w]) = {}

(* The allocator is exact: every nonce below next_nonce was handed out     *)
(* once for the active job and no other nonce was, so a batch that ends at *)
(* UINT32_MAX neither wraps round nor skips a nonce.                       *)
HandedExactlyOnce ==
    \A n \in Nonces : handed[n] = IF n < next_nonce THEN 1 ELSE 0

(* The slots between head and tail. *)
LiveSlots ==
    {i \in Slots : \/ share_head <= i /\ i < share_head + share_count
                   \/ i < share_head + share_count - QueueSize}

(* The ring indices agree with the count, and what waits in the ring is    *)
(* for the active job and has a nonce some worker was given: a share of an *)
(* older job cannot outlive miner_set_job.                                 *)
QueueConsistent ==
    /\ share_tail = (share_head + share_count) % QueueSize
    /\ \A i \in LiveSlots : shares[i].seq = job.seq /\ shares[i].nonce < next_nonce

(* A share is returned by miner_pop_share at most once: no two entries of  *)
(* the ring are equal and none was returned before.                        *)
NoDuplicateShares ==
    /\ \A i, j \in LiveSlots : i # j => shares[i] # shares[j]
    /\ \A i \in LiveSlots : shares[i] \notin delivered

(* No lost wake-up: a worker blocked on work_cond has nothing to do, so    *)
(* a job, a resume and a stop each wake every waiting worker.              *)
NoLostWakeup == \A w \in Workers : pc[w] = "blocked" => MustWait

(* A pending exhaustion is about the active job, and the job is retired    *)
(* only when all its nonces were handed out.                               *)
ExhaustionSound ==
    /\ nonce_exhausted => ~job.valid
    /\ (job.seq > 0 /\ ~job.valid) => next_nonce = MaxNonce + 1

Exists(w) == pc[w] \in {"check", "copy", "scan", "wait", "blocked"}

(* No GPU handle is destroyed under its worker, and miner_t is not freed   *)
(* while a thread may touch it, whichever step of miner_start failed.      *)
NoUseAfterDestroy ==
    /\ \A w \in Workers : (Exists(w) /\ ~IsCpu(w)) => device[w] = "live"
    /\ main \in {"stopped", "failed", "freed"} =>
           \A w \in Workers : ~Exists(w) /\ device[w] # "live"

(* One element for each worker w and element of f[w]: its size is the sum  *)
(* of the sizes of the workers' sets.                                      *)
Heap(f) == UNION {{w} \X f[w] : w \in Workers}

(* The hashes the per-worker counters hold, and the nonces of the active   *)
(* job that are being scanned.                                             *)
Counted  == Heap([w \in Workers |-> 1..thread_hashes[w]])
InFlight == Heap([w \in Workers |->
                    IF pc[w] = "scan" /\ range[w].seq = job.seq THEN NoncesOf(range[w]) ELSE {}])

(* Hashes are counted at most once and only for ranges that were handed    *)
(* out, never for a range whose scan failed; the per-worker counters add   *)
(* up to the total.                                                        *)
HashAccounting ==
    /\ hashes = Cardinality(Counted)
    /\ job.seq > 0 =>
         hashes + Cardinality(InFlight) + Cardinality(lost)
             <= (job.seq - 1) * (MaxNonce + 1) + next_nonce

(* The shares in the ring, oldest first. *)
Waiting == [k \in 1..share_count |-> shares[(share_head + k - 1) % QueueSize]]

Stream == INSTANCE ShareStream
            WITH Capacity <- QueueSize,
                 seq <- job.seq, valid <- job.valid, exhausted <- nonce_exhausted,
                 supply <- next_nonce..MaxNonce,
                 waiting <- Waiting

(* The scheduler implements the stream of shares it promises its owner:    *)
(* whatever the workers, the pauses and the failures, each step hands out  *)
(* fresh nonces, reports a fresh share, delivers the oldest one, starts a  *)
(* job or changes nothing the owner can see.                               *)
ImplementsShareStream == Stream!Spec

(* The pause is a barrier: a result enters the queue or the hash count     *)
(* only from a range handed out since the last pause began and never while *)
(* paused, even when a scan spans a pause and the resume after it.         *)
PauseBarrier ==
    [][(share_count' > share_count \/ hashes' > hashes) =>
          /\ ~paused
          /\ \E w \in Workers :
                /\ pc[w] = "scan" /\ ~interrupted[w]
                /\ (todo'[w] # todo[w] \/ pc'[w] # pc[w])]_vars

(* Every miner_stop ends: all threads leave and the memory is released. *)
StopCompletes == stop ~> (main = "freed")

(* A running, unpaused job uses up its nonces and says so, unless it is    *)
(* replaced, paused or stopped.                                            *)
JobProgress ==
    \A s \in 1..MaxSeq :
        (job.seq = s /\ job.valid /\ ~paused /\ ~stop)
        ~> (nonce_exhausted \/ job.seq # s \/ paused \/ stop)
=============================================================================
