---------------------------- MODULE MinerProofs ----------------------------
(***************************************************************************)
(* Safety of the worker scheduler for every number of workers, every nonce *)
(* space, all batch sizes and every queue size: the allocation of nonces,  *)
(* the share queue, the pause, the life cycle of a miner, the count of     *)
(* hashes, and the refinement of ShareStream.                              *)
(***************************************************************************)
EXTENDS Miner, FiniteSetTheorems, SequenceTheorems, TLAPS

(* What % does to the ring indices of queue_share_locked, miner_pop_share  *)
(* and QueueConsistent: it takes off one lap at most.                      *)
LEMMA RingMod ==
  ASSUME NEW a \in Nat, a < 2 * QueueSize
  PROVE  a % QueueSize = IF a < QueueSize THEN a ELSE a - QueueSize
<1>1. QueueSize \in Nat /\ QueueSize > 0
  BY SizeAssumption
<1>2. CASE a < QueueSize
  BY <1>1, <1>2
<1>3. CASE a >= QueueSize
  <2> DEFINE b == a - QueueSize
  <2>1. b \in Nat /\ a = QueueSize + b /\ b < QueueSize
    BY <1>1, <1>3
  <2> HIDE DEF b
  <2>2. (QueueSize + b) % QueueSize = b
    BY <1>1, <2>1
  <2> QED BY <1>1, <1>3, <2>1, <2>2
<1> QED BY <1>1, <1>2, <1>3

(* A hand-out of copy_job_and_nonce_range_sized is not empty and stays     *)
(* within what is left of the nonce space.                                 *)
LEMMA RangeCountBounds ==
  ASSUME TypeOK, NEW w \in Workers, next_nonce <= MaxNonce
  PROVE  /\ RangeCount(w) \in Nat \ {0}
         /\ next_nonce + RangeCount(w) <= MaxNonce + 1
BY SizeAssumption DEF TypeOK, WorkTypes, WorkerTypes, RangeCount, Min2

(* queue_share_locked when there is room. *)
Enqueue(s) ==
    /\ share_count < QueueSize
    /\ shares' = [shares EXCEPT ![share_tail] = s]
    /\ share_tail' = (share_tail + 1) % QueueSize
    /\ share_count' = share_count + 1
    /\ share_head' = share_head

(* What queue_scan_match does with a reported nonce: nothing, or it queues *)
(* the share of a range that is still current.                             *)
LEMMA MatchOutcome ==
  ASSUME TypeOK, NEW w \in Workers, NEW n \in Nonces, ScanMatch(w, n)
  PROVE  \/ UNCHANGED queue
         \/ StillCurrent(w) /\ Enqueue([seq |-> range[w].seq, nonce |-> n])
BY SizeAssumption DEF TypeOK, QueueTypes, ScanMatch, QueueShare, Enqueue, queue

(* miner_create starts with the types. *)
LEMMA TypeInit == Init => TypeOK
<1> SUFFICES ASSUME Init PROVE TypeOK
  OBVIOUS
<1> USE WorkerAssumption, SizeAssumption DEF Init
<1>1. FlagTypes
  BY DEF FlagTypes
<1>2. WorkTypes
  BY DEF WorkTypes
<1>3. QueueTypes
  BY DEF QueueTypes, Slots, Share, ZeroShare, Nonces
<1>4. LifeTypes
  BY DEF LifeTypes, NumWorkers
<1>5. WorkerTypes
  BY DEF WorkerTypes, NonceRange, NoRange
<1>6. HistoryTypes
  BY DEF HistoryTypes
<1> QED
  BY <1>1, <1>2, <1>3, <1>4, <1>5, <1>6 DEF TypeOK

(* Every step of the scheduler keeps the types. *)
LEMMA TypeNext == TypeOK /\ [Next]_vars => TypeOK'
<1> SUFFICES ASSUME TypeOK, [Next]_vars
             PROVE  TypeOK'
  OBVIOUS
<1> USE DEF TypeOK, control, work, queue, counts, life, locals, history
<1>1. CASE ProbeDevice
  <2>1. FlagTypes'
    BY <1>1 DEF ProbeDevice, FlagTypes, IsCuda
  <2>2. LifeTypes'
    BY <1>1, WorkerAssumption DEF ProbeDevice, LifeTypes, NumWorkers, Workers
  <2>3. WorkTypes' /\ QueueTypes' /\ WorkerTypes' /\ HistoryTypes'
    BY <1>1 DEF ProbeDevice, WorkTypes, QueueTypes, WorkerTypes, HistoryTypes
  <2> QED
    BY <2>1, <2>2, <2>3
<1>2. CASE ProbeDone
  <2>1. LifeTypes'
    BY <1>2, WorkerAssumption DEF ProbeDone, LifeTypes, NumWorkers
  <2>2. FlagTypes' /\ WorkTypes' /\ QueueTypes' /\ WorkerTypes' /\ HistoryTypes'
    BY <1>2 DEF ProbeDone, FlagTypes, WorkTypes, QueueTypes, WorkerTypes, HistoryTypes
  <2> QED
    BY <2>1, <2>2
<1>3. CASE SpawnCpu
  <2>1. LifeTypes'
    BY <1>3, WorkerAssumption DEF SpawnCpu, LifeTypes, NumWorkers
  <2>2. WorkerTypes'
    BY <1>3 DEF SpawnCpu, WorkerTypes
  <2>3. FlagTypes' /\ WorkTypes' /\ QueueTypes' /\ HistoryTypes'
    BY <1>3 DEF SpawnCpu, FlagTypes, WorkTypes, QueueTypes, HistoryTypes
  <2> QED
    BY <2>1, <2>2, <2>3
<1>4. CASE SpawnCpuFails
  <2>1. FlagTypes'
    BY <1>4 DEF SpawnCpuFails, FlagTypes
  <2>2. LifeTypes'
    BY <1>4, WorkerAssumption DEF SpawnCpuFails, LifeTypes, NumWorkers
  <2>3. WorkerTypes'
    BY <1>4 DEF SpawnCpuFails, WorkerTypes, Broadcast
  <2>4. WorkTypes' /\ QueueTypes' /\ HistoryTypes'
    BY <1>4 DEF SpawnCpuFails, WorkTypes, QueueTypes, HistoryTypes
  <2> QED
    BY <2>1, <2>2, <2>3, <2>4
<1>5. CASE SpawnGpu
  <2>1. FlagTypes'
    BY <1>5 DEF SpawnGpu, FlagTypes
  <2>2. LifeTypes'
    BY <1>5, WorkerAssumption DEF SpawnGpu, LifeTypes, NumWorkers, Workers
  <2>3. WorkerTypes'
    BY <1>5 DEF SpawnGpu, WorkerTypes
  <2>4. WorkTypes' /\ QueueTypes' /\ HistoryTypes'
    BY <1>5 DEF SpawnGpu, WorkTypes, QueueTypes, HistoryTypes
  <2> QED
    BY <2>1, <2>2, <2>3, <2>4
<1>6. CASE StartDone
  <2>1. FlagTypes'
    BY <1>6 DEF StartDone, FlagTypes
  <2>2. LifeTypes'
    BY <1>6 DEF StartDone, LifeTypes
  <2>3. WorkTypes' /\ QueueTypes' /\ WorkerTypes' /\ HistoryTypes'
    BY <1>6 DEF StartDone, WorkTypes, QueueTypes, WorkerTypes, HistoryTypes
  <2> QED
    BY <2>1, <2>2, <2>3
<1>7. CASE MinerSetJob
  <2>1. FlagTypes'
    BY <1>7 DEF MinerSetJob, FlagTypes
  <2>2. WorkTypes'
    BY <1>7, SizeAssumption DEF MinerSetJob, WorkTypes
  <2>3. QueueTypes'
    BY <1>7, SizeAssumption DEF MinerSetJob, QueueTypes, Slots
  <2>4. WorkerTypes'
    BY <1>7 DEF MinerSetJob, WorkerTypes, Broadcast
  <2>5. HistoryTypes'
    BY <1>7 DEF MinerSetJob, HistoryTypes
  <2>6. LifeTypes'
    BY <1>7 DEF MinerSetJob, LifeTypes
  <2> QED
    BY <2>1, <2>2, <2>3, <2>4, <2>5, <2>6
<1>8. ASSUME NEW p \in BOOLEAN, MinerSetPaused(p)
      PROVE  TypeOK'
  <2>1. FlagTypes'
    BY <1>8 DEF MinerSetPaused, FlagTypes
  <2>2. WorkTypes'
    BY <1>8, SizeAssumption DEF MinerSetPaused, WorkTypes
  <2>3. WorkerTypes'
    BY <1>8 DEF MinerSetPaused, WorkerTypes, Broadcast
  <2>4. QueueTypes' /\ LifeTypes' /\ HistoryTypes'
    BY <1>8 DEF MinerSetPaused, QueueTypes, LifeTypes, HistoryTypes
  <2> QED
    BY <2>1, <2>2, <2>3, <2>4
<1>9. CASE MinerTakeNonceExhausted
  <2>1. FlagTypes'
    BY <1>9 DEF MinerTakeNonceExhausted, FlagTypes
  <2>2. WorkTypes' /\ QueueTypes' /\ LifeTypes' /\ WorkerTypes' /\ HistoryTypes'
    BY <1>9 DEF MinerTakeNonceExhausted, WorkTypes, QueueTypes, LifeTypes, WorkerTypes, HistoryTypes
  <2> QED
    BY <2>1, <2>2
<1>10. CASE MinerPopShare
  <2>1. QueueTypes'
    BY <1>10, SizeAssumption DEF MinerPopShare, QueueTypes, Slots
  <2>2. HistoryTypes'
    BY <1>10 DEF MinerPopShare, HistoryTypes, QueueTypes
  <2>3. FlagTypes' /\ WorkTypes' /\ LifeTypes' /\ WorkerTypes'
    BY <1>10 DEF MinerPopShare, FlagTypes, WorkTypes, LifeTypes, WorkerTypes
  <2> QED
    BY <2>1, <2>2, <2>3
<1>11. CASE MinerStop
  <2>1. FlagTypes'
    BY <1>11 DEF MinerStop, FlagTypes
  <2>2. LifeTypes'
    BY <1>11, WorkerAssumption DEF MinerStop, LifeTypes, NumWorkers
  <2>3. WorkerTypes'
    BY <1>11 DEF MinerStop, WorkerTypes, Broadcast
  <2>4. WorkTypes' /\ QueueTypes' /\ HistoryTypes'
    BY <1>11 DEF MinerStop, WorkTypes, QueueTypes, HistoryTypes
  <2> QED
    BY <2>1, <2>2, <2>3, <2>4
<1>12. CASE JoinWorker
  <2>1. LifeTypes'
    BY <1>12, WorkerAssumption DEF JoinWorker, LifeTypes, NumWorkers, Workers, IsCpu
  <2>2. FlagTypes' /\ WorkTypes' /\ QueueTypes' /\ WorkerTypes' /\ HistoryTypes'
    BY <1>12 DEF JoinWorker, FlagTypes, WorkTypes, QueueTypes, WorkerTypes, HistoryTypes
  <2> QED
    BY <2>1, <2>2
<1>13. CASE StopDone
  <2>1. FlagTypes'
    BY <1>13 DEF StopDone, FlagTypes
  <2>2. LifeTypes'
    BY <1>13 DEF StopDone, LifeTypes
  <2>3. WorkTypes' /\ QueueTypes' /\ WorkerTypes' /\ HistoryTypes'
    BY <1>13 DEF StopDone, WorkTypes, QueueTypes, WorkerTypes, HistoryTypes
  <2> QED
    BY <2>1, <2>2, <2>3
<1>14. CASE MinerFree
  <2>1. LifeTypes'
    BY <1>14 DEF MinerFree, LifeTypes
  <2>2. FlagTypes' /\ WorkTypes' /\ QueueTypes' /\ WorkerTypes' /\ HistoryTypes'
    BY <1>14 DEF MinerFree, FlagTypes, WorkTypes, QueueTypes, WorkerTypes, HistoryTypes
  <2> QED
    BY <2>1, <2>2
<1>15. ASSUME NEW w \in Workers, WorkerCheck(w)
      PROVE  TypeOK'
  <2>1. WorkerTypes'
    BY <1>15, SizeAssumption DEF WorkerCheck, WorkerTypes, BatchSize
  <2>2. FlagTypes' /\ WorkTypes' /\ QueueTypes' /\ LifeTypes' /\ HistoryTypes'
    BY <1>15 DEF WorkerCheck, FlagTypes, WorkTypes, QueueTypes, LifeTypes, HistoryTypes
  <2> QED
    BY <2>1, <2>2
<1>16. ASSUME NEW w \in Workers, CopyRange(w)
      PROVE  TypeOK'
  <2>1. WorkTypes'
    BY <1>16, SizeAssumption, RangeCountBounds DEF CopyRange, WorkTypes
  <2>2. WorkerTypes'
    <3> DEFINE r == [seq |-> job.seq, epoch |-> pause_epoch,
                     start |-> next_nonce, count |-> RangeCount(w)]
    <3>1. RangeCount(w) \in Nat /\ next_nonce + RangeCount(w) <= MaxNonce + 1
      BY <1>16, RangeCountBounds DEF CopyRange
    <3>2. r \in NonceRange
      BY <3>1, SizeAssumption DEF WorkTypes, NonceRange
    <3>3. NoncesOf(r) \subseteq Nonces
      BY <3>1, SizeAssumption DEF WorkTypes, NoncesOf, Nonces
    <3>4. range' = [range EXCEPT ![w] = r] /\ todo' = [todo EXCEPT ![w] = NoncesOf(r)]
      BY <1>16 DEF CopyRange
    <3> HIDE DEF r
    <3> QED
      BY <1>16, <3>2, <3>3, <3>4 DEF CopyRange, WorkerTypes
  <2>3. HistoryTypes'
    BY <1>16 DEF CopyRange, HistoryTypes
  <2>4. FlagTypes' /\ QueueTypes' /\ LifeTypes'
    BY <1>16 DEF CopyRange, FlagTypes, QueueTypes, LifeTypes
  <2> QED
    BY <2>1, <2>2, <2>3, <2>4
<1>17. ASSUME NEW w \in Workers, CopyExhausted(w)
      PROVE  TypeOK'
  <2>1. FlagTypes'
    BY <1>17 DEF CopyExhausted, FlagTypes
  <2>2. WorkTypes'
    BY <1>17 DEF CopyExhausted, WorkTypes
  <2>3. WorkerTypes'
    BY <1>17 DEF CopyExhausted, WorkerTypes
  <2>4. QueueTypes' /\ LifeTypes' /\ HistoryTypes'
    BY <1>17 DEF CopyExhausted, QueueTypes, LifeTypes, HistoryTypes
  <2> QED
    BY <2>1, <2>2, <2>3, <2>4
<1>18. ASSUME NEW w \in Workers, CopyNothing(w)
      PROVE  TypeOK'
  <2>1. WorkerTypes'
    BY <1>18 DEF CopyNothing, WorkerTypes
  <2>2. FlagTypes' /\ WorkTypes' /\ QueueTypes' /\ LifeTypes' /\ HistoryTypes'
    BY <1>18 DEF CopyNothing, FlagTypes, WorkTypes, QueueTypes, LifeTypes, HistoryTypes
  <2> QED
    BY <2>1, <2>2
<1>19. ASSUME NEW w \in Workers, WaitForWork(w)
      PROVE  TypeOK'
  <2>1. WorkerTypes'
    BY <1>19 DEF WaitForWork, WorkerTypes
  <2>2. FlagTypes' /\ WorkTypes' /\ QueueTypes' /\ LifeTypes' /\ HistoryTypes'
    BY <1>19 DEF WaitForWork, FlagTypes, WorkTypes, QueueTypes, LifeTypes, HistoryTypes
  <2> QED
    BY <2>1, <2>2
<1>20. ASSUME NEW w \in Workers, SpuriousWake(w)
      PROVE  TypeOK'
  <2>1. WorkerTypes'
    BY <1>20 DEF SpuriousWake, WorkerTypes
  <2>2. FlagTypes' /\ WorkTypes' /\ QueueTypes' /\ LifeTypes' /\ HistoryTypes'
    BY <1>20 DEF SpuriousWake, FlagTypes, WorkTypes, QueueTypes, LifeTypes, HistoryTypes
  <2> QED
    BY <2>1, <2>2
<1>21. ASSUME NEW w \in Workers, NEW n \in Nonces, ScanMatch(w, n)
      PROVE  TypeOK'
  <2>1. QueueTypes'
    <3> DEFINE s == [seq |-> range[w].seq, nonce |-> n]
    <3>1. s \in Share
      BY DEF WorkerTypes, Share, NonceRange
    <3>2. CASE UNCHANGED queue
      BY <3>2 DEF QueueTypes
    <3>3. CASE Enqueue(s)
      <4>1. share_tail' \in Slots
        BY <3>3, SizeAssumption DEF Enqueue, QueueTypes, Slots
      <4> HIDE DEF s
      <4>2. shares' \in [Slots -> Share]
        BY <3>1, <3>3 DEF Enqueue, QueueTypes
      <4>3. share_count' \in 0..QueueSize /\ share_head' \in Slots
        BY <3>3, SizeAssumption DEF Enqueue, QueueTypes
      <4> QED
        BY <4>1, <4>2, <4>3 DEF QueueTypes
    <3> QED
      BY <1>21, <3>2, <3>3, MatchOutcome
  <2>2. WorkerTypes'
    <3>1. PICK S \in SUBSET Nonces : todo' = [todo EXCEPT ![w] = S]
      <4> DEFINE S == IF IsCpu(w) THEN {m \in todo[w] : m > n} ELSE todo[w] \ {n}
      <4>1. S \subseteq todo[w] /\ todo[w] \subseteq Nonces
        BY DEF WorkerTypes
      <4> QED
        BY <1>21, <4>1 DEF ScanMatch, WorkerTypes
    <3> QED
      BY <1>21, <3>1 DEF ScanMatch, WorkerTypes
  <2>3. FlagTypes' /\ WorkTypes' /\ LifeTypes' /\ HistoryTypes'
    BY <1>21 DEF ScanMatch, FlagTypes, WorkTypes, LifeTypes, HistoryTypes
  <2> QED
    BY <2>1, <2>2, <2>3
<1>22. ASSUME NEW w \in Workers, ScanDone(w)
      PROVE  TypeOK'
  <2>1. WorkTypes'
    BY <1>22 DEF ScanDone, WorkTypes, WorkerTypes, NonceRange
  <2>2. WorkerTypes'
    BY <1>22 DEF ScanDone, WorkerTypes, LeaveScan, NonceRange, NoRange
  <2>3. FlagTypes' /\ QueueTypes' /\ LifeTypes' /\ HistoryTypes'
    BY <1>22 DEF ScanDone, FlagTypes, QueueTypes, LifeTypes, HistoryTypes
  <2> QED
    BY <2>1, <2>2, <2>3
<1>23. ASSUME NEW w \in Workers, ScanFails(w)
      PROVE  TypeOK'
  <2>1. WorkerTypes'
    BY <1>23 DEF ScanFails, WorkerTypes, LeaveScan, NonceRange, NoRange
  <2>2. HistoryTypes'
    BY <1>23 DEF ScanFails, HistoryTypes, WorkerTypes
  <2>3. FlagTypes' /\ WorkTypes' /\ QueueTypes' /\ LifeTypes'
    BY <1>23 DEF ScanFails, FlagTypes, WorkTypes, QueueTypes, LifeTypes
  <2> QED
    BY <2>1, <2>2, <2>3
<1>24. CASE UNCHANGED vars
  <2>1. FlagTypes'
    BY <1>24 DEF vars, FlagTypes
  <2>2. WorkTypes'
    BY <1>24 DEF vars, WorkTypes
  <2>3. QueueTypes'
    BY <1>24 DEF vars, QueueTypes
  <2>4. LifeTypes'
    BY <1>24 DEF vars, LifeTypes
  <2>5. WorkerTypes'
    BY <1>24 DEF vars, WorkerTypes
  <2>6. HistoryTypes'
    BY <1>24 DEF vars, HistoryTypes
  <2> QED
    BY <2>1, <2>2, <2>3, <2>4, <2>5, <2>6
<1> QED
  BY <1>1, <1>2, <1>3, <1>4, <1>5, <1>6, <1>7, <1>8, <1>9, <1>10, <1>11, <1>12, <1>13,
     <1>14, <1>15, <1>16, <1>17, <1>18, <1>19, <1>20, <1>21, <1>22, <1>23, <1>24
     DEF Next, Startup, Operation, Shutdown, Worker, Terminated

(* The types of miner_t and of the threads' locals are invariant. *)
THEOREM TypeCorrect == Spec => []TypeOK
<1>1. Init => TypeOK
  BY TypeInit
<1>2. TypeOK /\ [Next]_vars => TypeOK'
  BY TypeNext
<1> QED
  BY <1>1, <1>2, PTL DEF Spec

-----------------------------------------------------------------------------
(* No lost wake-ups.  The invariant is inductive given the types: the four *)
(* steps that can end a wait all broadcast.                                *)

(* Every step keeps a blocked worker's reason to wait, or wakes it. *)
LEMMA WakeupNext == TypeOK /\ NoLostWakeup /\ [Next]_vars => NoLostWakeup'
<1> SUFFICES ASSUME TypeOK, NoLostWakeup, [Next]_vars
             PROVE  NoLostWakeup'
  OBVIOUS
<1> USE DEF NoLostWakeup, MustWait, TypeOK, WorkerTypes, WorkTypes
<1>1. ASSUME pc' = Broadcast(pc)
      PROVE  NoLostWakeup'
  BY <1>1 DEF Broadcast
<1>2. ASSUME UNCHANGED <<control, work>>, \A w \in Workers : pc'[w] = "blocked" => pc[w] = "blocked"
      PROVE  NoLostWakeup'
  BY <1>2 DEF control, work
<1>3. CASE Startup
  <2>1. CASE SpawnCpuFails
    BY <1>1, <2>1 DEF SpawnCpuFails
  <2>2. CASE ProbeDevice \/ ProbeDone \/ SpawnCpu \/ SpawnGpu \/ StartDone
    BY <1>2, <2>2 DEF ProbeDevice, ProbeDone, SpawnCpu, SpawnGpu, StartDone
  <2> QED BY <1>3, <2>1, <2>2 DEF Startup
<1>4. CASE Operation
  <2>1. CASE MinerTakeNonceExhausted
    BY <2>1 DEF MinerTakeNonceExhausted, control
  <2>2. CASE MinerPopShare
    BY <1>2, <2>2 DEF MinerPopShare
  <2>3. CASE MinerSetJob \/ MinerStop \/ \E p \in BOOLEAN : MinerSetPaused(p)
    BY <1>1, <2>3 DEF MinerSetJob, MinerStop, MinerSetPaused
  <2> QED BY <1>4, <2>1, <2>2, <2>3 DEF Operation
<1>5. CASE Shutdown
  BY <1>2, <1>5 DEF Shutdown, JoinWorker, StopDone, MinerFree
<1>6. ASSUME NEW w \in Workers, Worker(w) \/ SpuriousWake(w)
      PROVE  NoLostWakeup'
  <2>1. CASE WaitForWork(w)
    BY <2>1 DEF WaitForWork, control, work
  <2>2. CASE CopyExhausted(w)
    BY <2>2 DEF CopyExhausted, control
  <2>3. CASE CopyRange(w)
    BY <2>3 DEF CopyRange, control
  <2>4. CASE WorkerCheck(w) \/ CopyNothing(w) \/ SpuriousWake(w)
    BY <1>2, <2>4 DEF WorkerCheck, CopyNothing, SpuriousWake
  <2>5. CASE (\E n \in Nonces : ScanMatch(w, n)) \/ ScanDone(w) \/ ScanFails(w)
    BY <1>2, <2>5 DEF ScanMatch, ScanDone, ScanFails, LeaveScan
  <2> QED BY <1>6, <2>1, <2>2, <2>3, <2>4, <2>5 DEF Worker
<1>7. CASE UNCHANGED vars
  BY <1>2, <1>7 DEF vars
<1> QED
  BY <1>3, <1>4, <1>5, <1>6, <1>7 DEF Next, Terminated

(* New jobs, resumes and shutdown wake every waiting worker: a thread      *)
(* blocked in miner_wait_for_work never has work it could do.              *)
THEOREM WakeupsNotLost == Spec => []NoLostWakeup
<1>1. Init => NoLostWakeup
  BY DEF Init, NoLostWakeup
<1>2. TypeOK /\ NoLostWakeup /\ [Next]_vars => NoLostWakeup'
  BY WakeupNext
<1> QED
  BY <1>1, <1>2, TypeCorrect, PTL DEF Spec

-----------------------------------------------------------------------------
(* The nonce allocator. *)

(* A range being scanned belongs to the active job or to an older one; if  *)
(* it is the active job's, it lies below next_nonce.  This is what makes   *)
(* RangesDisjoint inductive: a hand-out starts at next_nonce.              *)
RangeBound(w) ==
    pc[w] = "scan" =>
        /\ range[w].seq <= job.seq
        /\ range[w].seq = job.seq => range[w].start + range[w].count <= next_nonce
        /\ todo[w] \subseteq NoncesOf(range[w])

AllocInv ==
    /\ \A w \in Workers : RangeBound(w)
    /\ RangesDisjoint
    /\ HandedExactlyOnce

(* A step that leaves the allocator alone and starts no scan. *)
AllocFrame ==
    /\ UNCHANGED <<next_nonce, range, todo, handed>>
    /\ job'.seq = job.seq
    /\ \A w \in Workers : pc'[w] = "scan" => pc[w] = "scan"

(* What does not touch the allocator keeps its invariant. *)
LEMMA AllocFrameInv == TypeOK /\ AllocInv /\ AllocFrame => AllocInv'
BY DEF AllocInv, AllocFrame, RangeBound, RangesDisjoint, HandedExactlyOnce, NoncesOf

(* All steps but a new job and those of a scan leave the allocator alone. *)
LEMMA AllocFrameSteps ==
  ASSUME TypeOK
  PROVE  /\ Startup \/ Shutdown \/ UNCHANGED vars => AllocFrame
         /\ MinerTakeNonceExhausted \/ MinerPopShare \/ MinerStop => AllocFrame
         /\ \A p \in BOOLEAN : MinerSetPaused(p) => AllocFrame
         /\ \A w \in Workers :
              WorkerCheck(w) \/ CopyExhausted(w) \/ CopyNothing(w) \/ WaitForWork(w)
              \/ SpuriousWake(w) => AllocFrame
<1> USE DEF AllocFrame, TypeOK, WorkerTypes, WorkTypes, Broadcast,
            control, work, queue, counts, life, locals, history
<1>1. Startup => AllocFrame
  BY DEF Startup, ProbeDevice, ProbeDone, SpawnCpu, SpawnCpuFails, SpawnGpu, StartDone
<1>2. Shutdown \/ UNCHANGED vars => AllocFrame
  BY DEF Shutdown, JoinWorker, StopDone, MinerFree, vars
<1>3. MinerTakeNonceExhausted \/ MinerPopShare \/ MinerStop => AllocFrame
  BY DEF MinerTakeNonceExhausted, MinerPopShare, MinerStop
<1>4. \A p \in BOOLEAN : MinerSetPaused(p) => AllocFrame
  BY DEF MinerSetPaused
<1>5. ASSUME NEW w \in Workers,
             WorkerCheck(w) \/ CopyExhausted(w) \/ CopyNothing(w) \/ WaitForWork(w) \/ SpuriousWake(w)
      PROVE  AllocFrame
  BY <1>5 DEF WorkerCheck, CopyExhausted, CopyNothing, WaitForWork, SpuriousWake
<1> QED
  BY <1>1, <1>2, <1>3, <1>4, <1>5

(* A hand-out: the new range begins where all the others of its job end. *)
LEMMA AllocCopy ==
  ASSUME TypeOK, AllocInv, NEW w \in Workers, CopyRange(w)
  PROVE  AllocInv'
<1> DEFINE r == [seq |-> job.seq, epoch |-> pause_epoch,
                 start |-> next_nonce, count |-> RangeCount(w)]
<1>1. RangeCount(w) \in Nat \ {0} /\ next_nonce + RangeCount(w) <= MaxNonce + 1
  BY RangeCountBounds DEF CopyRange
<1>2. /\ range' = [range EXCEPT ![w] = r]
      /\ todo' = [todo EXCEPT ![w] = NoncesOf(r)]
      /\ next_nonce' = next_nonce + RangeCount(w)
      /\ handed' = [n \in Nonces |-> handed[n] + (IF n \in NoncesOf(r) THEN 1 ELSE 0)]
      /\ job' = job
      /\ pc' = [pc EXCEPT ![w] = "scan"]
  BY DEF CopyRange
<1> USE DEF TypeOK, WorkTypes, WorkerTypes
<1>3. ASSUME NEW v \in Workers
      PROVE  RangeBound(v)'
  <2>1. CASE v = w
    BY <1>1, <1>2, <2>1, SizeAssumption DEF RangeBound, NoncesOf
  <2>2. CASE v # w
    <3>1. pc'[v] = pc[v] /\ range'[v] = range[v] /\ todo'[v] = todo[v] /\ RangeBound(v)
      BY <1>2, <2>2 DEF AllocInv
    <3>2. range[v].start \in Nat /\ range[v].count \in Nat /\ range[v].seq \in Nat
      BY DEF NonceRange
    <3>3. next_nonce \in Nat /\ next_nonce' \in Nat /\ next_nonce <= next_nonce'
      BY <1>1, <1>2
    <3>4. SUFFICES ASSUME pc[v] = "scan"
                   PROVE  /\ range[v].seq <= job.seq
                          /\ range[v].seq = job.seq => range[v].start + range[v].count <= next_nonce'
                          /\ todo[v] \subseteq NoncesOf(range[v])
      BY <1>2, <3>1 DEF RangeBound, NoncesOf
    <3>5. /\ range[v].seq <= job.seq
          /\ range[v].seq = job.seq => range[v].start + range[v].count <= next_nonce
          /\ todo[v] \subseteq NoncesOf(range[v])
      BY <3>1, <3>4 DEF RangeBound
    <3> QED BY <3>2, <3>3, <3>5
  <2> QED BY <2>1, <2>2
<1>4. RangesDisjoint'
  <2> SUFFICES ASSUME NEW u \in Workers, NEW v \in Workers, u # v,
                      pc'[u] = "scan", pc'[v] = "scan", range'[u].seq = range'[v].seq
               PROVE  NoncesOf(range'[u]) \cap NoncesOf(range'[v]) = {}
    BY DEF RangesDisjoint, NoncesOf
  <2>0. ASSUME NEW x \in Workers, x # w, pc'[x] = "scan", range'[x].seq = job.seq
        PROVE  NoncesOf(range'[x]) \cap NoncesOf(range'[w]) = {}
    <3>1. range'[x] = range[x] /\ pc[x] = "scan" /\ range'[w] = r
      BY <1>2, <2>0
    <3>2. range[x].start + range[x].count <= next_nonce
      BY <2>0, <3>1 DEF AllocInv, RangeBound
    <3>3. range[x].start \in Nat /\ range[x].count \in Nat
      BY DEF NonceRange
    <3> QED BY <1>1, <3>1, <3>2, <3>3 DEF NoncesOf
  <2>1. CASE u = w
    BY <1>2, <2>0, <2>1
  <2>2. CASE v = w
    BY <1>2, <2>0, <2>2
  <2>3. CASE u # w /\ v # w
    BY <1>2, <2>3 DEF AllocInv, RangesDisjoint
  <2> QED BY <2>1, <2>2, <2>3
<1>5. HandedExactlyOnce'
  BY <1>1, <1>2, SizeAssumption DEF AllocInv, HandedExactlyOnce, HistoryTypes, Nonces, NoncesOf
<1> QED
  BY <1>3, <1>4, <1>5 DEF AllocInv

(* Every step keeps the allocator's invariant. *)
LEMMA AllocNext == TypeOK /\ AllocInv /\ [Next]_vars => AllocInv'
<1> SUFFICES ASSUME TypeOK, AllocInv, [Next]_vars
             PROVE  AllocInv'
  OBVIOUS
<1>1. AllocFrame => AllocInv'
  BY AllocFrameInv
<1>2. CASE MinerSetJob
  <2>1. /\ job'.seq = job.seq + 1 /\ next_nonce' = 0
        /\ handed' = [n \in Nonces |-> 0] /\ UNCHANGED <<range, todo>>
        /\ \A w \in Workers : pc'[w] = "scan" => pc[w] = "scan"
    BY <1>2 DEF MinerSetJob, Broadcast, locals
  <2>2. ASSUME NEW w \in Workers PROVE RangeBound(w)'
    BY <2>1 DEF AllocInv, RangeBound, NoncesOf, TypeOK, WorkTypes, WorkerTypes, NonceRange
  <2>3. RangesDisjoint'
    BY <2>1 DEF AllocInv, RangesDisjoint, NoncesOf
  <2>4. HandedExactlyOnce'
    BY <2>1 DEF HandedExactlyOnce, Nonces
  <2> QED BY <2>2, <2>3, <2>4 DEF AllocInv
<1>3. ASSUME NEW w \in Workers, CopyRange(w) PROVE AllocInv'
  BY <1>3, AllocCopy
<1>4. ASSUME NEW w \in Workers, NEW n \in Nonces, ScanMatch(w, n) PROVE AllocInv'
  <2>1. /\ UNCHANGED <<job, next_nonce, handed, pc, range>>
        /\ \A v \in Workers : todo'[v] \subseteq todo[v]
    BY <1>4 DEF ScanMatch, work, history, TypeOK, WorkerTypes
  <2> QED
    BY <2>1 DEF AllocInv, RangeBound, RangesDisjoint, HandedExactlyOnce, NoncesOf
<1>5. ASSUME NEW w \in Workers, ScanDone(w) \/ ScanFails(w) PROVE AllocInv'
  <2>1. /\ UNCHANGED <<job, next_nonce, handed>>
        /\ \A v \in Workers : pc'[v] = "scan" =>
             pc[v] = "scan" /\ range'[v] = range[v] /\ todo'[v] = todo[v]
    BY <1>5 DEF ScanDone, ScanFails, LeaveScan, work, TypeOK, WorkerTypes
  <2> QED
    BY <2>1 DEF AllocInv, RangeBound, RangesDisjoint, HandedExactlyOnce, NoncesOf
<1> QED
  BY <1>1, <1>2, <1>3, <1>4, <1>5, AllocFrameSteps
     DEF Next, Operation, Worker, Terminated

(* The allocator's invariant holds throughout: ranges lie below            *)
(* next_nonce, are disjoint, and each nonce is handed out once.            *)
LEMMA AllocInvariant == Spec => []AllocInv
<1>1. Init => AllocInv
  BY SizeAssumption DEF Init, AllocInv, RangeBound, RangesDisjoint, HandedExactlyOnce, Nonces
<1>2. TypeOK /\ AllocInv /\ [Next]_vars => AllocInv'
  BY AllocNext
<1> QED
  BY <1>1, <1>2, TypeCorrect, PTL DEF Spec

(* No two workers ever scan the same nonce of the same job at once. *)
THEOREM RangesNeverOverlap == Spec => []RangesDisjoint
<1>1. AllocInv => RangesDisjoint
  BY DEF AllocInv
<1> QED
  BY <1>1, AllocInvariant, PTL

(* The allocator gives out every nonce of a job at most once, in order. *)
THEOREM AllocatorExact == Spec => []HandedExactlyOnce
<1>1. AllocInv => HandedExactlyOnce
  BY DEF AllocInv
<1> QED
  BY <1>1, AllocInvariant, PTL

-----------------------------------------------------------------------------
(* The share queue: what the owning thread receives through                *)
(* miner_pop_share is for the active job and is received once.             *)

ShareOf(w, n) == [seq |-> range[w].seq, nonce |-> n]

(* What was delivered came from ranges already handed out. *)
DeliveredBound ==
    \A d \in delivered : d.seq <= job.seq /\ (d.seq = job.seq => d.nonce < next_nonce)

(* What a scan may still report was never queued nor delivered.  With      *)
(* RangesDisjoint this is what makes NoDuplicateShares inductive.          *)
UnreportedFresh ==
    \A w \in Workers : pc[w] = "scan" =>
        \A n \in todo[w] : /\ ShareOf(w, n) \notin delivered
                           /\ \A i \in LiveSlots : shares[i] # ShareOf(w, n)

ShareInv == QueueConsistent /\ NoDuplicateShares /\ DeliveredBound /\ UnreportedFresh

(* The slot written by queue_share_locked was free and becomes live. *)
LEMMA LiveEnqueue ==
  ASSUME TypeOK, QueueConsistent, NEW s, Enqueue(s)
  PROVE  /\ share_tail \in Slots /\ share_tail \notin LiveSlots
         /\ LiveSlots' = LiveSlots \cup {share_tail}
         /\ share_tail' = (share_head' + share_count') % QueueSize
<1>1. /\ QueueSize \in Nat \ {0} /\ share_head \in 0..(QueueSize - 1)
      /\ share_tail \in 0..(QueueSize - 1) /\ share_count \in 0..(QueueSize - 1)
      /\ share_head' = share_head /\ share_count' = share_count + 1
  BY SizeAssumption DEF TypeOK, QueueTypes, Slots, Enqueue
<1>2. share_tail = IF share_head + share_count < QueueSize
                   THEN share_head + share_count ELSE share_head + share_count - QueueSize
  BY <1>1, RingMod DEF QueueConsistent
<1>3. share_tail' = IF share_tail + 1 < QueueSize THEN share_tail + 1 ELSE 0
  BY <1>1, RingMod DEF Enqueue
<1>4. (share_head' + share_count') % QueueSize =
        IF share_head + share_count + 1 < QueueSize
        THEN share_head + share_count + 1 ELSE share_head + share_count + 1 - QueueSize
  BY <1>1, RingMod
<1>5. share_tail \in Slots /\ share_tail \notin LiveSlots
  BY <1>1, <1>2 DEF LiveSlots, Slots
<1>6. LiveSlots' = LiveSlots \cup {share_tail}
  BY <1>1, <1>2 DEF LiveSlots, Slots
<1> QED
  BY <1>1, <1>2, <1>3, <1>4, <1>5, <1>6

(* miner_pop_share frees exactly the slot it read. *)
LEMMA LivePop ==
  ASSUME TypeOK, QueueConsistent, MinerPopShare
  PROVE  /\ share_head \in LiveSlots
         /\ LiveSlots' = LiveSlots \ {share_head}
         /\ share_tail' = (share_head' + share_count') % QueueSize
<1>1. /\ QueueSize \in Nat \ {0} /\ share_head \in 0..(QueueSize - 1)
      /\ share_tail' = share_tail /\ share_count \in 1..QueueSize
      /\ share_count' = share_count - 1
  BY SizeAssumption DEF TypeOK, QueueTypes, Slots, MinerPopShare
<1>2. share_tail = IF share_head + share_count < QueueSize
                   THEN share_head + share_count ELSE share_head + share_count - QueueSize
  BY <1>1, RingMod DEF QueueConsistent
<1>3. share_head' = IF share_head + 1 < QueueSize THEN share_head + 1 ELSE 0
  BY <1>1, RingMod DEF MinerPopShare
<1>4. (share_head' + share_count') % QueueSize =
        IF share_head' + share_count' < QueueSize
        THEN share_head' + share_count' ELSE share_head' + share_count' - QueueSize
  BY <1>1, <1>3, RingMod
<1>5. share_head \in LiveSlots
  BY <1>1 DEF LiveSlots, Slots
<1>6. LiveSlots' = LiveSlots \ {share_head}
  BY <1>1, <1>3 DEF LiveSlots, Slots
<1> QED
  BY <1>1, <1>2, <1>3, <1>4, <1>5, <1>6

(* A step that queues and delivers nothing, gives out no range and forgets *)
(* no job.                                                                 *)
ShareFrame ==
    /\ UNCHANGED <<shares, share_head, share_tail, share_count, delivered, next_nonce>>
    /\ job'.seq = job.seq
    /\ \A w \in Workers : pc'[w] = "scan" =>
         pc[w] = "scan" /\ range'[w] = range[w] /\ todo'[w] \subseteq todo[w]

(* What does not touch the queue keeps its invariant. *)
LEMMA ShareFrameInv == TypeOK /\ ShareInv /\ ShareFrame => ShareInv'
<1> SUFFICES ASSUME TypeOK, ShareInv, ShareFrame
             PROVE  ShareInv'
  OBVIOUS
<1>1. LiveSlots' = LiveSlots
  BY DEF ShareFrame, LiveSlots
<1>2. QueueConsistent' /\ DeliveredBound'
  BY <1>1 DEF ShareFrame, ShareInv, QueueConsistent, DeliveredBound
<1>3. NoDuplicateShares'
  BY <1>1 DEF ShareFrame, ShareInv, NoDuplicateShares
<1>4. UnreportedFresh'
  BY <1>1 DEF ShareFrame, ShareInv, UnreportedFresh, ShareOf
<1> QED
  BY <1>2, <1>3, <1>4 DEF ShareInv

(* The steps that leave the queue, the job and the ranges alone. *)
LEMMA ShareFrameSteps ==
  ASSUME TypeOK
  PROVE  /\ Startup \/ Shutdown \/ UNCHANGED vars => ShareFrame
         /\ MinerTakeNonceExhausted \/ MinerStop => ShareFrame
         /\ \A p \in BOOLEAN : MinerSetPaused(p) => ShareFrame
         /\ \A w \in Workers :
              WorkerCheck(w) \/ CopyExhausted(w) \/ CopyNothing(w) \/ WaitForWork(w)
              \/ SpuriousWake(w) \/ ScanDone(w) \/ ScanFails(w) => ShareFrame
<1> USE DEF ShareFrame, TypeOK, WorkerTypes, WorkTypes, Broadcast,
            control, work, queue, counts, life, locals, history
<1>1. Startup => ShareFrame
  BY DEF Startup, ProbeDevice, ProbeDone, SpawnCpu, SpawnCpuFails, SpawnGpu, StartDone
<1>2. Shutdown \/ UNCHANGED vars => ShareFrame
  BY DEF Shutdown, JoinWorker, StopDone, MinerFree, vars
<1>3. MinerTakeNonceExhausted \/ MinerStop => ShareFrame
  BY DEF MinerTakeNonceExhausted, MinerStop
<1>4. \A p \in BOOLEAN : MinerSetPaused(p) => ShareFrame
  BY DEF MinerSetPaused
<1>5. ASSUME NEW w \in Workers,
             WorkerCheck(w) \/ CopyExhausted(w) \/ CopyNothing(w) \/ WaitForWork(w) \/ SpuriousWake(w)
      PROVE  ShareFrame
  BY <1>5 DEF WorkerCheck, CopyExhausted, CopyNothing, WaitForWork, SpuriousWake
<1>6. ASSUME NEW w \in Workers, ScanDone(w) \/ ScanFails(w)
      PROVE  ShareFrame
  BY <1>6 DEF ScanDone, ScanFails, LeaveScan
<1> QED
  BY <1>1, <1>2, <1>3, <1>4, <1>5, <1>6

(* miner_set_job empties the queue; whatever was delivered or is still     *)
(* being scanned belongs to an older job.                                  *)
LEMMA ShareSetJob ==
  ASSUME TypeOK, AllocInv, ShareInv, MinerSetJob
  PROVE  ShareInv'
<1>1. /\ job'.seq = job.seq + 1 /\ job.seq \in Nat /\ next_nonce' = 0
      /\ share_head' = 0 /\ share_tail' = 0 /\ share_count' = 0
      /\ UNCHANGED <<delivered, range, todo, shares>>
      /\ \A w \in Workers : pc'[w] = "scan" => pc[w] = "scan"
  BY DEF MinerSetJob, Broadcast, locals, TypeOK, WorkTypes
<1>2. LiveSlots' = {}
  BY <1>1, SizeAssumption DEF LiveSlots, Slots
<1>3. QueueConsistent' /\ NoDuplicateShares'
  BY <1>1, <1>2, RingMod, SizeAssumption DEF QueueConsistent, NoDuplicateShares
<1>4. DeliveredBound'
  BY <1>1 DEF ShareInv, DeliveredBound, TypeOK, HistoryTypes, Share
<1>5. UnreportedFresh'
  BY <1>1, <1>2 DEF ShareInv, UnreportedFresh, ShareOf
<1> QED
  BY <1>3, <1>4, <1>5 DEF ShareInv

(* miner_pop_share takes the oldest share out of the ring for good. *)
LEMMA SharePop ==
  ASSUME TypeOK, ShareInv, MinerPopShare
  PROVE  ShareInv'
<1>1. /\ UNCHANGED <<job, next_nonce, shares, pc, range, todo>>
      /\ delivered' = delivered \cup {shares[share_head]}
  BY DEF MinerPopShare, work, locals
<1>2. /\ share_head \in LiveSlots /\ LiveSlots' = LiveSlots \ {share_head}
      /\ share_tail' = (share_head' + share_count') % QueueSize
  BY LivePop DEF ShareInv
<1>3. QueueConsistent'
  BY <1>1, <1>2 DEF ShareInv, QueueConsistent
<1>4. NoDuplicateShares'
  BY <1>1, <1>2 DEF ShareInv, NoDuplicateShares
<1>5. DeliveredBound'
  BY <1>1, <1>2 DEF ShareInv, QueueConsistent, DeliveredBound, TypeOK, WorkTypes
<1>6. UnreportedFresh'
  BY <1>1, <1>2 DEF ShareInv, UnreportedFresh, ShareOf
<1> QED
  BY <1>3, <1>4, <1>5, <1>6 DEF ShareInv

(* The nonces of a new range are above every nonce queued or delivered. *)
LEMMA ShareCopy ==
  ASSUME TypeOK, ShareInv, NEW w \in Workers, CopyRange(w)
  PROVE  ShareInv'
<1> DEFINE r == [seq |-> job.seq, epoch |-> pause_epoch,
                 start |-> next_nonce, count |-> RangeCount(w)]
<1>1. RangeCount(w) \in Nat /\ next_nonce \in Nat
  BY RangeCountBounds DEF CopyRange, TypeOK, WorkTypes
<1>2. /\ range' = [range EXCEPT ![w] = r]
      /\ todo' = [todo EXCEPT ![w] = NoncesOf(r)]
      /\ next_nonce' = next_nonce + RangeCount(w)
      /\ job' = job /\ pc' = [pc EXCEPT ![w] = "scan"] /\ delivered' = delivered
      /\ UNCHANGED <<shares, share_head, share_tail, share_count>>
  BY DEF CopyRange, queue
<1>3. LiveSlots' = LiveSlots /\ LiveSlots \subseteq Slots
  BY <1>2 DEF LiveSlots
<1>4. QueueConsistent' /\ NoDuplicateShares'
  BY <1>1, <1>2, <1>3
     DEF ShareInv, QueueConsistent, NoDuplicateShares, TypeOK, QueueTypes, Share, Nonces
<1>5. DeliveredBound'
  BY <1>1, <1>2 DEF ShareInv, DeliveredBound, TypeOK, HistoryTypes, Share, Nonces
<1>6. UnreportedFresh'
  <2> SUFFICES ASSUME NEW v \in Workers, pc'[v] = "scan", NEW n \in todo'[v]
               PROVE  /\ ShareOf(v, n)' \notin delivered
                      /\ \A i \in LiveSlots : shares[i] # ShareOf(v, n)'
    BY <1>2, <1>3 DEF UnreportedFresh, ShareOf
  <2>1. CASE v = w
    <3>1. ShareOf(v, n)' = [seq |-> job.seq, nonce |-> n] /\ n \in Int /\ n >= next_nonce
      BY <1>1, <1>2, <2>1 DEF ShareOf, TypeOK, WorkerTypes, NoncesOf
    <3>2. ShareOf(v, n)' \notin delivered
      BY <1>1, <3>1 DEF ShareInv, DeliveredBound, TypeOK, HistoryTypes, Share, Nonces
    <3>3. ASSUME NEW i \in LiveSlots PROVE shares[i] # ShareOf(v, n)'
      <4>1. shares[i] \in Share /\ shares[i].nonce < next_nonce
        BY <1>3 DEF ShareInv, QueueConsistent, TypeOK, QueueTypes
      <4> QED
        BY <1>1, <3>1, <4>1 DEF Share, Nonces
    <3> QED
      BY <3>2, <3>3
  <2>2. CASE v # w
    BY <1>2, <2>2 DEF ShareInv, UnreportedFresh, ShareOf, TypeOK, WorkerTypes
  <2> QED BY <2>1, <2>2
<1> QED
  BY <1>4, <1>5, <1>6 DEF ShareInv

(* A queued share comes from one scan only, and the scan does not report   *)
(* it again.                                                               *)
LEMMA ShareMatch ==
  ASSUME TypeOK, AllocInv, ShareInv,
         NEW w \in Workers, NEW n \in Nonces, ScanMatch(w, n)
  PROVE  ShareInv'
<1> DEFINE s == ShareOf(w, n)
<1>1. /\ UNCHANGED <<job, next_nonce, pc, range, delivered>>
      /\ pc[w] = "scan" /\ n \in todo[w] /\ n \notin todo'[w]
      /\ \A v \in Workers : todo'[v] \subseteq todo[v]
  <2>1. UNCHANGED <<job, next_nonce, pc, range, delivered>> /\ pc[w] = "scan" /\ n \in todo[w]
    BY DEF ScanMatch, work, history
  <2>2. todo' = [todo EXCEPT ![w] = IF IsCpu(w) THEN {m \in todo[w] : m > n} ELSE todo[w] \ {n}]
    BY DEF ScanMatch
  <2>3. ~(n > n)
    BY SizeAssumption DEF Nonces
  <2> QED
    BY <2>1, <2>2, <2>3 DEF TypeOK, WorkerTypes
<1>2. CASE UNCHANGED queue
  <2>1. ShareFrame
    BY <1>1, <1>2 DEF ShareFrame, queue
  <2> QED BY <2>1, ShareFrameInv
<1>3. CASE StillCurrent(w) /\ Enqueue(s)
  <2>1. /\ share_tail \in Slots /\ share_tail \notin LiveSlots
        /\ LiveSlots' = LiveSlots \cup {share_tail}
        /\ share_tail' = (share_head' + share_count') % QueueSize
    BY <1>3, LiveEnqueue DEF ShareInv
  <2>2. /\ shares'[share_tail] = s
        /\ \A i \in LiveSlots : shares'[i] = shares[i]
    BY <1>3, <2>1 DEF Enqueue, TypeOK, QueueTypes, LiveSlots
  <2>3. s.seq = job.seq /\ s.nonce < next_nonce
    <3>1. range[w] \in NonceRange /\ range[w].seq = job.seq
      BY <1>3 DEF StillCurrent, TypeOK, WorkerTypes
    <3>2. n \in NoncesOf(range[w]) /\ range[w].start + range[w].count <= next_nonce
      BY <1>1, <3>1 DEF AllocInv, RangeBound
    <3> QED
      BY <3>1, <3>2 DEF ShareOf, NonceRange, NoncesOf, TypeOK, WorkTypes
  <2>4. /\ s \notin delivered
        /\ \A i \in LiveSlots : shares[i] # s
    BY <1>1 DEF ShareInv, UnreportedFresh
  <2>5. ASSUME NEW v \in Workers, pc[v] = "scan", NEW m \in todo'[v]
        PROVE  ShareOf(v, m) # s
    <3>1. CASE v = w
      BY <1>1, <2>5, <3>1 DEF ShareOf
    <3>2. CASE v # w /\ range[v].seq = range[w].seq
      <4>1. m \in NoncesOf(range[v]) /\ n \in NoncesOf(range[w])
        BY <1>1, <2>5 DEF AllocInv, RangeBound
      <4>2. NoncesOf(range[v]) \cap NoncesOf(range[w]) = {}
        BY <1>1, <2>5, <3>2 DEF AllocInv, RangesDisjoint
      <4> QED BY <4>1, <4>2 DEF ShareOf
    <3>3. CASE range[v].seq # range[w].seq
      BY <3>3 DEF ShareOf
    <3> QED BY <3>1, <3>2, <3>3
  <2> HIDE DEF s
  <2>6. QueueConsistent'
    BY <1>1, <2>1, <2>2, <2>3 DEF ShareInv, QueueConsistent
  <2>7. NoDuplicateShares'
    BY <1>1, <2>1, <2>2, <2>4 DEF ShareInv, NoDuplicateShares
  <2>8. DeliveredBound'
    BY <1>1 DEF ShareInv, DeliveredBound
  <2>9. UnreportedFresh'
    BY <1>1, <2>1, <2>2, <2>5 DEF ShareInv, UnreportedFresh, ShareOf
  <2> QED
    BY <2>6, <2>7, <2>8, <2>9 DEF ShareInv
<1> QED
  BY <1>2, <1>3, MatchOutcome DEF ShareOf

(* Every step of the miner keeps the queue free of old, repeated and       *)
(* already delivered shares.                                               *)
LEMMA ShareNext == TypeOK /\ AllocInv /\ ShareInv /\ [Next]_vars => ShareInv'
<1> SUFFICES ASSUME TypeOK, AllocInv, ShareInv, [Next]_vars
             PROVE  ShareInv'
  OBVIOUS
<1>1. ShareFrame => ShareInv'
  BY ShareFrameInv
<1>2. MinerSetJob => ShareInv'
  BY ShareSetJob
<1>3. MinerPopShare => ShareInv'
  BY SharePop
<1>4. ASSUME NEW w \in Workers, CopyRange(w) PROVE ShareInv'
  BY <1>4, ShareCopy
<1>5. ASSUME NEW w \in Workers, NEW n \in Nonces, ScanMatch(w, n) PROVE ShareInv'
  BY <1>5, ShareMatch
<1> QED
  BY <1>1, <1>2, <1>3, <1>4, <1>5, ShareFrameSteps
     DEF Next, Operation, Worker, Terminated

(* The queue's invariant holds throughout. *)
LEMMA ShareInvariant == Spec => []ShareInv
<1>1. Init => ShareInv
  <2> SUFFICES ASSUME Init PROVE ShareInv
    OBVIOUS
  <2>1. LiveSlots = {}
    BY SizeAssumption DEF Init, LiveSlots, Slots
  <2>2. share_tail = (share_head + share_count) % QueueSize
    BY RingMod, SizeAssumption DEF Init
  <2> QED
    BY <2>1, <2>2 DEF Init, ShareInv, QueueConsistent, NoDuplicateShares, DeliveredBound, UnreportedFresh
<1>2. TypeOK /\ AllocInv /\ ShareInv /\ [Next]_vars => ShareInv'
  BY ShareNext
<1> QED
  BY <1>1, <1>2, TypeCorrect, AllocInvariant, PTL DEF Spec

(* miner_pop_share never returns the same share twice. *)
THEOREM SharesDeliveredOnce == Spec => []NoDuplicateShares
<1>1. ShareInv => NoDuplicateShares
  BY DEF ShareInv
<1> QED
  BY <1>1, ShareInvariant, PTL

(* The ring of miner_t stays consistent and holds only shares of the       *)
(* active job, on nonces that were handed out.                             *)
THEOREM QueueHoldsCurrentShares == Spec => []QueueConsistent
<1>1. ShareInv => QueueConsistent
  BY DEF ShareInv
<1> QED
  BY <1>1, ShareInvariant, PTL

-----------------------------------------------------------------------------
(* Life cycle of a miner: nonce exhaustion, the pause barrier, and         *)
(* miner_start / miner_stop / miner_destroy with every step that can fail. *)

(* The exhaustion flag is raised together with the retirement of the job   *)
(* and cleared together with its replacement.                              *)
LEMMA ExhaustionNext == TypeOK /\ ExhaustionSound /\ [Next]_vars => ExhaustionSound'
<1> SUFFICES ASSUME TypeOK, ExhaustionSound, [Next]_vars
             PROVE  ExhaustionSound'
  OBVIOUS
<1>1. UNCHANGED work => ExhaustionSound'
  BY DEF work, ExhaustionSound
<1>2. CASE Startup \/ Shutdown \/ UNCHANGED vars
  BY <1>1, <1>2 DEF Startup, ProbeDevice, ProbeDone, SpawnCpu, SpawnCpuFails, SpawnGpu, StartDone,
                    Shutdown, JoinWorker, StopDone, MinerFree, vars
<1>3. CASE Operation
  <2>1. CASE MinerSetJob
    BY <2>1 DEF MinerSetJob, ExhaustionSound
  <2>2. CASE MinerTakeNonceExhausted
    BY <2>2 DEF MinerTakeNonceExhausted, ExhaustionSound
  <2>3. CASE MinerPopShare \/ MinerStop \/ \E p \in BOOLEAN : MinerSetPaused(p)
    BY <1>1, <2>3 DEF MinerPopShare, MinerStop, MinerSetPaused
  <2> QED BY <1>3, <2>1, <2>2, <2>3 DEF Operation
<1>4. ASSUME NEW w \in Workers, Worker(w) \/ SpuriousWake(w)
      PROVE  ExhaustionSound'
  <2>1. CASE CopyExhausted(w)
    BY <2>1, SizeAssumption DEF CopyExhausted, ExhaustionSound, TypeOK, WorkTypes
  <2>2. CASE CopyRange(w)
    BY <2>2 DEF CopyRange, ExhaustionSound
  <2>3. CASE WorkerCheck(w) \/ CopyNothing(w) \/ WaitForWork(w) \/ SpuriousWake(w)
             \/ (\E n \in Nonces : ScanMatch(w, n)) \/ ScanDone(w) \/ ScanFails(w)
    BY <1>1, <2>3 DEF WorkerCheck, CopyNothing, WaitForWork, SpuriousWake, ScanMatch,
                      ScanDone, ScanFails
  <2> QED BY <1>4, <2>1, <2>2, <2>3 DEF Worker
<1> QED
  BY <1>2, <1>3, <1>4 DEF Next, Terminated

(* A reported exhaustion is the active job's, and the job is given up only *)
(* when its last nonce was handed out.                                     *)
THEOREM ExhaustionIsSound == Spec => []ExhaustionSound
<1>1. Init => ExhaustionSound
  BY DEF Init, ExhaustionSound
<1>2. TypeOK /\ ExhaustionSound /\ [Next]_vars => ExhaustionSound'
  BY ExhaustionNext
<1> QED
  BY <1>1, <1>2, TypeCorrect, PTL DEF Spec

-----------------------------------------------------------------------------
(* The pause barrier. *)

(* A scan that a pause interrupted carries an older pause_epoch, and it    *)
(* keeps an older one for ever because the epoch never decreases.          *)
EpochInv ==
    \A w \in Workers : pc[w] = "scan" =>
        /\ range[w].epoch <= pause_epoch
        /\ interrupted[w] => range[w].epoch < pause_epoch

(* Every step of the miner keeps the epoch of a range handed out before a  *)
(* pause behind pause_epoch.                                               *)
LEMMA EpochNext == TypeOK /\ EpochInv /\ [Next]_vars => EpochInv'
<1> SUFFICES ASSUME TypeOK, EpochInv, [Next]_vars
             PROVE  EpochInv'
  OBVIOUS
<1> USE DEF TypeOK, WorkerTypes, WorkTypes, EpochInv, control, locals, history
<1>1. ASSUME UNCHANGED <<pause_epoch, range, interrupted>>,
             \A w \in Workers : pc'[w] = "scan" => pc[w] = "scan"
      PROVE  EpochInv'
  BY <1>1
<1>2. CASE Startup \/ Shutdown \/ UNCHANGED vars
  BY <1>1, <1>2 DEF Startup, ProbeDevice, ProbeDone, SpawnCpu, SpawnCpuFails, SpawnGpu, StartDone,
                    Shutdown, JoinWorker, StopDone, MinerFree, vars, Broadcast
<1>3. CASE MinerSetJob \/ MinerTakeNonceExhausted \/ MinerPopShare \/ MinerStop
  BY <1>1, <1>3 DEF MinerSetJob, MinerTakeNonceExhausted, MinerPopShare, MinerStop, Broadcast
<1>4. ASSUME NEW p \in BOOLEAN, MinerSetPaused(p)
      PROVE  EpochInv'
  <2> SUFFICES ASSUME NEW w \in Workers, pc'[w] = "scan"
               PROVE  /\ range'[w].epoch <= pause_epoch'
                      /\ interrupted'[w] => range'[w].epoch < pause_epoch'
    OBVIOUS
  <2>1. pc[w] = "scan" /\ range' = range /\ range[w].epoch \in Nat
    BY <1>4 DEF MinerSetPaused, Broadcast, NonceRange
  <2>2. CASE ~paused /\ p
    BY <1>4, <2>1, <2>2 DEF MinerSetPaused
  <2>3. CASE ~(~paused /\ p)
    <3>1. pause_epoch' = pause_epoch /\ (interrupted'[w] => interrupted[w])
      BY <1>4, <2>3 DEF MinerSetPaused
    <3> QED BY <2>1, <3>1
  <2> QED BY <2>2, <2>3
<1>5. ASSUME NEW w \in Workers, Worker(w) \/ SpuriousWake(w)
      PROVE  EpochInv'
  <2>1. CASE CopyRange(w)
    BY <2>1 DEF CopyRange
  <2>2. CASE ScanDone(w) \/ ScanFails(w)
    BY <2>2 DEF ScanDone, ScanFails, LeaveScan
  <2>3. CASE WorkerCheck(w) \/ CopyExhausted(w) \/ CopyNothing(w) \/ WaitForWork(w)
             \/ SpuriousWake(w) \/ (\E n \in Nonces : ScanMatch(w, n))
    BY <1>1, <2>3 DEF WorkerCheck, CopyExhausted, CopyNothing, WaitForWork, SpuriousWake, ScanMatch
  <2> QED BY <1>5, <2>1, <2>2, <2>3 DEF Worker
<1> QED
  BY <1>2, <1>3, <1>4, <1>5 DEF Next, Operation, Terminated

(* A result is accepted only from a scan that no pause interrupted. *)
LEMMA BarrierStep ==
  ASSUME TypeOK, EpochInv, [Next]_vars, share_count' > share_count \/ hashes' > hashes
  PROVE  /\ ~paused
         /\ \E w \in Workers :
              /\ pc[w] = "scan" /\ ~interrupted[w]
              /\ (todo'[w] # todo[w] \/ pc'[w] # pc[w])
<1> USE DEF TypeOK, QueueTypes, WorkTypes, WorkerTypes
<1>1. ~(UNCHANGED <<share_count, hashes>>)
  OBVIOUS
<1>2. ASSUME NEW w \in Workers, pc[w] = "scan", StillCurrent(w)
      PROVE  ~paused /\ ~interrupted[w]
  BY <1>2 DEF StillCurrent, EpochInv, NonceRange
<1>3. CASE \E w \in Workers, n \in Nonces : ScanMatch(w, n)
  <2>1. PICK w \in Workers, n \in Nonces : ScanMatch(w, n)
    BY <1>3
  <2>2. StillCurrent(w) /\ pc[w] = "scan"
    BY <1>1, <2>1 DEF ScanMatch, queue, counts
  <2>3. todo'[w] # todo[w]
    <3>1. n \in todo[w] /\ ~(n > n)
      BY <2>1, SizeAssumption DEF ScanMatch, Nonces
    <3>2. n \notin todo'[w]
      BY <2>1, <3>1 DEF ScanMatch
    <3> QED BY <3>1, <3>2
  <2> QED BY <1>2, <2>2, <2>3
<1>4. CASE \E w \in Workers : ScanDone(w)
  <2>1. PICK w \in Workers : ScanDone(w)
    BY <1>4
  <2>2. StillCurrent(w) /\ pc[w] = "scan" /\ pc'[w] # pc[w]
    BY <1>1, <2>1 DEF ScanDone, LeaveScan, queue, counts
  <2> QED BY <1>2, <2>2
<1>5. CASE MinerSetJob \/ MinerPopShare
  BY <1>5, SizeAssumption DEF MinerSetJob, MinerPopShare, counts
<1>6. CASE Startup \/ Shutdown \/ UNCHANGED vars
  BY <1>1, <1>6 DEF Startup, ProbeDevice, ProbeDone, SpawnCpu, SpawnCpuFails, SpawnGpu, StartDone,
                    Shutdown, JoinWorker, StopDone, MinerFree, vars, queue, counts
<1>7. CASE MinerTakeNonceExhausted \/ MinerStop \/ \E p \in BOOLEAN : MinerSetPaused(p)
  BY <1>1, <1>7 DEF MinerTakeNonceExhausted, MinerStop, MinerSetPaused, queue, counts
<1>8. CASE \E w \in Workers : WorkerCheck(w) \/ CopyRange(w) \/ CopyExhausted(w) \/ CopyNothing(w)
                              \/ WaitForWork(w) \/ SpuriousWake(w) \/ ScanFails(w)
  BY <1>1, <1>8 DEF WorkerCheck, CopyRange, CopyExhausted, CopyNothing, WaitForWork, SpuriousWake,
                    ScanFails, queue, counts
<1> QED
  BY <1>3, <1>4, <1>5, <1>6, <1>7, <1>8 DEF Next, Operation, Worker, Terminated

(* No share is queued and no hash counted from a range that was handed out *)
(* before a pause, even after the resume.                                  *)
THEOREM PauseIsBarrier == Spec => PauseBarrier
<1>1. Init => EpochInv
  BY DEF Init, EpochInv
<1>2. TypeOK /\ EpochInv /\ [Next]_vars => EpochInv'
  BY EpochNext
<1>3. TypeOK /\ EpochInv /\ [Next]_vars =>
        [(share_count' > share_count \/ hashes' > hashes) =>
           /\ ~paused
           /\ \E w \in Workers :
                 /\ pc[w] = "scan" /\ ~interrupted[w]
                 /\ (todo'[w] # todo[w] \/ pc'[w] # pc[w])]_vars
  BY BarrierStep
<1> QED
  BY <1>1, <1>2, <1>3, TypeCorrect, PTL DEF Spec, PauseBarrier

-----------------------------------------------------------------------------
(* miner_start, miner_stop, miner_destroy. *)

(* Threads and GPU handles agree with where the owning thread is:          *)
(* before a worker's turn in miner_start it has no thread, after its turn  *)
(* in miner_stop it has neither thread nor handle, and a live handle that  *)
(* has had its turn in miner_start has a thread.                           *)
ProbePart ==
    main = "probe" =>
        /\ cursor > CpuThreads
        /\ \A w \in Workers : pc[w] = "none" /\ device[w] # "destroyed"
        /\ \A w \in Workers : device[w] = "live" =>
             ~IsCpu(w) /\ (IsCuda(w) => cuda_started) /\ (IsOpencl(w) => opencl_started > 0)

SpawnPart ==
    main = "spawn" =>
        /\ \A w \in Workers : w >= cursor => pc[w] = "none"
        /\ \A w \in Workers : (w < cursor /\ device[w] = "live") => pc[w] # "none"
        /\ \A w \in Workers : (IsCpu(w) /\ w < cursor) => w <= thread_count
        /\ \A w \in Workers : IsCpu(w) => device[w] # "live"

JoinPart ==
    main = "joining" =>
        /\ \A w \in Workers : w < cursor => ~Exists(w) /\ device[w] # "live"
        /\ \A w \in Workers : IsCpu(w) => device[w] # "live"

CpuPart ==
    main \in {"running", "joining"} =>
        \A w \in Workers : IsCpu(w) => (pc[w] # "none" => w <= thread_count) /\ device[w] # "live"

LifeInv == ProbePart /\ SpawnPart /\ JoinPart /\ CpuPart /\ NoUseAfterDestroy

(* A step of a worker neither creates a thread nor touches a handle. *)
LEMMA LifeWorker ==
  ASSUME TypeOK, LifeInv, UNCHANGED life,
         \A w \in Workers : (Exists(w)' => Exists(w)) /\ (pc[w] = "none" <=> pc'[w] = "none")
  PROVE  LifeInv'
BY DEF LifeInv, ProbePart, SpawnPart, JoinPart, CpuPart, NoUseAfterDestroy, life,
       IsCpu, IsCuda, IsOpencl

(* miner_start never runs a GPU worker on a handle it has destroyed, and   *)
(* a start that fails leaves no thread behind.                             *)
LEMMA LifeStart == TypeOK /\ LifeInv /\ Startup => LifeInv'
<1> SUFFICES ASSUME TypeOK, LifeInv, Startup
             PROVE  LifeInv'
  OBVIOUS
<1> USE DEF TypeOK, LifeTypes, WorkerTypes
<1>1. CASE ProbeDevice
  <2>1. /\ main = "probe" /\ main' = main /\ pc' = pc /\ cursor \in Workers
        /\ \/ /\ device' = [device EXCEPT ![cursor] = "live"]
              /\ opencl_started' = opencl_started + (IF IsOpencl(cursor) THEN 1 ELSE 0)
              /\ cuda_started' = (cuda_started \/ IsCuda(cursor))
           \/ UNCHANGED <<device, opencl_started, cuda_started>>
    BY <1>1 DEF ProbeDevice, Workers
  <2>2. ~IsCpu(cursor)
    BY <1>1, WorkerAssumption DEF ProbeDevice, LifeInv, ProbePart, IsCpu
  <2>3. cursor' > CpuThreads
    BY <1>1, WorkerAssumption DEF ProbeDevice, LifeInv, ProbePart
  <2>4. \A w \in Workers : pc'[w] = "none" /\ device'[w] # "destroyed"
    BY <2>1 DEF LifeInv, ProbePart
  <2>5. ASSUME NEW w \in Workers, device'[w] = "live"
        PROVE  /\ ~IsCpu(w) /\ (IsCuda(w) => cuda_started')
               /\ (IsOpencl(w) => opencl_started' > 0)
    <3>1. ~IsCpu(w)
      BY <2>1, <2>2, <2>5 DEF LifeInv, ProbePart
    <3>2. IsCuda(w) => cuda_started'
      <4>1. CASE cuda_started
        BY <2>1, <4>1
      <4>2. CASE ~cuda_started
        BY <2>1, <2>5, <4>2 DEF LifeInv, ProbePart
      <4> QED BY <4>1, <4>2
    <3>3. IsOpencl(w) => opencl_started' > 0
      <4>1. CASE opencl_started > 0
        BY <2>1, <4>1
      <4>2. CASE opencl_started = 0
        BY <2>1, <2>5, <4>2 DEF LifeInv, ProbePart
      <4> QED BY <4>1, <4>2
    <3> QED BY <3>1, <3>2, <3>3
  <2>6. ProbePart'
    BY <2>3, <2>4, <2>5 DEF ProbePart, IsCpu, IsCuda, IsOpencl
  <2> QED
    BY <2>1, <2>4, <2>6 DEF LifeInv, SpawnPart, JoinPart, CpuPart, NoUseAfterDestroy, Exists
<1>2. CASE ProbeDone
  BY <1>2, WorkerAssumption
     DEF ProbeDone, LifeInv, ProbePart, SpawnPart, JoinPart, CpuPart, NoUseAfterDestroy, Exists,
         IsCpu, IsCuda, IsOpencl, Workers, NumWorkers
<1>3. CASE SpawnCpu
  BY <1>3, WorkerAssumption
     DEF SpawnCpu, LifeInv, ProbePart, SpawnPart, JoinPart, CpuPart, NoUseAfterDestroy, Exists,
         IsCpu, Workers, NumWorkers
<1>4. CASE SpawnCpuFails
  <2>1. /\ main = "spawn" /\ cursor <= CpuThreads /\ main' = "joining" /\ cursor' = 1
        /\ thread_count' = cursor - 1 /\ pc' = Broadcast(pc)
        /\ \A w \in Workers : device'[w] # "live"
    BY <1>4 DEF SpawnCpuFails
  <2>2. ASSUME NEW w \in Workers, pc'[w] # "none"
        PROVE  w <= thread_count' /\ IsCpu(w)
    BY <2>1, <2>2, WorkerAssumption DEF Broadcast, LifeInv, SpawnPart, IsCpu, Workers, NumWorkers
  <2>3. \A w \in Workers : ~(w < cursor')
    BY <2>1 DEF Workers
  <2> QED
    BY <2>1, <2>2, <2>3
       DEF LifeInv, ProbePart, SpawnPart, JoinPart, CpuPart, NoUseAfterDestroy, Exists, IsCpu
<1>5. CASE SpawnGpu
  <2>1. /\ main = "spawn" /\ main' = main /\ cursor \in Workers /\ cursor > CpuThreads
        /\ cursor' = cursor + 1 /\ thread_count' = thread_count
        /\ \A w \in Workers : w # cursor => pc'[w] = pc[w] /\ device'[w] = device[w]
    BY <1>5, WorkerAssumption DEF SpawnGpu, Workers, NumWorkers
  <2>2. \/ device'[cursor] = "live" /\ pc'[cursor] = "check"
        \/ device'[cursor] # "live" /\ pc'[cursor] = "none"
    <3>1. pc[cursor] = "none"
      BY <2>1 DEF LifeInv, SpawnPart, Workers
    <3> QED BY <1>5, <2>1, <3>1 DEF SpawnGpu
  <2>3. SpawnPart'
    <3>1. \A w \in Workers : w >= cursor' => pc'[w] = "none"
      BY <2>1 DEF LifeInv, SpawnPart, Workers
    <3>2. \A w \in Workers : (w < cursor' /\ device'[w] = "live") => pc'[w] # "none"
      BY <2>1, <2>2 DEF LifeInv, SpawnPart, Workers
    <3>3. \A w \in Workers : IsCpu(w) => w < cursor /\ w # cursor
      BY <2>1, WorkerAssumption DEF IsCpu, Workers
    <3> QED
      BY <2>1, <3>1, <3>2, <3>3 DEF LifeInv, SpawnPart, IsCpu
  <2>4. \A w \in Workers : (Exists(w)' /\ ~IsCpu(w)) => device'[w] = "live"
    BY <2>1, <2>2 DEF LifeInv, NoUseAfterDestroy, Exists, IsCpu
  <2> QED
    BY <2>1, <2>3, <2>4
       DEF LifeInv, ProbePart, JoinPart, CpuPart, NoUseAfterDestroy, IsCpu
<1>6. CASE StartDone
  <2>1. /\ main = "spawn" /\ UNCHANGED <<pc, device, thread_count, cursor>>
        /\ \A w \in Workers : w < cursor
        /\ main' = IF \A w \in Workers : pc[w] = "none" THEN "failed" ELSE "running"
    BY <1>6, WorkerAssumption DEF StartDone, Workers, NumWorkers
  <2>2. NoUseAfterDestroy'
    BY <2>1 DEF LifeInv, SpawnPart, NoUseAfterDestroy, Exists
  <2>3. CpuPart'
    BY <2>1 DEF LifeInv, SpawnPart, CpuPart, IsCpu
  <2> QED
    BY <2>1, <2>2, <2>3 DEF LifeInv, ProbePart, SpawnPart, JoinPart
<1> QED
  BY <1>1, <1>2, <1>3, <1>4, <1>5, <1>6 DEF Startup

(* miner_stop joins a worker before it destroys its handle. *)
LEMMA LifeStop == TypeOK /\ LifeInv /\ (MinerStop \/ Shutdown) => LifeInv'
<1> SUFFICES ASSUME TypeOK, LifeInv, MinerStop \/ Shutdown
             PROVE  LifeInv'
  OBVIOUS
<1> USE DEF TypeOK, LifeTypes, WorkerTypes
<1>1. CASE MinerStop
  BY <1>1, WorkerAssumption
     DEF MinerStop, Broadcast, LifeInv, ProbePart, SpawnPart, JoinPart, CpuPart,
         NoUseAfterDestroy, Exists, IsCpu, Workers, NumWorkers
<1>2. CASE JoinWorker
  BY <1>2, WorkerAssumption
     DEF JoinWorker, LifeInv, ProbePart, SpawnPart, JoinPart, CpuPart,
         NoUseAfterDestroy, Exists, IsCpu, Workers, NumWorkers
<1>3. CASE StopDone
  BY <1>3, WorkerAssumption
     DEF StopDone, LifeInv, ProbePart, SpawnPart, JoinPart, CpuPart,
         NoUseAfterDestroy, Exists, IsCpu, Workers, NumWorkers
<1>4. CASE MinerFree
  BY <1>4
     DEF MinerFree, LifeInv, ProbePart, SpawnPart, JoinPart, CpuPart, NoUseAfterDestroy, Exists
<1> QED
  BY <1>1, <1>2, <1>3, <1>4 DEF Shutdown

(* Every step of the miner keeps threads and handles in line. *)
LEMMA LifeNext == TypeOK /\ LifeInv /\ [Next]_vars => LifeInv'
<1> SUFFICES ASSUME TypeOK, LifeInv, [Next]_vars
             PROVE  LifeInv'
  OBVIOUS
<1>1. CASE MinerSetJob \/ MinerTakeNonceExhausted \/ MinerPopShare \/ UNCHANGED vars
           \/ \E p \in BOOLEAN : MinerSetPaused(p)
  BY <1>1, LifeWorker
     DEF MinerSetJob, MinerTakeNonceExhausted, MinerPopShare, MinerSetPaused, Broadcast, vars, Exists
<1>2. ASSUME NEW w \in Workers, Worker(w) \/ SpuriousWake(w)
      PROVE  LifeInv'
  <2>1. UNCHANGED life
    BY <1>2 DEF Worker, WorkerCheck, CopyRange, CopyExhausted, CopyNothing, WaitForWork,
                SpuriousWake, ScanMatch, ScanDone, ScanFails
  <2>2. \A v \in Workers : (Exists(v)' => Exists(v)) /\ (pc[v] = "none" <=> pc'[v] = "none")
    BY <1>2 DEF Worker, WorkerCheck, CopyRange, CopyExhausted, CopyNothing, WaitForWork,
                SpuriousWake, ScanMatch, ScanDone, ScanFails, LeaveScan, Exists,
                TypeOK, WorkerTypes
  <2> QED BY <2>1, <2>2, LifeWorker
<1> QED
  BY <1>1, <1>2, LifeStart, LifeStop DEF Next, Operation, Terminated

(* Whatever fails in miner_start and whenever miner_stop is called, no GPU *)
(* handle is destroyed under its worker and miner_t is freed only when     *)
(* every thread has left.                                                  *)
THEOREM DestroyIsSafe == Spec => []NoUseAfterDestroy
<1>1. Init => LifeInv
  BY WorkerAssumption DEF Init, LifeInv, ProbePart, SpawnPart, JoinPart, CpuPart, NoUseAfterDestroy, Exists
<1>2. TypeOK /\ LifeInv /\ [Next]_vars => LifeInv'
  BY LifeNext
<1>3. LifeInv => NoUseAfterDestroy
  BY DEF LifeInv
<1> QED
  BY <1>1, <1>2, <1>3, TypeCorrect, PTL DEF Spec
-----------------------------------------------------------------------------
(* The scheduler implements ShareStream.  The ring, read from its head, is *)
(* the queue of the stream; what next_nonce has not passed is the supply.  *)

(* A range can only be handed out for a job that was set. *)
JobStarted == (job.valid \/ next_nonce > 0) => job.seq > 0

LEMMA StartedNext == TypeOK /\ JobStarted /\ [Next]_vars => JobStarted'
<1> SUFFICES ASSUME TypeOK, JobStarted, [Next]_vars
             PROVE  JobStarted'
  OBVIOUS
<1>1. UNCHANGED <<job, next_nonce>> => JobStarted'
  BY DEF JobStarted
<1>2. CASE Startup \/ Shutdown \/ UNCHANGED vars
  BY <1>1, <1>2 DEF Startup, ProbeDevice, ProbeDone, SpawnCpu, SpawnCpuFails, SpawnGpu, StartDone,
                    Shutdown, JoinWorker, StopDone, MinerFree, vars, work
<1>3. CASE Operation
  <2>1. CASE MinerSetJob
    BY <2>1 DEF MinerSetJob, JobStarted, TypeOK, WorkTypes
  <2>2. CASE MinerTakeNonceExhausted \/ MinerPopShare \/ MinerStop
             \/ \E p \in BOOLEAN : MinerSetPaused(p)
    BY <1>1, <2>2 DEF MinerTakeNonceExhausted, MinerPopShare, MinerStop, MinerSetPaused, work
  <2> QED BY <1>3, <2>1, <2>2 DEF Operation
<1>4. ASSUME NEW w \in Workers, Worker(w) \/ SpuriousWake(w)
      PROVE  JobStarted'
  <2>1. CASE CopyRange(w)
    BY <2>1 DEF CopyRange, JobStarted
  <2>2. CASE CopyExhausted(w)
    <3>1. job.valid /\ job'.seq = job.seq
      BY <2>2 DEF CopyExhausted, TypeOK, WorkTypes
    <3> QED BY <3>1 DEF JobStarted
  <2>3. CASE WorkerCheck(w) \/ CopyNothing(w) \/ WaitForWork(w) \/ SpuriousWake(w)
             \/ (\E n \in Nonces : ScanMatch(w, n)) \/ ScanDone(w) \/ ScanFails(w)
    BY <1>1, <2>3 DEF WorkerCheck, CopyNothing, WaitForWork, SpuriousWake, ScanMatch,
                      ScanDone, ScanFails, work
  <2> QED BY <1>4, <2>1, <2>2, <2>3 DEF Worker
<1> QED
  BY <1>2, <1>3, <1>4 DEF Next, Terminated

(* The entry of a ring with its head at h that is k-th from the head, and  *)
(* the c entries read in order.                                            *)
RingSlot(h, k)    == (h + k - 1) % QueueSize
RingSeq(ring, h, c) == [k \in 1..c |-> ring[RingSlot(h, k)]]

LEMMA RingSlotValue ==
  ASSUME NEW h \in Slots, NEW k \in 1..QueueSize
  PROVE  /\ RingSlot(h, k) = IF h + k - 1 < QueueSize THEN h + k - 1 ELSE h + k - 1 - QueueSize
         /\ RingSlot(h, k) \in Slots
<1> DEFINE a == h + k - 1
<1>1. QueueSize \in Nat \ {0} /\ a \in Nat /\ a < 2 * QueueSize
  BY SizeAssumption DEF Slots
<1>2. RingSlot(h, k) = a % QueueSize
  BY DEF RingSlot
<1>3. a % QueueSize = IF a < QueueSize THEN a ELSE a - QueueSize
  <2> HIDE DEF a
  <2> QED BY <1>1, RingMod
<1> QED BY <1>1, <1>2, <1>3 DEF Slots

(* The entries of the ring lie in live slots. *)
LEMMA RingSlotLive ==
  ASSUME TypeOK, NEW k \in 1..share_count
  PROVE  RingSlot(share_head, k) \in LiveSlots /\ RingSlot(share_head, k) \in Slots
<1>1. /\ QueueSize \in Nat \ {0} /\ share_head \in Slots /\ k \in 1..QueueSize
      /\ share_count \in 0..QueueSize
  BY SizeAssumption DEF TypeOK, QueueTypes
<1> DEFINE i == RingSlot(share_head, k)
<1>2. /\ i = IF share_head + k - 1 < QueueSize
             THEN share_head + k - 1 ELSE share_head + k - 1 - QueueSize
      /\ i \in Slots
  BY <1>1, RingSlotValue
<1> HIDE DEF i
<1>3. i \in LiveSlots
  BY <1>1, <1>2 DEF LiveSlots, Slots
<1> QED BY <1>2, <1>3 DEF i

(* The ring read from its head is a sequence of shares. *)
LEMMA RingIsSeq ==
  ASSUME NEW ring \in [Slots -> Share], NEW h \in Slots, NEW c \in 0..QueueSize
  PROVE  /\ RingSeq(ring, h, c) \in Seq(Share) /\ Len(RingSeq(ring, h, c)) = c
         /\ \A k \in 1..c : RingSeq(ring, h, c)[k] = ring[RingSlot(h, k)]
<1>1. c \in Nat
  BY SizeAssumption
<1>2. \A k \in 1..c : ring[RingSlot(h, k)] \in Share
  BY RingSlotValue, SizeAssumption
<1>3. RingSeq(ring, h, c) \in [1..c -> Share]
  BY <1>2 DEF RingSeq
<1>4. RingSeq(ring, h, c) \in Seq(Share)
  BY <1>1, <1>3
<1>5. Len(RingSeq(ring, h, c)) = c
  BY <1>1, <1>3
<1> QED BY <1>4, <1>5 DEF RingSeq

LEMMA WaitingIsRing == Waiting = RingSeq(shares, share_head, share_count)
BY DEF Waiting, RingSeq, RingSlot

(* queue_share_locked appends to the queue of the stream. *)
LEMMA WaitingAppend ==
  ASSUME TypeOK, TypeOK', QueueConsistent, NEW s \in Share, Enqueue(s)
  PROVE  Waiting' = Append(Waiting, s)
<1> DEFINE c  == share_count
           W  == Waiting
           W2 == RingSeq(shares', share_head, c + 1)
<1>1. /\ share_tail \in Slots /\ share_tail \notin LiveSlots
      /\ share_tail = (share_head + c) % QueueSize
      /\ shares \in [Slots -> Share] /\ share_head \in Slots /\ c \in 0..QueueSize
  BY LiveEnqueue DEF QueueConsistent, TypeOK, QueueTypes
<1>2. /\ shares' = [shares EXCEPT ![share_tail] = s]
      /\ share_count' = c + 1 /\ share_head' = share_head
      /\ shares' \in [Slots -> Share] /\ c + 1 \in 0..QueueSize
  BY DEF Enqueue, TypeOK, QueueTypes
<1>3. c \in Nat /\ share_head \in Nat /\ QueueSize \in Nat
  BY <1>1, SizeAssumption DEF Slots
<1>4. W \in Seq(Share) /\ Len(W) = c /\ \A k \in 1..c : W[k] = shares[RingSlot(share_head, k)]
  BY <1>1, RingIsSeq, WaitingIsRing
<1>5. /\ W2 \in Seq(Share) /\ Len(W2) = c + 1
      /\ \A k \in 1..(c + 1) : W2[k] = shares'[RingSlot(share_head, k)]
  <2> DEFINE ring == shares'
             d    == c + 1
  <2>1. ring \in [Slots -> Share] /\ d \in 0..QueueSize
    BY <1>2
  <2> HIDE DEF ring, d
  <2>2. /\ RingSeq(ring, share_head, d) \in Seq(Share)
        /\ Len(RingSeq(ring, share_head, d)) = d
        /\ \A k \in 1..d : RingSeq(ring, share_head, d)[k] = ring[RingSlot(share_head, k)]
    BY <1>1, <2>1, RingIsSeq
  <2> QED BY <2>2 DEF ring, d
<1>6. Waiting' = W2
  BY <1>2 DEF Waiting, RingSeq, RingSlot
<1>7. ASSUME NEW k \in 1..c PROVE W2[k] = W[k]
  <2>1. RingSlot(share_head, k) \in LiveSlots /\ RingSlot(share_head, k) \in Slots
    BY RingSlotLive
  <2>2. shares'[RingSlot(share_head, k)] = shares[RingSlot(share_head, k)]
    BY <1>1, <1>2, <2>1
  <2>3. k \in 1..(c + 1)
    BY <1>3
  <2> HIDE DEF W, W2
  <2> QED BY <1>4, <1>5, <2>2, <2>3
<1>8. W2[c + 1] = s
  <2>1. RingSlot(share_head, c + 1) = share_tail
    <3>1. share_head + (c + 1) - 1 = share_head + c
      BY <1>3
    <3> QED BY <1>1, <3>1 DEF RingSlot
  <2>2. shares'[share_tail] = s
    BY <1>1, <1>2
  <2>3. c + 1 \in 1..(c + 1)
    BY <1>3
  <2> HIDE DEF W2
  <2> QED BY <1>5, <2>1, <2>2, <2>3
<1> HIDE DEF W, W2, c, Share
<1>9. /\ Append(W, s) \in Seq(Share) /\ Len(Append(W, s)) = c + 1
      /\ Append(W, s)[c + 1] = s
      /\ \A k \in 1..c : Append(W, s)[k] = W[k]
  BY <1>3, <1>4
<1>10. \A k \in 1..Len(W2) : W2[k] = Append(W, s)[k]
  <2>1. \A k \in 1..(c + 1) : k \in 1..c \/ k = c + 1
    BY <1>3
  <2> QED BY <1>5, <1>7, <1>8, <1>9, <2>1
<1>11. W2 = Append(W, s)
  BY <1>5, <1>9, <1>10, SeqEqual
<1> QED BY <1>6, <1>11 DEF W

(* miner_pop_share takes the head of the queue of the stream. *)
LEMMA WaitingPop ==
  ASSUME TypeOK, TypeOK', MinerPopShare
  PROVE  /\ Waiting # << >>
         /\ Head(Waiting) = shares[share_head] /\ Waiting' = Tail(Waiting)
<1> DEFINE c  == share_count
           h2 == (share_head + 1) % QueueSize
           W  == Waiting
           W2 == RingSeq(shares, h2, c - 1)
<1>1. /\ QueueSize \in Nat \ {0} /\ share_head \in 0..(QueueSize - 1) /\ share_head \in Slots
      /\ c \in 1..QueueSize /\ shares \in [Slots -> Share]
      /\ share_head' = h2 /\ h2 \in Slots
      /\ share_count' = c - 1 /\ shares' = shares
  BY SizeAssumption DEF TypeOK, QueueTypes, Slots, MinerPopShare
<1>2. c \in 0..QueueSize /\ c - 1 \in 0..QueueSize /\ c \in Nat
  BY <1>1
<1>3. W \in Seq(Share) /\ Len(W) = c /\ \A k \in 1..c : W[k] = shares[RingSlot(share_head, k)]
  BY <1>1, <1>2, RingIsSeq, WaitingIsRing
<1>4. /\ W2 \in Seq(Share) /\ Len(W2) = c - 1
      /\ \A k \in 1..(c - 1) : W2[k] = shares[RingSlot(h2, k)]
  <2> HIDE DEF h2
  <2> QED BY <1>1, <1>2, RingIsSeq
<1>5. Waiting' = W2
  BY <1>1 DEF Waiting, RingSeq, RingSlot
<1>6. RingSlot(share_head, 1) = share_head
  <2>1. 1 \in 1..QueueSize
    BY <1>1
  <2> QED BY <1>1, <2>1, RingSlotValue
<1>7. h2 = IF share_head + 1 < QueueSize THEN share_head + 1 ELSE 0
  BY <1>1, RingMod
<1> HIDE DEF W, W2, h2
<1>8. ASSUME NEW k \in 1..(c - 1)
      PROVE  RingSlot(h2, k) = RingSlot(share_head, k + 1) /\ k + 1 \in 1..c
  <2>1. k \in 1..QueueSize /\ k + 1 \in 1..QueueSize /\ k + 1 \in 1..c
    BY <1>1, <1>2
  <2>2. RingSlot(h2, k) = IF h2 + k - 1 < QueueSize THEN h2 + k - 1 ELSE h2 + k - 1 - QueueSize
    BY <1>1, <2>1, RingSlotValue
  <2>3. RingSlot(share_head, k + 1) = IF share_head + (k + 1) - 1 < QueueSize
                                      THEN share_head + (k + 1) - 1
                                      ELSE share_head + (k + 1) - 1 - QueueSize
    BY <1>1, <2>1, RingSlotValue
  <2> QED BY <1>1, <1>7, <2>1, <2>2, <2>3
<1> HIDE DEF c, Share
<1>9. /\ W # << >> /\ Head(W) = W[1]
      /\ Tail(W) \in Seq(Share) /\ Len(Tail(W)) = c - 1
      /\ \A k \in 1..Len(Tail(W)) : Tail(W)[k] = W[k + 1]
  <2>1. Len(W) \in Nat \ {0}
    BY <1>1, <1>3
  <2>2. W # << >>
    BY <2>1
  <2> QED BY <1>3, <2>1, <2>2, HeadTailProperties
<1>10. Head(W) = shares[share_head]
  <2>1. 1 \in 1..c
    BY <1>1
  <2> QED BY <1>3, <1>6, <1>9, <2>1
<1>11. \A k \in 1..Len(W2) : W2[k] = Tail(W)[k]
  BY <1>3, <1>4, <1>8, <1>9
<1>12. W2 = Tail(W)
  BY <1>4, <1>9, <1>11, SeqEqual
<1> QED BY <1>5, <1>9, <1>10, <1>12 DEF W

(* A step the owner cannot see. *)
StreamFrame ==
    /\ UNCHANGED <<job, nonce_exhausted, paused, next_nonce, delivered>>
    /\ UNCHANGED <<shares, share_head, share_count>>

LEMMA StreamStutters == StreamFrame => UNCHANGED Stream!stream
<1> SUFFICES ASSUME StreamFrame PROVE UNCHANGED Stream!stream
  OBVIOUS
<1>1. Waiting' = Waiting
  BY DEF StreamFrame, Waiting
<1> QED BY <1>1 DEF StreamFrame, Stream!stream

(* Every step of the miner is a step of the stream, or none. *)
LEMMA StreamStep ==
  TypeOK /\ TypeOK' /\ AllocInv /\ ShareInv /\ JobStarted /\ [Next]_vars
      => [Stream!Next]_(Stream!stream)
<1> SUFFICES ASSUME TypeOK, TypeOK', AllocInv, ShareInv, JobStarted, [Next]_vars
             PROVE  Stream!Next \/ UNCHANGED Stream!stream
  OBVIOUS
<1>0. /\ MaxNonce \in Nat /\ next_nonce \in 0..(MaxNonce + 1)
      /\ job.seq \in Nat
  BY SizeAssumption DEF TypeOK, WorkTypes
<1>1. CASE Startup \/ Shutdown \/ MinerStop \/ UNCHANGED vars
  <2>1. StreamFrame
    BY <1>1 DEF StreamFrame, Startup, ProbeDevice, ProbeDone, SpawnCpu, SpawnCpuFails, SpawnGpu,
                StartDone, Shutdown, JoinWorker, StopDone, MinerFree, MinerStop, vars,
                control, work, queue, history
  <2> QED BY <2>1, StreamStutters
<1>2. CASE MinerSetJob
  <2>1. Waiting' = << >>
    <3>1. share_count' = 0
      BY <1>2 DEF MinerSetJob
    <3> QED BY <3>1 DEF Waiting
  <2>2. /\ job'.seq = job.seq + 1 /\ job'.valid = TRUE /\ nonce_exhausted' = FALSE
        /\ next_nonce' = 0 /\ UNCHANGED <<paused, delivered>>
    BY <1>2 DEF MinerSetJob, control
  <2>3. Stream!NewJob
    BY <2>1, <2>2 DEF Stream!NewJob
  <2> QED BY <2>3 DEF Stream!Next
<1>3. ASSUME NEW p \in BOOLEAN, MinerSetPaused(p) PROVE Stream!Next
  <2>1. paused' = p /\ UNCHANGED <<job, nonce_exhausted, next_nonce, delivered,
                                   shares, share_head, share_count>>
    BY <1>3 DEF MinerSetPaused, work, queue
  <2>2. Waiting' = Waiting
    BY <2>1 DEF Waiting
  <2>3. Stream!SetPaused(p)
    BY <2>1, <2>2 DEF Stream!SetPaused
  <2> QED BY <2>3 DEF Stream!Next
<1>4. CASE MinerTakeNonceExhausted
  <2>1. /\ nonce_exhausted /\ nonce_exhausted' = FALSE
        /\ UNCHANGED <<paused, job, next_nonce, delivered, shares, share_head, share_count>>
    BY <1>4 DEF MinerTakeNonceExhausted, control, queue, history
  <2>2. Waiting' = Waiting
    BY <2>1 DEF Waiting
  <2>3. Stream!TakeExhausted
    BY <2>1, <2>2 DEF Stream!TakeExhausted
  <2> QED BY <2>3 DEF Stream!Next
<1>5. CASE MinerPopShare
  <2>1. /\ delivered' = delivered \cup {shares[share_head]}
        /\ UNCHANGED <<paused, job, nonce_exhausted, next_nonce>>
    BY <1>5 DEF MinerPopShare, control, work
  <2>2. Waiting # << >> /\ Head(Waiting) = shares[share_head] /\ Waiting' = Tail(Waiting)
    BY <1>5, WaitingPop
  <2>3. Stream!Deliver
    BY <2>1, <2>2 DEF Stream!Deliver
  <2> QED BY <2>3 DEF Stream!Next
<1>6. ASSUME NEW w \in Workers, Worker(w) \/ SpuriousWake(w)
      PROVE  Stream!Next \/ UNCHANGED Stream!stream
  <2>1. CASE WorkerCheck(w) \/ CopyNothing(w) \/ WaitForWork(w) \/ SpuriousWake(w)
             \/ ScanDone(w) \/ ScanFails(w)
    <3>1. StreamFrame
      BY <2>1 DEF StreamFrame, WorkerCheck, CopyNothing, WaitForWork, SpuriousWake, ScanDone,
                  ScanFails, control, work, queue, history
    <3> QED BY <3>1, StreamStutters
  <2>2. CASE CopyRange(w)
    <3>1. /\ job.valid /\ ~paused /\ next_nonce <= MaxNonce
          /\ next_nonce' = next_nonce + RangeCount(w)
          /\ UNCHANGED <<paused, job, nonce_exhausted, delivered, shares, share_head, share_count>>
      BY <2>2 DEF CopyRange, control, queue
    <3>2. RangeCount(w) \in Nat \ {0}
      BY <3>1, RangeCountBounds
    <3>3. next_nonce' \in Nat /\ next_nonce' > next_nonce
      BY <1>0, <3>1, <3>2
    <3>4. (next_nonce'..MaxNonce) \in (SUBSET (next_nonce..MaxNonce)) \ {next_nonce..MaxNonce}
      <4>1. next_nonce \in next_nonce..MaxNonce /\ next_nonce \notin next_nonce'..MaxNonce
        BY <1>0, <3>1, <3>3
      <4>2. (next_nonce'..MaxNonce) \subseteq (next_nonce..MaxNonce)
        BY <1>0, <3>3
      <4> QED BY <4>1, <4>2
    <3>5. Waiting' = Waiting
      BY <3>1 DEF Waiting
    <3>6. Stream!HandOut
      BY <3>1, <3>4, <3>5 DEF Stream!HandOut
    <3> QED BY <3>6 DEF Stream!Next
  <2>3. CASE CopyExhausted(w)
    <3>1. /\ job.valid /\ ~paused /\ next_nonce > MaxNonce
          /\ job'.seq = job.seq /\ job'.valid = FALSE /\ nonce_exhausted' = TRUE
          /\ UNCHANGED <<paused, next_nonce, delivered, shares, share_head, share_count>>
      BY <2>3 DEF CopyExhausted, control, queue, history, TypeOK, WorkTypes
    <3>2. next_nonce..MaxNonce = {}
      BY <1>0, <3>1
    <3>3. Waiting' = Waiting
      BY <3>1 DEF Waiting
    <3>4. Stream!Exhaust
      BY <3>1, <3>2, <3>3 DEF Stream!Exhaust
    <3> QED BY <3>4 DEF Stream!Next
  <2>4. ASSUME NEW n \in Nonces, ScanMatch(w, n)
        PROVE  Stream!Next \/ UNCHANGED Stream!stream
    <3> DEFINE s == ShareOf(w, n)
    <3>1. UNCHANGED <<job, nonce_exhausted, paused, next_nonce, delivered>>
      BY <2>4 DEF ScanMatch, control, work, history
    <3>2. CASE UNCHANGED queue
      <4>1. StreamFrame
        BY <3>1, <3>2 DEF StreamFrame, queue
      <4> QED BY <4>1, StreamStutters
    <3>3. CASE StillCurrent(w) /\ Enqueue(s)
      <4>1. pc[w] = "scan" /\ n \in todo[w] /\ range[w].seq = job.seq /\ ~paused
        BY <2>4, <3>3 DEF ScanMatch, StillCurrent
      <4>2. s = [seq |-> job.seq, nonce |-> n] /\ s \in Share
        BY <1>0, <4>1 DEF ShareOf, Share
      <4>3. n < next_nonce /\ next_nonce > 0
        <5>1. range[w] \in NonceRange
          BY DEF TypeOK, WorkerTypes
        <5>2. n \in NoncesOf(range[w]) /\ range[w].start + range[w].count <= next_nonce
          BY <4>1 DEF AllocInv, RangeBound
        <5>3. n < next_nonce
          BY <1>0, <5>1, <5>2 DEF NonceRange, NoncesOf
        <5> QED BY <1>0, <5>3 DEF Nonces
      <4>4. job.seq > 0
        BY <4>3 DEF JobStarted
      <4>5. s \notin delivered /\ \A i \in LiveSlots : shares[i] # s
        BY <4>1 DEF ShareInv, UnreportedFresh
      <4>6. Len(Waiting) = share_count /\ \A k \in 1..share_count : Waiting[k] # s
        <5>1. \A k \in 1..share_count : Waiting[k] = shares[RingSlot(share_head, k)]
          BY RingIsSeq, WaitingIsRing DEF TypeOK, QueueTypes
        <5>2. Len(Waiting) = share_count
          BY RingIsSeq, WaitingIsRing DEF TypeOK, QueueTypes
        <5> QED BY <4>5, <5>1, <5>2, RingSlotLive
      <4>7. s \notin Stream!Reported
        <5> HIDE DEF s, Waiting
        <5> QED BY <4>5, <4>6 DEF Stream!Reported
      <4>8. Len(Waiting) < QueueSize
        BY <3>3, <4>6 DEF Enqueue
      <4>9. Waiting' = Append(Waiting, s)
        BY <3>3, <4>2, WaitingAppend DEF ShareInv
      <4>10. n \notin next_nonce..MaxNonce
        BY <1>0, <4>3 DEF Nonces
      <4> HIDE DEF Waiting
      <4>11. Stream!Report(n)
        BY <3>1, <4>1, <4>2, <4>4, <4>7, <4>8, <4>9, <4>10 DEF Stream!Report
      <4> QED BY <4>11 DEF Stream!Next, Nonces
    <3> QED BY <2>4, <3>2, <3>3, MatchOutcome DEF ShareOf
  <2> QED BY <1>6, <2>1, <2>2, <2>3, <2>4 DEF Worker
<1> QED BY <1>1, <1>2, <1>3, <1>4, <1>5, <1>6 DEF Next, Operation, Terminated

(* The worker scheduler of miner.c implements the stream of shares its     *)
(* owner relies on, for any number of workers and any size of the ring.    *)
THEOREM MinerIsShareStream == Spec => ImplementsShareStream
<1>1. Init => Stream!Init /\ JobStarted
  <2> SUFFICES ASSUME Init PROVE Stream!Init /\ JobStarted
    OBVIOUS
  <2>1. share_count = 0
    BY DEF Init
  <2>2. Waiting = << >>
    BY <2>1 DEF Waiting
  <2> QED BY <2>2 DEF Init, Stream!Init, JobStarted
<1> QED BY <1>1, StartedNext, StreamStep, TypeCorrect, AllocInvariant, ShareInvariant, PTL
        DEF Spec, ImplementsShareStream, Stream!Spec
-----------------------------------------------------------------------------
(* The count of hashes. *)

(* What is counted, in flight and lost never exceeds what was handed out:  *)
(* all nonces of the jobs before the active one and those below next_nonce *)
(* of the active one.                                                      *)
HandedOut == IF job.seq = 0 THEN 0 ELSE (job.seq - 1) * (MaxNonce + 1) + next_nonce

AccountInv ==
    /\ IsFiniteSet(Counted) /\ hashes = Cardinality(Counted)
    /\ IsFiniteSet(InFlight)
    /\ hashes + Cardinality(InFlight) + Cardinality(lost) <= HandedOut

LEMMA HeapMember ==
  ASSUME NEW f, NEW x
  PROVE  x \in Heap(f) <=> \E w \in Workers : x \in {w} \X f[w]
BY DEF Heap

(* One worker's set grows, the others stay: the heap grows by as much. *)
LEMMA HeapGrows ==
  ASSUME NEW f, NEW g, NEW w \in Workers, NEW S,
         IsFiniteSet(Heap(f)), IsFiniteSet(S),
         f[w] \cap S = {}, g[w] = f[w] \cup S, \A v \in Workers \ {w} : g[v] = f[v]
  PROVE  IsFiniteSet(Heap(g)) /\ Cardinality(Heap(g)) = Cardinality(Heap(f)) + Cardinality(S)
<1> DEFINE T == {w} \X S
<1>1. IsFiniteSet(T) /\ Cardinality(T) = Cardinality(S)
  <2>1. IsFiniteSet({w}) /\ Cardinality({w}) = 1
    BY FS_Singleton
  <2>2. Cardinality(S) \in Nat
    BY FS_CardinalityType
  <2> QED BY <2>1, <2>2, FS_Product
<1>2. Heap(g) = Heap(f) \cup T
  <2>1. ASSUME NEW x \in Heap(g) PROVE x \in Heap(f) \cup T
    <3>1. PICK v \in Workers : x \in {v} \X g[v]
      BY HeapMember
    <3>2. CASE v = w
      <4>1. x \in {w} \X f[w] \/ x \in T
        BY <3>1, <3>2
      <4> QED BY <4>1, HeapMember
    <3>3. CASE v # w
      BY <3>1, <3>3, HeapMember
    <3> QED BY <3>2, <3>3
  <2>2. ASSUME NEW x \in Heap(f) PROVE x \in Heap(g)
    <3>1. PICK v \in Workers : x \in {v} \X f[v]
      BY HeapMember
    <3>2. x \in {v} \X g[v]
      <4>1. f[v] \subseteq g[v]
        OBVIOUS
      <4> QED BY <3>1, <4>1
    <3> QED BY <3>2, HeapMember
  <2>3. ASSUME NEW x \in T PROVE x \in Heap(g)
    <3>1. x \in {w} \X g[w]
      OBVIOUS
    <3> QED BY <3>1, HeapMember
  <2> QED BY <2>1, <2>2, <2>3
<1>3. Heap(f) \cap T = {}
  <2>1. ASSUME NEW x \in Heap(f), x \in T PROVE FALSE
    <3>1. PICK v \in Workers : x \in {v} \X f[v]
      BY HeapMember
    <3>2. v = w /\ x[2] \in f[v] /\ x[2] \in S
      BY <2>1, <3>1
    <3> QED BY <3>2
  <2> QED BY <2>1
<1> HIDE DEF T
<1>4. Cardinality({}) = 0
  BY FS_EmptySet
<1>5. /\ IsFiniteSet(Heap(f) \cup T)
      /\ Cardinality(Heap(f) \cup T) = Cardinality(Heap(f)) + Cardinality(T) - Cardinality(Heap(f) \cap T)
  BY <1>1, FS_Union
<1>6. Cardinality(Heap(f)) \in Nat /\ Cardinality(T) \in Nat
  BY <1>1, FS_CardinalityType
<1>7. Cardinality(Heap(f) \cap T) = 0
  BY <1>3, <1>4
<1>8. Cardinality(Heap(f) \cup T) = Cardinality(Heap(f)) + Cardinality(S)
  BY <1>1, <1>5, <1>6, <1>7
<1> QED BY <1>2, <1>5, <1>8

(* The sets shrink: so does the heap. *)
LEMMA HeapShrinks ==
  ASSUME NEW f, NEW g, IsFiniteSet(Heap(f)), \A w \in Workers : g[w] \subseteq f[w]
  PROVE  /\ IsFiniteSet(Heap(g)) /\ Cardinality(Heap(g)) \in Nat /\ Cardinality(Heap(f)) \in Nat
         /\ Cardinality(Heap(g)) <= Cardinality(Heap(f))
<1>1. Heap(g) \subseteq Heap(f)
  <2>1. ASSUME NEW x \in Heap(g) PROVE x \in Heap(f)
    <3>1. PICK v \in Workers : x \in {v} \X g[v]
      BY HeapMember
    <3>2. x \in {v} \X f[v]
      BY <3>1
    <3> QED BY <3>2, HeapMember
  <2> QED BY <2>1
<1>2. IsFiniteSet(Heap(g)) /\ Cardinality(Heap(g)) <= Cardinality(Heap(f))
  BY <1>1, FS_Subset
<1> QED BY <1>2, FS_CardinalityType

(* The sets behind Counted and InFlight. *)
CountedOf == [w \in Workers |-> 1..thread_hashes[w]]
FlightOf  == [w \in Workers |->
                IF pc[w] = "scan" /\ range[w].seq = job.seq THEN NoncesOf(range[w]) ELSE {}]

LEMMA RangeSize ==
  ASSUME TypeOK, NEW w \in Workers
  PROVE  /\ range[w].count \in Nat /\ range[w].start \in Nat
         /\ IsFiniteSet(NoncesOf(range[w])) /\ Cardinality(NoncesOf(range[w])) = range[w].count
<1>1. range[w].count \in Nat /\ range[w].start \in Nat
  BY DEF TypeOK, WorkerTypes, NonceRange
<1> DEFINE a == range[w].start
           b == range[w].start + range[w].count - 1
<1>2. a \in Int /\ b \in Int /\ (IF a > b THEN 0 ELSE b - a + 1) = range[w].count
  BY <1>1
<1>3. NoncesOf(range[w]) = a..b
  BY DEF NoncesOf
<1> HIDE DEF a, b
<1>4. IsFiniteSet(a..b) /\ Cardinality(a..b) = IF a > b THEN 0 ELSE b - a + 1
  BY <1>2, FS_Interval
<1> QED BY <1>1, <1>2, <1>3, <1>4

LEMMA LostFinite == ASSUME TypeOK PROVE IsFiniteSet(lost) /\ Cardinality(lost) \in Nat
<1>1. IsFiniteSet(Nonces)
  BY SizeAssumption, FS_Interval DEF Nonces
<1>2. lost \subseteq Nonces
  BY DEF TypeOK, HistoryTypes
<1> QED BY <1>1, <1>2, FS_Subset, FS_CardinalityType

(* A step that counts, loses and hands out nothing. *)
AccountFrame ==
    /\ UNCHANGED <<next_nonce, range, hashes, thread_hashes, lost>>
    /\ job'.seq = job.seq
    /\ \A w \in Workers : pc'[w] = "scan" => pc[w] = "scan"

LEMMA AccountFrameInv == ASSUME TypeOK, AccountInv, AccountFrame PROVE AccountInv'
<1>1. Counted' = Counted /\ HandedOut' = HandedOut
  BY DEF AccountFrame, Counted, Heap, HandedOut
<1>2. InFlight = Heap(FlightOf) /\ InFlight' = Heap(FlightOf')
  BY DEF InFlight, FlightOf, Heap
<1>3. \A w \in Workers : FlightOf'[w] \subseteq FlightOf[w]
  <2>1. ASSUME NEW w \in Workers PROVE FlightOf'[w] \subseteq FlightOf[w]
    <3>1. CASE pc'[w] = "scan" /\ range'[w].seq = job'.seq
      <4>1. pc[w] = "scan" /\ range[w].seq = job.seq /\ range' = range
        BY <3>1 DEF AccountFrame
      <4> QED BY <3>1, <4>1 DEF FlightOf, NoncesOf
    <3>2. CASE ~(pc'[w] = "scan" /\ range'[w].seq = job'.seq)
      BY <3>2 DEF FlightOf
    <3> QED BY <3>1, <3>2
  <2> QED BY <2>1
<1>4. IsFiniteSet(Heap(FlightOf))
  BY <1>2 DEF AccountInv
<1>5. /\ IsFiniteSet(InFlight') /\ Cardinality(InFlight') \in Nat /\ Cardinality(InFlight) \in Nat
      /\ Cardinality(InFlight') <= Cardinality(InFlight)
  BY <1>2, <1>3, <1>4, HeapShrinks
<1>6. Cardinality(lost) \in Nat /\ hashes \in Nat /\ HandedOut \in Nat
  BY LostFinite, SizeAssumption DEF TypeOK, WorkTypes, HandedOut
<1> QED BY <1>1, <1>5, <1>6 DEF AccountInv, AccountFrame
(* Most steps neither count, lose nor hand out. *)
LEMMA AccountFrameSteps ==
  ASSUME TypeOK
  PROVE  /\ Startup \/ Shutdown \/ UNCHANGED vars => AccountFrame
         /\ MinerTakeNonceExhausted \/ MinerPopShare \/ MinerStop => AccountFrame
         /\ \A p \in BOOLEAN : MinerSetPaused(p) => AccountFrame
         /\ \A w \in Workers :
              WorkerCheck(w) \/ CopyExhausted(w) \/ CopyNothing(w) \/ WaitForWork(w)
              \/ SpuriousWake(w) \/ (\E n \in Nonces : ScanMatch(w, n)) => AccountFrame
<1> USE DEF AccountFrame, TypeOK, WorkerTypes, WorkTypes, Broadcast,
            control, work, queue, counts, life, locals, history
<1>1. Startup => AccountFrame
  BY DEF Startup, ProbeDevice, ProbeDone, SpawnCpu, SpawnCpuFails, SpawnGpu, StartDone
<1>2. Shutdown \/ UNCHANGED vars => AccountFrame
  BY DEF Shutdown, JoinWorker, StopDone, MinerFree, vars
<1>3. MinerTakeNonceExhausted \/ MinerPopShare \/ MinerStop => AccountFrame
  BY DEF MinerTakeNonceExhausted, MinerPopShare, MinerStop
<1>4. \A p \in BOOLEAN : MinerSetPaused(p) => AccountFrame
  BY DEF MinerSetPaused
<1>5. ASSUME NEW w \in Workers,
             WorkerCheck(w) \/ CopyExhausted(w) \/ CopyNothing(w) \/ WaitForWork(w) \/ SpuriousWake(w)
             \/ (\E n \in Nonces : ScanMatch(w, n))
      PROVE  AccountFrame
  BY <1>5 DEF WorkerCheck, CopyExhausted, CopyNothing, WaitForWork, SpuriousWake, ScanMatch
<1> QED
  BY <1>1, <1>2, <1>3, <1>4, <1>5

(* A new job: nothing of it is in flight, and what is left of the old one  *)
(* will not be counted.                                                    *)
LEMMA AccountSetJob == ASSUME TypeOK, AllocInv, AccountInv, MinerSetJob PROVE AccountInv'
<1>1. /\ job'.seq = job.seq + 1 /\ next_nonce' = 0 /\ lost' = {}
      /\ UNCHANGED <<range, hashes, thread_hashes>>
      /\ \A w \in Workers : pc'[w] = "scan" => pc[w] = "scan"
  BY DEF MinerSetJob, Broadcast, counts, locals
<1>2. Counted' = Counted
  BY <1>1 DEF Counted, Heap
<1>3. InFlight' = {} /\ Cardinality({}) = 0 /\ IsFiniteSet({})
  <2>1. ASSUME NEW w \in Workers PROVE ~(pc'[w] = "scan" /\ range'[w].seq = job'.seq)
    BY <1>1 DEF AllocInv, RangeBound, TypeOK, WorkTypes, WorkerTypes, NonceRange
  <2>2. InFlight' = Heap(FlightOf')
    BY DEF InFlight, FlightOf, Heap
  <2>3. \A w \in Workers : FlightOf'[w] = {}
    BY <2>1 DEF FlightOf
  <2>4. ASSUME NEW x \in Heap(FlightOf') PROVE FALSE
    <3>1. PICK w \in Workers : x \in {w} \X FlightOf'[w]
      BY HeapMember
    <3>2. FlightOf'[w] = {}
      BY <2>3
    <3> QED BY <3>1, <3>2
  <2> QED BY <2>2, <2>4, FS_EmptySet
<1>4. Cardinality(InFlight) \in Nat /\ Cardinality(lost) \in Nat
  BY LostFinite, FS_CardinalityType DEF AccountInv
<1>5. hashes <= HandedOut /\ hashes \in Nat
  <2>1. HandedOut \in Nat /\ hashes \in Nat
    BY SizeAssumption DEF TypeOK, WorkTypes, HandedOut
  <2> QED BY <1>4, <2>1 DEF AccountInv
<1>6. HandedOut <= HandedOut'
  <2>1. /\ job.seq \in Nat /\ MaxNonce \in Nat /\ next_nonce \in Nat /\ next_nonce <= MaxNonce + 1
    BY SizeAssumption DEF TypeOK, WorkTypes
  <2>2. HandedOut' = job.seq * (MaxNonce + 1)
    BY <1>1, <2>1 DEF HandedOut
  <2>3. job.seq * (MaxNonce + 1) = (job.seq - 1) * (MaxNonce + 1) + (MaxNonce + 1)
    BY <2>1
  <2>4. CASE job.seq = 0
    BY <2>1, <2>2, <2>4 DEF HandedOut
  <2>5. CASE job.seq > 0
    <3>1. (job.seq - 1) * (MaxNonce + 1) \in Nat
      BY <2>1, <2>5
    <3> QED BY <2>1, <2>2, <2>3, <2>5, <3>1 DEF HandedOut
  <2> QED BY <2>1, <2>4, <2>5
<1>7. HandedOut \in Nat /\ HandedOut' \in Nat
  <2>1. /\ job.seq \in Nat /\ MaxNonce \in Nat /\ next_nonce \in Nat
    BY SizeAssumption DEF TypeOK, WorkTypes
  <2> QED BY <1>1, <2>1 DEF HandedOut
<1> QED BY <1>1, <1>2, <1>3, <1>5, <1>6, <1>7 DEF AccountInv

(* A range is handed out: it is in flight. *)
LEMMA AccountCopy ==
  ASSUME TypeOK, JobStarted, AccountInv, NEW w \in Workers, CopyRange(w)
  PROVE  AccountInv'
<1> DEFINE r == [seq |-> job.seq, epoch |-> pause_epoch, start |-> next_nonce, count |-> RangeCount(w)]
<1>1. /\ pc[w] = "copy" /\ job.valid /\ next_nonce <= MaxNonce
      /\ pc' = [pc EXCEPT ![w] = "scan"] /\ range' = [range EXCEPT ![w] = r]
      /\ next_nonce' = next_nonce + RangeCount(w)
      /\ UNCHANGED <<job, hashes, thread_hashes, lost>>
  BY DEF CopyRange, counts
<1>2. RangeCount(w) \in Nat /\ job.seq > 0 /\ next_nonce \in Nat
  BY <1>1, RangeCountBounds DEF JobStarted, TypeOK, WorkTypes
<1>3. /\ pc'[w] = "scan" /\ range'[w] = r
      /\ \A v \in Workers \ {w} : pc'[v] = pc[v] /\ range'[v] = range[v]
  BY <1>1 DEF TypeOK, WorkerTypes
<1>4. Counted' = Counted
  BY <1>1 DEF Counted, Heap
<1>5. InFlight = Heap(FlightOf) /\ InFlight' = Heap(FlightOf')
  BY DEF InFlight, FlightOf, Heap
<1> DEFINE S == NoncesOf(r)
<1>6. IsFiniteSet(S) /\ Cardinality(S) = RangeCount(w)
  <2> DEFINE a == next_nonce
             b == next_nonce + RangeCount(w) - 1
  <2>1. S = a..b /\ a \in Int /\ b \in Int /\ (IF a > b THEN 0 ELSE b - a + 1) = RangeCount(w)
    BY <1>2 DEF NoncesOf
  <2> HIDE DEF a, b, S
  <2> QED BY <2>1, FS_Interval
<1>7. FlightOf[w] = {} /\ FlightOf'[w] = S
  <2>1. r.seq = job'.seq
    BY <1>1
  <2> HIDE DEF r
  <2> QED BY <1>1, <1>3, <2>1 DEF FlightOf
<1> HIDE DEF S
<1>8. \A v \in Workers \ {w} : FlightOf'[v] = FlightOf[v]
  <2>1. ASSUME NEW v \in Workers \ {w} PROVE FlightOf'[v] = FlightOf[v]
    BY <1>1, <1>3 DEF FlightOf
  <2> QED BY <2>1
<1>9. IsFiniteSet(Heap(FlightOf)) /\ FlightOf[w] \cap S = {} /\ FlightOf'[w] = FlightOf[w] \cup S
  BY <1>5, <1>7 DEF AccountInv
<1>10. IsFiniteSet(InFlight') /\ Cardinality(InFlight') = Cardinality(InFlight) + RangeCount(w)
  <2>1. IsFiniteSet(Heap(FlightOf')) /\ Cardinality(Heap(FlightOf')) = Cardinality(Heap(FlightOf)) + Cardinality(S)
    BY <1>6, <1>8, <1>9, HeapGrows
  <2> QED BY <1>5, <1>6, <2>1
<1>11. HandedOut' = HandedOut + RangeCount(w) /\ HandedOut \in Nat
  <2>1. job.seq \in Nat /\ MaxNonce \in Nat
    BY SizeAssumption DEF TypeOK, WorkTypes
  <2>2. (job.seq - 1) * (MaxNonce + 1) \in Nat
    BY <1>2, <2>1
  <2> QED BY <1>1, <1>2, <2>1, <2>2 DEF HandedOut
<1>12. Cardinality(InFlight) \in Nat /\ Cardinality(lost) \in Nat /\ hashes \in Nat
  BY LostFinite, FS_CardinalityType DEF AccountInv, TypeOK, WorkTypes
<1>13. hashes + Cardinality(InFlight) + Cardinality(lost) <= HandedOut
  BY DEF AccountInv
<1>14. hashes + (Cardinality(InFlight) + RangeCount(w)) + Cardinality(lost) <= HandedOut + RangeCount(w)
  BY <1>2, <1>11, <1>12, <1>13
<1> QED BY <1>1, <1>4, <1>10, <1>11, <1>14 DEF AccountInv

(* A worker leaves its scan: its range is no longer in flight. *)
LEMMA FlightLeft ==
  ASSUME TypeOK, AccountInv, NEW w \in Workers, pc[w] = "scan", LeaveScan(w), UNCHANGED job
  PROVE  /\ IsFiniteSet(InFlight') /\ Cardinality(InFlight') \in Nat /\ Cardinality(InFlight) \in Nat
         /\ Cardinality(InFlight') <= Cardinality(InFlight)
         /\ range[w].seq = job.seq => Cardinality(InFlight) = Cardinality(InFlight') + range[w].count
<1>1. /\ pc'[w] = "check"
      /\ \A v \in Workers \ {w} : pc'[v] = pc[v] /\ range'[v] = range[v]
  BY DEF LeaveScan, TypeOK, WorkerTypes
<1>2. InFlight = Heap(FlightOf) /\ InFlight' = Heap(FlightOf')
  BY DEF InFlight, FlightOf, Heap
<1>3. FlightOf'[w] = {} /\ (range[w].seq = job.seq => FlightOf[w] = NoncesOf(range[w]))
  BY <1>1 DEF FlightOf
<1>4. \A v \in Workers \ {w} : FlightOf'[v] = FlightOf[v]
  <2>1. ASSUME NEW v \in Workers \ {w} PROVE FlightOf'[v] = FlightOf[v]
    BY <1>1 DEF FlightOf
  <2> QED BY <2>1
<1>5. IsFiniteSet(Heap(FlightOf)) /\ \A v \in Workers : FlightOf'[v] \subseteq FlightOf[v]
  BY <1>2, <1>3, <1>4 DEF AccountInv
<1>6. /\ IsFiniteSet(InFlight') /\ Cardinality(InFlight') \in Nat /\ Cardinality(InFlight) \in Nat
      /\ Cardinality(InFlight') <= Cardinality(InFlight)
  BY <1>2, <1>5, HeapShrinks
<1>7. ASSUME range[w].seq = job.seq
      PROVE  Cardinality(InFlight) = Cardinality(InFlight') + range[w].count
  <2> DEFINE S == NoncesOf(range[w])
  <2>1. IsFiniteSet(S) /\ Cardinality(S) = range[w].count
    BY RangeSize
  <2>2. FlightOf[w] = S
    BY <1>3, <1>7
  <2> HIDE DEF S
  <2>3. /\ FlightOf'[w] \cap S = {} /\ FlightOf[w] = FlightOf'[w] \cup S
        /\ \A v \in Workers \ {w} : FlightOf[v] = FlightOf'[v]
    BY <1>3, <1>4, <2>2
  <2>4. IsFiniteSet(Heap(FlightOf'))
    BY <1>2, <1>6
  <2> DEFINE f == FlightOf'
             g == FlightOf
  <2>5. /\ IsFiniteSet(Heap(f)) /\ f[w] \cap S = {} /\ g[w] = f[w] \cup S
        /\ \A v \in Workers \ {w} : g[v] = f[v]
    BY <2>3, <2>4
  <2> HIDE DEF f, g
  <2>6. IsFiniteSet(Heap(g)) /\ Cardinality(Heap(g)) = Cardinality(Heap(f)) + Cardinality(S)
    BY <2>1, <2>5, HeapGrows
  <2> QED BY <1>2, <2>1, <2>6 DEF f, g
<1> QED BY <1>6, <1>7

(* A worker that scans was counted by miner_start. *)
LEMMA ScannerHasSlot ==
  ASSUME TypeOK, LifeInv, NEW w \in Workers, pc[w] = "scan"
  PROVE  ~(IsCpu(w) /\ w > thread_count)
<1> SUFFICES ASSUME IsCpu(w) PROVE w <= thread_count
  BY WorkerAssumption DEF TypeOK, LifeTypes, Workers, NumWorkers
<1>1. main \notin {"probe", "stopped", "failed", "freed"}
  BY DEF LifeInv, ProbePart, NoUseAfterDestroy, Exists
<1>2. CASE main = "spawn"
  <2>1. w < cursor
    BY <1>2, WorkerAssumption DEF LifeInv, SpawnPart, TypeOK, LifeTypes, Workers, NumWorkers
  <2> QED BY <1>2, <2>1 DEF LifeInv, SpawnPart
<1>3. CASE main \in {"running", "joining"}
  BY <1>3 DEF LifeInv, CpuPart
<1> QED BY <1>1, <1>2, <1>3 DEF TypeOK, LifeTypes

(* A scan ends: its hashes move from in flight to the counters, or are     *)
(* dropped.                                                                *)
LEMMA AccountDone ==
  ASSUME TypeOK, LifeInv, AccountInv, NEW w \in Workers, ScanDone(w)
  PROVE  AccountInv'
<1>1. pc[w] = "scan" /\ LeaveScan(w) /\ UNCHANGED <<job, next_nonce, lost>>
  BY DEF ScanDone, work
<1>2. /\ IsFiniteSet(InFlight') /\ Cardinality(InFlight') \in Nat /\ Cardinality(InFlight) \in Nat
      /\ Cardinality(InFlight') <= Cardinality(InFlight)
      /\ range[w].seq = job.seq => Cardinality(InFlight) = Cardinality(InFlight') + range[w].count
  BY <1>1, FlightLeft
<1>3. HandedOut' = HandedOut /\ HandedOut \in Nat
  <2>1. HandedOut' = HandedOut
    BY <1>1 DEF HandedOut
  <2>2. job.seq \in Nat /\ MaxNonce \in Nat /\ next_nonce \in Nat
    BY SizeAssumption DEF TypeOK, WorkTypes
  <2> QED BY <2>1, <2>2 DEF HandedOut
<1>4. /\ Cardinality(lost) \in Nat /\ hashes \in Nat
      /\ hashes + Cardinality(InFlight) + Cardinality(lost) <= HandedOut
  BY LostFinite DEF AccountInv, TypeOK, WorkTypes
<1>5. CASE ~StillCurrent(w)
  <2>1. UNCHANGED <<hashes, thread_hashes>>
    BY <1>5 DEF ScanDone, counts
  <2>2. Counted' = Counted
    BY <2>1 DEF Counted, Heap
  <2>3. hashes + Cardinality(InFlight') + Cardinality(lost) <= HandedOut
    BY <1>2, <1>3, <1>4
  <2> QED BY <1>1, <1>2, <1>3, <2>1, <2>2, <2>3 DEF AccountInv
<1>6. CASE StillCurrent(w)
  <2> DEFINE c == range[w].count
             t == thread_hashes[w]
             S == (t + 1)..(t + c)
  <2>1. c \in Nat /\ t \in Nat
    BY RangeSize DEF TypeOK, WorkTypes
  <2>2. /\ hashes' = hashes + c
        /\ thread_hashes' = [thread_hashes EXCEPT ![w] = t + c]
    BY <1>1, <1>6, ScannerHasSlot DEF ScanDone
  <2>3. range[w].seq = job.seq
    BY <1>6 DEF StillCurrent
  <2>4. thread_hashes'[w] = t + c /\ \A v \in Workers \ {w} : thread_hashes'[v] = thread_hashes[v]
    BY <2>2 DEF TypeOK, WorkTypes
  <2>5. Counted = Heap(CountedOf) /\ Counted' = Heap(CountedOf')
    BY DEF Counted, CountedOf, Heap
  <2>6. CountedOf[w] = 1..t /\ CountedOf'[w] = 1..(t + c)
    BY <2>4 DEF CountedOf
  <2>7. \A v \in Workers \ {w} : CountedOf'[v] = CountedOf[v]
    BY <2>4 DEF CountedOf
  <2>8. 1..t \cap S = {} /\ 1..(t + c) = 1..t \cup S
    BY <2>1
  <2>9. IsFiniteSet(S) /\ Cardinality(S) = c
    <3> DEFINE a == t + 1
               b == t + c
    <3>1. a \in Int /\ b \in Int /\ (IF a > b THEN 0 ELSE b - a + 1) = c
      BY <2>1
    <3>2. IsFiniteSet(a..b) /\ Cardinality(a..b) = IF a > b THEN 0 ELSE b - a + 1
      BY <3>1, FS_Interval
    <3> QED BY <3>1, <3>2
  <2> HIDE DEF S, c, t
  <2>10. /\ IsFiniteSet(Heap(CountedOf)) /\ CountedOf[w] \cap S = {}
         /\ CountedOf'[w] = CountedOf[w] \cup S
    BY <2>5, <2>6, <2>8 DEF AccountInv
  <2>11. /\ IsFiniteSet(Heap(CountedOf'))
         /\ Cardinality(Heap(CountedOf')) = Cardinality(Heap(CountedOf)) + Cardinality(S)
    BY <2>7, <2>9, <2>10, HeapGrows
  <2>12. IsFiniteSet(Counted') /\ hashes' = Cardinality(Counted')
    BY <2>2, <2>5, <2>9, <2>11 DEF AccountInv
  <2>13. Cardinality(InFlight) = Cardinality(InFlight') + c
    BY <1>2, <2>3 DEF c
  <2>14. hashes' + Cardinality(InFlight') + Cardinality(lost) <= HandedOut
    BY <1>2, <1>3, <1>4, <2>1, <2>2, <2>13
  <2> QED BY <1>1, <1>2, <1>3, <2>12, <2>14 DEF AccountInv
<1> QED BY <1>5, <1>6

(* A scan fails: its nonces are lost. *)
LEMMA AccountFails ==
  ASSUME TypeOK, AccountInv, NEW w \in Workers, ScanFails(w)
  PROVE  AccountInv'
<1>1. /\ pc[w] = "scan" /\ LeaveScan(w) /\ UNCHANGED <<job, next_nonce, hashes, thread_hashes>>
      /\ lost' = IF range[w].seq = job.seq THEN lost \cup NoncesOf(range[w]) ELSE lost
  BY DEF ScanFails, work, counts
<1>2. /\ IsFiniteSet(InFlight') /\ Cardinality(InFlight') \in Nat /\ Cardinality(InFlight) \in Nat
      /\ Cardinality(InFlight') <= Cardinality(InFlight)
      /\ range[w].seq = job.seq => Cardinality(InFlight) = Cardinality(InFlight') + range[w].count
  BY <1>1, FlightLeft
<1>3. HandedOut' = HandedOut /\ HandedOut \in Nat
  <2>1. HandedOut' = HandedOut
    BY <1>1 DEF HandedOut
  <2>2. job.seq \in Nat /\ MaxNonce \in Nat /\ next_nonce \in Nat
    BY SizeAssumption DEF TypeOK, WorkTypes
  <2> QED BY <2>1, <2>2 DEF HandedOut
<1>4. /\ IsFiniteSet(lost) /\ Cardinality(lost) \in Nat /\ hashes \in Nat
      /\ hashes + Cardinality(InFlight) + Cardinality(lost) <= HandedOut
  BY LostFinite DEF AccountInv, TypeOK, WorkTypes
<1>5. Counted' = Counted
  BY <1>1 DEF Counted, Heap
<1>6. hashes + Cardinality(InFlight') + Cardinality(lost') <= HandedOut
  <2>1. CASE range[w].seq = job.seq
    <3> DEFINE S == NoncesOf(range[w])
    <3>1. IsFiniteSet(S) /\ Cardinality(S) = range[w].count /\ range[w].count \in Nat
      BY RangeSize
    <3>2. lost' = lost \cup S
      BY <1>1, <2>1
    <3> HIDE DEF S
    <3>3. Cardinality(lost \cup S) = Cardinality(lost) + Cardinality(S) - Cardinality(lost \cap S)
      BY <1>4, <3>1, FS_Union
    <3>4. Cardinality(lost \cap S) \in Nat
      <4>1. IsFiniteSet(lost \cap S)
        BY <1>4, FS_Subset
      <4> QED BY <4>1, FS_CardinalityType
    <3>5. Cardinality(lost') <= Cardinality(lost) + range[w].count /\ Cardinality(lost') \in Int
      BY <1>4, <3>1, <3>2, <3>3, <3>4
    <3>6. Cardinality(InFlight) = Cardinality(InFlight') + range[w].count
      BY <1>2, <2>1
    <3> QED BY <1>2, <1>3, <1>4, <3>1, <3>5, <3>6
  <2>2. CASE range[w].seq # job.seq
    <3>1. lost' = lost
      BY <1>1, <2>2
    <3> QED BY <1>2, <1>3, <1>4, <3>1
  <2> QED BY <2>1, <2>2
<1> QED BY <1>1, <1>2, <1>3, <1>5, <1>6 DEF AccountInv

LEMMA AccountNext ==
  ASSUME TypeOK, AllocInv, LifeInv, JobStarted, AccountInv, [Next]_vars
  PROVE  AccountInv'
<1>1. AccountFrame => AccountInv'
  BY AccountFrameInv
<1>2. CASE MinerSetJob
  BY <1>2, AccountSetJob
<1>3. ASSUME NEW w \in Workers, CopyRange(w) PROVE AccountInv'
  BY <1>3, AccountCopy
<1>4. ASSUME NEW w \in Workers, ScanDone(w) PROVE AccountInv'
  BY <1>4, AccountDone
<1>5. ASSUME NEW w \in Workers, ScanFails(w) PROVE AccountInv'
  BY <1>5, AccountFails
<1> QED
  BY <1>1, <1>2, <1>3, <1>4, <1>5, AccountFrameSteps DEF Next, Operation, Worker, Terminated

(* However the workers' scans interleave with new jobs, pauses and         *)
(* failures, hashes is the sum of the workers' counters and never exceeds  *)
(* what copy_job_and_nonce_range_sized handed out, less what is still      *)
(* being scanned and what a failed scan lost.                              *)
THEOREM HashesAreCountedOnce == Spec => []HashAccounting
<1>1. Init => AccountInv /\ LifeInv /\ JobStarted
  <2> SUFFICES ASSUME Init PROVE AccountInv /\ LifeInv /\ JobStarted
    OBVIOUS
  <2>1. LifeInv
    BY WorkerAssumption
       DEF Init, LifeInv, ProbePart, SpawnPart, JoinPart, CpuPart, NoUseAfterDestroy, Exists
  <2>2. JobStarted
    BY DEF Init, JobStarted
  <2>3. 1..0 = {} /\ IsFiniteSet({}) /\ Cardinality({}) = 0
    BY FS_EmptySet
  <2>4. \A w \in Workers : CountedOf[w] = {} /\ FlightOf[w] = {}
    BY <2>3 DEF Init, CountedOf, FlightOf
  <2>5. Counted = Heap(CountedOf) /\ InFlight = Heap(FlightOf)
    BY DEF Counted, CountedOf, InFlight, FlightOf
  <2>6. Counted = {} /\ InFlight = {}
    <3>1. ASSUME NEW x, x \in Heap(CountedOf) PROVE FALSE
      <4>1. PICK w \in Workers : x \in {w} \X CountedOf[w]
        BY <3>1, HeapMember
      <4>2. CountedOf[w] = {}
        BY <2>4
      <4> QED BY <4>1, <4>2
    <3>2. ASSUME NEW x, x \in Heap(FlightOf) PROVE FALSE
      <4>1. PICK w \in Workers : x \in {w} \X FlightOf[w]
        BY <3>2, HeapMember
      <4>2. FlightOf[w] = {}
        BY <2>4
      <4> QED BY <4>1, <4>2
    <3> QED BY <2>5, <3>1, <3>2
  <2>7. hashes = 0 /\ lost = {} /\ HandedOut = 0
    BY DEF Init, HandedOut
  <2>8. AccountInv
    BY <2>3, <2>6, <2>7 DEF AccountInv
  <2> QED BY <2>1, <2>2, <2>8
<1>2. AccountInv => HashAccounting
  BY DEF AccountInv, HashAccounting, HandedOut
<1>3. TypeOK /\ LifeInv /\ [Next]_vars => LifeInv'
  BY LifeNext
<1>4. TypeOK /\ JobStarted /\ [Next]_vars => JobStarted'
  BY StartedNext
<1>5. TypeOK /\ AllocInv /\ LifeInv /\ JobStarted /\ AccountInv /\ [Next]_vars => AccountInv'
  BY AccountNext
<1> QED
  BY <1>1, <1>2, <1>3, <1>4, <1>5, TypeCorrect, AllocInvariant, PTL DEF Spec
=============================================================================

