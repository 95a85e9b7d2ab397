--------------------------- MODULE StratumProofs ---------------------------
(***************************************************************************)
(* Proofs about Stratum: type correctness, that the miner works on what    *)
(* the pool said last and on whole templates, that nothing is submitted    *)
(* twice, and that the pending table is exact.                             *)
(***************************************************************************)
EXTENDS Stratum, FiniteSetTheorems, SequenceTheorems, WellFoundedInduction, TLAPS

(* The miner numbers its jobs as the client gives them, and what waits in  *)
(* its queue belongs to the last one.                                      *)
SeqInv ==
    /\ seq = Len(jobs)
    /\ \A i \in 1..Len(waiting) : waiting[i].seq = seq /\ seq > 0

TypeInv == TypeOK /\ SeqInv

(* The digits snprintf prints are a number. *)
LEMMA DigitsType == ASSUME NEW v \in Nat PROVE Digits(v) \in Nat
<1> DEFINE D == {d \in 1..MaxDigits : d = 1 \/ v >= Radix ^ (d - 1)}
<1>1. IsFiniteSet(1..MaxDigits)
  BY FS_Interval, SizeAssumption
<1>2. D \subseteq 1..MaxDigits
  OBVIOUS
<1>3. IsFiniteSet(D)
  BY <1>1, <1>2, FS_Subset
<1> QED BY <1>3, FS_CardinalityType DEF Digits

(* miner_format_extranonce2 yields a length and the counter. *)
LEMMA FormatType ==
    ASSUME NEW size \in Int, NEW v \in Nat
    PROVE  /\ FormatExtranonce2(size, v) \in Extranonce2
           /\ FormatExtranonce2(size, v).value = v
BY DigitsType DEF FormatExtranonce2, Extranonce2

(* A message gives an extranonce1 and a size, or leaves what was there. *)
LEMMA GivenType ==
    ASSUME view \in View, NEW e \in GivenExtranonces, NEW n \in GivenSizes
    PROVE  [view EXCEPT !.extranonce1 = e, !.extranonce2_size = n] \in View
<1>1. e \in Extranonces \cup {NoExtranonce}
  BY DEF GivenExtranonces, View
<1>2. n \in Int
  BY SizeAssumption DEF GivenSizes, View
<1> QED BY <1>1, <1>2 DEF View

(* rebuild_miner_job either gives the miner the job of the view or leaves  *)
(* the miner alone.                                                        *)
LEMMA RebuildOutcome ==
    ASSUME TypeInv, NEW v \in View, RebuildMinerJob(v)
    PROVE  /\ extranonce2_counter' \in Nat \ {0}
           /\ \/ /\ built' = TRUE
                 /\ v.template_valid = TRUE /\ v.extranonce1 # NoExtranonce
                 /\ JobOf(v) \in Job /\ Buildable(JobOf(v))
                 /\ jobs' = Append(jobs, JobOf(v)) /\ Stream!NewJob
              \/ built' = FALSE /\ jobs' = jobs /\ UNCHANGED miner
<1>1. extranonce2_counter \in Nat /\ extranonce2_counter + 1 \in Nat \ {0}
  BY DEF TypeInv, TypeOK, WorkTypes
<1>2. JobOf(v) \in Job
  BY <1>1, FormatType DEF JobOf, View, Job
<1> DEFINE attempted == /\ EnableMining
                        /\ v.template_valid
                        /\ v.extranonce1 # NoExtranonce
                        /\ v.extranonce2_size > 0
           success == attempted /\ Buildable(JobOf(v))
<1>3. /\ built' = success
      /\ extranonce2_counter' = extranonce2_counter + (IF attempted THEN 1 ELSE 0)
      /\ \/ success  /\ jobs' = Append(jobs, JobOf(v)) /\ Stream!NewJob
         \/ ~success /\ UNCHANGED <<jobs, miner>>
  BY DEF RebuildMinerJob
<1>4. extranonce2_counter' \in Nat \ {0}
  <2> HIDE DEF attempted, success
  <2> QED BY <1>1, <1>3 DEF TypeInv, TypeOK, WorkTypes
<1>5. CASE success
  <2>1. built' = TRUE /\ jobs' = Append(jobs, JobOf(v)) /\ Stream!NewJob
    <3> HIDE DEF success
    <3> QED BY <1>3, <1>5
  <2>2. v.template_valid = TRUE
    BY <1>5 DEF View
  <2> QED BY <1>2, <1>4, <1>5, <2>1, <2>2
<1>6. CASE ~success
  <2>1. built' = FALSE /\ jobs' = jobs /\ UNCHANGED miner
    <3> HIDE DEF success
    <3> QED BY <1>3, <1>6
  <2> QED BY <1>4, <2>1
<1> QED BY <1>5, <1>6

-----------------------------------------------------------------------------
(* Type correctness.  The parts of TypeOK that a step leaves alone are     *)
(* carried over by the frame lemmas; one step per action shows the rest.   *)

WorkInv == WorkTypes /\ MinerTypes /\ SeqInv

(* The work of the miner is untouched by what does not touch its variables. *)
LEMMA WorkFrame ==
    ASSUME WorkInv, UNCHANGED work
    PROVE  WorkInv'
BY DEF WorkInv, WorkTypes, MinerTypes, SeqInv, work, miner

(* Giving the miner a job (miner_set_job) or leaving it alone keeps its    *)
(* types and its numbering.                                                *)
LEMMA WorkRebuild ==
    ASSUME TypeInv, NEW v \in View, RebuildMinerJob(v)
    PROVE  WorkInv'
<1>1. WorkInv
  BY DEF TypeInv, TypeOK, WorkInv
<1>2. CASE /\ built' = TRUE /\ JobOf(v) \in Job
           /\ jobs' = Append(jobs, JobOf(v)) /\ Stream!NewJob
  <2>1. jobs' \in Seq(Job) /\ Len(jobs') = Len(jobs) + 1
    BY <1>1, <1>2 DEF WorkInv, WorkTypes
  <2>2. WorkTypes'
    BY <1>2, <2>1, RebuildOutcome DEF WorkTypes
  <2>3. MinerTypes'
    <3>1. seq' \in Nat /\ supply' \subseteq 0..MaxNonce /\ delivered' \subseteq [seq : Nat, nonce : 0..MaxNonce]
      BY <1>1, <1>2 DEF WorkInv, MinerTypes, Stream!NewJob
    <3>2. valid' \in BOOLEAN /\ exhausted' \in BOOLEAN /\ paused' \in BOOLEAN
      BY <1>1, <1>2, Zenon DEF WorkInv, MinerTypes, Stream!NewJob
    <3>3. waiting' \in Seq([seq : Nat, nonce : 0..MaxNonce])
      BY <1>2 DEF Stream!NewJob
    <3> QED BY <3>1, <3>2, <3>3 DEF MinerTypes
  <2>4. SeqInv'
    BY <1>1, <1>2, <2>1 DEF WorkInv, SeqInv, Stream!NewJob
  <2> QED BY <2>2, <2>3, <2>4 DEF WorkInv
<1>3. CASE built' = FALSE /\ jobs' = jobs /\ UNCHANGED miner
  <2>1. extranonce2_counter' \in Nat \ {0}
    BY RebuildOutcome
  <2> QED BY <1>1, <1>3, <2>1 DEF WorkInv, WorkTypes, MinerTypes, SeqInv, miner
<1> QED BY <1>2, <1>3, RebuildOutcome

(* The workers, the keyboard and the roll change the miner within its      *)
(* types: a reported share is of the active job.                           *)
LEMMA WorkStream ==
    ASSUME WorkInv, UNCHANGED <<extranonce2_counter, jobs, built>>,
           \/ Stream!HandOut \/ Stream!Exhaust \/ Stream!TakeExhausted
           \/ \E p \in BOOLEAN : Stream!SetPaused(p)
           \/ \E n \in 0..MaxNonce : Stream!Report(n)
           \/ Stream!Deliver
    PROVE  WorkInv'
<1> DEFINE SH == [seq : Nat, nonce : 0..MaxNonce]
<1>0. WorkTypes'
  BY DEF WorkInv, WorkTypes
<1>1. CASE Stream!HandOut
  <2>1. supply' \subseteq 0..MaxNonce
    BY <1>1 DEF WorkInv, MinerTypes, Stream!HandOut
  <2>2. UNCHANGED <<seq, valid, exhausted, paused, waiting, delivered>>
    BY <1>1 DEF Stream!HandOut
  <2> QED BY <1>0, <2>1, <2>2 DEF WorkInv, MinerTypes, SeqInv
<1>2. CASE Stream!Exhaust \/ Stream!TakeExhausted \/ \E p \in BOOLEAN : Stream!SetPaused(p)
  <2>1. UNCHANGED <<seq, supply, waiting, delivered>>
    BY <1>2 DEF Stream!Exhaust, Stream!TakeExhausted, Stream!SetPaused
  <2>2. valid' \in BOOLEAN /\ exhausted' \in BOOLEAN /\ paused' \in BOOLEAN
    BY <1>2, Zenon DEF WorkInv, MinerTypes, Stream!Exhaust, Stream!TakeExhausted, Stream!SetPaused
  <2> QED BY <1>0, <2>1, <2>2 DEF WorkInv, MinerTypes, SeqInv
<1>3. CASE \E n \in 0..MaxNonce : Stream!Report(n)
  <2>1. PICK n \in 0..MaxNonce : Stream!Report(n)
    BY <1>3
  <2> DEFINE s == [seq |-> seq, nonce |-> n]
  <2>2. s \in SH /\ waiting' = Append(waiting, s) /\ seq > 0
    BY <2>1 DEF WorkInv, MinerTypes, Stream!Report
  <2>3. UNCHANGED <<seq, valid, exhausted, paused, supply, delivered>>
    BY <2>1 DEF Stream!Report
  <2>4. waiting' \in Seq(SH)
    BY <2>2 DEF WorkInv, MinerTypes
  <2>5. \A i \in 1..Len(waiting') : waiting'[i].seq = seq
    BY <2>2 DEF WorkInv, MinerTypes, SeqInv
  <2> QED BY <1>0, <2>2, <2>3, <2>4, <2>5 DEF WorkInv, MinerTypes, SeqInv
<1>4. CASE Stream!Deliver
  <2>1. /\ waiting # <<>> /\ waiting \in Seq(SH)
        /\ delivered' = delivered \cup {Head(waiting)} /\ waiting' = Tail(waiting)
    BY <1>4 DEF WorkInv, MinerTypes, Stream!Deliver
  <2>2. UNCHANGED <<seq, valid, exhausted, paused, supply>>
    BY <1>4 DEF Stream!Deliver
  <2>3. Head(waiting) \in SH /\ waiting' \in Seq(SH) /\ Len(waiting') = Len(waiting) - 1
    <3> HIDE DEF SH
    <3> QED BY <2>1, HeadTailProperties
  <2>4. \A i \in 1..Len(waiting') : waiting'[i] = waiting[i + 1] /\ i + 1 \in 1..Len(waiting)
    <3>1. Len(waiting) \in Nat
      BY <2>1
    <3>2. \A i \in 1..Len(Tail(waiting)) : Tail(waiting)[i] = waiting[i + 1]
      <4> HIDE DEF SH
      <4> QED BY <2>1, HeadTailProperties
    <3> QED BY <2>1, <2>3, <3>1, <3>2
  <2>5. SeqInv'
    BY <2>2, <2>4 DEF WorkInv, SeqInv
  <2> QED BY <1>0, <2>1, <2>2, <2>3, <2>5 DEF WorkInv, MinerTypes
<1> QED BY <1>1, <1>2, <1>3, <1>4

(* stratum_state_init starts with the types. *)
LEMMA TypeInit == Init => TypeInv
<1> SUFFICES ASSUME Init PROVE TypeInv
  OBVIOUS
<1>1. ViewTypes
  <2>1. view \in View
    BY DEF Init, View, NoExtranonce
  <2>2. subscribed \in BOOLEAN /\ authorized \in BOOLEAN
    BY Zenon DEF Init
  <2> QED BY <2>1, <2>2, SizeAssumption DEF Init, ViewTypes
<1>2. WorkTypes /\ SeqInv
  <2>1. built \in BOOLEAN
    BY Zenon DEF Init
  <2>2. jobs = <<>> /\ waiting = <<>> /\ seq = 0 /\ extranonce2_counter = 1
    BY DEF Init, Stream!Init
  <2>3. jobs \in Seq(Job) /\ Len(jobs) = 0 /\ Len(waiting) = 0
    BY <2>2
  <2> QED BY <2>1, <2>2, <2>3 DEF WorkTypes, SeqInv
<1>3. TallyTypes
  BY DEF Init, TallyTypes, PendingSlots
<1>4. MinerTypes
  <2>1. valid \in BOOLEAN /\ exhausted \in BOOLEAN /\ paused \in BOOLEAN
    BY Zenon DEF Init, Stream!Init
  <2>2. seq \in Nat /\ supply \subseteq 0..MaxNonce
    BY DEF Init, Stream!Init
  <2>3. waiting \in Seq([seq : Nat, nonce : 0..MaxNonce])
    BY DEF Init, Stream!Init
  <2>4. delivered \subseteq [seq : Nat, nonce : 0..MaxNonce]
    BY DEF Init, Stream!Init
  <2> QED BY <2>1, <2>2, <2>3, <2>4 DEF MinerTypes
<1>5. LoopTypes
  <2>1. authorize_sent \in BOOLEAN /\ suggest_sent \in BOOLEAN /\ session_armed \in BOOLEAN
    BY Zenon DEF Init
  <2>2. sent \in Seq([job_id : Nat, extranonce2 : Extranonce2, nonce : 0..MaxNonce])
    BY DEF Init
  <2>3. next_rpc_id \in Nat /\ next_rpc_id >= 4 /\ unanswered \subseteq Nat
    BY DEF Init
  <2>4. /\ phase \in {"top", "flush", "roll", "rebuild", "read", "post", "ended"}
        /\ run_result \in {0, 1}
    BY DEF Init
  <2> QED BY <2>1, <2>2, <2>3, <2>4 DEF LoopTypes
<1> QED BY <1>1, <1>2, <1>3, <1>4, <1>5 DEF TypeInv, TypeOK

(* The handlers that rebuild the job keep the types of the view and of the *)
(* miner.                                                                  *)
LEMMA TypeHandlers ==
    ASSUME TypeInv,
           \/ \E n \in 0..Fields, u \in BOOLEAN : HandleNotify(n, u)
           \/ \E d \in Difficulties : HandleSetDifficulty(d)
           \/ \E e \in GivenExtranonces, n \in GivenSizes : HandleSetExtranonce(e, n)
    PROVE  ViewTypes' /\ WorkInv'
<1>0. WorkInv /\ ViewTypes
  BY DEF TypeInv, TypeOK, WorkInv
<1>1. CASE \E n \in 0..Fields, u \in BOOLEAN : HandleNotify(n, u)
  <2>1. PICK n \in 0..Fields, u \in BOOLEAN : HandleNotify(n, u)
    BY <1>1
  <2> DEFINE v == StoreTemplate(n)
  <2>2. /\ view' = v /\ notify_count < MaxNotify /\ notify_count' = notify_count + 1
        /\ unusable' = unusable \cup (IF u THEN {} ELSE {notify_count + 1})
        /\ \/ n = 0 /\ RebuildMinerJob(v)
           \/ n # 0 /\ UNCHANGED work
        /\ UNCHANGED <<subscribed, authorized>>
    BY <2>1 DEF HandleNotify
  <2>3. notify_count + 1 \in Nat
    BY <1>0, SizeAssumption DEF ViewTypes
  <2>4. v \in View
    <3>1. Stored(n) \in [1..Fields -> Nat]
      BY <1>0, <2>3 DEF ViewTypes, View, Stored
    <3> QED BY <1>0, <3>1 DEF ViewTypes, View, StoreTemplate
  <2>5. notify_count' \in 0..MaxNotify /\ unusable' \subseteq 1..MaxNotify
    BY <1>0, <2>2, SizeAssumption DEF ViewTypes
  <2>6. WorkInv'
    <3> HIDE DEF v
    <3> QED BY <1>0, <2>2, <2>4, WorkFrame, WorkRebuild
  <2> QED BY <1>0, <2>2, <2>4, <2>5, <2>6 DEF ViewTypes
<1>2. CASE \E d \in Difficulties : HandleSetDifficulty(d)
  <2>1. PICK d \in Difficulties : HandleSetDifficulty(d)
    BY <1>2
  <2> DEFINE v == [view EXCEPT !.difficulty = d]
  <2>2. /\ view' = v /\ UNCHANGED <<subscribed, authorized, notify_count, unusable>>
        /\ \/ v.template_valid /\ RebuildMinerJob(v)
           \/ ~v.template_valid /\ UNCHANGED work
    BY <2>1 DEF HandleSetDifficulty, session
  <2>3. v \in View
    BY <1>0, SizeAssumption DEF ViewTypes, View
  <2>4. WorkInv'
    <3> HIDE DEF v
    <3> QED BY <1>0, <2>2, <2>3, WorkFrame, WorkRebuild
  <2> QED BY <1>0, <2>2, <2>3, <2>4 DEF ViewTypes
<1>3. CASE \E e \in GivenExtranonces, n \in GivenSizes : HandleSetExtranonce(e, n)
  <2>1. PICK e \in GivenExtranonces, n \in GivenSizes : HandleSetExtranonce(e, n)
    BY <1>3
  <2> DEFINE v == [view EXCEPT !.extranonce1 = e, !.extranonce2_size = n]
  <2>2. /\ view' = v /\ UNCHANGED <<subscribed, authorized, notify_count, unusable>>
        /\ \/ v.template_valid /\ RebuildMinerJob(v)
           \/ ~v.template_valid /\ UNCHANGED work
    BY <2>1 DEF HandleSetExtranonce, session
  <2>3. v \in View
    BY <1>0, GivenType DEF ViewTypes
  <2>4. WorkInv'
    <3> HIDE DEF v
    <3> QED BY <1>0, <2>2, <2>3, WorkFrame, WorkRebuild
  <2> QED BY <1>0, <2>2, <2>3, <2>4 DEF ViewTypes
<1> QED BY <1>1, <1>2, <1>3

(* Submitting a share and receiving its answer keep the pending table and  *)
(* the counters well formed.                                               *)
LEMMA TypeTally ==
    ASSUME TypeInv, FlushShare \/ \E id \in unanswered, ok \in BOOLEAN : SubmitResult(id, ok)
    PROVE  TallyTypes'
<1>0. TallyTypes /\ next_rpc_id \in Nat /\ unanswered \subseteq Nat
  BY DEF TypeInv, TypeOK, LoopTypes
<1>1. CASE FlushShare /\ RegisterPendingShare(next_rpc_id)
  <2>1. pending' \in [PendingSlots -> [id : Nat, active : BOOLEAN]]
    BY <1>0, <1>1 DEF TallyTypes, RegisterPendingShare
  <2> QED BY <1>0, <1>1, <2>1 DEF TallyTypes, RegisterPendingShare
<1>2. CASE UNCHANGED tally
  BY <1>0, <1>2 DEF TallyTypes, tally
<1>3. CASE \E id \in unanswered, ok \in BOOLEAN : SubmitResult(id, ok)
  <2>1. PICK id \in unanswered, ok \in BOOLEAN : SubmitResult(id, ok)
    BY <1>3
  <2>2. /\ accept_count' \in Nat /\ reject_count' \in Nat /\ submit_count' \in Nat
    BY <1>0, <2>1 DEF TallyTypes, SubmitResult
  <2>3. CASE Completed(id) = {}
    BY <1>0, <2>1, <2>2, <2>3 DEF TallyTypes, SubmitResult
  <2>4. CASE Completed(id) # {}
    <3>1. PICK slot : /\ pending' = [pending EXCEPT ![slot].active = FALSE]
                      /\ pending_count' = IF pending_count > 0 THEN pending_count - 1 ELSE pending_count
      BY <2>1, <2>4 DEF SubmitResult
    <3>2. pending_count' \in Nat
      BY <1>0, <3>1 DEF TallyTypes
    <3>3. pending' \in [PendingSlots -> [id : Nat, active : BOOLEAN]]
      BY <1>0, <3>1 DEF TallyTypes
    <3> QED BY <2>2, <3>2, <3>3 DEF TallyTypes
  <2> QED BY <2>3, <2>4
<1> QED BY <1>1, <1>2, <1>3 DEF FlushShare

(* The message of a share in the queue is well formed: its job is one of   *)
(* the session's.                                                          *)
LEMMA SubmitType ==
    ASSUME TypeInv, waiting # <<>>
    PROVE  SubmitOf(Head(waiting)) \in [job_id : Nat, extranonce2 : Extranonce2, nonce : 0..MaxNonce]
<1> DEFINE SH == [seq : Nat, nonce : 0..MaxNonce]
<1>1. waiting \in Seq(SH) /\ jobs \in Seq(Job) /\ SeqInv
  BY DEF TypeInv, TypeOK, MinerTypes, WorkTypes
<1>2. Head(waiting) = waiting[1] /\ 1 \in 1..Len(waiting) /\ Head(waiting) \in SH
  <2>1. Len(waiting) \in Nat \ {0}
    BY <1>1
  <2> HIDE DEF SH
  <2> QED BY <1>1, <2>1, HeadTailProperties
<1>3. Head(waiting).seq \in 1..Len(jobs)
  BY <1>1, <1>2 DEF SeqInv
<1>4. jobs[Head(waiting).seq] \in Job
  BY <1>1, <1>3
<1> QED BY <1>2, <1>4, SizeAssumption DEF SubmitOf, Job

(* No step of stratum_run_client or of a worker leaves the types. *)
LEMMA TypeNext == TypeInv /\ [Next]_vars => TypeInv'
<1> SUFFICES ASSUME TypeInv, [Next]_vars PROVE TypeInv'
  OBVIOUS
<1> USE DEF TypeInv, TypeOK
<1>0. ViewTypes /\ WorkInv /\ TallyTypes /\ LoopTypes
  BY DEF WorkInv
<1>Q. ASSUME ViewTypes', WorkInv', TallyTypes', LoopTypes' PROVE TypeInv'
  BY <1>Q DEF WorkInv
<1> DEFINE ViewSame  == UNCHANGED <<view, session, unusable>>
           LoopSame  == UNCHANGED <<sends, sent, unanswered>>
<1>V. ASSUME ViewSame PROVE ViewTypes'
  BY <1>0, <1>V DEF ViewTypes, session
<1>T. ASSUME UNCHANGED tally PROVE TallyTypes'
  BY <1>0, <1>T DEF TallyTypes, tally
<1>L. ASSUME LoopSame,
             phase' \in {"top", "flush", "roll", "rebuild", "read", "post", "ended"},
             run_result' \in {0, 1}
      PROVE  LoopTypes'
  BY <1>0, <1>L DEF LoopTypes, sends
<1>R. ASSUME ReadLine, unanswered' \subseteq unanswered PROVE LoopTypes'
  BY <1>0, <1>R DEF LoopTypes, sends, ReadLine
<1> HIDE DEF TypeInv
<1>1. CASE TimeUp \/ FlushDone \/ ReadTimeout \/ ReadFails
  <2>1. ViewSame /\ LoopSame /\ UNCHANGED <<work, tally>>
    BY <1>1 DEF TimeUp, FlushDone, ReadTimeout, ReadFails
  <2>2. LoopTypes'
    BY <1>0, <1>1, <1>L, <2>1 DEF LoopTypes, TimeUp, FlushDone, ReadTimeout, ReadFails, End
  <2> QED BY <1>0, <1>Q, <1>V, <1>T, <2>1, <2>2, WorkFrame
<1>2. CASE HandleKeyboardInput \/ MaybeRollExtranonce \/ Workers
  <2>1. ViewSame /\ LoopSame /\ UNCHANGED <<tally, extranonce2_counter, jobs, built, run_result>>
    BY <1>2 DEF HandleKeyboardInput, MaybeRollExtranonce, Workers
  <2>2. LoopTypes'
    BY <1>0, <1>2, <1>L, <2>1 DEF LoopTypes, HandleKeyboardInput, MaybeRollExtranonce, Workers
  <2>3. CASE UNCHANGED miner
    <3>1. UNCHANGED work
      BY <2>1, <2>3 DEF work
    <3> QED BY <1>0, <1>Q, <1>V, <1>T, <2>1, <2>2, <3>1, WorkFrame
  <2>4. CASE ~UNCHANGED miner
    <3>1. \/ Stream!HandOut \/ Stream!Exhaust \/ Stream!TakeExhausted
          \/ \E p \in BOOLEAN : Stream!SetPaused(p)
          \/ \E n \in 0..MaxNonce : Stream!Report(n)
      BY <1>2, <2>4, Zenon DEF HandleKeyboardInput, MaybeRollExtranonce, Workers
    <3>2. WorkInv'
      BY <1>0, <2>1, <3>1, WorkStream
    <3> QED BY <1>Q, <1>V, <1>T, <2>1, <2>2, <3>2
  <2> QED BY <2>3, <2>4
<1>3. CASE FlushShare
  <2>1. ViewSame /\ UNCHANGED <<extranonce2_counter, jobs, built>> /\ Stream!Deliver
    BY <1>3 DEF FlushShare
  <2>2. WorkInv'
    BY <1>0, <2>1, WorkStream
  <2>3. /\ next_rpc_id' = next_rpc_id + 1 /\ UNCHANGED <<authorize_sent, suggest_sent, session_armed>>
        /\ \/ UNCHANGED <<phase, run_result>>
           \/ phase' = "ended" /\ run_result' = 1
    BY <1>3 DEF FlushShare, End
  <2>4. unanswered' \subseteq Nat
    BY <1>0, <1>3 DEF FlushShare, LoopTypes
  <2>5. sent' \in Seq([job_id : Nat, extranonce2 : Extranonce2, nonce : 0..MaxNonce])
    <3>1. waiting # <<>> /\ (sent' = sent \/ sent' = Append(sent, SubmitOf(Head(waiting))))
      BY <1>3 DEF FlushShare
    <3> DEFINE M == [job_id : Nat, extranonce2 : Extranonce2, nonce : 0..MaxNonce]
    <3>2. SubmitOf(Head(waiting)) \in M /\ sent \in Seq(M)
      BY <1>0, <3>1, SubmitType DEF LoopTypes
    <3> HIDE DEF M
    <3>3. sent' \in Seq(M)
      BY <3>1, <3>2
    <3> QED BY <3>3 DEF M
  <2>6. LoopTypes'
    BY <1>0, <2>3, <2>4, <2>5 DEF LoopTypes
  <2>7. TallyTypes'
    BY <1>3, TypeTally
  <2> QED BY <1>Q, <1>V, <2>1, <2>2, <2>6, <2>7
<1>4. CASE RollExtranonce
  <2>1. /\ ViewSame /\ LoopSame /\ UNCHANGED <<tally, run_result>> /\ phase' = "read"
        /\ RebuildMinerJob(view) /\ view \in View
    BY <1>0, <1>4 DEF RollExtranonce, ViewTypes
  <2>2. LoopTypes'
    BY <1>0, <1>L, <2>1 DEF LoopTypes
  <2>3. WorkInv'
    BY <2>1, WorkRebuild
  <2> QED BY <1>Q, <1>V, <1>T, <2>1, <2>2, <2>3
<1>5. CASE SendDue
  <2>1. ViewSame /\ UNCHANGED <<work, tally, sent, next_rpc_id>>
    BY <1>5 DEF SendDue, sends
  <2>2. authorize_sent' \in BOOLEAN /\ suggest_sent' \in BOOLEAN /\ session_armed' \in BOOLEAN
    BY <1>0, <1>5, Zenon DEF SendDue, LoopTypes, sends
  <2>3. unanswered' \subseteq Nat /\ phase' \in {"top", "ended"} /\ run_result' \in {0, 1}
    <3>1. unanswered' \subseteq Nat
      <4>1. CASE unanswered' = unanswered
        BY <1>0, <4>1 DEF LoopTypes
      <4>2. CASE unanswered' # unanswered
        <5>1. unanswered' \subseteq unanswered \cup {2, 3}
          BY <1>5, <4>2, Zenon DEF SendDue
        <5> QED BY <1>0, <5>1 DEF LoopTypes
      <4> QED BY <4>1, <4>2
    <3> QED BY <1>0, <1>5, <3>1 DEF SendDue, LoopTypes, End
  <2>4. LoopTypes'
    BY <1>0, <2>1, <2>2, <2>3 DEF LoopTypes
  <2> QED BY <1>0, <1>Q, <1>V, <1>T, <2>1, <2>4, WorkFrame
<1>6. CASE \/ \E n \in 0..Fields, u \in BOOLEAN : HandleNotify(n, u)
           \/ \E d \in Difficulties : HandleSetDifficulty(d)
           \/ \E e \in GivenExtranonces, n \in GivenSizes : HandleSetExtranonce(e, n)
  <2>1. ReadLine /\ UNCHANGED <<tally, unanswered>>
    BY <1>6 DEF HandleNotify, HandleSetDifficulty, HandleSetExtranonce
  <2> QED BY <1>6, <1>Q, <1>T, <1>R, <2>1, TypeHandlers
<1>7. CASE \E e \in GivenExtranonces, n \in GivenSizes : SubscribeResult(e, n)
  <2>1. PICK e \in GivenExtranonces, n \in GivenSizes : SubscribeResult(e, n)
    BY <1>7
  <2>2. ReadLine /\ unanswered' \subseteq unanswered /\ UNCHANGED <<work, tally>>
    BY <2>1 DEF SubscribeResult
  <2>3. ViewTypes'
    <3>1. view' \in View
      BY <1>0, <2>1, GivenType DEF SubscribeResult, ViewTypes
    <3> QED BY <1>0, <2>1, <3>1 DEF SubscribeResult, ViewTypes
  <2> QED BY <1>0, <1>Q, <1>T, <1>R, <2>2, <2>3, WorkFrame
<1>8. CASE \E ok \in BOOLEAN : AuthorizeResult(ok)
  <2>1. PICK ok \in BOOLEAN : AuthorizeResult(ok)
    BY <1>8
  <2>2. ReadLine /\ unanswered' \subseteq unanswered /\ UNCHANGED <<work, tally>>
    BY <2>1 DEF AuthorizeResult
  <2>3. ViewTypes'
    BY <1>0, <2>1 DEF AuthorizeResult, ViewTypes
  <2> QED BY <1>0, <1>Q, <1>T, <1>R, <2>2, <2>3, WorkFrame
<1>9. CASE \E id \in unanswered, ok \in BOOLEAN : SubmitResult(id, ok)
  <2>1. ReadLine /\ unanswered' \subseteq unanswered /\ ViewSame /\ UNCHANGED work
    BY <1>9 DEF SubmitResult
  <2>2. TallyTypes'
    BY <1>9, TypeTally
  <2> QED BY <1>0, <1>Q, <1>V, <1>R, <2>1, <2>2, WorkFrame
<1>10. CASE OtherLine
  <2>1. ReadLine /\ unanswered' \subseteq unanswered /\ ViewSame /\ UNCHANGED <<work, tally>>
    BY <1>10 DEF OtherLine
  <2> QED BY <1>0, <1>Q, <1>V, <1>T, <1>R, <2>1, WorkFrame
<1>11. CASE UNCHANGED vars \/ Terminated
  <2>1. ViewSame /\ LoopSame /\ UNCHANGED <<work, tally, phase, run_result>>
    BY <1>11 DEF vars, Terminated
  <2>2. LoopTypes'
    BY <1>0, <1>L, <2>1 DEF LoopTypes
  <2> QED BY <1>0, <1>Q, <1>V, <1>T, <2>1, <2>2, WorkFrame
<1> HIDE DEF ViewSame, LoopSame
<1> QED BY <1>1, <1>2, <1>3, <1>4, <1>5, <1>6, <1>7, <1>8, <1>9, <1>10, <1>11
        DEF Next, Client, ProcessLine

(* Type correctness of the session. *)
LEMMA TypeInvariant == Spec => []TypeInv
BY TypeInit, TypeNext, PTL DEF Spec

(* stratum_state_t, the locals of stratum_run_client and the miner keep    *)
(* their types for any template length, table size, extranonce and bound.  *)
THEOREM SessionTypes == Spec => []TypeOK
<1>1. TypeInv => TypeOK
  BY DEF TypeInv
<1> QED BY <1>1, TypeInvariant, PTL

-----------------------------------------------------------------------------
(* The miner works on what the pool said last.  The one handler that       *)
(* changes the view without a rebuild is the answer to mining.subscribe;   *)
(* it is harmless because nothing can have been built before it.           *)

FreshCore ==
    (built /\ view.template_valid) =>
        /\ seq > 0
        /\ jobs[seq].template = view.template
        /\ jobs[seq].extranonce1 = view.extranonce1
        /\ jobs[seq].difficulty = view.difficulty

SubscribeFirst ==
    /\ built => view.extranonce1 # NoExtranonce
    /\ 1 \in unanswered => (~subscribed /\ view.extranonce1 = NoExtranonce)

FreshInv == FreshCore /\ SubscribeFirst

(* A rebuild that succeeds gives the miner the view; one that does not is  *)
(* remembered as such.                                                     *)
LEMMA FreshRebuild ==
    ASSUME TypeInv, NEW v \in View, RebuildMinerJob(v), view' = v
    PROVE  FreshCore' /\ (built' => view'.extranonce1 # NoExtranonce)
<1>1. jobs \in Seq(Job) /\ seq = Len(jobs) /\ seq \in Nat
  BY DEF TypeInv, TypeOK, WorkTypes, SeqInv, MinerTypes
<1>2. CASE /\ built' = TRUE /\ v.extranonce1 # NoExtranonce /\ JobOf(v) \in Job
           /\ jobs' = Append(jobs, JobOf(v)) /\ Stream!NewJob
  <2>1. seq' = seq + 1
    BY <1>2 DEF Stream!NewJob
  <2>2. jobs'[seq'] = JobOf(v)
    BY <1>1, <1>2, <2>1
  <2> QED BY <1>1, <1>2, <2>1, <2>2 DEF FreshCore, JobOf
<1>3. CASE built' = FALSE
  BY <1>3 DEF FreshCore
<1> QED BY <1>2, <1>3, RebuildOutcome

(* A step that leaves the view, the jobs and the numbering alone keeps the *)
(* job fresh.                                                              *)
LEMMA FreshFrame ==
    ASSUME FreshInv, UNCHANGED <<view, subscribed, jobs, built, seq>>,
           1 \in unanswered' => 1 \in unanswered
    PROVE  FreshInv'
BY DEF FreshInv, FreshCore, SubscribeFirst

(* Every step of the session keeps the active job in line with the view. *)
LEMMA FreshNext == TypeInv /\ FreshInv /\ [Next]_vars => FreshInv'
<1> SUFFICES ASSUME TypeInv, FreshInv, [Next]_vars PROVE FreshInv'
  OBVIOUS
<1>0. view \in View /\ next_rpc_id \in Nat /\ next_rpc_id >= 4 /\ notify_count \in Nat
  BY DEF TypeInv, TypeOK, ViewTypes, LoopTypes
<1>1. CASE TimeUp \/ FlushDone \/ ReadTimeout \/ ReadFails \/ Terminated \/ UNCHANGED vars
  <2>1. UNCHANGED <<view, subscribed, jobs, built, seq, unanswered>>
    BY <1>1 DEF TimeUp, FlushDone, ReadTimeout, ReadFails, Terminated, vars, session, work, miner
  <2> QED BY <2>1, FreshFrame
<1>2. CASE HandleKeyboardInput \/ MaybeRollExtranonce \/ Workers
  <2>1. UNCHANGED <<view, subscribed, jobs, built, seq, unanswered>>
    BY <1>2 DEF HandleKeyboardInput, MaybeRollExtranonce, Workers, session, miner, Stream!SetPaused,
                Stream!TakeExhausted, Stream!HandOut, Stream!Exhaust, Stream!Report
  <2> QED BY <2>1, FreshFrame
<1>3. CASE FlushShare
  <2>1. UNCHANGED <<view, subscribed, jobs, built, seq>> /\ unanswered' \subseteq unanswered \cup {next_rpc_id}
    BY <1>3 DEF FlushShare, session, Stream!Deliver
  <2> QED BY <1>0, <2>1, FreshFrame
<1>4. CASE SendDue
  <2>1. UNCHANGED <<view, subscribed, jobs, built, seq>>
    BY <1>4 DEF SendDue, session, work, miner
  <2>2. unanswered' \subseteq unanswered \cup {2, 3}
    BY <1>4, Zenon DEF SendDue
  <2> QED BY <2>1, <2>2, FreshFrame
<1>5. CASE \/ \E ok \in BOOLEAN : AuthorizeResult(ok)
           \/ \E id \in unanswered, ok \in BOOLEAN : SubmitResult(id, ok)
           \/ OtherLine
  <2>1. UNCHANGED <<view, subscribed, jobs, built, seq>> /\ unanswered' \subseteq unanswered
    BY <1>5 DEF AuthorizeResult, SubmitResult, OtherLine, session, work, miner
  <2> QED BY <2>1, FreshFrame
<1>6. CASE RollExtranonce
  <2>1. RebuildMinerJob(view) /\ UNCHANGED <<view, subscribed, unanswered>>
    BY <1>6 DEF RollExtranonce, session
  <2>2. FreshCore' /\ (built' => view'.extranonce1 # NoExtranonce)
    BY <1>0, <2>1, FreshRebuild
  <2> QED BY <2>1, <2>2 DEF FreshInv, SubscribeFirst
<1>7. ASSUME NEW v \in View, view' = v, UNCHANGED <<subscribed, unanswered>>,
             \/ v.template_valid /\ RebuildMinerJob(v)
             \/ ~v.template_valid /\ UNCHANGED work,
             1 \in unanswered => v.extranonce1 = NoExtranonce,
             v.extranonce1 # view.extranonce1 => v.extranonce1 # NoExtranonce
      PROVE  FreshInv'
  <2>1. CASE v.template_valid /\ RebuildMinerJob(v)
    <3>1. FreshCore' /\ (built' => view'.extranonce1 # NoExtranonce)
      BY <1>7, <2>1, FreshRebuild
    <3> QED BY <1>7, <3>1 DEF FreshInv, SubscribeFirst
  <2>2. CASE ~v.template_valid /\ UNCHANGED work
    BY <1>7, <2>2 DEF FreshInv, FreshCore, SubscribeFirst, work
  <2> QED BY <1>7, <2>1, <2>2
<1>8. CASE \E n \in 0..Fields, u \in BOOLEAN : HandleNotify(n, u)
  <2>1. PICK n \in 0..Fields, u \in BOOLEAN : HandleNotify(n, u)
    BY <1>8
  <2> DEFINE t == Stored(n)
             v == StoreTemplate(n)
  <2>2. t \in [1..Fields -> Nat]
    <3>1. notify_count + 1 \in Nat /\ view.template \in [1..Fields -> Nat]
      BY <1>0 DEF View
    <3> QED BY <3>1 DEF Stored
  <2>3. v \in View /\ v.extranonce1 = view.extranonce1
    <3> HIDE DEF t
    <3> QED BY <1>0, <2>2 DEF View, StoreTemplate, t
  <2>4. /\ view' = v /\ UNCHANGED <<subscribed, unanswered>>
        /\ \/ v.template_valid /\ RebuildMinerJob(v)
           \/ ~v.template_valid /\ UNCHANGED work
    <3>1. /\ view' = v /\ UNCHANGED <<subscribed, unanswered>>
          /\ \/ n = 0 /\ RebuildMinerJob(v)
             \/ n # 0 /\ UNCHANGED work
      BY <2>1 DEF HandleNotify
    <3>2. v.template_valid = (n = 0)
      BY <1>0 DEF StoreTemplate, View
    <3> HIDE DEF v
    <3> QED BY <3>1, <3>2, Zenon
  <2> HIDE DEF v
  <2> QED BY <1>7, <2>3, <2>4 DEF FreshInv, SubscribeFirst
<1>9. CASE \E d \in Difficulties : HandleSetDifficulty(d)
  <2>1. PICK d \in Difficulties : HandleSetDifficulty(d)
    BY <1>9
  <2> DEFINE v == [view EXCEPT !.difficulty = d]
  <2>2. v \in View /\ v.extranonce1 = view.extranonce1
    BY <1>0, SizeAssumption DEF View
  <2>3. /\ view' = v /\ UNCHANGED <<subscribed, unanswered>>
        /\ \/ v.template_valid /\ RebuildMinerJob(v)
           \/ ~v.template_valid /\ UNCHANGED work
    BY <2>1 DEF HandleSetDifficulty, session
  <2> HIDE DEF v
  <2> QED BY <1>7, <2>2, <2>3 DEF FreshInv, SubscribeFirst
<1>10. CASE \E e \in GivenExtranonces, n \in GivenSizes : HandleSetExtranonce(e, n)
  <2>1. PICK e \in GivenExtranonces, n \in GivenSizes : HandleSetExtranonce(e, n)
    BY <1>10
  <2> DEFINE v == [view EXCEPT !.extranonce1 = e, !.extranonce2_size = n]
  <2>2. v \in View /\ (v.extranonce1 # view.extranonce1 => v.extranonce1 # NoExtranonce)
    <3>1. v \in View
      BY <1>0, GivenType
    <3>2. v.extranonce1 = e
      BY <1>0 DEF View
    <3>3. e \in Extranonces \/ e = view.extranonce1
      BY DEF GivenExtranonces
    <3>4. e \in Extranonces => e # NoExtranonce
      BY SizeAssumption DEF NoExtranonce
    <3> HIDE DEF v
    <3> QED BY <3>1, <3>2, <3>3, <3>4
  <2>3. /\ view' = v /\ subscribed /\ UNCHANGED <<subscribed, unanswered>>
        /\ \/ v.template_valid /\ RebuildMinerJob(v)
           \/ ~v.template_valid /\ UNCHANGED work
    BY <2>1 DEF HandleSetExtranonce, session
  <2> HIDE DEF v
  <2> QED BY <1>7, <2>2, <2>3 DEF FreshInv, SubscribeFirst
<1>11. CASE \E e \in GivenExtranonces, n \in GivenSizes : SubscribeResult(e, n)
  <2>1. PICK e \in GivenExtranonces, n \in GivenSizes : SubscribeResult(e, n)
    BY <1>11
  <2>2. 1 \in unanswered /\ 1 \notin unanswered' /\ UNCHANGED built
    BY <2>1 DEF SubscribeResult, work
  <2>3. ~built
    BY <2>2 DEF FreshInv, SubscribeFirst
  <2> QED BY <2>2, <2>3 DEF FreshInv, FreshCore, SubscribeFirst
<1> QED BY <1>1, <1>2, <1>3, <1>4, <1>5, <1>6, <1>8, <1>9, <1>10, <1>11
        DEF Next, Client, ProcessLine

(* The active job and the shares that wait always carry the template, the  *)
(* extranonce1 and the difficulty the pool sent last, once rebuild_miner_job *)
(* has built one from them.                                                *)
THEOREM MinerFollowsPool == Spec => []FreshJob
<1>1. Init => FreshInv
  <2> SUFFICES ASSUME Init PROVE FreshInv
    OBVIOUS
  <2>1. ~built /\ ~subscribed /\ view.extranonce1 = NoExtranonce
    BY DEF Init
  <2> QED BY <2>1 DEF FreshInv, FreshCore, SubscribeFirst
<1>2. TypeInv /\ FreshInv => FreshJob
  BY DEF TypeInv, SeqInv, FreshInv, FreshCore, FreshJob
<1> QED BY <1>1, <1>2, TypeInvariant, FreshNext, PTL DEF Spec

-----------------------------------------------------------------------------
(* A job is made from one notification.                                    *)

WholeTemplate ==
    view.template_valid =>
        /\ notify_count >= 1
        /\ \A f \in 1..Fields : view.template[f] = notify_count

NotifyInv == WholeTemplate /\ JobFromOneNotify

(* A rebuild uses the whole template of the last notification.             *)
LEMMA NotifyRebuild ==
    ASSUME TypeInv, JobFromOneNotify, WholeTemplate', NEW v \in View, RebuildMinerJob(v),
           view' = v, notify_count' \in Nat, notify_count' >= notify_count,
           \A k \in 1..notify_count : k \in unusable' => k \in unusable
    PROVE  JobFromOneNotify'
<1>1. jobs \in Seq(Job) /\ notify_count \in Nat /\ 1 \in 1..Fields
  BY SizeAssumption DEF TypeInv, TypeOK, WorkTypes, ViewTypes
<1>2. \A j \in 1..Len(jobs) :
         \E k \in (1..notify_count') \ unusable' :
            \A f \in 1..Fields : jobs[j].template[f] = k
  BY <1>1 DEF JobFromOneNotify
<1>3. CASE /\ v.template_valid = TRUE /\ JobOf(v) \in Job /\ Buildable(JobOf(v))
           /\ jobs' = Append(jobs, JobOf(v))
  <2>1. \A f \in 1..Fields : JobOf(v).template[f] = notify_count'
    BY <1>3 DEF WholeTemplate, JobOf
  <2>2. notify_count' \in (1..notify_count') \ unusable'
    BY <1>1, <1>3, <2>1 DEF WholeTemplate, Buildable
  <2>3. Len(jobs') = Len(jobs) + 1 /\ jobs'[Len(jobs) + 1] = JobOf(v)
        /\ \A j \in 1..Len(jobs) : jobs'[j] = jobs[j]
    BY <1>1, <1>3
  <2>4. ASSUME NEW j \in 1..Len(jobs')
        PROVE  \E k \in (1..notify_count') \ unusable' :
                  \A f \in 1..Fields : jobs'[j].template[f] = k
    <3>1. CASE j \in 1..Len(jobs)
      BY <1>2, <2>3, <3>1
    <3>2. CASE j = Len(jobs) + 1
      BY <2>1, <2>2, <2>3, <3>2
    <3> QED BY <1>1, <2>3, <3>1, <3>2
  <2> QED BY <2>4 DEF JobFromOneNotify
<1>4. CASE jobs' = jobs
  BY <1>2, <1>4 DEF JobFromOneNotify
<1> QED BY <1>3, <1>4, RebuildOutcome

(* What does not touch the template, the notifications or the jobs does    *)
(* not disturb the invariant.                                              *)
LEMMA NotifyFrame ==
    ASSUME NotifyInv, UNCHANGED <<jobs, notify_count, unusable>>,
           view'.template = view.template, view'.template_valid = view.template_valid
    PROVE  NotifyInv'
BY DEF NotifyInv, WholeTemplate, JobFromOneNotify

(* Every step of the session keeps every job a whole notification.         *)
LEMMA NotifyNext == TypeInv /\ NotifyInv /\ [Next]_vars => NotifyInv'
<1> SUFFICES ASSUME TypeInv, NotifyInv, [Next]_vars PROVE NotifyInv'
  OBVIOUS
<1>0. view \in View /\ notify_count \in Nat /\ jobs \in Seq(Job) /\ unusable \subseteq 1..MaxNotify
  BY DEF TypeInv, TypeOK, ViewTypes, WorkTypes
<1>1. CASE TimeUp \/ FlushDone \/ ReadTimeout \/ ReadFails \/ Terminated \/ SendDue \/ UNCHANGED vars
  <2>1. UNCHANGED <<view, jobs, notify_count, unusable>>
    BY <1>1 DEF TimeUp, FlushDone, ReadTimeout, ReadFails, Terminated, SendDue, vars, session, work
  <2> QED BY <2>1, NotifyFrame
<1>2. CASE HandleKeyboardInput \/ MaybeRollExtranonce \/ Workers \/ FlushShare
  <2>1. UNCHANGED <<view, jobs, notify_count, unusable>>
    BY <1>2 DEF HandleKeyboardInput, MaybeRollExtranonce, Workers, FlushShare, session
  <2> QED BY <2>1, NotifyFrame
<1>3. CASE \/ \E ok \in BOOLEAN : AuthorizeResult(ok)
           \/ \E id \in unanswered, ok \in BOOLEAN : SubmitResult(id, ok)
           \/ OtherLine
  <2>1. UNCHANGED <<view, jobs, notify_count, unusable>>
    BY <1>3 DEF AuthorizeResult, SubmitResult, OtherLine, session, work
  <2> QED BY <2>1, NotifyFrame
<1>4. CASE \E e \in GivenExtranonces, n \in GivenSizes : SubscribeResult(e, n)
  <2>1. PICK e \in GivenExtranonces, n \in GivenSizes : SubscribeResult(e, n)
    BY <1>4
  <2>2. UNCHANGED <<jobs, notify_count, unusable>>
    BY <2>1 DEF SubscribeResult, work
  <2>3. view'.template = view.template /\ view'.template_valid = view.template_valid
    BY <1>0, <2>1 DEF SubscribeResult, View
  <2> QED BY <2>2, <2>3, NotifyFrame
<1>5. ASSUME NEW v \in View, view' = v, UNCHANGED <<notify_count, unusable>>,
             v.template = view.template, v.template_valid = view.template_valid,
             RebuildMinerJob(v) \/ UNCHANGED work
      PROVE  NotifyInv'
  <2>1. CASE UNCHANGED work
    BY <1>5, <2>1, NotifyFrame DEF work
  <2>2. CASE RebuildMinerJob(v)
    <3>1. WholeTemplate'
      BY <1>5 DEF NotifyInv, WholeTemplate
    <3>2. JobFromOneNotify'
      BY <1>0, <1>5, <2>2, <3>1, NotifyRebuild DEF NotifyInv
    <3> QED BY <3>1, <3>2 DEF NotifyInv
  <2> QED BY <1>5, <2>1, <2>2
<1>6. CASE RollExtranonce
  <2>1. RebuildMinerJob(view) /\ UNCHANGED <<view, notify_count, unusable>>
    BY <1>6 DEF RollExtranonce, session
  <2> QED BY <1>0, <1>5, <2>1
<1>7. CASE \E d \in Difficulties : HandleSetDifficulty(d)
  <2>1. PICK d \in Difficulties : HandleSetDifficulty(d)
    BY <1>7
  <2> DEFINE v == [view EXCEPT !.difficulty = d]
  <2>2. v \in View /\ v.template = view.template /\ v.template_valid = view.template_valid
    BY <1>0, SizeAssumption DEF View
  <2>3. /\ view' = v /\ UNCHANGED <<notify_count, unusable>>
        /\ RebuildMinerJob(v) \/ UNCHANGED work
    BY <2>1 DEF HandleSetDifficulty, session
  <2> HIDE DEF v
  <2> QED BY <1>5, <2>2, <2>3
<1>8. CASE \E e \in GivenExtranonces, n \in GivenSizes : HandleSetExtranonce(e, n)
  <2>1. PICK e \in GivenExtranonces, n \in GivenSizes : HandleSetExtranonce(e, n)
    BY <1>8
  <2> DEFINE v == [view EXCEPT !.extranonce1 = e, !.extranonce2_size = n]
  <2>2. v \in View /\ v.template = view.template /\ v.template_valid = view.template_valid
    <3>1. v \in View
      BY <1>0, GivenType
    <3> QED BY <1>0, <3>1 DEF View
  <2>3. /\ view' = v /\ UNCHANGED <<notify_count, unusable>>
        /\ RebuildMinerJob(v) \/ UNCHANGED work
    BY <2>1 DEF HandleSetExtranonce, session
  <2> HIDE DEF v
  <2> QED BY <1>5, <2>2, <2>3
<1>9. CASE \E n \in 0..Fields, u \in BOOLEAN : HandleNotify(n, u)
  <2>1. PICK n \in 0..Fields, u \in BOOLEAN : HandleNotify(n, u)
    BY <1>9
  <2> DEFINE t == Stored(n)
             v == StoreTemplate(n)
  <2>2. notify_count + 1 \in Nat /\ t \in [1..Fields -> Nat]
    <3>1. notify_count + 1 \in Nat /\ view.template \in [1..Fields -> Nat]
      BY <1>0 DEF View
    <3> QED BY <3>1 DEF Stored
  <2>3. v \in View /\ v.template_valid = (n = 0) /\ v.template = t
    <3> HIDE DEF t
    <3> QED BY <1>0, <2>2 DEF View, StoreTemplate, t
  <2>4. /\ view' = v /\ notify_count' = notify_count + 1
        /\ unusable' = unusable \cup (IF u THEN {} ELSE {notify_count + 1})
        /\ \/ n = 0 /\ RebuildMinerJob(v)
           \/ n # 0 /\ UNCHANGED work
    BY <2>1 DEF HandleNotify
  <2>5. n = 0 => \A f \in 1..Fields : t[f] = notify_count + 1
    BY DEF Stored
  <2> HIDE DEF v, t
  <2>6. WholeTemplate'
    <3>1. CASE n = 0
      <4>1. notify_count' >= 1 /\ \A f \in 1..Fields : view'.template[f] = notify_count'
        BY <1>0, <2>3, <2>4, <2>5, <3>1
      <4> QED BY <4>1 DEF WholeTemplate
    <3>2. CASE n # 0
      <4>1. ~view'.template_valid
        BY <2>3, <2>4, <3>2, Zenon
      <4> QED BY <4>1 DEF WholeTemplate
    <3> QED BY <3>1, <3>2
  <2>7. \A k \in 1..notify_count : k \in unusable' => k \in unusable
    BY <1>0, <2>4
  <2>8. JobFromOneNotify'
    <3>1. CASE RebuildMinerJob(v)
      BY <1>0, <2>2, <2>3, <2>4, <2>6, <2>7, <3>1, NotifyRebuild DEF NotifyInv
    <3>2. CASE UNCHANGED work
      BY <1>0, <2>2, <2>4, <2>7, <3>2 DEF NotifyInv, JobFromOneNotify, work
    <3> QED BY <2>4, <3>1, <3>2
  <2> QED BY <2>6, <2>8 DEF NotifyInv
<1> QED BY <1>1, <1>2, <1>3, <1>4, <1>6, <1>7, <1>8, <1>9
        DEF Next, Client, ProcessLine

(* No job given to the miner mixes the strings of two notifications,       *)
(* whatever handle_notify had to give up in the middle.                    *)
THEOREM JobsAreWhole == Spec => []JobFromOneNotify
<1>1. Init => NotifyInv
  <2> SUFFICES ASSUME Init PROVE NotifyInv
    OBVIOUS
  <2>1. jobs = <<>> /\ view.template_valid = FALSE
    BY DEF Init
  <2>2. Len(jobs) = 0
    BY <2>1
  <2> QED BY <2>1, <2>2 DEF NotifyInv, WholeTemplate, JobFromOneNotify
<1>2. NotifyInv => JobFromOneNotify
  BY DEF NotifyInv
<1> QED BY <1>1, <1>2, TypeInvariant, NotifyNext, PTL DEF Spec
-----------------------------------------------------------------------------
(* No work is submitted twice.  Every build of a job takes a new value of  *)
(* the counter, so that two jobs of a session differ in their extranonce2; *)
(* a share leaves the queue once; and what was sent names a share that     *)
(* left it.                                                                *)

RolledJobs ==
    /\ \A j \in 1..Len(jobs) : jobs[j].extranonce2.value < extranonce2_counter
    /\ \A i, j \in 1..Len(jobs) :
          i # j => jobs[i].extranonce2.value # jobs[j].extranonce2.value

QueuedOnce ==
    /\ \A i, j \in 1..Len(waiting) : i # j => waiting[i] # waiting[j]
    /\ \A i \in 1..Len(waiting) : waiting[i] \notin delivered
    /\ \A d \in delivered : d.seq \in 1..Len(jobs)

SentWasDelivered ==
    \A i \in 1..Len(sent) : \E d \in delivered : sent[i] = SubmitOf(d)

SubmitInv == RolledJobs /\ QueuedOnce /\ SentWasDelivered /\ NoDuplicateSubmit

(* What a step of the session does to the jobs and to the queue of shares. *)
LEMMA WorkSteps ==
    ASSUME TypeInv, [Next]_vars
    PROVE  \/ UNCHANGED <<work, sent>>
           \/ UNCHANGED sent /\ \E v \in View : RebuildMinerJob(v)
           \/ /\ UNCHANGED <<extranonce2_counter, jobs, built, sent>>
              /\ \/ Stream!HandOut \/ Stream!Exhaust \/ Stream!TakeExhausted
                 \/ \E p \in BOOLEAN : Stream!SetPaused(p)
                 \/ \E n \in 0..MaxNonce : Stream!Report(n)
           \/ FlushShare
<1>0. view \in View /\ notify_count \in Nat
  BY DEF TypeInv, TypeOK, ViewTypes
<1>1. CASE TimeUp \/ FlushDone \/ ReadTimeout \/ ReadFails \/ Terminated \/ SendDue \/ UNCHANGED vars
  BY <1>1 DEF TimeUp, FlushDone, ReadTimeout, ReadFails, Terminated, SendDue, vars
<1>2. CASE HandleKeyboardInput \/ MaybeRollExtranonce \/ Workers
  <2>1. UNCHANGED <<extranonce2_counter, jobs, built, sent>>
    BY <1>2 DEF HandleKeyboardInput, MaybeRollExtranonce, Workers
  <2>2. \/ UNCHANGED miner
        \/ Stream!HandOut \/ Stream!Exhaust \/ Stream!TakeExhausted
        \/ \E p \in BOOLEAN : Stream!SetPaused(p)
        \/ \E n \in 0..MaxNonce : Stream!Report(n)
    BY <1>2, Zenon DEF HandleKeyboardInput, MaybeRollExtranonce, Workers
  <2> QED BY <2>1, <2>2 DEF work
<1>3. CASE RollExtranonce
  BY <1>0, <1>3 DEF RollExtranonce
<1>4. CASE \E n \in 0..Fields, u \in BOOLEAN : HandleNotify(n, u)
  <2>1. PICK n \in 0..Fields, u \in BOOLEAN : HandleNotify(n, u)
    BY <1>4
  <2>2. StoreTemplate(n) \in View
    <3>1. notify_count + 1 \in Nat /\ view.template \in [1..Fields -> Nat]
      BY <1>0 DEF View
    <3>2. Stored(n) \in [1..Fields -> Nat]
      BY <3>1 DEF Stored
    <3> QED BY <1>0, <3>2 DEF View, StoreTemplate
  <2>3. UNCHANGED sent /\ (RebuildMinerJob(StoreTemplate(n)) \/ UNCHANGED work)
    BY <2>1 DEF HandleNotify, ReadLine
  <2> QED BY <2>2, <2>3
<1>5. CASE \E d \in Difficulties : HandleSetDifficulty(d)
  <2>1. PICK d \in Difficulties : HandleSetDifficulty(d)
    BY <1>5
  <2> DEFINE v == [view EXCEPT !.difficulty = d]
  <2>2. v \in View
    BY <1>0, SizeAssumption DEF View
  <2>3. UNCHANGED sent /\ (RebuildMinerJob(v) \/ UNCHANGED work)
    BY <2>1 DEF HandleSetDifficulty, ReadLine
  <2> HIDE DEF v
  <2> QED BY <2>2, <2>3
<1>6. CASE \E e \in GivenExtranonces, n \in GivenSizes : HandleSetExtranonce(e, n)
  <2>1. PICK e \in GivenExtranonces, n \in GivenSizes : HandleSetExtranonce(e, n)
    BY <1>6
  <2> DEFINE v == [view EXCEPT !.extranonce1 = e, !.extranonce2_size = n]
  <2>2. v \in View
    BY <1>0, GivenType
  <2>3. UNCHANGED sent /\ (RebuildMinerJob(v) \/ UNCHANGED work)
    BY <2>1 DEF HandleSetExtranonce, ReadLine
  <2> HIDE DEF v
  <2> QED BY <2>2, <2>3
<1>7. CASE \/ \E e \in GivenExtranonces, n \in GivenSizes : SubscribeResult(e, n)
           \/ \E ok \in BOOLEAN : AuthorizeResult(ok)
           \/ \E id \in unanswered, ok \in BOOLEAN : SubmitResult(id, ok)
           \/ OtherLine
  BY <1>7 DEF SubscribeResult, AuthorizeResult, SubmitResult, OtherLine, ReadLine
<1> QED BY <1>1, <1>2, <1>3, <1>4, <1>5, <1>6, <1>7 DEF Next, Client, ProcessLine

(* miner_build_job gives the job the value of the counter, and the counter *)
(* is then past it; a build that fails never gives a value back.           *)
LEMMA CounterRolls ==
    ASSUME TypeInv, NEW v \in View, RebuildMinerJob(v)
    PROVE  /\ JobOf(v).extranonce2.value = extranonce2_counter
           /\ extranonce2_counter' >= extranonce2_counter
           /\ built' => extranonce2_counter' = extranonce2_counter + 1
<1>1. extranonce2_counter \in Nat
  BY DEF TypeInv, TypeOK, WorkTypes
<1>2. JobOf(v).extranonce2.value = extranonce2_counter
  BY <1>1, FormatType DEF JobOf, View
<1> DEFINE attempted == /\ EnableMining
                        /\ v.template_valid
                        /\ v.extranonce1 # NoExtranonce
                        /\ v.extranonce2_size > 0
<1>3. /\ built' = (attempted /\ Buildable(JobOf(v)))
      /\ extranonce2_counter' = extranonce2_counter + (IF attempted THEN 1 ELSE 0)
  BY DEF RebuildMinerJob
<1> HIDE DEF attempted
<1>4. CASE attempted
  BY <1>1, <1>2, <1>3, <1>4
<1>5. CASE ~attempted
  <2>1. ~built'
    BY <1>3, <1>5, Zenon
  <2> QED BY <1>1, <1>2, <1>3, <1>5, <2>1
<1> QED BY <1>4, <1>5

(* The message of a delivered share depends only on jobs already built.    *)
LEMMA SubmitStays ==
    ASSUME QueuedOnce, SentWasDelivered, UNCHANGED sent,
           delivered \subseteq delivered',
           \A j \in 1..Len(jobs) : jobs'[j] = jobs[j]
    PROVE  SentWasDelivered'
<1> SUFFICES ASSUME NEW i \in 1..Len(sent) PROVE \E d \in delivered' : sent[i] = SubmitOf(d)'
  BY DEF SentWasDelivered
<1>1. PICK d \in delivered : sent[i] = SubmitOf(d)
  BY DEF SentWasDelivered
<1>2. SubmitOf(d)' = SubmitOf(d)
  BY DEF QueuedOnce, SubmitOf
<1> QED BY <1>1, <1>2

(* A rebuild gives the miner a job with an extranonce2 of its own.         *)
LEMMA SubmitRebuild ==
    ASSUME TypeInv, SubmitInv, UNCHANGED sent, NEW v \in View, RebuildMinerJob(v)
    PROVE  SubmitInv'
<1>1. jobs \in Seq(Job) /\ extranonce2_counter \in Nat /\ extranonce2_counter' \in Nat
  BY RebuildOutcome DEF TypeInv, TypeOK, WorkTypes
<1>2. Len(jobs) \in Nat /\ \A j \in 1..Len(jobs) : jobs[j].extranonce2.value \in Nat
  <2>1. \A j \in 1..Len(jobs) : jobs[j] \in Job
    BY <1>1
  <2>2. \A x \in Job : x.extranonce2.value \in Nat
    BY DEF Job, Extranonce2
  <2> QED BY <1>1, <2>1, <2>2
<1>3. CASE /\ built' = TRUE /\ JobOf(v) \in Job
           /\ jobs' = Append(jobs, JobOf(v)) /\ Stream!NewJob
  <2>1. /\ Len(jobs') = Len(jobs) + 1 /\ jobs'[Len(jobs) + 1] = JobOf(v)
        /\ \A j \in 1..Len(jobs) : jobs'[j] = jobs[j]
    BY <1>1, <1>3
  <2>2. /\ JobOf(v).extranonce2.value = extranonce2_counter
        /\ extranonce2_counter' = extranonce2_counter + 1
    BY <1>3, CounterRolls
  <2>3. waiting' = <<>> /\ Len(waiting') = 0 /\ delivered' = delivered
    BY <1>3 DEF Stream!NewJob
  <2>4. RolledJobs'
    <3>1. \A j \in 1..Len(jobs') : j \in 1..Len(jobs) \/ j = Len(jobs) + 1
      BY <1>2, <2>1
    <3>2. \A j \in 1..Len(jobs) : jobs[j].extranonce2.value < extranonce2_counter
      BY DEF SubmitInv, RolledJobs
    <3>3. \A j \in 1..Len(jobs') : jobs'[j].extranonce2.value < extranonce2_counter'
      BY <1>1, <1>2, <2>1, <2>2, <3>1, <3>2
    <3>4. ASSUME NEW i \in 1..Len(jobs'), NEW j \in 1..Len(jobs'), i # j
          PROVE  jobs'[i].extranonce2.value # jobs'[j].extranonce2.value
      <4>1. CASE i \in 1..Len(jobs) /\ j \in 1..Len(jobs)
        BY <2>1, <3>4, <4>1 DEF SubmitInv, RolledJobs
      <4>2. CASE i = Len(jobs) + 1 /\ j \in 1..Len(jobs)
        BY <1>1, <1>2, <2>1, <2>2, <3>2, <4>2
      <4>3. CASE i \in 1..Len(jobs) /\ j = Len(jobs) + 1
        BY <1>1, <1>2, <2>1, <2>2, <3>2, <4>3
      <4> QED BY <3>1, <3>4, <4>1, <4>2, <4>3
    <3> QED BY <3>3, <3>4 DEF RolledJobs
  <2>5. QueuedOnce'
    BY <1>2, <2>1, <2>3 DEF SubmitInv, QueuedOnce
  <2>6. SentWasDelivered'
    BY <2>1, <2>3, SubmitStays DEF SubmitInv
  <2> QED BY <2>4, <2>5, <2>6 DEF SubmitInv, NoDuplicateSubmit
<1>4. CASE jobs' = jobs /\ UNCHANGED miner
  <2>1. RolledJobs'
    <3>1. extranonce2_counter' >= extranonce2_counter
      BY CounterRolls
    <3> QED BY <1>1, <1>2, <1>4, <3>1 DEF SubmitInv, RolledJobs
  <2>2. QueuedOnce' /\ SentWasDelivered'
    BY <1>4 DEF SubmitInv, QueuedOnce, SentWasDelivered, SubmitOf, miner
  <2> QED BY <2>1, <2>2 DEF SubmitInv, NoDuplicateSubmit
<1> QED BY <1>3, <1>4, RebuildOutcome

(* The workers and the keyboard: a share is queued only when it was        *)
(* neither queued nor delivered before.                                    *)
LEMMA SubmitStream ==
    ASSUME TypeInv, SubmitInv, UNCHANGED <<extranonce2_counter, jobs, built, sent>>,
           \/ Stream!HandOut \/ Stream!Exhaust \/ Stream!TakeExhausted
           \/ \E p \in BOOLEAN : Stream!SetPaused(p)
           \/ \E n \in 0..MaxNonce : Stream!Report(n)
    PROVE  SubmitInv'
<1> DEFINE SH == [seq : Nat, nonce : 0..MaxNonce]
<1>0. RolledJobs' /\ NoDuplicateSubmit'
  BY DEF SubmitInv, RolledJobs, NoDuplicateSubmit
<1>1. delivered' = delivered
  BY DEF Stream!HandOut, Stream!Exhaust, Stream!TakeExhausted, Stream!SetPaused, Stream!Report
<1>2. SentWasDelivered'
  BY <1>1, SubmitStays DEF SubmitInv
<1>3. CASE waiting' = waiting
  BY <1>0, <1>1, <1>2, <1>3 DEF SubmitInv, QueuedOnce
<1>4. CASE \E n \in 0..MaxNonce : Stream!Report(n)
  <2>1. PICK n \in 0..MaxNonce : Stream!Report(n)
    BY <1>4
  <2> DEFINE s == [seq |-> seq, nonce |-> n]
  <2>2. waiting \in Seq(SH) /\ s \in SH
    BY DEF TypeInv, TypeOK, MinerTypes
  <2>3. waiting' = Append(waiting, s) /\ s \notin delivered /\ \A k \in 1..Len(waiting) : waiting[k] # s
    BY <2>1 DEF Stream!Report, Stream!Reported
  <2>4. /\ Len(waiting) \in Nat /\ Len(waiting') = Len(waiting) + 1
        /\ waiting'[Len(waiting) + 1] = s
        /\ \A k \in 1..Len(waiting) : waiting'[k] = waiting[k]
    <3> HIDE DEF SH, s
    <3> QED BY <2>2, <2>3
  <2> HIDE DEF s
  <2>5. \A k \in 1..Len(waiting') : k \in 1..Len(waiting) \/ k = Len(waiting) + 1
    BY <2>4
  <2>6. ASSUME NEW i \in 1..Len(waiting'), NEW j \in 1..Len(waiting'), i # j
        PROVE  waiting'[i] # waiting'[j]
    BY <2>3, <2>4, <2>5, <2>6 DEF SubmitInv, QueuedOnce
  <2>7. \A i \in 1..Len(waiting') : waiting'[i] \notin delivered'
    BY <1>1, <2>3, <2>4, <2>5 DEF SubmitInv, QueuedOnce
  <2>8. QueuedOnce'
    BY <1>1, <2>6, <2>7 DEF SubmitInv, QueuedOnce
  <2> QED BY <1>0, <1>2, <2>8 DEF SubmitInv
<1> QED BY <1>3, <1>4 DEF Stream!HandOut, Stream!Exhaust, Stream!TakeExhausted, Stream!SetPaused

(* Two different shares of a session make different messages: shares of    *)
(* one job differ in the nonce, shares of two jobs in the extranonce2.     *)
LEMMA SubmitsDiffer ==
    ASSUME RolledJobs,
           NEW s \in [seq : Nat, nonce : 0..MaxNonce], NEW d \in [seq : Nat, nonce : 0..MaxNonce],
           s.seq \in 1..Len(jobs), d.seq \in 1..Len(jobs), s # d
    PROVE  SubmitOf(s) # SubmitOf(d)
<1>1. CASE s.seq = d.seq
  <2>1. s.nonce # d.nonce
    BY <1>1
  <2> QED BY <2>1 DEF SubmitOf
<1>2. CASE s.seq # d.seq
  <2>1. jobs[s.seq].extranonce2 # jobs[d.seq].extranonce2
    BY <1>2 DEF RolledJobs
  <2> QED BY <2>1 DEF SubmitOf
<1> QED BY <1>1, <1>2

(* flush_shares sends the oldest share of the queue, which was not sent    *)
(* before, or ends the session.                                            *)
LEMMA SubmitFlush ==
    ASSUME TypeInv, SubmitInv, FlushShare
    PROVE  SubmitInv'
<1> DEFINE SH == [seq : Nat, nonce : 0..MaxNonce]
           M  == [job_id : Nat, extranonce2 : Extranonce2, nonce : 0..MaxNonce]
           s  == Head(waiting)
<1>1. /\ waiting # <<>> /\ waiting \in Seq(SH) /\ sent \in Seq(M) /\ delivered \subseteq SH
      /\ delivered' = delivered \cup {s} /\ waiting' = Tail(waiting)
      /\ UNCHANGED <<extranonce2_counter, jobs>>
  BY DEF FlushShare, TypeInv, TypeOK, MinerTypes, LoopTypes, Stream!Deliver
<1>2. /\ Len(waiting) \in Nat \ {0} /\ s = waiting[1] /\ s \in SH
      /\ Len(waiting') = Len(waiting) - 1
      /\ \A k \in 1..Len(waiting') : waiting'[k] = waiting[k + 1]
  <2>1. Len(waiting) \in Nat \ {0}
    BY <1>1
  <2> HIDE DEF SH
  <2> QED BY <1>1, <2>1, HeadTailProperties
<1>3. s.seq \in 1..Len(jobs)
  <2>1. s.seq = seq /\ seq > 0 /\ seq = Len(jobs) /\ seq \in Nat
    BY <1>2 DEF TypeInv, TypeOK, SeqInv, MinerTypes
  <2> QED BY <2>1
<1>4. s \notin delivered /\ \A k \in 1..Len(waiting') : waiting'[k] # s
  <2>1. 1 \in 1..Len(waiting) /\ \A k \in 1..Len(waiting') : k + 1 \in 1..Len(waiting) /\ k + 1 # 1
    BY <1>2
  <2> QED BY <1>2, <2>1 DEF SubmitInv, QueuedOnce
<1> HIDE DEF s
<1>5. QueuedOnce'
  <2>1. \A k \in 1..Len(waiting') : k + 1 \in 1..Len(waiting) /\ waiting'[k] = waiting[k + 1]
    BY <1>2
  <2>2. ASSUME NEW i \in 1..Len(waiting'), NEW j \in 1..Len(waiting'), i # j
        PROVE  waiting'[i] # waiting'[j]
    <3>1. i + 1 # j + 1
      BY <1>2, <2>2
    <3> QED BY <2>1, <3>1 DEF SubmitInv, QueuedOnce
  <2>3. \A k \in 1..Len(waiting') : waiting'[k] \notin delivered'
    BY <1>1, <1>4, <2>1 DEF SubmitInv, QueuedOnce
  <2>4. \A d \in delivered' : d.seq \in 1..Len(jobs')
    BY <1>1, <1>3 DEF SubmitInv, QueuedOnce
  <2> QED BY <2>2, <2>3, <2>4 DEF QueuedOnce
<1>6. RolledJobs'
  BY <1>1 DEF SubmitInv, RolledJobs
<1>7. CASE UNCHANGED sent
  <2>1. SentWasDelivered'
    BY <1>1, <1>7, SubmitStays DEF SubmitInv
  <2> QED BY <1>5, <1>6, <1>7, <2>1 DEF SubmitInv, NoDuplicateSubmit
<1>8. CASE sent' = Append(sent, SubmitOf(s))
  <2> DEFINE m == SubmitOf(s)
  <2>1. m \in M
    BY <1>1, SubmitType DEF s
  <2>2. /\ Len(sent) \in Nat /\ Len(sent') = Len(sent) + 1 /\ sent'[Len(sent) + 1] = m
        /\ \A k \in 1..Len(sent) : sent'[k] = sent[k]
    <3> HIDE DEF M, m
    <3> QED BY <1>1, <1>8, <2>1 DEF m
  <2>3. \A k \in 1..Len(sent') : k \in 1..Len(sent) \/ k = Len(sent) + 1
    BY <2>2
  <2>4. \A d : SubmitOf(d)' = SubmitOf(d)
    BY <1>1 DEF SubmitOf
  <2>5. SentWasDelivered'
    <3> SUFFICES ASSUME NEW k \in 1..Len(sent') PROVE \E d \in delivered' : sent'[k] = SubmitOf(d)
      BY <2>4 DEF SentWasDelivered
    <3>1. CASE k \in 1..Len(sent)
      BY <1>1, <2>2, <3>1 DEF SubmitInv, SentWasDelivered
    <3>2. CASE k = Len(sent) + 1
      BY <1>1, <2>2, <3>2
    <3> QED BY <2>3, <3>1, <3>2
  <2>6. ASSUME NEW k \in 1..Len(sent) PROVE sent[k] # m
    <3>1. PICK d \in delivered : sent[k] = SubmitOf(d)
      BY DEF SubmitInv, SentWasDelivered
    <3>2. d \in SH /\ d.seq \in 1..Len(jobs) /\ s # d
      BY <1>1, <1>4 DEF SubmitInv, QueuedOnce
    <3>3. SubmitOf(s) # SubmitOf(d)
      BY <1>2, <1>3, <3>2, SubmitsDiffer DEF SubmitInv
    <3> QED BY <3>1, <3>3
  <2> HIDE DEF m
  <2>7. NoDuplicateSubmit'
    <3>1. ASSUME NEW i \in 1..Len(sent'), NEW j \in 1..Len(sent'), i # j
          PROVE  sent'[i] # sent'[j]
      BY <2>2, <2>3, <2>6, <3>1 DEF SubmitInv, NoDuplicateSubmit
    <3> QED BY <3>1 DEF NoDuplicateSubmit
  <2> QED BY <1>5, <1>6, <2>5, <2>7 DEF SubmitInv
<1> QED BY <1>7, <1>8 DEF FlushShare, s

(* Every step of the session keeps the submissions apart.                  *)
LEMMA SubmitNext == TypeInv /\ SubmitInv /\ [Next]_vars => SubmitInv'
<1> SUFFICES ASSUME TypeInv, SubmitInv, [Next]_vars PROVE SubmitInv'
  OBVIOUS
<1>1. CASE UNCHANGED <<work, sent>>
  BY <1>1 DEF SubmitInv, RolledJobs, QueuedOnce, SentWasDelivered, SubmitOf,
              NoDuplicateSubmit, work, miner
<1> QED BY <1>1, WorkSteps, SubmitRebuild, SubmitStream, SubmitFlush

(* Two mining.submit messages of a session are never the same, however     *)
(* often the miner starts again from nonce 0.                              *)
THEOREM NothingSubmittedTwice == Spec => []NoDuplicateSubmit
<1>1. Init => SubmitInv
  <2> SUFFICES ASSUME Init PROVE SubmitInv
    OBVIOUS
  <2>1. jobs = <<>> /\ waiting = <<>> /\ delivered = {} /\ sent = <<>>
    BY DEF Init, Stream!Init
  <2>2. Len(jobs) = 0 /\ Len(waiting) = 0 /\ Len(sent) = 0
    BY <2>1
  <2> QED BY <2>1, <2>2 DEF SubmitInv, RolledJobs, QueuedOnce, SentWasDelivered, NoDuplicateSubmit
<1>2. SubmitInv => NoDuplicateSubmit
  BY DEF SubmitInv
<1> QED BY <1>1, <1>2, TypeInvariant, SubmitNext, PTL DEF Spec
-----------------------------------------------------------------------------
(* The pending table and the counters.  A request id is new when it is     *)
(* used, so a share never finds its own id in the table: it takes a free   *)
(* slot or evicts a share the pool has still to answer.                    *)

ActiveSlots == {i \in PendingSlots : pending[i].active}
OpenIds     == {id \in unanswered : id >= 4}

IdsFresh == IsFiniteSet(unanswered) /\ \A id \in unanswered : id < next_rpc_id

PendingInv == IdsFresh /\ PendingExact

(* The parts of PendingExact. *)
TableExact ==
    /\ pending_count = Cardinality(ActiveSlots)
    /\ \A i \in ActiveSlots : pending[i].id \in OpenIds
    /\ \A i, j \in ActiveSlots : (i # j) => pending[i].id # pending[j].id

CountersExact == submit_count = accept_count + reject_count + Cardinality(OpenIds)

LEMMA PendingParts == PendingExact <=> TableExact /\ CountersExact
BY DEF PendingExact, TableExact, CountersExact, ActiveSlots, OpenIds

(* A set of slots that is not empty has a first one. *)
LEMMA FirstSlot ==
    ASSUME NEW T \in SUBSET Nat, T # {}
    PROVE  \E x \in T : \A y \in T : x <= y
<1> DEFINE R == {p \in Nat \X Nat : p[1] < p[2]}
<1>1. R = OpToRel(<, Nat)
  BY DEF OpToRel
<1>2. IsWellFoundedOn(R, Nat)
  BY <1>1, NatLessThanWellFounded
<1>3. PICK x \in T : \A y \in T : ~(<<y, x>> \in R)
  BY <1>2, WFMin
<1>4. \A y \in T : ~(y < x)
  BY <1>3
<1> QED BY <1>3, <1>4

(* The sets counted are finite. *)
LEMMA PendingFinite ==
    ASSUME TypeInv, IdsFresh
    PROVE  /\ IsFiniteSet(ActiveSlots) /\ Cardinality(ActiveSlots) \in Nat
           /\ IsFiniteSet(OpenIds) /\ Cardinality(OpenIds) \in Nat
<1>1. IsFiniteSet(PendingSlots)
  BY FS_Interval, SizeAssumption DEF PendingSlots
<1>2. ActiveSlots \in SUBSET PendingSlots /\ OpenIds \in SUBSET unanswered
  BY DEF ActiveSlots, OpenIds
<1>3. IsFiniteSet(ActiveSlots) /\ IsFiniteSet(OpenIds)
  BY <1>1, <1>2, FS_Subset DEF IdsFresh
<1> QED BY <1>3, FS_CardinalityType

(* register_pending_share looks for the id in the table, then for a free   *)
(* slot, then takes another share's: with a new id, one of the last two.   *)
LEMMA SlotForNew ==
    ASSUME TypeInv, IdsFresh, TableExact
    PROVE  SlotFor(next_rpc_id) \in PendingSlots
<1> DEFINE r == next_rpc_id
<1>1. r \in Nat /\ unanswered \subseteq Nat
  BY DEF TypeInv, TypeOK, LoopTypes
<1>2. ASSUME NEW i \in PendingSlots, pending[i].active PROVE pending[i].id # r
  <2>1. pending[i].id \in unanswered
    BY <1>2 DEF TableExact, ActiveSlots, OpenIds
  <2>2. pending[i].id < r /\ pending[i].id \in Nat
    BY <1>1, <2>1 DEF IdsFresh
  <2> QED BY <1>1, <2>2
<1>3. ~ \E i \in PendingSlots : pending[i].active /\ pending[i].id = r
  BY <1>2
<1>4. CASE FreeSlots # {}
  <2>1. FreeSlots \in SUBSET Nat /\ FreeSlots \subseteq PendingSlots
    BY DEF FreeSlots, PendingSlots
  <2>2. \E i \in FreeSlots : \A j \in FreeSlots : i <= j
    BY <1>4, <2>1, FirstSlot
  <2>3. SlotFor(r) = CHOOSE i \in FreeSlots : \A j \in FreeSlots : i <= j
    BY <1>3, <1>4, Zenon DEF SlotFor
  <2>4. SlotFor(r) \in FreeSlots
    BY <2>2, <2>3
  <2> QED BY <2>1, <2>4
<1>5. CASE FreeSlots = {}
  <2>1. SlotFor(r) = r % PendingShares
    BY <1>3, <1>5, Zenon DEF SlotFor
  <2> HIDE DEF r
  <2>2. r % PendingShares \in 0..(PendingShares - 1)
    BY <1>1, SizeAssumption
  <2> QED BY <2>1, <2>2 DEF PendingSlots, r
<1> QED BY <1>4, <1>5

(* What leaves the table, the counters and the ids of submissions alone.   *)
LEMMA PendingFrame ==
    ASSUME TypeInv, PendingInv, UNCHANGED tally,
           IsFiniteSet(unanswered'), unanswered' \subseteq unanswered \cup {1, 2, 3},
           \A id \in unanswered : id >= 4 => id \in unanswered',
           next_rpc_id' \in Nat, next_rpc_id' >= next_rpc_id
    PROVE  PendingInv'
<1>1. unanswered \subseteq Nat /\ next_rpc_id \in Nat /\ next_rpc_id >= 4
  BY DEF TypeInv, TypeOK, LoopTypes
<1>2. OpenIds' = OpenIds
  <2>1. ASSUME NEW id PROVE id \in OpenIds' <=> id \in OpenIds
    <3>1. id \in unanswered' /\ id >= 4 => id \in unanswered
      OBVIOUS
    <3> QED BY <3>1 DEF OpenIds
  <2> QED BY <2>1
<1>3. ActiveSlots' = ActiveSlots
  BY DEF ActiveSlots, tally, PendingSlots
<1>4. IdsFresh'
  BY <1>1 DEF PendingInv, IdsFresh
<1>5. TableExact' /\ CountersExact'
  BY <1>2, <1>3, PendingParts DEF PendingInv, TableExact, CountersExact, tally
<1>6. PendingExact'
  BY <1>5 DEF PendingExact, TableExact, CountersExact, ActiveSlots, OpenIds
<1> QED BY <1>4, <1>6 DEF PendingInv

(* flush_shares registers a share that was sent. *)
LEMMA PendingRegister ==
    ASSUME TypeInv, PendingInv, RegisterPendingShare(next_rpc_id),
           next_rpc_id' = next_rpc_id + 1,
           unanswered' = unanswered \cup {next_rpc_id}
    PROVE  PendingInv'
<1> DEFINE r == next_rpc_id
           k == SlotFor(r)
<1>1. /\ r \in Nat /\ r >= 4 /\ unanswered \subseteq Nat
      /\ pending \in [PendingSlots -> [id : Nat, active : BOOLEAN]]
      /\ pending_count \in Nat /\ submit_count \in Nat
      /\ accept_count \in Nat /\ reject_count \in Nat
  BY DEF TypeInv, TypeOK, LoopTypes, TallyTypes
<1>2. IdsFresh /\ TableExact /\ CountersExact
  BY PendingParts DEF PendingInv
<1>3. k \in PendingSlots
  BY <1>2, SlotForNew
<1>4. /\ pending' = [pending EXCEPT ![k] = [id |-> r, active |-> TRUE]]
      /\ pending_count' = pending_count + (IF pending[k].active THEN 0 ELSE 1)
      /\ submit_count' = submit_count + 1
      /\ UNCHANGED <<accept_count, reject_count>>
  BY DEF RegisterPendingShare
<1> HIDE DEF k
<1>5. IdsFresh'
  <2>1. IsFiniteSet(unanswered')
    BY <1>2, FS_AddElement DEF IdsFresh
  <2>2. \A id \in unanswered' : id < next_rpc_id'
    BY <1>1, <1>2 DEF IdsFresh
  <2> QED BY <2>1, <2>2 DEF IdsFresh
<1>6. /\ IsFiniteSet(ActiveSlots) /\ Cardinality(ActiveSlots) \in Nat
      /\ IsFiniteSet(OpenIds) /\ Cardinality(OpenIds) \in Nat
  BY <1>2, PendingFinite
<1>7. OpenIds' = OpenIds \cup {r} /\ r \notin OpenIds
  BY <1>1, <1>2 DEF OpenIds, IdsFresh
<1>8. CountersExact'
  <2>1. Cardinality(OpenIds') = Cardinality(OpenIds) + 1
    BY <1>6, <1>7, FS_AddElement
  <2> HIDE DEF r
  <2> QED BY <1>1, <1>2, <1>4, <1>6, <2>1 DEF CountersExact
<1>9. /\ pending'[k].id = r /\ pending'[k].active = TRUE
      /\ \A i \in PendingSlots : i # k => pending'[i] = pending[i]
  BY <1>1, <1>3, <1>4
<1>10. ActiveSlots' = ActiveSlots \cup {k}
  <2>1. ASSUME NEW i PROVE i \in ActiveSlots' <=> i \in ActiveSlots \cup {k}
    <3>1. CASE i = k
      BY <1>3, <1>9, <3>1 DEF ActiveSlots, PendingSlots
    <3>2. CASE i # k
      BY <1>9, <3>2 DEF ActiveSlots, PendingSlots
    <3> QED BY <3>1, <3>2
  <2> QED BY <2>1
<1>11. pending_count' = Cardinality(ActiveSlots')
  <2>1. CASE pending[k].active
    <3>1. ActiveSlots' = ActiveSlots
      BY <1>3, <1>10, <2>1 DEF ActiveSlots
    <3>2. pending_count' = pending_count
      BY <1>1, <1>4, <2>1
    <3> QED BY <1>2, <3>1, <3>2 DEF TableExact
  <2>2. CASE ~pending[k].active
    <3>1. k \notin ActiveSlots
      BY <2>2 DEF ActiveSlots
    <3>2. Cardinality(ActiveSlots') = Cardinality(ActiveSlots) + 1
      BY <1>6, <1>10, <3>1, FS_AddElement
    <3> QED BY <1>1, <1>2, <1>4, <2>2, <3>2 DEF TableExact
  <2> QED BY <2>1, <2>2
<1>12. \A i \in ActiveSlots : pending[i].id \in OpenIds /\ pending[i].id # r
  BY <1>2, <1>7 DEF TableExact
<1>13. \A i \in ActiveSlots' : pending'[i].id \in OpenIds'
  BY <1>7, <1>9, <1>10, <1>12 DEF ActiveSlots
<1>14. ASSUME NEW i \in ActiveSlots', NEW j \in ActiveSlots', i # j
       PROVE  pending'[i].id # pending'[j].id
  <2>1. CASE i # k /\ j # k
    BY <1>2, <1>9, <1>10, <1>14, <2>1 DEF TableExact, ActiveSlots
  <2>2. CASE i = k
    BY <1>9, <1>10, <1>12, <1>14, <2>2 DEF ActiveSlots
  <2>3. CASE j = k
    BY <1>9, <1>10, <1>12, <1>14, <2>3 DEF ActiveSlots
  <2> QED BY <2>1, <2>2, <2>3
<1>15. TableExact'
  BY <1>11, <1>13, <1>14 DEF TableExact
<1>16. PendingExact'
  BY <1>8, <1>15 DEF PendingExact, TableExact, CountersExact, ActiveSlots, OpenIds
<1> QED BY <1>5, <1>16 DEF PendingInv

(* handle_response to a submission frees the slot of the share, if the     *)
(* share was not evicted, and counts the answer in either case.            *)
LEMMA PendingAnswer ==
    ASSUME TypeInv, PendingInv, NEW id \in unanswered, NEW ok \in BOOLEAN, SubmitResult(id, ok)
    PROVE  PendingInv'
<1>1. /\ unanswered \subseteq Nat /\ next_rpc_id \in Nat
      /\ pending \in [PendingSlots -> [id : Nat, active : BOOLEAN]]
      /\ pending_count \in Nat /\ submit_count \in Nat
      /\ accept_count \in Nat /\ reject_count \in Nat
  BY DEF TypeInv, TypeOK, LoopTypes, TallyTypes
<1>2. IdsFresh /\ TableExact /\ CountersExact
  BY PendingParts DEF PendingInv
<1>3. /\ id >= 4 /\ unanswered' = unanswered \ {id}
      /\ accept_count' = accept_count + (IF ok THEN 1 ELSE 0)
      /\ reject_count' = reject_count + (IF ok THEN 0 ELSE 1)
      /\ UNCHANGED <<submit_count, next_rpc_id>>
  BY DEF SubmitResult, ReadLine, sends
<1>4. IdsFresh'
  <2>1. IsFiniteSet(unanswered')
    BY <1>2, <1>3, FS_RemoveElement DEF IdsFresh
  <2> QED BY <1>2, <1>3, <2>1 DEF IdsFresh
<1>5. /\ IsFiniteSet(ActiveSlots) /\ Cardinality(ActiveSlots) \in Nat
      /\ IsFiniteSet(OpenIds) /\ Cardinality(OpenIds) \in Nat
  BY <1>2, PendingFinite
<1>6. OpenIds' = OpenIds \ {id} /\ id \in OpenIds
  BY <1>3 DEF OpenIds
<1>7. CountersExact'
  <2>1. Cardinality(OpenIds') = Cardinality(OpenIds) - 1
    BY <1>5, <1>6, FS_RemoveElement
  <2>2. accept_count' + reject_count' = accept_count + reject_count + 1
    BY <1>1, <1>3
  <2>3. accept_count' \in Nat /\ reject_count' \in Nat
    BY <1>1, <1>3
  <2> QED BY <1>1, <1>2, <1>3, <1>5, <2>1, <2>2, <2>3 DEF CountersExact
<1>8. TableExact'
  <2>1. CASE Completed(id) = {}
    <3>1. UNCHANGED <<pending, pending_count>>
      BY <2>1 DEF SubmitResult
    <3>2. ActiveSlots' = ActiveSlots
      BY <3>1 DEF ActiveSlots, PendingSlots
    <3>3. \A i \in ActiveSlots : pending[i].id # id
      BY <2>1 DEF Completed, ActiveSlots
    <3> QED BY <1>2, <1>6, <3>1, <3>2, <3>3 DEF TableExact
  <2>2. CASE Completed(id) # {}
    <3> DEFINE slot == CHOOSE i \in Completed(id) : \A j \in Completed(id) : i <= j
    <3>1. Completed(id) \in SUBSET Nat
      BY DEF Completed, PendingSlots
    <3>2. \E i \in Completed(id) : \A j \in Completed(id) : i <= j
      BY <2>2, <3>1, FirstSlot
    <3>3. slot \in Completed(id)
      BY <3>2
    <3>4. /\ pending' = [pending EXCEPT ![slot].active = FALSE]
          /\ pending_count' = IF pending_count > 0 THEN pending_count - 1 ELSE pending_count
      BY <2>2 DEF SubmitResult
    <3> HIDE DEF slot
    <3>5. slot \in PendingSlots /\ slot \in ActiveSlots /\ pending[slot].id = id
      BY <3>3 DEF Completed, ActiveSlots
    <3>6. /\ pending'[slot].active = FALSE
          /\ \A i \in PendingSlots : i # slot => pending'[i] = pending[i]
      BY <1>1, <3>4, <3>5
    <3>7. ActiveSlots' = ActiveSlots \ {slot}
      <4>1. ASSUME NEW i PROVE i \in ActiveSlots' <=> i \in ActiveSlots \ {slot}
        <5>1. CASE i = slot
          BY <3>6, <5>1 DEF ActiveSlots, PendingSlots
        <5>2. CASE i # slot
          BY <3>6, <5>2 DEF ActiveSlots, PendingSlots
        <5> QED BY <5>1, <5>2
      <4> QED BY <4>1
    <3>8. pending_count' = Cardinality(ActiveSlots')
      <4>1. Cardinality(ActiveSlots') = Cardinality(ActiveSlots) - 1
        BY <1>5, <3>5, <3>7, FS_RemoveElement
      <4>2. Cardinality(ActiveSlots) # 0
        BY <1>5, <3>5, FS_EmptySet
      <4> QED BY <1>1, <1>2, <1>5, <3>4, <4>1, <4>2 DEF TableExact
    <3>9. \A i \in ActiveSlots' : i \in ActiveSlots /\ i # slot /\ pending'[i] = pending[i]
      BY <3>6, <3>7 DEF ActiveSlots
    <3>10. \A i \in ActiveSlots' : pending'[i].id \in OpenIds'
      BY <1>2, <1>6, <3>5, <3>9 DEF TableExact
    <3> QED BY <1>2, <3>8, <3>9, <3>10 DEF TableExact
  <2> QED BY <2>1, <2>2
<1>9. PendingExact'
  BY <1>7, <1>8 DEF PendingExact, TableExact, CountersExact, ActiveSlots, OpenIds
<1> QED BY <1>4, <1>9 DEF PendingInv

(* Every step of the session keeps the table and the counters exact.       *)
LEMMA PendingNext == TypeInv /\ PendingInv /\ [Next]_vars => PendingInv'
<1> SUFFICES ASSUME TypeInv, PendingInv, [Next]_vars PROVE PendingInv'
  OBVIOUS
<1>0. next_rpc_id \in Nat /\ IsFiniteSet(unanswered)
  BY DEF TypeInv, TypeOK, LoopTypes, PendingInv, IdsFresh
<1>1. CASE UNCHANGED <<tally, unanswered, next_rpc_id>>
  BY <1>0, <1>1, PendingFrame
<1>2. CASE TimeUp \/ FlushDone \/ ReadTimeout \/ ReadFails \/ Terminated \/ UNCHANGED vars
  <2>1. UNCHANGED <<tally, unanswered, next_rpc_id>>
    BY <1>2 DEF TimeUp, FlushDone, ReadTimeout, ReadFails, Terminated, vars, sends
  <2> QED BY <1>1, <2>1
<1>3. CASE HandleKeyboardInput \/ MaybeRollExtranonce \/ RollExtranonce \/ Workers
  <2>1. UNCHANGED <<tally, unanswered, next_rpc_id>>
    BY <1>3 DEF HandleKeyboardInput, MaybeRollExtranonce, RollExtranonce, Workers, sends
  <2> QED BY <1>1, <2>1
<1>4. CASE \/ \E n \in 0..Fields, u \in BOOLEAN : HandleNotify(n, u)
           \/ \E d \in Difficulties : HandleSetDifficulty(d)
           \/ \E e \in GivenExtranonces, n \in GivenSizes : HandleSetExtranonce(e, n)
  <2>1. UNCHANGED <<tally, unanswered, next_rpc_id>>
    BY <1>4 DEF HandleNotify, HandleSetDifficulty, HandleSetExtranonce, ReadLine, sends
  <2> QED BY <1>1, <2>1
<1>5. CASE FlushShare
  <2>1. /\ next_rpc_id' = next_rpc_id + 1
        /\ \/ RegisterPendingShare(next_rpc_id) /\ unanswered' = unanswered \cup {next_rpc_id}
           \/ UNCHANGED <<tally, unanswered>>
    BY <1>5 DEF FlushShare
  <2>2. CASE UNCHANGED <<tally, unanswered>>
    BY <1>0, <2>1, <2>2, PendingFrame
  <2> QED BY <2>1, <2>2, PendingRegister
<1>6. CASE SendDue
  <2>1. UNCHANGED <<tally, next_rpc_id>>
    BY <1>6 DEF SendDue, sends
  <2>2. PICK a \in {{}, {2}}, b \in {{}, {3}} : unanswered' = unanswered \cup a \cup b
    <3>1. CASE unanswered' = unanswered
      BY <3>1
    <3>2. CASE unanswered' # unanswered
      <4> DEFINE a == IF subscribed /\ ~authorize_sent THEN {2} ELSE {}
                 b == IF authorized /\ SuggestDifficulty /\ ~suggest_sent THEN {3} ELSE {}
      <4>1. unanswered' = unanswered \cup a \cup b
        BY <1>6, <3>2, Zenon DEF SendDue
      <4>2. a \in {{}, {2}} /\ b \in {{}, {3}}
        OBVIOUS
      <4> QED BY <4>1, <4>2
    <3> QED BY <3>1, <3>2
  <2>3. IsFiniteSet(a) /\ IsFiniteSet(b)
    <3>1. (a = {} \/ a = {2}) /\ (b = {} \/ b = {3})
      OBVIOUS
    <3>2. IsFiniteSet({}) /\ IsFiniteSet({2}) /\ IsFiniteSet({3})
      BY FS_EmptySet, FS_Singleton
    <3> QED BY <3>1, <3>2
  <2>4. IsFiniteSet(unanswered')
    BY <1>0, <2>2, <2>3, FS_Union
  <2>5. unanswered' \subseteq unanswered \cup {1, 2, 3} /\ unanswered \subseteq unanswered'
    BY <2>2
  <2> QED BY <1>0, <2>1, <2>4, <2>5, PendingFrame
<1>7. ASSUME UNCHANGED <<tally, next_rpc_id>>, NEW ids \in SUBSET {1, 2, 3},
             unanswered' = unanswered \ ids
      PROVE  PendingInv'
  <2>1. IsFiniteSet(unanswered')
    BY <1>0, <1>7, FS_Subset
  <2>2. unanswered' \subseteq unanswered \cup {1, 2, 3}
    BY <1>7
  <2>3. \A id \in unanswered : id >= 4 => id \in unanswered'
    <3>1. \A id \in ids : ~(id >= 4)
      OBVIOUS
    <3> QED BY <1>7, <3>1
  <2> QED BY <1>0, <1>7, <2>1, <2>2, <2>3, PendingFrame
<1>8. CASE \E e \in GivenExtranonces, n \in GivenSizes : SubscribeResult(e, n)
  <2>1. UNCHANGED <<tally, next_rpc_id>> /\ unanswered' = unanswered \ {1}
    BY <1>8 DEF SubscribeResult, ReadLine, sends
  <2> QED BY <1>7, <2>1
<1>9. CASE \E ok \in BOOLEAN : AuthorizeResult(ok)
  <2>1. UNCHANGED <<tally, next_rpc_id>> /\ unanswered' = unanswered \ {2}
    BY <1>9 DEF AuthorizeResult, ReadLine, sends
  <2> QED BY <1>7, <2>1
<1>10. CASE OtherLine
  <2>1. PICK ids \in SUBSET ({1, 2, 3} \cap unanswered) :
           UNCHANGED <<tally, next_rpc_id>> /\ unanswered' = unanswered \ ids
    BY <1>10 DEF OtherLine, ReadLine, sends
  <2> QED BY <1>7, <2>1
<1>11. CASE \E id \in unanswered, ok \in BOOLEAN : SubmitResult(id, ok)
  BY <1>11, PendingAnswer
<1> QED BY <1>2, <1>3, <1>4, <1>5, <1>6, <1>8, <1>9, <1>10, <1>11
        DEF Next, Client, ProcessLine

(* The pending table and the counters of stratum_state_t agree with what   *)
(* the pool has still to answer, for a table of any size.                  *)
THEOREM PendingIsExact == Spec => []PendingExact
<1>1. Init => PendingInv
  <2> SUFFICES ASSUME Init PROVE PendingInv
    OBVIOUS
  <2>1. /\ unanswered \in {{1}, {}} /\ next_rpc_id = 4
        /\ pending_count = 0 /\ submit_count = 0 /\ accept_count = 0 /\ reject_count = 0
    BY DEF Init
  <2>2. IdsFresh
    <3>1. IsFiniteSet(unanswered)
      <4>1. unanswered = {1} \/ unanswered = {}
        BY <2>1
      <4>2. IsFiniteSet({}) /\ IsFiniteSet({1})
        BY FS_EmptySet, FS_Singleton
      <4> QED BY <4>1, <4>2
    <3>2. \A id \in unanswered : id < next_rpc_id
      BY <2>1
    <3> QED BY <3>1, <3>2 DEF IdsFresh
  <2>3. ActiveSlots = {} /\ OpenIds = {}
    <3>1. \A i \in PendingSlots : pending[i].active = FALSE
      BY DEF Init, PendingSlots
    <3>2. ActiveSlots = {}
      BY <3>1 DEF ActiveSlots
    <3>3. \A id \in unanswered : ~(id >= 4)
      BY <2>1
    <3> QED BY <3>2, <3>3 DEF OpenIds
  <2>4. TableExact /\ CountersExact
    BY <2>1, <2>3, FS_EmptySet DEF TableExact, CountersExact
  <2> QED BY <2>2, <2>4, PendingParts DEF PendingInv
<1>2. PendingInv => PendingExact
  BY DEF PendingInv
<1> QED BY <1>1, <1>2, TypeInvariant, PendingNext, PTL DEF Spec
=============================================================================
