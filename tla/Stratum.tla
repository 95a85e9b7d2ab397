------------------------------ MODULE Stratum ------------------------------
(***************************************************************************)
(* One pool session of src/src/stratum.c: stratum_run_client from the      *)
(* connected socket to its return.  The client thread runs the loop        *)
(*   time limits and keyboard -> flush shares -> roll extranonce ->        *)
(*   read a line -> handle it -> send what is due                          *)
(* over a miner known only by its contract, ShareStream, whose workers     *)
(* interleave with every step of the loop.  The pool answers each request  *)
(* at most once, in any order, and sends notifications at any time.        *)
(***************************************************************************)
EXTENDS Integers, Sequences, FiniteSets

CONSTANTS
    EnableMining,        \* config->enable_mining
    StopAt,              \* TRUE when the run has a time limit
    SessionSeconds,      \* TRUE when the session has one
    SuggestDifficulty,   \* TRUE when a difficulty is suggested
    Fields,              \* number of strings of a job template
    PendingShares,       \* STRATUM_PENDING_SHARES
    Radix,               \* 16, the base extranonce2 is printed in
    MaxDigits,           \* digits of the largest uint64_t
    En2Buffer,           \* bytes of the extranonce2 buffer
    Extranonces,         \* extranonce1 values the pool may assign
    Sizes,               \* extranonce2 sizes the pool may assign
    Difficulties,        \* difficulties the pool may set
    MaxNonce, Capacity,  \* of the miner
    MaxNotify,           \* bound on the notifications of the pool
    MaxCounter,          \* bound on extranonce2_counter when the pool asks for a job
    MaxRolled            \* bound on it when the miner runs out of nonces

ASSUME ConfigAssumption ==
    /\ EnableMining \in BOOLEAN /\ StopAt \in BOOLEAN
    /\ SessionSeconds \in BOOLEAN /\ SuggestDifficulty \in BOOLEAN

ASSUME SizeAssumption ==
    /\ Fields \in Nat \ {0} /\ PendingShares \in Nat \ {0}
    /\ Radix \in Nat \ {0, 1} /\ MaxDigits \in Nat \ {0} /\ En2Buffer \in Nat
    /\ Extranonces \subseteq Nat \ {0} /\ Sizes \subseteq Int /\ Difficulties \subseteq Nat \ {0}
    /\ MaxNonce \in Nat /\ Capacity \in Nat \ {0}
    /\ MaxNotify \in Nat /\ MaxCounter \in Nat /\ MaxRolled \in Nat /\ MaxRolled >= MaxCounter

(* An empty extranonce1. *)
NoExtranonce == 0

VARIABLES
    \* stratum_state_t: what the pool told the client
    view,             \* [template, template_valid, extranonce1, extranonce2_size, difficulty]
    subscribed, authorized, notify_count,
    extranonce2_counter,
    \* stratum_state_t: submitted shares
    pending, pending_count, submit_count, accept_count, reject_count,
    \* locals of stratum_run_client
    phase, authorize_sent, suggest_sent, next_rpc_id, session_armed, run_result,
    \* the miner
    seq, valid, exhausted, paused, supply, waiting, delivered,
    \* auxiliary
    jobs,             \* the jobs given to miner_set_job, oldest first
    built,            \* the last rebuild gave the miner a job
    unusable,         \* notifications whose strings do not decode
    sent,             \* mining.submit messages, oldest first
    unanswered        \* ids of requests the pool has not answered

Stream == INSTANCE ShareStream

session == <<subscribed, authorized, notify_count>>
tally   == <<pending, pending_count, submit_count, accept_count, reject_count>>
sends   == <<authorize_sent, suggest_sent, next_rpc_id, session_armed>>
miner   == <<seq, valid, exhausted, paused, supply, waiting, delivered>>
work    == <<extranonce2_counter, jobs, built, miner>>

vars == <<view, session, work, tally, phase, run_result, sends, unusable, sent, unanswered>>

(* stratum_state_init, a started miner and the subscribe request. *)
Init ==
    /\ view = [template |-> [f \in 1..Fields |-> 0], template_valid |-> FALSE,
               extranonce1 |-> NoExtranonce, extranonce2_size |-> 4, difficulty |-> 1]
    /\ subscribed = FALSE /\ authorized = FALSE /\ notify_count = 0
    /\ extranonce2_counter = 1
    /\ pending = [i \in 0..(PendingShares - 1) |-> [id |-> 0, active |-> FALSE]]
    /\ pending_count = 0 /\ submit_count = 0 /\ accept_count = 0 /\ reject_count = 0
    /\ authorize_sent = FALSE /\ suggest_sent = FALSE
    /\ next_rpc_id = 4 /\ session_armed = FALSE
    /\ Stream!Init
    /\ jobs = <<>> /\ built = FALSE /\ unusable = {} /\ sent = <<>>
    /\ \/ phase = "top" /\ run_result = 0 /\ unanswered = {1}
       \/ phase = "ended" /\ run_result = 1 /\ unanswered = {}    \* send_subscribe fails

-----------------------------------------------------------------------------
(* miner_format_extranonce2: "%0*llx", at least two digits a byte, more    *)
(* when the value needs them, nothing when the size does not fit.          *)
Digits(v) == Cardinality({d \in 1..MaxDigits : d = 1 \/ v >= Radix ^ (d - 1)})

FormatExtranonce2(size, v) ==
    LET chars == 2 * size
    IN IF chars <= 0 \/ chars + 1 > En2Buffer
       THEN [chars |-> 0, value |-> v]
       ELSE [chars |-> IF Digits(v) > chars THEN Digits(v) ELSE chars, value |-> v]

(* Faulty variant: every job has the first extranonce2. *)
JobOfFirst(v) ==
    [template    |-> v.template,
     extranonce1 |-> v.extranonce1,
     extranonce2 |-> FormatExtranonce2(v.extranonce2_size, 1),
     difficulty  |-> v.difficulty]

JobOf(v) ==
    [template    |-> v.template,
     extranonce1 |-> v.extranonce1,
     extranonce2 |-> FormatExtranonce2(v.extranonce2_size, extranonce2_counter),
     difficulty  |-> v.difficulty]

(* miner_build_job: the coinbase must have an even number of digits and    *)
(* every string of the template must decode.                               *)
Buildable(job) ==
    /\ job.extranonce2.chars > 0
    /\ job.extranonce2.chars % 2 = 0
    /\ \A f \in 1..Fields : job.template[f] \notin unusable'

(* rebuild_miner_job, with v the client's view after the message. *)
RebuildMinerJob(v) ==
    LET attempted == /\ EnableMining
                     /\ v.template_valid
                     /\ v.extranonce1 # NoExtranonce
                     /\ v.extranonce2_size > 0
        success   == attempted /\ Buildable(JobOf(v))
    IN /\ built' = success
       /\ extranonce2_counter' = extranonce2_counter + (IF attempted THEN 1 ELSE 0)
       /\ \/ success  /\ jobs' = Append(jobs, JobOf(v)) /\ Stream!NewJob
          \/ ~success /\ UNCHANGED <<jobs, miner>>

-----------------------------------------------------------------------------
(* The loop of stratum_run_client. *)

(* Faulty variant: failures are returned as a negative number. *)
EndNegative(result) == phase' = "ended" /\ run_result' = -result

End(result) == phase' = "ended" /\ run_result' = result

(* A limit has passed. *)
TimeUp ==
    /\ phase = "top"
    /\ StopAt \/ session_armed
    /\ End(0)
    /\ UNCHANGED <<view, session, work, tally, sends, unusable, sent, unanswered>>

(* handle_keyboard_input: p and r, any number of times. *)
HandleKeyboardInput ==
    /\ phase = "top"
    /\ phase' = "flush"
    /\ \E p \in BOOLEAN : (EnableMining \/ p = paused) /\ Stream!SetPaused(p)
    /\ UNCHANGED <<view, session, extranonce2_counter, jobs, built, tally, run_result,
                   sends, unusable, sent, unanswered>>

(* register_pending_share: the first free slot, or another share's. *)
PendingSlots == 0..(PendingShares - 1)
FreeSlots    == {i \in PendingSlots : ~pending[i].active}

SlotFor(id) ==
    IF \E i \in PendingSlots : pending[i].active /\ pending[i].id = id
    THEN CHOOSE i \in PendingSlots : pending[i].active /\ pending[i].id = id
    ELSE IF FreeSlots # {}
         THEN CHOOSE i \in FreeSlots : \A j \in FreeSlots : i <= j
         ELSE id % PendingShares

(* Faulty variant: an evicted share is still counted. *)
RegisterPendingShareCountsTwice(id) ==
    /\ pending' = [pending EXCEPT ![SlotFor(id)] = [id |-> id, active |-> TRUE]]
    /\ pending_count' = pending_count + 1
    /\ submit_count' = submit_count + 1
    /\ UNCHANGED <<accept_count, reject_count>>

RegisterPendingShare(id) ==
    /\ pending' = [pending EXCEPT ![SlotFor(id)] = [id |-> id, active |-> TRUE]]
    /\ pending_count' = pending_count + (IF pending[SlotFor(id)].active THEN 0 ELSE 1)
    /\ submit_count' = submit_count + 1
    /\ UNCHANGED <<accept_count, reject_count>>

(* What a mining.submit names: job id, extranonce2 and nonce. *)
SubmitOf(share) ==
    [job_id      |-> jobs[share.seq].template[1],
     extranonce2 |-> jobs[share.seq].extranonce2,
     nonce       |-> share.nonce]

(* flush_shares: pop and send one share; a share that cannot be sent is    *)
(* gone with the session.                                                  *)
FlushShare ==
    /\ phase = "flush" /\ waiting # <<>>
    /\ Stream!Deliver
    /\ next_rpc_id' = next_rpc_id + 1
    /\ \/ /\ RegisterPendingShare(next_rpc_id)
          /\ sent' = Append(sent, SubmitOf(Head(waiting)))
          /\ unanswered' = unanswered \cup {next_rpc_id}
          /\ UNCHANGED <<phase, run_result>>
       \/ /\ End(1)
          /\ UNCHANGED <<tally, sent, unanswered>>
    /\ UNCHANGED <<view, session, extranonce2_counter, jobs, built, authorize_sent,
                   suggest_sent, session_armed, unusable>>

(* Faulty variant: the flush may stop with shares left. *)
FlushDoneEarly ==
    /\ phase = "flush"
    /\ phase' = "roll"
    /\ UNCHANGED <<view, session, work, tally, run_result, sends, unusable, sent, unanswered>>

FlushDone ==
    /\ phase = "flush" /\ waiting = <<>>
    /\ phase' = "roll"
    /\ UNCHANGED <<view, session, work, tally, run_result, sends, unusable, sent, unanswered>>

(* Faulty variant: the signal is taken and nothing is rebuilt. *)
MaybeRollExtranonceForgets ==
    /\ phase = "roll"
    /\ phase' = "read"
    /\ \/ exhausted  /\ Stream!TakeExhausted
       \/ ~exhausted /\ UNCHANGED miner
    /\ UNCHANGED <<view, session, extranonce2_counter, jobs, built, tally, run_result, sends,
                   unusable, sent, unanswered>>

(* maybe_roll_extranonce: take the signal, then rebuild.  A share reported *)
(* between the two is forgotten by the new job.                            *)
MaybeRollExtranonce ==
    /\ phase = "roll"
    /\ \/ exhausted  /\ Stream!TakeExhausted /\ phase' = "rebuild"
       \/ ~exhausted /\ UNCHANGED miner /\ phase' = "read"
    /\ UNCHANGED <<view, session, extranonce2_counter, jobs, built, tally, run_result, sends,
                   unusable, sent, unanswered>>

RollExtranonce ==
    /\ phase = "rebuild"
    /\ phase' = "read"
    /\ UNCHANGED unusable
    /\ RebuildMinerJob(view)
    /\ UNCHANGED <<view, session, tally, run_result, sends, sent, unanswered>>

(* read_line: nothing for 200 ms ... *)
ReadTimeout ==
    /\ phase = "read"
    /\ phase' = "top"
    /\ UNCHANGED <<view, session, work, tally, run_result, sends, unusable, sent, unanswered>>

(* ... or end of file, an error, or a line that does not fit. *)
ReadFails ==
    /\ phase = "read"
    /\ End(1)
    /\ UNCHANGED <<view, session, work, tally, sends, unusable, sent, unanswered>>

(* What is due after a line: authorize once, suggest once, arm the session *)
(* timer once.                                                             *)
SendDue ==
    LET authorize == subscribed /\ ~authorize_sent
        suggest   == authorized /\ SuggestDifficulty /\ ~suggest_sent
    IN /\ phase = "post"
       /\ \/ /\ phase' = "top"
             /\ authorize_sent' = (authorize_sent \/ authorize)
             /\ suggest_sent' = (suggest_sent \/ suggest)
             /\ session_armed' =
                  (session_armed \/ (SessionSeconds /\ authorized /\ notify_count > 0))
             /\ unanswered' = unanswered \cup (IF authorize THEN {2} ELSE {})
                                         \cup (IF suggest THEN {3} ELSE {})
             /\ UNCHANGED <<next_rpc_id, run_result>>
          \/ /\ authorize \/ suggest                       \* the send fails
             /\ End(1)
             /\ UNCHANGED <<sends, unanswered>>
       /\ UNCHANGED <<view, session, work, tally, unusable, sent>>

-----------------------------------------------------------------------------
(* stratum_process_line: one action for each kind of line. *)

ReadLine == phase = "read" /\ phase' = "post" /\ UNCHANGED <<run_result, sends, sent>>

(* The template after a notification: the strings are stored one by one,   *)
(* and the first that is too long (0: none) leaves those before it         *)
(* overwritten and the template invalid.                                   *)
Stored(too_long) ==
    [f \in 1..Fields |-> IF too_long = 0 \/ f < too_long THEN notify_count + 1 ELSE view.template[f]]

(* Faulty variant: a template once valid stays valid. *)
StoreTemplateKeepsValid(too_long) ==
    [view EXCEPT !.template = Stored(too_long),
                 !.template_valid = (@ \/ too_long = 0)]

StoreTemplate(too_long) ==
    [view EXCEPT !.template = Stored(too_long),
                 !.template_valid = (too_long = 0)]

(* usable: its strings decode, which matters when all of them are stored.  *)
HandleNotify(too_long, usable) ==
    LET v == StoreTemplate(too_long)
    IN /\ ReadLine /\ (too_long # 0 => usable)
       /\ notify_count < MaxNotify /\ extranonce2_counter <= MaxCounter
       /\ notify_count' = notify_count + 1
       /\ unusable' = unusable \cup (IF usable THEN {} ELSE {notify_count + 1})
       /\ view' = v
       /\ IF too_long = 0 THEN RebuildMinerJob(v) ELSE UNCHANGED work
       /\ UNCHANGED <<subscribed, authorized, tally, unanswered>>

(* The job is rebuilt at once with the new difficulty. *)
HandleSetDifficulty(d) ==
    LET v == [view EXCEPT !.difficulty = d]
    IN /\ ReadLine
       /\ extranonce2_counter <= MaxCounter
       /\ view' = v
       /\ UNCHANGED unusable
       /\ IF v.template_valid THEN RebuildMinerJob(v) ELSE UNCHANGED work
       /\ UNCHANGED <<session, tally, unanswered>>

(* An extranonce or a size that is missing from a message is kept. *)
GivenExtranonces == Extranonces \cup {view.extranonce1}
GivenSizes == Sizes \cup {view.extranonce2_size}

(* Faulty variant: the miner goes on with the old extranonce. *)
HandleSetExtranonceLater(e, size) ==
    /\ ReadLine
    /\ subscribed /\ extranonce2_counter <= MaxCounter
    /\ view' = [view EXCEPT !.extranonce1 = e, !.extranonce2_size = size]
    /\ UNCHANGED unusable
    /\ UNCHANGED <<session, work, tally, unanswered>>

(* The pool changes the extranonce of subscribed clients only. *)
HandleSetExtranonce(e, size) ==
    LET v == [view EXCEPT !.extranonce1 = e, !.extranonce2_size = size]
    IN /\ ReadLine
       /\ subscribed /\ extranonce2_counter <= MaxCounter
       /\ view' = v
       /\ UNCHANGED unusable
       /\ IF v.template_valid THEN RebuildMinerJob(v) ELSE UNCHANGED work
       /\ UNCHANGED <<session, tally, unanswered>>

(* handle_response to mining.subscribe: the template is not rebuilt. *)
SubscribeResult(e, size) ==
    /\ ReadLine
    /\ 1 \in unanswered /\ unanswered' = unanswered \ {1}
    /\ view' = [view EXCEPT !.extranonce1 = e, !.extranonce2_size = size]
    /\ subscribed' = TRUE
    /\ UNCHANGED <<authorized, notify_count, work, tally, unusable>>

AuthorizeResult(ok) ==
    /\ ReadLine
    /\ 2 \in unanswered /\ unanswered' = unanswered \ {2}
    /\ authorized' = ok
    /\ UNCHANGED <<view, subscribed, notify_count, work, tally, unusable>>

(* complete_pending_share and the counters; an evicted share is counted    *)
(* although its slot is gone.                                              *)
Completed(id) == {i \in PendingSlots : pending[i].active /\ pending[i].id = id}

SubmitResult(id, accepted) ==
    /\ ReadLine
    /\ id >= 4 /\ id \in unanswered /\ unanswered' = unanswered \ {id}
    /\ IF Completed(id) = {}
       THEN UNCHANGED <<pending, pending_count>>
       ELSE LET slot == CHOOSE i \in Completed(id) : \A j \in Completed(id) : i <= j
            IN /\ pending' = [pending EXCEPT ![slot].active = FALSE]
               /\ pending_count' = IF pending_count > 0 THEN pending_count - 1 ELSE pending_count
    /\ accept_count' = accept_count + (IF accepted THEN 1 ELSE 0)
    /\ reject_count' = reject_count + (IF accepted THEN 0 ELSE 1)
    /\ UNCHANGED <<view, session, work, submit_count, unusable>>

(* A line that changes nothing: malformed JSON or parameters, an unknown   *)
(* method, client.show_message, client.reconnect, an error answer to one   *)
(* of the first three requests, an answer to the third.                    *)
OtherLine ==
    /\ ReadLine
    /\ \E ids \in SUBSET ({1, 2, 3} \cap unanswered) :
          Cardinality(ids) <= 1 /\ unanswered' = unanswered \ ids
    /\ UNCHANGED <<view, session, work, tally, unusable>>

ProcessLine ==
    \/ \E n \in 0..Fields, u \in BOOLEAN : HandleNotify(n, u)
    \/ \E d \in Difficulties : HandleSetDifficulty(d)
    \/ \E e \in GivenExtranonces, n \in GivenSizes : HandleSetExtranonce(e, n)
    \/ \E e \in GivenExtranonces, n \in GivenSizes : SubscribeResult(e, n)
    \/ \E ok \in BOOLEAN : AuthorizeResult(ok)
    \/ \E id \in unanswered, ok \in BOOLEAN : SubmitResult(id, ok)
    \/ OtherLine

-----------------------------------------------------------------------------
(* The workers of the miner, at any point of the loop; miner_destroy has   *)
(* joined them when the session has ended.                                 *)
Workers ==
    /\ phase # "ended"
    /\ \/ Stream!HandOut
       \/ Stream!Exhaust /\ extranonce2_counter <= MaxRolled
       \/ \E n \in 0..MaxNonce : Stream!Report(n)
    /\ UNCHANGED <<view, session, extranonce2_counter, jobs, built, tally, phase, run_result,
                   sends, unusable, sent, unanswered>>

Client ==
    \/ TimeUp
    \/ HandleKeyboardInput
    \/ FlushShare
    \/ FlushDone
    \/ MaybeRollExtranonce
    \/ RollExtranonce
    \/ ReadTimeout
    \/ ReadFails
    \/ ProcessLine
    \/ SendDue

Terminated == phase = "ended" /\ UNCHANGED vars

Next == Client \/ Workers \/ Terminated

Spec == Init /\ [][Next]_vars

(* The calls on the pool's socket: recv and SSL_read, which waits for a    *)
(* whole record, send and SSL_write.  The socket blocks and has no         *)
(* timeout, so whether they return is up to the pool (lines 377, 392 and   *)
(* 411).                                                                   *)
OnSocket == phase \in {"read", "post"} \/ (phase = "flush" /\ waiting # <<>>)

(* The client's thread is scheduled; outside these calls it never blocks.  *)
FairSpec == Spec /\ WF_vars(~OnSocket /\ Client)
-----------------------------------------------------------------------------
(* Properties. *)

View == [template : [1..Fields -> Nat], template_valid : BOOLEAN,
         extranonce1 : Extranonces \cup {NoExtranonce}, extranonce2_size : Int,
         difficulty : Nat]

Extranonce2 == [chars : Nat, value : Nat]

Job == [template : [1..Fields -> Nat], extranonce1 : Extranonces \cup {NoExtranonce},
        extranonce2 : Extranonce2, difficulty : Nat]

ViewTypes ==
    /\ view \in View
    /\ subscribed \in BOOLEAN /\ authorized \in BOOLEAN
    /\ notify_count \in 0..MaxNotify /\ unusable \subseteq 1..MaxNotify

WorkTypes ==
    /\ extranonce2_counter \in Nat \ {0}
    /\ jobs \in Seq(Job) /\ built \in BOOLEAN

TallyTypes ==
    /\ pending \in [PendingSlots -> [id : Nat, active : BOOLEAN]]
    /\ pending_count \in Nat
    /\ submit_count \in Nat /\ accept_count \in Nat /\ reject_count \in Nat

MinerTypes ==
    /\ seq \in Nat /\ valid \in BOOLEAN /\ exhausted \in BOOLEAN /\ paused \in BOOLEAN
    /\ supply \subseteq 0..MaxNonce
    /\ waiting \in Seq([seq : Nat, nonce : 0..MaxNonce])
    /\ delivered \subseteq [seq : Nat, nonce : 0..MaxNonce]

LoopTypes ==
    /\ phase \in {"top", "flush", "roll", "rebuild", "read", "post", "ended"}
    /\ run_result \in {0, 1}
    /\ authorize_sent \in BOOLEAN /\ suggest_sent \in BOOLEAN /\ session_armed \in BOOLEAN
    /\ next_rpc_id \in Nat /\ next_rpc_id >= 4
    /\ sent \in Seq([job_id : Nat, extranonce2 : Extranonce2, nonce : 0..MaxNonce])
    /\ unanswered \subseteq Nat

(* stratum_state_t, the locals of stratum_run_client and the miner keep    *)
(* their types: a job and a submission are always well formed, and the ids *)
(* of submissions stay clear of those of the first three requests.         *)
TypeOK == ViewTypes /\ WorkTypes /\ TallyTypes /\ MinerTypes /\ LoopTypes

(* Every job given to the miner is made of the strings of one notification *)
(* whose strings were all stored, and that notification decodes: a rebuild *)
(* for another reason never mixes a half-stored template with an older one. *)
JobFromOneNotify ==
    \A j \in 1..Len(jobs) :
        \E k \in (1..notify_count) \ unusable :
            \A f \in 1..Fields : jobs[j].template[f] = k

(* The miner works on what the pool said last: after a rebuild that gave   *)
(* the miner a job and while the template is valid, the active job has the *)
(* current template, extranonce1 and difficulty, and so has every share    *)
(* that waits to be submitted.  That a new difficulty counts at once is    *)
(* what lines 1002-1004 of stratum.c do; their comment promises otherwise, *)
(* see DifficultyAppliesToNextNotify.                                      *)
FreshJob ==
    (built /\ view.template_valid) =>
        /\ seq > 0 /\ seq = Len(jobs)
        /\ jobs[seq].template = view.template
        /\ jobs[seq].extranonce1 = view.extranonce1
        /\ jobs[seq].difficulty = view.difficulty
        /\ \A i \in 1..Len(waiting) : waiting[i].seq = seq

(* "Stratum difficulty changes apply to the next mining.notify job."       *)
(* (stratum.c:998): the jobs made of one notification have one difficulty. *)
DifficultyAppliesToNextNotify ==
    \A i, j \in 1..Len(jobs) :
        jobs[i].template = jobs[j].template => jobs[i].difficulty = jobs[j].difficulty

(* No work is submitted twice: two mining.submit messages of a session     *)
(* differ in the job id, the extranonce2 or the nonce, although the miner  *)
(* restarts from nonce 0 at every roll, difficulty and extranonce change.  *)
NoDuplicateSubmit ==
    \A i, j \in 1..Len(sent) : i # j => sent[i] # sent[j]

(* The pending table and the counters agree with the pool: a slot is taken *)
(* by a share the pool has not answered, no share has two slots, and every *)
(* share sent is accepted, rejected or unanswered, even after evictions    *)
(* from a full table and answers out of order.                             *)
PendingExact ==
    LET active == {i \in PendingSlots : pending[i].active}
        open   == {id \in unanswered : id >= 4}
    IN /\ pending_count = Cardinality(active)
       /\ \A i \in active : pending[i].id \in open
       /\ \A i, j \in active : (i # j) => pending[i].id # pending[j].id
       /\ submit_count = accept_count + reject_count + Cardinality(open)

(* An exhausted job is replaced, unless the session ends, the template is  *)
(* not usable, no job can be built from it or a call on the socket never   *)
(* returns.                                                                *)
ExhaustedJobReplaced ==
    exhausted ~> (valid \/ phase = "ended" \/ ~built \/ ~view.template_valid \/ []OnSocket)

(* A share that was reported is submitted, unless a new job or the end of  *)
(* the session forgets it or a call on the socket never returns.           *)
ShareSubmitted ==
    \A s \in 1..(MaxRolled + 1) : \A n \in 0..MaxNonce :
        (\E i \in 1..Len(waiting) : waiting[i] = [seq |-> s, nonce |-> n])
        ~> ([seq |-> s, nonce |-> n] \in delivered \/ seq # s \/ phase = "ended" \/ []OnSocket)
=============================================================================
