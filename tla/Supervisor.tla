----------------------------- MODULE Supervisor -----------------------------
(***************************************************************************)
(* The reconnect loop at the end of main in src/src/stratum_main.c: one    *)
(* pool session after another, with pool failover, growing pauses, a limit *)
(* on retries and on the run time, and donation rounds between the user's. *)
(* A session is known by what stratum_run_client returns: 0 when a time    *)
(* limit ended it, 1 when the connection failed, 2 for an invalid url.     *)
(* Time is counted in ticks.                                               *)
(***************************************************************************)
EXTENDS Integers, Sequences

CONSTANTS
    PoolCount,        \* configured pools
    BadPools,         \* those whose url does not parse
    Mining,           \* mining_enabled
    DonateLevel,      \* percentage, or minutes of a cycle
    CycleMinutes,     \* DONATION_CYCLE_MINUTES
    Minute, Second,   \* ticks
    RetryLimits,      \* values of retries; -1: no limit
    BaseDelay,        \* retry-pause, in seconds
    MaxDelay,         \* MAX_RECONNECT_DELAY, in seconds
    RunLimits,        \* values of stop_at, the end of the run in ticks; 0: no limit
    MaxAttempt,       \* bound on the retries between two donation switches
    MaxTime           \* bound on the clock

ASSUME SupervisorAssumption ==
    /\ PoolCount \in Nat \ {0} /\ BadPools \subseteq 0..(PoolCount - 1)
    /\ Mining \in BOOLEAN
    /\ CycleMinutes \in Nat /\ DonateLevel \in 1..(CycleMinutes - 1)
    /\ Minute \in Nat \ {0} /\ Second \in Nat \ {0}
    /\ RetryLimits \subseteq Int /\ BaseDelay \in Int /\ MaxDelay \in Nat \ {0}
    /\ RunLimits \subseteq Nat /\ MaxAttempt \in Nat /\ MaxTime \in Nat

VARIABLES
    retries, stop_at, \* the limits the program was started with
    loop,             \* where main is: "top", "session", "after", "sleep", "ended"
    pool_index, donating, phase_seconds, attempt, last_rc, delay,
    now,              \* monotonic_seconds
    \* auxiliary
    user_time,        \* active time of user sessions
    donated_time,     \* active time of donation sessions
    failed            \* pools of the user sessions failed in a row, the last PoolCount of them

limits == <<retries, stop_at>>
clocks == <<now, user_time, donated_time>>
vars   == <<limits, loop, pool_index, donating, phase_seconds, attempt, last_rc, delay, clocks, failed>>

(* Faulty variant: the phases are swapped. *)
PhaseSecondsSwapped(donate) ==
    (IF donate THEN CycleMinutes - DonateLevel ELSE DonateLevel) * Minute

(* donation_phase_seconds. *)
PhaseSeconds(donate) ==
    (IF donate THEN DonateLevel ELSE CycleMinutes - DonateLevel) * Minute

(* Faulty variant: the cap is applied one doubling late. *)
DoubledLate(base) ==
    LET d[i \in Nat] ==
          IF i = 0 THEN base
          ELSE IF d[i - 1] >= MaxDelay THEN d[i - 1] ELSE 2 * d[i - 1]
    IN d

(* retry_delay_seconds: the loop doubles the pause, without going over. *)
Doubled(base) ==
    LET d[i \in Nat] ==
          IF i = 0 THEN base
          ELSE IF d[i - 1] >= MaxDelay THEN d[i - 1]
          ELSE IF d[i - 1] > MaxDelay \div 2 THEN MaxDelay ELSE 2 * d[i - 1]
    IN d

RetryDelaySeconds(n) ==
    LET base == IF BaseDelay <= 0 THEN 1 ELSE BaseDelay
    IN IF base > MaxDelay THEN MaxDelay ELSE Doubled(base)[n - 1]

(* donation_initial_user_seconds: half to three halves of a user phase. *)
InitialUserSeconds ==
    {p \in 1..(2 * PhaseSeconds(FALSE)) :
        2 * p >= PhaseSeconds(FALSE) /\ 2 * p < 3 * PhaseSeconds(FALSE)}

Init ==
    /\ retries \in RetryLimits /\ stop_at \in RunLimits
    /\ loop = "top" /\ pool_index = 0 /\ donating = FALSE
    /\ phase_seconds \in IF Mining THEN InitialUserSeconds ELSE {0}
    /\ attempt = 0 /\ last_rc = 0 /\ delay = 0
    /\ now = 0 /\ user_time = 0 /\ donated_time = 0 /\ failed = <<>>

Expired == stop_at > 0 /\ now >= stop_at

-----------------------------------------------------------------------------
LoopTop ==
    /\ loop = "top"
    /\ loop' = IF Expired THEN "ended" ELSE "session"
    /\ UNCHANGED <<pool_index, donating, phase_seconds, attempt, last_rc, delay, clocks, failed>>

(* The session took elapsed ticks, active of them with the timer armed. *)
Spend(elapsed, active) ==
    /\ now + elapsed <= MaxTime
    /\ now' = now + elapsed
    /\ user_time' = user_time + (IF donating THEN 0 ELSE active)
    /\ donated_time' = donated_time + (IF donating THEN active ELSE 0)

Return(rc) ==
    /\ loop = "session" /\ loop' = "after"
    /\ last_rc' = rc
    /\ UNCHANGED <<pool_index, donating, phase_seconds, attempt, delay>>

(* The period is complete before the run is. *)
SessionComplete ==
    /\ Return(0)
    /\ pool_index \notin BadPools /\ phase_seconds > 0
    /\ \E idle \in 0..1 :
          /\ stop_at > 0 => now + idle + phase_seconds < stop_at
          /\ Spend(idle + phase_seconds, phase_seconds)
    /\ failed' = <<>>

(* The run is complete before the period is. *)
SessionStopped ==
    /\ Return(0)
    /\ pool_index \notin BadPools /\ stop_at > now
    /\ \E active \in 0..(stop_at - now) :
          /\ phase_seconds > 0 => active <= phase_seconds
          /\ Spend(stop_at - now, active)
    /\ failed' = <<>>

(* The connection cannot be made or is lost; an attempt to connect may     *)
(* outlast the run.                                                        *)
SessionFails ==
    /\ Return(IF pool_index \in BadPools THEN 2 ELSE 1)
    /\ attempt < MaxAttempt
    /\ IF pool_index \in BadPools
       THEN Spend(0, 0)
       ELSE \E elapsed \in 0..(MaxTime - now) : \E active \in 0..elapsed :
               /\ phase_seconds > 0 => active < phase_seconds
               /\ stop_at > 0 => now + active <= stop_at
               /\ Spend(elapsed, active)
    /\ failed' = IF donating THEN failed
                 ELSE IF Len(failed) = PoolCount THEN Append(Tail(failed), pool_index)
                 ELSE Append(failed, pool_index)

(* A phase that ended in time is followed by one of the other kind. *)
SwitchPhase ==
    /\ loop = "after" /\ ~Expired /\ Mining /\ last_rc = 0
    /\ donating' = ~donating
    /\ phase_seconds' = PhaseSeconds(~donating)
    /\ attempt' = 0
    /\ loop' = "top"
    /\ UNCHANGED <<pool_index, last_rc, delay, clocks, failed>>

(* Faulty variant: the pause is not clipped. *)
UnclippedDelay == RetryDelaySeconds(attempt + 1)

(* The pause before a retry: clipped to the rest of the run, at least 1 s. *)
ClippedDelay ==
    LET wanted    == RetryDelaySeconds(attempt + 1)
        remaining == stop_at - now
    IN IF stop_at = 0 THEN wanted
       ELSE IF remaining < Second \/ remaining \div Second = 0 THEN 1
       ELSE IF wanted * Second > remaining THEN remaining \div Second
       ELSE wanted

(* Faulty variants: the index runs past the last pool; the first pool is   *)
(* never left.                                                             *)
NextPoolUnwrapped == IF donating THEN pool_index ELSE pool_index + 1
NextPoolSame == pool_index

(* A failed donation gives the pool back to the user; any other failure    *)
(* moves on to the next pool.                                              *)
NextPool == IF donating \/ PoolCount = 1 THEN pool_index ELSE (pool_index + 1) % PoolCount

(* Faulty variant: a negative limit is compared like any other. *)
RetriesUsedUpSigned == attempt >= retries

RetriesUsedUp == retries >= 0 /\ attempt >= retries

Retry ==
    /\ loop = "after" /\ ~Expired /\ ~(Mining /\ last_rc = 0)
    /\ donating' = FALSE
    /\ phase_seconds' = IF donating THEN PhaseSeconds(FALSE) ELSE phase_seconds
    /\ pool_index' = NextPool
    /\ IF RetriesUsedUp
       THEN loop' = "ended" /\ UNCHANGED delay
       ELSE loop' = "sleep" /\ delay' = ClippedDelay
    /\ UNCHANGED <<attempt, last_rc, clocks, failed>>

StopAfterSession ==
    /\ loop = "after" /\ Expired
    /\ loop' = "ended"
    /\ UNCHANGED <<pool_index, donating, phase_seconds, attempt, last_rc, delay, clocks, failed>>

Wake ==
    /\ loop = "sleep"
    /\ now' = now + delay * Second
    /\ attempt' = attempt + 1
    /\ loop' = "top"
    /\ UNCHANGED <<pool_index, donating, phase_seconds, last_rc, delay, user_time, donated_time, failed>>

Session == UNCHANGED limits /\ (SessionComplete \/ SessionStopped \/ SessionFails)

Main == UNCHANGED limits /\ (LoopTop \/ SwitchPhase \/ Retry \/ StopAfterSession \/ Wake)

(* The session goes on, or main has returned. *)
Idle == loop \in {"session", "ended"} /\ UNCHANGED vars

Next == Main \/ Session \/ Idle

Spec == Init /\ [][Next]_vars

(* main runs whenever it is not inside a session; a session may last.      *)
FairSpec == Spec /\ WF_vars(Main)
-----------------------------------------------------------------------------
(* Properties. *)

(* The variables of the loop keep their types: in particular pool_index    *)
(* stays below pool_count and a pause is between 1 s and the maximum.      *)
TypeOK ==
    /\ retries \in RetryLimits /\ stop_at \in RunLimits
    /\ loop \in {"top", "session", "after", "sleep", "ended"}
    /\ pool_index \in 0..(PoolCount - 1) /\ donating \in BOOLEAN
    /\ phase_seconds \in Nat /\ attempt \in Nat /\ last_rc \in 0..2
    /\ delay \in 0..MaxDelay /\ (loop = "sleep" => delay >= 1)
    /\ now \in Nat /\ user_time \in Nat /\ donated_time \in Nat
    /\ failed \in Seq(0..(PoolCount - 1)) /\ Len(failed) <= PoolCount

(* The donation keeps to its level: whatever fails and whenever it is      *)
(* retried, the time donated is at most DonateLevel parts to CycleMinutes  *)
(* - DonateLevel parts of the user's, but for half a phase that the random *)
(* first phase may be short of.                                            *)
DonationShare ==
    2 * donated_time * (CycleMinutes - DonateLevel)
        <= DonateLevel * (2 * user_time + PhaseSeconds(FALSE))

(* Failover reaches every pool: PoolCount user sessions that fail in a row *)
(* are with PoolCount different pools.                                     *)
EveryPoolTried ==
    \A i, j \in 1..Len(failed) : i # j => failed[i] # failed[j]

(* 2^n. *)
Power[n \in Nat] == IF n = 0 THEN 1 ELSE 2 * Power[n - 1]

(* The doubling loop of retry_delay_seconds computes the bounded           *)
(* exponential backoff: base * 2^(n-1), at most MaxDelay.                  *)
BackoffIsExponential ==
    LET base   == IF BaseDelay <= 0 THEN 1 ELSE BaseDelay
        wanted == base * Power[attempt]
    IN RetryDelaySeconds(attempt + 1) = IF wanted > MaxDelay THEN MaxDelay ELSE wanted

(* The loop is sound at every moment: its variables have their types, the  *)
(* failover reaches every pool, and the pauses grow as documented.         *)
LoopSound == TypeOK /\ EveryPoolTried /\ BackoffIsExponential

(* A pause never carries the run more than a second past its end. *)
NoOversleep ==
    [][(loop = "sleep" /\ stop_at > 0) => now' <= stop_at + Second]_vars

(* After a session there is another one, unless the run is over or the     *)
(* retries are used up.                                                    *)
Reconnects ==
    (loop = "after") ~>
        (loop = "session" \/ (loop = "ended" /\ (Expired \/ (retries >= 0 /\ attempt >= retries))))

(* "connection failed; returning to user mining": what main prints when a  *)
(* donation round fails says that the user's mining goes on.               *)
DonationFailureReturns ==
    [][(loop = "after" /\ ~Expired /\ donating /\ last_rc # 0) => loop' # "ended"]_vars
=============================================================================
