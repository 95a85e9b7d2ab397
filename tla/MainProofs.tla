----------------------------- MODULE MainProofs -----------------------------
(***************************************************************************)
(* Proofs about stratum_main.c.  Of Supervisor: the pauses between         *)
(* retries, the order in which pools are tried, and the share of the       *)
(* donation.  Of Autotune: what the measurements select, what the file     *)
(* holds after any sequence of starts, kills and edits, and what the next  *)
(* start makes of it.                                                      *)
(***************************************************************************)
EXTENDS Supervisor, Autotune, SequenceTheorems, WellFoundedInduction, TLAPS

-----------------------------------------------------------------------------
(* Induction and recursive functions, for sets of numbers.                 *)

(* A set of numbers that is not empty has a least one. *)
LEMMA LeastElement ==
    ASSUME NEW T \in SUBSET Nat, T # {}
    PROVE  \E x \in T : \A y \in T : x <= y
<1> DEFINE R == {p \in Nat \X Nat : p[1] < p[2]}
<1>1. R = OpToRel(<, Nat)
  BY DEF OpToRel
<1>2. IsWellFoundedOn(R, Nat)
  BY <1>1, NatLessThanWellFounded
<1>3. PICK x \in T : \A y \in T : ~(<<y, x>> \in R)
  BY <1>2, WFMin
<1>4. \A y \in T : ~(y < x)
  BY <1>3
<1> QED BY <1>3, <1>4

(* A set of numbers that contains 0 and every successor is Nat. *)
LEMMA Induction ==
    ASSUME NEW S \in SUBSET Nat, 0 \in S, \A n \in S : n + 1 \in S
    PROVE  S = Nat
<1> SUFFICES ASSUME Nat \ S # {} PROVE FALSE
  OBVIOUS
<1>1. PICK x \in Nat \ S : \A y \in Nat \ S : x <= y
  BY LeastElement
<1> QED BY <1>1

(* h is the beginning, up to n, of the iteration of g from x0. *)
Begins(h, n, x0, g) ==
    /\ h \in [0..n -> Nat] /\ h[0] = x0
    /\ \A i \in 0..(n - 1) : h[i + 1] = g[h[i]]

(* Every number of turns has its beginning. *)
LEMMA BeginningExists ==
    ASSUME NEW x0 \in Nat, NEW g \in [Nat -> Nat]
    PROVE  \A n \in Nat : \E h \in [0..n -> Nat] : Begins(h, n, x0, g)
<1> DEFINE T == {n \in Nat : \E h \in [0..n -> Nat] : Begins(h, n, x0, g)}
<1>1. 0 \in T
  <2>1. Begins([i \in 0..0 |-> x0], 0, x0, g)
    BY DEF Begins
  <2> QED BY <2>1 DEF Begins
<1>2. ASSUME NEW n \in T PROVE n + 1 \in T
  <2>1. PICK h : Begins(h, n, x0, g)
    OBVIOUS
  <2>2. n \in Nat /\ h \in [0..n -> Nat] /\ h[0] = x0 /\ \A i \in 0..(n - 1) : h[i + 1] = g[h[i]]
    BY <2>1 DEF Begins
  <2> HIDE DEF T
  <2> DEFINE V(i) == IF i <= n THEN h[i] ELSE g[h[n]]
             k == [i \in 0..(n + 1) |-> V(i)]
  <2>3. g[h[n]] \in Nat
    BY <2>2
  <2>4. ASSUME NEW i \in 0..(n + 1) PROVE V(i) \in Nat
    <3>1. CASE i <= n
      <4>1. i \in 0..n
        BY <2>2, <3>1
      <4> QED BY <2>2, <3>1, <4>1
    <3>2. CASE ~(i <= n)
      BY <2>3, <3>2
    <3> QED BY <3>1, <3>2
  <2>5. V(0) = x0
    BY <2>2
  <2>6. ASSUME NEW i \in 0..n PROVE V(i + 1) = g[V(i)]
    <3>1. CASE i = n
      BY <2>2, <3>1
    <3>2. CASE i # n
      <4>1. i \in 0..(n - 1) /\ i + 1 <= n /\ i <= n
        BY <2>2, <3>2
      <4> QED BY <2>2, <4>1
    <3> QED BY <3>1, <3>2
  <2> HIDE DEF V
  <2>7. k \in [0..(n + 1) -> Nat] /\ k[0] = x0
    <3>1. 0 \in 0..(n + 1)
      BY <2>2
    <3> QED BY <2>4, <2>5, <3>1
  <2>8. ASSUME NEW i \in 0..n PROVE k[i + 1] = g[k[i]]
    <3>1. i \in 0..(n + 1) /\ i + 1 \in 0..(n + 1)
      BY <2>2
    <3> QED BY <2>6, <3>1
  <2> HIDE DEF k
  <2>9. (n + 1) - 1 = n
    BY <2>2
  <2>10. Begins(k, n + 1, x0, g)
    BY <2>7, <2>8, <2>9 DEF Begins
  <2>11. n + 1 \in Nat
    BY <2>2
  <2> QED BY <2>7, <2>10, <2>11 DEF T
<1>3. T = Nat
  <2> HIDE DEF T
  <2>1. T \in SUBSET Nat
    BY DEF T
  <2> QED BY <1>1, <1>2, <2>1, Induction
<1> QED BY <1>3

(* Two beginnings agree where both are defined. *)
LEMMA BeginningsAgree ==
    ASSUME NEW x0 \in Nat, NEW g \in [Nat -> Nat], NEW m \in Nat, NEW n \in Nat,
           NEW h, NEW k, Begins(h, m, x0, g), Begins(k, n, x0, g)
    PROVE  \A i \in Nat : i <= m /\ i <= n => h[i] = k[i]
<1> DEFINE T == {i \in Nat : i <= m /\ i <= n => h[i] = k[i]}
<1>1. 0 \in T
  BY DEF Begins
<1>2. ASSUME NEW i \in T PROVE i + 1 \in T
  BY DEF Begins
<1>3. T = Nat
  <2> HIDE DEF T
  <2>1. T \in SUBSET Nat
    BY DEF T
  <2> QED BY <1>1, <1>2, <2>1, Induction
<1> QED BY <1>3

(* A function defined by its value at 0 and by its value at n from the one *)
(* before exists.                                                          *)
LEMMA Iteration ==
    ASSUME NEW x0 \in Nat, NEW g \in [Nat -> Nat]
    PROVE  \E f \in [Nat -> Nat] : f[0] = x0 /\ \A n \in Nat : f[n + 1] = g[f[n]]
<1> DEFINE B(n) == CHOOSE h \in [0..n -> Nat] : Begins(h, n, x0, g)
           f == [n \in Nat |-> B(n)[n]]
<1>1. \A n \in Nat : Begins(B(n), n, x0, g)
  BY BeginningExists
<1> HIDE DEF B
<1>2. f \in [Nat -> Nat] /\ f[0] = x0
  BY <1>1 DEF Begins
<1>3. ASSUME NEW n \in Nat PROVE f[n + 1] = g[f[n]]
  <2>1. B(n + 1)[n + 1] = g[B(n + 1)[n]]
    BY <1>1 DEF Begins
  <2>2. B(n + 1)[n] = B(n)[n]
    BY <1>1, BeginningsAgree
  <2> QED BY <2>1, <2>2
<1> QED BY <1>2, <1>3

-----------------------------------------------------------------------------
(* The pauses.                                                             *)

(* One turn of the loop in retry_delay_seconds. *)
Grow(x) == IF x >= MaxDelay THEN x ELSE IF x > MaxDelay \div 2 THEN MaxDelay ELSE 2 * x

(* The pause before the first retry, and after one more. *)
LEMMA DoubledUnfolds ==
    ASSUME NEW base \in Nat
    PROVE  /\ Doubled(base)[0] = base
           /\ \A n \in Nat : Doubled(base)[n + 1] = Grow(Doubled(base)[n])
<1> DEFINE D(d) == [i \in Nat |->
              IF i = 0 THEN base
              ELSE IF d[i - 1] >= MaxDelay THEN d[i - 1]
              ELSE IF d[i - 1] > MaxDelay \div 2 THEN MaxDelay ELSE 2 * d[i - 1]]
           g == [x \in Nat |-> Grow(x)]
<1>1. g \in [Nat -> Nat]
  BY SupervisorAssumption DEF Grow
<1>2. PICK f \in [Nat -> Nat] : f[0] = base /\ \A n \in Nat : f[n + 1] = g[f[n]]
  <2> HIDE DEF g
  <2> QED BY <1>1, Iteration
<1>3. f = D(f)
  <2>1. ASSUME NEW i \in Nat PROVE f[i] = D(f)[i]
    <3>1. CASE i = 0
      BY <3>1, <1>2
    <3>2. CASE i # 0
      <4>1. i - 1 \in Nat /\ (i - 1) + 1 = i
        BY <3>2
      <4>2. f[i] = Grow(f[i - 1])
        BY <4>1, <1>2
      <4> QED BY <3>2, <4>2 DEF Grow
    <3> QED BY <3>1, <3>2
  <2> QED BY <2>1
<1>4. Doubled(base) = CHOOSE d : d = D(d)
  BY DEF Doubled
<1>5. Doubled(base) = D(Doubled(base))
  <2> HIDE DEF D
  <2> QED BY <1>3, <1>4
<1>6. ASSUME NEW n \in Nat PROVE D(Doubled(base))[n + 1] = Grow(Doubled(base)[n])
  BY (n + 1) - 1 = n DEF Grow
<1>7. D(Doubled(base))[0] = base
  OBVIOUS
<1> HIDE DEF D
<1> QED BY <1>5, <1>6, <1>7

(* Powers of two, one by one. *)
LEMMA PowerUnfolds ==
    /\ Power[0] = 1
    /\ \A n \in Nat : Power[n + 1] = 2 * Power[n]
<1> DEFINE D(d) == [i \in Nat |-> IF i = 0 THEN 1 ELSE 2 * d[i - 1]]
           g == [x \in Nat |-> 2 * x]
<1>1. g \in [Nat -> Nat] /\ 1 \in Nat
  OBVIOUS
<1>2. PICK f \in [Nat -> Nat] : f[0] = 1 /\ \A n \in Nat : f[n + 1] = g[f[n]]
  <2> HIDE DEF g
  <2> QED BY <1>1, Iteration
<1>3. f = D(f)
  <2>1. ASSUME NEW i \in Nat PROVE f[i] = D(f)[i]
    <3>1. CASE i = 0
      BY <3>1, <1>2
    <3>2. CASE i # 0
      <4>1. i - 1 \in Nat /\ (i - 1) + 1 = i
        BY <3>2
      <4> QED BY <3>2, <4>1, <1>2
    <3> QED BY <3>1, <3>2
  <2> QED BY <2>1
<1>4. Power = CHOOSE d : d = D(d)
  BY DEF Power
<1>5. Power = D(Power)
  <2> HIDE DEF D
  <2> QED BY <1>3, <1>4
<1>6. ASSUME NEW n \in Nat PROVE D(Power)[n + 1] = 2 * Power[n]
  BY (n + 1) - 1 = n
<1>7. D(Power)[0] = 1
  OBVIOUS
<1> HIDE DEF D
<1> QED BY <1>5, <1>6, <1>7

(* The loop computes the smaller of base * 2^n and the maximum. *)
LEMMA DoubledIsCapped ==
    ASSUME NEW base \in 1..MaxDelay
    PROVE  \A n \in Nat :
              /\ Power[n] \in Nat \ {0}
              /\ Doubled(base)[n] = IF base * Power[n] > MaxDelay THEN MaxDelay ELSE base * Power[n]
<1> DEFINE T == {n \in Nat :
              /\ Power[n] \in Nat \ {0}
              /\ Doubled(base)[n] = IF base * Power[n] > MaxDelay THEN MaxDelay ELSE base * Power[n]}
<1>0. base \in Nat
  OBVIOUS
<1>1. 0 \in T
  BY <1>0, DoubledUnfolds, PowerUnfolds, SupervisorAssumption
<1>2. ASSUME NEW n \in T PROVE n + 1 \in T
  <2> DEFINE w == base * Power[n]
  <2>1. n \in Nat /\ Power[n] \in Nat \ {0}
    OBVIOUS
  <2>2. Doubled(base)[n] = IF w > MaxDelay THEN MaxDelay ELSE w
    OBVIOUS
  <2>3. Power[n + 1] = 2 * Power[n] /\ Power[n + 1] \in Nat \ {0}
    BY <2>1, PowerUnfolds
  <2>4. base * Power[n + 1] = 2 * w /\ w \in Nat
    BY <2>1, <2>3
  <2>5. Doubled(base)[n + 1] = Grow(Doubled(base)[n])
    BY <1>0, <2>1, DoubledUnfolds
  <2> HIDE DEF w
  <2>6. Grow(Doubled(base)[n]) = IF 2 * w > MaxDelay THEN MaxDelay ELSE 2 * w
    BY <2>2, <2>4, SupervisorAssumption DEF Grow
  <2> QED BY <2>1, <2>3, <2>4, <2>5, <2>6
<1>3. T = Nat
  <2> HIDE DEF T
  <2>1. T \in SUBSET Nat
    BY DEF T
  <2> QED BY <1>1, <1>2, <2>1, Induction
<1> QED BY <1>3

-----------------------------------------------------------------------------
(* The inductive invariant.                                                *)

(* k pools further, around the list. *)
Shift(p, k) == IF p + k >= PoolCount THEN p + k - PoolCount ELSE p + k

(* The failed sessions are with consecutive pools. *)
TriedInOrder ==
    \A i, j \in 1..Len(failed) : i <= j => failed[j] = Shift(failed[i], j - i)

(* The next user session is with the pool after the last that failed; a    *)
(* donation round in between does not move it.                             *)
NextIsDue ==
    Len(failed) > 0 =>
        /\ loop \in {"top", "session", "sleep"} => pool_index = Shift(failed[Len(failed)], 1)
        /\ loop = "after" =>
              /\ last_rc # 0
              /\ donating => pool_index = Shift(failed[Len(failed)], 1)
              /\ ~donating => pool_index = failed[Len(failed)]

(* The pause ends in time. *)
PauseInTime ==
    (loop = "sleep" /\ stop_at > 0) => now + delay * Second <= stop_at + Second

(* The two sides of the donation's balance, and what one phase moves each. *)
DonatedShare == (CycleMinutes - DonateLevel) * donated_time
UserShare    == DonateLevel * user_time
PhaseShare   == DonateLevel * PhaseSeconds(FALSE)

ShareKept == 2 * DonatedShare <= 2 * UserShare + PhaseShare

(* A donation round has its own length and is never slept in. *)
DonationPhase == donating => (Mining /\ loop # "sleep" /\ phase_seconds = PhaseSeconds(TRUE))

(* A user phase that is complete pays for the donation that follows. *)
UserPhasePays ==
    (/\ ~donating /\ Mining
     /\ loop \in {"top", "session", "sleep"} \/ (loop = "after" /\ last_rc # 0))
        => 2 * DonatedShare + PhaseShare <= 2 * UserShare + 2 * (DonateLevel * phase_seconds)

(* A donation round begins, and is decided on, only when it is paid for. *)
DonationPaid ==
    (\/ donating /\ loop \in {"top", "session"}
     \/ ~donating /\ loop = "after" /\ Mining /\ last_rc = 0 /\ ~Expired)
        => 2 * DonatedShare + PhaseShare <= 2 * UserShare

LoopInv ==
    /\ TypeOK /\ TriedInOrder /\ NextIsDue /\ PauseInTime
    /\ ShareKept /\ DonationPhase /\ UserPhasePays /\ DonationPaid

-----------------------------------------------------------------------------
(* The pause is between a second and the maximum, and grows as documented. *)
LEMMA RetryDelay ==
    ASSUME NEW n \in Nat
    PROVE  LET base == IF BaseDelay <= 0 THEN 1 ELSE BaseDelay
           IN /\ RetryDelaySeconds(n + 1) \in 1..MaxDelay
              /\ RetryDelaySeconds(n + 1)
                    = IF base * Power[n] > MaxDelay THEN MaxDelay ELSE base * Power[n]
<1> DEFINE base == IF BaseDelay <= 0 THEN 1 ELSE BaseDelay
           w == base * Power[n]
<1>1. base \in Nat \ {0} /\ MaxDelay \in Nat \ {0}
  BY SupervisorAssumption
<1>2. Power[n] \in Nat \ {0}
  <2>1. MaxDelay \in 1..MaxDelay
    BY <1>1
  <2> QED BY <2>1, DoubledIsCapped
<1>3. RetryDelaySeconds(n + 1) = IF base > MaxDelay THEN MaxDelay ELSE Doubled(base)[n]
  <2>1. (n + 1) - 1 = n
    OBVIOUS
  <2> QED BY <2>1 DEF RetryDelaySeconds
<1> HIDE DEF base
<1>4. w \in Nat \ {0} /\ w >= base
  BY <1>1, <1>2
<1>5. CASE base > MaxDelay
  <2>1. w > MaxDelay
    BY <1>1, <1>4, <1>5
  <2> QED BY <1>1, <1>3, <1>5, <2>1 DEF base
<1>6. CASE ~(base > MaxDelay)
  <2>1. base \in 1..MaxDelay
    BY <1>1, <1>6
  <2>2. Doubled(base)[n] = IF w > MaxDelay THEN MaxDelay ELSE w
    BY <2>1, DoubledIsCapped
  <2> HIDE DEF w
  <2>3. (IF w > MaxDelay THEN MaxDelay ELSE w) \in 1..MaxDelay
    BY <1>1, <1>4
  <2>4. RetryDelaySeconds(n + 1) = IF w > MaxDelay THEN MaxDelay ELSE w
    BY <1>3, <1>6, <2>2
  <2> QED BY <2>3, <2>4 DEF base, w
<1> QED BY <1>5, <1>6

(* The clipped pause does not outlast the run by more than a second. *)
LEMMA ClippedPause ==
    ASSUME TypeOK, ~Expired
    PROVE  /\ ClippedDelay \in 1..MaxDelay
           /\ stop_at > 0 => now + ClippedDelay * Second <= stop_at + Second
<1> DEFINE wanted == RetryDelaySeconds(attempt + 1)
           remaining == stop_at - now
<1>1. wanted \in 1..MaxDelay
  BY RetryDelay DEF TypeOK
<1>2. stop_at \in Nat /\ now \in Nat /\ Second \in Nat \ {0} /\ MaxDelay \in Nat \ {0}
  BY SupervisorAssumption DEF TypeOK
<1>3. stop_at > 0 => remaining \in Nat \ {0}
  BY <1>2 DEF Expired
<1>4. ClippedDelay = IF stop_at = 0 THEN wanted
                     ELSE IF remaining < Second \/ remaining \div Second = 0 THEN 1
                     ELSE IF wanted * Second > remaining THEN remaining \div Second
                     ELSE wanted
  BY DEF ClippedDelay
<1> HIDE DEF wanted
<1>5. CASE stop_at = 0
  BY <1>1, <1>4, <1>5
<1>6. CASE stop_at # 0 /\ (remaining < Second \/ remaining \div Second = 0)
  BY <1>2, <1>3, <1>4, <1>6
<1>7. CASE stop_at # 0 /\ ~(remaining < Second \/ remaining \div Second = 0)
  <2> DEFINE q == remaining \div Second
  <2>1. q \in Nat /\ q * Second <= remaining /\ remaining < (q + 1) * Second
    BY <1>2, <1>3, <1>7
  <2>2. q # 0 /\ ~(stop_at = 0)
    BY <1>7
  <2> HIDE DEF q
  <2>3. CASE wanted * Second > remaining
    <3>1. ClippedDelay = q
      BY <1>4, <1>7, <2>3 DEF q
    <3>2. q < wanted
      BY <1>1, <1>2, <2>1, <2>3
    <3>3. q \in 1..MaxDelay
      BY <1>1, <1>2, <2>1, <2>2, <3>2
    <3> QED BY <1>2, <2>1, <3>1, <3>3
  <2>4. CASE ~(wanted * Second > remaining)
    <3>1. ClippedDelay = wanted
      BY <1>4, <1>7, <2>4
    <3> QED BY <1>1, <1>2, <2>4, <3>1
  <2> QED BY <2>3, <2>4
<1> QED BY <1>2, <1>5, <1>6, <1>7

(* The pool after this one. *)
LEMMA NextPoolShifts ==
    ASSUME pool_index \in 0..(PoolCount - 1)
    PROVE  /\ NextPool \in 0..(PoolCount - 1)
           /\ donating => NextPool = pool_index
           /\ ~donating => NextPool = Shift(pool_index, 1)
<1>1. PoolCount \in Nat \ {0}
  BY SupervisorAssumption
<1>2. CASE donating \/ PoolCount = 1
  BY <1>1, <1>2 DEF NextPool, Shift
<1>3. CASE ~(donating \/ PoolCount = 1)
  <2>1. CASE pool_index + 1 < PoolCount
    <3>1. (pool_index + 1) % PoolCount = pool_index + 1
      BY <1>1, <2>1
    <3> QED BY <1>1, <1>3, <2>1, <3>1 DEF NextPool, Shift
  <2>2. CASE pool_index + 1 = PoolCount
    <3>1. (pool_index + 1) % PoolCount = 0
      BY <1>1, <2>2
    <3> QED BY <1>1, <1>3, <2>2, <3>1 DEF NextPool, Shift
  <2> QED BY <1>1, <2>1, <2>2
<1> QED BY <1>2, <1>3

-----------------------------------------------------------------------------
(* The list of failed sessions, as SessionFails extends it. *)
Extended(q, x) == IF Len(q) = PoolCount THEN Append(Tail(q), x) ELSE Append(q, x)

LEMMA ExtendedList ==
    ASSUME NEW x \in 0..(PoolCount - 1), NEW q \in Seq(0..(PoolCount - 1)), Len(q) <= PoolCount
    PROVE  /\ Extended(q, x) \in Seq(0..(PoolCount - 1))
           /\ Len(Extended(q, x)) \in 1..PoolCount
           /\ Extended(q, x)[Len(Extended(q, x))] = x
           /\ \E d \in {0, 1} :
                 /\ Len(Extended(q, x)) = Len(q) + 1 - d
                 /\ \A i \in 1..(Len(q) - d) : Extended(q, x)[i] = q[i + d]
<1>1. PoolCount \in Nat \ {0} /\ Len(q) \in Nat
  BY SupervisorAssumption
<1>2. CASE Len(q) = PoolCount
  <2>1. q # << >>
    BY <1>1, <1>2
  <2> DEFINE t == Tail(q)
  <2>2. t \in Seq(0..(PoolCount - 1)) /\ Len(t) = Len(q) - 1
    BY <2>1
  <2>3. \A i \in 1..Len(t) : t[i] = q[i + 1]
    BY <2>1
  <2> HIDE DEF t
  <2>4. Extended(q, x) = Append(t, x)
    BY <1>2 DEF Extended, t
  <2>5. Append(t, x) \in Seq(0..(PoolCount - 1)) /\ Len(Append(t, x)) = Len(t) + 1
        /\ Append(t, x)[Len(t) + 1] = x
        /\ \A i \in 1..Len(t) : Append(t, x)[i] = t[i]
    BY <2>2
  <2>6. /\ Len(Append(t, x)) = Len(q) + 1 - 1
        /\ \A i \in 1..(Len(q) - 1) : Append(t, x)[i] = q[i + 1]
    BY <1>1, <2>2, <2>3, <2>5
  <2>7. Len(Append(t, x)) \in 1..PoolCount /\ Append(t, x)[Len(Append(t, x))] = x
    BY <1>1, <1>2, <2>2, <2>5
  <2>8. Append(t, x) \in Seq(0..(PoolCount - 1))
    BY <2>5
  <2> DEFINE a == Append(t, x)
  <2> HIDE DEF a
  <2>9. \E d \in {0, 1} : Len(a) = Len(q) + 1 - d /\ \A i \in 1..(Len(q) - d) : a[i] = q[i + d]
    <3> WITNESS 1 \in {0, 1}
    <3> QED BY <2>6 DEF a
  <2> QED BY <2>4, <2>7, <2>8, <2>9 DEF a
<1>3. CASE Len(q) # PoolCount
  <2>1. Extended(q, x) = Append(q, x)
    BY <1>3 DEF Extended
  <2>2. Append(q, x) \in Seq(0..(PoolCount - 1)) /\ Len(Append(q, x)) = Len(q) + 1
        /\ Append(q, x)[Len(q) + 1] = x
        /\ \A i \in 1..Len(q) : Append(q, x)[i] = q[i]
    OBVIOUS
  <2>3. /\ Len(Append(q, x)) = Len(q) + 1 - 0
        /\ \A i \in 1..(Len(q) - 0) : Append(q, x)[i] = q[i + 0]
    BY <1>1, <2>2
  <2> QED BY <1>1, <1>3, <2>1, <2>2, <2>3
<1> QED BY <1>2, <1>3

LEMMA ShiftFurther ==
    ASSUME NEW p \in 0..(PoolCount - 1), NEW k \in 0..(PoolCount - 1)
    PROVE  Shift(Shift(p, k), 1) = Shift(p, k + 1)
BY SupervisorAssumption DEF Shift

(* A pool that is due keeps the list in order. *)
LEMMA ExtendedInOrder ==
    ASSUME TypeOK, TriedInOrder, NEW x \in 0..(PoolCount - 1),
           Len(failed) > 0 => x = Shift(failed[Len(failed)], 1)
    PROVE  LET e == Extended(failed, x)
           IN \A i, j \in 1..Len(e) : i <= j => e[j] = Shift(e[i], j - i)
<1> DEFINE e == Extended(failed, x)
           n == Len(failed)
<1>1. PoolCount \in Nat \ {0} /\ n \in 0..PoolCount /\ failed \in Seq(0..(PoolCount - 1))
  BY SupervisorAssumption DEF TypeOK
<1>2. e \in Seq(0..(PoolCount - 1)) /\ Len(e) \in 1..PoolCount /\ e[Len(e)] = x
  BY <1>1, ExtendedList
<1>3. PICK d \in {0, 1} : Len(e) = n + 1 - d /\ \A i \in 1..(n - d) : e[i] = failed[i + d]
  BY <1>1, ExtendedList
<1>4. \A i \in 1..n : failed[i] \in 0..(PoolCount - 1)
  BY <1>1
<1>5. \A i, j \in 1..n : i <= j => failed[j] = Shift(failed[i], j - i)
  BY DEF TriedInOrder
<1> HIDE DEF e, n
<1>6. SUFFICES ASSUME NEW i \in 1..Len(e), NEW j \in 1..Len(e), i <= j
               PROVE  e[j] = Shift(e[i], j - i)
  BY DEF e
<1>7. CASE i = j
  <2>1. e[i] \in 0..(PoolCount - 1)
    BY <1>2, ElementOfSeq
  <2> QED BY <1>1, <1>7, <2>1 DEF Shift
<1>8. CASE i < j /\ j < Len(e)
  <2>1. i \in 1..(n - d) /\ j \in 1..(n - d) /\ i + d \in 1..n /\ j + d \in 1..n
        /\ (j + d) - (i + d) = j - i /\ i + d <= j + d
    BY <1>1, <1>2, <1>3, <1>8
  <2>2. e[i] = failed[i + d] /\ e[j] = failed[j + d]
    BY <1>3, <2>1
  <2>3. failed[j + d] = Shift(failed[i + d], (j + d) - (i + d))
    BY <1>5, <2>1
  <2> QED BY <2>1, <2>2, <2>3
<1>9. CASE i < j /\ j = Len(e)
  <2>1. i \in 1..(n - d) /\ i + d \in 1..n /\ n \in 1..n /\ n > 0 /\ n - (i + d) + 1 = j - i
        /\ j - i < PoolCount
    BY <1>1, <1>2, <1>3, <1>9
  <2>2. e[i] = failed[i + d] /\ e[j] = x
    BY <1>2, <1>3, <1>9, <2>1
  <2>3. failed[n] = Shift(failed[i + d], n - (i + d)) /\ x = Shift(failed[n], 1)
    BY <1>5, <2>1 DEF n
  <2>4. failed[i + d] \in 0..(PoolCount - 1) /\ failed[n] \in 0..(PoolCount - 1)
    BY <1>4, <2>1
  <2>5. n - (i + d) \in 0..(PoolCount - 1)
    BY <1>1, <2>1
  <2> QED BY <2>1, <2>2, <2>3, <2>4, <2>5, ShiftFurther
<1> QED BY <1>2, <1>6, <1>7, <1>8, <1>9

-----------------------------------------------------------------------------
LEMMA Products ==
    /\ \A a, b \in Nat : a * b \in Nat
    /\ \A a, b \in Nat \ {0} : a * b \in Nat \ {0}
    /\ \A a, b, c \in Nat : b <= c => a * b <= a * c
OBVIOUS

LEMMA PhaseLengths ==
    /\ PhaseSeconds(FALSE) \in Nat \ {0} /\ PhaseSeconds(TRUE) \in Nat \ {0}
    /\ CycleMinutes - DonateLevel \in Nat \ {0} /\ DonateLevel \in Nat \ {0}
    /\ (CycleMinutes - DonateLevel) * PhaseSeconds(TRUE) = PhaseShare
    /\ PhaseShare \in Nat
<1> DEFINE A == CycleMinutes - DonateLevel
<1>1. A \in Nat \ {0} /\ DonateLevel \in Nat \ {0} /\ Minute \in Nat \ {0}
  BY SupervisorAssumption
<1>2. PhaseSeconds(FALSE) = A * Minute /\ PhaseSeconds(TRUE) = DonateLevel * Minute
  BY DEF PhaseSeconds
<1> HIDE DEF A
<1>3. A * (DonateLevel * Minute) = DonateLevel * (A * Minute)
  BY <1>1
<1>4. PhaseSeconds(FALSE) \in Nat \ {0} /\ PhaseSeconds(TRUE) \in Nat \ {0}
  BY <1>1, <1>2, Products
<1>5. PhaseShare \in Nat
  BY <1>1, <1>4, Products DEF PhaseShare
<1>6. A * PhaseSeconds(TRUE) = PhaseShare
  BY <1>2, <1>3 DEF PhaseShare
<1> QED BY <1>1, <1>4, <1>5, <1>6 DEF A

(* What a session moves on the two sides of the balance. *)
LEMMA SpendShares ==
    ASSUME TypeOK, NEW elapsed \in Nat, NEW active \in Nat, Spend(elapsed, active)
    PROVE  /\ now' = now + elapsed /\ now' \in Nat /\ user_time' \in Nat /\ donated_time' \in Nat
           /\ UserShare \in Nat /\ DonatedShare \in Nat
           /\ ~donating => UserShare' = UserShare + DonateLevel * active /\ DonatedShare' = DonatedShare
           /\ donating => UserShare' = UserShare /\ DonatedShare' = DonatedShare + (CycleMinutes - DonateLevel) * active
<1> DEFINE A == CycleMinutes - DonateLevel
<1>1. A \in Nat /\ DonateLevel \in Nat
  BY PhaseLengths
<1>2. now \in Nat /\ user_time \in Nat /\ donated_time \in Nat /\ donating \in BOOLEAN
  BY DEF TypeOK
<1>3. now' = now + elapsed /\ now' \in Nat
  BY <1>2 DEF Spend
<1>4. ~donating => user_time' = user_time + active /\ donated_time' = donated_time
  BY <1>2 DEF Spend
<1>5. donating => user_time' = user_time /\ donated_time' = donated_time + active
  BY <1>2 DEF Spend
<1>6. user_time' \in Nat /\ donated_time' \in Nat
  BY <1>2, <1>4, <1>5
<1>7. UserShare = DonateLevel * user_time /\ UserShare' = DonateLevel * user_time'
      /\ DonatedShare = A * donated_time /\ DonatedShare' = A * donated_time'
  BY DEF UserShare, DonatedShare
<1> HIDE DEF A
<1>8. UserShare \in Nat /\ DonatedShare \in Nat
  BY <1>1, <1>2, <1>7
<1>9. ~donating => UserShare' = UserShare + DonateLevel * active /\ DonatedShare' = DonatedShare
  BY <1>1, <1>2, <1>4, <1>7
<1>10. donating => UserShare' = UserShare /\ DonatedShare' = DonatedShare + A * active
  BY <1>1, <1>2, <1>5, <1>7
<1> QED BY <1>3, <1>6, <1>8, <1>9, <1>10 DEF A

-----------------------------------------------------------------------------
(* main enters its loop in the invariant. *)
LEMMA InitLoopInv == Init => LoopInv
<1> SUFFICES ASSUME Init PROVE LoopInv
  OBVIOUS
<1>1. phase_seconds \in Nat /\ (Mining => 2 * phase_seconds >= PhaseSeconds(FALSE))
  <2> DEFINE u == PhaseSeconds(FALSE)
  <2>1. u \in Nat
    BY PhaseLengths
  <2>2. CASE Mining
    <3>1. phase_seconds \in {p \in 1..(2 * u) : 2 * p >= u /\ 2 * p < 3 * u}
      BY <2>2 DEF Init, InitialUserSeconds
    <3> HIDE DEF u
    <3>2. phase_seconds \in Nat /\ 2 * phase_seconds >= u
      BY <2>1, <3>1
    <3> QED BY <3>2 DEF u
  <2>3. CASE ~Mining
    <3>1. phase_seconds = 0
      BY <2>3 DEF Init
    <3> QED BY <2>3, <3>1
  <2> QED BY <2>2, <2>3
<1>2. PoolCount \in Nat \ {0} /\ 0 \in 0..(PoolCount - 1) /\ 0 \in 0..MaxDelay
  BY SupervisorAssumption
<1>3. failed = << >> /\ failed \in Seq(0..(PoolCount - 1)) /\ Len(failed) = 0
  BY DEF Init
<1>0. /\ retries \in RetryLimits /\ stop_at \in RunLimits /\ loop = "top"
      /\ pool_index = 0 /\ donating = FALSE /\ attempt = 0 /\ last_rc = 0 /\ delay = 0
      /\ now = 0 /\ user_time = 0 /\ donated_time = 0
  BY DEF Init
<1>4. TypeOK
  <2>1. loop \in {"top", "session", "after", "sleep", "ended"} /\ (loop = "sleep" => delay >= 1)
    BY <1>0
  <2>2. donating \in BOOLEAN
    BY <1>0
  <2>3. 0 \in Nat /\ 0 \in 0..2 /\ Len(failed) <= PoolCount
    BY <1>2, <1>3
  <2> QED BY <1>0, <1>1, <1>2, <1>3, <2>1, <2>2, <2>3, Zenon DEF TypeOK
<1>5. TriedInOrder /\ NextIsDue
  BY <1>3 DEF TriedInOrder, NextIsDue
<1>9. PauseInTime /\ DonationPhase
  BY <1>0 DEF PauseInTime, DonationPhase
<1>6. DonatedShare = 0 /\ UserShare = 0
  BY PhaseLengths DEF Init, DonatedShare, UserShare
<1>7. ShareKept /\ DonationPaid
  BY <1>6, PhaseLengths DEF ShareKept, DonationPaid, Init
<1>8. UserPhasePays
  <2>1. Mining => PhaseShare <= 2 * (DonateLevel * phase_seconds)
    <3>1. ASSUME Mining PROVE PhaseShare <= DonateLevel * (2 * phase_seconds)
      BY <1>1, <3>1, PhaseLengths, Products DEF PhaseShare
    <3>2. DonateLevel * (2 * phase_seconds) = 2 * (DonateLevel * phase_seconds)
      BY <1>1, PhaseLengths
    <3> QED BY <3>1, <3>2
  <2>2. DonateLevel * phase_seconds \in Nat
    BY <1>1, PhaseLengths, Products
  <2> QED BY <1>6, <2>1, <2>2, PhaseLengths DEF UserPhasePays
<1> QED BY <1>4, <1>5, <1>7, <1>8, <1>9 DEF LoopInv

LEMMA LoopTopStep == ASSUME LoopInv, LoopTop, UNCHANGED limits PROVE LoopInv'
<1> USE DEF LoopInv
<1>1. /\ loop = "top" /\ loop' \in {"ended", "session"}
      /\ UNCHANGED <<retries, stop_at, pool_index, donating, phase_seconds, attempt, last_rc, delay>>
      /\ UNCHANGED <<now, user_time, donated_time, failed>>
  BY DEF LoopTop, limits, clocks
<1>2. TypeOK'
  BY <1>1 DEF TypeOK
<1>3. TriedInOrder' /\ NextIsDue' /\ PauseInTime'
  BY <1>1 DEF TriedInOrder, NextIsDue, PauseInTime
<1>4. ShareKept' /\ DonationPhase' /\ UserPhasePays' /\ DonationPaid'
  BY <1>1 DEF ShareKept, DonationPhase, UserPhasePays, DonationPaid, Expired,
              DonatedShare, UserShare, PhaseShare, PhaseSeconds
<1> QED BY <1>2, <1>3, <1>4

LEMMA StopAfterSessionStep == ASSUME LoopInv, StopAfterSession, UNCHANGED limits PROVE LoopInv'
<1> USE DEF LoopInv
<1>1. /\ loop = "after" /\ loop' = "ended"
      /\ UNCHANGED <<retries, stop_at, pool_index, donating, phase_seconds, attempt, last_rc, delay>>
      /\ UNCHANGED <<now, user_time, donated_time, failed>>
  BY DEF StopAfterSession, limits, clocks
<1>2. TypeOK'
  BY <1>1 DEF TypeOK
<1>3. TriedInOrder' /\ NextIsDue' /\ PauseInTime'
  BY <1>1 DEF TriedInOrder, NextIsDue, PauseInTime
<1>4. ShareKept' /\ DonationPhase' /\ UserPhasePays' /\ DonationPaid'
  BY <1>1 DEF ShareKept, DonationPhase, UserPhasePays, DonationPaid, Expired,
              DonatedShare, UserShare, PhaseShare, PhaseSeconds
<1> QED BY <1>2, <1>3, <1>4

LEMMA WakeStep == ASSUME LoopInv, Wake, UNCHANGED limits PROVE LoopInv'
<1> USE DEF LoopInv
<1>1. /\ loop = "sleep" /\ loop' = "top" /\ now' = now + delay * Second /\ attempt' = attempt + 1
      /\ UNCHANGED <<retries, stop_at, pool_index, donating, phase_seconds, last_rc, delay>>
      /\ UNCHANGED <<user_time, donated_time, failed>>
  BY DEF Wake, limits
<1>2. now' \in Nat /\ attempt' \in Nat
  <2>1. delay \in Nat /\ Second \in Nat /\ now \in Nat /\ attempt \in Nat
    BY SupervisorAssumption DEF TypeOK
  <2>2. delay * Second \in Nat
    BY <2>1, Products
  <2> QED BY <1>1, <2>1, <2>2
<1>3. TypeOK'
  BY <1>1, <1>2 DEF TypeOK
<1>4. TriedInOrder' /\ NextIsDue' /\ PauseInTime'
  BY <1>1 DEF TriedInOrder, NextIsDue, PauseInTime
<1>5. ShareKept' /\ DonationPhase' /\ UserPhasePays' /\ DonationPaid'
  BY <1>1 DEF ShareKept, DonationPhase, UserPhasePays, DonationPaid,
              DonatedShare, UserShare, PhaseShare, PhaseSeconds
<1> QED BY <1>3, <1>4, <1>5

LEMMA SwitchPhaseStep == ASSUME LoopInv, SwitchPhase, UNCHANGED limits PROVE LoopInv'
<1> USE DEF LoopInv
<1>1. /\ loop = "after" /\ loop' = "top" /\ ~Expired /\ Mining /\ last_rc = 0
      /\ donating' = ~donating /\ phase_seconds' = PhaseSeconds(~donating) /\ attempt' = 0
      /\ UNCHANGED <<retries, stop_at, pool_index, last_rc, delay, now, user_time, donated_time, failed>>
  BY DEF SwitchPhase, limits, clocks
<1>2. donating \in BOOLEAN /\ donating' \in BOOLEAN /\ Mining \in BOOLEAN
  BY <1>1, SupervisorAssumption DEF TypeOK
<1>3. phase_seconds' \in Nat /\ (donating' => phase_seconds' = PhaseSeconds(TRUE))
      /\ (~donating' => phase_seconds' = PhaseSeconds(FALSE))
  BY <1>1, <1>2, PhaseLengths
<1>4. TypeOK'
  BY <1>1, <1>2, <1>3 DEF TypeOK
<1>5. failed = << >>
  <2>1. ~(Len(failed) > 0)
    BY <1>1 DEF NextIsDue
  <2>2. failed \in Seq(0..(PoolCount - 1))
    BY DEF TypeOK
  <2> QED BY <2>1, <2>2
<1>6. TriedInOrder' /\ NextIsDue' /\ PauseInTime'
  BY <1>1, <1>5 DEF TriedInOrder, NextIsDue, PauseInTime
<1>7. UNCHANGED <<DonatedShare, UserShare>> /\ PhaseShare' = PhaseShare
  BY <1>1 DEF DonatedShare, UserShare, PhaseShare, PhaseSeconds
<1>8. ShareKept'
  BY <1>7 DEF ShareKept
<1>9. DonationPhase'
  BY <1>1, <1>3 DEF DonationPhase, PhaseSeconds
<1>10. DonationPaid'
  BY <1>1, <1>2, <1>7 DEF DonationPaid
<1>11. UserPhasePays'
  <2>1. ~donating' => 2 * (DonateLevel * phase_seconds)' = 2 * PhaseShare
    BY <1>3 DEF PhaseShare
  <2>2. DonatedShare \in Nat /\ UserShare \in Nat /\ PhaseShare \in Nat
    BY PhaseLengths, Products DEF TypeOK, DonatedShare, UserShare
  <2> QED BY <1>7, <2>1, <2>2 DEF UserPhasePays, ShareKept
<1> QED BY <1>4, <1>6, <1>8, <1>9, <1>10, <1>11

LEMMA RetryStep == ASSUME LoopInv, Retry, UNCHANGED limits PROVE LoopInv'
<1> USE DEF LoopInv
<1>1. /\ loop = "after" /\ ~Expired /\ ~(Mining /\ last_rc = 0)
      /\ donating' = FALSE /\ pool_index' = NextPool
      /\ phase_seconds' = (IF donating THEN PhaseSeconds(FALSE) ELSE phase_seconds)
      /\ UNCHANGED <<retries, stop_at, attempt, last_rc, now, user_time, donated_time, failed>>
  BY DEF Retry, limits, clocks
<1>2. \/ loop' = "ended" /\ delay' = delay
      \/ loop' = "sleep" /\ delay' = ClippedDelay
  BY DEF Retry
<1>3. ClippedDelay \in 1..MaxDelay
      /\ (stop_at > 0 => now + ClippedDelay * Second <= stop_at + Second)
  BY <1>1, ClippedPause
<1>4. donating \in BOOLEAN /\ phase_seconds \in Nat
  BY DEF TypeOK
<1>5. /\ donating => phase_seconds' = PhaseSeconds(FALSE)
      /\ ~donating => phase_seconds' = phase_seconds
      /\ phase_seconds' \in Nat
  BY <1>1, <1>4, PhaseLengths
<1>6. pool_index' \in 0..(PoolCount - 1)
  BY <1>1, NextPoolShifts DEF TypeOK
<1>7. /\ loop' \in {"top", "session", "after", "sleep", "ended"} /\ donating' \in BOOLEAN
      /\ delay' \in 0..MaxDelay /\ (loop' = "sleep" => delay' >= 1)
  <2>1. MaxDelay \in Nat /\ delay \in 0..MaxDelay
    BY SupervisorAssumption DEF TypeOK
  <2>2. CASE loop' = "ended" /\ delay' = delay
    BY <1>1, <2>1, <2>2
  <2>3. CASE loop' = "sleep" /\ delay' = ClippedDelay
    <3>1. delay' \in 1..MaxDelay
      BY <1>3, <2>3
    <3>2. delay' \in 0..MaxDelay /\ delay' >= 1
      BY <2>1, <3>1
    <3> QED BY <1>1, <2>3, <3>2
  <2> QED BY <1>2, <2>2, <2>3
<1>8. TypeOK'
  BY <1>1, <1>5, <1>6, <1>7 DEF TypeOK
<1>9. TriedInOrder'
  BY <1>1 DEF TriedInOrder, Shift
<1>10. NextIsDue'
  <2> SUFFICES ASSUME Len(failed) > 0 PROVE pool_index' = Shift(failed[Len(failed)], 1)
    BY <1>1, <1>2 DEF NextIsDue, Shift
  <2>1. CASE donating
    BY <1>1, <2>1, NextPoolShifts DEF NextIsDue, TypeOK
  <2>2. CASE ~donating
    BY <1>1, <2>2, NextPoolShifts DEF NextIsDue, TypeOK
  <2> QED BY <2>1, <2>2
<1>11. PauseInTime'
  BY <1>1, <1>2, <1>3 DEF PauseInTime
<1>12. UNCHANGED <<DonatedShare, UserShare>> /\ PhaseShare' = PhaseShare
  BY <1>1 DEF DonatedShare, UserShare, PhaseShare, PhaseSeconds
<1>13. ShareKept'
  BY <1>12 DEF ShareKept
<1>14. DonationPhase' /\ DonationPaid'
  BY <1>1, <1>2 DEF DonationPhase, DonationPaid
<1>15. UserPhasePays'
  <2> SUFFICES ASSUME Mining
               PROVE  2 * DonatedShare + PhaseShare
                        <= 2 * UserShare + 2 * (DonateLevel * phase_seconds')
    BY <1>12 DEF UserPhasePays
  <2>1. CASE donating
    <3>1. DonateLevel * phase_seconds' = PhaseShare
      BY <1>5, <2>1 DEF PhaseShare
    <3>2. DonatedShare \in Nat /\ UserShare \in Nat /\ PhaseShare \in Nat
      BY PhaseLengths, Products DEF TypeOK, DonatedShare, UserShare
    <3> QED BY <3>1, <3>2 DEF ShareKept
  <2>2. CASE ~donating
    BY <1>1, <1>5, <2>2 DEF UserPhasePays
  <2> QED BY <2>1, <2>2
<1> QED BY <1>8, <1>9, <1>10, <1>11, <1>13, <1>14, <1>15

(* What a session's end leaves alone. *)
LEMMA ReturnStep ==
    ASSUME LoopInv, UNCHANGED limits, NEW rc \in 0..2, Return(rc)
    PROVE  /\ loop = "session" /\ loop' = "after" /\ last_rc' = rc
           /\ UNCHANGED <<retries, stop_at, pool_index, donating, phase_seconds, attempt, delay>>
           /\ PauseInTime' /\ DonationPhase' /\ PhaseShare' = PhaseShare
           /\ (/\ now' \in Nat /\ user_time' \in Nat /\ donated_time' \in Nat
               /\ failed' \in Seq(0..(PoolCount - 1)) /\ Len(failed') <= PoolCount) => TypeOK'
<1> USE DEF LoopInv
<1>1. /\ loop = "session" /\ loop' = "after" /\ last_rc' = rc
      /\ UNCHANGED <<retries, stop_at, pool_index, donating, phase_seconds, attempt, delay>>
  BY DEF Return, limits
<1>2. PauseInTime' /\ DonationPhase' /\ PhaseShare' = PhaseShare
  BY <1>1 DEF PauseInTime, DonationPhase, PhaseShare, PhaseSeconds
<1>3. ASSUME now' \in Nat, user_time' \in Nat, donated_time' \in Nat,
             failed' \in Seq(0..(PoolCount - 1)), Len(failed') <= PoolCount
      PROVE  TypeOK'
  BY <1>1, <1>3 DEF TypeOK
<1> QED BY <1>1, <1>2, <1>3

(* The balance after a session of a user or of a donation. *)
LEMMA SessionShares ==
    ASSUME LoopInv, UNCHANGED limits, NEW rc \in 0..2, Return(rc),
           NEW elapsed \in Nat, NEW active \in Nat, Spend(elapsed, active),
           donating => active <= phase_seconds
    PROVE  /\ ShareKept' /\ UserPhasePays'
           /\ (Mining /\ ~donating /\ active = phase_seconds)
                 => 2 * DonatedShare' + PhaseShare <= 2 * UserShare'
<1> USE DEF LoopInv
<1> DEFINE A == CycleMinutes - DonateLevel
<1>1. /\ loop = "session" /\ loop' = "after" /\ donating' = donating
      /\ phase_seconds' = phase_seconds /\ PhaseShare' = PhaseShare
  BY ReturnStep
<1>2. /\ UserShare \in Nat /\ DonatedShare \in Nat
      /\ ~donating => UserShare' = UserShare + DonateLevel * active /\ DonatedShare' = DonatedShare
      /\ donating => UserShare' = UserShare /\ DonatedShare' = DonatedShare + A * active
  BY SpendShares
<1>3. A \in Nat /\ DonateLevel \in Nat /\ PhaseShare \in Nat /\ A * PhaseSeconds(TRUE) = PhaseShare
  BY PhaseLengths
<1>4. phase_seconds \in Nat /\ donating \in BOOLEAN
  BY DEF TypeOK
<1> HIDE DEF A
<1>5. A * active \in Nat /\ DonateLevel * active \in Nat /\ DonateLevel * phase_seconds \in Nat
  BY <1>3, <1>4, Products
<1>6. CASE donating
  <2>1. phase_seconds = PhaseSeconds(TRUE)
    BY <1>6 DEF DonationPhase
  <2>2. A * active <= PhaseShare
    BY <1>3, <1>4, <1>6, <2>1, Products
  <2>3. 2 * DonatedShare + PhaseShare <= 2 * UserShare
    BY <1>1, <1>6 DEF DonationPaid
  <2>4. ShareKept'
    BY <1>1, <1>2, <1>3, <1>5, <1>6, <2>2, <2>3 DEF ShareKept
  <2>5. UserPhasePays'
    BY <1>1, <1>6 DEF UserPhasePays
  <2> QED BY <1>6, <2>4, <2>5
<1>7. CASE ~donating
  <2>1. ShareKept'
    BY <1>1, <1>2, <1>3, <1>5, <1>7 DEF ShareKept
  <2>2. Mining => 2 * DonatedShare + PhaseShare <= 2 * UserShare + 2 * (DonateLevel * phase_seconds)
    BY <1>1, <1>7 DEF UserPhasePays
  <2>3. UserPhasePays'
    BY <1>1, <1>2, <1>3, <1>5, <1>7, <2>2 DEF UserPhasePays
  <2>4. ASSUME Mining, active = phase_seconds PROVE 2 * DonatedShare' + PhaseShare <= 2 * UserShare'
    BY <1>2, <1>3, <1>5, <1>7, <2>2, <2>4
  <2> QED BY <2>1, <2>3, <2>4
<1> QED BY <1>4, <1>6, <1>7

LEMMA SessionCompleteStep == ASSUME LoopInv, SessionComplete, UNCHANGED limits PROVE LoopInv'
<1> USE DEF LoopInv
<1>1. Return(0) /\ failed' = << >> /\ 0 \in 0..2
  BY DEF SessionComplete
<1>2. now \in Nat /\ stop_at \in Nat /\ phase_seconds \in Nat
  BY SupervisorAssumption DEF TypeOK
<1>3. PICK idle \in 0..1 : /\ stop_at > 0 => now + idle + phase_seconds < stop_at
                           /\ Spend(idle + phase_seconds, phase_seconds)
  BY DEF SessionComplete
<1>4. idle + phase_seconds \in Nat
  BY <1>2
<1>5. now' \in Nat /\ user_time' \in Nat /\ donated_time' \in Nat
  BY <1>2, <1>3, <1>4, SpendShares
<1>6. failed' \in Seq(0..(PoolCount - 1)) /\ Len(failed') = 0 /\ Len(failed') <= PoolCount
  BY <1>1, SupervisorAssumption
<1>7. TypeOK' /\ PauseInTime' /\ DonationPhase' /\ loop' = "after" /\ donating' = donating
      /\ PhaseShare' = PhaseShare
  BY <1>1, <1>5, <1>6, ReturnStep
<1>8. TriedInOrder' /\ NextIsDue'
  BY <1>6 DEF TriedInOrder, NextIsDue
<1>9. /\ ShareKept' /\ UserPhasePays'
      /\ (Mining /\ ~donating) => 2 * DonatedShare' + PhaseShare <= 2 * UserShare'
  <2>1. donating => phase_seconds <= phase_seconds
    BY <1>2
  <2> QED BY <1>1, <1>2, <1>3, <1>4, <2>1, SessionShares
<1>10. DonationPaid'
  BY <1>7, <1>9 DEF DonationPaid
<1> QED BY <1>7, <1>8, <1>9, <1>10

LEMMA SessionStoppedStep == ASSUME LoopInv, SessionStopped, UNCHANGED limits PROVE LoopInv'
<1> USE DEF LoopInv
<1>1. Return(0) /\ failed' = << >> /\ stop_at > now /\ 0 \in 0..2
  BY DEF SessionStopped
<1>2. now \in Nat /\ stop_at \in Nat /\ phase_seconds \in Nat
  BY SupervisorAssumption DEF TypeOK
<1>3. PICK active \in 0..(stop_at - now) : /\ phase_seconds > 0 => active <= phase_seconds
                                           /\ Spend(stop_at - now, active)
  BY DEF SessionStopped
<1>4. stop_at - now \in Nat /\ active \in Nat
  BY <1>1, <1>2
<1>5. now' = now + (stop_at - now) /\ now' \in Nat /\ user_time' \in Nat /\ donated_time' \in Nat
  BY <1>3, <1>4, SpendShares
<1>6. failed' \in Seq(0..(PoolCount - 1)) /\ Len(failed') = 0 /\ Len(failed') <= PoolCount
  BY <1>1, SupervisorAssumption
<1>7. TypeOK' /\ PauseInTime' /\ DonationPhase' /\ loop' = "after" /\ donating' = donating
      /\ stop_at' = stop_at
  BY <1>1, <1>5, <1>6, ReturnStep
<1>8. TriedInOrder' /\ NextIsDue'
  BY <1>6 DEF TriedInOrder, NextIsDue
<1>9. ShareKept' /\ UserPhasePays'
  <2>1. ASSUME donating PROVE active <= phase_seconds
    <3>1. phase_seconds = PhaseSeconds(TRUE)
      BY <2>1 DEF DonationPhase
    <3>2. phase_seconds \in Nat \ {0}
      BY <3>1, PhaseLengths, Zenon
    <3>3. phase_seconds > 0
      BY <3>2
    <3> QED BY <1>3, <3>3
  <2> QED BY <1>1, <1>3, <1>4, <2>1, SessionShares
<1>10. DonationPaid'
  <2>1. Expired'
    BY <1>1, <1>2, <1>5, <1>7 DEF Expired
  <2> QED BY <1>7, <2>1 DEF DonationPaid
<1> QED BY <1>7, <1>8, <1>9, <1>10

LEMMA SessionFailsStep == ASSUME LoopInv, SessionFails, UNCHANGED limits PROVE LoopInv'
<1> USE DEF LoopInv
<1> DEFINE rc == IF pool_index \in BadPools THEN 2 ELSE 1
<1>1. Return(rc) /\ rc \in 0..2 /\ rc # 0
  BY DEF SessionFails
<1>2. now \in Nat /\ stop_at \in Nat /\ phase_seconds \in Nat /\ MaxTime \in Nat
      /\ pool_index \in 0..(PoolCount - 1) /\ donating \in BOOLEAN
      /\ failed \in Seq(0..(PoolCount - 1)) /\ Len(failed) <= PoolCount
  BY SupervisorAssumption DEF TypeOK
<1>3. PICK elapsed \in Nat, active \in Nat :
            Spend(elapsed, active) /\ (phase_seconds > 0 => active <= phase_seconds)
  <2>1. CASE pool_index \in BadPools
    <3>1. Spend(0, 0)
      BY <2>1 DEF SessionFails
    <3>2. phase_seconds > 0 => 0 <= phase_seconds
      BY <1>2
    <3> QED BY <3>1, <3>2
  <2>2. CASE pool_index \notin BadPools
    <3>1. PICK elapsed \in 0..(MaxTime - now) : \E active \in 0..elapsed :
                /\ phase_seconds > 0 => active < phase_seconds
                /\ Spend(elapsed, active)
      BY <2>2 DEF SessionFails
    <3>2. PICK active \in 0..elapsed : /\ phase_seconds > 0 => active < phase_seconds
                                       /\ Spend(elapsed, active)
      BY <3>1
    <3>3. elapsed \in Nat /\ active \in Nat /\ (phase_seconds > 0 => active <= phase_seconds)
      BY <1>2, <3>2
    <3> QED BY <3>2, <3>3
  <2> QED BY <2>1, <2>2
<1> HIDE DEF rc
<1>4. now' \in Nat /\ user_time' \in Nat /\ donated_time' \in Nat
  BY <1>3, SpendShares
<1>5. /\ donating => failed' = failed
      /\ ~donating => failed' = Extended(failed, pool_index)
  BY DEF SessionFails, Extended
<1>6. failed' \in Seq(0..(PoolCount - 1)) /\ Len(failed') <= PoolCount
      /\ (~donating => Len(failed') > 0 /\ failed'[Len(failed')] = pool_index)
  BY <1>2, <1>5, ExtendedList, SupervisorAssumption
<1>7. /\ TypeOK' /\ PauseInTime' /\ DonationPhase' /\ donating' = donating /\ pool_index' = pool_index
      /\ loop = "session" /\ loop' = "after" /\ last_rc' # 0
  BY <1>1, <1>4, <1>6, ReturnStep
<1>8. Len(failed) > 0 => pool_index = Shift(failed[Len(failed)], 1)
  BY <1>7 DEF NextIsDue
<1>9. TriedInOrder'
  <2>1. CASE donating
    BY <1>5, <2>1 DEF TriedInOrder, Shift
  <2>2. CASE ~donating
    <3> DEFINE e == Extended(failed, pool_index)
    <3>1. \A i, j \in 1..Len(e) : i <= j => e[j] = Shift(e[i], j - i)
      BY <1>2, <1>8, ExtendedInOrder
    <3>2. failed' = e
      BY <1>5, <2>2
    <3> HIDE DEF e
    <3> QED BY <3>1, <3>2 DEF TriedInOrder, Shift
  <2> QED BY <2>1, <2>2
<1>10. NextIsDue'
  <2>1. CASE donating
    BY <1>5, <1>7, <1>8, <2>1 DEF NextIsDue, Shift
  <2>2. CASE ~donating
    BY <1>6, <1>7, <2>2 DEF NextIsDue
  <2> QED BY <2>1, <2>2
<1>11. ShareKept' /\ UserPhasePays'
  <2>1. ASSUME donating PROVE active <= phase_seconds
    <3>1. phase_seconds = PhaseSeconds(TRUE)
      BY <2>1 DEF DonationPhase
    <3>2. phase_seconds \in Nat \ {0}
      BY <3>1, PhaseLengths, Zenon
    <3>3. phase_seconds > 0
      BY <3>2
    <3> QED BY <1>3, <3>3
  <2> QED BY <1>1, <1>3, <2>1, SessionShares
<1>12. DonationPaid'
  BY <1>7 DEF DonationPaid
<1> QED BY <1>7, <1>9, <1>10, <1>11, <1>12

-----------------------------------------------------------------------------
(* Every step of the loop keeps the invariant. *)
LEMMA NextLoopInv == LoopInv /\ [Next]_vars => LoopInv'
<1> SUFFICES ASSUME LoopInv, [Next]_vars PROVE LoopInv'
  OBVIOUS
<1>1. CASE Main
  <2>1. UNCHANGED limits /\ (LoopTop \/ SwitchPhase \/ Retry \/ StopAfterSession \/ Wake)
    BY <1>1 DEF Main
  <2> QED BY <2>1, LoopTopStep, SwitchPhaseStep, RetryStep, StopAfterSessionStep, WakeStep
<1>2. CASE Session
  <2>1. UNCHANGED limits /\ (SessionComplete \/ SessionStopped \/ SessionFails)
    BY <1>2 DEF Session
  <2> QED BY <2>1, SessionCompleteStep, SessionStoppedStep, SessionFailsStep
<1>3. CASE UNCHANGED vars
  <2>1. /\ UNCHANGED <<retries, stop_at, loop, pool_index, donating, phase_seconds, attempt>>
        /\ UNCHANGED <<last_rc, delay, now, user_time, donated_time, failed>>
    BY <1>3 DEF vars, limits, clocks
  <2> USE DEF LoopInv
  <2>2. TypeOK'
    BY <2>1 DEF TypeOK
  <2>3. TriedInOrder' /\ NextIsDue' /\ PauseInTime'
    BY <2>1 DEF TriedInOrder, NextIsDue, PauseInTime, Shift
  <2>4. ShareKept' /\ DonationPhase' /\ UserPhasePays' /\ DonationPaid'
    BY <2>1 DEF ShareKept, DonationPhase, UserPhasePays, DonationPaid, Expired,
                DonatedShare, UserShare, PhaseShare, PhaseSeconds
  <2> QED BY <2>2, <2>3, <2>4
<1> QED BY <1>1, <1>2, <1>3 DEF Next, Idle

(* The invariant holds of every state main reaches. *)
THEOREM LoopInvariant == Spec => []LoopInv
BY InitLoopInv, NextLoopInv, PTL DEF Spec

(* main's variables keep their types, PoolCount user sessions that fail in *)
(* a row are with PoolCount different pools, and the pause that follows is *)
(* the bounded exponential backoff, for every list of pools and every      *)
(* setting of the pauses.                                                  *)
THEOREM LoopIsSound == Spec => []LoopSound
<1>1. ASSUME LoopInv PROVE EveryPoolTried
  <2> SUFFICES ASSUME NEW i \in 1..Len(failed), NEW j \in 1..Len(failed), i < j
               PROVE  failed[i] # failed[j]
    <3>1. Len(failed) \in Nat
      BY <1>1 DEF LoopInv, TypeOK
    <3> QED BY <3>1 DEF EveryPoolTried
  <2>1. failed[j] = Shift(failed[i], j - i)
    BY <1>1 DEF LoopInv, TriedInOrder
  <2>2. failed \in Seq(0..(PoolCount - 1)) /\ Len(failed) <= PoolCount /\ PoolCount \in Nat
    BY <1>1, SupervisorAssumption DEF LoopInv, TypeOK
  <2>3. failed[i] \in 0..(PoolCount - 1)
    BY <2>2, ElementOfSeq
  <2>4. j - i \in 1..(PoolCount - 1)
    BY <2>2
  <2> QED BY <2>1, <2>2, <2>3, <2>4 DEF Shift
<1>2. ASSUME LoopInv PROVE BackoffIsExponential
  BY <1>2, RetryDelay DEF LoopInv, TypeOK, BackoffIsExponential
<1>3. LoopInv => LoopSound
  BY <1>1, <1>2 DEF LoopSound, LoopInv
<1> QED BY <1>3, LoopInvariant, PTL

(* Whatever fails and whenever it is retried, the time donated keeps to    *)
(* the donation level, for every level and every length of a cycle.        *)
THEOREM DonationKeepsShare == Spec => []DonationShare
<1>1. ASSUME LoopInv PROVE DonationShare
  <2> DEFINE A == CycleMinutes - DonateLevel
             U == PhaseSeconds(FALSE)
  <2>1. A \in Nat /\ DonateLevel \in Nat /\ U \in Nat /\ user_time \in Nat /\ donated_time \in Nat
    BY <1>1, PhaseLengths DEF LoopInv, TypeOK
  <2>2. 2 * (A * donated_time) <= 2 * (DonateLevel * user_time) + DonateLevel * U
    BY <1>1 DEF LoopInv, ShareKept, DonatedShare, UserShare, PhaseShare
  <2> HIDE DEF A, U
  <2>3. 2 * donated_time * A = 2 * (A * donated_time)
    BY <2>1
  <2>4. DonateLevel * (2 * user_time + U) = 2 * (DonateLevel * user_time) + DonateLevel * U
    BY <2>1
  <2> QED BY <2>2, <2>3, <2>4 DEF DonationShare, A, U
<1> QED BY <1>1, LoopInvariant, PTL

(* A pause of main carries the run at most a second past its end. *)
THEOREM PausesEndInTime == Spec => NoOversleep
<1>1. ASSUME LoopInv, [Next]_vars
      PROVE  [(loop = "sleep" /\ stop_at > 0) => now' <= stop_at + Second]_vars
  <2> SUFFICES ASSUME loop = "sleep", stop_at > 0, ~UNCHANGED vars PROVE now' <= stop_at + Second
    OBVIOUS
  <2>1. Wake
    BY <1>1 DEF Next, Main, Session, Idle, LoopTop, SwitchPhase, Retry, StopAfterSession,
                SessionComplete, SessionStopped, SessionFails, Return
  <2> QED BY <1>1, <2>1 DEF Wake, LoopInv, PauseInTime
<1> QED BY <1>1, LoopInvariant, PTL DEF Spec, NoOversleep

-----------------------------------------------------------------------------
(* The autotuner's invariant.                                              *)

Probes(stage, T) ==
    [on : Int, stage : {stage}, todo : Seq(T), base : Settings, best : Settings, rate : Nat, seen : Nat]

(* The candidates of a probe are settings, then batch sizes. *)
ProbeTyped ==
    /\ machine \in Machine
    /\ probe.stage \in {"kernel", "batch"}
    /\ probe.stage = "kernel" => probe \in Probes("kernel", Settings)
    /\ probe.stage = "batch" => probe \in Probes("batch", Nat)

(* A GPU is probed at "probe" only, and it is one that was resolved. *)
ProbePlace == IF at = "probe" THEN probe.on \in 0..Len(gpus) ELSE probe = NoProbe

Measuring == {"cpu", "resolve", "probe", "opencl", "cuda", "select"}

(* The modes a configuration allows. *)
ModesOf(c) ==
    {m \in Modes :
        /\ m.threads <= c.threads /\ (m.threads > 0 \/ HasGpu(m))
        /\ m.opencl.on => c.opencl.on
        /\ m.cuda.on => c.cuda.on
        /\ ~m.opencl.on => m.opencl.devices = <<>>}

ResultsOf(c) == [mode : ModesOf(c), rate : Nat]

(* While it measures, the configuration is the one it began with, and what *)
(* it has measured and has still to measure are modes this one allows.     *)
Measurements ==
    at \in Measuring =>
        /\ cfg = before /\ (~cfg.cpu => cfg.threads = 0)
        /\ plan \in Seq(ModesOf(cfg)) /\ results \in Seq(ResultsOf(cfg))
        /\ at = "resolve" => cfg.opencl.on
        /\ at = "probe" => IF probe.on = 0 THEN cfg.cuda.on ELSE cfg.opencl.on

(* A process that has not started holds nothing. *)
OffIsEmpty == at = "off" => results = <<>>

(* A configuration the tuner leaves behind: what it uses it has measured. *)
Settled(c) ==
    /\ c.cpu <=> c.threads > 0
    /\ c.cpu => c.cpu_done
    /\ (c.opencl.on \/ c.cuda.on) => c.gpu_done
    /\ ~c.opencl.on => c.opencl.devices = <<>>

Saving == at \in {"save", "merge", "write"} => Settled(cfg)

(* What is being written is the configuration, with the pools of the file. *)
Writing ==
    at \in {"merge", "write"} =>
        /\ written.state = "good" /\ written.cfg = [cfg EXCEPT !.pools = written.cfg.pools]
        /\ ~spoiled => written.cfg.pools = user_pools
        /\ at = "write" => file.state = "torn"

(* A file that says, under one of the names, that GPUs have been tuned. *)
SaysTuned(f) == f.state = "good" /\ Over(f.cfg.gpu_done, f.alias.gpu_done)

(* Whatever says so, a GPU has hashed. *)
FlagsVouched == (cfg.gpu_done \/ SaysTuned(file) \/ SaysTuned(written)) => measured # {}

(* A file that never was complete holds no pools of the user's. *)
NoPools == (file.state # "good" /\ ~spoiled /\ at # "write") => user_pools = "default"

(* The file of a complete save. *)
KeptFile ==
    kept # <<>> =>
        /\ Len(kept) = 1 /\ Settled(kept[1])
        /\ file.state = "good" /\ file.cfg = [kept[1] EXCEPT !.pools = file.cfg.pools]

TunerInv ==
    /\ TunerTypeOK /\ ProbeTyped /\ ProbePlace /\ Measurements /\ TunedNearBest /\ OffIsEmpty
    /\ NothingSwitchedOn /\ Saving /\ Writing /\ FlagsVouched /\ StartsSound /\ NoPools /\ KeptFile

-----------------------------------------------------------------------------
(* The loops of the autotuner.                                             *)

(* What holds before the loop and is kept by each turn holds throughout. *)
LEMMA LoopInduction ==
    ASSUME NEW n \in Nat, NEW T \in SUBSET (0..n), 0 \in T,
           \A i \in 1..n : i - 1 \in T => i \in T
    PROVE  T = 0..n
<1> DEFINE S == {i \in Nat : i <= n => i \in T}
<1>1. 0 \in S
  OBVIOUS
<1>2. ASSUME NEW i \in S PROVE i + 1 \in S
  <2>1. i \in Nat /\ (i <= n => i \in T)
    OBVIOUS
  <2>2. ASSUME i + 1 <= n PROVE i + 1 \in T
    <3>1. i + 1 \in 1..n /\ (i + 1) - 1 = i /\ i <= n
      BY <2>1, <2>2
    <3> QED BY <2>1, <3>1
  <2> QED BY <2>1, <2>2
<1>3. S = Nat
  <2> HIDE DEF S
  <2>1. S \in SUBSET Nat
    BY DEF S
  <2> QED BY <1>1, <1>2, <2>1, Induction
<1>4. ASSUME NEW i \in 0..n PROVE i \in T
  <2>1. i \in S
    BY <1>3
  <2> QED BY <2>1
<1> HIDE DEF S
<1> QED BY <1>4

(* h is a run of a loop of n turns: turn i takes its value to g[i, value]. *)
Runs(h, n, V, x0, g) ==
    /\ h \in [0..n -> V] /\ h[0] = x0
    /\ \A i \in 1..n : h[i] = g[<<i, h[i - 1]>>]

(* A loop whose turns keep their values in V has a run. *)
LEMMA LoopRuns ==
    ASSUME NEW V, NEW n \in Nat, NEW x0 \in V, NEW g \in [(1..n) \X V -> V]
    PROVE  \E h : Runs(h, n, V, x0, g)
<1> DEFINE T == {m \in 0..n : \E h : Runs(h, m, V, x0, g)}
<1>1. 0 \in T
  <2>1. Runs([i \in 0..0 |-> x0], 0, V, x0, g)
    BY DEF Runs
  <2> QED BY <2>1
<1>2. ASSUME NEW i \in 1..n, i - 1 \in T PROVE i \in T
  <2>1. PICK h : Runs(h, i - 1, V, x0, g)
    BY <1>2
  <2>2. i - 1 \in Nat /\ i \in Nat /\ i >= 1
    OBVIOUS
  <2>3. h \in [0..(i - 1) -> V] /\ h[0] = x0 /\ \A j \in 1..(i - 1) : h[j] = g[<<j, h[j - 1]>>]
    BY <2>1 DEF Runs
  <2> HIDE DEF T
  <2> DEFINE X(j) == IF j = i THEN g[<<i, h[i - 1]>>] ELSE h[j]
             k == [j \in 0..i |-> X(j)]
  <2>4. h[i - 1] \in V
    <3>1. i - 1 \in 0..(i - 1)
      BY <2>2
    <3> QED BY <2>3, <3>1
  <2>5. g[<<i, h[i - 1]>>] \in V
    BY <2>4
  <2>6. ASSUME NEW j \in 0..i PROVE X(j) \in V
    <3>1. CASE j = i
      BY <2>5, <3>1
    <3>2. CASE j # i
      <4>1. j \in 0..(i - 1)
        BY <2>2, <3>2
      <4> QED BY <2>3, <3>2, <4>1
    <3> QED BY <3>1, <3>2
  <2>7. X(0) = x0
    BY <2>2, <2>3
  <2>8. ASSUME NEW j \in 1..i PROVE X(j) = g[<<j, X(j - 1)>>]
    <3>1. CASE j = i
      <4>1. j - 1 # i
        BY <2>2, <3>1
      <4> QED BY <3>1, <4>1
    <3>2. CASE j # i
      <4>1. j \in 1..(i - 1) /\ j - 1 # i
        BY <2>2, <3>2
      <4> QED BY <2>3, <3>2, <4>1
    <3> QED BY <3>1, <3>2
  <2> HIDE DEF X
  <2>9. k \in [0..i -> V] /\ k[0] = x0
    <3>1. 0 \in 0..i
      BY <2>2
    <3> QED BY <2>6, <2>7, <3>1
  <2>10. ASSUME NEW j \in 1..i PROVE k[j] = g[<<j, k[j - 1]>>]
    <3>1. j \in 0..i /\ j - 1 \in 0..i
      BY <2>2
    <3> QED BY <2>8, <3>1
  <2> HIDE DEF k
  <2>11. Runs(k, i, V, x0, g)
    BY <2>9, <2>10 DEF Runs
  <2> QED BY <2>11 DEF T
<1>3. T = 0..n
  <2> HIDE DEF T
  <2>1. T \in SUBSET (0..n)
    BY DEF T
  <2> QED BY <1>1, <1>2, <2>1, LoopInduction
<1>4. n \in T
  <2> HIDE DEF T
  <2> QED BY <1>3
<1> QED BY <1>4

(* A list without the values that are already in it. *)
LEMMA SeenOfUnfolds ==
    ASSUME NEW V, NEW s \in Seq(V), NEW S
    PROVE  /\ SeenOf(s, S)[0] = <<>>
           /\ \A i \in 1..Len(s) : SeenOf(s, S)[i] =
                 IF s[i] \in S /\ ~Contains(SeenOf(s, S)[i - 1], s[i])
                 THEN Append(SeenOf(s, S)[i - 1], s[i]) ELSE SeenOf(s, S)[i - 1]
<1> DEFINE n == Len(s)
           G(i, q) == IF s[i] \in S /\ ~Contains(q, s[i]) THEN Append(q, s[i]) ELSE q
           D(d) == [i \in 0..Len(s) |->
                       IF i = 0 THEN <<>>
                       ELSE IF s[i] \in S /\ ~Contains(d[i - 1], s[i]) THEN Append(d[i - 1], s[i])
                       ELSE d[i - 1]]
           g == [p \in (1..n) \X Seq(V) |-> G(p[1], p[2])]
<1>1. n \in Nat /\ <<>> \in Seq(V) /\ \A i \in 1..n : s[i] \in V
  BY ElementOfSeq, LenProperties, EmptySeq
<1>2. ASSUME NEW i \in 1..n, NEW q \in Seq(V) PROVE G(i, q) \in Seq(V)
  BY <1>1, AppendProperties
<1>3. g \in [(1..n) \X Seq(V) -> Seq(V)]
  <2> HIDE DEF G, n
  <2> QED BY <1>2
<1>4. PICK f : Runs(f, n, Seq(V), <<>>, g)
  <2> HIDE DEF g, n
  <2> QED BY <1>1, <1>3, LoopRuns
<1>5. f = D(f)
  <2>1. f \in [0..n -> Seq(V)] /\ f[0] = <<>>
    BY <1>4 DEF Runs
  <2>2. ASSUME NEW i \in 1..n PROVE f[i] = G(i, f[i - 1])
    <3>1. i - 1 \in 0..n
      BY <1>1
    <3>2. f[i] = g[<<i, f[i - 1]>>] /\ f[i - 1] \in Seq(V)
      BY <1>4, <2>1, <3>1 DEF Runs
    <3> HIDE DEF G, n
    <3> QED BY <3>2
  <2>3. ASSUME NEW i \in 0..n PROVE f[i] = D(f)[i]
    <3>1. CASE i = 0
      BY <2>1, <3>1
    <3>2. CASE i # 0
      <4>1. i \in 1..n
        BY <1>1, <3>2
      <4> QED BY <2>2, <3>2, <4>1
    <3> QED BY <3>1, <3>2
  <2> QED BY <2>1, <2>3
<1>6. SeenOf(s, S) = CHOOSE d : d = D(d)
  BY DEF SeenOf
<1>7. SeenOf(s, S) = D(SeenOf(s, S))
  <2> HIDE DEF D
  <2> QED BY <1>5, <1>6
<1>8. D(SeenOf(s, S))[0] = <<>>
  BY <1>1
<1>9. ASSUME NEW i \in 1..n PROVE D(SeenOf(s, S))[i] = G(i, SeenOf(s, S)[i - 1])
  BY <1>1
<1> HIDE DEF D
<1> QED BY <1>7, <1>8, <1>9

(* The list of candidates holds values of S only. *)
LEMMA OnceTyped ==
    ASSUME NEW V, NEW s \in Seq(V), NEW S
    PROVE  Once(s, S) \in Seq(S)
<1> DEFINE n == Len(s)
           T == {i \in 0..n : SeenOf(s, S)[i] \in Seq(S)}
<1>1. n \in Nat
  BY LenProperties
<1>2. 0 \in T
  <2>1. SeenOf(s, S)[0] = <<>>
    BY SeenOfUnfolds
  <2>2. <<>> \in Seq(S)
    BY EmptySeq
  <2>3. SeenOf(s, S)[0] \in Seq(S)
    BY <2>1, <2>2
  <2>4. 0 \in 0..n
    BY <1>1
  <2> QED BY <2>3, <2>4
<1>3. ASSUME NEW i \in 1..n, i - 1 \in T PROVE i \in T
  <2>1. SeenOf(s, S)[i - 1] \in Seq(S) /\ i \in 0..n
    BY <1>1, <1>3
  <2>2. SeenOf(s, S)[i] =
            IF s[i] \in S /\ ~Contains(SeenOf(s, S)[i - 1], s[i])
            THEN Append(SeenOf(s, S)[i - 1], s[i]) ELSE SeenOf(s, S)[i - 1]
    BY SeenOfUnfolds
  <2>3. SeenOf(s, S)[i] \in Seq(S)
    <3> DEFINE q == SeenOf(s, S)[i - 1]
    <3> HIDE DEF q
    <3>1. CASE s[i] \in S /\ ~Contains(q, s[i])
      <4>1. Append(q, s[i]) \in Seq(S)
        BY <2>1, <3>1, AppendProperties DEF q
      <4> QED BY <2>2, <3>1, <4>1 DEF q
    <3>2. CASE ~(s[i] \in S /\ ~Contains(q, s[i]))
      BY <2>1, <2>2, <3>2 DEF q
    <3> QED BY <3>1, <3>2
  <2> QED BY <2>1, <2>3
<1>4. T = 0..n
  <2> HIDE DEF T, n
  <2>1. T \in SUBSET (0..n)
    BY DEF T
  <2> QED BY <1>1, <1>2, <1>3, <2>1, LoopInduction
<1>5. n \in T
  BY <1>1, <1>4
<1> QED BY <1>5 DEF Once

(* A list of lists of elements of S, flattened, is a list of such elements. *)
LEMMA FlattenTyped ==
    ASSUME NEW S, NEW ss \in Seq(Seq(S))
    PROVE  FlattenSeq(ss) \in Seq(S)
<1> DEFINE n == Len(ss)
           D(d) == [i \in 1..Len(ss) |-> IF i = 1 THEN ss[i] ELSE d[i - 1] \o ss[i]]
           F == CHOOSE d : d = D(d)
           g == [p \in (1..n) \X Seq(S) |-> p[2] \o ss[p[1]]]
<1>1. n \in Nat /\ <<>> \in Seq(S) /\ \A i \in 1..n : ss[i] \in Seq(S)
  BY ElementOfSeq, LenProperties, EmptySeq
<1>2. CASE n = 0
  <2>1. ss = <<>>
    BY <1>2, EmptySeq
  <2> QED BY <1>1, <1>2, <2>1 DEF FlattenSeq
<1>3. CASE n # 0
  <2>1. g \in [(1..n) \X Seq(S) -> Seq(S)]
    <3>1. ASSUME NEW p \in (1..n) \X Seq(S) PROVE p[2] \o ss[p[1]] \in Seq(S)
      BY <1>1, ConcatProperties
    <3> HIDE DEF n
    <3> QED BY <3>1
  <2>2. PICK h : Runs(h, n, Seq(S), <<>>, g)
    <3> HIDE DEF g, n
    <3> QED BY <1>1, <2>1, LoopRuns
  <2>3. h \in [0..n -> Seq(S)] /\ h[0] = <<>>
    BY <2>2 DEF Runs
  <2>4. ASSUME NEW i \in 1..n PROVE h[i] = h[i - 1] \o ss[i] /\ h[i - 1] \in Seq(S)
    <3>1. i - 1 \in 0..n
      BY <1>1
    <3>2. h[i] = g[<<i, h[i - 1]>>] /\ h[i - 1] \in Seq(S)
      BY <2>2, <2>3, <3>1 DEF Runs
    <3> HIDE DEF n
    <3> QED BY <3>2
  <2> DEFINE f == [i \in 1..n |-> h[i]]
  <2>5. f = D(f)
    <3>1. ASSUME NEW i \in 1..n PROVE f[i] = D(f)[i]
      <4>1. CASE i = 1
        <5>1. h[1] = <<>> \o ss[1]
          <6>1. i - 1 = 0
            BY <4>1
          <6> QED BY <2>3, <2>4, <4>1, <6>1
        <5>2. <<>> \o ss[1] = ss[1]
          BY <1>1, <4>1, ConcatEmptySeq
        <5> QED BY <4>1, <5>1, <5>2
      <4>2. CASE i # 1
        <5>1. i - 1 \in 1..n
          BY <1>1, <4>2
        <5> QED BY <2>4, <4>2, <5>1
      <4> QED BY <4>1, <4>2
    <3> QED BY <3>1
  <2>6. F = D(F)
    <3> HIDE DEF D, f
    <3> QED BY <2>5
  <2> HIDE DEF F
  <2> DEFINE T == {i \in 0..n : i # 0 => F[i] \in Seq(S)}
  <2>7. ASSUME NEW i \in 1..n, i - 1 \in T PROVE i \in T
    <3>1. F[i] = D(F)[i]
      BY <2>6
    <3>2. CASE i = 1
      <4>1. F[i] = ss[1]
        BY <3>1, <3>2
      <4> QED BY <1>1, <3>2, <4>1
    <3>3. CASE i # 1
      <4>1. F[i] = F[i - 1] \o ss[i]
        BY <3>1, <3>3
      <4>2. F[i - 1] \in Seq(S)
        BY <1>1, <2>7, <3>3
      <4>3. F[i] \in Seq(S)
        BY <1>1, <4>1, <4>2, ConcatProperties
      <4> QED BY <1>1, <4>3
    <3> QED BY <3>2, <3>3
  <2>8. 0 \in T
    BY <1>1
  <2>9. T = 0..n
    <3> HIDE DEF T, n
    <3>1. T \in SUBSET (0..n)
      BY DEF T
    <3> QED BY <1>1, <2>7, <2>8, <3>1, LoopInduction
  <2>10. F[n] \in Seq(S)
    <3>1. n \in T
      BY <1>1, <2>9
    <3> QED BY <1>3, <3>1
  <2>11. FlattenSeq(ss) = F[n]
    BY <1>3 DEF FlattenSeq, F
  <2> QED BY <2>10, <2>11
<1> QED BY <1>2, <1>3

-----------------------------------------------------------------------------
(* The selection.                                                          *)

Results == [mode : Modes, rate : Nat]

(* One turn of the loop for the fastest mode. *)
LEMMA FastestUnfolds ==
    ASSUME NEW rs \in Seq(Results)
    PROVE  /\ FastestOf(rs)[0] = 0
           /\ \A i \in 1..Len(rs) : FastestOf(rs)[i] =
                 IF rs[i].rate > 0 /\ (FastestOf(rs)[i - 1] = 0 \/ rs[i].rate > rs[FastestOf(rs)[i - 1]].rate)
                 THEN i ELSE FastestOf(rs)[i - 1]
<1> DEFINE n == Len(rs)
           G(i, x) == IF rs[i].rate > 0 /\ (x = 0 \/ rs[i].rate > rs[x].rate) THEN i ELSE x
           D(d) == [i \in 0..Len(rs) |->
                       IF i = 0 THEN 0
                       ELSE IF rs[i].rate > 0 /\ (d[i - 1] = 0 \/ rs[i].rate > rs[d[i - 1]].rate) THEN i
                       ELSE d[i - 1]]
           g == [p \in (1..n) \X (0..n) |-> G(p[1], p[2])]
<1>1. n \in Nat /\ 0 \in 0..n
  BY LenProperties
<1>2. g \in [(1..n) \X (0..n) -> 0..n]
  <2>1. ASSUME NEW i \in 1..n, NEW x \in 0..n PROVE G(i, x) \in 0..n
    BY <1>1
  <2> HIDE DEF G, n
  <2> QED BY <2>1
<1>3. PICK f : Runs(f, n, 0..n, 0, g)
  <2> HIDE DEF g, n
  <2> QED BY <1>1, <1>2, LoopRuns
<1>4. f = D(f)
  <2>1. f \in [0..n -> 0..n] /\ f[0] = 0
    BY <1>3 DEF Runs
  <2>2. ASSUME NEW i \in 1..n PROVE f[i] = G(i, f[i - 1])
    <3>1. i - 1 \in 0..n
      BY <1>1
    <3>2. f[i] = g[<<i, f[i - 1]>>] /\ f[i - 1] \in 0..n
      BY <1>3, <2>1, <3>1 DEF Runs
    <3> HIDE DEF G, n
    <3> QED BY <3>2
  <2>3. ASSUME NEW i \in 0..n PROVE f[i] = D(f)[i]
    <3>1. CASE i = 0
      BY <2>1, <3>1
    <3>2. CASE i # 0
      <4>1. i \in 1..n
        BY <1>1, <3>2
      <4> QED BY <2>2, <3>2, <4>1
    <3> QED BY <3>1, <3>2
  <2> QED BY <2>1, <2>3
<1>5. FastestOf(rs) = CHOOSE d : d = D(d)
  BY DEF FastestOf
<1>6. FastestOf(rs) = D(FastestOf(rs))
  <2> HIDE DEF D
  <2> QED BY <1>4, <1>5
<1>7. D(FastestOf(rs))[0] = 0
  BY <1>1
<1>8. ASSUME NEW i \in 1..n PROVE D(FastestOf(rs))[i] = G(i, FastestOf(rs)[i - 1])
  BY <1>1
<1> HIDE DEF D
<1> QED BY <1>6, <1>7, <1>8

(* One turn of the loop for the preferred mode. *)
LEMMA BestUnfolds ==
    ASSUME NEW rs \in Seq(Results), NEW fastest
    PROVE  /\ BestOf(rs, fastest)[0] = 0
           /\ \A i \in 1..Len(rs) : BestOf(rs, fastest)[i] =
                 IF /\ Close(rs[i], fastest)
                    /\ BestOf(rs, fastest)[i - 1] = 0 \/ Preferred(rs[i], rs[BestOf(rs, fastest)[i - 1]])
                 THEN i ELSE BestOf(rs, fastest)[i - 1]
<1> DEFINE n == Len(rs)
           G(i, x) == IF Close(rs[i], fastest) /\ (x = 0 \/ Preferred(rs[i], rs[x])) THEN i ELSE x
           D(d) == [i \in 0..Len(rs) |->
                       IF i = 0 THEN 0
                       ELSE IF Close(rs[i], fastest) /\ (d[i - 1] = 0 \/ Preferred(rs[i], rs[d[i - 1]])) THEN i
                       ELSE d[i - 1]]
           g == [p \in (1..n) \X (0..n) |-> G(p[1], p[2])]
<1>1. n \in Nat /\ 0 \in 0..n
  BY LenProperties
<1>2. g \in [(1..n) \X (0..n) -> 0..n]
  <2>1. ASSUME NEW i \in 1..n, NEW x \in 0..n PROVE G(i, x) \in 0..n
    BY <1>1
  <2> HIDE DEF G, n
  <2> QED BY <2>1
<1>3. PICK f : Runs(f, n, 0..n, 0, g)
  <2> HIDE DEF g, n
  <2> QED BY <1>1, <1>2, LoopRuns
<1>4. f = D(f)
  <2>1. f \in [0..n -> 0..n] /\ f[0] = 0
    BY <1>3 DEF Runs
  <2>2. ASSUME NEW i \in 1..n PROVE f[i] = G(i, f[i - 1])
    <3>1. i - 1 \in 0..n
      BY <1>1
    <3>2. f[i] = g[<<i, f[i - 1]>>] /\ f[i - 1] \in 0..n
      BY <1>3, <2>1, <3>1 DEF Runs
    <3> HIDE DEF G, n
    <3> QED BY <3>2
  <2>3. ASSUME NEW i \in 0..n PROVE f[i] = D(f)[i]
    <3>1. CASE i = 0
      BY <2>1, <3>1
    <3>2. CASE i # 0
      <4>1. i \in 1..n
        BY <1>1, <3>2
      <4> QED BY <2>2, <3>2, <4>1
    <3> QED BY <3>1, <3>2
  <2> QED BY <2>1, <2>3
<1>5. BestOf(rs, fastest) = CHOOSE d : d = D(d)
  BY DEF BestOf
<1>6. BestOf(rs, fastest) = D(BestOf(rs, fastest))
  <2> HIDE DEF D
  <2> QED BY <1>4, <1>5
<1>7. D(BestOf(rs, fastest))[0] = 0
  BY <1>1
<1>8. ASSUME NEW i \in 1..n PROVE D(BestOf(rs, fastest))[i] = G(i, BestOf(rs, fastest)[i - 1])
  BY <1>1
<1> HIDE DEF D
<1> QED BY <1>6, <1>7, <1>8

(* The first loop finds a mode that works and no other is faster, if there *)
(* is one that works.                                                      *)
LEMMA FastestIsFastest ==
    ASSUME NEW rs \in Seq(Results)
    PROVE  /\ Fastest(rs) \in 0..Len(rs)
           /\ Fastest(rs) # 0 =>
                 rs[Fastest(rs)].rate > 0 /\ \A j \in 1..Len(rs) : rs[j].rate <= rs[Fastest(rs)].rate
           /\ Fastest(rs) = 0 => \A j \in 1..Len(rs) : rs[j].rate = 0
<1> DEFINE n == Len(rs)
           f == FastestOf(rs)
           r == [i \in 1..n |-> rs[i].rate]
           Right(i) == /\ f[i] \in 0..i
                       /\ f[i] # 0 => r[f[i]] > 0 /\ \A j \in 1..i : r[j] <= r[f[i]]
                       /\ f[i] = 0 => \A j \in 1..i : r[j] = 0
           T == {i \in 0..n : Right(i)}
<1>1. n \in Nat
  BY LenProperties
<1>2. r \in [1..n -> Nat]
  <2>1. ASSUME NEW i \in 1..n PROVE rs[i].rate \in Nat
    <3>1. rs[i] \in Results
      BY ElementOfSeq
    <3> QED BY <3>1 DEF Results
  <2> QED BY <2>1
<1>3. f[0] = 0
  BY FastestUnfolds
<1>4. ASSUME NEW i \in 1..n, f[i - 1] \in 0..n
      PROVE  f[i] = IF r[i] > 0 /\ (f[i - 1] = 0 \/ r[i] > r[f[i - 1]]) THEN i ELSE f[i - 1]
  <2>1. f[i] = IF rs[i].rate > 0 /\ (f[i - 1] = 0 \/ rs[i].rate > rs[f[i - 1]].rate) THEN i ELSE f[i - 1]
    BY FastestUnfolds
  <2>2. r[i] = rs[i].rate
    OBVIOUS
  <2>3. f[i - 1] # 0 => r[f[i - 1]] = rs[f[i - 1]].rate
    <3>1. f[i - 1] # 0 => f[i - 1] \in 1..n
      BY <1>1, <1>4
    <3> HIDE DEF f
    <3> QED BY <3>1
  <2> HIDE DEF r, f
  <2> QED BY <2>1, <2>2, <2>3
<1> HIDE DEF n, f, r
<1>5. 0 \in T
  BY <1>1, <1>3
<1>6. ASSUME NEW i \in 1..n, i - 1 \in T PROVE i \in T
  <2>1. Right(i - 1)
    BY <1>6
  <2>2. i \in 0..n /\ i \in Nat /\ i >= 1 /\ i <= n
    BY <1>1
  <2>3. f[i - 1] \in 0..n /\ f[i - 1] \in 0..(i - 1)
    BY <1>1, <2>1
  <2>4. f[i] = IF r[i] > 0 /\ (f[i - 1] = 0 \/ r[i] > r[f[i - 1]]) THEN i ELSE f[i - 1]
    BY <1>4, <2>3
  <2>5. r[i] \in Nat /\ \A j \in 1..i : r[j] \in Nat /\ (j \in 1..(i - 1) \/ j = i)
    BY <1>1, <1>2
  <2>6. CASE r[i] > 0 /\ (f[i - 1] = 0 \/ r[i] > r[f[i - 1]])
    <3>1. f[i] = i
      BY <2>4, <2>6
    <3>2. ASSUME NEW j \in 1..(i - 1) PROVE r[j] <= r[i]
      <4>1. r[j] \in Nat
        BY <1>1, <1>2
      <4>2. CASE f[i - 1] = 0
        BY <2>1, <2>5, <4>2
      <4>3. CASE f[i - 1] # 0
        <5>1. r[j] <= r[f[i - 1]] /\ r[i] > r[f[i - 1]]
          BY <2>1, <2>6, <4>3
        <5>2. r[f[i - 1]] \in Nat
          BY <1>2, <2>3, <4>3, <1>1
        <5> QED BY <2>5, <4>1, <5>1, <5>2
      <4> QED BY <4>2, <4>3
    <3>3. \A j \in 1..i : r[j] <= r[i]
      BY <2>5, <3>2
    <3>4. f[i] \in 0..i /\ f[i] # 0
      BY <2>2, <3>1
    <3> QED BY <2>2, <2>6, <3>1, <3>3, <3>4
  <2>7. CASE ~(r[i] > 0 /\ (f[i - 1] = 0 \/ r[i] > r[f[i - 1]]))
    <3>1. f[i] = f[i - 1]
      BY <2>4, <2>7
    <3>2. f[i] \in 0..i
      BY <2>2, <2>3, <3>1
    <3>3. CASE f[i - 1] = 0
      <4>1. r[i] = 0
        BY <2>5, <2>7, <3>3
      <4>2. \A j \in 1..i : r[j] = 0
        BY <2>1, <2>5, <3>3, <4>1
      <4> QED BY <2>2, <3>1, <3>2, <3>3, <4>2
    <3>4. CASE f[i - 1] # 0
      <4>1. r[f[i - 1]] \in Nat
        BY <1>1, <1>2, <2>3, <3>4
      <4>2. r[i] <= r[f[i - 1]]
        BY <2>5, <2>7, <3>4, <4>1
      <4>3. \A j \in 1..i : r[j] <= r[f[i]]
        BY <2>1, <2>5, <3>1, <3>4, <4>2
      <4> QED BY <2>1, <2>2, <3>1, <3>2, <3>4, <4>3
    <3> QED BY <3>3, <3>4
  <2> QED BY <2>6, <2>7
<1>7. T = 0..n
  <2> HIDE DEF T
  <2>1. T \in SUBSET (0..n)
    BY DEF T
  <2> QED BY <1>1, <1>5, <1>6, <2>1, LoopInduction
<1>8. Right(n)
  <2>1. n \in T
    <3> HIDE DEF T
    <3> QED BY <1>1, <1>7
  <2> QED BY <2>1
<1>9. Fastest(rs) = f[n]
  BY DEF Fastest, f, n
<1>10. \A j \in 1..n : r[j] = rs[j].rate
  BY DEF r
<1>11. f[n] # 0 => f[n] \in 1..n
  BY <1>1, <1>8
<1> HIDE DEF T
<1> QED BY <1>1, <1>8, <1>9, <1>10, <1>11 DEF n

(* The order of the second loop is a strict one. *)
LEMMA PreferredOrder ==
    ASSUME NEW r \in Results, NEW b \in Results, NEW x \in Results
    PROVE  /\ ~Preferred(r, r)
           /\ Preferred(r, b) /\ ~Preferred(x, b) => ~Preferred(x, r)
<1>1. \A y \in Results : y.rate \in Nat /\ Priority(y.mode) \in 0..2
  BY DEF Results, Priority
<1> QED BY <1>1 DEF Preferred

(* The second loop finds the first, in that order, of the modes close to   *)
(* the fastest one.                                                        *)
LEMMA BestIsBest ==
    ASSUME NEW rs \in Seq(Results), NEW fastest
    PROVE  LET b == BestOf(rs, fastest)[Len(rs)]
           IN  /\ b \in 0..Len(rs)
               /\ b = 0 => \A j \in 1..Len(rs) : ~Close(rs[j], fastest)
               /\ b # 0 => /\ Close(rs[b], fastest)
                           /\ \A j \in 1..Len(rs) : Close(rs[j], fastest) => ~Preferred(rs[j], rs[b])
<1> DEFINE n == Len(rs)
           f == BestOf(rs, fastest)
           Right(i) == /\ f[i] \in 0..i
                       /\ f[i] = 0 => \A j \in 1..i : ~Close(rs[j], fastest)
                       /\ f[i] # 0 => /\ Close(rs[f[i]], fastest)
                                      /\ \A j \in 1..i : Close(rs[j], fastest) => ~Preferred(rs[j], rs[f[i]])
           T == {i \in 0..n : Right(i)}
<1>1. n \in Nat
  BY LenProperties
<1>2. \A i \in 1..n : rs[i] \in Results
  BY ElementOfSeq
<1>3. f[0] = 0
  BY BestUnfolds
<1>4. ASSUME NEW i \in 1..n
      PROVE  f[i] = IF Close(rs[i], fastest) /\ (f[i - 1] = 0 \/ Preferred(rs[i], rs[f[i - 1]]))
                    THEN i ELSE f[i - 1]
  BY BestUnfolds
<1> HIDE DEF n, f
<1>5. 0 \in T
  BY <1>1, <1>3
<1>6. ASSUME NEW i \in 1..n, i - 1 \in T PROVE i \in T
  <2>1. Right(i - 1)
    BY <1>6
  <2>2. i \in 0..n /\ i \in Nat /\ i >= 1 /\ i <= n
    BY <1>1
  <2>3. \A j \in 1..i : rs[j] \in Results /\ (j \in 1..(i - 1) \/ j = i)
    BY <1>1, <1>2
  <2>4. rs[i] \in Results /\ (f[i - 1] # 0 => rs[f[i - 1]] \in Results)
    <3>1. f[i - 1] # 0 => f[i - 1] \in 1..n
      BY <1>1, <2>1
    <3> QED BY <1>2, <3>1
  <2>5. CASE Close(rs[i], fastest) /\ (f[i - 1] = 0 \/ Preferred(rs[i], rs[f[i - 1]]))
    <3>1. f[i] = i
      BY <1>4, <2>5
    <3>2. ASSUME NEW j \in 1..i, Close(rs[j], fastest) PROVE ~Preferred(rs[j], rs[i])
      <4>1. CASE j = i
        BY <2>4, <4>1, PreferredOrder
      <4>2. CASE j # i
        <5>1. j \in 1..(i - 1)
          BY <2>3, <4>2
        <5>2. f[i - 1] # 0
          BY <2>1, <3>2, <5>1
        <5>3. ~Preferred(rs[j], rs[f[i - 1]]) /\ Preferred(rs[i], rs[f[i - 1]])
          BY <2>1, <2>5, <3>2, <5>1, <5>2
        <5> QED BY <2>3, <2>4, <5>2, <5>3, PreferredOrder
      <4> QED BY <4>1, <4>2
    <3>3. f[i] \in 0..i /\ f[i] # 0
      BY <2>2, <3>1
    <3> QED BY <2>2, <2>5, <3>1, <3>2, <3>3
  <2>6. CASE ~(Close(rs[i], fastest) /\ (f[i - 1] = 0 \/ Preferred(rs[i], rs[f[i - 1]])))
    <3>1. f[i] = f[i - 1]
      BY <1>4, <2>6
    <3>2. f[i] \in 0..i
      BY <2>1, <2>2, <3>1
    <3>3. CASE f[i - 1] = 0
      <4>1. \A j \in 1..i : ~Close(rs[j], fastest)
        BY <2>1, <2>3, <2>6, <3>3
      <4> QED BY <2>2, <3>1, <3>2, <3>3, <4>1
    <3>4. CASE f[i - 1] # 0
      <4>1. \A j \in 1..i : Close(rs[j], fastest) => ~Preferred(rs[j], rs[f[i]])
        BY <2>1, <2>3, <2>6, <3>1, <3>4
      <4> QED BY <2>1, <2>2, <3>1, <3>2, <3>4, <4>1
    <3> QED BY <3>3, <3>4
  <2> QED BY <2>5, <2>6
<1>7. T = 0..n
  <2> HIDE DEF T
  <2>1. T \in SUBSET (0..n)
    BY DEF T
  <2> QED BY <1>1, <1>5, <1>6, <2>1, LoopInduction
<1>8. Right(n)
  <2>1. n \in T
    <3> HIDE DEF T
    <3> QED BY <1>1, <1>7
  <2> QED BY <2>1
<1> HIDE DEF T
<1> QED BY <1>8 DEF n, f

(* 10% of rates, in hundredths and in tenths. *)
LEMMA TenPercent ==
    ASSUME NEW x \in Nat, NEW y \in Nat, NEW z \in Nat
    PROVE  /\ 100 * x >= 90 * y /\ z <= y => 10 * x >= 9 * z
           /\ 10 * x >= 9 * y => 100 * x >= 90 * y
  OBVIOUS

(* The mode selected: one that was measured and works, close to the        *)
(* fastest one, and no mode that is close is preferred.                    *)
LEMMA SelectedIsRight ==
    ASSUME NEW rs \in Seq(Results), Fastest(rs) # 0
    PROVE  \E b \in 1..Len(rs) :
              /\ Selected(rs) = rs[b] /\ rs[b].rate > 0
              /\ \A j \in 1..Len(rs) : 10 * rs[b].rate >= 9 * rs[j].rate
              /\ \A i \in 1..Len(rs) :
                    (rs[i].rate > 0 /\ \A j \in 1..Len(rs) : 10 * rs[i].rate >= 9 * rs[j].rate) =>
                        \/ Priority(rs[b].mode) < Priority(rs[i].mode)
                        \/ Priority(rs[b].mode) = Priority(rs[i].mode) /\ rs[b].rate >= rs[i].rate
<1> DEFINE n == Len(rs)
           w == Fastest(rs)
           b == BestOf(rs, rs[w])[n]
<1>1. n \in Nat /\ \A i \in 1..n : rs[i] \in Results
  BY ElementOfSeq, LenProperties
<1>2. \A i \in 1..n : rs[i].rate \in Nat /\ Priority(rs[i].mode) \in 0..2
  BY <1>1 DEF Results, Priority
<1>3. w \in 1..n /\ rs[w].rate > 0 /\ \A j \in 1..n : rs[j].rate <= rs[w].rate
  <2>1. w \in 0..n /\ rs[w].rate > 0 /\ \A j \in 1..n : rs[j].rate <= rs[w].rate
    BY FastestIsFastest
  <2> HIDE DEF w
  <2> QED BY <1>1, <2>1 DEF w
<1>4. /\ b \in 0..n
      /\ b = 0 => \A j \in 1..n : ~Close(rs[j], rs[w])
      /\ b # 0 => /\ Close(rs[b], rs[w])
                  /\ \A j \in 1..n : Close(rs[j], rs[w]) => ~Preferred(rs[j], rs[b])
  <2> HIDE DEF w
  <2> QED BY BestIsBest
<1>5. Selected(rs) = rs[b]
  BY DEF Selected
<1> HIDE DEF b, w, n
<1>6. Close(rs[w], rs[w])
  BY <1>2, <1>3 DEF Close
<1>7. b \in 1..n /\ Close(rs[b], rs[w]) /\ \A j \in 1..n : Close(rs[j], rs[w]) => ~Preferred(rs[j], rs[b])
  BY <1>1, <1>3, <1>4, <1>6
<1>8. rs[b].rate > 0 /\ 100 * rs[b].rate >= 90 * rs[w].rate
  BY <1>7 DEF Close
<1>9. ASSUME NEW j \in 1..n PROVE 10 * rs[b].rate >= 9 * rs[j].rate
  <2>1. rs[b].rate \in Nat /\ rs[w].rate \in Nat /\ rs[j].rate \in Nat /\ rs[j].rate <= rs[w].rate
    BY <1>2, <1>3, <1>7
  <2> QED BY ONLY <1>8, <2>1, TenPercent
<1>10. ASSUME NEW i \in 1..n, rs[i].rate > 0, \A j \in 1..n : 10 * rs[i].rate >= 9 * rs[j].rate
       PROVE  \/ Priority(rs[b].mode) < Priority(rs[i].mode)
              \/ Priority(rs[b].mode) = Priority(rs[i].mode) /\ rs[b].rate >= rs[i].rate
  <2>1. Close(rs[i], rs[w])
    <3>1. 10 * rs[i].rate >= 9 * rs[w].rate
      BY <1>3, <1>10
    <3>2. rs[i].rate \in Nat /\ rs[w].rate \in Nat
      BY <1>2, <1>3
    <3>3. 100 * rs[i].rate >= 90 * rs[w].rate
      BY ONLY <3>1, <3>2, TenPercent
    <3> QED BY <1>10, <3>3 DEF Close
  <2>2. ~Preferred(rs[i], rs[b])
    BY <1>7, <2>1
  <2> HIDE DEF Priority
  <2> QED BY <1>2, <1>7, <2>2 DEF Preferred
<1> QED BY <1>5, <1>7, <1>8, <1>9, <1>10 DEF n

-----------------------------------------------------------------------------
(* The start: loading the file and applying the command line.              *)

(* The variants the loader falls back to and the candidates are kernels. *)
LEMMA KernelsTyped ==
    /\ "auto" \in Kernels /\ "standard" \in Kernels
    /\ OpenclKernels \in Seq(Kernels) /\ CudaKernels \in Seq(Kernels)
<1>1. "auto" \in Kernels /\ "standard" \in Kernels
  BY DEF Kernels
<1>2. OpenclKernels \in Seq(Range(OpenclKernels)) /\ CudaKernels \in Seq(Range(CudaKernels))
  BY AutotuneAssumption, SeqOfRange
<1>3. Range(OpenclKernels) \subseteq Kernels /\ Range(CudaKernels) \subseteq Kernels
  BY DEF Kernels
<1>4. OpenclKernels \in Seq(Kernels) /\ CudaKernels \in Seq(Kernels)
  BY <1>2, <1>3, SeqMonotonic
<1> QED BY <1>1, <1>4

(* The loader keeps the nonces and the batch size of settings. *)
LEMMA ReadSettingsTyped ==
    ASSUME NEW s \in Settings, NEW base \in Settings
    PROVE  /\ ReadSettings(s, base) \in Settings
           /\ ReadSettings(s, base).npi = s.npi /\ ReadSettings(s, base).batch = s.batch
<1>1. CASE base.backend = "cuda"
  <2>1. ReadSettings(s, base) = [s EXCEPT !.kernel = "standard"]
    BY <1>1 DEF ReadSettings, ReadVariant, ParseVariant
  <2> QED BY <2>1, KernelsTyped DEF Settings
<1>2. CASE base.backend # "cuda"
  <2>1. ReadSettings(s, base) = [s EXCEPT !.kernel = "auto", !.backend = "auto"]
    BY <1>2 DEF ReadSettings, ReadVariant, ParseVariant
  <2> QED BY <2>1, KernelsTyped DEF Settings
<1> QED BY <1>1, <1>2

(* app_config_set_defaults makes a configuration. *)
LEMMA DefaultsTyped ==
    /\ DefaultOpencl \in Settings /\ DefaultCuda \in Settings
    /\ NoOpencl \in OpenclConfig /\ NoCuda \in CudaConfig /\ Defaults \in Config
    /\ Torn \in File /\ ~SaysTuned(Torn) /\ Torn.state = "torn"
<1>1. DefaultOpencl \in Settings /\ DefaultCuda \in Settings
  BY KernelsTyped DEF DefaultOpencl, DefaultCuda, Settings
<1>2. NoOpencl \in OpenclConfig /\ NoCuda \in CudaConfig
  <2>1. <<>> \in Seq(Device)
    BY EmptySeq
  <2> QED BY <1>1, <2>1 DEF NoOpencl, NoCuda, OpenclConfig, CudaConfig
<1>3. Defaults \in Config
  BY <1>2 DEF Defaults, Config, Pools
<1>4. NoAlias \in Aliases
  <2>1. <<>> \in Seq(Nat) /\ <<>> \in Seq(BOOLEAN)
    BY EmptySeq
  <2> QED BY <2>1 DEF NoAlias, Aliases
<1>5. Torn \in File /\ ~SaysTuned(Torn) /\ Torn.state = "torn"
  BY <1>3, <1>4 DEF Torn, File, SaysTuned
<1> QED BY <1>1, <1>2, <1>3, <1>5

(* A further name of a setting has a value of the same type. *)
LEMMA OverTyped ==
    ASSUME NEW S, NEW v \in S, NEW names \in Seq(S)
    PROVE  Over(v, names) \in S
<1>1. CASE names = <<>>
  BY <1>1 DEF Over
<1>2. CASE names # <<>>
  <2>1. Len(names) \in 1..Len(names)
    BY <1>2, LenProperties, EmptySeq
  <2>2. names[Len(names)] \in S
    BY <2>1, ElementOfSeq
  <2> QED BY <1>2, <2>2 DEF Over
<1> QED BY <1>1, <1>2

(* Further names change the nonces and the batch size of settings. *)
LEMMA OverSettingsTyped ==
    ASSUME NEW s \in Settings, NEW npi \in Seq(Nat), NEW batch \in Seq(Nat)
    PROVE  /\ OverSettings(s, npi, batch) \in Settings
           /\ OverSettings(s, npi, batch).npi = Over(s.npi, npi)
           /\ OverSettings(s, npi, batch).batch = Over(s.batch, batch)
<1> DEFINE x == Over(s.npi, npi)
           y == Over(s.batch, batch)
<1>1. s.npi \in Nat /\ s.batch \in Nat
  BY DEF Settings
<1>2. x \in Nat /\ y \in Nat
  BY <1>1, OverTyped
<1>3. OverSettings(s, npi, batch) = [s EXCEPT !.npi = x, !.batch = y]
  BY DEF OverSettings
<1> HIDE DEF x, y
<1>4. OverSettings(s, npi, batch) \in Settings /\ OverSettings(s, npi, batch).npi = x
      /\ OverSettings(s, npi, batch).batch = y
  BY <1>2, <1>3 DEF Settings
<1> QED BY <1>4 DEF x, y

(* What load_config_file keeps of a file that parses. *)
LEMMA LoadKeeps ==
    ASSUME NEW g \in File
    PROVE  LET c == LoadConfigFile(g)
               f == g.cfg
               names == g.alias
           IN  /\ c \in Config
               /\ c.cpu = f.cpu /\ c.affinity = f.affinity
               /\ c.threads = Over(f.threads, names.threads)
               /\ c.cpu_done = Over(f.cpu_done, names.cpu_done) /\ c.gpu_done = Over(f.gpu_done, names.gpu_done)
               /\ c.opencl.on = f.opencl.on /\ c.cuda.on = f.cuda.on
               /\ c.cuda.base.npi = Over(f.cuda.base.npi, names.cuda_npi)
               /\ c.cuda.base.batch = Over(f.cuda.base.batch, names.cuda_batch)
               /\ Len(c.opencl.devices) = Len(f.opencl.devices)
               /\ \A i \in 1..Len(f.opencl.devices) :
                     LET new == c.opencl.devices[i]
                         old == f.opencl.devices[i]
                     IN  new.id = old.id /\ new.set.npi = old.set.npi /\ new.set.batch = old.set.batch
<1> DEFINE f == g.cfg
           names == g.alias
           d == f.opencl.devices
           read == ReadSettings(f.opencl.base, DefaultOpencl)
           base == OverSettings(read, names.npi, names.batch)
           found == ReadSettings(f.cuda.base, DefaultCuda)
           cuda == OverSettings(found, names.cuda_npi, names.cuda_batch)
           new == [i \in DOMAIN d |-> ReadDevice(d[i], base)]
           t == Over(f.threads, names.threads)
           x == Over(f.cpu_done, names.cpu_done)
           y == Over(f.gpu_done, names.gpu_done)
           c == LoadConfigFile(g)
<1>1. f \in Config /\ names \in Aliases
  BY DEF File
<1>2. f.opencl \in OpenclConfig /\ f.cuda \in CudaConfig /\ f.threads \in Nat
      /\ f.cpu_done \in BOOLEAN /\ f.gpu_done \in BOOLEAN
  BY <1>1 DEF Config
<1>3. d \in Seq(Device) /\ f.opencl.base \in Settings /\ f.cuda.base \in Settings /\ f.opencl.on \in BOOLEAN
      /\ f.cuda.on \in BOOLEAN
  BY <1>2 DEF OpenclConfig, CudaConfig
<1>4. /\ names.threads \in Seq(Nat) /\ names.npi \in Seq(Nat) /\ names.batch \in Seq(Nat)
      /\ names.cuda_npi \in Seq(Nat) /\ names.cuda_batch \in Seq(Nat)
      /\ names.cpu_done \in Seq(BOOLEAN) /\ names.gpu_done \in Seq(BOOLEAN)
  BY <1>1 DEF Aliases
<1>5. read \in Settings /\ found \in Settings /\ found.npi = f.cuda.base.npi /\ found.batch = f.cuda.base.batch
  BY <1>3, ReadSettingsTyped, DefaultsTyped
<1>6. base \in Settings /\ cuda \in Settings /\ cuda.npi = Over(f.cuda.base.npi, names.cuda_npi)
      /\ cuda.batch = Over(f.cuda.base.batch, names.cuda_batch)
  <2> HIDE DEF read, found, f, names
  <2>1. OverSettings(read, names.npi, names.batch) \in Settings
    BY <1>4, <1>5, OverSettingsTyped
  <2>2. /\ OverSettings(found, names.cuda_npi, names.cuda_batch) \in Settings
        /\ OverSettings(found, names.cuda_npi, names.cuda_batch).npi = Over(found.npi, names.cuda_npi)
        /\ OverSettings(found, names.cuda_npi, names.cuda_batch).batch = Over(found.batch, names.cuda_batch)
    BY <1>4, <1>5, OverSettingsTyped
  <2> QED BY <1>5, <2>1, <2>2
<1>7. t \in Nat /\ x \in BOOLEAN /\ y \in BOOLEAN
  BY <1>2, <1>4, OverTyped
<1>8. c = [f EXCEPT !.threads = t, !.cpu_done = x, !.gpu_done = y,
                    !.opencl.base = base, !.opencl.devices = new, !.cuda.base = cuda]
  BY DEF LoadConfigFile
<1> HIDE DEF f, base, cuda, t, x, y
<1>9. Len(d) \in Nat /\ DOMAIN d = 1..Len(d)
  BY <1>3, LenProperties
<1>10. ASSUME NEW i \in 1..Len(d)
       PROVE  new[i] \in Device /\ new[i].id = d[i].id /\ new[i].set.npi = d[i].set.npi
              /\ new[i].set.batch = d[i].set.batch
  <2>1. d[i] \in Device
    BY <1>3, ElementOfSeq
  <2>2. d[i].set \in Settings
    BY <2>1 DEF Device
  <2> DEFINE r == ReadSettings(d[i].set, base)
  <2>3. r \in Settings /\ r.npi = d[i].set.npi /\ r.batch = d[i].set.batch
    BY <1>6, <2>2, ReadSettingsTyped
  <2>4. new[i] = [id |-> d[i].id, set |-> r]
    BY <1>9 DEF ReadDevice
  <2> HIDE DEF r, new, d
  <2> QED BY <2>1, <2>3, <2>4 DEF Device
<1>11. new \in Seq(Device) /\ Len(new) = Len(d)
  <2>1. DOMAIN new = 1..Len(d)
    BY <1>9
  <2>2. new \in [1..Len(d) -> Device]
    BY <1>9, <1>10
  <2> HIDE DEF new, d
  <2> QED BY <1>9, <2>1, <2>2
<1> HIDE DEF new, d, c
<1>12. c.opencl = [on |-> f.opencl.on, base |-> base, devices |-> new]
  BY <1>1, <1>2, <1>8 DEF OpenclConfig, Config
<1>13. c.cuda = [on |-> f.cuda.on, base |-> cuda]
  BY <1>1, <1>2, <1>8 DEF CudaConfig, Config
<1>14. c.opencl \in OpenclConfig /\ c.cuda \in CudaConfig
  BY <1>3, <1>6, <1>11, <1>12, <1>13 DEF OpenclConfig, CudaConfig
<1>15. c = [f EXCEPT !.threads = t, !.cpu_done = x, !.gpu_done = y, !.opencl = c.opencl, !.cuda = c.cuda]
  BY <1>1, <1>8 DEF Config
<1> DEFINE o == c.opencl
           q == c.cuda
<1> HIDE DEF o, q
<1>16. c = [f EXCEPT !.threads = t, !.cpu_done = x, !.gpu_done = y, !.opencl = o, !.cuda = q]
  BY <1>15 DEF o, q
<1>17. o \in OpenclConfig /\ q \in CudaConfig
  BY <1>14 DEF o, q
<1>18. /\ c \in Config
       /\ c.cpu = f.cpu /\ c.threads = t /\ c.affinity = f.affinity /\ c.cpu_done = x /\ c.gpu_done = y
  BY <1>1, <1>7, <1>16, <1>17 DEF Config
<1>19. /\ c.opencl.on = f.opencl.on /\ c.cuda.on = f.cuda.on
       /\ c.cuda.base.npi = Over(f.cuda.base.npi, names.cuda_npi)
       /\ c.cuda.base.batch = Over(f.cuda.base.batch, names.cuda_batch)
  BY <1>6, <1>12, <1>13
<1>20. c.opencl.devices = new
  BY <1>12
<1> QED BY <1>10, <1>11, <1>18, <1>19, <1>20 DEF c, d, f, t, x, y

(* The options make a configuration; without options it stays. *)
LEMMA ApplyArgsTyped ==
    ASSUME NEW c \in Config, NEW a \in Args
    PROVE  /\ ApplyArgs(c, a) \in Config
           /\ a.workers = Off /\ a.autotune = Off => ApplyArgs(c, a) = c
           /\ ApplyArgs(c, a).gpu_done => c.gpu_done
<1> DEFINE w == CASE a.workers = "threads" -> [c EXCEPT !.threads = 1, !.cpu = TRUE]
                  [] a.workers = "no-cpu"  -> [c EXCEPT !.cpu = FALSE]
                  [] a.workers = "opencl"  -> [c EXCEPT !.opencl.on = TRUE]
                  [] a.workers = "opencl-all" -> [c EXCEPT !.opencl.on = TRUE, !.opencl.devices = <<>>]
                  [] a.workers = "cuda"    -> [c EXCEPT !.cuda.on = TRUE]
                  [] OTHER -> c
<1>1. c.opencl \in OpenclConfig /\ c.cuda \in CudaConfig
  BY DEF Config
<1>2. w \in Config /\ (a.workers = Off => w = c) /\ w.gpu_done = c.gpu_done
  <2>1. CASE a.workers = "threads"
    <3>1. w = [c EXCEPT !.threads = 1, !.cpu = TRUE]
      BY <2>1
    <3> HIDE DEF w
    <3> QED BY <2>1, <3>1 DEF Config, Off
  <2>2. CASE a.workers = "no-cpu"
    <3>1. w = [c EXCEPT !.cpu = FALSE]
      BY <2>2
    <3> HIDE DEF w
    <3> QED BY <2>2, <3>1 DEF Config, Off
  <2>3. CASE a.workers = "opencl"
    <3> DEFINE o == [c.opencl EXCEPT !.on = TRUE]
    <3>1. o \in OpenclConfig
      BY <1>1 DEF OpenclConfig
    <3>2. w = [c EXCEPT !.opencl = o]
      BY <2>3
    <3> HIDE DEF w, o
    <3> QED BY <2>3, <3>1, <3>2 DEF Config, Off
  <2>4. CASE a.workers = "opencl-all"
    <3> DEFINE o == [c.opencl EXCEPT !.on = TRUE, !.devices = <<>>]
    <3>1. o \in OpenclConfig
      <4>1. <<>> \in Seq(Device)
        BY EmptySeq
      <4> QED BY <1>1, <4>1 DEF OpenclConfig
    <3>2. w = [c EXCEPT !.opencl = o]
      BY <1>1, <2>4 DEF Config, OpenclConfig
    <3> HIDE DEF w, o
    <3> QED BY <2>4, <3>1, <3>2 DEF Config, Off
  <2>5. CASE a.workers = "cuda"
    <3> DEFINE o == [c.cuda EXCEPT !.on = TRUE]
    <3>1. o \in CudaConfig
      BY <1>1 DEF CudaConfig
    <3>2. w = [c EXCEPT !.cuda = o]
      BY <2>5
    <3> HIDE DEF w, o
    <3> QED BY <2>5, <3>1, <3>2 DEF Config, Off
  <2>6. CASE a.workers = Off
    BY <2>6 DEF Off
  <2> QED BY <2>1, <2>2, <2>3, <2>4, <2>5, <2>6 DEF Args
<1>3. ApplyArgs(c, a) =
          CASE a.autotune = "force" -> [w EXCEPT !.enabled = TRUE, !.cpu_done = FALSE, !.gpu_done = FALSE]
            [] a.autotune = "off"   -> [w EXCEPT !.enabled = FALSE]
            [] OTHER -> w
  BY DEF ApplyArgs
<1> HIDE DEF w
<1>4. CASE a.autotune = "force"
  <2>1. ApplyArgs(c, a) = [w EXCEPT !.enabled = TRUE, !.cpu_done = FALSE, !.gpu_done = FALSE]
    BY <1>3, <1>4
  <2> QED BY <1>2, <1>4, <2>1 DEF Config, Off
<1>5. CASE a.autotune = "off"
  <2>1. ApplyArgs(c, a) = [w EXCEPT !.enabled = FALSE]
    BY <1>3, <1>5
  <2> QED BY <1>2, <1>5, <2>1 DEF Config, Off
<1>6. CASE a.autotune = Off
  <2>1. ApplyArgs(c, a) = w
    BY <1>3, <1>6 DEF Off
  <2> QED BY <1>2, <2>1
<1> QED BY <1>4, <1>5, <1>6 DEF Args

(* main's default for the threads: a count the CPU uses stays. *)
LEMMA NormalizedTyped ==
    ASSUME NEW c \in Config, machine \in Machine
    PROVE  /\ Normalized(c) \in Config
           /\ ~Normalized(c).cpu => Normalized(c).threads = 0
           /\ Normalized(c) = [c EXCEPT !.threads = Normalized(c).threads]
           /\ c.cpu /\ c.threads > 0 => Normalized(c).threads = c.threads
<1> DEFINE t == IF ~c.cpu THEN 0 ELSE IF c.threads <= 0 THEN machine.threads ELSE c.threads
<1>1. c.threads \in Nat /\ machine.threads \in Nat /\ c.cpu \in BOOLEAN
  BY DEF Config, Machine
<1>2. t \in Nat /\ (~c.cpu => t = 0)
  BY <1>1
<1>3. Normalized(c) = [c EXCEPT !.threads = t]
  BY DEF Normalized
<1>4. c.cpu /\ c.threads > 0 => t = c.threads
  BY <1>1
<1> HIDE DEF t
<1> QED BY <1>2, <1>3, <1>4 DEF Config

-----------------------------------------------------------------------------
(* The modes and the settings that are measured.                           *)

(* A function on 1..n is a sequence. *)
LEMMA FunctionIsSeq ==
    ASSUME NEW S, NEW n \in Nat, NEW f \in [1..n -> S]
    PROVE  f \in Seq(S) /\ Len(f) = n
  OBVIOUS

(* No thread count is 0 or over the configured one. *)
LEMMA ThreadCandidatesTyped ==
    ASSUME NEW n \in Nat
    PROVE  ThreadCandidates(n) \in Seq(1..n)
<1> DEFINE raw == <<n, n - 1, (3 * n + 3) \div 4, (2 * n + 2) \div 3, n \div 2, 1>>
           s == [i \in 1..6 |-> IF raw[i] > n THEN n ELSE raw[i]]
<1>1. ASSUME NEW i \in 1..6 PROVE raw[i] \in Int
  <2>1. (3 * n + 3) \div 4 \in Int /\ (2 * n + 2) \div 3 \in Int /\ n \div 2 \in Int
    OBVIOUS
  <2>2. i = 1 \/ i = 2 \/ i = 3 \/ i = 4 \/ i = 5 \/ i = 6
    OBVIOUS
  <2> QED BY <2>1, <2>2
<1> HIDE DEF raw
<1>2. s \in [1..6 -> Int]
  BY <1>1
<1>3. s \in Seq(Int)
  <2> HIDE DEF s
  <2> QED BY <1>2, FunctionIsSeq
<1>4. ThreadCandidates(n) = Once(s, 1..n)
  BY DEF ThreadCandidates, raw
<1> HIDE DEF s
<1> QED BY <1>3, <1>4, OnceTyped

(* A mode a configuration allows uses no worker kind that is off in it. *)
LEMMA ModeAllowed ==
    ASSUME NEW c \in Config, NEW n \in Nat, NEW a \in BOOLEAN, NEW o \in OpenclConfig, NEW q \in CudaConfig,
           n <= c.threads, o.on => c.opencl.on, q.on => c.cuda.on, ~o.on => o.devices = <<>>,
           n > 0 \/ o.on \/ q.on
    PROVE  Mode(n, a, o, q) \in ModesOf(c)
<1> DEFINE m == Mode(n, a, o, q)
<1>1. m = [threads |-> n, affinity |-> a /\ n > 0, opencl |-> o, cuda |-> q]
  BY DEF Mode
<1>2. (a /\ n > 0) \in BOOLEAN
  OBVIOUS
<1>3. m \in Modes
  BY <1>1, <1>2 DEF Modes
<1>4. m.threads = n /\ m.opencl = o /\ m.cuda = q
  BY <1>1
<1> HIDE DEF m
<1>5. m \in ModesOf(c)
  BY <1>3, <1>4 DEF ModesOf, HasGpu
<1> QED BY <1>5 DEF m

(* A sequence of one element. *)
LEMMA SingleSeq ==
    ASSUME NEW S, NEW x \in S
    PROVE  <<x>> \in Seq(S)
  OBVIOUS

(* The modes with CPU threads are allowed ones. *)
LEMMA CpuModesAllowed ==
    ASSUME NEW c \in Config, NEW o \in OpenclConfig, NEW q \in CudaConfig, machine \in Machine,
           o.on => c.opencl.on, q.on => c.cuda.on, ~o.on => o.devices = <<>>
    PROVE  CpuModes(c, o, q) \in Seq(ModesOf(c))
<1> DEFINE counts == ThreadCandidates(c.threads)
           OfCount(n) == <<Mode(n, FALSE, o, q)>>
                         \o (IF machine.affinity THEN <<Mode(n, TRUE, o, q)>> ELSE <<>>)
           ss == [i \in 1..Len(counts) |-> OfCount(counts[i])]
<1>1. c.threads \in Nat
  BY DEF Config
<1>2. counts \in Seq(1..c.threads)
  BY <1>1, ThreadCandidatesTyped
<1>3. CpuModes(c, o, q) = FlattenSeq(ss)
  BY DEF CpuModes
<1> HIDE DEF counts
<1>4. ASSUME NEW n \in 1..c.threads PROVE OfCount(n) \in Seq(ModesOf(c))
  <2>1. n \in Nat /\ n <= c.threads /\ n > 0
    BY <1>1
  <2>2. Mode(n, FALSE, o, q) \in ModesOf(c) /\ Mode(n, TRUE, o, q) \in ModesOf(c)
    BY <2>1, ModeAllowed
  <2> DEFINE one == <<Mode(n, FALSE, o, q)>>
             two == IF machine.affinity THEN <<Mode(n, TRUE, o, q)>> ELSE <<>>
  <2>3. one \in Seq(ModesOf(c))
    BY <2>2, SingleSeq
  <2>4. two \in Seq(ModesOf(c))
    <3>1. <<>> \in Seq(ModesOf(c)) /\ <<Mode(n, TRUE, o, q)>> \in Seq(ModesOf(c))
      BY <2>2, SingleSeq, EmptySeq
    <3> QED BY <3>1
  <2> HIDE DEF one, two
  <2>5. one \o two \in Seq(ModesOf(c))
    BY <2>3, <2>4, ConcatProperties
  <2> QED BY <2>5 DEF one, two
<1>5. Len(counts) \in Nat /\ \A i \in 1..Len(counts) : counts[i] \in 1..c.threads
  BY <1>2, ElementOfSeq, LenProperties
<1> HIDE DEF OfCount
<1>6. ss \in [1..Len(counts) -> Seq(ModesOf(c))]
  BY <1>4, <1>5
<1>7. ss \in Seq(Seq(ModesOf(c)))
  <2> HIDE DEF ss
  <2> QED BY <1>5, <1>6, FunctionIsSeq
<1> HIDE DEF ss
<1> QED BY <1>3, <1>7, FlattenTyped

(* With the CPU off there are none of them. *)
LEMMA WithCpuTyped ==
    ASSUME NEW S, NEW c, NEW modes \in Seq(S)
    PROVE  WithCpu(c, modes) \in Seq(S)
<1>1. <<>> \in Seq(S)
  BY EmptySeq
<1> QED BY <1>1 DEF WithCpu

(* The parts of a mode without GPUs. *)
LEMMA NoGpusAllowed ==
    /\ NoOpencl \in OpenclConfig /\ NoCuda \in CudaConfig
    /\ ~NoOpencl.on /\ NoOpencl.devices = <<>> /\ ~NoCuda.on
  BY DefaultsTyped DEF NoOpencl, NoCuda

(* The modes of the CUDA section are allowed ones. *)
LEMMA CudaModesAllowed ==
    ASSUME NEW c \in Config, c.cuda.on, NEW s \in Settings, machine \in Machine
    PROVE  CudaModes(c, s) \in Seq(ModesOf(c))
<1> DEFINE q == [on |-> TRUE, base |-> s]
<1>1. q \in CudaConfig /\ q.on
  BY DEF CudaConfig
<1>2. CudaModes(c, s) = <<Mode(0, FALSE, NoOpencl, q)>> \o WithCpu(c, CpuModes(c, NoOpencl, q))
  BY DEF CudaModes
<1> HIDE DEF q
<1>3. c.threads \in Nat /\ 0 <= c.threads
  BY DEF Config
<1>4. Mode(0, FALSE, NoOpencl, q) \in ModesOf(c)
  BY <1>1, <1>3, NoGpusAllowed, ModeAllowed
<1>5. <<Mode(0, FALSE, NoOpencl, q)>> \in Seq(ModesOf(c))
  BY <1>4, SingleSeq
<1>6. CpuModes(c, NoOpencl, q) \in Seq(ModesOf(c))
  BY <1>1, NoGpusAllowed, CpuModesAllowed
<1>7. WithCpu(c, CpuModes(c, NoOpencl, q)) \in Seq(ModesOf(c))
  BY <1>6, WithCpuTyped
<1> QED BY <1>2, <1>5, <1>7, ConcatProperties

(* A list of GPUs is an OpenCL configuration that is on. *)
LEMMA DeviceListTyped ==
    ASSUME NEW c \in Config, NEW d \in Seq(Device)
    PROVE  DeviceList(c, d) \in OpenclConfig /\ DeviceList(c, d).on
<1>1. c.opencl.base \in Settings
  BY DEF Config, OpenclConfig
<1> QED BY <1>1 DEF DeviceList, OpenclConfig

(* A list of GPUs, alone and with the CPU. *)
LEMMA PairOfModesAllowed ==
    ASSUME NEW c \in Config, c.opencl.on, NEW d \in Seq(Device)
    PROVE  PairOfModes(c, d) \in Seq(ModesOf(c))
<1> DEFINE o == DeviceList(c, d)
           alone == <<Mode(0, FALSE, o, NoCuda)>>
           both == <<Mode(c.threads, c.affinity, o, NoCuda)>>
<1>1. o \in OpenclConfig /\ o.on
  BY DeviceListTyped
<1>2. PairOfModes(c, d) = alone \o WithCpu(c, both)
  BY DEF PairOfModes
<1> HIDE DEF o
<1>3. c.threads \in Nat /\ 0 <= c.threads /\ c.threads <= c.threads /\ c.affinity \in BOOLEAN
  BY DEF Config
<1>4. Mode(0, FALSE, o, NoCuda) \in ModesOf(c) /\ Mode(c.threads, c.affinity, o, NoCuda) \in ModesOf(c)
  BY <1>1, <1>3, NoGpusAllowed, ModeAllowed
<1>5. alone \in Seq(ModesOf(c)) /\ both \in Seq(ModesOf(c))
  BY <1>4, SingleSeq
<1> HIDE DEF alone, both
<1>6. WithCpu(c, both) \in Seq(ModesOf(c))
  BY <1>5, WithCpuTyped
<1> QED BY <1>2, <1>5, <1>6, ConcatProperties

(* A list without one element. *)
LEMMA RemoveAtTyped ==
    ASSUME NEW S, NEW s \in Seq(S), NEW i \in 1..Len(s)
    PROVE  RemoveAt(s, i) \in Seq(S)
<1>1. Len(s) \in Nat /\ \A j \in 1..Len(s) : s[j] \in S
  BY ElementOfSeq, LenProperties
<1>2. SubSeq(s, 1, i - 1) \in Seq(S)
  <2>1. i - 1 \in Int /\ 1 \in Int /\ \A j \in 1..(i - 1) : s[j] \in S
    BY <1>1
  <2> QED BY <2>1, SubSeqProperties
<1>3. SubSeq(s, i + 1, Len(s)) \in Seq(S)
  <2>1. i + 1 \in Int /\ Len(s) \in Int /\ \A j \in (i + 1)..Len(s) : s[j] \in S
    BY <1>1
  <2> QED BY <2>1, SubSeqProperties
<1> QED BY <1>2, <1>3, ConcatProperties DEF RemoveAt

(* The modes of the OpenCL section are allowed ones. *)
LEMMA OpenclModesAllowed ==
    ASSUME NEW c \in Config, c.opencl.on, NEW d \in Seq(Device), machine \in Machine
    PROVE  OpenclModes(c, d) \in Seq(ModesOf(c))
<1> DEFINE n == Len(d)
           k == IF n > 2 THEN n ELSE 0
           o == DeviceList(c, d)
           all == <<Mode(0, FALSE, o, NoCuda)>>
           cpu == WithCpu(c, CpuModes(c, o, NoCuda))
           each == [i \in 1..n |-> PairOfModes(c, <<d[i]>>)]
           butone == [i \in 1..k |-> PairOfModes(c, RemoveAt(d, i))]
<1>1. OpenclModes(c, d) = ((all \o cpu) \o FlattenSeq(each)) \o FlattenSeq(butone)
  BY DEF OpenclModes
<1>2. n \in Nat /\ k \in Nat /\ k <= n /\ \A i \in 1..n : d[i] \in Device
  BY ElementOfSeq, LenProperties
<1>3. o \in OpenclConfig /\ o.on
  BY DeviceListTyped
<1> HIDE DEF o, n, k
<1>4. all \in Seq(ModesOf(c))
  <2>1. c.threads \in Nat /\ 0 <= c.threads
    BY DEF Config
  <2>2. Mode(0, FALSE, o, NoCuda) \in ModesOf(c)
    BY <1>3, <2>1, NoGpusAllowed, ModeAllowed
  <2> QED BY <2>2, SingleSeq
<1>5. cpu \in Seq(ModesOf(c))
  <2>1. CpuModes(c, o, NoCuda) \in Seq(ModesOf(c))
    BY <1>3, NoGpusAllowed, CpuModesAllowed
  <2> QED BY <2>1, WithCpuTyped
<1>6. each \in Seq(Seq(ModesOf(c)))
  <2>1. ASSUME NEW i \in 1..n PROVE PairOfModes(c, <<d[i]>>) \in Seq(ModesOf(c))
    <3>1. <<d[i]>> \in Seq(Device)
      BY <1>2, SingleSeq
    <3> QED BY <3>1, PairOfModesAllowed
  <2>2. each \in [1..n -> Seq(ModesOf(c))]
    BY <2>1
  <2> HIDE DEF each
  <2> QED BY <1>2, <2>2, FunctionIsSeq
<1>7. butone \in Seq(Seq(ModesOf(c)))
  <2>1. ASSUME NEW i \in 1..k PROVE PairOfModes(c, RemoveAt(d, i)) \in Seq(ModesOf(c))
    <3>1. i \in 1..Len(d)
      BY <1>2 DEF n
    <3>2. RemoveAt(d, i) \in Seq(Device)
      BY <3>1, RemoveAtTyped
    <3> QED BY <3>2, PairOfModesAllowed
  <2>2. butone \in [1..k -> Seq(ModesOf(c))]
    BY <2>1
  <2> HIDE DEF butone
  <2> QED BY <1>2, <2>2, FunctionIsSeq
<1> HIDE DEF all, cpu, each, butone
<1>8. FlattenSeq(each) \in Seq(ModesOf(c)) /\ FlattenSeq(butone) \in Seq(ModesOf(c))
  BY <1>6, <1>7, FlattenTyped
<1>9. all \o cpu \in Seq(ModesOf(c))
  BY <1>4, <1>5, ConcatProperties
<1>10. (all \o cpu) \o FlattenSeq(each) \in Seq(ModesOf(c))
  BY <1>8, <1>9, ConcatProperties
<1> QED BY <1>1, <1>8, <1>10, ConcatProperties

(* The candidates of a probe are settings. *)
LEMMA CandidatesTyped ==
    ASSUME NEW base \in Settings, NEW kernels \in Seq(Kernels)
    PROVE  Candidates(base, kernels) \in Seq(Settings)
<1> DEFINE ks == Once(<<base.kernel>> \o kernels, Kernels \ {"auto"})
           ns == Once(<<base.npi>> \o Npis, Nat)
           bs == Backends(base)
           Candidate(backend, kernel, npi) ==
              IF Compatible(backend, kernel) /\ ForcedNpi(kernel) \in {0, npi}
              THEN <<[backend |-> backend, kernel |-> kernel, npi |-> npi, batch |-> base.batch]>>
              ELSE <<>>
           OfKernel(b, k) == [n \in 1..Len(ns) |-> Candidate(bs[b], ks[k], ns[n])]
           OfBackend(b) == [k \in 1..Len(ks) |-> FlattenSeq(OfKernel(b, k))]
           all == [b \in 1..Len(bs) |-> FlattenSeq(OfBackend(b))]
           B == {"auto", "compat10", "modern", "cuda"}
<1>1. base.kernel \in Kernels /\ base.npi \in Nat /\ base.batch \in Nat /\ base.backend \in B
  BY DEF Settings
<1>2. ks \in Seq(Kernels \ {"auto"})
  <2>1. <<base.kernel>> \in Seq(Kernels)
    BY <1>1, SingleSeq
  <2>2. <<base.kernel>> \o kernels \in Seq(Kernels)
    BY <2>1, ConcatProperties
  <2> QED BY <2>2, OnceTyped
<1>3. ns \in Seq(Nat)
  <2>1. <<base.npi>> \in Seq(Nat)
    BY <1>1, SingleSeq
  <2>2. <<base.npi>> \o Npis \in Seq(Nat)
    BY <2>1, AutotuneAssumption, ConcatProperties
  <2> QED BY <2>2, OnceTyped
<1>4. bs \in Seq(B)
  <2>1. CASE base.backend = "auto"
    <3>1. bs = <<"compat10", "modern">>
      BY <2>1 DEF Backends
    <3>2. <<"compat10", "modern">> \in Seq(B)
      OBVIOUS
    <3> QED BY <3>1, <3>2
  <2>2. CASE base.backend # "auto"
    <3>1. bs = <<base.backend>>
      BY <2>2 DEF Backends
    <3> HIDE DEF bs, B
    <3> QED BY <1>1, <3>1, SingleSeq
  <2> QED BY <2>1, <2>2
<1>5. Candidates(base, kernels) = FlattenSeq(all)
  BY DEF Candidates
<1> HIDE DEF ks, ns, bs
<1>6. ASSUME NEW x \in B, NEW y \in Kernels, NEW z \in Nat PROVE Candidate(x, y, z) \in Seq(Settings)
  <2> DEFINE s == [backend |-> x, kernel |-> y, npi |-> z, batch |-> base.batch]
  <2>1. s \in Settings
    BY <1>1 DEF Settings
  <2> HIDE DEF s
  <2>2. <<s>> \in Seq(Settings) /\ <<>> \in Seq(Settings)
    BY <2>1, SingleSeq, EmptySeq
  <2> QED BY <2>2 DEF s
<1> HIDE DEF Candidate
<1>7. /\ Len(bs) \in Nat /\ \A i \in 1..Len(bs) : bs[i] \in B
      /\ Len(ks) \in Nat /\ \A i \in 1..Len(ks) : ks[i] \in Kernels
      /\ Len(ns) \in Nat /\ \A i \in 1..Len(ns) : ns[i] \in Nat
  <2>1. Len(bs) \in Nat /\ \A i \in 1..Len(bs) : bs[i] \in B
    BY <1>4, ElementOfSeq, LenProperties
  <2>2. Len(ks) \in Nat /\ \A i \in 1..Len(ks) : ks[i] \in Kernels \ {"auto"}
    BY <1>2, ElementOfSeq, LenProperties
  <2>3. Len(ns) \in Nat /\ \A i \in 1..Len(ns) : ns[i] \in Nat
    BY <1>3, ElementOfSeq, LenProperties
  <2> QED BY <2>1, <2>2, <2>3
<1> HIDE DEF B
<1>8. ASSUME NEW b \in 1..Len(bs), NEW k \in 1..Len(ks) PROVE FlattenSeq(OfKernel(b, k)) \in Seq(Settings)
  <2>1. OfKernel(b, k) \in [1..Len(ns) -> Seq(Settings)]
    BY <1>6, <1>7
  <2> HIDE DEF OfKernel
  <2>2. OfKernel(b, k) \in Seq(Seq(Settings))
    BY <1>7, <2>1, FunctionIsSeq
  <2> QED BY <2>2, FlattenTyped
<1> HIDE DEF OfKernel
<1>9. ASSUME NEW b \in 1..Len(bs) PROVE FlattenSeq(OfBackend(b)) \in Seq(Settings)
  <2>1. OfBackend(b) \in [1..Len(ks) -> Seq(Settings)]
    BY <1>8
  <2> HIDE DEF OfBackend
  <2>2. OfBackend(b) \in Seq(Seq(Settings))
    BY <1>7, <2>1, FunctionIsSeq
  <2> QED BY <2>2, FlattenTyped
<1> HIDE DEF OfBackend
<1>10. all \in [1..Len(bs) -> Seq(Settings)]
  BY <1>9
<1> HIDE DEF all
<1>11. all \in Seq(Seq(Settings))
  BY <1>7, <1>10, FunctionIsSeq
<1> QED BY <1>5, <1>11, FlattenTyped

(* The batch sizes of a probe. *)
LEMMA BatchCandidatesTyped ==
    ASSUME NEW base \in Settings
    PROVE  BatchCandidates(base) \in Seq(Nat)
<1>1. base.batch \in Nat
  BY DEF Settings
<1>2. <<base.batch>> \o Batches \in Seq(Nat)
  BY <1>1, SingleSeq, AutotuneAssumption, ConcatProperties
<1> QED BY <1>2, OnceTyped DEF BatchCandidates

(* A probe that begins has measured nothing. *)
LEMMA NewProbeTyped ==
    ASSUME NEW base \in Settings, NEW kernels \in Seq(Kernels), NEW on \in Nat
    PROVE  /\ NewProbe(on, base, kernels) \in Probes("kernel", Settings)
           /\ NewProbe(on, base, kernels).on = on /\ NewProbe(on, base, kernels).stage = "kernel"
           /\ NewProbe(on, base, kernels).rate = 0 /\ NewProbe(on, base, kernels).seen = 0
<1>1. Candidates(base, kernels) \in Seq(Settings)
  BY CandidatesTyped
<1> QED BY <1>1 DEF NewProbe, Probes

-----------------------------------------------------------------------------
(* The measurements.                                                       *)

(* Allowed modes are modes. *)
LEMMA ModesOfTyped ==
    ASSUME NEW c
    PROVE  /\ ModesOf(c) \subseteq Modes /\ ResultsOf(c) \subseteq Results
           /\ Seq(ModesOf(c)) \subseteq Seq(Modes) /\ Seq(ResultsOf(c)) \subseteq Seq(Results)
<1>1. ModesOf(c) \subseteq Modes
  BY DEF ModesOf
<1> HIDE DEF ModesOf
<1>2. ResultsOf(c) \subseteq Results
  BY <1>1 DEF ResultsOf, Results
<1> QED BY <1>1, <1>2, SeqMonotonic

(* One measurement of a probe. *)
LEMMA BetterStaysNear ==
    ASSUME NEW p, NEW rate \in Nat, p.rate \in Nat, p.seen \in Nat, p.stage \in {"kernel", "batch"},
           100 * p.seen <= 102 * p.rate
    PROVE  LET seen == IF rate > p.seen THEN rate ELSE p.seen
           IN  /\ seen \in Nat
               /\ 100 * seen <= 102 * (IF Better(rate, p) THEN rate ELSE p.rate)
<1> DEFINE seen == IF rate > p.seen THEN rate ELSE p.seen
           x == p.rate
           y == p.seen
<1>1. x \in Nat /\ y \in Nat /\ 100 * y <= 102 * x
  OBVIOUS
<1>2. seen = IF rate > y THEN rate ELSE y
  OBVIOUS
<1>3. seen \in Nat /\ (seen = rate \/ seen = y) /\ seen >= y
  BY <1>1
<1>4. CASE Better(rate, p)
  <2>1. rate > 0 /\ (x = 0 \/ 100 * rate > 102 * x \/ 100 * rate > 101 * x)
    BY <1>4 DEF Better
  <2> HIDE DEF x, y, seen
  <2>2. rate >= x
    BY <1>1, <2>1
  <2>3. 100 * y <= 102 * rate
    BY <1>1, <2>2
  <2>4. 100 * seen <= 102 * rate
    BY <1>3, <2>3
  <2> QED BY <1>3, <1>4, <2>4 DEF seen, x, y
<1>5. CASE ~Better(rate, p)
  <2>1. rate = 0 \/ (x # 0 /\ (100 * rate <= 102 * x \/ 100 * rate <= 101 * x))
    BY <1>1, <1>5 DEF Better
  <2> HIDE DEF x, y, seen
  <2>2. 100 * rate <= 102 * x
    BY <1>1, <2>1
  <2>3. 100 * seen <= 102 * x
    BY <1>1, <1>3, <2>2
  <2> QED BY <1>3, <1>5, <2>3 DEF seen, x, y
<1> QED BY <1>4, <1>5

(* One measurement keeps the probe what it is, and near the best. *)
LEMMA MeasuredTyped ==
    ASSUME NEW p, NEW rate \in Nat, p.todo # <<>>, p.stage \in {"kernel", "batch"},
           p.stage = "kernel" => p \in Probes("kernel", Settings),
           p.stage = "batch" => p \in Probes("batch", Nat),
           100 * p.seen <= 102 * p.rate
    PROVE  LET q == Measured(p, rate)
           IN  /\ q.stage = p.stage /\ q.on = p.on
               /\ p.stage = "kernel" => q \in Probes("kernel", Settings)
               /\ p.stage = "batch" => q \in Probes("batch", Nat)
               /\ 100 * q.seen <= 102 * q.rate
<1> DEFINE q == Measured(p, rate)
           seen == IF rate > p.seen THEN rate ELSE p.seen
           next == [p EXCEPT !.todo = Tail(p.todo), !.seen = seen]
           s == IF p.stage = "kernel" THEN Head(p.todo) ELSE [p.best EXCEPT !.batch = Head(p.todo)]
<1>1. q = IF Better(rate, p) THEN [next EXCEPT !.best = s, !.rate = rate] ELSE next
  BY DEF Measured
<1>2. p.rate \in Nat /\ p.seen \in Nat /\ p.best \in Settings
  BY DEF Probes
<1>3. seen \in Nat /\ 100 * seen <= 102 * (IF Better(rate, p) THEN rate ELSE p.rate)
  BY <1>2, BetterStaysNear
<1> HIDE DEF seen
<1>4. s \in Settings
  <2>1. CASE p.stage = "kernel"
    <3>1. p.todo \in Seq(Settings)
      BY <2>1 DEF Probes
    <3>2. Head(p.todo) \in Settings
      BY <3>1, HeadTailProperties
    <3> QED BY <2>1, <3>2
  <2>2. CASE p.stage = "batch"
    <3>1. p.todo \in Seq(Nat)
      BY <2>2 DEF Probes
    <3>2. Head(p.todo) \in Nat
      BY <3>1, HeadTailProperties
    <3>3. [p.best EXCEPT !.batch = Head(p.todo)] \in Settings
      BY <1>2, <3>2 DEF Settings
    <3> QED BY <2>2, <3>3
  <2> QED BY <2>1, <2>2
<1> HIDE DEF s
<1>5. ASSUME NEW T, NEW stage, p \in Probes(stage, T)
      PROVE  q.stage = p.stage /\ q.on = p.on /\ q \in Probes(stage, T) /\ 100 * q.seen <= 102 * q.rate
  <2>1. Tail(p.todo) \in Seq(T)
    <3>1. p.todo \in Seq(T)
      BY <1>5 DEF Probes
    <3> QED BY <3>1, HeadTailProperties
  <2> DEFINE t == Tail(p.todo)
  <2> HIDE DEF t
  <2>2. t \in Seq(T) /\ next = [p EXCEPT !.todo = t, !.seen = seen]
    BY <2>1 DEF t
  <2> HIDE DEF next
  <2>3. next \in Probes(stage, T) /\ next.stage = p.stage /\ next.on = p.on /\ next.seen = seen /\ next.rate = p.rate
    BY <1>3, <1>5, <2>2 DEF Probes
  <2>4. CASE Better(rate, p)
    <3>1. q = [next EXCEPT !.best = s, !.rate = rate]
      BY <1>1, <2>4
    <3> HIDE DEF q
    <3>2. q \in Probes(stage, T) /\ q.stage = p.stage /\ q.on = p.on /\ q.seen = seen /\ q.rate = rate
      BY <1>4, <2>3, <3>1 DEF Probes
    <3> QED BY <1>3, <2>4, <3>2
  <2>5. CASE ~Better(rate, p)
    <3>1. q = next
      BY <1>1, <2>5
    <3> QED BY <1>3, <2>3, <2>5, <3>1
  <2> QED BY <2>4, <2>5
<1> HIDE DEF q
<1> QED BY <1>5 DEF q

(* The configuration of the mode selected: it is allowed by the one there  *)
(* was, and what it uses has been measured.                                *)
LEMMA AdoptIsSettled ==
    ASSUME NEW c \in Config, ~c.cpu => c.threads = 0, NEW rs \in Seq(ResultsOf(c)), Fastest(rs) # 0
    PROVE  LET d == Adopt(c, rs)
           IN  /\ d \in Config /\ Settled(d)
               /\ d.cpu => c.cpu
               /\ d.opencl.on => c.opencl.on
               /\ d.cuda.on => c.cuda.on
               /\ d.cpu \/ d.opencl.on \/ d.cuda.on
               /\ d.threads <= c.threads
               /\ d.opencl.on => "opencl" \in KindsIn(rs)
               /\ d.cuda.on => "cuda" \in KindsIn(rs)
               /\ d.gpu_done => c.gpu_done \/ KindsIn(rs) # {}
<1> DEFINE d == Adopt(c, rs)
           m == Selected(rs).mode
           x == c.cpu_done \/ \E i \in DOMAIN rs : rs[i].rate > 0 /\ rs[i].mode.threads > 0
           y == c.gpu_done \/ \E i \in DOMAIN rs : rs[i].rate > 0 /\ HasGpu(rs[i].mode)
<1>1. rs \in Seq(Results) /\ DOMAIN rs = 1..Len(rs)
  BY ModesOfTyped, LenProperties
<1>2. PICK b \in 1..Len(rs) : Selected(rs) = rs[b] /\ rs[b].rate > 0
  BY <1>1, SelectedIsRight
<1>3. rs[b] \in ResultsOf(c)
  BY ElementOfSeq
<1>4. m \in ModesOf(c) /\ m = rs[b].mode
  BY <1>2, <1>3 DEF ResultsOf
<1>5. d = [c EXCEPT !.cpu = m.threads > 0, !.threads = m.threads, !.affinity = m.affinity,
                    !.opencl = m.opencl, !.cuda = m.cuda, !.cpu_done = x, !.gpu_done = y]
  BY DEF Adopt
<1>6. m.threads > 0 => x
  BY <1>1, <1>2, <1>4
<1>7. HasGpu(m) => y
  BY <1>1, <1>2, <1>4
<1>8. x \in BOOLEAN /\ y \in BOOLEAN
  <2>1. c.cpu_done \in BOOLEAN /\ c.gpu_done \in BOOLEAN
    BY DEF Config
  <2> QED BY <2>1
<1> HIDE DEF m, x, y, d
<1>9. /\ m.threads \in Nat /\ m.affinity \in BOOLEAN /\ m.opencl \in OpenclConfig /\ m.cuda \in CudaConfig
      /\ m.threads <= c.threads /\ (m.threads > 0 \/ HasGpu(m))
      /\ m.opencl.on => c.opencl.on
      /\ m.cuda.on => c.cuda.on
      /\ ~m.opencl.on => m.opencl.devices = <<>>
  BY <1>4 DEF ModesOf, Modes
<1>10. d \in Config
  <2> DEFINE z == m.threads > 0
             t == m.threads
             a == m.affinity
             o == m.opencl
             q == m.cuda
  <2>1. z \in BOOLEAN /\ t \in Nat /\ a \in BOOLEAN /\ o \in OpenclConfig /\ q \in CudaConfig
    BY <1>9
  <2>2. d = [c EXCEPT !.cpu = z, !.threads = t, !.affinity = a, !.opencl = o, !.cuda = q,
                      !.cpu_done = x, !.gpu_done = y]
    BY <1>5
  <2> HIDE DEF z, t, a, o, q
  <2> QED BY ONLY <1>8, <2>1, <2>2, c \in Config DEF Config
<1>11. /\ d.cpu = (m.threads > 0) /\ d.threads = m.threads /\ d.opencl = m.opencl /\ d.cuda = m.cuda
       /\ d.cpu_done = x /\ d.gpu_done = y
  BY <1>5 DEF Config
<1>12. c.threads \in Nat /\ (m.threads > 0 => c.threads # 0)
  BY <1>9 DEF Config
<1>13. Settled(d)
  BY <1>6, <1>7, <1>9, <1>11 DEF Settled, HasGpu
<1>14. /\ d.cpu => c.cpu
       /\ d.opencl.on => c.opencl.on
       /\ d.cuda.on => c.cuda.on
       /\ d.cpu \/ d.opencl.on \/ d.cuda.on
       /\ d.threads <= c.threads
  BY <1>9, <1>11, <1>12 DEF HasGpu
<1>15. /\ d.opencl.on => "opencl" \in KindsIn(rs)
       /\ d.cuda.on => "cuda" \in KindsIn(rs)
  BY <1>1, <1>2, <1>4, <1>11 DEF KindsIn
<1>16. d.gpu_done => c.gpu_done \/ KindsIn(rs) # {}
  <2> SUFFICES ASSUME y, ~c.gpu_done PROVE KindsIn(rs) # {}
    BY <1>11
  <2>1. PICK i \in DOMAIN rs : rs[i].rate > 0 /\ HasGpu(rs[i].mode)
    BY DEF y
  <2>2. "opencl" \in KindsIn(rs) \/ "cuda" \in KindsIn(rs)
    BY <2>1 DEF KindsIn, HasGpu
  <2> QED BY <2>2
<1> QED BY <1>10, <1>13, <1>14, <1>15, <1>16 DEF d

(* What is saved differs from the configuration in the pools only, and     *)
(* keeps the further names of the file.                                    *)
LEMMA MergedIsConfig ==
    ASSUME NEW c \in Config, NEW f \in File, Settled(c)
    PROVE  LET w == Merged(c, f)
           IN  /\ w \in File /\ w.state = "good" /\ w.cfg = [c EXCEPT !.pools = w.cfg.pools]
               /\ w.cfg.pools = IF f.state = "good" THEN f.cfg.pools ELSE "default"
               /\ SaysTuned(w) => c.gpu_done \/ SaysTuned(f)
<1> DEFINE w == Merged(c, f)
           p == IF f.state = "good" THEN f.cfg.pools ELSE "default"
           v == IF c.opencl.on THEN c.opencl.devices ELSE <<>>
           n == IF f.state = "good" THEN f.alias ELSE NoAlias
           m == [c EXCEPT !.opencl.devices = v, !.pools = p]
<1>1. w = [state |-> "good", cfg |-> m, alias |-> n]
  BY DEF Merged
<1>2. p \in Pools /\ n \in Aliases
  <2>1. NoAlias \in Aliases
    BY DefaultsTyped DEF Torn, File
  <2> QED BY <2>1 DEF File, Config, Pools
<1>3. v = c.opencl.devices
  BY DEF Settled
<1>4. n.gpu_done = <<>> \/ (f.state = "good" /\ n = f.alias)
  BY DEF NoAlias
<1> HIDE DEF v, p, w, n
<1>5. c.opencl \in OpenclConfig
  BY DEF Config
<1>6. [c EXCEPT !.opencl.devices = v] = c
  BY <1>3, <1>5 DEF Config, OpenclConfig
<1>7. m = [c EXCEPT !.pools = p]
  BY <1>6
<1> HIDE DEF m
<1>8. m.pools = p /\ m \in Config /\ m.gpu_done = c.gpu_done
  BY <1>2, <1>7 DEF Config
<1>9. w \in File /\ w.state = "good" /\ w.cfg = m /\ w.alias = n
  BY <1>1, <1>2, <1>8 DEF File
<1>10. SaysTuned(w) => c.gpu_done \/ SaysTuned(f)
  BY <1>4, <1>8, <1>9 DEF SaysTuned, Over
<1> QED BY <1>7, <1>8, <1>9, <1>10 DEF w, p

-----------------------------------------------------------------------------
(* The steps of the autotuner.                                             *)

(* No probe is a probe that has measured nothing. *)
LEMMA NoProbeTyped ==
    /\ NoProbe \in Probes("kernel", Settings) /\ NoProbe.stage = "kernel" /\ NoProbe.on = -1
    /\ NoProbe.seen = 0 /\ NoProbe.rate = 0
<1>1. <<>> \in Seq(Settings)
  BY EmptySeq
<1> QED BY <1>1, DefaultsTyped DEF NoProbe, Probes

(* The first start finds the invariant. *)
LEMMA InitTunerInv == TunerInit => TunerInv
<1> SUFFICES ASSUME TunerInit PROVE TunerInv
  OBVIOUS
<1>1. PICK s \in Setups : machine = s.machine /\ file = s.file
  BY DEF TunerInit
<1>2. /\ path = FALSE /\ at = "off" /\ args = NoArgs /\ cfg = Defaults /\ before = Defaults
      /\ plan = <<>> /\ results = <<>> /\ gpus = <<>> /\ probe = NoProbe /\ written = Torn
      /\ kept = <<>> /\ user_pools = file.cfg.pools /\ spoiled = FALSE /\ starts = 0 /\ edits = 0
      /\ measured = IF SaysTuned(file) THEN {"opencl", "cuda"} ELSE {}
  BY DEF TunerInit, SaysTuned
<1>3. machine \in Machine /\ file \in File /\ (file.state # "good" => file.cfg.pools = "default")
  BY <1>1, SetupAssumption
<1>4. TunerTypeOK
  <2>1. plan \in Seq(Modes) /\ results \in Seq([mode : Modes, rate : Nat]) /\ gpus \in Seq(Device)
        /\ kept \in Seq(Config) /\ Len(results) = 0 /\ Len(gpus) = 0
    BY <1>2, EmptySeq
  <2>2. probe.on \in -1..Len(gpus) /\ probe.best \in Settings /\ probe.rate \in Nat
    <3>1. probe.on = -1 /\ probe.rate = 0
      BY <1>2, NoProbeTyped
    <3>2. probe.best \in Settings
      BY <1>2, NoProbeTyped DEF Probes
    <3> QED BY <2>1, <3>1, <3>2
  <2>3. user_pools \in Pools
    BY <1>2, <1>3 DEF File, Config
  <2>4. Len(results) <= MaxResults /\ starts \in 0..MaxStarts /\ edits \in 0..MaxEdits
    BY <1>2, <2>1, AutotuneAssumption
  <2>5. cfg \in Config /\ before \in Config /\ written \in File
    BY <1>2, DefaultsTyped
  <2> QED BY <1>2, <1>3, <2>1, <2>2, <2>3, <2>4, <2>5 DEF TunerTypeOK
<1>5. ProbeTyped
  BY <1>2, <1>3, NoProbeTyped DEF ProbeTyped
<1>6. TunedNearBest
  BY <1>2, NoProbeTyped DEF TunedNearBest
<1>7. FlagsVouched
  <2>1. ~cfg.gpu_done /\ ~SaysTuned(written)
    BY <1>2, DefaultsTyped DEF Defaults
  <2>2. SaysTuned(file) => measured # {}
    BY <1>2
  <2> QED BY <2>1, <2>2 DEF FlagsVouched
<1> QED BY <1>2, <1>3, <1>4, <1>5, <1>6, <1>7 DEF TunerInv, ProbePlace, Measurements, Measuring, OffIsEmpty,
           NothingSwitchedOn, Saving, Writing, StartsSound, GpuTuningNotSkipped, PoolsKept, NoPools, KeptFile

(* A step of the measurements: the file and the configuration stay. *)
LEMMA MeasuringStep ==
    ASSUME TunerInv, at \in Measuring, at' \in Measuring,
           UNCHANGED <<machine, file, path, args, cfg, written, ghosts, starts, edits>>,
           plan' \in Seq(ModesOf(cfg)), results' \in Seq(ResultsOf(cfg)), Len(results') <= MaxResults,
           gpus' \in Seq(Device), ProbeTyped', ProbePlace', TunedNearBest',
           at' = "resolve" => cfg.opencl.on,
           at' = "probe" => IF probe'.on = 0 THEN cfg.cuda.on ELSE cfg.opencl.on
    PROVE  TunerInv'
<1>1. /\ machine' = machine /\ file' = file /\ path' = path /\ args' = args /\ cfg' = cfg /\ written' = written
      /\ before' = before /\ kept' = kept /\ user_pools' = user_pools /\ spoiled' = spoiled
      /\ measured' = measured /\ starts' = starts /\ edits' = edits
  BY DEF ghosts
<1>2. at \notin {"save", "merge", "write", "mining"} /\ at' \notin {"off", "save", "merge", "write", "mining"}
  BY DEF Measuring
<1>3. TunerTypeOK'
  <2>1. plan' \in Seq(Modes) /\ results' \in Seq([mode : Modes, rate : Nat])
    BY ModesOfTyped DEF Results
  <2>2. probe'.on \in -1..Len(gpus') /\ probe'.best \in Settings /\ probe'.rate \in Nat
    <3>1. probe'.best \in Settings /\ probe'.rate \in Nat
      BY DEF ProbeTyped, Probes
    <3>2. Len(gpus') \in Nat
      BY LenProperties
    <3>3. probe'.on \in -1..Len(gpus')
      BY <3>2, NoProbeTyped DEF ProbePlace
    <3> QED BY <3>1, <3>3
  <2>3. at' \in {"off", "cpu", "resolve", "probe", "opencl", "cuda", "select", "save", "merge", "write", "mining"}
    BY DEF Measuring
  <2> QED BY <1>1, <2>1, <2>2, <2>3 DEF TunerInv, TunerTypeOK
<1>4. Measurements'
  BY <1>1 DEF TunerInv, Measurements, ModesOf, ResultsOf
<1>5. (OffIsEmpty /\ NothingSwitchedOn /\ Saving /\ Writing /\ FlagsVouched)'
  BY <1>1, <1>2 DEF TunerInv, OffIsEmpty, NothingSwitchedOn, Saving, Writing, FlagsVouched, SaysTuned
<1>6. (StartsSound /\ NoPools /\ KeptFile)'
  BY <1>1, <1>2 DEF TunerInv, StartsSound, GpuTuningNotSkipped, PoolsKept, NoPools, KeptFile
<1> QED BY <1>3, <1>4, <1>5, <1>6 DEF TunerInv

(* What the steps of the measurements start from. *)
LEMMA MeasuringFacts ==
    ASSUME TunerInv, at \in Measuring
    PROVE  /\ cfg \in Config /\ machine \in Machine /\ (~cfg.cpu => cfg.threads = 0) /\ cfg = before
           /\ plan \in Seq(ModesOf(cfg)) /\ results \in Seq(ResultsOf(cfg)) /\ Len(results) <= MaxResults
           /\ gpus \in Seq(Device)
           /\ cfg.opencl.base \in Settings /\ cfg.cuda.base \in Settings
<1>1. cfg \in Config /\ gpus \in Seq(Device) /\ Len(results) <= MaxResults
  BY DEF TunerInv, TunerTypeOK
<1>2. cfg.opencl.base \in Settings /\ cfg.cuda.base \in Settings
  BY <1>1 DEF Config, OpenclConfig, CudaConfig
<1>3. machine \in Machine
  BY DEF TunerInv, ProbeTyped
<1>4. /\ (~cfg.cpu => cfg.threads = 0) /\ cfg = before
      /\ plan \in Seq(ModesOf(cfg)) /\ results \in Seq(ResultsOf(cfg))
  BY DEF TunerInv, Measurements
<1> QED BY <1>1, <1>2, <1>3, <1>4

(* A mode measured is one that was planned. *)
LEMMA TestModeStep == ASSUME TunerInv, TestMode PROVE TunerInv'
<1>1. at \in Measuring /\ at' = at /\ at # "probe" /\ at # "resolve"
  BY DEF TestMode, Measuring
<1>2. UNCHANGED <<machine, file, path, args, cfg, written, ghosts, starts, edits>>
      /\ gpus' = gpus /\ probe' = probe
  BY DEF TestMode
<1>3. /\ cfg \in Config /\ machine \in Machine /\ (~cfg.cpu => cfg.threads = 0) /\ cfg = before
      /\ plan \in Seq(ModesOf(cfg)) /\ results \in Seq(ResultsOf(cfg)) /\ Len(results) <= MaxResults
      /\ gpus \in Seq(Device)
      /\ cfg.opencl.base \in Settings /\ cfg.cuda.base \in Settings
  BY <1>1, MeasuringFacts
<1>4. plan # <<>> /\ plan' = Tail(plan)
  BY DEF TestMode
<1>5. plan' \in Seq(ModesOf(cfg)) /\ Head(plan) \in ModesOf(cfg)
  BY <1>3, <1>4, HeadTailProperties
<1>6. PICK rate \in machine.modes :
          results' = IF Len(results) >= MaxResults THEN results
                     ELSE Append(results, [mode |-> Head(plan), rate |-> rate])
  BY DEF TestMode
<1>7. results' \in Seq(ResultsOf(cfg)) /\ Len(results') <= MaxResults
  <2>1. CASE Len(results) >= MaxResults
    BY <1>3, <1>6, <2>1
  <2>2. CASE ~(Len(results) >= MaxResults)
    <3>1. rate \in Nat
      BY <1>3 DEF Machine
    <3>2. [mode |-> Head(plan), rate |-> rate] \in ResultsOf(cfg)
      BY <1>5, <3>1 DEF ResultsOf
    <3>3. results' = Append(results, [mode |-> Head(plan), rate |-> rate])
      BY <1>6, <2>2
    <3>4. results' \in Seq(ResultsOf(cfg)) /\ Len(results') = Len(results) + 1
      BY <1>3, <3>2, <3>3, AppendProperties
    <3>5. Len(results) \in Nat
      BY <1>3, LenProperties
    <3> QED BY <2>2, <3>4, <3>5, AutotuneAssumption
  <2> QED BY <2>1, <2>2
<1>8. gpus' \in Seq(Device) /\ at' \in Measuring /\ (at' = "resolve" => cfg.opencl.on)
      /\ (at' = "probe" => IF probe'.on = 0 THEN cfg.cuda.on ELSE cfg.opencl.on)
  BY <1>1, <1>2, <1>3
<1>9. ProbeTyped' /\ ProbePlace' /\ TunedNearBest'
  BY <1>1, <1>2 DEF TunerInv, ProbeTyped, ProbePlace, TunedNearBest
<1> QED BY <1>1, <1>2, <1>5, <1>7, <1>8, <1>9, MeasuringStep

(* A probe that begins: of the CUDA device, or of an OpenCL GPU. *)
LEMMA NewProbeStep ==
    ASSUME machine' \in Machine, at' = "probe", NEW on \in 0..Len(gpus'), Len(gpus') \in Nat,
           NEW base \in Settings, NEW kernels \in Seq(Kernels), probe' = NewProbe(on, base, kernels)
    PROVE  ProbeTyped' /\ ProbePlace' /\ TunedNearBest' /\ probe'.on = on
<1>1. /\ probe' \in Probes("kernel", Settings)
      /\ probe'.on = on /\ probe'.stage = "kernel" /\ probe'.rate = 0 /\ probe'.seen = 0
  BY NewProbeTyped
<1> QED BY <1>1 DEF ProbeTyped, ProbePlace, TunedNearBest

(* The CUDA probe begins, or the selection. *)
LEMMA AfterOpenclStep ==
    ASSUME TunerInv, at \in Measuring, at # "probe", AfterOpencl, gpus' = gpus, plan' = plan, results' = results,
           UNCHANGED <<machine, file, path, args, cfg, written, ghosts, starts, edits>>
    PROVE  TunerInv'
<1>1. /\ cfg \in Config /\ machine \in Machine /\ (~cfg.cpu => cfg.threads = 0) /\ cfg = before
      /\ plan \in Seq(ModesOf(cfg)) /\ results \in Seq(ResultsOf(cfg)) /\ Len(results) <= MaxResults
      /\ gpus \in Seq(Device)
      /\ cfg.opencl.base \in Settings /\ cfg.cuda.base \in Settings
  BY MeasuringFacts
<1>2. machine' \in Machine /\ Len(gpus') \in Nat
  BY <1>1, LenProperties
<1>3. CASE cfg.cuda.on
  <2>1. at' = "probe" /\ probe' = NewProbe(0, cfg.cuda.base, CudaKernels)
    BY <1>3 DEF AfterOpencl
  <2>2. 0 \in 0..Len(gpus')
    BY <1>2
  <2>3. ProbeTyped' /\ ProbePlace' /\ TunedNearBest' /\ probe'.on = 0
    BY <1>1, <1>2, <2>1, <2>2, KernelsTyped, NewProbeStep
  <2>4. at' \in Measuring /\ at' # "resolve"
    BY <2>1 DEF Measuring
  <2>5. plan' \in Seq(ModesOf(cfg)) /\ results' \in Seq(ResultsOf(cfg)) /\ Len(results') <= MaxResults
        /\ gpus' \in Seq(Device)
    BY <1>1
  <2> QED BY <1>3, <2>3, <2>4, <2>5, MeasuringStep
<1>4. CASE ~cfg.cuda.on
  <2>1. at' = "select" /\ probe' = probe
    BY <1>4 DEF AfterOpencl
  <2>2. ProbeTyped' /\ ProbePlace' /\ TunedNearBest'
    BY <2>1 DEF TunerInv, ProbeTyped, ProbePlace, TunedNearBest
  <2>3. at' \in Measuring /\ at' # "resolve" /\ at' # "probe"
    BY <2>1 DEF Measuring
  <2>4. plan' \in Seq(ModesOf(cfg)) /\ results' \in Seq(ResultsOf(cfg)) /\ Len(results') <= MaxResults
        /\ gpus' \in Seq(Device)
    BY <1>1
  <2> QED BY <2>2, <2>3, <2>4, MeasuringStep
<1> QED BY <1>3, <1>4

(* The GPUs are resolved when OpenCL is on. *)
LEMMA AfterCpuStep == ASSUME TunerInv, AfterCpu PROVE TunerInv'
<1>1. at \in Measuring /\ at # "probe"
  BY DEF AfterCpu, SectionDone, Measuring
<1>2. UNCHANGED <<machine, file, path, args, cfg, written, ghosts, starts, edits>>
      /\ gpus' = gpus /\ plan' = plan /\ results' = results
  BY DEF AfterCpu
<1>3. CASE cfg.opencl.on
  <2>1. at' = "resolve" /\ probe' = probe
    BY <1>3 DEF AfterCpu
  <2>2. ProbeTyped' /\ ProbePlace' /\ TunedNearBest'
    BY <1>1, <1>2, <2>1 DEF TunerInv, ProbeTyped, ProbePlace, TunedNearBest
  <2>3. at' \in Measuring /\ at' # "probe"
    BY <2>1 DEF Measuring
  <2>4. plan' \in Seq(ModesOf(cfg)) /\ results' \in Seq(ResultsOf(cfg)) /\ Len(results') <= MaxResults
        /\ gpus' \in Seq(Device)
    BY <1>1, <1>2, MeasuringFacts
  <2> QED BY <1>1, <1>2, <1>3, <2>2, <2>3, <2>4, MeasuringStep
<1>4. CASE ~cfg.opencl.on
  <2>1. AfterOpencl
    BY <1>4 DEF AfterCpu
  <2> QED BY <1>1, <1>2, <2>1, AfterOpenclStep
<1> QED BY <1>3, <1>4

(* The first GPU of the ones resolved is probed. *)
LEMMA ResolveDevicesStep == ASSUME TunerInv, ResolveDevices PROVE TunerInv'
<1>1. at \in Measuring /\ at # "probe" /\ at = "resolve"
  BY DEF ResolveDevices, Measuring
<1>2. UNCHANGED <<machine, file, path, args, cfg, written, ghosts, starts, edits>>
      /\ plan' = plan /\ results' = results
  BY DEF ResolveDevices
<1>3. CASE AfterOpencl /\ gpus' = gpus
  BY <1>1, <1>2, <1>3, AfterOpenclStep
<1>4. CASE /\ machine.gpus > 0
           /\ gpus' = [i \in 1..machine.gpus |-> [id |-> i, set |-> cfg.opencl.base]]
           /\ at' = "probe" /\ probe' = NewProbe(1, cfg.opencl.base, OpenclKernels)
  <2>1. /\ cfg \in Config /\ machine \in Machine /\ (~cfg.cpu => cfg.threads = 0) /\ cfg = before
        /\ plan \in Seq(ModesOf(cfg)) /\ results \in Seq(ResultsOf(cfg)) /\ Len(results) <= MaxResults
        /\ gpus \in Seq(Device)
        /\ cfg.opencl.base \in Settings /\ cfg.cuda.base \in Settings
    BY <1>1, MeasuringFacts
  <2>2. machine.gpus \in Nat
    BY <2>1 DEF Machine
  <2>3. ASSUME NEW i \in 1..machine.gpus PROVE [id |-> i, set |-> cfg.opencl.base] \in Device
    <3>1. i \in Nat
      BY <2>2
    <3> QED BY <2>1, <3>1 DEF Device
  <2>4. gpus' \in [1..machine.gpus -> Device]
    BY <1>4, <2>3
  <2>5. gpus' \in Seq(Device) /\ Len(gpus') = machine.gpus
    BY <2>2, <2>4, FunctionIsSeq
  <2>6. machine' \in Machine /\ Len(gpus') \in Nat /\ 1 \in 0..Len(gpus')
    BY <1>2, <1>4, <2>1, <2>2, <2>5
  <2>7. ProbeTyped' /\ ProbePlace' /\ TunedNearBest' /\ probe'.on = 1
    BY <1>4, <2>1, <2>6, KernelsTyped, NewProbeStep
  <2>8. at' \in Measuring /\ at' # "resolve"
    BY <1>4 DEF Measuring
  <2>9. plan' \in Seq(ModesOf(cfg)) /\ results' \in Seq(ResultsOf(cfg)) /\ Len(results') <= MaxResults
    BY <1>2, <2>1
  <2>10. cfg.opencl.on
    BY <1>1 DEF TunerInv, Measurements
  <2> QED BY <1>1, <1>2, <2>5, <2>7, <2>8, <2>9, <2>10, MeasuringStep
<1> QED BY <1>3, <1>4 DEF ResolveDevices

(* A measurement of a probe. *)
LEMMA ProbeStep == ASSUME TunerInv, Probe PROVE TunerInv'
<1>1. at = "probe" /\ at \in Measuring /\ at' = at /\ probe.todo # <<>>
  BY DEF Probe, Measuring
<1>2. UNCHANGED <<machine, file, path, args, cfg, written, ghosts, starts, edits>>
      /\ plan' = plan /\ results' = results /\ gpus' = gpus
  BY DEF Probe
<1>3. PICK rate \in machine.rates : probe' = Measured(probe, rate)
  BY DEF Probe
<1>4. rate \in Nat
  BY DEF TunerInv, ProbeTyped, Machine
<1>5. /\ probe.stage \in {"kernel", "batch"}
      /\ probe.stage = "kernel" => probe \in Probes("kernel", Settings)
      /\ probe.stage = "batch" => probe \in Probes("batch", Nat)
      /\ 100 * probe.seen <= 102 * probe.rate
  BY DEF TunerInv, ProbeTyped, TunedNearBest
<1>6. /\ probe'.stage = probe.stage /\ probe'.on = probe.on
      /\ probe.stage = "kernel" => probe' \in Probes("kernel", Settings)
      /\ probe.stage = "batch" => probe' \in Probes("batch", Nat)
      /\ 100 * probe'.seen <= 102 * probe'.rate
  BY <1>1, <1>3, <1>4, <1>5, MeasuredTyped
<1>7. ProbeTyped' /\ ProbePlace' /\ TunedNearBest'
  BY <1>1, <1>2, <1>5, <1>6 DEF TunerInv, ProbeTyped, ProbePlace, TunedNearBest
<1>8. plan' \in Seq(ModesOf(cfg)) /\ results' \in Seq(ResultsOf(cfg)) /\ Len(results') <= MaxResults
      /\ gpus' \in Seq(Device)
  BY <1>1, <1>2, MeasuringFacts
<1>9. (at' = "resolve" => cfg.opencl.on) /\ at' \in Measuring
      /\ (at' = "probe" => IF probe'.on = 0 THEN cfg.cuda.on ELSE cfg.opencl.on)
  BY <1>1, <1>6 DEF TunerInv, Measurements
<1> QED BY <1>1, <1>2, <1>7, <1>8, <1>9, MeasuringStep

(* From the kernels to the batch sizes. *)
LEMMA ProbeBatchesStep == ASSUME TunerInv, ProbeBatches PROVE TunerInv'
<1>1. at = "probe" /\ at \in Measuring /\ at' = at /\ probe.stage = "kernel"
  BY DEF ProbeBatches, Measuring
<1>2. UNCHANGED <<machine, file, path, args, cfg, written, ghosts, starts, edits>>
      /\ plan' = plan /\ results' = results /\ gpus' = gpus
  BY DEF ProbeBatches
<1>3. probe \in Probes("kernel", Settings) /\ machine \in Machine /\ 100 * probe.seen <= 102 * probe.rate
      /\ probe.on \in 0..Len(gpus)
  BY <1>1 DEF TunerInv, ProbeTyped, TunedNearBest, ProbePlace
<1> DEFINE b == BatchCandidates(probe.base)
<1>4. b \in Seq(Nat)
  <2>1. probe.base \in Settings
    BY <1>3 DEF Probes
  <2> QED BY <2>1, BatchCandidatesTyped
<1>5. probe' = [probe EXCEPT !.stage = "batch", !.todo = b]
  BY DEF ProbeBatches
<1> HIDE DEF b
<1>6. probe' \in Probes("batch", Nat) /\ probe'.stage = "batch" /\ probe'.on = probe.on /\ probe'.seen = probe.seen
      /\ probe'.rate = probe.rate
  BY <1>3, <1>4, <1>5 DEF Probes
<1>7. ProbeTyped' /\ ProbePlace' /\ TunedNearBest'
  BY <1>1, <1>2, <1>3, <1>6 DEF ProbeTyped, ProbePlace, TunedNearBest
<1>8. plan' \in Seq(ModesOf(cfg)) /\ results' \in Seq(ResultsOf(cfg)) /\ Len(results') <= MaxResults
      /\ gpus' \in Seq(Device)
  BY <1>1, <1>2, MeasuringFacts
<1>9. (at' = "resolve" => cfg.opencl.on) /\ at' \in Measuring
      /\ (at' = "probe" => IF probe'.on = 0 THEN cfg.cuda.on ELSE cfg.opencl.on)
  BY <1>1, <1>6 DEF TunerInv, Measurements
<1> QED BY <1>1, <1>2, <1>7, <1>8, <1>9, MeasuringStep

(* The next GPU, or the modes of the section. *)
LEMMA ProbeDoneStep == ASSUME TunerInv, ProbeDone PROVE TunerInv'
<1>1. at = "probe" /\ at \in Measuring
  BY DEF ProbeDone, Measuring
<1>2. UNCHANGED <<machine, file, path, args, cfg, written, ghosts, starts, edits>> /\ results' = results
  BY DEF ProbeDone
<1>3. /\ cfg \in Config /\ machine \in Machine /\ (~cfg.cpu => cfg.threads = 0) /\ cfg = before
      /\ plan \in Seq(ModesOf(cfg)) /\ results \in Seq(ResultsOf(cfg)) /\ Len(results) <= MaxResults
      /\ gpus \in Seq(Device)
      /\ cfg.opencl.base \in Settings /\ cfg.cuda.base \in Settings
  BY <1>1, MeasuringFacts
<1>4. /\ probe.on \in 0..Len(gpus) /\ probe.best \in Settings
      /\ IF probe.on = 0 THEN cfg.cuda.on ELSE cfg.opencl.on
  BY <1>1 DEF TunerInv, TunerTypeOK, ProbePlace, Measurements
<1>5. Len(gpus) \in Nat /\ machine' \in Machine
  BY <1>2, <1>3, LenProperties
<1>6. ASSUME at' \in {"opencl", "cuda"}, probe' = NoProbe PROVE ProbeTyped' /\ ProbePlace' /\ TunedNearBest'
  BY <1>5, <1>6, NoProbeTyped DEF ProbeTyped, ProbePlace, TunedNearBest
<1>7. CASE probe.on = 0
  <2>1. at' = "cuda" /\ plan' = CudaModes(cfg, probe.best) /\ probe' = NoProbe /\ gpus' = gpus
    BY <1>7 DEF ProbeDone
  <2>2. plan' \in Seq(ModesOf(cfg))
    BY <1>3, <1>4, <1>7, <2>1, CudaModesAllowed
  <2>3. at' \in Measuring /\ at' # "resolve" /\ at' # "probe"
    BY <2>1 DEF Measuring
  <2>4. results' \in Seq(ResultsOf(cfg)) /\ Len(results') <= MaxResults /\ gpus' \in Seq(Device)
    BY <1>2, <1>3, <2>1
  <2>5. ProbeTyped' /\ ProbePlace' /\ TunedNearBest'
    BY <1>6, <2>1
  <2> QED BY <1>1, <1>2, <2>2, <2>3, <2>4, <2>5, MeasuringStep
<1>8. CASE probe.on # 0
  <2>1. gpus' = [gpus EXCEPT ![probe.on].set = probe.best]
    BY <1>8 DEF ProbeDone
  <2>2. probe.on \in 1..Len(gpus)
    BY <1>4, <1>5, <1>8
  <2>3. gpus' \in Seq(Device) /\ Len(gpus') = Len(gpus)
    <3> DEFINE d == [gpus[probe.on] EXCEPT !.set = probe.best]
    <3>1. gpus[probe.on] \in Device
      BY <1>3, <2>2, ElementOfSeq
    <3>2. d \in Device
      BY <1>4, <3>1 DEF Device
    <3>3. gpus' = [gpus EXCEPT ![probe.on] = d]
      BY <2>1
    <3> HIDE DEF d
    <3> QED BY <1>3, <2>2, <3>2, <3>3, ExceptSeq
  <2>4. results' \in Seq(ResultsOf(cfg)) /\ Len(results') <= MaxResults
    BY <1>2, <1>3
  <2>5. CASE MoreDevices
    <3>1. probe' = NewProbe(probe.on + 1, cfg.opencl.base, OpenclKernels) /\ at' = at /\ plan' = plan
      BY <1>8, <2>5 DEF ProbeDone
    <3>2. probe.on + 1 \in 0..Len(gpus') /\ Len(gpus') \in Nat /\ probe.on + 1 # 0
      BY <1>5, <2>2, <2>3, <2>5 DEF MoreDevices
    <3>3. ProbeTyped' /\ ProbePlace' /\ TunedNearBest' /\ probe'.on = probe.on + 1
      BY <1>1, <1>3, <1>5, <3>1, <3>2, KernelsTyped, NewProbeStep
    <3>4. at' \in Measuring /\ at' # "resolve" /\ plan' \in Seq(ModesOf(cfg))
      BY <1>1, <1>3, <3>1
    <3>5. cfg.opencl.on
      BY <1>4, <1>8
    <3>6. probe'.on # 0
      BY <3>2, <3>3
    <3> QED BY <1>1, <1>2, <2>3, <2>4, <3>3, <3>4, <3>5, <3>6, MeasuringStep
  <2>6. CASE ~MoreDevices
    <3>1. at' = "opencl" /\ plan' = OpenclModes(cfg, gpus') /\ probe' = NoProbe
      BY <1>8, <2>6 DEF ProbeDone
    <3>2. plan' \in Seq(ModesOf(cfg))
      BY <1>3, <1>4, <1>8, <2>3, <3>1, OpenclModesAllowed
    <3>3. at' \in Measuring /\ at' # "resolve" /\ at' # "probe"
      BY <3>1 DEF Measuring
    <3>4. ProbeTyped' /\ ProbePlace' /\ TunedNearBest'
      BY <1>6, <3>1
    <3> QED BY <1>1, <1>2, <2>3, <2>4, <3>2, <3>3, <3>4, MeasuringStep
  <2> QED BY <2>5, <2>6
<1> QED BY <1>7, <1>8

(* The end of a section. *)
LEMMA AfterModesStep == ASSUME TunerInv, AfterModes PROVE TunerInv'
<1>1. UNCHANGED <<machine, file, path, args, cfg, written, ghosts, starts, edits>>
      /\ gpus' = gpus /\ plan' = plan /\ results' = results
  BY DEF AfterModes
<1>2. CASE SectionDone("opencl") /\ AfterOpencl
  <2>1. at \in Measuring /\ at # "probe"
    BY <1>2 DEF SectionDone, Measuring
  <2> QED BY <1>1, <1>2, <2>1, AfterOpenclStep
<1>3. CASE SectionDone("cuda") /\ at' = "select" /\ probe' = probe
  <2>1. at \in Measuring /\ at # "probe" /\ at' \in Measuring /\ at' # "probe" /\ at' # "resolve"
    BY <1>3 DEF SectionDone, Measuring
  <2>2. ProbeTyped' /\ ProbePlace' /\ TunedNearBest'
    BY <1>1, <1>3, <2>1 DEF TunerInv, ProbeTyped, ProbePlace, TunedNearBest
  <2>3. plan' \in Seq(ModesOf(cfg)) /\ results' \in Seq(ResultsOf(cfg)) /\ Len(results') <= MaxResults
        /\ gpus' \in Seq(Device)
    BY <1>1, <2>1, MeasuringFacts
  <2> QED BY <1>1, <2>1, <2>2, <2>3, MeasuringStep
<1> QED BY <1>2, <1>3 DEF AfterModes

(* The process has ended: what it was doing is gone, the file is left. *)
LEMMA ExitStep ==
    ASSUME TunerInv, Exit, UNCHANGED <<machine, file, kept, user_pools, measured, starts, edits>>,
           spoiled' = (spoiled \/ at = "write")
    PROVE  TunerInv'
<1>1. /\ machine' = machine /\ file' = file /\ kept' = kept /\ user_pools' = user_pools
      /\ measured' = measured /\ starts' = starts /\ edits' = edits
  OBVIOUS
<1>2. /\ at' = "off" /\ path' = FALSE /\ args' = NoArgs /\ cfg' = Defaults /\ before' = Defaults
      /\ plan' = <<>> /\ results' = <<>> /\ gpus' = <<>> /\ probe' = NoProbe /\ written' = Torn
  BY DEF Exit
<1>3. TunerTypeOK'
  <2>1. plan' \in Seq(Modes) /\ results' \in Seq([mode : Modes, rate : Nat]) /\ gpus' \in Seq(Device)
        /\ Len(results') = 0 /\ Len(gpus') = 0
    BY <1>2, EmptySeq
  <2>2. probe'.on \in -1..Len(gpus') /\ probe'.best \in Settings /\ probe'.rate \in Nat
    <3>1. probe'.on = -1 /\ probe'.rate = 0
      BY <1>2, NoProbeTyped
    <3>2. probe'.best \in Settings
      BY <1>2, NoProbeTyped DEF Probes
    <3> QED BY <2>1, <3>1, <3>2
  <2>3. Len(results') <= MaxResults
    BY <2>1, AutotuneAssumption
  <2>4. cfg' \in Config /\ before' \in Config /\ written' \in File
    BY <1>2, DefaultsTyped
  <2>5. spoiled' \in BOOLEAN
    BY DEF TunerInv, TunerTypeOK
  <2> QED BY <1>1, <1>2, <2>1, <2>2, <2>3, <2>4, <2>5 DEF TunerInv, TunerTypeOK
<1>4. ProbeTyped'
  BY <1>1, <1>2, NoProbeTyped DEF TunerInv, ProbeTyped
<1>5. TunedNearBest'
  BY <1>2, NoProbeTyped DEF TunedNearBest
<1>6. (ProbePlace /\ Measurements /\ OffIsEmpty /\ NothingSwitchedOn /\ Saving /\ Writing)'
  BY <1>2 DEF ProbePlace, OffIsEmpty, Measurements, Measuring, NothingSwitchedOn, Saving, Writing
<1>7. FlagsVouched'
  <2>1. ~cfg'.gpu_done /\ ~SaysTuned(written)'
    BY <1>2, DefaultsTyped DEF Defaults
  <2>2. SaysTuned(file)' => measured' # {}
    BY <1>1 DEF TunerInv, FlagsVouched, SaysTuned
  <2> QED BY <2>1, <2>2 DEF FlagsVouched
<1>8. (StartsSound /\ NoPools /\ KeptFile)'
  BY <1>1, <1>2 DEF TunerInv, StartsSound, GpuTuningNotSkipped, PoolsKept, NoPools, KeptFile
<1> QED BY <1>3, <1>4, <1>5, <1>6, <1>7, <1>8 DEF TunerInv

(* A kill, wherever the process is. *)
LEMMA KillStep == ASSUME TunerInv, Kill PROVE TunerInv'
  BY ExitStep DEF Kill

(* The mode selected becomes the configuration. *)
LEMMA SelectStep == ASSUME TunerInv, Select PROVE TunerInv'
<1>1. at = "select" /\ UNCHANGED <<machine, file, kept, user_pools, spoiled, starts, edits>>
  BY DEF Select
<1>2. CASE Fastest(results) = 0
  <2>1. Exit /\ measured' = measured
    BY <1>2 DEF Select
  <2>2. spoiled' = (spoiled \/ at = "write")
    <3>1. spoiled \in BOOLEAN /\ at # "write" /\ spoiled' = spoiled
      BY <1>1 DEF TunerInv, TunerTypeOK
    <3> QED BY <3>1
  <2> QED BY <1>1, <2>1, <2>2, ExitStep
<1>3. CASE Fastest(results) # 0
  <2>1. /\ cfg' = Adopt(cfg, results) /\ at' = (IF cfg.autosave /\ path THEN "save" ELSE "mining")
        /\ results' = <<>> /\ gpus' = <<>> /\ path' = path /\ args' = args /\ plan' = plan /\ probe' = probe
        /\ written' = written /\ before' = before /\ measured' = measured \cup KindsIn(results)
    BY <1>3 DEF Select
  <2>2. /\ machine' = machine /\ file' = file /\ kept' = kept /\ user_pools' = user_pools
        /\ spoiled' = spoiled /\ starts' = starts /\ edits' = edits
    BY <1>1
  <2>3. at' \in {"save", "mining"}
    BY <2>1
  <2>4. /\ cfg \in Config /\ machine \in Machine /\ (~cfg.cpu => cfg.threads = 0) /\ cfg = before
        /\ plan \in Seq(ModesOf(cfg)) /\ results \in Seq(ResultsOf(cfg)) /\ Len(results) <= MaxResults
        /\ gpus \in Seq(Device)
        /\ cfg.opencl.base \in Settings /\ cfg.cuda.base \in Settings
    BY <1>1, MeasuringFacts DEF Measuring
  <2>5. /\ cfg' \in Config /\ Settled(cfg')
        /\ cfg'.cpu => cfg.cpu
        /\ cfg'.opencl.on => cfg.opencl.on
        /\ cfg'.cuda.on => cfg.cuda.on
        /\ cfg'.cpu \/ cfg'.opencl.on \/ cfg'.cuda.on
        /\ cfg'.threads <= cfg.threads
        /\ cfg'.opencl.on => "opencl" \in KindsIn(results)
        /\ cfg'.cuda.on => "cuda" \in KindsIn(results)
        /\ cfg'.gpu_done => cfg.gpu_done \/ KindsIn(results) # {}
    BY <1>3, <2>1, <2>4, AdoptIsSettled
  <2>6. probe = NoProbe
    BY <1>1 DEF TunerInv, ProbePlace
  <2>7. TunerTypeOK'
    <3>1. results' \in Seq([mode : Modes, rate : Nat]) /\ gpus' \in Seq(Device)
          /\ Len(results') = 0 /\ Len(gpus') = 0
      BY <2>1, EmptySeq
    <3>2. probe'.on \in -1..Len(gpus')
      BY <2>1, <2>6, <3>1, NoProbeTyped
    <3>3. Len(results') <= MaxResults
      BY <3>1, AutotuneAssumption
    <3>4. at' \in {"off", "cpu", "resolve", "probe", "opencl", "cuda", "select", "save", "merge", "write", "mining"}
      BY <2>3
    <3>5. measured' \in SUBSET {"opencl", "cuda"}
      BY <2>1 DEF TunerInv, TunerTypeOK, KindsIn
    <3> QED BY <2>1, <2>2, <2>5, <3>1, <3>2, <3>3, <3>4, <3>5 DEF TunerInv, TunerTypeOK
  <2>8. (ProbeTyped /\ ProbePlace /\ TunedNearBest)'
    BY <2>1, <2>2, <2>3, <2>6 DEF TunerInv, ProbeTyped, ProbePlace, TunedNearBest
  <2>9. (Measurements /\ OffIsEmpty /\ Writing)'
    BY <2>3 DEF OffIsEmpty, Measurements, Measuring, Writing
  <2>10. Saving' /\ NothingSwitchedOn'
    BY <2>1, <2>4, <2>5 DEF Saving, NothingSwitchedOn, Settled
  <2>11. PoolsKept' /\ GpuTuningNotSkipped'
    <3>1. (cfg'.opencl.on => "opencl" \in measured') /\ (cfg'.cuda.on => "cuda" \in measured')
      BY <2>1, <2>5
    <3> QED BY <2>2, <3>1 DEF TunerInv, StartsSound, GpuTuningNotSkipped, PoolsKept
  <2>12. FlagsVouched'
    <3>1. cfg'.gpu_done => measured' # {}
      BY <2>1, <2>5 DEF TunerInv, FlagsVouched
    <3>2. (SaysTuned(file)' => measured' # {}) /\ (SaysTuned(written)' => measured' # {})
      BY <2>1, <2>2 DEF TunerInv, FlagsVouched, SaysTuned
    <3> QED BY <3>1, <3>2 DEF FlagsVouched
  <2>13. NoPools' /\ KeptFile'
    BY <1>1, <2>2, <2>3 DEF TunerInv, NoPools, KeptFile
  <2> QED BY <2>7, <2>8, <2>9, <2>10, <2>11, <2>12, <2>13 DEF TunerInv, StartsSound
<1> QED BY <1>2, <1>3

(* The file is read once more. *)
LEMMA SaveReadStep == ASSUME TunerInv, SaveRead PROVE TunerInv'
<1>1. at = "save" /\ at' = "merge" /\ written' = Merged(cfg, file)
  BY DEF SaveRead
<1>2. /\ machine' = machine /\ file' = file /\ path' = path /\ args' = args /\ cfg' = cfg /\ before' = before
      /\ plan' = plan /\ results' = results /\ gpus' = gpus /\ probe' = probe /\ kept' = kept
      /\ user_pools' = user_pools /\ spoiled' = spoiled /\ measured' = measured
      /\ starts' = starts /\ edits' = edits
  BY DEF SaveRead, tuning, ghosts
<1>3. cfg \in Config /\ file \in File /\ Settled(cfg)
  BY <1>1 DEF TunerInv, TunerTypeOK, Saving
<1>4. /\ written' \in File /\ written'.state = "good" /\ written'.cfg = [cfg EXCEPT !.pools = written'.cfg.pools]
      /\ written'.cfg.pools = IF file.state = "good" THEN file.cfg.pools ELSE "default"
      /\ SaysTuned(written') => cfg.gpu_done \/ SaysTuned(file)
  BY <1>1, <1>3, MergedIsConfig
<1>5. TunerTypeOK'
  BY <1>1, <1>2, <1>4 DEF TunerInv, TunerTypeOK
<1>6. (ProbeTyped /\ ProbePlace /\ TunedNearBest)'
  BY <1>1, <1>2 DEF TunerInv, ProbeTyped, ProbePlace, TunedNearBest
<1>7. (Measurements /\ OffIsEmpty /\ NothingSwitchedOn /\ Saving)'
  BY <1>1, <1>2 DEF TunerInv, OffIsEmpty, Measurements, Measuring, NothingSwitchedOn, Saving
<1>8. ~spoiled => written'.cfg.pools = user_pools
  BY <1>1, <1>4 DEF TunerInv, StartsSound, PoolsKept, NoPools
<1>9. Writing'
  BY <1>1, <1>2, <1>4, <1>8 DEF Writing
<1>10. FlagsVouched'
  BY <1>2, <1>4 DEF TunerInv, FlagsVouched, SaysTuned
<1>11. (StartsSound /\ NoPools /\ KeptFile)'
  BY <1>1, <1>2 DEF TunerInv, StartsSound, GpuTuningNotSkipped, PoolsKept, NoPools, KeptFile
<1> QED BY <1>5, <1>6, <1>7, <1>9, <1>10, <1>11 DEF TunerInv

(* The file is truncated. *)
LEMMA SaveOpenStep == ASSUME TunerInv, SaveOpen PROVE TunerInv'
<1>1. at = "merge" /\ at' = "write" /\ file' = Torn /\ kept' = <<>>
  BY DEF SaveOpen
<1>2. /\ machine' = machine /\ path' = path /\ args' = args /\ cfg' = cfg /\ before' = before
      /\ plan' = plan /\ results' = results /\ gpus' = gpus /\ probe' = probe /\ written' = written
      /\ user_pools' = user_pools /\ spoiled' = spoiled /\ measured' = measured
      /\ starts' = starts /\ edits' = edits
  BY DEF SaveOpen, tuning
<1>3. file' \in File /\ file'.state = "torn" /\ ~SaysTuned(file)' /\ kept' \in Seq(Config)
  BY <1>1, DefaultsTyped, EmptySeq
<1>4. TunerTypeOK'
  BY <1>1, <1>2, <1>3 DEF TunerInv, TunerTypeOK
<1>5. (ProbeTyped /\ ProbePlace /\ TunedNearBest)'
  BY <1>1, <1>2 DEF TunerInv, ProbeTyped, ProbePlace, TunedNearBest
<1>6. (Measurements /\ OffIsEmpty /\ NothingSwitchedOn /\ Saving)'
  BY <1>1, <1>2 DEF TunerInv, OffIsEmpty, Measurements, Measuring, NothingSwitchedOn, Saving
<1>7. Writing'
  BY <1>1, <1>2, <1>3 DEF TunerInv, Writing
<1>8. FlagsVouched'
  <2>1. SaysTuned(written)' = SaysTuned(written)
    BY <1>2 DEF SaysTuned
  <2> QED BY <1>2, <1>3, <2>1 DEF TunerInv, FlagsVouched
<1>9. (StartsSound /\ NoPools /\ KeptFile)'
  BY <1>1, <1>2, <1>3 DEF TunerInv, StartsSound, GpuTuningNotSkipped, PoolsKept, NoPools, KeptFile
<1> QED BY <1>4, <1>5, <1>6, <1>7, <1>8, <1>9 DEF TunerInv

(* The file is complete, or stays torn. *)
LEMMA SaveWriteStep == ASSUME TunerInv, SaveWrite PROVE TunerInv'
<1>1. at = "write" /\ at' = "mining"
  BY DEF SaveWrite
<1>2. /\ machine' = machine /\ path' = path /\ args' = args /\ cfg' = cfg /\ before' = before
      /\ plan' = plan /\ results' = results /\ gpus' = gpus /\ probe' = probe /\ written' = written
      /\ user_pools' = user_pools /\ measured' = measured /\ starts' = starts /\ edits' = edits
  BY DEF SaveWrite, tuning
<1>3. cfg \in Config /\ Settled(cfg) /\ written \in File /\ kept \in Seq(Config)
      /\ written.state = "good" /\ written.cfg = [cfg EXCEPT !.pools = written.cfg.pools] /\ file.state = "torn"
      /\ (~spoiled => written.cfg.pools = user_pools)
  BY <1>1 DEF TunerInv, TunerTypeOK, Saving, Writing
<1>4. (ProbeTyped /\ ProbePlace /\ TunedNearBest)'
  BY <1>1, <1>2 DEF TunerInv, ProbeTyped, ProbePlace, TunedNearBest
<1>5. (Measurements /\ OffIsEmpty /\ NothingSwitchedOn /\ Saving /\ Writing)'
  BY <1>1, <1>2, <1>3 DEF OffIsEmpty, Measurements, Measuring, NothingSwitchedOn, Saving, Writing
<1>6. GpuTuningNotSkipped'
  <2>1. (cfg.opencl.on => "opencl" \in measured) /\ (cfg.cuda.on => "cuda" \in measured)
    BY <1>1 DEF TunerInv, StartsSound, GpuTuningNotSkipped
  <2> QED BY <1>1, <1>2, <2>1 DEF GpuTuningNotSkipped
<1>7. CASE file' = written /\ kept' = <<cfg>> /\ spoiled' = spoiled
  <2>1. kept' \in Seq(Config) /\ Len(kept') = 1 /\ kept'[1] = cfg
    BY <1>3, <1>7
  <2>2. TunerTypeOK'
    BY <1>1, <1>2, <1>3, <1>7, <2>1 DEF TunerInv, TunerTypeOK
  <2>3. PoolsKept' /\ NoPools'
    BY <1>2, <1>3, <1>7 DEF PoolsKept, NoPools
  <2>4. KeptFile'
    BY <1>3, <1>7, <2>1 DEF KeptFile
  <2>5. FlagsVouched'
    BY <1>2, <1>7 DEF TunerInv, FlagsVouched, SaysTuned
  <2> QED BY <1>4, <1>5, <1>6, <2>2, <2>3, <2>4, <2>5 DEF TunerInv, StartsSound
<1>8. CASE spoiled' = TRUE /\ file' = file /\ kept' = kept
  <2>1. TunerTypeOK'
    BY <1>1, <1>2, <1>8 DEF TunerInv, TunerTypeOK
  <2>2. PoolsKept' /\ NoPools' /\ KeptFile'
    BY <1>8 DEF TunerInv, PoolsKept, NoPools, KeptFile
  <2>3. FlagsVouched'
    BY <1>2, <1>8 DEF TunerInv, FlagsVouched, SaysTuned
  <2> QED BY <1>4, <1>5, <1>6, <2>1, <2>2, <2>3 DEF TunerInv, StartsSound
<1> QED BY <1>7, <1>8 DEF SaveWrite

(* The user writes a complete file. *)
LEMMA EditFileStep == ASSUME TunerInv, EditFile PROVE TunerInv'
<1> DEFINE old == IF file.state = "good" THEN file ELSE [Torn EXCEPT !.state = "good"]
<1>1. /\ at \in {"off", "save", "merge", "mining"} /\ edits < MaxEdits /\ user_pools' = "second"
      /\ spoiled' = (at = "merge") /\ kept' = <<>> /\ edits' = edits + 1
  BY DEF EditFile
<1>2. /\ machine' = machine /\ path' = path /\ at' = at /\ args' = args /\ cfg' = cfg /\ before' = before
      /\ plan' = plan /\ results' = results /\ gpus' = gpus /\ probe' = probe /\ written' = written
      /\ measured' = measured /\ starts' = starts
  BY DEF EditFile, tuning
<1>3. old \in File /\ old.state = "good" /\ (SaysTuned(old) => SaysTuned(file))
  <2>1. file \in File
    BY DEF TunerInv, TunerTypeOK
  <2>2. CASE file.state = "good"
    BY <2>1, <2>2
  <2>3. CASE file.state # "good"
    <3>1. old = [state |-> "good", cfg |-> Defaults, alias |-> NoAlias]
      BY <2>3 DEF Torn
    <3>2. Defaults \in Config /\ NoAlias \in Aliases
      BY DefaultsTyped DEF Torn, File
    <3> HIDE DEF old
    <3>3. old \in File /\ old.state = "good"
      BY <3>1, <3>2 DEF File
    <3>4. ~SaysTuned(old)
      BY <3>1 DEF SaysTuned, Over, Defaults, NoAlias
    <3> QED BY <3>3, <3>4
  <2> QED BY <2>2, <2>3
<1>4. PICK e \in machine.edits :
          file' = [old EXCEPT !.cfg.pools = "second", !.cfg.opencl.on = @ \/ e = "opencl",
                              !.cfg.cuda.on = @ \/ e = "cuda"]
  BY DEF EditFile
<1> HIDE DEF old
<1> DEFINE was == old.cfg
           o == [was.opencl EXCEPT !.on = was.opencl.on \/ e = "opencl"]
           q == [was.cuda EXCEPT !.on = was.cuda.on \/ e = "cuda"]
           new == [was EXCEPT !.pools = "second", !.opencl = o, !.cuda = q]
<1>5. was \in Config
  BY <1>3 DEF File
<1>6. file' = [old EXCEPT !.cfg = new]
  BY <1>3, <1>4, <1>5 DEF Config, File
<1> HIDE DEF was
<1>7. o \in OpenclConfig /\ q \in CudaConfig
  BY <1>5 DEF Config, OpenclConfig, CudaConfig
<1> HIDE DEF o, q
<1>8. new \in Config /\ new.pools = "second" /\ new.gpu_done = was.gpu_done
  BY <1>5, <1>7 DEF Config, Pools
<1> HIDE DEF new
<1>9. file' \in File /\ file'.state = "good" /\ file'.cfg = new /\ file'.alias = old.alias
  BY <1>3, <1>6, <1>8 DEF File
<1>10. TunerTypeOK'
  <2>1. edits' \in 0..MaxEdits
    BY <1>1, AutotuneAssumption DEF TunerInv, TunerTypeOK
  <2>2. kept' \in Seq(Config) /\ user_pools' \in Pools /\ spoiled' \in BOOLEAN
    BY <1>1, EmptySeq DEF Pools
  <2> QED BY <1>2, <1>9, <2>1, <2>2 DEF TunerInv, TunerTypeOK
<1>11. (ProbeTyped /\ ProbePlace /\ TunedNearBest)'
  BY <1>1, <1>2 DEF TunerInv, ProbeTyped, ProbePlace, TunedNearBest
<1>12. (Measurements /\ OffIsEmpty /\ NothingSwitchedOn /\ Saving /\ Writing /\ GpuTuningNotSkipped)'
  BY <1>1, <1>2 DEF TunerInv, OffIsEmpty, Measurements, Measuring, NothingSwitchedOn, Saving, Writing, StartsSound,
                    GpuTuningNotSkipped
<1>13. PoolsKept' /\ NoPools' /\ KeptFile'
  BY <1>1, <1>8, <1>9 DEF PoolsKept, NoPools, KeptFile
<1>14. FlagsVouched'
  <2>1. SaysTuned(file') => SaysTuned(old)
    BY <1>3, <1>8, <1>9 DEF SaysTuned, was
  <2>2. SaysTuned(written') = SaysTuned(written)
    BY <1>2
  <2> QED BY <1>2, <1>3, <2>1, <2>2 DEF TunerInv, FlagsVouched
<1> QED BY <1>10, <1>11, <1>12, <1>13, <1>14 DEF TunerInv, StartsSound

(* A start from whatever file there is. *)
LEMMA StartStep == ASSUME TunerInv, NEW a \in machine.args, Start(a) PROVE TunerInv'
<1> DEFINE loaded == IF file.state = "good" THEN LoadConfigFile(file) ELSE Defaults
           c == Normalized(ApplyArgs(loaded, a))
<1>1. at = "off" /\ starts < MaxStarts /\ starts' = starts + 1
  BY DEF Start
<1>2. /\ machine' = machine /\ file' = file /\ results' = results /\ gpus' = gpus /\ probe' = probe
      /\ written' = written /\ kept' = kept /\ user_pools' = user_pools /\ spoiled' = spoiled
      /\ measured' = measured /\ edits' = edits
  BY DEF Start
<1>3. machine \in Machine /\ a \in Args /\ file \in File /\ probe = NoProbe
  <2>1. machine \in Machine /\ file \in File /\ probe = NoProbe
    BY <1>1 DEF TunerInv, TunerTypeOK, ProbeTyped, ProbePlace
  <2>2. a \in Args
    BY <2>1 DEF Machine
  <2> QED BY <2>1, <2>2
<1>4. starts' \in 0..MaxStarts
  BY <1>1, AutotuneAssumption DEF TunerInv, TunerTypeOK
<1>5. CASE a.config /\ file.state # "good"
  <2>1. /\ path' = path /\ args' = args /\ at' = at /\ cfg' = cfg /\ plan' = plan /\ before' = before
    BY <1>5 DEF Start
  <2>2. TunerTypeOK'
    BY <1>2, <1>4, <2>1 DEF TunerInv, TunerTypeOK
  <2>3. (ProbeTyped /\ ProbePlace /\ TunedNearBest)'
    BY <1>2, <2>1 DEF TunerInv, ProbeTyped, ProbePlace, TunedNearBest
  <2>4. (Measurements /\ OffIsEmpty /\ NothingSwitchedOn /\ Saving /\ Writing /\ FlagsVouched)'
    BY <1>1, <1>2, <2>1 DEF TunerInv, OffIsEmpty, Measurements, Measuring, NothingSwitchedOn, Saving, Writing,
                            FlagsVouched, SaysTuned
  <2>5. GpuTuningNotSkipped' /\ PoolsKept' /\ NoPools' /\ KeptFile'
    BY <1>2, <2>1 DEF TunerInv, StartsSound, GpuTuningNotSkipped, PoolsKept, NoPools, KeptFile
  <2> QED BY <2>2, <2>3, <2>4, <2>5 DEF TunerInv, StartsSound
<1>6. CASE ~(a.config /\ file.state # "good")
  <2>1. path' = (file.state # "absent") /\ args' = a /\ cfg' = c /\ before' = c
    BY <1>6 DEF Start
  <2>2. IF Tunes(c, a)
        THEN at' = "cpu" /\ plan' = WithCpu(c, CpuModes(c, NoOpencl, NoCuda))
        ELSE at' = "mining" /\ plan' = <<>>
    BY <1>6 DEF Start
  <2>3. c \in Config /\ (~c.cpu => c.threads = 0) /\ (c.gpu_done => SaysTuned(file))
    <3>1. loaded \in Config /\ (loaded.gpu_done => SaysTuned(file))
      <4>1. CASE file.state = "good"
        BY <1>3, <4>1, LoadKeeps DEF SaysTuned
      <4>2. CASE file.state # "good"
        BY <4>2, DefaultsTyped DEF Defaults
      <4> QED BY <4>1, <4>2
    <3> HIDE DEF loaded
    <3> DEFINE w == ApplyArgs(loaded, a)
    <3>2. w \in Config /\ (w.gpu_done => loaded.gpu_done)
      BY <1>3, <3>1, ApplyArgsTyped
    <3> HIDE DEF w
    <3>3. /\ Normalized(w) \in Config /\ (~Normalized(w).cpu => Normalized(w).threads = 0)
          /\ Normalized(w) = [w EXCEPT !.threads = Normalized(w).threads]
      BY <1>3, <3>2, NormalizedTyped
    <3>4. Normalized(w).gpu_done = w.gpu_done
      BY <3>2, <3>3 DEF Config
    <3>5. c = Normalized(w)
      BY DEF w
    <3> HIDE DEF c
    <3> QED BY <3>1, <3>2, <3>3, <3>4, <3>5
  <2> HIDE DEF c
  <2>4. plan' \in Seq(ModesOf(c)) /\ at' \in {"cpu", "mining"}
    <3>1. CpuModes(c, NoOpencl, NoCuda) \in Seq(ModesOf(c))
      BY <1>3, <2>3, NoGpusAllowed, CpuModesAllowed
    <3>2. WithCpu(c, CpuModes(c, NoOpencl, NoCuda)) \in Seq(ModesOf(c)) /\ <<>> \in Seq(ModesOf(c))
      BY <3>1, WithCpuTyped, EmptySeq
    <3> QED BY <2>2, <3>2
  <2>5. TunerTypeOK'
    <3>1. plan' \in Seq(Modes)
      BY <2>4, ModesOfTyped
    <3>2. path' \in BOOLEAN
      BY <2>1
    <3>3. at' \in {"off", "cpu", "resolve", "probe", "opencl", "cuda", "select", "save", "merge", "write", "mining"}
      BY <2>4
    <3> QED BY <1>2, <1>4, <2>1, <2>3, <3>1, <3>2, <3>3 DEF TunerInv, TunerTypeOK
  <2>6. (ProbeTyped /\ ProbePlace /\ TunedNearBest)'
    BY <1>2, <1>3, <2>4 DEF TunerInv, ProbeTyped, ProbePlace, TunedNearBest
  <2>7. Measurements'
    <3>1. results = <<>>
      BY <1>1 DEF TunerInv, OffIsEmpty
    <3>2. results' \in Seq(ResultsOf(c))
      BY <1>2, <3>1, EmptySeq
    <3> QED BY <2>1, <2>3, <2>4, <3>2 DEF Measurements, Measuring
  <2>8. (OffIsEmpty /\ NothingSwitchedOn /\ Saving /\ Writing)'
    BY <2>4 DEF OffIsEmpty, NothingSwitchedOn, Saving, Writing
  <2>9. FlagsVouched'
    BY <1>2, <2>1, <2>3 DEF TunerInv, FlagsVouched, SaysTuned
  <2>10. GpuTuningNotSkipped'
    BY <2>1, <2>2, <2>4, <2>9 DEF GpuTuningNotSkipped, FlagsVouched, Tunes, NeedsGpu
  <2>11. PoolsKept' /\ NoPools' /\ KeptFile'
    BY <1>1, <1>2 DEF TunerInv, StartsSound, PoolsKept, NoPools, KeptFile
  <2> QED BY <2>5, <2>6, <2>7, <2>8, <2>9, <2>10, <2>11 DEF TunerInv, StartsSound
<1> QED BY <1>5, <1>6

(* Every step keeps the invariant. *)
LEMMA NextTunerInv == TunerInv /\ [TunerNext]_tunerVars => TunerInv'
<1> SUFFICES ASSUME TunerInv, [TunerNext]_tunerVars PROVE TunerInv'
  OBVIOUS
<1>1. ASSUME NEW a \in machine.args, Start(a) PROVE TunerInv'
  BY <1>1, StartStep
<1>2. CASE TestMode
  BY <1>2, TestModeStep
<1>3. CASE AfterCpu
  BY <1>3, AfterCpuStep
<1>4. CASE ResolveDevices
  BY <1>4, ResolveDevicesStep
<1>5. CASE Probe
  BY <1>5, ProbeStep
<1>6. CASE ProbeBatches
  BY <1>6, ProbeBatchesStep
<1>7. CASE ProbeDone
  BY <1>7, ProbeDoneStep
<1>8. CASE AfterModes
  BY <1>8, AfterModesStep
<1>9. CASE Select
  BY <1>9, SelectStep
<1>10. CASE SaveRead
  BY <1>10, SaveReadStep
<1>11. CASE SaveOpen
  BY <1>11, SaveOpenStep
<1>12. CASE SaveWrite
  BY <1>12, SaveWriteStep
<1>13. CASE Kill
  BY <1>13, KillStep
<1>14. CASE EditFile
  BY <1>14, EditFileStep
<1>15. CASE UNCHANGED tunerVars
  <2>1. /\ machine' = machine /\ file' = file /\ path' = path /\ at' = at /\ args' = args /\ cfg' = cfg
        /\ plan' = plan /\ results' = results /\ gpus' = gpus /\ probe' = probe /\ written' = written
        /\ before' = before /\ kept' = kept /\ user_pools' = user_pools /\ spoiled' = spoiled
        /\ measured' = measured /\ starts' = starts /\ edits' = edits
    BY <1>15 DEF tunerVars, tuning, ghosts
  <2>2. (TunerTypeOK /\ ProbeTyped /\ ProbePlace /\ TunedNearBest /\ OffIsEmpty)'
    BY <2>1 DEF TunerInv, TunerTypeOK, ProbeTyped, ProbePlace, TunedNearBest, OffIsEmpty
  <2>3. Measurements'
    BY <2>1 DEF TunerInv, Measurements, ModesOf, ResultsOf
  <2>4. (NothingSwitchedOn /\ Saving /\ Writing /\ FlagsVouched)'
    BY <2>1 DEF TunerInv, NothingSwitchedOn, Saving, Writing, FlagsVouched, SaysTuned
  <2>5. (StartsSound /\ NoPools /\ KeptFile)'
    BY <2>1 DEF TunerInv, StartsSound, GpuTuningNotSkipped, PoolsKept, NoPools, KeptFile
  <2> QED BY <2>2, <2>3, <2>4, <2>5 DEF TunerInv
<1>16. CASE Stopped
  BY <1>15, <1>16 DEF Stopped
<1> QED BY <1>1, <1>2, <1>3, <1>4, <1>5, <1>6, <1>7, <1>8, <1>9, <1>10, <1>11, <1>12, <1>13, <1>14, <1>15,
           <1>16
        DEF TunerNext

(* The selection follows the rule of 10% and preferred kinds, of any       *)
(* results.                                                                *)
LEMMA SelectionIsRight == TunerInv => SelectionRight
<1> SUFFICES ASSUME TunerInv, at = "select", Fastest(results) # 0
             PROVE  LET best == Selected(results)
                        CloseToAll(r) == r.rate > 0 /\ \A i \in DOMAIN results : 10 * r.rate >= 9 * results[i].rate
                    IN /\ CloseToAll(best)
                       /\ \A i \in DOMAIN results :
                             CloseToAll(results[i]) =>
                                 \/ Priority(best.mode) < Priority(results[i].mode)
                                 \/ Priority(best.mode) = Priority(results[i].mode) /\ best.rate >= results[i].rate
  BY DEF SelectionRight
<1>1. results \in Seq(Results) /\ DOMAIN results = 1..Len(results)
  <2>1. results \in Seq(Results)
    BY DEF TunerInv, TunerTypeOK, Results
  <2> QED BY <2>1, LenProperties
<1>2. PICK b \in 1..Len(results) :
         /\ Selected(results) = results[b] /\ results[b].rate > 0
         /\ \A j \in 1..Len(results) : 10 * results[b].rate >= 9 * results[j].rate
         /\ \A i \in 1..Len(results) :
               (results[i].rate > 0 /\ \A j \in 1..Len(results) : 10 * results[i].rate >= 9 * results[j].rate) =>
                   \/ Priority(results[b].mode) < Priority(results[i].mode)
                   \/ Priority(results[b].mode) = Priority(results[i].mode) /\ results[b].rate >= results[i].rate
  BY <1>1, SelectedIsRight
<1> QED BY ONLY <1>1, <1>2

(* A start without options on the file of a complete save. *)
LEMMA RestartStep ==
    ASSUME TunerInv, [TunerNext]_tunerVars, Restart
    PROVE  LET k == kept[1]
               names == file.alias
               threads == Over(k.threads, names.threads)
           IN /\ Over(TRUE, names.cpu_done) /\ Over(TRUE, names.gpu_done) => at' = "mining"
              /\ cfg'.cpu = k.cpu /\ cfg'.affinity = k.affinity
              /\ k.cpu /\ threads > 0 => cfg'.threads = threads
              /\ ~k.cpu => cfg'.threads = 0
              /\ cfg'.opencl.on = k.opencl.on /\ cfg'.cuda.on = k.cuda.on
              /\ k.cuda.on => /\ cfg'.cuda.base.npi = Over(k.cuda.base.npi, names.cuda_npi)
                              /\ cfg'.cuda.base.batch = Over(k.cuda.base.batch, names.cuda_batch)
              /\ Len(cfg'.opencl.devices) = Len(k.opencl.devices)
              /\ \A i \in DOMAIN k.opencl.devices :
                    LET new == cfg'.opencl.devices[i]
                        old == k.opencl.devices[i]
                    IN new.id = old.id /\ new.set.npi = old.set.npi /\ new.set.batch = old.set.batch
<1> DEFINE k == kept[1]
           f == file.cfg
           names == file.alias
<1>1. at = "off" /\ at' # "off" /\ args'.workers = Off /\ args'.autotune = Off /\ kept # <<>>
  BY DEF Restart
<1>2. PICK a \in machine.args : Start(a)
  BY <1>1 DEF TunerNext, TestMode, AfterCpu, SectionDone, ResolveDevices, Probe, ProbeBatches, ProbeDone,
              AfterModes, Select, SaveRead, SaveOpen, SaveWrite, Kill, EditFile, Stopped, tunerVars
<1>3. /\ Len(kept) = 1 /\ Settled(k) /\ file.state = "good" /\ f = [k EXCEPT !.pools = f.pools]
      /\ kept \in Seq(Config) /\ file \in File /\ machine \in Machine
  BY <1>1 DEF TunerInv, TunerTypeOK, KeptFile, ProbeTyped
<1>4. k \in Config
  <2>1. 1 \in 1..Len(kept)
    BY <1>3
  <2> QED BY <1>3, <2>1, ElementOfSeq
<1>5. a \in Args
  BY <1>3 DEF Machine
<1> DEFINE loaded == IF file.state = "good" THEN LoadConfigFile(file) ELSE Defaults
           n == Normalized(ApplyArgs(loaded, a))
           c == LoadConfigFile(file)
<1>6. /\ args' = a /\ cfg' = n
      /\ IF Tunes(n, a)
         THEN at' = "cpu" /\ plan' = WithCpu(n, CpuModes(n, NoOpencl, NoCuda))
         ELSE at' = "mining" /\ plan' = <<>>
  BY <1>2, <1>3 DEF Start
<1>7. /\ f.cpu = k.cpu /\ f.threads = k.threads /\ f.affinity = k.affinity
      /\ f.cpu_done = k.cpu_done /\ f.gpu_done = k.gpu_done /\ f.opencl = k.opencl /\ f.cuda = k.cuda
  <2> HIDE DEF f, k
  <2> QED BY <1>3, <1>4 DEF Config
<1>8. /\ c \in Config
      /\ c.cpu = k.cpu /\ c.affinity = k.affinity /\ c.threads = Over(k.threads, names.threads)
      /\ c.cpu_done = Over(k.cpu_done, names.cpu_done) /\ c.gpu_done = Over(k.gpu_done, names.gpu_done)
      /\ c.opencl.on = k.opencl.on /\ c.cuda.on = k.cuda.on
      /\ c.cuda.base.npi = Over(k.cuda.base.npi, names.cuda_npi)
      /\ c.cuda.base.batch = Over(k.cuda.base.batch, names.cuda_batch)
      /\ Len(c.opencl.devices) = Len(k.opencl.devices)
      /\ \A i \in 1..Len(k.opencl.devices) :
            LET new == c.opencl.devices[i]
                old == k.opencl.devices[i]
            IN  new.id = old.id /\ new.set.npi = old.set.npi /\ new.set.batch = old.set.batch
  <2> HIDE DEF k, c
  <2> QED BY <1>3, <1>7, LoadKeeps DEF c
<1>9. n = Normalized(c)
  <2>1. loaded = c
    BY <1>3
  <2>2. a.workers = Off /\ a.autotune = Off
    BY <1>1, <1>6
  <2> HIDE DEF loaded, c
  <2>3. ApplyArgs(loaded, a) = c
    BY <1>5, <1>8, <2>1, <2>2, ApplyArgsTyped
  <2> QED BY <2>3
<1> HIDE DEF n, c, loaded
<1>10. /\ n \in Config /\ (~n.cpu => n.threads = 0) /\ n = [c EXCEPT !.threads = n.threads]
       /\ c.cpu /\ c.threads > 0 => n.threads = c.threads
  BY <1>3, <1>8, <1>9, NormalizedTyped
<1>11. /\ n.cpu = c.cpu /\ n.affinity = c.affinity /\ n.cpu_done = c.cpu_done /\ n.gpu_done = c.gpu_done
       /\ n.opencl = c.opencl /\ n.cuda = c.cuda
  BY <1>8, <1>10 DEF Config
<1>12. ASSUME Over(TRUE, names.cpu_done), Over(TRUE, names.gpu_done) PROVE at' = "mining"
  <2>1. (k.cpu => n.cpu_done) /\ (k.opencl.on \/ k.cuda.on => n.gpu_done)
    <3> HIDE DEF k, names
    <3> QED BY <1>3, <1>8, <1>11, <1>12 DEF Settled, Over
  <2>2. ~Tunes(n, a)
    <3> HIDE DEF k
    <3> QED BY <1>8, <1>11, <2>1 DEF Tunes, NeedsCpu, NeedsGpu
  <2> QED BY <1>6, <2>2
<1>13. DOMAIN k.opencl.devices = 1..Len(k.opencl.devices)
  <2>1. k.opencl.devices \in Seq(Device)
    BY <1>4 DEF Config, OpenclConfig
  <2> QED BY <2>1, LenProperties
<1> HIDE DEF f, k, names
<1> QED BY <1>6, <1>8, <1>10, <1>11, <1>12, <1>13 DEF k, names

-----------------------------------------------------------------------------
(* The theorems about the autotuner.                                       *)

(* The invariant holds of every state the program reaches. *)
THEOREM TunerInvariant == TunerSpec => []TunerInv
<1>1. TunerInit => TunerInv
  BY InitTunerInv
<1>2. TunerInv /\ [TunerNext]_tunerVars => TunerInv'
  BY NextTunerInv
<1> QED BY <1>1, <1>2, PTL DEF TunerSpec

(* Whatever the GPUs, the candidates and the outcomes of the measurements: *)
(* the probes keep settings within 2% of the best, the two loops of        *)
(* run_autotune select a mode of the most preferred kind among those       *)
(* within 10% of the fastest, and no worker kind is switched on.           *)
THEOREM TuningIsSound == TunerSpec => []TuningSound
<1>1. TunerInv => TuningSound
  BY SelectionIsRight DEF TunerInv, TuningSound
<1> QED BY <1>1, TunerInvariant, PTL

(* Whatever the number of starts, kills and edits: with tuning enabled a   *)
(* GPU mines only after a GPU has hashed, a tuning leaves behind only GPU  *)
(* kinds that have, and save_autotune_config keeps the user's pools unless *)
(* it was cut short or overtook an edit.                                   *)
THEOREM StartsAreSound == TunerSpec => []StartsSound
<1>1. TunerInv => StartsSound
  BY DEF TunerInv
<1> QED BY <1>1, TunerInvariant, PTL

(* What a complete save wrote, load_config_file and main's defaults read   *)
(* back: the next start mines at once, with the same workers, but for the  *)
(* settings the file has under a name that is read later.                  *)
THEOREM RestartIsFaithful == TunerSpec => RestartKeepsMode
<1>1. TunerInv /\ [TunerNext]_tunerVars =>
        (Restart =>
            LET k == kept[1]
                names == file.alias
                threads == Over(k.threads, names.threads)
            IN /\ Over(TRUE, names.cpu_done) /\ Over(TRUE, names.gpu_done) => at' = "mining"
               /\ cfg'.cpu = k.cpu /\ cfg'.affinity = k.affinity
               /\ k.cpu /\ threads > 0 => cfg'.threads = threads
               /\ ~k.cpu => cfg'.threads = 0
               /\ cfg'.opencl.on = k.opencl.on /\ cfg'.cuda.on = k.cuda.on
               /\ k.cuda.on => /\ cfg'.cuda.base.npi = Over(k.cuda.base.npi, names.cuda_npi)
                               /\ cfg'.cuda.base.batch = Over(k.cuda.base.batch, names.cuda_batch)
               /\ Len(cfg'.opencl.devices) = Len(k.opencl.devices)
               /\ \A i \in DOMAIN k.opencl.devices :
                     LET new == cfg'.opencl.devices[i]
                         old == k.opencl.devices[i]
                     IN new.id = old.id /\ new.set.npi = old.set.npi /\ new.set.batch = old.set.batch)
  BY RestartStep
<1> QED BY <1>1, TunerInvariant, PTL DEF TunerSpec, RestartKeepsMode
=============================================================================
