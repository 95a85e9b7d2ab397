--------------------------- MODULE SessionProofs ---------------------------
(***************************************************************************)
(* Proofs about the two layers of a session of stratum.c below its         *)
(* messages.  Connect: a session leaves nothing behind and its fallbacks   *)
(* end in the strongest mode there is, for any number of sessions and of   *)
(* changes of the server.  LineReader: the lines it returns are those of   *)
(* the stream, for any size of the buffer and of what the pool sends.      *)
(***************************************************************************)
EXTENDS Connect, LineReader, SequenceTheorems, FiniteSetTheorems, WellFoundedInduction, TLAPS

-----------------------------------------------------------------------------
(* Connect.                                                                *)

Opening == {"tcp", "ctx", "ssl", "handshake", "open", "failed"}

(* The handles that conn_open_once and stratum_run_client hold at each     *)
(* point: what makes it safe to clear the struct without closing it.       *)
HeldHere ==
    /\ at \in {"main", "ended", "tcp", "failed"} => conn = {}
    /\ at = "ctx" => conn = {"fd"}
    /\ at = "ssl" => conn = {"fd", "ctx"}

(* Miner and terminal exist between StartMiner and Cleanup only. *)
MinerHere ==
    /\ at \in Opening \cup {"main", "ended"} => miner = FALSE
    /\ at \in Opening \cup {"main", "ended", "subscribe"} => raw = FALSE

(* The attempts that a conn_open may have made, by the url's scheme. *)
Attempted ==
    /\ Len(tried) \in 1..3
    /\ CASE scheme = "tcp" -> Len(tried) = 1 /\ tried[1] = "plain"
         [] scheme = "tls" -> /\ tried[1] = "verified"
                              /\ Len(tried) = 2 => tried[2] \in {"unverified", "plain"}
                              /\ Len(tried) = 3 => tried[2] = "unverified" /\ tried[3] = "plain"
         [] scheme = "insecure" -> /\ tried[1] = "unverified"
                                   /\ Len(tried) \in 1..2
                                   /\ Len(tried) = 2 => tried[2] = "plain"
         [] OTHER -> FALSE

AttemptsMade ==
    /\ at \in Opening \cup {"subscribe", "running", "cleanup"} => Attempted
    /\ at \in {"main", "ended"} => tried = << >>
    /\ at \in {"ctx", "ssl", "handshake"} => Mode # "plain"
    /\ at \in {"tcp", "ctx", "ssl", "handshake"} => tls_handshake_failed = FALSE
    /\ at = "failed" /\ tls_handshake_failed => Mode # "plain"

(* What a server that did not change has already refused, or accepted. *)
Refuses(mode) == ~server.tls \/ (mode = "verified" /\ ~server.trusted)

SteadyHistory ==
    steady /\ at \in Opening =>
        /\ at \in {"ctx", "ssl", "handshake", "open"} => server.up
        /\ at = "open" /\ Mode # "plain" => ~Refuses(Mode)
        /\ at = "failed" => IF tls_handshake_failed THEN server.up /\ Refuses(Mode)
                                                    ELSE ~server.up
        /\ server.up =>
              /\ \A i \in 1..(Len(tried) - 1) : Refuses(tried[i])
              /\ Len(tried) = 2 /\ scheme = "tls" => tried[2] = "unverified"

SessionInv == TypeOK /\ NoHandleLost /\ HeldHere /\ MinerHere /\ AttemptsMade /\ SteadyHistory

LEMMA SessionInit == Init => SessionInv
<1> SUFFICES ASSUME Init PROVE SessionInv
  OBVIOUS
<1>1. TypeOK
  <2>1. live \in [Handles -> Nat] /\ tried \in Seq(Modes)
    BY DEF Init
  <2>2. changes \in 0..MaxChanges /\ sessions \in 0..MaxSessions
    BY ConnectAssumption DEF Init
  <2> QED BY <2>1, <2>2 DEF Init, TypeOK
<1>2. NoHandleLost /\ HeldHere /\ MinerHere
  BY DEF Init, NoHandleLost, HeldHere, MinerHere, Opening
<1>3. AttemptsMade /\ SteadyHistory
  BY DEF Init, AttemptsMade, SteadyHistory, Opening
<1> QED BY <1>1, <1>2, <1>3 DEF SessionInv

(* A fallback extends the attempts. *)
LEMMA FallbackShape ==
    ASSUME TypeOK, Attempted, Fallback # "none", tried' = Append(tried, Fallback), UNCHANGED scheme
    PROVE  /\ Fallback \in Modes /\ tried' \in Seq(Modes)
           /\ Attempted' /\ Mode' = Fallback
           /\ Len(tried') = Len(tried) + 1
           /\ \A i \in 1..Len(tried) : tried'[i] = tried[i]
           /\ Len(tried) = 1 /\ scheme = "tls" /\ tls_handshake_failed => Fallback = "unverified"
<1>1. tried \in Seq(Modes) /\ Fallback \in Modes
  BY DEF Fallback, Modes, TypeOK
<1>2. /\ tried' \in Seq(Modes) /\ Len(tried') = Len(tried) + 1
      /\ \A i \in 1..Len(tried) : tried'[i] = tried[i]
      /\ tried'[Len(tried) + 1] = Fallback
  BY <1>1
<1>3. scheme \in {"tcp", "tls", "insecure"}
  BY DEF Attempted
<1>4. CASE scheme = "tcp"
  BY <1>4 DEF Attempted, Fallback, Mode, UseTls
<1>5. CASE scheme = "tls"
  <2>1. Len(tried) \in {1, 2}
    BY <1>5 DEF Attempted, Fallback, Mode, UseTls
  <2>2. CASE Len(tried) = 1
    BY <1>1, <1>2, <1>5, <2>2 DEF Attempted, Fallback, Mode, UseTls
  <2>3. CASE Len(tried) = 2
    BY <1>1, <1>2, <1>5, <2>3 DEF Attempted, Fallback, Mode, UseTls
  <2> QED BY <2>1, <2>2, <2>3
<1>6. CASE scheme = "insecure"
  BY <1>1, <1>2, <1>6 DEF Attempted, Fallback, Mode, UseTls
<1> QED BY <1>3, <1>4, <1>5, <1>6

(* What RunClient tries first. *)
LEMMA FirstAttempt ==
    ASSUME TypeOK, scheme # "invalid", UNCHANGED scheme,
           tried' = << IF ~UseTls THEN "plain" ELSE IF VerifyTls THEN "verified" ELSE "unverified" >>
    PROVE  tried' \in Seq(Modes) /\ Attempted' /\ Len(tried') = 1
<1>1. scheme \in {"tcp", "tls", "insecure"}
  BY ConnectAssumption DEF TypeOK
<1> QED BY <1>1 DEF Attempted, UseTls, VerifyTls, Modes

(* Acquiring and closing keep the count of handles. *)
LEMMA AcquireKeeps ==
    ASSUME TypeOK, NoHandleLost, NEW h \in Handles, h \notin conn, Acquire(h)
    PROVE  conn' = conn \cup {h} /\ conn' \subseteq Handles /\ live' \in [Handles -> Nat] /\ NoHandleLost'
BY DEF TypeOK, NoHandleLost, Acquire

LEMMA CloseKeeps ==
    ASSUME TypeOK, NoHandleLost, ConnClose
    PROVE  conn' = {} /\ live' \in [Handles -> Nat] /\ NoHandleLost'
<1>1. \A h \in Handles : (IF h \in conn THEN live[h] - 1 ELSE live[h]) = 0
  BY DEF NoHandleLost
<1> QED BY <1>1 DEF NoHandleLost, ConnClose

-----------------------------------------------------------------------------
(* Each part of the invariant is kept by every step.                       *)

LEMMA TypeStep == ASSUME SessionInv, [Next]_vars PROVE TypeOK'
<1> USE DEF SessionInv
<1>1. CASE RunClient
  <2>1. sessions' \in 0..MaxSessions /\ UNCHANGED <<scheme, server, changes, live, miner, raw, expired>>
    BY <1>1, ConnectAssumption DEF RunClient, TypeOK
  <2>2. tried' \in Seq(Modes) /\ conn' \subseteq Handles
    BY <1>1, FirstAttempt DEF RunClient, TypeOK
  <2>3. steady' \in BOOLEAN /\ tls_handshake_failed' \in BOOLEAN /\ at' \in {at, "tcp"}
    BY <1>1 DEF RunClient, TypeOK
  <2> QED BY <2>1, <2>2, <2>3 DEF TypeOK
<1>2. CASE ConnectTcp
  BY <1>2, AcquireKeeps DEF ConnectTcp, Within, environment, TypeOK, HeldHere, Handles
<1>3. CASE NewSsl("ctx", "ctx", "ssl")
  BY <1>3, AcquireKeeps, CloseKeeps DEF HeldHere, Handles, NewSsl, Within, environment, TypeOK
<1>4. CASE NewSsl("ssl", "ssl", "handshake")
  BY <1>4, AcquireKeeps, CloseKeeps DEF HeldHere, Handles, NewSsl, Within, environment, TypeOK
<1>5. CASE Handshake
  BY <1>5, CloseKeeps DEF Handshake, Within, environment, TypeOK
<1>6. CASE NextAttempt
  <2>1. tried' \in Seq(Modes)
    <3>1. CASE Fallback = "none"
      BY <1>6, <3>1 DEF NextAttempt
    <3>2. CASE Fallback # "none"
      BY <1>6, <3>2, FallbackShape DEF NextAttempt, OpenOnce, environment, AttemptsMade, Opening
    <3> QED BY <3>1, <3>2
  <2>2. /\ at' \in {"main", "tcp"} /\ tls_handshake_failed' \in BOOLEAN /\ conn' \subseteq Handles
        /\ UNCHANGED <<scheme, server, changes, steady, live, miner, raw, expired, sessions>>
    BY <1>6 DEF NextAttempt, OpenOnce, environment, TypeOK
  <2> QED BY <2>1, <2>2 DEF TypeOK
<1>7. CASE StartMiner
  <2>1. tried' \in Seq(Modes) /\ live' \in [Handles -> Nat] /\ conn' \subseteq Handles
    <3>1. CASE Leave
      BY <3>1, CloseKeeps DEF Leave
    <3>2. CASE UNCHANGED <<tried, conn, live>>
      BY <3>2 DEF TypeOK
    <3> QED BY <1>7, <3>1, <3>2 DEF StartMiner
  <2> QED BY <1>7, <2>1 DEF StartMiner, Leave, Session, environment, TypeOK
<1>8. CASE Subscribe
  BY <1>8 DEF Subscribe, Session, environment, TypeOK
<1>9. CASE Cleanup
  <2>1. tried' \in Seq(Modes) /\ live' \in [Handles -> Nat] /\ conn' \subseteq Handles
    BY <1>9, CloseKeeps DEF Cleanup, Leave, TypeOK
  <2> QED BY <1>9, <2>1 DEF Cleanup, Leave, Session, environment, TypeOK
<1>10. CASE MainEnds \/ LoopEnds
  BY <1>10 DEF MainEnds, LoopEnds, Session, environment, TypeOK
<1>11. CASE ServerChanges
  <2>1. changes' \in 0..MaxChanges /\ server' \in Servers
    BY <1>11, ConnectAssumption DEF ServerChanges, TypeOK
  <2> QED BY <1>11, <2>1 DEF ServerChanges, TypeOK
<1>12. CASE Expire
  BY <1>12 DEF Expire, TypeOK
<1>13. CASE Resting \/ UNCHANGED vars
  BY <1>13 DEF Resting, vars, TypeOK
<1> QED BY <1>1, <1>2, <1>3, <1>4, <1>5, <1>6, <1>7, <1>8, <1>9, <1>10, <1>11, <1>12, <1>13
        DEF Next, Client

LEMMA HandleStep == ASSUME SessionInv, [Next]_vars PROVE NoHandleLost' /\ HeldHere' /\ MinerHere'
<1> USE DEF SessionInv, HeldHere, MinerHere, Opening
<1>0. at \in {"main", "tcp", "ctx", "ssl", "handshake", "open", "failed", "subscribe",
              "running", "cleanup", "ended"}
  BY DEF TypeOK
<1>1. CASE RunClient
  BY <1>1 DEF RunClient, NoHandleLost
<1>2. CASE ConnectTcp
  BY <1>2, AcquireKeeps DEF ConnectTcp, Within, NoHandleLost, Handles
<1>3. CASE NewSsl("ctx", "ctx", "ssl")
  BY <1>3, AcquireKeeps, CloseKeeps DEF NewSsl, Within, Handles
<1>4. CASE NewSsl("ssl", "ssl", "handshake")
  BY <1>4, AcquireKeeps, CloseKeeps DEF NewSsl, Within, Handles
<1>5. CASE Handshake
  BY <1>5, CloseKeeps DEF Handshake, Within, NoHandleLost
<1>6. CASE NextAttempt
  BY <1>6 DEF NextAttempt, OpenOnce, NoHandleLost
<1>7. CASE StartMiner
  BY <1>7, CloseKeeps DEF StartMiner, Leave, NoHandleLost
<1>8. CASE Subscribe
  BY <1>8 DEF Subscribe, NoHandleLost
<1>9. CASE Cleanup
  BY <1>9, CloseKeeps DEF Cleanup, Leave
<1>10. CASE MainEnds \/ LoopEnds
  BY <1>10 DEF MainEnds, LoopEnds, NoHandleLost
<1>11. CASE ServerChanges \/ Expire
  BY <1>11 DEF ServerChanges, Expire, NoHandleLost
<1>12. CASE Resting \/ UNCHANGED vars
  BY <1>12 DEF Resting, vars, NoHandleLost
<1> QED BY <1>1, <1>2, <1>3, <1>4, <1>5, <1>6, <1>7, <1>8, <1>9, <1>10, <1>11, <1>12
        DEF Next, Client

LEMMA AttemptStep == ASSUME SessionInv, [Next]_vars PROVE AttemptsMade'
<1> USE DEF SessionInv, AttemptsMade, Opening
<1>1. CASE RunClient
  <2>1. CASE scheme = "invalid"
    BY <1>1, <2>1 DEF RunClient
  <2>2. CASE scheme # "invalid"
    BY <1>1, <2>2, FirstAttempt DEF RunClient
  <2> QED BY <2>1, <2>2
<1>2. CASE ConnectTcp
  BY <1>2 DEF ConnectTcp, Within, environment, Attempted, Mode
<1>3. CASE NewSsl("ctx", "ctx", "ssl") \/ NewSsl("ssl", "ssl", "handshake")
  BY <1>3 DEF NewSsl, Within, environment, Attempted, Mode
<1>4. CASE Handshake
  BY <1>4 DEF Handshake, Within, environment, Attempted, Mode
<1>5. CASE NextAttempt
  <2>1. CASE Fallback = "none"
    BY <1>5, <2>1 DEF NextAttempt
  <2>2. CASE Fallback # "none"
    BY <1>5, <2>2, FallbackShape DEF NextAttempt, OpenOnce, environment
  <2> QED BY <2>1, <2>2
<1>6. CASE StartMiner \/ Subscribe \/ Cleanup \/ MainEnds \/ LoopEnds
  BY <1>6 DEF StartMiner, Subscribe, Cleanup, MainEnds, LoopEnds, Leave, Session, environment, Attempted
<1>7. CASE ServerChanges \/ Expire
  BY <1>7 DEF ServerChanges, Expire, Attempted, Mode
<1>8. CASE Resting \/ UNCHANGED vars
  BY <1>8 DEF Resting, vars, Attempted, Mode
<1> QED BY <1>1, <1>2, <1>3, <1>4, <1>5, <1>6, <1>7, <1>8 DEF Next, Client

LEMMA SteadyStep == ASSUME SessionInv, [Next]_vars PROVE SteadyHistory'
<1> USE DEF SessionInv, Opening
<1>0. steady \in BOOLEAN /\ tls_handshake_failed \in BOOLEAN
  BY DEF TypeOK
<1>1. CASE RunClient
  <2>1. CASE scheme = "invalid"
    BY <1>1, <2>1 DEF RunClient, SteadyHistory
  <2>2. CASE scheme # "invalid"
    <3>1. at' = "tcp" /\ Len(tried') = 1
      BY <1>1, <2>2, FirstAttempt DEF RunClient
    <3> QED BY <3>1 DEF SteadyHistory
  <2> QED BY <2>1, <2>2
<1>2. CASE ConnectTcp
  BY <1>0, <1>2 DEF ConnectTcp, Within, environment, SteadyHistory, AttemptsMade, Mode, Refuses
<1>3. CASE NewSsl("ctx", "ctx", "ssl") \/ NewSsl("ssl", "ssl", "handshake")
  BY <1>0, <1>3 DEF NewSsl, Within, environment, SteadyHistory, Mode, Refuses
<1>4. CASE Handshake
  BY <1>0, <1>4 DEF Handshake, Accepts, Within, environment, SteadyHistory, AttemptsMade, Mode, Refuses
<1>5. CASE NextAttempt
  <2>1. CASE Fallback = "none"
    BY <1>5, <2>1 DEF NextAttempt, SteadyHistory
  <2>2. CASE Fallback # "none"
    <3>1. at = "failed" /\ at' = "tcp" /\ Attempted /\ UNCHANGED <<scheme, server, steady>>
      BY <1>5, <2>2 DEF NextAttempt, OpenOnce, environment, AttemptsMade
    <3>2. /\ Len(tried') = Len(tried) + 1 /\ Mode' = Fallback
          /\ \A i \in 1..Len(tried) : tried'[i] = tried[i]
          /\ Len(tried) = 1 /\ scheme = "tls" /\ tls_handshake_failed => Fallback = "unverified"
      BY <1>5, <2>2, <3>1, FallbackShape DEF NextAttempt, OpenOnce
    <3>3. SUFFICES ASSUME steady, server.up
                   PROVE  /\ \A i \in 1..(Len(tried') - 1) : Refuses(tried'[i])
                          /\ Len(tried') = 2 /\ scheme = "tls" => tried'[2] = "unverified"
      BY <3>1 DEF SteadyHistory, Refuses
    <3>4. Len(tried) \in Nat /\ Refuses(tried[Len(tried)]) /\ tls_handshake_failed
      BY <3>1, <3>3 DEF SteadyHistory, Mode, TypeOK
    <3>5. \A i \in 1..(Len(tried) - 1) : Refuses(tried[i])
      BY <3>1, <3>3 DEF SteadyHistory
    <3>6. \A i \in 1..Len(tried) : Refuses(tried[i])
      BY <3>4, <3>5
    <3> QED BY <3>2, <3>4, <3>6 DEF Mode
  <2> QED BY <2>1, <2>2
<1>6. CASE StartMiner \/ Subscribe \/ Cleanup \/ MainEnds \/ LoopEnds
  BY <1>6 DEF StartMiner, Subscribe, Cleanup, MainEnds, LoopEnds, Leave, SteadyHistory
<1>7. CASE ServerChanges
  BY <1>7 DEF ServerChanges, SteadyHistory
<1>8. CASE UNCHANGED <<scheme, server, steady, at, tried, tls_handshake_failed>>
  BY <1>8 DEF SteadyHistory, Mode, Refuses
<1> QED BY <1>1, <1>2, <1>3, <1>4, <1>5, <1>6, <1>7, <1>8 DEF Next, Client, Expire, Resting, vars

(* The invariant contains what a reader wants to know. *)
LEMMA SessionInvSound == SessionInv => SessionSound
<1> SUFFICES ASSUME SessionInv PROVE SessionSound
  OBVIOUS
<1> USE DEF SessionInv, Opening
<1>1. AllReleased
  BY DEF AllReleased, HeldHere, MinerHere
<1>2. AttemptsWeaken
  <2>1. CASE at \in {"main", "ended"}
    BY <2>1 DEF AttemptsMade, AttemptsWeaken
  <2>2. CASE at \notin {"main", "ended"}
    <3>1. Attempted
      BY <2>2 DEF AttemptsMade, TypeOK
    <3> QED BY <3>1 DEF Attempted, AttemptsWeaken, Position
  <2> QED BY <2>1, <2>2
<1>3. SteadyServerBestMode
  <2> SUFFICES ASSUME at = "open", steady PROVE Mode = BestMode
    BY DEF SteadyServerBestMode
  <2>1. Attempted
    BY DEF AttemptsMade
  <2>2. /\ server.up /\ (Mode # "plain" => ~Refuses(Mode))
        /\ \A i \in 1..(Len(tried) - 1) : Refuses(tried[i])
        /\ Len(tried) = 2 /\ scheme = "tls" => tried[2] = "unverified"
    BY DEF SteadyHistory
  <2> QED BY <2>1, <2>2 DEF Attempted, Mode, BestMode, Refuses, UseTls, VerifyTls
<1> QED BY <1>1, <1>2, <1>3 DEF SessionSound

LEMMA SessionInvariant == Spec => []SessionInv
<1>1. SessionInv /\ [Next]_vars => SessionInv'
  BY TypeStep, HandleStep, AttemptStep, SteadyStep DEF SessionInv
<1> QED BY SessionInit, <1>1, PTL DEF Spec

(* Whichever step of a session fails and whatever the server does, over    *)
(* any number of sessions: no socket, TLS object, miner or terminal mode   *)
(* is left behind by stratum_run_client and conn_open, the fallbacks only  *)
(* become weaker, and a server that stays as it is gets the strongest mode *)
(* that it and the url have in common.                                     *)
THEOREM SessionIsSound == Spec => []SessionSound
BY SessionInvariant, SessionInvSound, PTL

-----------------------------------------------------------------------------
(* LineReader: where the lines of a stream end.                            *)

(* The lines of a byte sequence that end up to position e, and where line  *)
(* k of it ends.                                                           *)
LinesUpTo(s, e) == {j \in Ends(s) : j <= e}
EndsAt(s, k, e) == IF k = 0 THEN e = 0 ELSE e \in Ends(s) /\ Cardinality(LinesUpTo(s, e)) = k

(* Natural numbers have a least element in every set that has one.         *)
LEMMA LeastPosition ==
    ASSUME NEW P \in SUBSET Nat, P # {}
    PROVE  \E n \in P : \A m \in P : n <= m
<1> DEFINE R == {q \in Nat \X Nat : q[1] < q[2]}
<1>1. R = OpToRel(<, Nat)
  BY DEF OpToRel
<1>2. IsWellFoundedOn(R, Nat)
  BY <1>1, NatLessThanWellFounded
<1>3. PICK n \in P : \A m \in P : ~(<<m, n>> \in R)
  BY <1>2, WFMin
<1>4. \A m \in P : ~(m < n)
  BY <1>3
<1> QED BY <1>3, <1>4

(* There are finitely many line ends up to a position, and no more than in *)
(* the whole.                                                              *)
LEMMA UpToFinite ==
    ASSUME NEW s \in Seq(Bytes), NEW e \in Nat
    PROVE  /\ IsFiniteSet(LinesUpTo(s, e)) /\ Cardinality(LinesUpTo(s, e)) \in Nat
           /\ IsFiniteSet(Ends(s)) /\ Cardinality(Ends(s)) \in Nat
           /\ Cardinality(LinesUpTo(s, e)) <= Cardinality(Ends(s))
<1>1. IsFiniteSet(1..Len(s))
  BY FS_Interval, LenProperties
<1>2. Ends(s) \subseteq 1..Len(s) /\ LinesUpTo(s, e) \subseteq Ends(s)
  BY DEF Ends, LinesUpTo
<1>3. IsFiniteSet(Ends(s))
  BY <1>1, <1>2, FS_Subset
<1>4. IsFiniteSet(LinesUpTo(s, e)) /\ Cardinality(LinesUpTo(s, e)) <= Cardinality(Ends(s))
  BY <1>2, <1>3, FS_Subset
<1> QED
  BY <1>3, <1>4, FS_CardinalityType

(* The next line end after a position counts one more.                     *)
LEMMA NextEnd ==
    ASSUME NEW s \in Seq(Bytes), NEW p \in Nat, NEW e \in Ends(s), p < e,
           \A j \in Ends(s) : p < j => e <= j
    PROVE  Cardinality(LinesUpTo(s, e)) = Cardinality(LinesUpTo(s, p)) + 1
<1>0. e \in Nat /\ Ends(s) \subseteq Nat
  BY LenProperties DEF Ends
<1>1. LinesUpTo(s, e) = LinesUpTo(s, p) \cup {e}
  BY <1>0 DEF LinesUpTo
<1>2. e \notin LinesUpTo(s, p)
  BY <1>0 DEF LinesUpTo
<1>3. IsFiniteSet(LinesUpTo(s, p))
  BY UpToFinite
<1> QED
  BY <1>1, <1>2, <1>3, FS_AddElement

(* A line ends at one place only, and EndOf finds it.                      *)
LEMMA OneEnd ==
    ASSUME NEW s \in Seq(Bytes), NEW k \in Nat, NEW d, NEW e, EndsAt(s, k, d), EndsAt(s, k, e)
    PROVE  d = e
<1>1. CASE k = 0
  BY <1>1 DEF EndsAt
<1>2. CASE k # 0
  <2>1. /\ d \in Ends(s) /\ e \in Ends(s) /\ d \in Nat /\ e \in Nat /\ Ends(s) \subseteq Nat
        /\ Cardinality(LinesUpTo(s, d)) = k /\ Cardinality(LinesUpTo(s, e)) = k
    BY <1>2, LenProperties DEF EndsAt, Ends
  <2>2. ASSUME NEW x \in Ends(s), NEW y \in Ends(s), x < y
        PROVE  Cardinality(LinesUpTo(s, x)) # Cardinality(LinesUpTo(s, y))
    <3>1. x \in Nat /\ y \in Nat
      BY <2>1
    <3>2. LinesUpTo(s, x) \subseteq LinesUpTo(s, y) /\ y \in LinesUpTo(s, y) /\ y \notin LinesUpTo(s, x)
      BY <2>1, <2>2, <3>1 DEF LinesUpTo
    <3>3. IsFiniteSet(LinesUpTo(s, y))
      BY <3>1, UpToFinite
    <3> QED
      BY <3>2, <3>3, FS_Subset
  <2> QED
    BY <2>1, <2>2
<1> QED
  BY <1>1, <1>2

LEMMA EndOfIs ==
    ASSUME NEW s \in Seq(Bytes), NEW k \in Nat, NEW e, EndsAt(s, k, e)
    PROVE  EndOf(s, k) = e
<1>1. CASE k = 0
  BY <1>1 DEF EndsAt, EndOf
<1>2. CASE k # 0
  <2> DEFINE f == CHOOSE i \in Ends(s) : Cardinality({j \in Ends(s) : j <= i}) = k
  <2>1. e \in Ends(s) /\ Cardinality({j \in Ends(s) : j <= e}) = k
    BY <1>2 DEF EndsAt, LinesUpTo
  <2>2. f \in Ends(s) /\ Cardinality({j \in Ends(s) : j <= f}) = k
    BY <2>1
  <2>3. EndsAt(s, k, f)
    BY <1>2, <2>2 DEF EndsAt, LinesUpTo
  <2>4. EndOf(s, k) = f
    BY <1>2 DEF EndOf
  <2> QED
    BY <2>3, <2>4, OneEnd
<1> QED
  BY <1>1, <1>2

(* Bytes sent later do not move the line ends before them.                 *)
LEMMA EndsKept ==
    ASSUME NEW s \in Seq(Bytes), NEW t \in Seq(Bytes), NEW k \in Nat, NEW e, EndsAt(s, k, e)
    PROVE  EndsAt(s \o t, k, e)
<1>1. CASE k = 0
  BY <1>1 DEF EndsAt
<1>2. CASE k # 0
  <2>1. e \in Ends(s) /\ Cardinality(LinesUpTo(s, e)) = k
    BY <1>2 DEF EndsAt
  <2>2. /\ s \o t \in Seq(Bytes) /\ Len(s \o t) = Len(s) + Len(t)
        /\ \A i \in 1..Len(s) : (s \o t)[i] = s[i]
    BY ConcatProperties, LenProperties
  <2>3. Len(s) \in Nat /\ Len(t) \in Nat
    BY LenProperties
  <2>4. e \in Nat /\ e <= Len(s) /\ e \in Ends(s \o t)
    BY <2>1, <2>2, <2>3 DEF Ends
  <2>5. LinesUpTo(s \o t, e) = LinesUpTo(s, e)
    BY <2>2, <2>3, <2>4 DEF Ends, LinesUpTo
  <2> QED
    BY <2>1, <2>4, <2>5 DEF EndsAt
<1> QED
  BY <1>1, <1>2

(* A line end lies in the sequence.                                        *)
LEMMA EndInside ==
    ASSUME NEW s \in Seq(Bytes), NEW k \in Nat, NEW e, EndsAt(s, k, e)
    PROVE  /\ e \in Nat /\ e <= Len(s) /\ (k # 0 => e # 0 /\ s[e] = "LF")
           /\ k = Cardinality(LinesUpTo(s, e)) /\ k <= Cardinality(Ends(s))
<1>1. CASE k = 0
  <2>1. LinesUpTo(s, 0) = {}
    BY DEF LinesUpTo, Ends
  <2> QED
    BY <1>1, <2>1, FS_EmptySet, UpToFinite, LenProperties DEF EndsAt
<1>2. CASE k # 0
  <2>1. e \in Ends(s) /\ Cardinality(LinesUpTo(s, e)) = k
    BY <1>2 DEF EndsAt
  <2>2. e \in Nat /\ e <= Len(s) /\ e # 0 /\ s[e] = "LF"
    BY <2>1, LenProperties DEF Ends
  <2> QED
    BY <2>1, <2>2, UpToFinite
<1> QED
  BY <1>1, <1>2

(* The next LF after the end of line k is the end of line k + 1.           *)
LEMMA FollowingEnd ==
    ASSUME NEW s \in Seq(Bytes), NEW k \in Nat, NEW p, EndsAt(s, k, p), NEW e \in Ends(s), p < e,
           \A j \in Ends(s) : p < j => e <= j
    PROVE  EndsAt(s, k + 1, e)
<1>1. p \in Nat /\ k = Cardinality(LinesUpTo(s, p))
  BY EndInside
<1>2. Cardinality(LinesUpTo(s, e)) = k + 1
  BY <1>1, NextEnd
<1> QED
  BY <1>2 DEF EndsAt

-----------------------------------------------------------------------------
(* Bytes on their way.                                                     *)

(* The bytes x are those of s after position p. *)
Lies(x, s, p) ==
    /\ p \in Nat /\ p + Len(x) <= Len(s)
    /\ \A j \in 1..Len(x) : x[j] = s[p + j]

(* The pieces w, one after the other, are the bytes of s after position p, *)
(* to the end; cuts are the positions between them.                        *)
Arrives(w, s, p) ==
    \E cuts \in [0..Len(w) -> Nat] :
        /\ cuts[0] = p /\ cuts[Len(w)] = Len(s)
        /\ \A i \in 1..Len(w) : cuts[i] = cuts[i - 1] + Len(w[i]) /\ Lies(w[i], s, cuts[i - 1])

LEMMA LiesIsSubSeq ==
    ASSUME NEW s \in Seq(Bytes), NEW x \in Seq(Bytes), NEW p, Lies(x, s, p)
    PROVE  x = SubSeq(s, p + 1, p + Len(x))
<1>1. p \in Nat /\ Len(x) \in Nat /\ Len(s) \in Nat /\ p + Len(x) <= Len(s)
  BY LenProperties DEF Lies
<1> DEFINE t == SubSeq(s, p + 1, p + Len(x))
<1>2. t \in Seq(Bytes) /\ Len(t) = Len(x) /\ \A j \in 1..Len(x) : t[j] = s[p + j]
  BY <1>1
<1>3. \A j \in 1..Len(x) : x[j] = t[j]
  BY <1>2 DEF Lies
<1> HIDE DEF t
<1>4. x = t
  BY <1>2, <1>3, SeqEqual
<1> QED
  BY <1>4 DEF t

(* A first part and the rest of it lie one after the other. *)
LEMMA LiesSplit ==
    ASSUME NEW s \in Seq(Bytes), NEW x \in Seq(Bytes), NEW p, Lies(x, s, p), NEW n \in 0..Len(x)
    PROVE  /\ SubSeq(x, 1, n) \in Seq(Bytes) /\ Len(SubSeq(x, 1, n)) = n
           /\ SubSeq(x, n + 1, Len(x)) \in Seq(Bytes) /\ Len(SubSeq(x, n + 1, Len(x))) = Len(x) - n
           /\ Lies(SubSeq(x, 1, n), s, p) /\ Lies(SubSeq(x, n + 1, Len(x)), s, p + n)
<1>1. p \in Nat /\ Len(x) \in Nat /\ Len(s) \in Nat /\ p + Len(x) <= Len(s) /\ n \in Nat
  BY LenProperties DEF Lies
<1> DEFINE a == SubSeq(x, 1, n)
           b == SubSeq(x, n + 1, Len(x))
<1>2. a \in Seq(Bytes) /\ Len(a) = n /\ \A j \in 1..n : a[j] = x[j]
  BY <1>1
<1>3. b \in Seq(Bytes) /\ Len(b) = Len(x) - n /\ \A j \in 1..(Len(x) - n) : b[j] = x[n + j]
  BY <1>1
<1> HIDE DEF a, b
<1>4. Lies(a, s, p)
  <2>1. ASSUME NEW j \in 1..n PROVE a[j] = s[p + j]
    <3>1. j \in 1..Len(x)
      BY <1>1
    <3>2. x[j] = s[p + j]
      BY <3>1 DEF Lies
    <3> QED
      BY <1>2, <3>2
  <2> QED
    BY <1>1, <1>2, <2>1 DEF Lies
<1>5. Lies(b, s, p + n)
  <2>1. ASSUME NEW j \in 1..(Len(x) - n) PROVE x[n + j] = s[p + (n + j)]
    <3>1. n + j \in 1..Len(x)
      BY <1>1
    <3> QED
      BY <3>1 DEF Lies
  <2>2. \A j \in 1..(Len(x) - n) : p + (n + j) = (p + n) + j
    BY <1>1
  <2> QED
    BY <1>1, <1>3, <2>1, <2>2 DEF Lies
<1> QED
  BY <1>2, <1>3, <1>4, <1>5 DEF a, b

(* Two neighbours lie together. *)
LEMMA LiesJoin ==
    ASSUME NEW s \in Seq(Bytes), NEW x \in Seq(Bytes), NEW y \in Seq(Bytes), NEW p,
           Lies(x, s, p), Lies(y, s, p + Len(x))
    PROVE  Lies(x \o y, s, p) /\ x \o y \in Seq(Bytes) /\ Len(x \o y) = Len(x) + Len(y)
<1>1. p \in Nat /\ Len(x) \in Nat /\ Len(y) \in Nat /\ Len(s) \in Nat /\ p + Len(x) + Len(y) <= Len(s)
  BY LenProperties DEF Lies
<1>2. /\ x \o y \in Seq(Bytes) /\ Len(x \o y) = Len(x) + Len(y)
      /\ \A j \in 1..(Len(x) + Len(y)) : (x \o y)[j] = IF j <= Len(x) THEN x[j] ELSE y[j - Len(x)]
  BY ConcatProperties
<1>3. ASSUME NEW j \in 1..(Len(x) + Len(y))
      PROVE  (x \o y)[j] = s[p + j]
  <2>1. CASE j <= Len(x)
    BY <1>1, <1>2, <2>1 DEF Lies
  <2>2. CASE j > Len(x)
    <3>1. j - Len(x) \in 1..Len(y) /\ (p + Len(x)) + (j - Len(x)) = p + j
      BY <1>1, <2>2
    <3>2. y[j - Len(x)] = s[(p + Len(x)) + (j - Len(x))]
      BY <3>1 DEF Lies
    <3> QED
      BY <1>1, <1>2, <2>2, <3>1, <3>2
  <2> QED
    BY <1>1, <2>1, <2>2
<1> QED
  BY <1>1, <1>2, <1>3 DEF Lies

(* What lies in a sequence lies in it when bytes are added. *)
LEMMA LiesKept ==
    ASSUME NEW s \in Seq(Bytes), NEW x \in Seq(Bytes), NEW t \in Seq(Bytes), NEW p, Lies(x, s, p)
    PROVE  Lies(x, s \o t, p)
<1>1. p \in Nat /\ Len(x) \in Nat /\ Len(s) \in Nat /\ Len(t) \in Nat /\ p + Len(x) <= Len(s)
  BY LenProperties DEF Lies
<1>2. Len(s \o t) = Len(s) + Len(t) /\ \A i \in 1..Len(s) : (s \o t)[i] = s[i]
  BY ConcatProperties, <1>1
<1> QED
  BY <1>1, <1>2 DEF Lies

LEMMA ArrivesNone ==
    ASSUME NEW s \in Seq(Bytes), NEW p
    PROVE  Arrives(<< >>, s, p) <=> p = Len(s)
<1>1. Len(s) \in Nat
  BY LenProperties
<1>2. ASSUME p = Len(s) PROVE Arrives(<< >>, s, p)
  <2> DEFINE c == [i \in 0..0 |-> p]
  <2>1. c \in [0..0 -> Nat] /\ c[0] = p
    BY <1>1, <1>2
  <2>2. Len(<< >>) = 0 /\ 1..0 = {}
    OBVIOUS
  <2> HIDE DEF c
  <2> QED
    BY <1>2, <2>1, <2>2 DEF Arrives
<1>3. ASSUME Arrives(<< >>, s, p) PROVE p = Len(s)
  BY <1>3 DEF Arrives
<1> QED
  BY <1>2, <1>3

(* The first piece can be taken, *)
LEMMA ArrivesTail ==
    ASSUME NEW s \in Seq(Bytes), NEW w \in Seq(Seq(Bytes)), w # << >>, NEW p, Arrives(w, s, p)
    PROVE  /\ Head(w) \in Seq(Bytes) /\ Tail(w) \in Seq(Seq(Bytes))
           /\ Lies(Head(w), s, p) /\ Arrives(Tail(w), s, p + Len(Head(w)))
<1>1. /\ Len(w) \in Nat /\ Len(w) # 0 /\ Head(w) = w[1] /\ Head(w) \in Seq(Bytes)
      /\ Tail(w) \in Seq(Seq(Bytes)) /\ Len(Tail(w)) = Len(w) - 1
      /\ \A i \in 1..(Len(w) - 1) : Tail(w)[i] = w[i + 1]
  BY HeadTailProperties, EmptySeq, LenProperties
<1>2. PICK cuts \in [0..Len(w) -> Nat] :
        /\ cuts[0] = p /\ cuts[Len(w)] = Len(s)
        /\ \A i \in 1..Len(w) : cuts[i] = cuts[i - 1] + Len(w[i]) /\ Lies(w[i], s, cuts[i - 1])
  BY DEF Arrives
<1>3. cuts[1] = p + Len(Head(w)) /\ Lies(Head(w), s, p)
  BY <1>1, <1>2
<1> DEFINE c == [i \in 0..(Len(w) - 1) |-> cuts[i + 1]]
<1>4. c \in [0..(Len(w) - 1) -> Nat] /\ c[0] = p + Len(Head(w)) /\ c[Len(w) - 1] = Len(s)
  BY <1>1, <1>2, <1>3
<1>5. ASSUME NEW i \in 1..(Len(w) - 1)
      PROVE  c[i] = c[i - 1] + Len(Tail(w)[i]) /\ Lies(Tail(w)[i], s, c[i - 1])
  <2>1. i + 1 \in 1..Len(w) /\ (i + 1) - 1 = i /\ (i - 1) + 1 = i /\ i - 1 \in 0..(Len(w) - 1)
    BY <1>1
  <2>2. cuts[i + 1] = cuts[i] + Len(w[i + 1]) /\ Lies(w[i + 1], s, cuts[i])
    BY <1>2, <2>1
  <2>3. c[i] = cuts[i + 1] /\ c[i - 1] = cuts[i]
    BY <1>1, <2>1
  <2> QED
    BY <1>1, <2>2, <2>3
<1> HIDE DEF c
<1>6. Arrives(Tail(w), s, p + Len(Head(w)))
  BY <1>1, <1>4, <1>5 DEF Arrives
<1> QED
  BY <1>1, <1>3, <1>6

(* put back, *)
LEMMA ArrivesCons ==
    ASSUME NEW s \in Seq(Bytes), NEW w \in Seq(Seq(Bytes)), NEW x \in Seq(Bytes), NEW p,
           Lies(x, s, p), Arrives(w, s, p + Len(x))
    PROVE  Arrives(<<x>> \o w, s, p) /\ <<x>> \o w \in Seq(Seq(Bytes))
<1> DEFINE v == <<x>> \o w
<1>1. Len(w) \in Nat /\ Len(x) \in Nat /\ p \in Nat /\ Len(s) \in Nat
  BY LenProperties DEF Lies
<1>2. v \in Seq(Seq(Bytes)) /\ Len(v) = Len(w) + 1 /\ v[1] = x /\ \A i \in 2..(Len(w) + 1) : v[i] = w[i - 1]
  <2>1. <<x>> \in Seq(Seq(Bytes)) /\ Len(<<x>>) = 1 /\ <<x>>[1] = x
    OBVIOUS
  <2>2. /\ v \in Seq(Seq(Bytes)) /\ Len(v) = Len(<<x>>) + Len(w)
        /\ \A i \in 1..(Len(<<x>>) + Len(w)) : v[i] = IF i <= Len(<<x>>) THEN <<x>>[i] ELSE w[i - Len(<<x>>)]
    BY <2>1, ConcatProperties
  <2> QED
    BY <1>1, <2>1, <2>2
<1> HIDE DEF v
<1>3. PICK cuts \in [0..Len(w) -> Nat] :
        /\ cuts[0] = p + Len(x) /\ cuts[Len(w)] = Len(s)
        /\ \A i \in 1..Len(w) : cuts[i] = cuts[i - 1] + Len(w[i]) /\ Lies(w[i], s, cuts[i - 1])
  BY DEF Arrives
<1> DEFINE c == [i \in 0..(Len(w) + 1) |-> IF i = 0 THEN p ELSE cuts[i - 1]]
<1>4. c \in [0..(Len(w) + 1) -> Nat]
  BY <1>1, <1>3
<1>5. c[0] = p /\ c[1] = p + Len(x) /\ c[Len(w) + 1] = Len(s)
  BY <1>1, <1>3
<1>6. ASSUME NEW i \in 1..(Len(w) + 1)
      PROVE  c[i] = c[i - 1] + Len(v[i]) /\ Lies(v[i], s, c[i - 1])
  <2>1. CASE i = 1
    BY <1>2, <1>5, <2>1
  <2>2. CASE i # 1
    <3>1. i - 1 \in 1..Len(w) /\ i \in 2..(Len(w) + 1) /\ (i - 1) - 1 \in 0..Len(w)
      BY <1>1, <2>2
    <3>2. cuts[i - 1] = cuts[(i - 1) - 1] + Len(w[i - 1]) /\ Lies(w[i - 1], s, cuts[(i - 1) - 1])
      BY <1>3, <3>1
    <3>3. c[i] = cuts[i - 1] /\ c[i - 1] = cuts[(i - 1) - 1]
      BY <1>1, <2>2, <3>1
    <3>4. v[i] = w[i - 1]
      BY <1>2, <3>1
    <3> QED
      BY <3>2, <3>3, <3>4
  <2> QED
    BY <2>1, <2>2
<1> HIDE DEF c
<1>7. Arrives(v, s, p)
  BY <1>2, <1>4, <1>5, <1>6 DEF Arrives
<1> QED
  BY <1>2, <1>7 DEF v

(* and a new piece follows the others. *)
LEMMA ArrivesAppend ==
    ASSUME NEW s \in Seq(Bytes), NEW w \in Seq(Seq(Bytes)), NEW x \in Seq(Bytes), NEW p, Arrives(w, s, p)
    PROVE  Arrives(Append(w, x), s \o x, p)
<1> DEFINE v == Append(w, x)
           t == s \o x
<1>1. Len(w) \in Nat /\ Len(x) \in Nat /\ Len(s) \in Nat
  BY LenProperties
<1>2. v \in Seq(Seq(Bytes)) /\ Len(v) = Len(w) + 1 /\ v[Len(w) + 1] = x /\ \A i \in 1..Len(w) : v[i] = w[i]
  BY AppendProperties
<1>3. /\ t \in Seq(Bytes) /\ Len(t) = Len(s) + Len(x)
      /\ \A j \in 1..(Len(s) + Len(x)) : t[j] = IF j <= Len(s) THEN s[j] ELSE x[j - Len(s)]
  BY ConcatProperties
<1>4. \A y \in Seq(Bytes) : \A q : Lies(y, s, q) => Lies(y, t, q)
  BY LiesKept
<1> HIDE DEF v, t
<1>5. Lies(x, t, Len(s))
  <2>1. ASSUME NEW j \in 1..Len(x) PROVE x[j] = t[Len(s) + j]
    <3>1. Len(s) + j \in 1..(Len(s) + Len(x)) /\ ~(Len(s) + j <= Len(s)) /\ (Len(s) + j) - Len(s) = j
      BY <1>1
    <3> QED
      BY <1>3, <3>1
  <2> QED
    BY <1>1, <1>3, <2>1 DEF Lies
<1>6. PICK cuts \in [0..Len(w) -> Nat] :
        /\ cuts[0] = p /\ cuts[Len(w)] = Len(s)
        /\ \A i \in 1..Len(w) : cuts[i] = cuts[i - 1] + Len(w[i]) /\ Lies(w[i], s, cuts[i - 1])
  BY DEF Arrives
<1> DEFINE c == [i \in 0..(Len(w) + 1) |-> IF i = Len(w) + 1 THEN Len(s) + Len(x) ELSE cuts[i]]
<1>7. c \in [0..(Len(w) + 1) -> Nat]
  BY <1>1, <1>6
<1>8. c[0] = p /\ c[Len(w)] = Len(s) /\ c[Len(w) + 1] = Len(t)
  BY <1>1, <1>3, <1>6
<1>9. ASSUME NEW i \in 1..(Len(w) + 1)
      PROVE  c[i] = c[i - 1] + Len(v[i]) /\ Lies(v[i], t, c[i - 1])
  <2>1. CASE i = Len(w) + 1
    <3>1. i - 1 = Len(w) /\ v[i] = x
      BY <1>1, <1>2, <2>1
    <3> QED
      BY <1>1, <1>3, <1>5, <1>8, <2>1, <3>1
  <2>2. CASE i # Len(w) + 1
    <3>1. i \in 1..Len(w) /\ i - 1 \in 0..Len(w)
      BY <1>1, <2>2
    <3>2. cuts[i] = cuts[i - 1] + Len(w[i]) /\ Lies(w[i], s, cuts[i - 1]) /\ w[i] \in Seq(Bytes)
      BY <1>6, <3>1, ElementOfSeq
    <3>3. c[i] = cuts[i] /\ c[i - 1] = cuts[i - 1] /\ v[i] = w[i]
      BY <1>1, <1>2, <3>1
    <3> QED
      BY <1>4, <3>2, <3>3
  <2> QED
    BY <2>1, <2>2
<1> HIDE DEF c
<1>10. Arrives(v, t, p)
  BY <1>2, <1>7, <1>8, <1>9 DEF Arrives
<1> QED
  BY <1>10 DEF v, t

-----------------------------------------------------------------------------
(* A line that read_line returns.                                          *)

LEMMA FirstLFIs ==
    ASSUME NEW s \in Seq(Bytes), HasLine(s)
    PROVE  /\ FirstLF(s) \in 1..Len(s) /\ s[FirstLF(s)] = "LF"
           /\ \A j \in 1..(FirstLF(s) - 1) : s[j] # "LF"
<1>1. Len(s) \in Nat
  BY LenProperties
<1> DEFINE P == {i \in 1..Len(s) : s[i] = "LF"}
<1>2. P \in SUBSET Nat /\ P # {}
  BY <1>1 DEF HasLine
<1>3. PICK n \in P : \A m \in P : n <= m
  BY <1>2, LeastPosition
<1>4. n \in 1..Len(s) /\ s[n] = "LF" /\ \A j \in 1..(n - 1) : s[j] # "LF"
  BY <1>1, <1>3
<1> QED
  BY <1>4 DEF FirstLF

(* With line k of s ending at b and the bytes x after it, the first LF of  *)
(* x ends line k + 1, which is what read_line copies out of x.             *)
LEMMA NextLine ==
    ASSUME NEW s \in Seq(Bytes), NEW x \in Seq(Bytes), NEW k \in Nat, NEW b, EndsAt(s, k, b),
           Lies(x, s, b), HasLine(x)
    PROVE  /\ EndsAt(s, k + 1, b + FirstLF(x))
           /\ LineOf(s, k + 1) = SubSeq(x, 1, LineLen(x, FirstLF(x)))
           /\ LineLen(x, FirstLF(x)) \in 0..(FirstLF(x) - 1)
<1> DEFINE i == FirstLF(x)
<1>1. i \in 1..Len(x) /\ x[i] = "LF" /\ \A j \in 1..(i - 1) : x[j] # "LF"
  BY FirstLFIs
<1> HIDE DEF i
<1>2. b \in Nat /\ Len(x) \in Nat /\ Len(s) \in Nat /\ b + Len(x) <= Len(s) /\ i \in Nat /\ i >= 1
  BY <1>1, LenProperties DEF Lies
<1>3. \A j \in 1..Len(x) : x[j] = s[b + j]
  BY DEF Lies
<1>4. b + i \in Ends(s)
  BY <1>1, <1>2, <1>3 DEF Ends
<1>5. ASSUME NEW j \in Ends(s), b < j
      PROVE  b + i <= j
  <2>1. j \in Nat /\ s[j] = "LF"
    BY <1>2 DEF Ends
  <2>2. SUFFICES ASSUME j < b + i PROVE FALSE
    BY <1>2, <2>1
  <2>3. j - b \in 1..(i - 1) /\ j - b \in 1..Len(x) /\ b + (j - b) = j
    BY <1>1, <1>2, <1>5, <2>1, <2>2
  <2>4. x[j - b] = s[b + (j - b)]
    BY <1>3, <2>3
  <2> QED
    BY <1>1, <2>1, <2>3, <2>4
<1>6. EndsAt(s, k + 1, b + i)
  BY <1>2, <1>4, <1>5, FollowingEnd
<1>7. EndOf(s, k) = b /\ EndOf(s, k + 1) = b + i /\ (k + 1) - 1 = k
  BY <1>6, EndOfIs
<1> DEFINE y == SubSeq(x, 1, i - 1)
<1>8. i - 1 \in 0..Len(x)
  BY <1>1, <1>2
<1>9. y \in Seq(Bytes) /\ Len(y) = i - 1 /\ Lies(y, s, b)
  BY <1>8, LiesSplit
<1>10. \A j \in 1..(i - 1) : y[j] = x[j]
  BY <1>2, <1>8
<1> HIDE DEF y
<1>11. y = SubSeq(s, b + 1, b + (i - 1)) /\ b + (i - 1) = (b + i) - 1
  <2>1. y = SubSeq(s, b + 1, b + Len(y))
    BY <1>9, LiesIsSubSeq
  <2> QED
    BY <1>2, <1>9, <2>1
<1>12. LineOf(s, k + 1) = IF y # << >> /\ y[Len(y)] = "CR" THEN SubSeq(y, 1, Len(y) - 1) ELSE y
  BY <1>7, <1>11 DEF LineOf
<1>13. y # << >> <=> i > 1
  BY <1>2, <1>9, EmptySeq
<1>14. CASE i > 1 /\ x[i - 1] = "CR"
  <2>1. y # << >> /\ y[Len(y)] = "CR" /\ Len(y) - 1 = i - 2
    BY <1>2, <1>9, <1>10, <1>13, <1>14
  <2>2. LineOf(s, k + 1) = SubSeq(y, 1, i - 2)
    BY <1>12, <2>1
  <2>3. LineLen(x, i) = i - 2 /\ i - 2 \in 0..Len(x)
    BY <1>1, <1>2, <1>14 DEF LineLen
  <2>4. SubSeq(y, 1, i - 2) = SubSeq(x, 1, i - 2)
    <3> DEFINE u == SubSeq(y, 1, i - 2)
               v == SubSeq(x, 1, i - 2)
    <3>1. u \in Seq(Bytes) /\ Len(u) = i - 2 /\ \A j \in 1..(i - 2) : u[j] = y[j]
      BY <1>2, <1>9, <2>3
    <3>2. v \in Seq(Bytes) /\ Len(v) = i - 2 /\ \A j \in 1..(i - 2) : v[j] = x[j]
      BY <1>2, <2>3
    <3> HIDE DEF u, v
    <3>3. \A j \in 1..(i - 2) : u[j] = v[j]
      BY <1>2, <1>10, <3>1, <3>2
    <3>4. u = v
      BY <3>1, <3>2, <3>3, SeqEqual
    <3> QED
      BY <3>4 DEF u, v
  <2> QED
    BY <1>2, <1>6, <1>14, <2>2, <2>3, <2>4 DEF i
<1>15. CASE ~(i > 1 /\ x[i - 1] = "CR")
  <2>1. LineLen(x, i) = i - 1
    BY <1>15 DEF LineLen
  <2>2. ~(y # << >> /\ y[Len(y)] = "CR")
    <3>1. CASE y = << >>
      BY <3>1
    <3>2. CASE y # << >>
      <4>1. i > 1 /\ Len(y) = i - 1 /\ i - 1 \in 1..(i - 1)
        BY <1>2, <1>9, <1>13, <3>2
      <4> QED
        BY <1>10, <1>15, <4>1
    <3> QED
      BY <3>1, <3>2
  <2>3. LineOf(s, k + 1) = SubSeq(x, 1, i - 1)
    BY <1>12, <2>2 DEF y
  <2> QED
    BY <1>2, <1>6, <2>1, <2>3 DEF i
<1> QED
  BY <1>14, <1>15

(* Line k keeps its text when bytes are added.                             *)
LEMMA LineKept ==
    ASSUME NEW s \in Seq(Bytes), NEW t \in Seq(Bytes), NEW k \in Nat \ {0},
           NEW d, NEW e, EndsAt(s, k - 1, d), EndsAt(s, k, e)
    PROVE  LineOf(s \o t, k) = LineOf(s, k)
<1>1. k \in Nat /\ k - 1 \in Nat
  OBVIOUS
<1>2. EndOf(s, k - 1) = d /\ EndOf(s, k) = e
  BY <1>1, EndOfIs
<1>3. EndsAt(s \o t, k - 1, d) /\ EndsAt(s \o t, k, e)
  BY <1>1, EndsKept
<1>4. /\ s \o t \in Seq(Bytes) /\ Len(s \o t) = Len(s) + Len(t)
      /\ \A j \in 1..(Len(s) + Len(t)) : (s \o t)[j] = IF j <= Len(s) THEN s[j] ELSE t[j - Len(s)]
  BY ConcatProperties
<1>5. EndOf(s \o t, k - 1) = d /\ EndOf(s \o t, k) = e
  BY <1>1, <1>3, <1>4, EndOfIs
<1>6. d \in Nat /\ e \in Nat /\ e <= Len(s) /\ Len(s) \in Nat /\ Len(t) \in Nat
  BY <1>1, EndInside, LenProperties
<1> DEFINE u == SubSeq(s, d + 1, e - 1)
           v == SubSeq(s \o t, d + 1, e - 1)
           n == IF d + 1 <= e - 1 THEN e - 1 - d ELSE 0
<1>7. u \in Seq(Bytes) /\ Len(u) = n /\ \A j \in 1..n : u[j] = s[d + j]
  BY <1>6
<1>8. v \in Seq(Bytes) /\ Len(v) = n /\ \A j \in 1..n : v[j] = (s \o t)[d + j]
  BY <1>4, <1>6
<1>9. \A j \in 1..n : d + j \in 1..Len(s) /\ (s \o t)[d + j] = s[d + j]
  BY <1>4, <1>6
<1>10. u = v
  <2> HIDE DEF u, v, n
  <2> QED
    BY <1>7, <1>8, <1>9, SeqEqual
<1> QED
  BY <1>2, <1>5, <1>10 DEF LineOf

-----------------------------------------------------------------------------
(* The inductive invariant.  The lines returned, the buffer, the decrypted *)
(* bytes and the pieces in the socket are the stream, one after the other; *)
(* more is read only into a buffer without a complete line; and a result   *)
(* that ends the session was the last one.                                 *)

LineStart == EndOf(stream, Len(lines))

Returned ==
    /\ \A i \in 0..Len(lines) : EndsAt(stream, i, EndOf(stream, i))
    /\ \A i \in 1..Len(lines) : lines[i] = LineOf(stream, i)

NotYetReturned ==
    /\ Lies(buffer, stream, LineStart)
    /\ Lies(ssl, stream, LineStart + Len(buffer))

Arriving == Arrives(wire, stream, LineStart + Len(buffer) + Len(ssl))

Searched == pc \in {"wait", "read"} => ~HasLine(buffer) /\ Len(buffer) < BufferSize

LastResult ==
    /\ rc \notin {1, -3} => pc = "ended"
    /\ rc = -2 => Len(buffer) = BufferSize /\ ~HasLine(buffer)
    /\ rc = 0 => eof /\ ssl = << >> /\ wire = << >> /\ ~HasLine(buffer)

PlainTcp == ~use_tls => ssl = << >>

ReaderInv == ReaderTypeOK /\ Returned /\ NotYetReturned /\ Arriving /\ Searched /\ LastResult /\ PlainTcp

LEMMA ReaderInitInv == ReaderInit => ReaderInv
<1> SUFFICES ASSUME ReaderInit PROVE ReaderInv
  OBVIOUS
<1> USE DEF ReaderInit
<1>1. ReaderTypeOK
  <2>1. << >> \in Seq(Bytes) /\ << >> \in Seq(Seq(Bytes)) /\ Len(<< >>) = 0
    BY EmptySeq
  <2>2. 0 <= BufferSize
    BY ReaderAssumption
  <2>3. eof \in BOOLEAN /\ pc \in {"loop", "scan", "wait", "read", "ended"} /\ rc \in {1, 0, -1, -2, -3}
    OBVIOUS
  <2> QED
    BY <2>1, <2>2, <2>3, Zenon DEF ReaderTypeOK
<1>2. Len(<< >>) = 0 /\ << >> \in Seq(Bytes) /\ 0..0 = {0} /\ 1..0 = {}
  BY EmptySeq
<1>3. EndOf(stream, 0) = 0 /\ EndsAt(stream, 0, 0)
  BY DEF EndOf, EndsAt
<1>4. LineStart = 0 /\ Returned
  BY <1>2, <1>3 DEF LineStart, Returned
<1>5. Lies(<< >>, << >>, 0)
  BY <1>2 DEF Lies
<1>6. NotYetReturned
  BY <1>2, <1>4, <1>5 DEF NotYetReturned
<1>7. Arriving
  <2>1. LineStart + Len(buffer) + Len(ssl) = Len(stream)
    BY <1>2, <1>4
  <2>2. Arrives(<< >>, stream, LineStart + Len(buffer) + Len(ssl))
    BY <1>2, <2>1, ArrivesNone
  <2> QED
    BY <2>2 DEF Arriving
<1>8. Searched /\ LastResult /\ PlainTcp
  BY DEF Searched, LastResult, PlainTcp
<1> QED
  BY <1>1, <1>4, <1>6, <1>7, <1>8 DEF ReaderInv

(* What the invariant says of the positions.                               *)
LEMMA Positions ==
    ASSUME ReaderInv
    PROVE  /\ stream \in Seq(Bytes) /\ buffer \in Seq(Bytes) /\ ssl \in Seq(Bytes)
           /\ wire \in Seq(Seq(Bytes)) /\ lines \in Seq(Seq(Bytes))
           /\ Len(stream) \in Nat /\ Len(buffer) \in Nat /\ Len(ssl) \in Nat /\ Len(lines) \in Nat
           /\ LineStart \in Nat /\ EndsAt(stream, Len(lines), LineStart)
<1>1. /\ stream \in Seq(Bytes) /\ buffer \in Seq(Bytes) /\ ssl \in Seq(Bytes)
      /\ wire \in Seq(Seq(Bytes)) /\ lines \in Seq(Seq(Bytes))
  BY DEF ReaderInv, ReaderTypeOK
<1>2. Len(stream) \in Nat /\ Len(buffer) \in Nat /\ Len(ssl) \in Nat /\ Len(lines) \in Nat
  BY <1>1, LenProperties
<1>3. EndsAt(stream, Len(lines), LineStart)
  BY <1>2 DEF ReaderInv, Returned, LineStart
<1>4. LineStart \in Nat
  BY <1>1, <1>2, <1>3, EndInside
<1> QED
  BY <1>1, <1>2, <1>3, <1>4

(* A step that leaves the bytes where they are.                            *)
LEMMA BytesStay ==
    ASSUME ReaderInv, UNCHANGED <<use_tls, stream, wire, ssl, buffer, lines>>
    PROVE  Returned' /\ NotYetReturned' /\ Arriving' /\ PlainTcp'
BY DEF ReaderInv, Returned, NotYetReturned, Arriving, PlainTcp, LineStart

LEMMA ScanStep == ASSUME ReaderInv, Scan PROVE ReaderInv'
<1> USE Positions
<1>0. BufferSize \in Nat /\ Len(buffer) <= BufferSize
  BY ReaderAssumption DEF ReaderInv, ReaderTypeOK
<1>1. CASE HasLine(buffer) /\ ~BufferFull
  <2> DEFINE i == FirstLF(buffer)
             n == LineLen(buffer, i)
             k == Len(lines)
             b == LineStart
  <2>0. k \in Nat
    OBVIOUS
  <2>1. /\ EndsAt(stream, k + 1, b + i) /\ LineOf(stream, k + 1) = SubSeq(buffer, 1, n)
        /\ n \in 0..(i - 1)
    BY <1>1, NextLine DEF ReaderInv, NotYetReturned
  <2>2. i \in 1..Len(buffer)
    BY <1>1, FirstLFIs
  <2>3. n < BufferSize /\ n \in 0..Len(buffer) /\ i \in Nat
    BY <1>0, <2>1, <2>2
  <2>4. /\ lines' = Append(lines, SubSeq(buffer, 1, n))
        /\ buffer' = SubSeq(buffer, i + 1, Len(buffer))
        /\ rc' = 1 /\ pc' = "loop"
        /\ UNCHANGED <<use_tls, stream, eof, wire, ssl>>
    <3>1. ~(LineLen(buffer, FirstLF(buffer)) >= BufferSize)
      BY <1>0, <2>3
    <3> QED
      BY <1>1, <3>1 DEF Scan, Return, Consumed, pool
  <2> HIDE DEF i, n
  <2>5. Lies(buffer, stream, b) /\ Lies(ssl, stream, b + Len(buffer)) /\ Arrives(wire, stream, b + Len(buffer) + Len(ssl))
    BY DEF ReaderInv, NotYetReturned, Arriving
  <2>6. /\ buffer' \in Seq(Bytes) /\ Len(buffer') = Len(buffer) - i /\ Lies(buffer', stream, b + i)
    BY <2>2, <2>4, <2>5, LiesSplit
  <2>7. SubSeq(buffer, 1, n) \in Seq(Bytes)
    BY <2>3, <2>5, LiesSplit
  <2>8. /\ lines' \in Seq(Seq(Bytes)) /\ Len(lines') = k + 1
        /\ \A j \in 1..k : lines'[j] = lines[j]
        /\ lines'[k + 1] = SubSeq(buffer, 1, n)
    BY <2>4, <2>7, AppendProperties
  <2>9. EndOf(stream, k + 1) = b + i
    BY <2>1, EndOfIs
  <2>10. LineStart' = b + i
    BY <2>4, <2>8, <2>9 DEF LineStart
  <2>11. Returned'
    <3>1. ASSUME NEW j \in 0..(k + 1) PROVE EndsAt(stream, j, EndOf(stream, j))
      <4>1. CASE j = k + 1
        BY <2>1, <2>9, <4>1
      <4>2. CASE j # k + 1
        <5>1. j \in 0..Len(lines)
          BY <4>2
        <5> QED
          BY <5>1 DEF ReaderInv, Returned
      <4> QED
        BY <4>1, <4>2
    <3>2. ASSUME NEW j \in 1..(k + 1) PROVE lines'[j] = LineOf(stream, j)
      <4>1. CASE j = k + 1
        BY <2>1, <2>8, <4>1
      <4>2. CASE j # k + 1
        <5>1. j \in 1..k
          <6> HIDE DEF k
          <6> QED
            BY <2>0, <4>2
        <5> QED
          BY <2>8, <5>1 DEF ReaderInv, Returned
      <4> QED
        BY <4>1, <4>2
    <3> QED
      BY <2>4, <2>8, <3>1, <3>2 DEF Returned
  <2>12. NotYetReturned'
    <3>1. LineStart' + Len(buffer') = b + Len(buffer)
      BY <2>2, <2>6, <2>10
    <3> QED
      BY <2>4, <2>5, <2>6, <2>10, <3>1 DEF NotYetReturned
  <2>13. Arriving'
    <3>1. LineStart' + Len(buffer') + Len(ssl') = b + Len(buffer) + Len(ssl)
      BY <2>2, <2>4, <2>6, <2>10
    <3> QED
      BY <2>4, <2>5, <3>1 DEF Arriving
  <2>14. ReaderTypeOK'
    <3>1. Len(buffer') <= BufferSize
      BY <1>0, <2>2, <2>6
    <3> QED
      BY <2>4, <2>6, <2>8, <3>1 DEF ReaderInv, ReaderTypeOK
  <2>15. Searched' /\ LastResult' /\ PlainTcp'
    BY <2>4 DEF ReaderInv, Searched, LastResult, PlainTcp
  <2> QED
    BY <2>11, <2>12, <2>13, <2>14, <2>15 DEF ReaderInv
<1>2. CASE BufferFull
  <2>1. ~HasLine(buffer) /\ Len(buffer) = BufferSize
    BY <1>2 DEF BufferFull
  <2>2. rc' = -2 /\ pc' = "ended" /\ UNCHANGED <<use_tls, stream, eof, wire, ssl, buffer, lines>>
    BY <1>0, <1>2, <2>1 DEF Scan, Return, pool
  <2>3. Returned' /\ NotYetReturned' /\ Arriving' /\ PlainTcp'
    BY <2>2, BytesStay
  <2>4. ReaderTypeOK'
    BY <2>2 DEF ReaderInv, ReaderTypeOK
  <2>5. Searched' /\ LastResult'
    BY <2>1, <2>2 DEF Searched, LastResult
  <2> QED
    BY <2>3, <2>4, <2>5 DEF ReaderInv
<1>3. CASE ~HasLine(buffer) /\ Len(buffer) < BufferSize
  <2>1. pc = "scan" /\ pc' = "wait" /\ UNCHANGED <<use_tls, stream, eof, wire, ssl, buffer, lines, rc>>
    BY <1>0, <1>3 DEF Scan, BufferFull, pool
  <2>2. Returned' /\ NotYetReturned' /\ Arriving' /\ PlainTcp'
    BY <2>1, BytesStay
  <2>3. ReaderTypeOK' /\ Searched' /\ LastResult'
    BY <1>3, <2>1 DEF ReaderInv, ReaderTypeOK, Searched, LastResult
  <2> QED
    BY <2>2, <2>3 DEF ReaderInv
<1> QED
  BY <1>1, <1>2, <1>3 DEF Scan

(* The steps of the loop and of select that move no byte.                  *)
LEMMA SelectStep ==
    ASSUME ReaderInv, Call \/ Ready \/ Timeout \/ Interrupted \/ SelectFails
    PROVE  ReaderInv'
<1>1. UNCHANGED <<use_tls, stream, eof, wire, ssl, buffer, lines>>
  BY DEF Call, Ready, Timeout, Interrupted, SelectFails, pool
<1>2. Returned' /\ NotYetReturned' /\ Arriving' /\ PlainTcp'
  BY <1>1, BytesStay
<1>3. ReaderTypeOK'
  BY <1>1 DEF Call, Ready, Timeout, Interrupted, SelectFails, Return, ReaderInv, ReaderTypeOK
<1>4. Searched'
  BY <1>1 DEF Call, Ready, Timeout, Interrupted, SelectFails, Return, ReaderInv, Searched
<1>5. LastResult'
  BY <1>1 DEF Call, Ready, Timeout, Interrupted, SelectFails, Return, ReaderInv, LastResult
<1> QED
  BY <1>2, <1>3, <1>4, <1>5 DEF ReaderInv

(* The bytes x at the beginning of what follows the buffer go into it.     *)
LEMMA BufferFills ==
    ASSUME ReaderInv, NEW x \in Seq(Bytes), Lies(x, stream, LineStart + Len(buffer)),
           Len(x) <= Room, buffer' = buffer \o x, UNCHANGED <<stream, lines>>
    PROVE  /\ LineStart' = LineStart /\ Returned' /\ Lies(buffer', stream, LineStart)
           /\ buffer' \in Seq(Bytes) /\ Len(buffer') = Len(buffer) + Len(x) /\ Len(buffer') <= BufferSize
<1> USE Positions
<1>1. LineStart' = LineStart /\ Returned'
  BY DEF ReaderInv, Returned, LineStart
<1>2. Lies(buffer, stream, LineStart)
  BY DEF ReaderInv, NotYetReturned
<1>3. Lies(buffer', stream, LineStart) /\ buffer' \in Seq(Bytes) /\ Len(buffer') = Len(buffer) + Len(x)
  BY <1>2, LiesJoin
<1>4. Len(x) \in Nat /\ BufferSize \in Nat
  BY LenProperties, ReaderAssumption
<1>5. Len(buffer') <= BufferSize
  BY <1>3, <1>4 DEF Room
<1> QED
  BY <1>1, <1>3, <1>5

LEMMA LessOfTwo ==
    ASSUME NEW a \in Nat, NEW b \in Nat
    PROVE  Min2(a, b) \in Nat /\ Min2(a, b) <= a /\ Min2(a, b) <= b
BY DEF Min2

(* conn_read over TCP. *)
LEMMA ReadTcpStep ==
    ASSUME ReaderInv, pc = "read", ~use_tls, wire # << >>,
           NEW n \in 1..Min2(Room, Len(Head(wire))),
           buffer' = buffer \o SubSeq(Head(wire), 1, n),
           wire' = IF n = Len(Head(wire)) THEN Tail(wire)
                   ELSE << SubSeq(Head(wire), n + 1, Len(Head(wire))) >> \o Tail(wire),
           pc' = "scan", UNCHANGED <<use_tls, stream, eof, lines, ssl, rc>>
    PROVE  ReaderInv'
<1> USE Positions
<1> DEFINE h == Head(wire)
           b == LineStart
           p == b + Len(buffer)
           x == SubSeq(h, 1, n)
           y == SubSeq(h, n + 1, Len(h))
<1>1. ssl = << >> /\ Len(ssl) = 0
  BY EmptySeq DEF ReaderInv, PlainTcp
<1>2. Arrives(wire, stream, p)
  <2>1. b + Len(buffer) + Len(ssl) = p
    BY <1>1
  <2> QED
    BY <2>1 DEF ReaderInv, Arriving
<1>3. h \in Seq(Bytes) /\ Tail(wire) \in Seq(Seq(Bytes)) /\ Lies(h, stream, p) /\ Arrives(Tail(wire), stream, p + Len(h))
  BY <1>2, ArrivesTail
<1>4. Len(h) \in Nat /\ Room \in Nat /\ n \in Nat /\ n <= Len(h) /\ n <= Room
  <2>1. Len(h) \in Nat
    BY <1>3, LenProperties
  <2>2. Room \in Nat
    BY ReaderAssumption DEF Room, ReaderInv, ReaderTypeOK
  <2>3. Min2(Room, Len(h)) \in Nat /\ Min2(Room, Len(h)) <= Room /\ Min2(Room, Len(h)) <= Len(h)
    BY <2>1, <2>2, LessOfTwo
  <2> QED
    BY <2>1, <2>2, <2>3
<1>5. b \in Nat /\ Len(buffer) \in Nat /\ Len(stream) \in Nat /\ stream \in Seq(Bytes) /\ p \in Nat
  <2>1. b \in Nat /\ Len(buffer) \in Nat /\ Len(stream) \in Nat /\ stream \in Seq(Bytes)
    BY Positions, Zenon
  <2> QED
    BY <2>1
<1>6. n \in 0..Len(h)
  BY <1>4
<1>7. /\ x \in Seq(Bytes) /\ Len(x) = n /\ y \in Seq(Bytes) /\ Len(y) = Len(h) - n
      /\ Lies(x, stream, p) /\ Lies(y, stream, p + n)
  <2> HIDE DEF p, h
  <2>1. h \in Seq(Bytes) /\ Lies(h, stream, p) /\ n \in 0..Len(h) /\ stream \in Seq(Bytes)
    BY <1>3, <1>5, <1>6
  <2> QED
    BY ONLY <2>1, LiesSplit
<1> HIDE DEF h, x, y, p, b
<1>8. /\ LineStart' = b /\ Returned' /\ Lies(buffer', stream, b) /\ buffer' \in Seq(Bytes)
      /\ Len(buffer') = Len(buffer) + n /\ Len(buffer') <= BufferSize
  BY <1>4, <1>7, BufferFills DEF h, x, p, b
<1>9. wire' \in Seq(Seq(Bytes)) /\ Arrives(wire', stream, p + n)
  <2>1. CASE n = Len(h)
    <3>1. wire' = Tail(wire)
      BY <2>1 DEF h
    <3> QED
      BY <1>3, <2>1, <3>1
  <2>2. CASE n # Len(h)
    <3>1. wire' = <<y>> \o Tail(wire)
      BY <2>2 DEF h, y
    <3>2. p + n + Len(y) = p + Len(h)
      BY <1>4, <1>5, <1>7
    <3>3. Arrives(<<y>> \o Tail(wire), stream, p + n) /\ <<y>> \o Tail(wire) \in Seq(Seq(Bytes))
      BY <1>3, <1>7, <3>2, ArrivesCons
    <3> QED
      BY <3>1, <3>3
  <2> QED
    BY <2>1, <2>2
<1>10. ReaderTypeOK'
  BY <1>8, <1>9 DEF ReaderInv, ReaderTypeOK
<1>11. b + Len(buffer') = p + n /\ b + Len(buffer') + Len(ssl') = p + n /\ p + n \in Nat /\ p + n <= Len(stream)
  <2>1. b + Len(buffer') = p + n /\ p + n \in Nat
    BY <1>4, <1>5, <1>8 DEF p
  <2>2. b + Len(buffer') <= Len(stream)
    BY <1>8 DEF Lies
  <2>3. Len(ssl') = 0
    BY <1>1
  <2> QED
    BY <2>1, <2>2, <2>3
<1>12. NotYetReturned'
  <2>1. Lies(<< >>, stream, p + n)
    BY <1>11, EmptySeq DEF Lies
  <2> QED
    BY <1>1, <1>8, <1>11, <2>1 DEF NotYetReturned
<1>13. Arriving'
  BY <1>8, <1>9, <1>11 DEF Arriving
<1>14. Searched' /\ LastResult' /\ PlainTcp'
  BY <1>1 DEF ReaderInv, Searched, LastResult, PlainTcp
<1> QED
  BY <1>8, <1>10, <1>12, <1>13, <1>14 DEF ReaderInv

(* conn_read over TLS, of bytes of the current record or of the next one.  *)
LEMMA ReadTlsStep ==
    ASSUME ReaderInv, pc = "read", use_tls,
           NEW record, record = IF ssl = << >> /\ wire # << >> THEN Head(wire) ELSE ssl,
           NEW n, n = Min2(Room, Len(record)), record # << >>,
           buffer' = buffer \o SubSeq(record, 1, n),
           ssl' = SubSeq(record, n + 1, Len(record)),
           wire' = IF ssl = << >> THEN Tail(wire) ELSE wire,
           pc' = "scan", UNCHANGED <<use_tls, stream, eof, lines, rc>>
    PROVE  ReaderInv'
<1> USE Positions
<1> DEFINE b == LineStart
           p == b + Len(buffer)
           x == SubSeq(record, 1, n)
           y == SubSeq(record, n + 1, Len(record))
<1>0. NotYetReturned /\ Arriving
  BY DEF ReaderInv
<1>1. record \in Seq(Bytes) /\ Lies(record, stream, p) /\ wire' \in Seq(Seq(Bytes)) /\ Arrives(wire', stream, p + Len(record))
  <2>1. CASE ssl = << >>
    <3>1. wire # << >> /\ record = Head(wire) /\ wire' = Tail(wire)
      BY <2>1
    <3>2. Len(ssl) = 0 /\ b + Len(buffer) + Len(ssl) = p
      BY <2>1, EmptySeq
    <3>3. Arrives(wire, stream, p)
      BY <1>0, <3>2 DEF Arriving
    <3> QED
      BY <3>1, <3>3, ArrivesTail
  <2>2. CASE ssl # << >>
    <3>1. record = ssl /\ wire' = wire
      BY <2>2
    <3> QED
      BY <1>0, <3>1 DEF NotYetReturned, Arriving
  <2> QED
    BY <2>1, <2>2
<1>2. Len(record) \in Nat /\ Room \in Nat /\ n \in Nat /\ n <= Len(record) /\ n <= Room
  <2>1. Len(record) \in Nat
    BY <1>1, LenProperties
  <2>2. Room \in Nat
    BY ReaderAssumption DEF Room, ReaderInv, ReaderTypeOK
  <2> QED
    BY <2>1, <2>2 DEF Min2
<1>3. p \in Nat /\ b \in Nat /\ Len(buffer) \in Nat /\ stream \in Seq(Bytes)
  <2>1. b \in Nat /\ Len(buffer) \in Nat /\ stream \in Seq(Bytes)
    BY Positions, Zenon
  <2> QED
    BY <2>1
<1>4. n \in 0..Len(record)
  BY <1>2
<1>5. /\ x \in Seq(Bytes) /\ Len(x) = n /\ y \in Seq(Bytes) /\ Len(y) = Len(record) - n
      /\ Lies(x, stream, p) /\ Lies(y, stream, p + n)
  <2> HIDE DEF p
  <2>1. record \in Seq(Bytes) /\ Lies(record, stream, p) /\ n \in 0..Len(record) /\ stream \in Seq(Bytes)
    BY <1>1, <1>3, <1>4
  <2> QED
    BY ONLY <2>1, LiesSplit
<1> HIDE DEF x, y, p, b
<1>6. /\ LineStart' = b /\ Returned' /\ Lies(buffer', stream, b) /\ buffer' \in Seq(Bytes)
      /\ Len(buffer') = Len(buffer) + n /\ Len(buffer') <= BufferSize
  BY <1>2, <1>5, BufferFills DEF x, p, b
<1>7. ssl' = y
  BY DEF y
<1>8. ReaderTypeOK'
  BY <1>1, <1>5, <1>6, <1>7 DEF ReaderInv, ReaderTypeOK
<1>9. b + Len(buffer') = p + n /\ b + Len(buffer') + Len(ssl') = p + Len(record)
  <2>1. Len(buffer') = Len(buffer) + n /\ Len(ssl') = Len(record) - n
    BY <1>5, <1>6, <1>7
  <2>2. p = b + Len(buffer)
    BY DEF p
  <2> QED
    BY ONLY <1>2, <1>3, <2>1, <2>2
<1>10. NotYetReturned'
  BY <1>5, <1>6, <1>7, <1>9 DEF NotYetReturned
<1>11. Arriving'
  BY <1>1, <1>6, <1>9 DEF Arriving
<1>12. Searched' /\ LastResult' /\ PlainTcp'
  BY DEF ReaderInv, Searched, LastResult, PlainTcp
<1> QED
  BY <1>6, <1>8, <1>10, <1>11, <1>12 DEF ReaderInv

LEMMA ReadStep == ASSUME ReaderInv, Read PROVE ReaderInv'
<1> USE Positions
<1>0. pc = "read" /\ UNCHANGED <<use_tls, stream, eof, lines>>
  BY DEF Read, pool
<1> DEFINE Tcp ==
             /\ ~use_tls /\ wire # << >>
             /\ \E n \in 1..Min2(Room, Len(Head(wire))) :
                   /\ buffer' = buffer \o SubSeq(Head(wire), 1, n)
                   /\ wire' = IF n = Len(Head(wire)) THEN Tail(wire)
                              ELSE << SubSeq(Head(wire), n + 1, Len(Head(wire))) >> \o Tail(wire)
             /\ pc' = "scan" /\ UNCHANGED <<ssl, rc>>
           record == IF ssl = << >> /\ wire # << >> THEN Head(wire) ELSE ssl
           size == Min2(Room, Len(record))
           Tls ==
             /\ use_tls
             /\ record # << >>
             /\ buffer' = buffer \o SubSeq(record, 1, size)
             /\ ssl' = SubSeq(record, size + 1, Len(record))
             /\ wire' = IF ssl = << >> THEN Tail(wire) ELSE wire
             /\ pc' = "scan" /\ UNCHANGED rc
           NoData ==
             /\ use_tls /\ ssl = << >> /\ wire # << >> /\ Head(wire) = << >>
             /\ wire' = Tail(wire) /\ UNCHANGED <<ssl, buffer, pc, rc>>
           EndOfStream == AtEof /\ Return(0) /\ UNCHANGED <<wire, ssl, buffer>>
           Reset == ssl = << >> /\ eof /\ Return(-1) /\ UNCHANGED <<wire, ssl, buffer>>
<1>1. Tcp \/ Tls \/ NoData \/ EndOfStream \/ Reset
  BY DEF Read
<1>2. CASE Tcp
  <2>1. PICK n \in 1..Min2(Room, Len(Head(wire))) :
           /\ buffer' = buffer \o SubSeq(Head(wire), 1, n)
           /\ wire' = IF n = Len(Head(wire)) THEN Tail(wire)
                      ELSE << SubSeq(Head(wire), n + 1, Len(Head(wire))) >> \o Tail(wire)
    BY <1>2
  <2>2. ~use_tls /\ wire # << >> /\ pc' = "scan" /\ UNCHANGED <<use_tls, stream, eof, lines, ssl, rc>>
    BY <1>0, <1>2
  <2> QED
    BY <1>0, <2>1, <2>2, ReadTcpStep
<1>3. CASE Tls
  <2>1. /\ use_tls /\ record # << >>
        /\ buffer' = buffer \o SubSeq(record, 1, size)
        /\ ssl' = SubSeq(record, size + 1, Len(record))
        /\ wire' = IF ssl = << >> THEN Tail(wire) ELSE wire
        /\ pc' = "scan" /\ UNCHANGED <<use_tls, stream, eof, lines, rc>>
    BY <1>0, <1>3
  <2>2. record = (IF ssl = << >> /\ wire # << >> THEN Head(wire) ELSE ssl) /\ size = Min2(Room, Len(record))
    OBVIOUS
  <2> HIDE DEF record, size
  <2> QED
    BY <1>0, <2>1, <2>2, ReadTlsStep
<1>4. CASE NoData
  <2>1. Head(wire) = << >> /\ wire # << >> /\ wire' = Tail(wire) /\ UNCHANGED <<use_tls, stream, eof, lines, ssl, buffer, pc, rc>>
    BY <1>0, <1>4
  <2>2. /\ Tail(wire) \in Seq(Seq(Bytes))
        /\ Arrives(Tail(wire), stream, LineStart + Len(buffer) + Len(ssl) + Len(Head(wire)))
    BY <2>1, ArrivesTail DEF ReaderInv, Arriving
  <2>3. LineStart + Len(buffer) + Len(ssl) + Len(Head(wire)) = LineStart + Len(buffer) + Len(ssl)
    BY <2>1, EmptySeq
  <2>4. LineStart' = LineStart
    BY <2>1 DEF LineStart
  <2>5. Arriving'
    BY <2>1, <2>2, <2>3, <2>4 DEF Arriving
  <2>6. Returned' /\ NotYetReturned' /\ PlainTcp'
    BY <2>1, <2>4 DEF ReaderInv, Returned, NotYetReturned, PlainTcp
  <2>7. ReaderTypeOK'
    BY <2>1, <2>2 DEF ReaderInv, ReaderTypeOK
  <2>8. Searched' /\ LastResult'
    BY <1>0, <2>1 DEF ReaderInv, Searched, LastResult
  <2> QED
    BY <2>5, <2>6, <2>7, <2>8 DEF ReaderInv
<1>5. CASE EndOfStream \/ Reset
  <2>1. UNCHANGED <<use_tls, stream, eof, wire, ssl, buffer, lines>> /\ pc' = "ended" /\ rc' \in {0, -1}
    BY <1>0, <1>5 DEF Return
  <2>2. Returned' /\ NotYetReturned' /\ Arriving' /\ PlainTcp'
    BY <2>1, BytesStay
  <2>3. ReaderTypeOK' /\ Searched'
    BY <2>1 DEF ReaderInv, ReaderTypeOK, Searched
  <2>4. rc' = 0 => eof /\ ssl = << >> /\ wire = << >>
    BY <1>5 DEF Return, AtEof
  <2>5. ~HasLine(buffer)
    BY <1>0 DEF ReaderInv, Searched
  <2>6. LastResult'
    BY <2>1, <2>4, <2>5 DEF LastResult
  <2> QED
    BY <2>2, <2>3, <2>6 DEF ReaderInv
<1> QED
  BY <1>1, <1>2, <1>3, <1>4, <1>5

(* The pool sends a piece. *)
LEMMA SendStep == ASSUME ReaderInv, Send PROVE ReaderInv'
<1>1. PICK piece \in Pieces : stream' = stream \o piece /\ wire' = Append(wire, piece)
  BY DEF Send
<1>2. ~eof /\ UNCHANGED <<use_tls, ssl, eof, buffer, lines, pc, rc>>
  BY DEF Send
<1>3. piece \in Seq(Bytes)
  <2>1. PICK n \in 1..MaxRecord : piece \in [1..n -> Bytes]
    BY <1>1 DEF Pieces
  <2>2. n \in Nat
    BY <2>1, ReaderAssumption
  <2> QED
    BY <2>1, <2>2
<1>4. /\ stream \in Seq(Bytes) /\ buffer \in Seq(Bytes) /\ ssl \in Seq(Bytes)
      /\ wire \in Seq(Seq(Bytes)) /\ lines \in Seq(Seq(Bytes))
      /\ Len(lines) \in Nat /\ EndsAt(stream, Len(lines), LineStart)
  BY Positions, Zenon
<1>5. stream' \in Seq(Bytes) /\ wire' \in Seq(Seq(Bytes))
  BY <1>1, <1>3, <1>4, ConcatProperties, AppendProperties
<1>6. Returned
  BY DEF ReaderInv
<1>7. ASSUME NEW i \in 0..Len(lines)
      PROVE  EndsAt(stream', i, EndOf(stream, i)) /\ EndOf(stream', i) = EndOf(stream, i)
  <2>1. EndsAt(stream, i, EndOf(stream, i)) /\ i \in Nat
    BY <1>4, <1>6 DEF Returned
  <2>2. EndsAt(stream', i, EndOf(stream, i))
    BY <1>1, <1>3, <1>4, <2>1, EndsKept
  <2> QED
    BY <1>5, <2>1, <2>2, EndOfIs
<1>8. ASSUME NEW i \in 1..Len(lines)
      PROVE  LineOf(stream', i) = LineOf(stream, i)
  <2>1. i \in Nat \ {0} /\ i \in 0..Len(lines) /\ i - 1 \in 0..Len(lines)
    BY <1>4
  <2>2. EndsAt(stream, i, EndOf(stream, i)) /\ EndsAt(stream, i - 1, EndOf(stream, i - 1))
    BY <1>6, <2>1 DEF Returned
  <2> QED
    BY <1>1, <1>3, <1>4, <2>1, <2>2, LineKept
<1>9. Returned'
  BY <1>2, <1>6, <1>7, <1>8 DEF Returned
<1>10. LineStart' = LineStart
  <2>1. Len(lines) \in 0..Len(lines)
    BY <1>4
  <2> QED
    BY <1>2, <1>7, <2>1 DEF LineStart
<1>11. NotYetReturned'
  <2>1. Lies(buffer, stream, LineStart) /\ Lies(ssl, stream, LineStart + Len(buffer))
    BY DEF ReaderInv, NotYetReturned
  <2>2. Lies(buffer, stream', LineStart) /\ Lies(ssl, stream', LineStart + Len(buffer))
    BY <1>1, <1>3, <1>4, <2>1, LiesKept
  <2> QED
    BY <1>2, <1>10, <2>2 DEF NotYetReturned
<1>12. Arriving'
  <2>1. Arrives(wire, stream, LineStart + Len(buffer) + Len(ssl))
    BY DEF ReaderInv, Arriving
  <2>2. Arrives(wire', stream', LineStart + Len(buffer) + Len(ssl))
    BY <1>1, <1>3, <1>4, <2>1, ArrivesAppend
  <2> QED
    BY <1>2, <1>10, <2>2 DEF Arriving
<1>13. ReaderTypeOK'
  BY <1>2, <1>5 DEF ReaderInv, ReaderTypeOK
<1>14. Searched' /\ PlainTcp'
  BY <1>2 DEF ReaderInv, Searched, PlainTcp
<1>15. LastResult'
  BY <1>2 DEF ReaderInv, LastResult
<1> QED
  BY <1>9, <1>11, <1>12, <1>13, <1>14, <1>15 DEF ReaderInv

(* The pool sends a record without data. *)
LEMMA TicketStep == ASSUME ReaderInv, Ticket PROVE ReaderInv'
<1>1. wire = << >> /\ ~eof /\ wire' = << << >> >> /\ UNCHANGED <<use_tls, stream, eof, ssl, buffer, lines, pc, rc>>
  BY DEF Ticket, pool
<1>2. stream \in Seq(Bytes) /\ Len(stream) \in Nat
  BY Positions, Zenon
<1> DEFINE p == LineStart + Len(buffer) + Len(ssl)
<1>3. Arrives(<< >>, stream, p)
  BY <1>1 DEF ReaderInv, Arriving
<1> HIDE DEF p
<1>4. p = Len(stream)
  BY <1>2, <1>3, ArrivesNone
<1>5. << >> \in Seq(Bytes) /\ << >> \in Seq(Seq(Bytes)) /\ Len(<< >>) = 0
  BY EmptySeq
<1>6. Lies(<< >>, stream, p) /\ p + Len(<< >>) = p
  BY <1>2, <1>4, <1>5 DEF Lies
<1>7. Arrives(<< << >> >> \o << >>, stream, p) /\ << << >> >> \o << >> \in Seq(Seq(Bytes))
  BY <1>2, <1>3, <1>5, <1>6, ArrivesCons
<1>8. << << >> >> \o << >> = << << >> >>
  <2>1. << << >> >> \in Seq(Seq(Bytes))
    BY <1>5
  <2> QED
    BY <2>1, ConcatEmptySeq
<1>9. LineStart' = LineStart
  BY <1>1 DEF LineStart
<1>10. Arriving'
  BY <1>1, <1>7, <1>8, <1>9 DEF Arriving, p
<1>11. Returned' /\ NotYetReturned' /\ PlainTcp'
  BY <1>1, <1>9 DEF ReaderInv, Returned, NotYetReturned, PlainTcp
<1>12. ReaderTypeOK'
  BY <1>1, <1>7, <1>8 DEF ReaderInv, ReaderTypeOK
<1>13. Searched' /\ LastResult'
  BY <1>1 DEF ReaderInv, Searched, LastResult
<1> QED
  BY <1>10, <1>11, <1>12, <1>13 DEF ReaderInv

(* The pool closes, or nothing happens any more. *)
LEMMA CloseStep == ASSUME ReaderInv, Close \/ UNCHANGED readerVars PROVE ReaderInv'
<1>1. UNCHANGED <<use_tls, stream, wire, ssl, buffer, lines, pc, rc>> /\ eof' \in BOOLEAN /\ (eof => eof')
  BY DEF Close, readerVars, ReaderInv, ReaderTypeOK
<1>2. Returned' /\ NotYetReturned' /\ Arriving' /\ PlainTcp'
  BY <1>1, BytesStay
<1>3. ReaderTypeOK' /\ Searched' /\ LastResult'
  BY <1>1 DEF ReaderInv, ReaderTypeOK, Searched, LastResult
<1> QED
  BY <1>2, <1>3 DEF ReaderInv

LEMMA ReaderNextInv == ReaderInv /\ [ReaderNext]_readerVars => ReaderInv'
<1> SUFFICES ASSUME ReaderInv, [ReaderNext]_readerVars PROVE ReaderInv'
  OBVIOUS
<1>1. CASE Scan
  BY <1>1, ScanStep
<1>2. CASE Read
  BY <1>2, ReadStep
<1>3. CASE Call \/ Ready \/ Timeout \/ Interrupted \/ SelectFails
  BY <1>3, SelectStep
<1>4. CASE Send
  BY <1>4, SendStep
<1>5. CASE Ticket
  BY <1>5, TicketStep
<1>6. CASE Close \/ UNCHANGED readerVars
  BY <1>6, CloseStep
<1> QED
  BY <1>1, <1>2, <1>3, <1>4, <1>5, <1>6 DEF ReaderNext, ReadLoop, Ended

(* The lines returned are the lines of the stream. *)
LEMMA InvLinesExact == ReaderInv => LinesExact
<1> SUFFICES ASSUME ReaderInv PROVE LinesExact
  OBVIOUS
<1>1. /\ stream \in Seq(Bytes) /\ buffer \in Seq(Bytes) /\ Len(lines) \in Nat
      /\ EndsAt(stream, Len(lines), LineStart)
  BY Positions, Zenon
<1>2. Len(lines) <= Cardinality(Ends(stream))
  BY <1>1, EndInside
<1>3. Lies(buffer, stream, LineStart)
  BY DEF ReaderInv, NotYetReturned
<1>4. buffer = SubSeq(stream, LineStart + 1, LineStart + Len(buffer))
  BY <1>1, <1>3, LiesIsSubSeq
<1>5. LineStart + Len(buffer) <= Len(stream)
  BY <1>3 DEF Lies
<1> QED
  BY <1>2, <1>4, <1>5 DEF LinesExact, ReaderInv, Returned, LineStart

(* A full buffer without an LF is the beginning of a line that long. *)
LEMMA InvTooLong == ReaderInv => TooLongOnly
<1> SUFFICES ASSUME ReaderInv, rc = -2
             PROVE  LengthOf(stream, Len(lines) + 1) >= BufferSize
  BY DEF TooLongOnly
<1>1. /\ stream \in Seq(Bytes) /\ buffer \in Seq(Bytes) /\ Len(lines) \in Nat
      /\ EndsAt(stream, Len(lines), LineStart) /\ LineStart \in Nat /\ Len(stream) \in Nat
  BY Positions, Zenon
<1> DEFINE b == LineStart
           k == Len(lines)
<1>2. Len(buffer) = BufferSize /\ ~HasLine(buffer) /\ BufferSize \in Nat
  BY ReaderAssumption DEF ReaderInv, LastResult
<1>3. b + BufferSize <= Len(stream) /\ \A j \in 1..BufferSize : stream[b + j] # "LF"
  BY <1>2 DEF ReaderInv, NotYetReturned, Lies, HasLine
<1>4. EndOf(stream, (k + 1) - 1) = b
  BY <1>1 DEF LineStart
<1>5. CASE ~(k + 1 <= Cardinality(Ends(stream)))
  BY <1>1, <1>2, <1>3, <1>4, <1>5 DEF LengthOf
<1>6. CASE k + 1 <= Cardinality(Ends(stream))
  <2> DEFINE P == {j \in Ends(stream) : b < j}
  <2>1. P \in SUBSET Nat
    BY <1>1 DEF Ends
  <2>2. P # {}
    <3> SUFFICES ASSUME P = {} PROVE FALSE
      OBVIOUS
    <3>1. LinesUpTo(stream, b) = Ends(stream)
      BY <1>1 DEF LinesUpTo, Ends
    <3>2. k = Cardinality(LinesUpTo(stream, b))
      BY <1>1, EndInside
    <3> QED
      BY <1>1, <1>6, <3>1, <3>2
  <2>3. PICK e \in P : \A m \in P : e <= m
    BY <2>1, <2>2, LeastPosition
  <2>4. EndsAt(stream, k + 1, e)
    BY <1>1, <2>3, FollowingEnd
  <2>5. EndOf(stream, k + 1) = e
    BY <1>1, <2>4, EndOfIs
  <2>6. e \in Nat /\ b < e /\ stream[e] = "LF"
    BY <1>1, <2>3 DEF Ends
  <2>7. ~(e <= b + BufferSize)
    <3> SUFFICES ASSUME e <= b + BufferSize PROVE FALSE
      OBVIOUS
    <3>1. e - b \in 1..BufferSize /\ b + (e - b) = e
      BY <1>1, <1>2, <2>6
    <3> QED
      BY <1>3, <2>6, <3>1
  <2> QED
    BY <1>1, <1>2, <1>4, <1>6, <2>5, <2>6, <2>7 DEF LengthOf
<1> QED
  BY <1>5, <1>6

(* At the end of the stream no complete line is left. *)
LEMMA InvBeforeEof == ReaderInv => LinesBeforeEof
<1> SUFFICES ASSUME ReaderInv, rc = 0
             PROVE  Len(lines) = Cardinality(Ends(stream))
  BY DEF LinesBeforeEof
<1>1. /\ stream \in Seq(Bytes) /\ buffer \in Seq(Bytes) /\ Len(lines) \in Nat /\ Len(buffer) \in Nat
      /\ EndsAt(stream, Len(lines), LineStart) /\ LineStart \in Nat /\ Len(stream) \in Nat
  BY Positions, Zenon
<1> DEFINE b == LineStart
<1>2. ssl = << >> /\ wire = << >> /\ ~HasLine(buffer)
  BY DEF ReaderInv, LastResult
<1>3. Arrives(<< >>, stream, b + Len(buffer) + Len(ssl)) /\ Len(ssl) = 0
  BY <1>2, EmptySeq DEF ReaderInv, Arriving
<1>4. b + Len(buffer) = Len(stream)
  <2>1. b + Len(buffer) + Len(ssl) = Len(stream)
    BY <1>1, <1>3, ArrivesNone
  <2> QED
    BY <1>1, <1>3, <2>1
<1>5. \A j \in 1..Len(buffer) : stream[b + j] # "LF"
  BY <1>2 DEF ReaderInv, NotYetReturned, Lies, HasLine
<1>6. ASSUME NEW e \in Ends(stream) PROVE e <= b
  <2>1. e \in Nat /\ e <= Len(stream) /\ stream[e] = "LF"
    BY <1>1 DEF Ends
  <2>2. SUFFICES ASSUME b < e PROVE FALSE
    BY <1>1, <2>1
  <2>3. e - b \in 1..Len(buffer) /\ b + (e - b) = e
    BY <1>1, <1>4, <2>1, <2>2
  <2> QED
    BY <1>5, <2>1, <2>3
<1>7. LinesUpTo(stream, b) = Ends(stream)
  BY <1>6 DEF LinesUpTo
<1> QED
  BY <1>1, <1>7, EndInside

(* However the bytes of the pool are cut into pieces and records, for any  *)
(* size of the buffer, read_line of stratum.c returns the lines of the     *)
(* stream, ends a session only for a line as long as its buffer, and has   *)
(* returned every complete line when it reports the end of the stream.     *)
THEOREM ReaderIsExact == ReaderSpec => []ReaderExact
<1>1. ReaderInv => ReaderExact
  BY InvLinesExact, InvTooLong, InvBeforeEof DEF ReaderInv, ReaderExact
<1> QED
  BY <1>1, ReaderInitInv, ReaderNextInv, PTL DEF ReaderSpec
=============================================================================
