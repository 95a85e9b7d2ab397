------------------------------ MODULE Connect ------------------------------
(***************************************************************************)
(* The life of a session of src/src/stratum.c around its loop:             *)
(* stratum_run_client parses the url, opens the connection (conn_open with *)
(* its fallbacks from verified TLS to unverified TLS to plain TCP), starts *)
(* a miner, puts the terminal into raw mode, runs and releases all of it   *)
(* again.  Any of these steps may fail.  The server may come up, go down   *)
(* or change what it supports at any time, and may leave any of the        *)
(* client's blocking calls unanswered.                                     *)
(***************************************************************************)
EXTENDS Integers, Sequences

CONSTANTS
    Schemes,         \* url schemes: subset of {"tcp", "tls", "insecure", "invalid"}
    MaxChanges,      \* bound on the changes of the server
    MaxSessions      \* bound on the sessions main starts

ASSUME ConnectAssumption ==
    /\ Schemes \subseteq {"tcp", "tls", "insecure", "invalid"}
    /\ MaxChanges \in Nat /\ MaxSessions \in Nat

Modes == {"verified", "unverified", "plain"}
Servers == [up : BOOLEAN, tls : BOOLEAN, trusted : BOOLEAN, silent : BOOLEAN]
Handles == {"fd", "ctx", "ssl"}

VARIABLES
    scheme,          \* of the pool's url
    server,          \* what the server does now
    changes,         \* changes of the server so far
    steady,          \* neither server nor host failed since conn_open was called
    at,              \* where stratum_run_client is
    tried,           \* the modes of conn_open_once so far, the last one current
    tls_handshake_failed,
    conn,            \* the handles stratum_conn_t holds
    live,            \* live[h]: handles of each kind that exist in the process
    miner, raw,      \* a miner exists; the terminal is in raw mode
    expired,         \* the runtime limit has passed
    sessions

vars == <<scheme, server, changes, steady, at, tried, tls_handshake_failed,
          conn, live, miner, raw, expired, sessions>>
environment == <<scheme, server, changes, expired, sessions>>

Init ==
    /\ scheme \in Schemes
    /\ server \in Servers /\ changes = 0 /\ steady = TRUE
    /\ at = "main" /\ tried = << >> /\ tls_handshake_failed = FALSE
    /\ conn = {} /\ live = [h \in Handles |-> 0]
    /\ miner = FALSE /\ raw = FALSE
    /\ expired = FALSE /\ sessions = 0

-----------------------------------------------------------------------------
(* conn_open. *)

(* parse_pool_url. *)
UseTls    == scheme \in {"tls", "insecure"}
VerifyTls == scheme # "insecure"

Mode == tried[Len(tried)]

(* conn_open_once clears the connection, without looking at it. *)
OpenOnce(mode) ==
    /\ tried' = Append(tried, mode)
    /\ tls_handshake_failed' = FALSE
    /\ conn' = {} /\ at' = "tcp"
    /\ UNCHANGED <<live, miner, raw>>

Acquire(h) == conn' = conn \cup {h} /\ live' = [live EXCEPT ![h] = @ + 1]

(* Faulty variant: handles are released without a look at what is held.    *)
ConnCloseBlind == conn' = {} /\ live' = [h \in Handles |-> live[h] - 1]

(* conn_close releases what the connection holds, and clears it. *)
ConnClose ==
    /\ conn' = {}
    /\ live' = [h \in Handles |-> IF h \in conn THEN live[h] - 1 ELSE live[h]]

(* The rest of conn_open's state while one attempt runs. *)
Within == UNCHANGED <<environment, tried, miner, raw>>

RunClient ==
    /\ at = "main" /\ ~expired /\ sessions < MaxSessions
    /\ sessions' = sessions + 1 /\ steady' = TRUE
    /\ IF scheme = "invalid"
       THEN UNCHANGED <<at, tried, tls_handshake_failed, conn, live, miner, raw>>
       ELSE /\ at' = "tcp" /\ conn' = {}
            /\ tried' = << IF ~UseTls THEN "plain" ELSE IF VerifyTls THEN "verified" ELSE "unverified" >>
            /\ tls_handshake_failed' = FALSE
            /\ UNCHANGED <<live, miner, raw>>
    /\ UNCHANGED <<scheme, server, changes, expired>>

(* connect_tcp on every address of the host. *)
ConnectTcp ==
    /\ at = "tcp"
    /\ \/ /\ server.up /\ Acquire("fd")
          /\ at' = IF Mode = "plain" THEN "open" ELSE "ctx"
          /\ UNCHANGED steady
       \/ /\ at' = "failed" /\ UNCHANGED <<conn, live>>
          /\ steady' = (steady /\ ~server.up)
    /\ UNCHANGED tls_handshake_failed /\ Within

(* Faulty variant: the connection is not closed on an early return.        *)
NewSslReturns(here, h, next) ==
    /\ at = here
    /\ \/ Acquire(h) /\ at' = next /\ UNCHANGED steady
       \/ at' = "failed" /\ steady' = FALSE /\ UNCHANGED <<conn, live>>
    /\ UNCHANGED tls_handshake_failed /\ Within

(* SSL_CTX_new and SSL_new. *)
NewSsl(here, h, next) ==
    /\ at = here
    /\ \/ Acquire(h) /\ at' = next /\ UNCHANGED steady
       \/ ConnClose /\ at' = "failed" /\ steady' = FALSE
    /\ UNCHANGED tls_handshake_failed /\ Within

Accepts == server.up /\ server.tls /\ (Mode = "verified" => server.trusted)

(* SSL_connect.  The socket blocks and has no timeout: a server that does  *)
(* not answer keeps the thread here.                                       *)
Handshake ==
    /\ at = "handshake"
    /\ \/ Accepts /\ at' = "open" /\ UNCHANGED <<conn, live, tls_handshake_failed, steady>>
       \/ /\ ~(server.up /\ server.silent)
          /\ ConnClose /\ at' = "failed" /\ tls_handshake_failed' = TRUE
          /\ steady' = (steady /\ ~Accepts)
    /\ Within

(* Faulty variant: plain TCP follows a failed verified handshake at once.  *)
FallbackSkipsUnverified ==
    IF UseTls /\ Mode # "plain" THEN "plain" ELSE "none"

(* Faulty variant: plain TCP is tried again after plain TCP.               *)
FallbackRepeats ==
    IF Mode = "verified" /\ tls_handshake_failed THEN "unverified"
    ELSE IF UseTls THEN "plain"
    ELSE "none"

(* The mode conn_open turns to after a failed attempt. *)
Fallback ==
    IF Mode = "verified" /\ tls_handshake_failed THEN "unverified"
    ELSE IF UseTls /\ Mode # "plain" THEN "plain"
    ELSE "none"

NextAttempt ==
    /\ at = "failed"
    /\ IF Fallback = "none"
       THEN /\ at' = "main" /\ tried' = << >>
            /\ UNCHANGED <<tls_handshake_failed, conn, live, miner, raw>>
       ELSE OpenOnce(Fallback)
    /\ UNCHANGED <<environment, steady>>

-----------------------------------------------------------------------------
(* The rest of stratum_run_client. *)

Session == UNCHANGED <<environment, steady, tls_handshake_failed>>

Leave == at' = "main" /\ tried' = << >> /\ ConnClose

(* miner_create, miner_start and the statistics array; mining may be off.  *)
StartMiner ==
    /\ at = "open"
    /\ \/ at' = "subscribe" /\ miner' \in BOOLEAN /\ UNCHANGED <<tried, conn, live>>
       \/ Leave /\ miner' = FALSE
    /\ UNCHANGED raw /\ Session

(* Faulty variant: a failed subscription returns at once.                  *)
SubscribeReturns ==
    /\ at = "subscribe"
    /\ raw' \in BOOLEAN
    /\ \/ at' = "running" /\ UNCHANGED <<tried, conn, live, miner>>
       \/ Leave /\ miner' = FALSE
    /\ Session

(* Faulty variant: a request that cannot be sent is sent again.            *)
SubscribeRepeats ==
    /\ at = "subscribe"
    /\ raw' \in BOOLEAN
    /\ at' \in {"running", "subscribe"}
    /\ UNCHANGED <<tried, conn, live, miner>> /\ Session

(* keyboard_input_init, if stdin is a terminal, and send_subscribe. *)
Subscribe ==
    /\ at = "subscribe"
    /\ raw' \in BOOLEAN
    /\ at' \in {"running", "cleanup"}
    /\ UNCHANGED <<tried, conn, live, miner>> /\ Session

(* The loop ends: by its limits, by the pool or by an error. *)
LoopEnds ==
    /\ at = "running" /\ at' = "cleanup"
    /\ UNCHANGED <<tried, conn, live, miner, raw>> /\ Session

Cleanup ==
    /\ at = "cleanup"
    /\ Leave /\ raw' = FALSE /\ miner' = FALSE /\ Session

MainEnds ==
    /\ at = "main" /\ expired
    /\ at' = "ended"
    /\ UNCHANGED <<tried, conn, live, miner, raw>> /\ Session

Client ==
    \/ RunClient \/ ConnectTcp
    \/ NewSsl("ctx", "ctx", "ssl") \/ NewSsl("ssl", "ssl", "handshake")
    \/ Handshake \/ NextAttempt \/ StartMiner \/ Subscribe \/ Cleanup \/ MainEnds

-----------------------------------------------------------------------------
(* The server and the clock. *)

ServerChanges ==
    /\ changes < MaxChanges /\ changes' = changes + 1
    /\ server' \in Servers \ {server}
    /\ steady' = FALSE
    /\ UNCHANGED <<scheme, at, tried, tls_handshake_failed, conn, live, miner, raw, expired, sessions>>

Expire ==
    /\ ~expired /\ expired' = TRUE
    /\ UNCHANGED <<scheme, server, changes, steady, at, tried, tls_handshake_failed,
                   conn, live, miner, raw, sessions>>

(* The sockets block and have no timeout: SSL_connect, SSL_read on a       *)
(* record that has come only in part, send and SSL_write to a server that  *)
(* does not read, and conn_close's SSL_shutdown wait for a silent server.  *)
(* select comes before a recv, which therefore does not wait; the one      *)
(* small request of a new connection fits into its socket.                 *)
Held == at \in {"handshake", "running", "cleanup"} /\ server.up /\ server.silent

(* main without a session to start, and a call nobody answers. *)
Resting ==
    /\ \/ at = "main" /\ sessions = MaxSessions
       \/ at = "ended"
       \/ Held
    /\ UNCHANGED vars

Next == Client \/ LoopEnds \/ ServerChanges \/ Expire \/ Resting

Spec == Init /\ [][Next]_vars

(* Unless a blocking call holds it, the thread keeps running, and the loop *)
(* ends when it sees that the limit has passed: its waits are of 200 ms,   *)
(* and a pool that trickles bytes restarts them at most as often as the    *)
(* line buffer has room.  Nothing is assumed of the server.                *)
FairClient  == ~Held /\ Client
FairLoopEnd == ~Held /\ expired /\ LoopEnds
FairSpec    == Spec /\ WF_vars(FairClient) /\ WF_vars(FairLoopEnd)

-----------------------------------------------------------------------------
(* Properties.                                                             *)

Position(mode) == CASE mode = "verified" -> 1 [] mode = "unverified" -> 2 [] mode = "plain" -> 3

(* Values of the variables of stratum_run_client and conn_open. *)
TypeOK ==
    /\ scheme \in Schemes /\ server \in Servers
    /\ at \in {"main", "tcp", "ctx", "ssl", "handshake", "open", "failed", "subscribe",
               "running", "cleanup", "ended"}
    /\ tried \in Seq(Modes) /\ tls_handshake_failed \in BOOLEAN
    /\ conn \subseteq Handles /\ live \in [Handles -> Nat]
    /\ miner \in BOOLEAN /\ raw \in BOOLEAN /\ steady \in BOOLEAN /\ expired \in BOOLEAN
    /\ changes \in 0..MaxChanges /\ sessions \in 0..MaxSessions

(* The handles that exist are those the connection holds: no failed        *)
(* attempt leaves a socket or a TLS object behind for the next one to      *)
(* forget (lines 278, 294, 311, 328), over any number of sessions.         *)
NoHandleLost == \A h \in Handles : live[h] = IF h \in conn THEN 1 ELSE 0

(* Between sessions nothing of a session is left: no connection, no miner, *)
(* and the terminal is as it was, whichever step failed (lines 1329-1343,  *)
(* 1438-1442).                                                             *)
AllReleased == at \in {"main", "ended"} => conn = {} /\ ~miner /\ ~raw

(* The attempts of one conn_open only ever become weaker, none is made     *)
(* twice, and a url that asks for plain TCP is never tried with TLS.       *)
AttemptsWeaken ==
    /\ \A i \in 1..(Len(tried) - 1) : Position(tried[i]) < Position(tried[i + 1])
    /\ scheme = "tcp" => \A i \in 1..Len(tried) : tried[i] = "plain"

(* The strongest mode that the url asks for and the server supports. *)
BestMode ==
    CASE UseTls /\ VerifyTls /\ server.tls /\ server.trusted -> "verified"
      [] UseTls /\ server.tls /\ ~(VerifyTls /\ server.trusted) -> "unverified"
      [] OTHER -> "plain"

(* A server that does not change while it is connected to, on a host where *)
(* nothing fails, is connected to in the strongest mode it and the url     *)
(* have in common (lines 342-368).                                         *)
SteadyServerBestMode == at = "open" /\ steady => Mode = BestMode

(* A session is sound: it leaves nothing behind, whichever step fails, and *)
(* its fallbacks end in the strongest mode there is.                       *)
SessionSound == TypeOK /\ NoHandleLost /\ AllReleased /\ AttemptsWeaken /\ SteadyServerBestMode

(* A run whose limit has passed ends, whatever fails, unless a server that *)
(* accepted the connection never again answers the blocking call the       *)
(* client is in: the TLS handshake (line 321), a read of half a record     *)
(* (line 411), a write (lines 377, 392) or the shutdown.  A server that    *)
(* answers late, or goes away, only delays the end.                        *)
RuntimeLimitHolds == expired ~> (at = "ended" \/ []Held)
=============================================================================
