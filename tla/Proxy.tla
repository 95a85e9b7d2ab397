------------------------------- MODULE Proxy -------------------------------
(***************************************************************************)
(* One client of src/src/proxy_main.c: client_thread, from the accepted    *)
(* socket to its return, between a miner (the client) and a pool (the      *)
(* upstream).  The thread decides whether the client speaks TLS, opens the *)
(* pool connection and runs proxy_loop                                     *)
(*   write to the pool -> write to the miner -> read the miner ->          *)
(*   read the pool -> select when nothing moved                            *)
(* over non-blocking sockets with one buffer per direction.  The peers     *)
(* send, receive, half-close and disappear between any two steps.          *)
(* A stream is named by the side that sends it, a byte by its position.    *)
(***************************************************************************)
EXTENDS Integers, Sequences

CONSTANTS
    ListenModes,     \* listening modes: subset of {"auto", "tcp", "tls"}
    BufferSize,      \* BUFFER_SIZE
    SocketRoom,      \* bytes a socket takes before it would block
    MaxBytes         \* bound on the bytes a side sends

ASSUME ProxyAssumption ==
    /\ ListenModes \subseteq {"auto", "tcp", "tls"}
    /\ BufferSize \in Nat \ {0}
    /\ SocketRoom \in Nat \ {0}
    /\ MaxBytes \in Nat

Sides    == {"client", "upstream"}
Other(s) == IF s = "client" THEN "upstream" ELSE "client"

VARIABLES
    \* client_thread and proxy_loop
    at,              \* where the thread is
    listen_mode,     \* config->listen_mode
    use_tls,         \* client.use_tls
    data, off,       \* the buffer of each stream: data[1..len] and off
    progress,
    streams,         \* streams opened and not closed
    closed,          \* closed[s]: how often stream s has been closed
    cause,           \* why proxy_loop ended
    \* the peers and their sockets
    speaks_tls,      \* the client starts with a TLS ClientHello
    hello,           \* the ClientHello has arrived
    sent,            \* sent[s]: bytes s has sent
    wire,            \* wire[s]: bytes of s received by the proxy's socket
    room,            \* room[s]: bytes of s written to the other side's socket
    got,             \* got[s]: bytes of s the other side has received
    eof,             \* eof[s]: s has closed its sending direction
    gone             \* gone[s]: s has closed its connection altogether

thread == <<at, listen_mode, use_tls, data, off, progress, streams, closed, cause>>
peers  == <<speaks_tls, hello, sent, wire, room, got, eof, gone>>
vars   == <<thread, peers>>

Init ==
    /\ at = "accepted"
    /\ listen_mode \in ListenModes
    /\ use_tls = FALSE
    /\ data = [s \in Sides |-> << >>] /\ off = [s \in Sides |-> 0]
    /\ progress = FALSE
    /\ streams = {"client"}
    /\ closed = [s \in Sides |-> 0]
    /\ cause = "none"
    /\ speaks_tls \in BOOLEAN /\ hello = FALSE
    /\ sent = [s \in Sides |-> 0]
    /\ wire = [s \in Sides |-> << >>]
    /\ room = [s \in Sides |-> << >>]
    /\ got = [s \in Sides |-> << >>]
    /\ eof = [s \in Sides |-> FALSE]
    /\ gone = [s \in Sides |-> FALSE]

-----------------------------------------------------------------------------
(* Opening the two streams. *)

(* Faulty variant: the client's stream is left open on an early return.    *)
CloseStreamsForgetsClient(set) ==
    /\ streams' = streams \ (set \ {"client"})
    /\ closed' = [s \in Sides |-> IF s \in set \ {"client"} THEN closed[s] + 1 ELSE closed[s]]

(* stream_close on each stream of a set. *)
CloseStreams(set) ==
    /\ streams' = streams \ set
    /\ closed' = [s \in Sides |-> IF s \in set THEN closed[s] + 1 ELSE closed[s]]

Idle == UNCHANGED <<data, off, progress, cause>>

(* An early return of client_thread. *)
GiveUp == at' = "done" /\ CloseStreams(streams)

(* Faulty variant: the first byte is taken from the socket to look at it.  *)
PeekConsumes ==
    /\ at = "accepted"
    /\ \/ hello /\ use_tls' = TRUE /\ at' = "handshake" /\ UNCHANGED <<streams, closed, wire>>
       \/ /\ wire["client"] # << >>
          /\ use_tls' = FALSE /\ at' = "connect"
          /\ wire' = [wire EXCEPT !["client"] = Tail(@)]
          /\ UNCHANGED <<streams, closed>>
    /\ UNCHANGED <<listen_mode, speaks_tls, hello, sent, room, got, eof, gone>> /\ Idle

(* client_uses_tls in auto mode: recv(MSG_PEEK) blocks until the client    *)
(* has sent something or closed, and leaves what it looked at in place.    *)
ClientUsesTls ==
    /\ at = "accepted"
    /\ \/ /\ \/ listen_mode = "tls"
             \/ listen_mode = "auto" /\ hello
          /\ use_tls' = TRUE /\ at' = "handshake" /\ UNCHANGED <<streams, closed>>
       \/ /\ \/ listen_mode = "tcp"
             \/ listen_mode = "auto" /\ ~hello /\ wire["client"] # << >>
          /\ use_tls' = FALSE /\ at' = "connect" /\ UNCHANGED <<streams, closed>>
       \/ /\ listen_mode = "auto"
          /\ (eof["client"] /\ ~hello /\ wire["client"] = << >>) \/ gone["client"]
          /\ GiveUp /\ UNCHANGED use_tls
    /\ UNCHANGED <<peers, listen_mode>> /\ Idle

(* SSL_accept: it needs the client's ClientHello and may fail all the same. *)
StreamOpenClient ==
    /\ at = "handshake"
    /\ \/ hello /\ at' = "connect" /\ UNCHANGED <<streams, closed>>
       \/ (hello \/ wire["client"] # << >> \/ eof["client"]) /\ GiveUp
    /\ UNCHANGED <<peers, listen_mode, use_tls>> /\ Idle

(* stream_open_upstream: the TCP connection, then a TLS handshake unless   *)
(* the pool's url is a plain one.                                          *)
StreamOpenUpstream ==
    /\ \/ /\ at = "connect"
          /\ \/ /\ at' \in {"upstream_tls", "to_upstream"}
                /\ streams' = streams \cup {"upstream"} /\ UNCHANGED closed
             \/ at' = "connect_failed" /\ UNCHANGED <<streams, closed>>
       \/ /\ at = "upstream_tls"
          /\ \/ at' = "to_upstream" /\ UNCHANGED <<streams, closed>>
             \/ at' = "connect_failed" /\ CloseStreams({"upstream"})
    /\ UNCHANGED <<peers, listen_mode, use_tls>> /\ Idle

ConnectFailed ==
    /\ at = "connect_failed" /\ GiveUp
    /\ UNCHANGED <<peers, listen_mode, use_tls>> /\ Idle

-----------------------------------------------------------------------------
(* proxy_loop. *)

Rest(s)        == SubSeq(data[s], off[s] + 1, Len(data[s]))
BufferEmpty(s) == off[s] >= Len(data[s])
Smaller(a, b)  == IF a < b THEN a ELSE b

Break(why) == at' = "closing" /\ cause' = why

(* Faulty variants: a partial write counts as a complete one, and one that *)
(* moves the offset the wrong way.                                         *)
WroteAll(s, n) ==
    /\ room' = [room EXCEPT ![s] = @ \o SubSeq(Rest(s), 1, n)]
    /\ data' = [data EXCEPT ![s] = << >>] /\ off' = [off EXCEPT ![s] = 0]

WroteBackwards(s, n) ==
    /\ room' = [room EXCEPT ![s] = @ \o SubSeq(Rest(s), 1, n)]
    /\ off' = [off EXCEPT ![s] = @ - n] /\ UNCHANGED data

(* stream_write took n bytes; a buffer written out is reset. *)
Wrote(s, n) ==
    /\ room' = [room EXCEPT ![s] = @ \o SubSeq(Rest(s), 1, n)]
    /\ IF off[s] + n >= Len(data[s])
       THEN data' = [data EXCEPT ![s] = << >>] /\ off' = [off EXCEPT ![s] = 0]
       ELSE off' = [off EXCEPT ![s] = @ + n] /\ UNCHANGED data

(* Write what the buffer of stream s holds to the other side.  A peer that *)
(* has gone may still take bytes, until its socket is full: nobody reads   *)
(* them.                                                                   *)
Write(s, here, next) ==
    /\ at = here
    /\ \/ BufferEmpty(s) /\ at' = next /\ UNCHANGED <<data, off, progress, cause, room>>
       \/ /\ ~BufferEmpty(s) /\ Len(room[s]) < SocketRoom
          /\ \E n \in 1..Smaller(Len(Rest(s)), SocketRoom - Len(room[s])) : Wrote(s, n)
          /\ progress' = TRUE /\ at' = next /\ UNCHANGED cause
       \/ /\ ~BufferEmpty(s) /\ Len(room[s]) = SocketRoom     \* -2: retry later
          /\ ~gone[Other(s)]
          /\ at' = next /\ UNCHANGED <<data, off, progress, cause, room>>
       \/ /\ ~BufferEmpty(s) /\ gone[Other(s)]                \* -1
          /\ Break("error") /\ UNCHANGED <<data, off, progress, room>>
    /\ UNCHANGED <<listen_mode, use_tls, streams, closed,
                   speaks_tls, hello, sent, wire, got, eof, gone>>

(* Faulty variants: a read that does not wait for the buffer to empty, and *)
(* one that waits for both buffers.                                        *)
MayReadAlways(s) == s \in Sides
MayReadBothEmpty(s) == \A t \in Sides : BufferEmpty(t)

(* A stream is read when its own buffer has been written out. *)
MayRead(s) == BufferEmpty(s)

Read(s, here, next) ==
    /\ at = here
    /\ \/ ~MayRead(s) /\ at' = next /\ UNCHANGED <<data, off, progress, cause, wire>>
       \/ /\ MayRead(s) /\ wire[s] # << >>
          /\ \E n \in 1..Smaller(BufferSize, Len(wire[s])) :
                /\ data' = [data EXCEPT ![s] = SubSeq(wire[s], 1, n)]
                /\ wire' = [wire EXCEPT ![s] = SubSeq(@, n + 1, Len(@))]
          /\ off' = [off EXCEPT ![s] = 0]
          /\ progress' = TRUE /\ at' = next /\ UNCHANGED cause
       \/ /\ MayRead(s) /\ wire[s] = << >> /\ eof[s]          \* 0
          /\ Break(s) /\ UNCHANGED <<data, off, progress, wire>>
       \/ /\ MayRead(s) /\ wire[s] = << >> /\ ~eof[s]         \* -2: retry later
          /\ at' = next /\ UNCHANGED <<data, off, progress, cause, wire>>
       \/ /\ MayRead(s) /\ gone[s]                            \* -1
          /\ Break("error") /\ UNCHANGED <<data, off, progress, wire>>
    /\ UNCHANGED <<listen_mode, use_tls, streams, closed,
                   speaks_tls, hello, sent, room, got, eof, gone>>

(* The end of an iteration: select with a timeout of one second when no    *)
(* byte moved.                                                             *)
NextIteration ==
    /\ at = "select"
    /\ \/ at' = "to_upstream" /\ progress' = FALSE /\ UNCHANGED cause
       \/ ~progress /\ Break("error") /\ UNCHANGED progress
    /\ UNCHANGED <<peers, listen_mode, use_tls, data, off, streams, closed>>

CloseBoth ==
    /\ at = "closing"
    /\ at' = "done" /\ CloseStreams(streams)
    /\ UNCHANGED <<peers, listen_mode, use_tls>> /\ Idle

Thread ==
    \/ ClientUsesTls \/ StreamOpenClient \/ StreamOpenUpstream \/ ConnectFailed
    \/ Write("client", "to_upstream", "to_client")
    \/ Write("upstream", "to_client", "from_client")
    \/ Read("client", "from_client", "from_upstream")
    \/ Read("upstream", "from_upstream", "select")
    \/ NextIteration \/ CloseBoth

-----------------------------------------------------------------------------
(* The peers.                                                              *)

Looping   == {"to_upstream", "to_client", "from_client", "from_upstream", "select"}
Connected(s) == s \in streams

ClientHello ==
    /\ speaks_tls /\ listen_mode # "tcp" /\ ~hello /\ ~eof["client"] /\ hello' = TRUE
    /\ UNCHANGED <<thread, speaks_tls, sent, wire, room, got, eof, gone>>

(* A TLS client sends its first byte when the handshake is over; to a      *)
(* listener in tcp mode its handshake is bytes like any others.            *)
Talking(s) ==
    IF s = "client" /\ speaks_tls /\ listen_mode # "tcp"
    THEN use_tls /\ at \in Looping \cup {"connect", "upstream_tls"}
    ELSE s = "client" \/ at \in Looping

PeerSend(s) ==
    /\ Connected(s) /\ Talking(s) /\ ~eof[s] /\ sent[s] < MaxBytes
    /\ sent' = [sent EXCEPT ![s] = @ + 1]
    /\ wire' = [wire EXCEPT ![s] = Append(@, sent[s] + 1)]
    /\ UNCHANGED <<thread, speaks_tls, hello, room, got, eof, gone>>

(* The other side takes the next byte of stream s from its socket. *)
PeerReceive(s) ==
    /\ room[s] # << >> /\ ~gone[Other(s)]
    /\ got' = [got EXCEPT ![s] = Append(@, Head(room[s]))]
    /\ room' = [room EXCEPT ![s] = Tail(@)]
    /\ UNCHANGED <<thread, speaks_tls, hello, sent, wire, eof, gone>>

(* s closes its sending direction only, or its connection. *)
PeerClose(s) ==
    /\ Connected(s) /\ ~eof[s]
    /\ eof' = [eof EXCEPT ![s] = TRUE]
    /\ \E all \in BOOLEAN : gone' = [gone EXCEPT ![s] = all]
    /\ UNCHANGED <<thread, speaks_tls, hello, sent, wire, room, got>>

(* The proxy closed a socket that held unread bytes of s: the reset that   *)
(* follows may take with it what s has not received yet.                   *)
PeerReset(s) ==
    /\ at = "done" /\ wire[s] # << >> /\ room[Other(s)] # << >>
    /\ room' = [room EXCEPT ![Other(s)] = << >>]
    /\ UNCHANGED <<thread, speaks_tls, hello, sent, wire, got, eof, gone>>

Peers == \/ ClientHello
         \/ \E s \in Sides : PeerSend(s) \/ PeerReceive(s) \/ PeerClose(s) \/ PeerReset(s)

(* A thread that waits for a silent client or pool, or has returned, takes *)
(* no step.                                                                *)
Resting == at \in {"accepted", "handshake", "upstream_tls", "done"} /\ UNCHANGED vars

Next == Thread \/ Peers \/ Resting

Spec == Init /\ [][Next]_vars

(* SSL_accept and SSL_connect work on blocking sockets without a timeout:  *)
(* whether they return is up to the peer, until it closes its side.        *)
InHandshake ==
    \/ at = "handshake" /\ ~eof["client"]
    \/ at = "upstream_tls" /\ ~eof["upstream"]

(* The thread is scheduled, and outside the handshakes none of its calls   *)
(* blocks for ever; the pool reads its socket.  Nothing is assumed of the  *)
(* miner, which may stop reading, and nothing of a peer in a handshake,    *)
(* which may stop answering.                                               *)
FairSpec == Spec /\ WF_vars(~InHandshake /\ Thread) /\ WF_vars(PeerReceive("client"))

-----------------------------------------------------------------------------
(* Properties.                                                             *)

(* Values of the variables of client_thread and of the peers' sockets. *)
TypeOK ==
    /\ at \in Looping \cup {"accepted", "handshake", "connect", "upstream_tls",
                            "connect_failed", "closing", "done"}
    /\ listen_mode \in ListenModes /\ use_tls \in BOOLEAN
    /\ data \in [Sides -> Seq(Nat)] /\ off \in [Sides -> Nat]
    /\ progress \in BOOLEAN
    /\ streams \subseteq Sides /\ closed \in [Sides -> Nat]
    /\ cause \in Sides \cup {"none", "error"}
    /\ speaks_tls \in BOOLEAN /\ hello \in BOOLEAN
    /\ sent \in [Sides -> Nat]
    /\ wire \in [Sides -> Seq(Nat)] /\ room \in [Sides -> Seq(Nat)]
    /\ got \in [Sides -> Seq(Nat)]
    /\ eof \in [Sides -> BOOLEAN] /\ gone \in [Sides -> BOOLEAN]

(* While the connection is up, what the peer received, what its socket     *)
(* holds, what the buffer still has to write and what the proxy's socket   *)
(* holds are together the bytes sent, in order: partial writes, refilled   *)
(* buffers and the peeked first byte (lines 496, 602-665) lose, repeat and *)
(* swap nothing.                                                           *)
NothingLostWhileOpen ==
    at # "done" =>
        \A s \in Sides : got[s] \o room[s] \o Rest(s) \o wire[s] = [i \in 1..sent[s] |-> i]

(* When proxy_loop ends because a side closed (lines 641, 657), every byte *)
(* that side sent has been written to the other side; only bytes on their  *)
(* way to the side that closed can be dropped.                             *)
ClosedSideDrained ==
    \A s \in Sides : cause = s => /\ wire[s] = << >> /\ BufferEmpty(s)
                                  /\ eof[s]

(* client_thread closes each stream it opened exactly once on every path   *)
(* out of it: the failed handshakes with the miner (line 529) and the pool *)
(* (line 446), the failed connection (line 739) and the loop's end.        *)
StreamsClosedOnce ==
    at = "done" => /\ streams = {}
                   /\ closed["client"] = 1
                   /\ closed["upstream"] <= 1
                   /\ cause # "none" => closed["upstream"] = 1

(* The relay is sound at every moment of proxy_loop and client_thread: no  *)
(* byte is lost, repeated or swapped while the connection is up, a side    *)
(* that closed has been drained, and streams are closed once.              *)
RelaySound == TypeOK /\ NothingLostWhileOpen /\ ClosedSideDrained /\ StreamsClosedOnce

(* The proxy is a pair of byte streams: partial reads and writes, the one  *)
(* buffer per direction and the loop's order implement ByteStream.         *)
Streams == INSTANCE ByteStream
ForwardsBytes == Streams!Spec

(* The thread stays in a handshake whose peer does not go on with it. *)
Held == at \in {"handshake", "upstream_tls"}

(* A miner that does not read cannot hold back its own messages: each byte *)
(* it sends reaches the pool unless the connection ends, the pool has left *)
(* or a handshake never ends, whatever is stuck in the other direction.    *)
ClientHeard ==
    \A k \in 1..MaxBytes :
        (sent["client"] >= k) ~>
            (Len(got["client"]) >= k \/ at = "done" \/ gone["upstream"] \/ []Held)

(* A miner that closes is noticed: the thread returns and releases both    *)
(* sockets, unless the pool never answers its ClientHello (line 442).      *)
ClientCloseNoticed == eof["client"] ~> (at = "done" \/ [](at = "upstream_tls"))

(* A miner is served whatever is stuck on the way back to it: its messages *)
(* reach the pool and its close ends the thread, once both handshakes are  *)
(* over.                                                                   *)
ClientServed == ClientHeard /\ ClientCloseNoticed
=============================================================================
