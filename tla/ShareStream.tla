---------------------------- MODULE ShareStream ----------------------------
(***************************************************************************)
(* What miner.c promises to the thread that owns a miner, without threads, *)
(* ranges or a ring: a job is a supply of nonces; nonces leave the supply  *)
(* once; a nonce that left it may be reported once, as a share of the      *)
(* active job; shares are delivered in the order they were reported; a new *)
(* job forgets the shares that were not delivered; an exhausted supply is  *)
(* signalled once per job; nothing is reported during a pause.             *)
(***************************************************************************)
EXTENDS Naturals, Sequences

CONSTANTS MaxNonce,    \* the last nonce
          Capacity     \* how many shares may wait

VARIABLES seq,         \* number of the active job
          valid,       \* the active job still has nonces
          exhausted,   \* exhaustion signalled and not taken
          paused,
          supply,      \* nonces not handed out yet
          waiting,     \* shares reported and not delivered, oldest first
          delivered    \* shares delivered

stream == <<seq, valid, exhausted, paused, supply, waiting, delivered>>

Reported == delivered \cup {waiting[k] : k \in 1..Len(waiting)}

Init ==
    /\ seq = 0 /\ valid = FALSE /\ exhausted = FALSE /\ paused = FALSE
    /\ supply = 0..MaxNonce
    /\ waiting = <<>>
    /\ delivered = {}

NewJob ==
    /\ seq' = seq + 1
    /\ valid' = TRUE /\ exhausted' = FALSE
    /\ supply' = 0..MaxNonce
    /\ waiting' = <<>>
    /\ UNCHANGED <<paused, delivered>>

HandOut ==
    /\ valid /\ ~paused
    /\ supply' \in (SUBSET supply) \ {supply}
    /\ UNCHANGED <<seq, valid, exhausted, paused, waiting, delivered>>

Exhaust ==
    /\ valid /\ ~paused /\ supply = {}
    /\ valid' = FALSE /\ exhausted' = TRUE
    /\ UNCHANGED <<seq, paused, supply, waiting, delivered>>

TakeExhausted ==
    /\ exhausted
    /\ exhausted' = FALSE
    /\ UNCHANGED <<seq, valid, paused, supply, waiting, delivered>>

SetPaused(p) ==
    /\ paused' = p
    /\ UNCHANGED <<seq, valid, exhausted, supply, waiting, delivered>>

Report(n) ==
    LET s == [seq |-> seq, nonce |-> n] IN
    /\ seq > 0 /\ ~paused
    /\ n \notin supply
    /\ s \notin Reported
    /\ Len(waiting) < Capacity
    /\ waiting' = Append(waiting, s)
    /\ UNCHANGED <<seq, valid, exhausted, paused, supply, delivered>>

Deliver ==
    /\ waiting # <<>>
    /\ delivered' = delivered \cup {Head(waiting)}
    /\ waiting' = Tail(waiting)
    /\ UNCHANGED <<seq, valid, exhausted, paused, supply>>

Next ==
    \/ NewJob
    \/ HandOut
    \/ Exhaust
    \/ TakeExhausted
    \/ \E p \in BOOLEAN : SetPaused(p)
    \/ \E n \in 0..MaxNonce : Report(n)
    \/ Deliver

Spec == Init /\ [][Next]_stream
=============================================================================
