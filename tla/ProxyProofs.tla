---------------------------- MODULE ProxyProofs ----------------------------
(***************************************************************************)
(* Proofs about Proxy: the relay loses, repeats and swaps no byte, closes  *)
(* its streams once, and implements ByteStream.                            *)
(***************************************************************************)
EXTENDS Proxy, SequenceTheorems, TLAPS

-----------------------------------------------------------------------------
(* One stream on its way, as a function of the places its bytes are in.    *)

(* The n numbers after a, in order. *)
Run(q, a, n) == q \in Seq(Nat) /\ Len(q) = n /\ \A i \in 1..n : q[i] = a + i

(* g has arrived, r is in the peer's socket; d and o are the buffer and    *)
(* the part of it that is written, w is unread, and n bytes were sent.     *)
Arrived(g, r, n) ==
    /\ n \in Nat /\ Len(g) + Len(r) <= n
    /\ Run(g, 0, Len(g)) /\ Run(r, Len(g), Len(r))

Pending(g, r, d, o, w, n) ==
    /\ d \in Seq(Nat) /\ o \in 0..Len(d)
    /\ \A i \in 1..(Len(d) - o) : d[o + i] = Len(g) + Len(r) + i
    /\ Run(w, Len(g) + Len(r) + (Len(d) - o), Len(w))
    /\ Len(g) + Len(r) + (Len(d) - o) + Len(w) = n

Flow(g, r, d, o, w, n) == Arrived(g, r, n) /\ Pending(g, r, d, o, w, n)

LEMMA RunJoin ==
    ASSUME NEW p, NEW q, NEW a \in Nat, NEW m \in Nat, NEW n \in Nat, Run(p, a, m), Run(q, a + m, n)
    PROVE  Run(p \o q, a, m + n)
<1>1. p \in Seq(Nat) /\ q \in Seq(Nat) /\ Len(p) = m /\ Len(q) = n
  BY DEF Run
<1>2. p \o q \in Seq(Nat) /\ Len(p \o q) = m + n
      /\ \A i \in 1..(m + n) : (p \o q)[i] = IF i <= m THEN p[i] ELSE q[i - m]
  BY <1>1, ConcatProperties
<1>3. ASSUME NEW i \in 1..(m + n) PROVE (p \o q)[i] = a + i
  <2>1. (p \o q)[i] = IF i <= m THEN p[i] ELSE q[i - m]
    BY <1>2
  <2>2. CASE i <= m
    BY <2>1, <2>2 DEF Run
  <2>3. CASE ~(i <= m)
    <3>1. i - m \in 1..n
      BY <2>3
    <3> QED BY <2>1, <2>3, <3>1 DEF Run
  <2> QED BY <2>2, <2>3
<1> QED BY <1>2, <1>3 DEF Run

LEMMA Part ==
    ASSUME NEW q \in Seq(Nat), NEW a \in 0..Len(q), NEW b \in a..Len(q)
    PROVE  /\ SubSeq(q, a + 1, b) \in Seq(Nat) /\ Len(SubSeq(q, a + 1, b)) = b - a
           /\ \A i \in 1..(b - a) : SubSeq(q, a + 1, b)[i] = q[a + i]
<1>1. Len(q) \in Nat /\ a \in Nat /\ b \in Nat /\ a + 1 \in Int /\ b \in Int
  OBVIOUS
<1>2. \A i \in (a + 1)..b : q[i] \in Nat
  BY <1>1, ElementOfSeq
<1>3. /\ SubSeq(q, a + 1, b) \in Seq(Nat)
      /\ Len(SubSeq(q, a + 1, b)) = IF a + 1 <= b THEN b - (a + 1) + 1 ELSE 0
      /\ \A i \in 1..(b - (a + 1) + 1) : SubSeq(q, a + 1, b)[i] = q[(a + 1) + i - 1]
  BY <1>1, <1>2, SubSeqProperties
<1>4. b - (a + 1) + 1 = b - a /\ (~(a + 1 <= b) => b - a = 0) /\ \A i \in Int : (a + 1) + i - 1 = a + i
  BY <1>1
<1>5. Len(SubSeq(q, a + 1, b)) = b - a
  BY <1>3, <1>4
<1>6. ASSUME NEW i \in 1..(b - a) PROVE SubSeq(q, a + 1, b)[i] = q[a + i]
  <2>1. i \in Int
    OBVIOUS
  <2> QED BY <1>3, <1>4, <2>1
<1> QED BY <1>3, <1>5, <1>6

LEMMA FlowSend ==
    ASSUME NEW g, NEW r, NEW d, NEW o, NEW w, NEW n, Flow(g, r, d, o, w, n)
    PROVE  Flow(g, r, d, o, Append(w, n + 1), n + 1)
<1>1. /\ g \in Seq(Nat) /\ r \in Seq(Nat) /\ d \in Seq(Nat) /\ w \in Seq(Nat)
      /\ o \in 0..Len(d) /\ n \in Nat
  BY DEF Flow, Arrived, Pending, Run
<1>2. Append(w, n + 1) \in Seq(Nat) /\ Len(Append(w, n + 1)) = Len(w) + 1
      /\ Append(w, n + 1)[Len(w) + 1] = n + 1
      /\ \A i \in 1..Len(w) : Append(w, n + 1)[i] = w[i]
  BY <1>1
<1> DEFINE v == Append(w, n + 1)
           a == Len(g) + Len(r) + (Len(d) - o)
<1>3. a \in Nat /\ Len(w) \in Nat /\ a + Len(w) = n
  BY <1>1 DEF Flow, Pending
<1>4. \A i \in 1..Len(w) : w[i] = a + i
  BY DEF Flow, Pending, Run
<1> HIDE DEF a
<1>5. ASSUME NEW i \in 1..(Len(w) + 1) PROVE v[i] = a + i
  <2>1. CASE i = Len(w) + 1
    BY <1>2, <1>3, <2>1
  <2>2. CASE i # Len(w) + 1
    <3>1. i \in 1..Len(w)
      BY <1>3, <2>2
    <3> QED BY <1>2, <1>4, <3>1
  <2> QED BY <2>1, <2>2
<1> HIDE DEF v
<1>6. Run(v, a, Len(v)) /\ a + Len(v) = n + 1
  BY <1>1, <1>2, <1>3, <1>5 DEF Run, v
<1>7. Pending(g, r, d, o, v, n + 1)
  BY <1>1, <1>6 DEF Flow, Pending, a
<1>8. Arrived(g, r, n + 1)
  BY <1>1 DEF Flow, Arrived
<1> QED BY <1>7, <1>8 DEF Flow, v

LEMMA FlowReceive ==
    ASSUME NEW g, NEW r, NEW n, Arrived(g, r, n), r # << >>
    PROVE  /\ Arrived(Append(g, Head(r)), Tail(r), n)
           /\ Head(r) = Len(g) + 1 /\ Len(g) < n
           /\ Len(Append(g, Head(r))) + Len(Tail(r)) = Len(g) + Len(r)
<1>1. g \in Seq(Nat) /\ r \in Seq(Nat) /\ n \in Nat /\ Len(r) >= 1 /\ 1 \in 1..Len(r)
  BY DEF Arrived, Run
<1>2. Head(r) = r[1] /\ r[1] = Len(g) + 1
  BY <1>1 DEF Arrived, Run
<1> DEFINE h == Append(g, Head(r))
           t == Tail(r)
<1>3. h \in Seq(Nat) /\ Len(h) = Len(g) + 1 /\ h[Len(g) + 1] = Len(g) + 1
      /\ \A i \in 1..Len(g) : h[i] = g[i]
  BY <1>1, <1>2
<1>4. t \in Seq(Nat) /\ Len(t) = Len(r) - 1 /\ \A i \in 1..Len(t) : t[i] = r[i + 1]
  BY <1>1
<1> HIDE DEF h, t
<1>5. Run(h, 0, Len(h))
  <2>1. \A i \in 1..Len(g) : g[i] = 0 + i
    BY DEF Arrived, Run
  <2>2. ASSUME NEW i \in 1..Len(h) PROVE h[i] = 0 + i
    <3>1. i = Len(g) + 1 \/ i \in 1..Len(g)
      BY <1>1, <1>3
    <3> QED BY <1>1, <1>3, <2>1, <3>1
  <2> QED BY <1>3, <2>2 DEF Run
<1>6. Run(t, Len(h), Len(t))
  BY <1>1, <1>3, <1>4 DEF Arrived, Run
<1>7. Len(h) + Len(t) = Len(g) + Len(r)
  BY <1>1, <1>3, <1>4
<1> QED BY <1>1, <1>2, <1>5, <1>6, <1>7 DEF Arrived, h, t

(* The first k unwritten bytes of the buffer go to the socket. *)
LEMMA FlowWrite ==
    ASSUME NEW g, NEW r, NEW d, NEW o, NEW w, NEW n, Flow(g, r, d, o, w, n),
           NEW k \in 1..Len(SubSeq(d, o + 1, Len(d)))
    PROVE  LET q == r \o SubSeq(SubSeq(d, o + 1, Len(d)), 1, k)
           IN /\ o + k >= Len(d) => Flow(g, q, << >>, 0, w, n)
              /\ ~(o + k >= Len(d)) => Flow(g, q, d, o + k, w, n)
<1> DEFINE b == SubSeq(d, o + 1, Len(d))
           c == SubSeq(b, 1, k)
           q == r \o c
<1>1. /\ g \in Seq(Nat) /\ r \in Seq(Nat) /\ d \in Seq(Nat) /\ w \in Seq(Nat)
      /\ o \in 0..Len(d) /\ n \in Nat
  BY DEF Flow, Arrived, Pending, Run
<1>2. b \in Seq(Nat) /\ Len(b) = Len(d) - o /\ \A i \in 1..(Len(d) - o) : b[i] = d[o + i]
  <2>1. Len(d) \in o..Len(d)
    BY <1>1
  <2> QED BY <1>1, <2>1, Part
<1>3. k \in 1..(Len(d) - o)
  BY <1>2
<1> HIDE DEF b
<1>4. c \in Seq(Nat) /\ Len(c) = k /\ \A i \in 1..k : c[i] = d[o + i]
  <2>1. 0 \in 0..Len(b) /\ k \in 0..Len(b) /\ k - 0 = k /\ 0 + 1 = 1 /\ \A i \in 1..k : 0 + i = i
    BY <1>1, <1>2, <1>3
  <2>2. c \in Seq(Nat) /\ Len(c) = k /\ \A i \in 1..k : c[i] = b[i]
    BY <1>2, <2>1, Part
  <2>3. \A i \in 1..k : i \in 1..(Len(d) - o)
    BY <1>1, <1>3
  <2> QED BY <1>2, <2>2, <2>3
<1> HIDE DEF c
<1>5. Run(c, Len(g) + Len(r), k)
  <2>1. \A i \in 1..k : i \in 1..(Len(d) - o)
    BY <1>1, <1>3
  <2>2. \A i \in 1..(Len(d) - o) : d[o + i] = Len(g) + Len(r) + i
    BY DEF Flow, Pending
  <2>3. \A i \in 1..k : c[i] = Len(g) + Len(r) + i
    BY <1>4, <2>1, <2>2
  <2> QED BY <1>4, <2>3 DEF Run
<1>6. Run(q, Len(g), Len(r) + k)
  BY <1>1, <1>3, <1>5, RunJoin DEF Flow, Arrived
<1>7. q \in Seq(Nat) /\ Len(q) = Len(r) + k
  BY <1>6 DEF Run
<1> HIDE DEF q
<1>8. Arrived(g, q, n)
  BY <1>1, <1>3, <1>6, <1>7 DEF Flow, Arrived, Pending
<1>9. ASSUME o + k >= Len(d) PROVE Flow(g, q, << >>, 0, w, n)
  <2>1. Len(q) = Len(r) + (Len(d) - o)
    <3>1. k = Len(d) - o
      BY <1>1, <1>3, <1>9
    <3> QED BY <1>7, <3>1
  <2>2. Len(g) + Len(q) + (0 - 0) = Len(g) + Len(r) + (Len(d) - o)
    BY <1>1, <2>1
  <2>3. Run(w, Len(g) + Len(r) + (Len(d) - o), Len(w)) /\ Len(g) + Len(r) + (Len(d) - o) + Len(w) = n
    BY DEF Flow, Pending
  <2> DEFINE e == << >>
  <2>4. e \in Seq(Nat) /\ Len(e) = 0
    OBVIOUS
  <2> HIDE DEF e
  <2>5. Pending(g, q, e, 0, w, n)
    BY <2>2, <2>3, <2>4 DEF Pending
  <2> QED BY <1>8, <2>5 DEF Flow, e
<1>10. ASSUME ~(o + k >= Len(d)) PROVE Flow(g, q, d, o + k, w, n)
  <2>1. o + k \in 0..Len(d) /\ Len(g) + Len(q) + (Len(d) - (o + k)) = Len(g) + Len(r) + (Len(d) - o)
    BY <1>1, <1>3, <1>7, <1>10
  <2>2. Run(w, Len(g) + Len(r) + (Len(d) - o), Len(w)) /\ Len(g) + Len(r) + (Len(d) - o) + Len(w) = n
    BY DEF Flow, Pending
  <2>3. ASSUME NEW i \in 1..(Len(d) - (o + k)) PROVE d[(o + k) + i] = Len(g) + Len(q) + i
    <3>1. k + i \in 1..(Len(d) - o) /\ o + (k + i) = (o + k) + i
      BY <1>1, <1>3
    <3>2. d[o + (k + i)] = Len(g) + Len(r) + (k + i)
      BY <3>1 DEF Flow, Pending
    <3> QED BY <1>1, <1>3, <1>7, <3>1, <3>2
  <2> QED BY <1>1, <1>8, <2>1, <2>2, <2>3 DEF Flow, Pending
<1> QED BY <1>9, <1>10 DEF q, c, b

(* The first k bytes of the socket fill an empty buffer. *)
LEMMA FlowRead ==
    ASSUME NEW g, NEW r, NEW d, NEW o, NEW w, NEW n, Flow(g, r, d, o, w, n),
           o >= Len(d), NEW k \in 1..Len(w)
    PROVE  Flow(g, r, SubSeq(w, 1, k), 0, SubSeq(w, k + 1, Len(w)), n)
<1> DEFINE b == SubSeq(w, 1, k)
           v == SubSeq(w, k + 1, Len(w))
           a == Len(g) + Len(r)
<1>1. /\ g \in Seq(Nat) /\ r \in Seq(Nat) /\ d \in Seq(Nat) /\ w \in Seq(Nat)
      /\ o \in 0..Len(d) /\ n \in Nat /\ a \in Nat
  BY DEF Flow, Arrived, Pending, Run
<1>2. Len(d) - o = 0 /\ Len(w) \in Nat
  BY <1>1
<1>9. Run(w, a + (Len(d) - o), Len(w)) /\ a + (Len(d) - o) + Len(w) = n
  BY DEF Flow, Pending
<1> HIDE DEF a
<1>10. a + (Len(d) - o) = a
  <2>1. a \in Nat /\ \A x \in Nat : x + 0 = x
    BY <1>1
  <2> QED BY <1>2, <2>1
<1>11. Run(w, a, Len(w)) /\ a + Len(w) = n
  BY <1>9, <1>10
<1>3. b \in Seq(Nat) /\ Len(b) = k /\ \A i \in 1..k : b[i] = w[i]
  <2>1. 0 \in 0..Len(w) /\ k \in 0..Len(w) /\ k - 0 = k /\ 0 + 1 = 1 /\ \A i \in 1..k : 0 + i = i
    BY <1>2
  <2> QED BY <1>1, <2>1, Part
<1>4. v \in Seq(Nat) /\ Len(v) = Len(w) - k /\ \A i \in 1..(Len(w) - k) : v[i] = w[k + i]
  <2>1. k \in 0..Len(w) /\ Len(w) \in k..Len(w)
    BY <1>2
  <2> QED BY <1>1, <2>1, Part
<1> HIDE DEF b, v
<1>5. Run(v, a + (Len(b) - 0), Len(v)) /\ a + (Len(b) - 0) + Len(v) = n
  <2>1. a + (Len(b) - 0) = a + k /\ a + k + Len(v) = n
    BY <1>1, <1>2, <1>3, <1>4, <1>11
  <2>2. ASSUME NEW i \in 1..(Len(w) - k) PROVE v[i] = (a + k) + i
    <3>1. k + i \in 1..Len(w) /\ a + (k + i) = (a + k) + i
      BY <1>1, <1>2
    <3> QED BY <1>4, <1>11, <3>1 DEF Run
  <2>3. Run(v, a + k, Len(v))
    BY <1>4, <2>2 DEF Run
  <2> QED BY <2>1, <2>3
<1>6. ASSUME NEW i \in 1..(Len(b) - 0) PROVE b[0 + i] = a + i
  <2>1. i \in 1..k /\ 0 + i = i /\ i \in 1..Len(w)
    BY <1>2, <1>3
  <2> QED BY <1>3, <1>11, <2>1 DEF Run
<1>7. 0 \in 0..Len(b)
  BY <1>3
<1>8. Pending(g, r, b, 0, v, n)
  BY <1>3, <1>5, <1>6, <1>7 DEF Pending, a
<1> QED BY <1>8 DEF Flow, b, v

LEMMA FlowWhole ==
    ASSUME NEW g, NEW r, NEW d, NEW o, NEW w, NEW n, Flow(g, r, d, o, w, n)
    PROVE  g \o r \o SubSeq(d, o + 1, Len(d)) \o w = [i \in 1..n |-> i]
<1> DEFINE b == SubSeq(d, o + 1, Len(d))
           m == Len(d) - o
<1>1. /\ g \in Seq(Nat) /\ r \in Seq(Nat) /\ d \in Seq(Nat) /\ w \in Seq(Nat)
      /\ o \in 0..Len(d) /\ n \in Nat /\ Len(g) \in Nat /\ Len(r) \in Nat /\ Len(w) \in Nat /\ m \in Nat
  BY DEF Flow, Arrived, Pending, Run
<1>2. b \in Seq(Nat) /\ Len(b) = m /\ \A i \in 1..m : b[i] = d[o + i]
  <2>1. Len(d) \in o..Len(d)
    BY <1>1
  <2> QED BY <1>1, <2>1, Part
<1> HIDE DEF b, m
<1>3. Run(b, Len(g) + Len(r), m)
  BY <1>1, <1>2 DEF Flow, Pending, Run, m
<1>4. Run(g \o r, 0, Len(g) + Len(r))
  BY <1>1, RunJoin DEF Flow, Arrived
<1>5. Run((g \o r) \o b, 0, Len(g) + Len(r) + m)
  BY <1>1, <1>3, <1>4, RunJoin
<1>6. Run(w, Len(g) + Len(r) + m, Len(w)) /\ Len(g) + Len(r) + m + Len(w) = n
  BY DEF Flow, Pending, m
<1>7. Run(((g \o r) \o b) \o w, 0, n)
  BY <1>1, <1>5, <1>6, RunJoin
<1> DEFINE z == ((g \o r) \o b) \o w
<1> HIDE DEF z
<1>8. z \in Seq(Nat) /\ Len(z) = n /\ \A i \in 1..n : z[i] = i
  BY <1>1, <1>7 DEF Run, z
<1>9. z = [i \in 1..n |-> i]
  BY <1>1, <1>8
<1> QED BY <1>9 DEF z, b

-----------------------------------------------------------------------------
(* The inductive invariant.                                                *)

(* Every byte is somewhere on its way; once the thread has returned only   *)
(* those that reached the peer's socket count.                             *)
FlowsKept ==
    \A s \in Sides :
        /\ Arrived(got[s], room[s], sent[s])
        /\ at # "done" => Pending(got[s], room[s], data[s], off[s], wire[s], sent[s])

(* proxy_loop has a cause only when it has ended. *)
CauseKnown == cause # "none" => at \in {"closing", "done"}

(* The streams that are open, and how often each was closed. *)
StreamsHere ==
    /\ at \in {"accepted", "handshake", "connect"} =>
          streams = {"client"} /\ closed["client"] = 0 /\ closed["upstream"] = 0
    /\ at \in Looping \cup {"upstream_tls", "closing"} =>
          streams = Sides /\ closed["client"] = 0 /\ closed["upstream"] = 0
    /\ at = "connect_failed" =>
          streams = {"client"} /\ closed["client"] = 0 /\ closed["upstream"] \in {0, 1}
    /\ at = "done" =>
          /\ streams = {} /\ closed["client"] = 1 /\ closed["upstream"] \in {0, 1}
          /\ cause # "none" => closed["upstream"] = 1

RelayInv == TypeOK /\ FlowsKept /\ CauseKnown /\ StreamsHere /\ ClosedSideDrained

-----------------------------------------------------------------------------
LEMMA InitRelayInv == Init => RelayInv
<1> SUFFICES ASSUME Init PROVE RelayInv
  OBVIOUS
<1> DEFINE e == << >>
<1>0. e \in Seq(Nat) /\ Len(e) = 0
  OBVIOUS
<1>1. /\ data = [s \in Sides |-> e] /\ wire = [s \in Sides |-> e] /\ room = [s \in Sides |-> e]
      /\ got = [s \in Sides |-> e]
  BY DEF Init
<1> HIDE DEF e
<1>2. /\ at = "accepted" /\ listen_mode \in ListenModes /\ use_tls = FALSE /\ off = [s \in Sides |-> 0]
      /\ progress = FALSE /\ streams = {"client"} /\ closed = [s \in Sides |-> 0] /\ cause = "none"
      /\ speaks_tls \in BOOLEAN /\ hello = FALSE /\ sent = [s \in Sides |-> 0]
      /\ eof = [s \in Sides |-> FALSE] /\ gone = [s \in Sides |-> FALSE]
  BY DEF Init
<1>3. /\ data \in [Sides -> Seq(Nat)] /\ wire \in [Sides -> Seq(Nat)] /\ room \in [Sides -> Seq(Nat)]
      /\ got \in [Sides -> Seq(Nat)]
  BY <1>0, <1>1
<1>4. TypeOK
  BY <1>2, <1>3 DEF TypeOK, Sides, Looping
<1>5. ASSUME NEW s \in Sides
      PROVE  /\ Arrived(got[s], room[s], sent[s])
             /\ Pending(got[s], room[s], data[s], off[s], wire[s], sent[s])
  <2>1. got[s] = e /\ room[s] = e /\ data[s] = e /\ wire[s] = e /\ off[s] = 0 /\ sent[s] = 0
    BY <1>1, <1>2
  <2>2. Arrived(e, e, 0) /\ Pending(e, e, e, 0, e, 0)
    BY <1>0 DEF Arrived, Pending, Run
  <2> QED BY <2>1, <2>2
<1>6. FlowsKept
  BY <1>5 DEF FlowsKept
<1>7. CauseKnown /\ StreamsHere /\ ClosedSideDrained
  BY <1>2 DEF CauseKnown, StreamsHere, ClosedSideDrained, Sides, Looping
<1> QED BY <1>4, <1>6, <1>7 DEF RelayInv

(* A step of the thread that moves no byte. *)
LEMMA NoByteMoves ==
    ASSUME RelayInv, UNCHANGED <<data, off>>, UNCHANGED peers, at = "done" => at' = "done"
    PROVE  FlowsKept' /\ (UNCHANGED cause => ClosedSideDrained')
<1>1. UNCHANGED <<data, off, sent, wire, room, got, eof>>
  BY DEF peers
<1>2. FlowsKept'
  BY <1>1 DEF RelayInv, FlowsKept
<1>3. ASSUME UNCHANGED cause PROVE ClosedSideDrained'
  BY <1>1, <1>3 DEF RelayInv, ClosedSideDrained, BufferEmpty
<1> QED BY <1>2, <1>3

LEMMA CloseStreamsCounts ==
    ASSUME RelayInv, NEW set \in SUBSET streams, CloseStreams(set)
    PROVE  /\ streams' = streams \ set /\ streams' \subseteq Sides /\ closed' \in [Sides -> Nat]
           /\ \A s \in set : closed'[s] = closed[s] + 1
           /\ \A s \in Sides \ set : closed'[s] = closed[s]
<1>1. streams \subseteq Sides /\ closed \in [Sides -> Nat] /\ set \subseteq Sides
  BY DEF RelayInv, TypeOK
<1>2. streams' = streams \ set
      /\ closed' = [s \in Sides |-> IF s \in set THEN closed[s] + 1 ELSE closed[s]]
  BY DEF CloseStreams
<1> QED BY <1>1, <1>2

(* Leaving client_thread closes what is open. *)
LEMMA GiveUpStep ==
    ASSUME RelayInv, GiveUp, at # "done", UNCHANGED cause,
           cause # "none" => at = "closing"
    PROVE  /\ StreamsHere' /\ CauseKnown' /\ at' = "done"
           /\ streams' \subseteq Sides /\ closed' \in [Sides -> Nat]
<1>1. at' = "done" /\ CloseStreams(streams)
  BY DEF GiveUp
<1>2. /\ streams' = {} /\ closed' \in [Sides -> Nat]
      /\ \A s \in streams : closed'[s] = closed[s] + 1
      /\ \A s \in Sides \ streams : closed'[s] = closed[s]
  BY <1>1, CloseStreamsCounts
<1>3. "client" \in Sides /\ "upstream" \in Sides
  BY DEF Sides
<1>4. CASE at \in {"accepted", "handshake", "connect", "connect_failed"}
  <2>1. streams = {"client"} /\ closed["client"] = 0 /\ closed["upstream"] \in {0, 1} /\ cause = "none"
    BY <1>4 DEF RelayInv, StreamsHere
  <2>2. closed'["client"] = 1 /\ closed'["upstream"] \in {0, 1}
    BY <1>2, <1>3, <2>1
  <2> QED BY <1>1, <1>2, <2>1, <2>2 DEF StreamsHere, CauseKnown, Looping
<1>5. CASE at \in Looping \cup {"upstream_tls", "closing"}
  <2>1. streams = Sides /\ closed["client"] = 0 /\ closed["upstream"] = 0
    BY <1>5 DEF RelayInv, StreamsHere
  <2>2. closed'["client"] = 1 /\ closed'["upstream"] = 1
    BY <1>2, <1>3, <2>1
  <2> QED BY <1>1, <1>2, <2>2 DEF StreamsHere, CauseKnown, Looping
<1> QED BY <1>4, <1>5 DEF RelayInv, TypeOK

LEMMA ThreadOpens ==
    ASSUME RelayInv, ClientUsesTls \/ StreamOpenClient \/ StreamOpenUpstream \/ ConnectFailed \/ CloseBoth
    PROVE  RelayInv'
<1>1. UNCHANGED peers /\ UNCHANGED <<data, off, progress, cause, listen_mode>>
  BY DEF ClientUsesTls, StreamOpenClient, StreamOpenUpstream, ConnectFailed, CloseBoth, Idle
<1>2. at \in {"accepted", "handshake", "connect", "upstream_tls", "connect_failed", "closing"}
      /\ use_tls' \in BOOLEAN
  BY DEF ClientUsesTls, StreamOpenClient, StreamOpenUpstream, ConnectFailed, CloseBoth, RelayInv, TypeOK
<1>3. FlowsKept' /\ ClosedSideDrained'
  BY <1>1, <1>2, NoByteMoves
<1>4. cause # "none" => at = "closing"
  BY <1>2 DEF RelayInv, CauseKnown
<1>5. /\ StreamsHere' /\ CauseKnown' /\ streams' \subseteq Sides /\ closed' \in [Sides -> Nat]
      /\ at' \in Looping \cup {"accepted", "handshake", "connect", "upstream_tls",
                                "connect_failed", "closing", "done"}
  <2>1. CASE GiveUp
    BY <1>1, <1>2, <1>4, <2>1, GiveUpStep
  <2>2. CASE /\ at \in {"accepted", "handshake"} /\ at' \in {"handshake", "connect"}
             /\ UNCHANGED <<streams, closed>>
    BY <1>1, <1>4, <2>2 DEF RelayInv, TypeOK, StreamsHere, CauseKnown, Looping
  <2>3. CASE at = "connect" /\ at' \in {"upstream_tls", "to_upstream"}
             /\ streams' = streams \cup {"upstream"} /\ UNCHANGED closed
    BY <1>1, <1>4, <2>3 DEF RelayInv, TypeOK, StreamsHere, CauseKnown, Looping, Sides
  <2>4. CASE at = "connect" /\ at' = "connect_failed" /\ UNCHANGED <<streams, closed>>
    BY <1>1, <1>4, <2>4 DEF RelayInv, TypeOK, StreamsHere, CauseKnown, Looping
  <2>5. CASE at = "upstream_tls" /\ at' = "to_upstream" /\ UNCHANGED <<streams, closed>>
    BY <1>1, <1>4, <2>5 DEF RelayInv, TypeOK, StreamsHere, CauseKnown, Looping
  <2>6. CASE at = "upstream_tls" /\ at' = "connect_failed" /\ CloseStreams({"upstream"})
    <3>1. streams = Sides /\ closed["client"] = 0 /\ closed["upstream"] = 0 /\ {"upstream"} \in SUBSET streams
      BY <2>6 DEF RelayInv, StreamsHere, Sides
    <3>2. /\ streams' = streams \ {"upstream"} /\ streams' \subseteq Sides /\ closed' \in [Sides -> Nat]
          /\ closed'["upstream"] = 1 /\ closed'["client"] = 0
      BY <2>6, <3>1, CloseStreamsCounts DEF Sides
    <3>3. streams' = {"client"}
      BY <3>1, <3>2 DEF Sides
    <3> QED BY <1>1, <1>4, <2>6, <3>2, <3>3 DEF StreamsHere, CauseKnown, Looping
  <2>7. CASE ClientUsesTls
    BY <2>1, <2>2, <2>7 DEF ClientUsesTls
  <2>8. CASE StreamOpenClient
    BY <2>1, <2>2, <2>8 DEF StreamOpenClient
  <2>9. CASE StreamOpenUpstream
    BY <2>3, <2>4, <2>5, <2>6, <2>9 DEF StreamOpenUpstream
  <2>10. CASE ConnectFailed \/ CloseBoth
    BY <2>1, <2>10 DEF ConnectFailed, CloseBoth, GiveUp
  <2> QED BY <2>7, <2>8, <2>9, <2>10
<1>6. TypeOK'
  BY <1>1, <1>2, <1>5 DEF RelayInv, TypeOK, peers, Looping
<1> QED BY <1>3, <1>5, <1>6 DEF RelayInv

LEMMA NextIterationStep == ASSUME RelayInv, NextIteration PROVE RelayInv'
<1>1. /\ UNCHANGED peers /\ UNCHANGED <<data, off, listen_mode, use_tls, streams, closed>>
      /\ at = "select" /\ progress' \in BOOLEAN
      /\ \/ at' = "to_upstream" /\ cause' = cause
         \/ at' = "closing" /\ cause' = "error"
  BY DEF NextIteration, Break, RelayInv, TypeOK
<1>2. FlowsKept' /\ (UNCHANGED cause => ClosedSideDrained')
  BY <1>1, NoByteMoves
<1>3. ClosedSideDrained'
  BY <1>1, <1>2 DEF ClosedSideDrained, Sides
<1>4. CauseKnown' /\ StreamsHere'
  BY <1>1 DEF RelayInv, CauseKnown, StreamsHere, Looping
<1>5. TypeOK'
  BY <1>1 DEF RelayInv, TypeOK, peers, Looping
<1> QED BY <1>2, <1>3, <1>4, <1>5 DEF RelayInv

(* A step that moves bytes of stream s only. *)
LEMMA OneFlowMoves ==
    ASSUME RelayInv, NEW s \in Sides, at # "done",
           \A t \in Sides \ {s} :
              /\ got'[t] = got[t] /\ room'[t] = room[t] /\ data'[t] = data[t] /\ off'[t] = off[t]
              /\ wire'[t] = wire[t] /\ sent'[t] = sent[t],
           Flow(got'[s], room'[s], data'[s], off'[s], wire'[s], sent'[s])
    PROVE  FlowsKept'
<1>1. ASSUME NEW t \in Sides
      PROVE  /\ Arrived(got'[t], room'[t], sent'[t])
             /\ Pending(got'[t], room'[t], data'[t], off'[t], wire'[t], sent'[t])
  <2>1. CASE t = s
    BY <2>1 DEF Flow
  <2>2. CASE t # s
    BY <2>2 DEF RelayInv, FlowsKept
  <2> QED BY <2>1, <2>2
<1> QED BY <1>1 DEF FlowsKept

LEMMA WriteStep ==
    ASSUME RelayInv, NEW s \in Sides, NEW here \in Looping, NEW next \in Looping, Write(s, here, next)
    PROVE  RelayInv'
<1>1. /\ at = here /\ at # "done" /\ at # "closing" /\ cause = "none"
      /\ UNCHANGED <<listen_mode, use_tls, streams, closed, speaks_tls, hello, sent, wire, got, eof, gone>>
  BY DEF Write, RelayInv, CauseKnown, Looping
<1>2. /\ data \in [Sides -> Seq(Nat)] /\ off \in [Sides -> Nat] /\ room \in [Sides -> Seq(Nat)]
      /\ got \in [Sides -> Seq(Nat)] /\ wire \in [Sides -> Seq(Nat)] /\ sent \in [Sides -> Nat]
  BY DEF RelayInv, TypeOK
<1>3. Flow(got[s], room[s], data[s], off[s], wire[s], sent[s])
  BY <1>1 DEF RelayInv, FlowsKept, Flow
<1>4. CASE /\ UNCHANGED <<data, off, progress, room>>
           /\ \/ at' = next /\ cause' = cause
              \/ at' = "closing" /\ cause' = "error"
  <2>1. FlowsKept'
    BY <1>1, <1>3, <1>4, OneFlowMoves
  <2>2. CauseKnown' /\ StreamsHere'
    BY <1>1, <1>4 DEF RelayInv, CauseKnown, StreamsHere, Looping
  <2>3. ClosedSideDrained'
    BY <1>1, <1>4 DEF RelayInv, ClosedSideDrained, Sides
  <2>4. TypeOK'
    BY <1>1, <1>4 DEF RelayInv, TypeOK, Looping
  <2> QED BY <2>1, <2>2, <2>3, <2>4 DEF RelayInv
<1>5. CASE /\ \E n \in 1..Smaller(Len(Rest(s)), SocketRoom - Len(room[s])) : Wrote(s, n)
           /\ progress' = TRUE /\ at' = next /\ UNCHANGED cause
  <2>1. PICK n \in 1..Smaller(Len(Rest(s)), SocketRoom - Len(room[s])) : Wrote(s, n)
    BY <1>5
  <2>2. n \in 1..Len(SubSeq(data[s], off[s] + 1, Len(data[s])))
    <3>1. data[s] \in Seq(Nat) /\ off[s] \in 0..Len(data[s]) /\ Len(data[s]) \in off[s]..Len(data[s])
      BY <1>2, <1>3 DEF Flow, Pending
    <3>2. Len(Rest(s)) \in Nat
      BY <3>1, Part DEF Rest
    <3>3. Len(room[s]) \in Nat /\ SocketRoom \in Nat
      BY <1>2, ProxyAssumption
    <3>4. n \in 1..Len(Rest(s))
      BY <3>2, <3>3 DEF Smaller
    <3> QED BY <3>4 DEF Rest
  <2> DEFINE q == room[s] \o SubSeq(Rest(s), 1, n)
  <2>3. /\ off[s] + n >= Len(data[s]) => Flow(got[s], q, << >>, 0, wire[s], sent[s])
        /\ ~(off[s] + n >= Len(data[s])) => Flow(got[s], q, data[s], off[s] + n, wire[s], sent[s])
    BY <1>3, <2>2, FlowWrite DEF Rest
  <2> HIDE DEF q
  <2>4. room' = [room EXCEPT ![s] = q]
    BY <2>1 DEF Wrote, q
  <2>5. /\ off[s] + n >= Len(data[s]) => data' = [data EXCEPT ![s] = << >>] /\ off' = [off EXCEPT ![s] = 0]
        /\ ~(off[s] + n >= Len(data[s])) => data' = data /\ off' = [off EXCEPT ![s] = off[s] + n]
    BY <2>1 DEF Wrote
  <2>6. /\ Flow(got[s], room'[s], data'[s], off'[s], wire[s], sent[s])
        /\ \A t \in Sides \ {s} : room'[t] = room[t] /\ data'[t] = data[t] /\ off'[t] = off[t]
        /\ DOMAIN room' = Sides /\ DOMAIN data' = Sides /\ DOMAIN off' = Sides
    <3>1. CASE off[s] + n >= Len(data[s])
      BY <1>2, <2>3, <2>4, <2>5, <3>1
    <3>2. CASE ~(off[s] + n >= Len(data[s]))
      BY <1>2, <2>3, <2>4, <2>5, <3>2
    <3> QED BY <3>1, <3>2
  <2>7. FlowsKept'
    BY <1>1, <2>6, OneFlowMoves
  <2>8. room'[s] \in Seq(Nat) /\ data'[s] \in Seq(Nat) /\ off'[s] \in Nat
    <3>1. room'[s] \in Seq(Nat) /\ data'[s] \in Seq(Nat) /\ off'[s] \in 0..Len(data'[s])
      BY <2>6 DEF Flow, Arrived, Pending, Run
    <3> QED BY <3>1
  <2>9. room' \in [Sides -> Seq(Nat)] /\ data' \in [Sides -> Seq(Nat)] /\ off' \in [Sides -> Nat]
    <3>1. CASE off[s] + n >= Len(data[s])
      BY <1>2, <2>4, <2>5, <2>8, <3>1
    <3>2. CASE ~(off[s] + n >= Len(data[s]))
      BY <1>2, <2>4, <2>5, <2>8, <3>2
    <3> QED BY <3>1, <3>2
  <2>10. CauseKnown' /\ StreamsHere'
    BY <1>1, <1>5 DEF RelayInv, CauseKnown, StreamsHere, Looping
  <2>11. ClosedSideDrained'
    BY <1>1, <1>5 DEF RelayInv, ClosedSideDrained, Sides
  <2>12. TypeOK'
    BY <1>1, <1>5, <2>9 DEF RelayInv, TypeOK, Looping
  <2> QED BY <2>7, <2>10, <2>11, <2>12 DEF RelayInv
<1> QED BY <1>4, <1>5 DEF Write, Break

LEMMA ReadStep ==
    ASSUME RelayInv, NEW s \in Sides, NEW here \in Looping, NEW next \in Looping, Read(s, here, next)
    PROVE  RelayInv'
<1>1. /\ at = here /\ at # "done" /\ at # "closing" /\ cause = "none"
      /\ UNCHANGED <<listen_mode, use_tls, streams, closed, speaks_tls, hello, sent, room, got, eof, gone>>
  BY DEF Read, RelayInv, CauseKnown, Looping
<1>2. /\ data \in [Sides -> Seq(Nat)] /\ off \in [Sides -> Nat] /\ room \in [Sides -> Seq(Nat)]
      /\ got \in [Sides -> Seq(Nat)] /\ wire \in [Sides -> Seq(Nat)] /\ sent \in [Sides -> Nat]
  BY DEF RelayInv, TypeOK
<1>3. Flow(got[s], room[s], data[s], off[s], wire[s], sent[s])
  BY <1>1 DEF RelayInv, FlowsKept, Flow
<1>4. CASE /\ UNCHANGED <<data, off, progress, wire>>
           /\ \/ at' = next /\ cause' = cause
              \/ at' = "closing" /\ cause' = "error"
              \/ at' = "closing" /\ cause' = s /\ MayRead(s) /\ wire[s] = << >> /\ eof[s]
  <2>1. FlowsKept'
    BY <1>1, <1>3, <1>4, OneFlowMoves
  <2>2. CauseKnown' /\ StreamsHere'
    BY <1>1, <1>4 DEF RelayInv, CauseKnown, StreamsHere, Looping
  <2>3. ClosedSideDrained'
    BY <1>1, <1>4 DEF RelayInv, ClosedSideDrained, Sides, MayRead, BufferEmpty
  <2>4. TypeOK'
    BY <1>1, <1>4 DEF RelayInv, TypeOK, Looping
  <2> QED BY <2>1, <2>2, <2>3, <2>4 DEF RelayInv
<1>5. CASE /\ MayRead(s)
           /\ \E n \in 1..Smaller(BufferSize, Len(wire[s])) :
                 /\ data' = [data EXCEPT ![s] = SubSeq(wire[s], 1, n)]
                 /\ wire' = [wire EXCEPT ![s] = SubSeq(wire[s], n + 1, Len(wire[s]))]
           /\ off' = [off EXCEPT ![s] = 0]
           /\ progress' = TRUE /\ at' = next /\ UNCHANGED cause
  <2>1. PICK n \in 1..Smaller(BufferSize, Len(wire[s])) :
                 /\ data' = [data EXCEPT ![s] = SubSeq(wire[s], 1, n)]
                 /\ wire' = [wire EXCEPT ![s] = SubSeq(wire[s], n + 1, Len(wire[s]))]
    BY <1>5
  <2>2. n \in 1..Len(wire[s])
    <3>1. Len(wire[s]) \in Nat /\ BufferSize \in Nat
      BY <1>2, ProxyAssumption
    <3> QED BY <3>1 DEF Smaller
  <2> DEFINE b == SubSeq(wire[s], 1, n)
             v == SubSeq(wire[s], n + 1, Len(wire[s]))
  <2>3. Flow(got[s], room[s], b, 0, v, sent[s])
    BY <1>3, <1>5, <2>2, FlowRead DEF MayRead, BufferEmpty
  <2>4. data' = [data EXCEPT ![s] = b] /\ wire' = [wire EXCEPT ![s] = v] /\ off' = [off EXCEPT ![s] = 0]
    BY <1>5, <2>1
  <2> HIDE DEF b, v
  <2>5. b \in Seq(Nat) /\ v \in Seq(Nat)
    BY <2>3 DEF Flow, Pending, Run
  <2>6. data' \in [Sides -> Seq(Nat)] /\ wire' \in [Sides -> Seq(Nat)] /\ off' \in [Sides -> Nat]
    BY <1>2, <2>4, <2>5
  <2>7. /\ data'[s] = b /\ wire'[s] = v /\ off'[s] = 0
        /\ \A t \in Sides \ {s} : data'[t] = data[t] /\ wire'[t] = wire[t] /\ off'[t] = off[t]
    BY <1>2, <2>4
  <2>8. FlowsKept'
    BY <1>1, <2>3, <2>7, OneFlowMoves
  <2>9. CauseKnown' /\ StreamsHere'
    BY <1>1, <1>5 DEF RelayInv, CauseKnown, StreamsHere, Looping
  <2>10. ClosedSideDrained'
    BY <1>1, <1>5 DEF RelayInv, ClosedSideDrained, Sides
  <2>11. TypeOK'
    BY <1>1, <1>5, <2>6 DEF RelayInv, TypeOK, Looping
  <2> QED BY <2>8, <2>9, <2>10, <2>11 DEF RelayInv
<1> QED BY <1>4, <1>5 DEF Read, Break

LEMMA PeersStep == ASSUME RelayInv, Peers PROVE RelayInv'
<1>0. /\ data \in [Sides -> Seq(Nat)] /\ off \in [Sides -> Nat] /\ room \in [Sides -> Seq(Nat)]
      /\ got \in [Sides -> Seq(Nat)] /\ wire \in [Sides -> Seq(Nat)] /\ sent \in [Sides -> Nat]
      /\ eof \in [Sides -> BOOLEAN] /\ gone \in [Sides -> BOOLEAN]
  BY DEF RelayInv, TypeOK
<1>1. UNCHANGED <<at, listen_mode, use_tls, data, off, progress, streams, closed, cause>> /\ UNCHANGED speaks_tls
  BY DEF Peers, ClientHello, PeerSend, PeerReceive, PeerClose, PeerReset, thread
<1>2. CauseKnown' /\ StreamsHere'
  BY <1>1 DEF RelayInv, CauseKnown, StreamsHere
<1>3. CASE ClientHello
  <2>1. hello' = TRUE /\ UNCHANGED <<sent, wire, room, got, eof, gone>>
    BY <1>3 DEF ClientHello
  <2>2. FlowsKept'
    BY <1>1, <2>1 DEF RelayInv, FlowsKept
  <2>3. ClosedSideDrained'
    BY <1>1, <2>1 DEF RelayInv, ClosedSideDrained, BufferEmpty
  <2>4. TypeOK'
    BY <1>1, <2>1 DEF RelayInv, TypeOK, Looping
  <2> QED BY <1>2, <2>2, <2>3, <2>4 DEF RelayInv
<1>4. ASSUME NEW s \in Sides, PeerSend(s) PROVE RelayInv'
  <2>1. /\ s \in streams /\ ~eof[s] /\ sent' = [sent EXCEPT ![s] = sent[s] + 1]
        /\ wire' = [wire EXCEPT ![s] = Append(wire[s], sent[s] + 1)]
        /\ UNCHANGED <<hello, room, got, eof, gone>>
    BY <1>4 DEF PeerSend, Connected
  <2>2. at # "done"
    BY <2>1 DEF RelayInv, StreamsHere
  <2>3. Flow(got[s], room[s], data[s], off[s], wire[s], sent[s])
    BY <2>2 DEF RelayInv, FlowsKept, Flow
  <2> DEFINE v == Append(wire[s], sent[s] + 1)
  <2>4. Flow(got[s], room[s], data[s], off[s], v, sent[s] + 1)
    BY <2>3, FlowSend
  <2>5. v \in Seq(Nat) /\ sent[s] + 1 \in Nat
    BY <1>0
  <2> HIDE DEF v
  <2>6. wire' = [wire EXCEPT ![s] = v]
    BY <2>1 DEF v
  <2>7. /\ wire' \in [Sides -> Seq(Nat)] /\ sent' \in [Sides -> Nat]
        /\ wire'[s] = v /\ sent'[s] = sent[s] + 1
        /\ \A t \in Sides \ {s} : wire'[t] = wire[t] /\ sent'[t] = sent[t]
    BY <1>0, <2>1, <2>5, <2>6
  <2>8. FlowsKept'
    BY <1>1, <2>1, <2>2, <2>4, <2>7, OneFlowMoves
  <2>9. ClosedSideDrained'
    <3>1. ASSUME NEW t \in Sides, cause = t PROVE t # s
      BY <2>1, <3>1 DEF RelayInv, ClosedSideDrained
    <3> QED BY <1>1, <2>1, <2>7, <3>1 DEF RelayInv, ClosedSideDrained, BufferEmpty
  <2>10. TypeOK'
    BY <1>1, <2>1, <2>7 DEF RelayInv, TypeOK, Looping
  <2> QED BY <1>2, <2>8, <2>9, <2>10 DEF RelayInv
<1>5. ASSUME NEW s \in Sides, PeerReceive(s) PROVE RelayInv'
  <2> DEFINE h == Append(got[s], Head(room[s]))
             t == Tail(room[s])
  <2>1. /\ room[s] # << >> /\ got' = [got EXCEPT ![s] = h] /\ room' = [room EXCEPT ![s] = t]
        /\ UNCHANGED <<hello, sent, wire, eof, gone>>
    BY <1>5 DEF PeerReceive
  <2>2. Arrived(got[s], room[s], sent[s])
    BY DEF RelayInv, FlowsKept
  <2>3. Arrived(h, t, sent[s]) /\ Len(h) + Len(t) = Len(got[s]) + Len(room[s])
    BY <2>1, <2>2, FlowReceive
  <2> HIDE DEF h, t
  <2>4. h \in Seq(Nat) /\ t \in Seq(Nat)
    BY <2>3 DEF Arrived, Run
  <2>5. /\ got' \in [Sides -> Seq(Nat)] /\ room' \in [Sides -> Seq(Nat)]
        /\ got'[s] = h /\ room'[s] = t
        /\ \A x \in Sides \ {s} : got'[x] = got[x] /\ room'[x] = room[x]
    BY <1>0, <2>1, <2>4
  <2>6. FlowsKept'
    <3>1. ASSUME NEW x \in Sides
          PROVE  /\ Arrived(got'[x], room'[x], sent[x])
                 /\ at # "done" => Pending(got'[x], room'[x], data[x], off[x], wire[x], sent[x])
      <4>1. CASE x # s
        BY <2>5, <4>1 DEF RelayInv, FlowsKept
      <4>2. CASE x = s
        <5>1. at # "done" => Pending(got[s], room[s], data[s], off[s], wire[s], sent[s])
          BY DEF RelayInv, FlowsKept
        <5>2. at # "done" => Pending(h, t, data[s], off[s], wire[s], sent[s])
          BY <2>3, <5>1 DEF Pending
        <5> QED BY <2>3, <2>5, <4>2, <5>2
      <4> QED BY <4>1, <4>2
    <3> QED BY <1>1, <2>1, <3>1 DEF FlowsKept
  <2>7. ClosedSideDrained'
    BY <1>1, <2>1 DEF RelayInv, ClosedSideDrained, BufferEmpty
  <2>8. TypeOK'
    BY <1>1, <2>1, <2>5 DEF RelayInv, TypeOK, Looping
  <2> QED BY <1>2, <2>6, <2>7, <2>8 DEF RelayInv
<1>6. ASSUME NEW s \in Sides, PeerClose(s) PROVE RelayInv'
  <2>1. /\ eof' = [eof EXCEPT ![s] = TRUE] /\ gone' \in [Sides -> BOOLEAN]
        /\ UNCHANGED <<hello, sent, wire, room, got>>
    BY <1>0, <1>6 DEF PeerClose
  <2>2. FlowsKept'
    BY <1>1, <2>1 DEF RelayInv, FlowsKept
  <2>3. ClosedSideDrained'
    BY <1>0, <1>1, <2>1 DEF RelayInv, ClosedSideDrained, BufferEmpty
  <2>4. TypeOK'
    BY <1>0, <1>1, <2>1 DEF RelayInv, TypeOK, Looping
  <2> QED BY <1>2, <2>2, <2>3, <2>4 DEF RelayInv
<1>7. ASSUME NEW s \in Sides, PeerReset(s) PROVE RelayInv'
  <2> DEFINE e == << >>
  <2>1. /\ at = "done" /\ room' = [room EXCEPT ![Other(s)] = e] /\ Other(s) \in Sides
        /\ UNCHANGED <<hello, sent, wire, got, eof, gone>>
    BY <1>7 DEF PeerReset, Other, Sides
  <2>2. e \in Seq(Nat) /\ Len(e) = 0
    OBVIOUS
  <2> HIDE DEF e
  <2>3. /\ room' \in [Sides -> Seq(Nat)] /\ room'[Other(s)] = e
        /\ \A x \in Sides \ {Other(s)} : room'[x] = room[x]
    BY <1>0, <2>1, <2>2
  <2>4. ASSUME NEW x \in Sides PROVE Arrived(got[x], room'[x], sent[x])
    <3>1. CASE x # Other(s)
      BY <2>3, <3>1 DEF RelayInv, FlowsKept
    <3>2. CASE x = Other(s)
      <4>1. Arrived(got[x], room[x], sent[x]) /\ room[x] \in Seq(Nat) /\ got[x] \in Seq(Nat)
        BY <1>0 DEF RelayInv, FlowsKept
      <4>2. Len(room[x]) \in Nat /\ Len(got[x]) \in Nat /\ sent[x] \in Nat
            /\ Len(got[x]) + Len(room[x]) <= sent[x] /\ Run(got[x], 0, Len(got[x]))
        BY <1>0, <4>1 DEF Arrived
      <4>3. Len(got[x]) + Len(e) <= sent[x]
        <5>1. \A a, b, c \in Nat : a + b <= c => a + 0 <= c
          OBVIOUS
        <5> QED BY <2>2, <4>2, <5>1
      <4>4. Run(e, Len(got[x]), Len(e))
        BY <2>2 DEF Run
      <4>5. Arrived(got[x], e, sent[x])
        BY <4>2, <4>3, <4>4 DEF Arrived
      <4> QED BY <2>3, <3>2, <4>5
    <3> QED BY <3>1, <3>2
  <2>5. FlowsKept'
    BY <1>1, <2>1, <2>4 DEF FlowsKept
  <2>6. ClosedSideDrained'
    BY <1>1, <2>1 DEF RelayInv, ClosedSideDrained, BufferEmpty
  <2>7. TypeOK'
    BY <1>1, <2>1, <2>3 DEF RelayInv, TypeOK, Looping
  <2> QED BY <1>2, <2>5, <2>6, <2>7 DEF RelayInv
<1> QED BY <1>3, <1>4, <1>5, <1>6, <1>7 DEF Peers

-----------------------------------------------------------------------------
LEMMA NextRelayInv == RelayInv /\ [Next]_vars => RelayInv'
<1> SUFFICES ASSUME RelayInv, [Next]_vars PROVE RelayInv'
  OBVIOUS
<1>1. CASE Thread
  <2>1. /\ "to_upstream" \in Looping /\ "to_client" \in Looping /\ "from_client" \in Looping
        /\ "from_upstream" \in Looping /\ "select" \in Looping
        /\ "client" \in Sides /\ "upstream" \in Sides
    BY DEF Looping, Sides
  <2>2. CASE Write("client", "to_upstream", "to_client") \/ Write("upstream", "to_client", "from_client")
    BY <2>1, <2>2, WriteStep
  <2>3. CASE Read("client", "from_client", "from_upstream") \/ Read("upstream", "from_upstream", "select")
    BY <2>1, <2>3, ReadStep
  <2> QED BY <1>1, <2>2, <2>3, ThreadOpens, NextIterationStep DEF Thread
<1>2. CASE Peers
  BY <1>2, PeersStep
<1>3. CASE UNCHANGED vars
  <2>1. /\ UNCHANGED <<at, listen_mode, use_tls, data, off, progress, streams, closed, cause>>
        /\ UNCHANGED <<speaks_tls, hello, sent, wire, room, got, eof, gone>>
    BY <1>3 DEF vars, thread, peers
  <2>2. FlowsKept'
    BY <2>1 DEF RelayInv, FlowsKept
  <2>3. CauseKnown' /\ StreamsHere' /\ ClosedSideDrained'
    BY <2>1 DEF RelayInv, CauseKnown, StreamsHere, ClosedSideDrained, BufferEmpty
  <2>4. TypeOK'
    BY <2>1 DEF RelayInv, TypeOK, Looping
  <2> QED BY <2>2, <2>3, <2>4 DEF RelayInv
<1> QED BY <1>1, <1>2, <1>3 DEF Next, Resting

(* The invariant holds of every state of a connection. *)
THEOREM RelayInvariant == Spec => []RelayInv
BY InitRelayInv, NextRelayInv, PTL DEF Spec

(* For every size of the buffers and of the sockets, and however the two   *)
(* sides send, receive and leave: client_thread loses, repeats and swaps   *)
(* no byte while the connection is up, ends the loop on a close only when  *)
(* the closed side is drained, and closes every stream it opened once.     *)
THEOREM RelayIsSound == Spec => []RelaySound
<1>1. ASSUME RelayInv PROVE NothingLostWhileOpen
  <2> SUFFICES ASSUME at # "done", NEW s \in Sides
               PROVE  got[s] \o room[s] \o Rest(s) \o wire[s] = [i \in 1..sent[s] |-> i]
    BY DEF NothingLostWhileOpen
  <2>1. Flow(got[s], room[s], data[s], off[s], wire[s], sent[s])
    BY <1>1 DEF RelayInv, FlowsKept, Flow
  <2> QED BY <2>1, FlowWhole DEF Rest
<1>2. ASSUME RelayInv PROVE StreamsClosedOnce
  BY <1>2 DEF RelayInv, StreamsHere, StreamsClosedOnce
<1>3. RelayInv => RelaySound
  BY <1>1, <1>2 DEF RelaySound, RelayInv
<1> QED BY <1>3, RelayInvariant, PTL

(* The proxy implements the pair of byte streams: every step sends a byte, *)
(* delivers the next one, or is a step of neither stream.                  *)
THEOREM ProxyForwardsBytes == Spec => ForwardsBytes
<1>1. Init => Streams!Init
  BY DEF Init, Streams!Init
<1>2. ASSUME RelayInv, [Next]_vars PROVE [Streams!Next]_<<sent, got>>
  <2>0. sent \in [Sides -> Nat] /\ got \in [Sides -> Seq(Nat)]
    BY <1>2 DEF RelayInv, TypeOK
  <2>1. ASSUME NEW s \in Sides, PeerSend(s) PROVE Streams!Next
    <3>1. Streams!Send(s)
      BY <2>1 DEF PeerSend, Streams!Send
    <3> QED BY <3>1 DEF Streams!Next
  <2>2. ASSUME NEW s \in Sides, PeerReceive(s) PROVE Streams!Next
    <3>1. room[s] # << >> /\ got' = [got EXCEPT ![s] = Append(got[s], Head(room[s]))] /\ sent' = sent
      BY <2>2 DEF PeerReceive
    <3>2. Head(room[s]) = Len(got[s]) + 1 /\ Len(got[s]) < sent[s]
      BY <1>2, <3>1, FlowReceive DEF RelayInv, FlowsKept
    <3>3. Streams!Deliver(s)
      BY <3>1, <3>2 DEF Streams!Deliver
    <3> QED BY <3>3 DEF Streams!Next
  <2>3. CASE Thread
    BY <2>3 DEF Thread, ClientUsesTls, StreamOpenClient, StreamOpenUpstream, ConnectFailed, Write, Read,
                NextIteration, CloseBoth, peers
  <2>4. CASE ClientHello \/ \E s \in Sides : PeerClose(s) \/ PeerReset(s)
    BY <2>4 DEF ClientHello, PeerClose, PeerReset
  <2>5. CASE UNCHANGED vars
    BY <2>5 DEF vars, peers
  <2> QED BY <1>2, <2>1, <2>2, <2>3, <2>4, <2>5 DEF Next, Peers, Resting
<1>3. QED BY <1>1, <1>2, RelayInvariant, PTL DEF Spec, ForwardsBytes, Streams!Spec
=============================================================================
