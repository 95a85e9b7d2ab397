--------------------------- MODULE GpuScanProofs ---------------------------
(***************************************************************************)
(* Proofs about GpuScan, for every kernel, group size, number of nonces    *)
(* and size of the result buffer, and for any interleaving of any number   *)
(* of work-items: the grid covers the range once, a scan reports what it   *)
(* found, and a self-test that passes has seen every hash.                 *)
(***************************************************************************)
EXTENDS GpuScan, FiniteSetTheorems, SequenceTheorems, WellFoundedInduction, TLAPS

-----------------------------------------------------------------------------
(* The grid.                                                               *)

LEMMA QuotientFacts ==
    ASSUME NEW n \in Nat, NEW p \in Nat \ {0}
    PROVE  n \div p \in Nat /\ (n \div p) * p <= n /\ n < (n \div p) * p + p
OBVIOUS

LEMMA TimesOrder ==
    ASSUME NEW g \in Nat, NEW h \in Nat, NEW p \in Nat \ {0}, g < h
    PROVE  g * p + p <= h * p
<1>1. PICK d \in Nat : h = g + 1 + d
  <2>1. h - (g + 1) \in Nat /\ h = g + 1 + (h - (g + 1))
    OBVIOUS
  <2> QED BY <2>1
<1>2. h * p = g * p + p + d * p
  BY <1>1
<1>3. d * p \in Nat /\ g * p \in Nat
  OBVIOUS
<1> QED BY <1>2, <1>3

LEMMA SmallWord ==
    ASSUME NEW x \in Nat, x < Word
    PROVE  U32(x) = x
BY ScanAssumption DEF U32

(* Enough work-items for the range, fewer than a group too many, and the   *)
(* host and the "bounded" kernel agree on their number.                    *)
LEMMA GridFacts ==
    ASSUME NEW c \in Nat \ {0}, NEW p \in Nat \ {0}, NEW s \in Nat \ {0}
    PROVE  LET W == WorkItems(c, p)
               G == Global(c, p, s)
           IN  /\ W \in Nat \ {0} /\ W = ((c - 1) \div p) + 1 /\ W <= c
               /\ (W - 1) * p < c /\ c <= W * p
               /\ G \in Nat /\ W <= G /\ G <= W + s - 1
<1> DEFINE W == WorkItems(c, p)
           G == Global(c, p, s)
           q == (c - 1) \div p
           r == (W + s - 1) \div s
<1>1. q \in Nat /\ q * p <= c - 1 /\ c - 1 < q * p + p
  BY QuotientFacts
<1>2. W \in Nat /\ W * p <= c + p - 1 /\ c + p - 1 < W * p + p
  <2>1. c + p - 1 \in Nat
    OBVIOUS
  <2> QED BY <2>1, QuotientFacts DEF WorkItems
<1> HIDE DEF q, W
<1>3. (q + 1) * p = q * p + p /\ q * p \in Nat /\ W * p \in Nat
  BY <1>1, <1>2
<1>4. W = q + 1
  <2>1. ASSUME W < q + 1 PROVE FALSE
    <3>1. W * p + p <= (q + 1) * p
      BY <1>1, <1>2, <2>1, TimesOrder
    <3> QED BY <1>1, <1>2, <1>3, <3>1
  <2>2. ASSUME q + 1 < W PROVE FALSE
    <3>1. (q + 1) * p + p <= W * p
      BY <1>1, <1>2, <2>2, TimesOrder
    <3> QED BY <1>1, <1>2, <1>3, <3>1
  <2> QED BY <1>1, <1>2, <2>1, <2>2
<1>5. q <= q * p
  BY <1>1
<1>6. W \in Nat \ {0} /\ W <= c /\ (W - 1) * p < c /\ c <= W * p
  <2>1. W - 1 = q /\ W * p = q * p + p
    BY <1>1, <1>3, <1>4
  <2> QED BY <1>1, <1>3, <1>4, <1>5, <2>1
<1>7. r \in Nat /\ r * s <= W + s - 1 /\ W + s - 1 < r * s + s
  <2>1. W + s - 1 \in Nat
    BY <1>6
  <2> QED BY <2>1, QuotientFacts
<1>8. G = r * s
  BY DEF Global, W
<1> HIDE DEF r, G
<1>9. r * s \in Nat
  BY <1>7
<1>10. G \in Nat /\ W <= G /\ G <= W + s - 1
  BY <1>6, <1>7, <1>8, <1>9
<1> QED BY <1>4, <1>6, <1>10 DEF W, G, q

(* The nonces of a work-item of any kernel, when no number of the grid     *)
(* passes the width of a word.                                             *)
Stretch(g, p, c) == {n \in 0..(c - 1) : g * p <= n /\ n < g * p + p}

LEMMA OffsetsFacts ==
    ASSUME NEW k \in KernelRecord, NEW c \in Nat \ {0}, NEW s \in Nat \ {0},
           NEW g \in 0..(Global(c, k.npi, s) - 1), Global(c, k.npi, s) * k.npi < Word
    PROVE  Offsets(k, g, c) = Stretch(g, k.npi, c)
<1> DEFINE p == k.npi
           W == WorkItems(c, p)
           b == g * p
<1>1. p \in Nat \ {0} /\ k.kind \in {"bounded", "ranged", "clipped", "fixed"} /\ Word \in Nat
  BY ScanAssumption DEF KernelRecord
<1>2. /\ W \in Nat \ {0} /\ W = ((c - 1) \div p) + 1
      /\ (W - 1) * p < c /\ c <= W * p
      /\ g \in Nat
  <2>1. /\ W \in Nat \ {0} /\ W = ((c - 1) \div p) + 1
        /\ (W - 1) * p < c /\ c <= W * p /\ Global(c, p, s) \in Nat
    BY <1>1, GridFacts
  <2> HIDE DEF W
  <2> QED BY <2>1
<1>3. b \in Nat /\ b + p < Word /\ g < Word /\ W < Word
  <2> DEFINE G == Global(c, p, s)
  <2>5. G \in Nat /\ W <= G /\ g \in 0..(G - 1)
    BY <1>1, GridFacts
  <2>2. G * p < Word
    OBVIOUS
  <2> HIDE DEF G, W, p
  <2>1. G \in Nat /\ W <= G /\ g < G
    BY <1>2, <2>5
  <2>3. g * p + p <= G * p /\ g * p \in Nat /\ G * p \in Nat
    BY <1>1, <1>2, <2>1, TimesOrder
  <2>4. G <= G * p
    BY <1>1, <2>1
  <2> QED BY <1>1, <1>2, <2>1, <2>2, <2>3, <2>4
<1> HIDE DEF p, W
<1> HIDE DEF b
<1>4. Base(k, g) = b
  BY <1>1, <1>3, SmallWord DEF Base, b, p
<1>5. \A i \in 0..p : U32(b + i) = b + i
  BY <1>1, <1>3, SmallWord
<1>6. Limit(k, g, c) = IF b + p > c THEN c - b ELSE p
  BY <1>1, <1>4, <1>5 DEF Limit, p
<1>7. ASSUME b < c
      PROVE  LET L == IF b + p > c THEN c - b ELSE p
             IN  {U32(Base(k, g) + i) : i \in 0..(L - 1)} = Stretch(g, p, c)
  <2> DEFINE L == IF b + p > c THEN c - b ELSE p
  <2>1. L \in 1..p /\ L \in Nat
    BY <1>1, <1>3, <1>7
  <2>2. \A n \in Int : n \in Stretch(g, p, c) <=> b <= n /\ n < b + L
    BY <1>1, <1>3, <1>7 DEF Stretch, b
  <2> HIDE DEF L
  <2>3. \A i \in 0..(L - 1) : U32(b + i) = b + i
    BY <1>1, <1>5, <2>1
  <2>4. {U32(b + i) : i \in 0..(L - 1)} = {b + i : i \in 0..(L - 1)}
    BY <2>3
  <2>5. ASSUME NEW n PROVE n \in {b + i : i \in 0..(L - 1)} <=> n \in Stretch(g, p, c)
    <3>1. ASSUME NEW i \in 0..(L - 1) PROVE b + i \in Stretch(g, p, c)
      BY <1>3, <2>1, <2>2
    <3>2. ASSUME n \in Stretch(g, p, c) PROVE \E i \in 0..(L - 1) : n = b + i
      <4>1. n \in Int
        BY <3>2 DEF Stretch
      <4>2. n - b \in 0..(L - 1) /\ n = b + (n - b)
        BY <1>3, <2>1, <2>2, <3>2, <4>1
      <4> QED BY <4>2
    <3> QED BY <3>1, <3>2
  <2> QED BY <1>4, <2>4, <2>5 DEF L
<1>8. ASSUME b >= c PROVE Stretch(g, p, c) = {}
  BY <1>1, <1>3, <1>8 DEF Stretch, b
<1>9. CASE k.kind = "bounded"
  <2>1. U32(g) = g /\ U32(((c - 1) \div k.npi) + 1) = W
    BY <1>2, <1>3, SmallWord DEF p
  <2>2. g >= W => b >= c
    <3>1. ASSUME W < g PROVE W * p + p <= g * p
      BY <1>1, <1>2, <3>1, TimesOrder
    <3>2. W * p \in Nat
      BY <1>1, <1>2
    <3> QED BY <1>1, <1>2, <3>1, <3>2 DEF b
  <2>3. g < W => b < c
    <3>1. ASSUME g < W - 1 PROVE g * p + p <= (W - 1) * p
      BY <1>1, <1>2, <3>1, TimesOrder
    <3>2. (W - 1) * p \in Nat
      BY <1>1, <1>2
    <3> QED BY <1>1, <1>2, <3>1, <3>2 DEF b
  <2>4. BoundedOffsets(k, g, c) = Stretch(g, p, c)
    BY <1>2, <1>3, <1>6, <1>7, <1>8, <2>1, <2>2, <2>3 DEF BoundedOffsets
  <2> QED BY <1>9, <2>4 DEF Offsets, p
<1>10. CASE k.kind = "ranged"
  <2>1. RangedOffsets(k, g, c) = Stretch(g, p, c)
    BY <1>3, <1>4, <1>6, <1>7, <1>8 DEF RangedOffsets
  <2> QED BY <1>10, <2>1 DEF Offsets, p
<1>12. CASE k.kind = "clipped"
  <2> DEFINE left  == c - Base(k, g)
             limit == IF left > k.npi THEN k.npi ELSE left
  <2>1. Base(k, g) < c => limit = IF b + p > c THEN c - b ELSE p
    BY <1>1, <1>3, <1>4 DEF p
  <2>2. ClippedOffsets(k, g, c) =
          IF Base(k, g) >= c THEN {} ELSE {U32(Base(k, g) + i) : i \in 0..(limit - 1)}
    BY DEF ClippedOffsets
  <2> HIDE DEF limit
  <2>3. ClippedOffsets(k, g, c) = Stretch(g, p, c)
    BY <1>3, <1>4, <1>7, <1>8, <2>1, <2>2
  <2> QED BY <1>12, <2>3 DEF Offsets, p
<1>11. CASE k.kind = "fixed"
  <2>1. {U32(Base(k, g) + i) : i \in 0..(k.npi - 1)} = {b + i : i \in 0..(p - 1)}
    <3>1. \A i \in 0..(p - 1) : U32(Base(k, g) + i) = b + i
      BY <1>1, <1>4, <1>5
    <3> QED BY <3>1 DEF p
  <2>2. FixedOffsets(k, g, c) = {n \in {b + i : i \in 0..(p - 1)} : b < c /\ n < c}
    BY <1>4, <2>1 DEF FixedOffsets
  <2>3. ASSUME NEW n PROVE n \in FixedOffsets(k, g, c) <=> n \in Stretch(g, p, c)
    <3>1. ASSUME NEW i \in 0..(p - 1), b + i < c PROVE b + i \in Stretch(g, p, c)
      BY <1>1, <1>3, <3>1 DEF Stretch, b
    <3>2. ASSUME n \in Stretch(g, p, c)
          PROVE  n < c /\ b < c /\ \E i \in 0..(p - 1) : n = b + i
      <4>1. n \in 0..(c - 1) /\ b <= n /\ n < b + p
        BY <3>2 DEF Stretch, b
      <4>2. n - b \in 0..(p - 1) /\ n = b + (n - b)
        BY <1>1, <1>3, <4>1
      <4> QED BY <1>3, <4>1, <4>2
    <3> QED BY <2>2, <3>1, <3>2
  <2> QED BY <1>11, <2>3 DEF Offsets, p
<1> QED BY <1>1, <1>9, <1>10, <1>11, <1>12 DEF p

(* The stretches of the work-items are the range, each nonce in one. *)
LEMMA StretchesCover ==
    ASSUME NEW p \in Nat \ {0}, NEW c \in Nat \ {0}, NEW s \in Nat \ {0}, NEW n \in 0..(c - 1)
    PROVE  \E g \in 0..(Global(c, p, s) - 1) : n \in Stretch(g, p, c)
<1> DEFINE W == WorkItems(c, p)
           g == n \div p
<1>1. g \in Nat /\ g * p <= n /\ n < g * p + p
  BY QuotientFacts
<1>2. W \in Nat \ {0} /\ c <= W * p /\ W <= Global(c, p, s) /\ Global(c, p, s) \in Nat
  BY GridFacts
<1> HIDE DEF W, g
<1>3. g < W
  <2>1. ASSUME W <= g PROVE FALSE
    <3>1. W * p <= g * p
      <4>1. CASE W = g
        BY <1>1, <4>1
      <4>2. CASE W < g
        <5>1. W * p + p <= g * p
          BY <1>1, <1>2, <4>2, TimesOrder
        <5>2. W * p \in Nat /\ g * p \in Nat
          BY <1>1, <1>2
        <5> QED BY <5>1, <5>2
      <4> QED BY <1>1, <1>2, <2>1, <4>1, <4>2
    <3>2. W * p \in Nat /\ g * p \in Nat
      BY <1>1, <1>2
    <3> QED BY <1>1, <1>2, <3>1, <3>2
  <2> QED BY <1>1, <1>2, <2>1
<1>4. g \in 0..(Global(c, p, s) - 1) /\ n \in Stretch(g, p, c)
  BY <1>1, <1>2, <1>3 DEF Stretch
<1> QED BY <1>4

LEMMA StretchesApart ==
    ASSUME NEW p \in Nat \ {0}, NEW c \in Nat \ {0}, NEW g \in Nat, NEW h \in Nat, g # h
    PROVE  Stretch(g, p, c) \cap Stretch(h, p, c) = {}
<1>1. ASSUME g < h PROVE Stretch(g, p, c) \cap Stretch(h, p, c) = {}
  <2>1. g * p + p <= h * p /\ g * p \in Nat /\ h * p \in Nat
    BY <1>1, TimesOrder
  <2> QED BY <2>1 DEF Stretch
<1>2. ASSUME h < g PROVE Stretch(g, p, c) \cap Stretch(h, p, c) = {}
  <2>1. h * p + p <= g * p /\ g * p \in Nat /\ h * p \in Nat
    BY <1>2, TimesOrder
  <2> QED BY <2>1 DEF Stretch
<1> QED BY <1>1, <1>2

(* No nonce of a range is missed, even if words wrap: the work-item whose  *)
(* stretch it is computes its base and its limit from numbers that fit.    *)
LEMMA StretchHashed ==
    ASSUME NEW k \in KernelRecord, NEW c \in Nat \ {0}, c < Word,
           NEW g \in Nat, NEW n \in Stretch(g, k.npi, c)
    PROVE  n \in Offsets(k, g, c)
<1> DEFINE p == k.npi
           W == WorkItems(c, p)
           b == g * p
           i == n - b
<1>1. p \in Nat \ {0} /\ k.kind \in {"bounded", "ranged", "clipped", "fixed"} /\ Word \in Nat \ {0}
  BY ScanAssumption DEF KernelRecord
<1>2. n \in 0..(c - 1) /\ b <= n /\ n < b + p /\ b \in Nat /\ g <= b
  <2> HIDE DEF p
  <2>1. g * p \in Nat /\ g <= g * p
    BY <1>1
  <2> QED BY <2>1 DEF Stretch, p
<1>3. W \in Nat \ {0} /\ W = ((c - 1) \div p) + 1 /\ W <= c /\ c <= W * p
  BY <1>1, GridFacts
<1> HIDE DEF p, W
<1>4. g < W
  <2> SUFFICES ASSUME W <= g PROVE FALSE
    BY <1>3
  <2>1. W * p <= g * p
    <3>1. CASE W = g
      BY <1>1, <3>1
    <3>2. CASE W < g
      <4>1. W * p + p <= g * p /\ W * p \in Nat
        BY <1>1, <1>3, <3>2, TimesOrder
      <4> QED BY <1>1, <1>2, <4>1
    <3> QED BY <1>3, <3>1, <3>2
  <2>2. W * p \in Nat
    BY <1>1, <1>3
  <2> QED BY <1>1, <1>2, <1>3, <2>1, <2>2
<1> HIDE DEF b
<1>5. Base(k, g) = b /\ b < c
  BY <1>1, <1>2, SmallWord DEF Base, b, p
<1>6. i \in Nat /\ i < p /\ i < c - b /\ b + i = n /\ U32(b + i) = n
  BY <1>1, <1>2, SmallWord
<1> HIDE DEF i
<1>7. Limit(k, g, c) \in {c - b, p} /\ i \in 0..(Limit(k, g, c) - 1)
  <2>1. Limit(k, g, c) \in {c - b, p}
    BY <1>5 DEF Limit, p
  <2> QED BY <1>1, <1>2, <1>6, <2>1
<1>8. n \in {U32(Base(k, g) + j) : j \in 0..(Limit(k, g, c) - 1)}
  BY <1>5, <1>6, <1>7
<1>9. CASE k.kind = "bounded"
  <2>1. U32(g) = g /\ U32(((c - 1) \div k.npi) + 1) = W
    BY <1>1, <1>2, <1>3, SmallWord DEF p
  <2> QED BY <1>2, <1>3, <1>4, <1>8, <1>9, <2>1 DEF Offsets, BoundedOffsets
<1>10. CASE k.kind = "ranged"
  BY <1>2, <1>5, <1>8, <1>10 DEF Offsets, RangedOffsets
<1>11. CASE k.kind = "clipped"
  <2> DEFINE left  == c - Base(k, g)
             limit == IF left > k.npi THEN k.npi ELSE left
  <2>1. i \in 0..(limit - 1)
    BY <1>1, <1>2, <1>5, <1>6 DEF p
  <2>2. ClippedOffsets(k, g, c) =
          IF Base(k, g) >= c THEN {} ELSE {U32(Base(k, g) + j) : j \in 0..(limit - 1)}
    BY DEF ClippedOffsets
  <2> HIDE DEF limit
  <2>3. n \in ClippedOffsets(k, g, c)
    BY <1>2, <1>5, <1>6, <2>1, <2>2
  <2> QED BY <1>11, <2>3 DEF Offsets
<1>12. CASE k.kind = "fixed"
  <2>1. n \in {U32(Base(k, g) + j) : j \in 0..(k.npi - 1)}
    <3>1. i \in 0..(k.npi - 1)
      BY <1>1, <1>6 DEF p
    <3> QED BY <1>5, <1>6, <3>1
  <2>2. n < c
    BY <1>2
  <2> QED BY <1>5, <1>12, <2>1, <2>2 DEF Offsets, FixedOffsets
<1> QED BY <1>1, <1>9, <1>10, <1>11, <1>12

-----------------------------------------------------------------------------
(* The invariant.                                                          *)

(* A scan on a device that works, of a range whose numbers fit in a word.  *)
Good == sane /\ GridFits

Found == hits \cap Requested

(* What belongs to the current scan, at each point of the host. *)
ScanHere ==
    /\ scans > 0 => nonce_count > 0 /\ (test => nonce_count = TestNonces)
    /\ host # "idle" => scans > 0
    /\ host = "launch" => count_buf = 0
    /\ host \in {"reset", "launch", "running"} => delivered = << >>

(* A work-item that has drawn an index has an offset to store there. *)
ItemsHere ==
    host = "running" =>
        /\ todo \in [Items -> SUBSET hits] /\ claim \in [Items -> Nat \cup {NoClaim}]
        /\ \A g \in Items : claim[g] # NoClaim => todo[g] # {}

(* The matches no index was drawn for yet. *)
Unclaimed ==
    {n \in Found : \E g \in Items : n \in todo[g] /\ (claim[g] # NoClaim => n # Min(todo[g]))}

Claimed(i) == \E g \in Items : claim[g] = i

(* Work-items do not share indices, and the entries below the counter that *)
(* are written are matches, whether or not words wrap.                     *)
ClaimsHere ==
    host = "running" =>
        /\ \A g \in Items : claim[g] # NoClaim =>
              claim[g] < count_buf /\ \A h \in Items : h # g => claim[h] # claim[g]
        /\ \A i \in 0..(max_results - 1) : i < count_buf /\ ~Claimed(i) => matches[i].nonce \in hits

(* Where none wraps they do not share offsets either, the counter and what *)
(* is left add up to the matches, and the entries written are of different *)
(* matches that are done with.                                             *)
RunningHere ==
    host = "running" /\ Good =>
        /\ \A g \in Items : todo[g] \subseteq Found
        /\ \A g, h \in Items : g # h => todo[g] \cap todo[h] = {}
        /\ \A i \in 0..(max_results - 1) : i < count_buf /\ ~Claimed(i) =>
              matches[i].nonce \in Found /\ \A g \in Items : matches[i].nonce \notin todo[g]
        /\ \A i, j \in 0..(max_results - 1) :
              i < count_buf /\ j < count_buf /\ ~Claimed(i) /\ ~Claimed(j) /\ i # j =>
                  matches[i].nonce # matches[j].nonce
        /\ Cardinality(Found) = count_buf + Cardinality(Unclaimed)

(* When all have finished, the entries below the counter are the matches.  *)
ReadHere ==
    /\ host = "read" => \A i \in 0..(Reported - 1) : matches[i].nonce \in hits
    /\ host = "read" /\ Good =>
        /\ count_buf = Cardinality(Found)
        /\ \A i \in 0..(Reported - 1) : matches[i].nonce \in Found
        /\ \A i, j \in 0..(Reported - 1) : i # j => matches[i].nonce # matches[j].nonce

DeliveredHere ==
    /\ host = "read" => /\ Len(delivered) <= Reported
                        /\ \A i \in 1..Len(delivered) : delivered[i] = matches[i - 1]
    /\ host = "read" /\ Good => Cardinality(Nonces) = Len(delivered)

(* What the callback of a self-test has seen. *)
SeenHere ==
    /\ test /\ ~failed =>
        /\ seen = Nonces /\ Cardinality(seen) = Len(delivered)
        /\ \A i \in 1..Len(delivered) : delivered[i].good = TRUE
    /\ host = "idle" /\ test /\ scans > 0 /\ rc = 0 => ~failed /\ seen = 0..(nonce_count - 1)

ScanInv ==
    /\ TypeOK /\ ScanHere /\ ItemsHere /\ ClaimsHere /\ RunningHere /\ ReadHere /\ DeliveredHere
    /\ SeenHere /\ MatchesGenuine /\ MatchesReportedOnce

-----------------------------------------------------------------------------
(* Facts for the steps.                                                    *)

LEMMA MinFacts ==
    ASSUME NEW S \in SUBSET Nat, S # {}
    PROVE  Min(S) \in S
<1> DEFINE R == {q \in Nat \X Nat : q[1] < q[2]}
<1>1. R = OpToRel(<, Nat)
  BY DEF OpToRel
<1>2. IsWellFoundedOn(R, Nat)
  BY <1>1, NatLessThanWellFounded
<1>3. PICK x \in S : \A y \in S : ~(<<y, x>> \in R)
  BY <1>2, WFMin
<1>4. \A y \in S : ~(y < x)
  BY <1>3
<1>5. \A y \in S : x =< y
  BY <1>3, <1>4
<1> QED BY <1>3, <1>5 DEF Min

(* Sizes and ranges of the types. *)
LEMMA SizeFacts ==
    ASSUME TypeOK
    PROVE  /\ max_results \in Nat /\ Reported \in Nat /\ Reported <= max_results /\ Reported <= count_buf
           /\ kernel \in KernelRecord /\ kernel.npi \in Nat \ {0} /\ group \in Nat \ {0}
           /\ nonce_count \in Nat /\ nonce_count < Word /\ hits \subseteq Nat
           /\ IsFiniteSet(Found) /\ Cardinality(Found) \in Nat
           /\ Len(delivered) \in Nat
<1>1. max_results \in Nat /\ Reported \in Nat /\ Reported <= max_results /\ Reported <= count_buf
  BY ScanAssumption DEF TypeOK, max_results, Reported
<1>2. kernel \in KernelRecord /\ kernel.npi \in Nat \ {0} /\ group \in Nat \ {0}
  BY ScanAssumption DEF TypeOK, KernelRecord
<1>3. nonce_count \in Nat /\ nonce_count < Word /\ hits \subseteq 0..(Word - 1)
  BY ScanAssumption DEF TypeOK
<1>4. IsFiniteSet(Requested) /\ Found \subseteq Requested
  BY <1>3, FS_Interval DEF Requested, Found
<1>5. IsFiniteSet(Found) /\ Cardinality(Found) \in Nat
  BY <1>4, FS_Subset, FS_CardinalityType
<1>6. hits \subseteq Nat
  BY <1>3
<1>7. Len(delivered) \in Nat
  BY LenProperties DEF TypeOK
<1> QED BY <1>1, <1>2, <1>3, <1>5, <1>6, <1>7

(* The scan in work is the same before and after a step. *)
SameScan == UNCHANGED <<test, sane, kernel, group, nonce_count, hits>>

LEMMA SameScanFacts ==
    ASSUME SameScan
    PROVE  /\ Items' = Items /\ GridFits' = GridFits /\ Good' = Good /\ max_results' = max_results
           /\ Found' = Found /\ Requested' = Requested
BY DEF SameScan, Items, GridFits, Good, max_results, Found, Requested

(* No entry is reported before the host reads, and the host reads from the *)
(* start.                                                                  *)
LEMMA NoneDelivered ==
    ASSUME delivered = << >>
    PROVE  Nonces = {} /\ Len(delivered) = 0 /\ Cardinality(Nonces) = 0
<1>1. Len(delivered) = 0 /\ 1..0 = {}
  OBVIOUS
<1>2. Nonces = {}
  BY <1>1 DEF Nonces
<1> QED BY <1>1, <1>2, FS_EmptySet

(* The grid covers the range once: what a scan on a device that fits       *)
(* distributes to its work-items.                                          *)
LEMMA GridCovers ==
    ASSUME TypeOK, nonce_count > 0, GridFits
    PROVE  /\ \A g \in Items : g \in Nat /\ Offsets(kernel, g, nonce_count) = Stretch(g, kernel.npi, nonce_count)
           /\ \A n \in 0..(nonce_count - 1) : \E g \in Items : n \in Offsets(kernel, g, nonce_count)
           /\ \A g, h \in Items : g # h =>
                Offsets(kernel, g, nonce_count) \cap Offsets(kernel, h, nonce_count) = {}
<1>1. /\ kernel \in KernelRecord /\ kernel.npi \in Nat \ {0} /\ group \in Nat \ {0}
      /\ nonce_count \in Nat \ {0}
      /\ Global(nonce_count, kernel.npi, group) * kernel.npi < Word
  BY SizeFacts DEF GridFits
<1>2. \A g \in Items : g \in Nat /\ Offsets(kernel, g, nonce_count) = Stretch(g, kernel.npi, nonce_count)
  <2>1. Global(nonce_count, kernel.npi, group) \in Nat
    BY <1>1, GridFacts
  <2>2. \A g \in Items : g \in Nat
    BY <2>1 DEF Items
  <2>3. \A g \in Items : Offsets(kernel, g, nonce_count) = Stretch(g, kernel.npi, nonce_count)
    BY <1>1, OffsetsFacts DEF Items
  <2> QED BY <2>2, <2>3
<1>3. \A n \in 0..(nonce_count - 1) : \E g \in Items : n \in Offsets(kernel, g, nonce_count)
  <2>1. \A n \in 0..(nonce_count - 1) : \E g \in Items : n \in Stretch(g, kernel.npi, nonce_count)
    BY <1>1, StretchesCover DEF Items
  <2> QED BY <1>2, <2>1
<1>4. \A g, h \in Items : g # h =>
        Offsets(kernel, g, nonce_count) \cap Offsets(kernel, h, nonce_count) = {}
  <2>1. \A g, h \in Items : g # h =>
          Stretch(g, kernel.npi, nonce_count) \cap Stretch(h, kernel.npi, nonce_count) = {}
    BY <1>1, <1>2, StretchesApart
  <2> QED BY <1>2, <2>1
<1> QED BY <1>2, <1>3, <1>4

-----------------------------------------------------------------------------
(* The invariant holds at first and is kept by every step.                 *)

LEMMA InitScanInv == Init => ScanInv
<1> SUFFICES ASSUME Init PROVE ScanInv
  OBVIOUS
<1>1. TypeOK
  <2>1. max_results \in Nat
    BY ScanAssumption DEF Init, max_results
  <2>2. Unwritten \in Entry
    BY ScanAssumption DEF Unwritten, Entry
  <2>3. matches \in [0..(max_results - 1) -> Entry]
    BY <2>2 DEF Init
  <2>4. << >> \in Seq(Entry)
    OBVIOUS
  <2>5. 0 \in 0..MaxScans
    BY ScanAssumption
  <2> QED BY <2>3, <2>4, <2>5 DEF Init, TypeOK
<1>2. Nonces = {} /\ Len(delivered) = 0 /\ Cardinality(Nonces) = 0
  BY NoneDelivered DEF Init
<1>3. /\ ScanHere /\ ItemsHere /\ ClaimsHere /\ RunningHere /\ ReadHere /\ DeliveredHere /\ SeenHere
      /\ MatchesGenuine /\ MatchesReportedOnce
  BY <1>2 DEF Init, ScanHere, ItemsHere, ClaimsHere, RunningHere, ReadHere, DeliveredHere, SeenHere,
              MatchesGenuine, MatchesReportedOnce
<1> QED BY <1>1, <1>3 DEF ScanInv

LEMMA CallInv == ASSUME ScanInv, Call PROVE ScanInv'
<1>1. /\ host = "idle" /\ scans < MaxScans /\ scans' = scans + 1 /\ host' = "reset"
      /\ nonce_count' \in IF test THEN {TestNonces} ELSE Counts
      /\ hits' \in IF test THEN {0..(Word - 1)} ELSE Targets
      /\ delivered' = << >> /\ seen' = {} /\ failed' = FALSE
      /\ UNCHANGED <<count_buf, matches, todo, claim, rc, test, sane, kernel, group>>
  BY DEF Call, Device
<1>2. nonce_count' \in Counts \cup {0, TestNonces} /\ nonce_count' \in Nat \ {0}
      /\ (test => nonce_count' = TestNonces)
  BY <1>1, ScanAssumption
<1>3. hits' \subseteq 0..(Word - 1)
  BY <1>1 DEF Targets
<1>4. scans' \in 0..MaxScans /\ scans' > 0
  BY <1>1, ScanAssumption DEF ScanInv, TypeOK
<1>5. TypeOK'
  <2>1. << >> \in Seq(Entry) /\ max_results' = max_results
    BY <1>1 DEF max_results
  <2> QED BY <1>1, <1>2, <1>3, <1>4, <2>1 DEF ScanInv, TypeOK
<1>6. Nonces' = {} /\ Len(delivered') = 0 /\ Cardinality(Nonces') = 0
  <2>1. Len(delivered') = 0 /\ 1..0 = {}
    BY <1>1
  <2>2. Nonces' = {}
    BY <2>1 DEF Nonces
  <2> QED BY <2>1, <2>2, FS_EmptySet
<1>7. ScanHere'
  BY <1>1, <1>2, <1>4 DEF ScanHere
<1>8. ItemsHere' /\ ClaimsHere' /\ RunningHere' /\ ReadHere' /\ DeliveredHere'
      /\ MatchesGenuine' /\ MatchesReportedOnce'
  BY <1>1 DEF ItemsHere, ClaimsHere, RunningHere, ReadHere, DeliveredHere,
           MatchesGenuine, MatchesReportedOnce
<1>9. SeenHere'
  BY <1>1, <1>6 DEF SeenHere
<1> QED BY <1>5, <1>7, <1>8, <1>9 DEF ScanInv

(* A scan that returns an error reports nothing. *)
LEMMA FailedReturn ==
    ASSUME ScanInv, host # "idle", Return(-1), count_buf' \in Nat, UNCHANGED matches
    PROVE  ScanInv'
<1>1. /\ host' = "idle" /\ rc' = -1
      /\ UNCHANGED <<nonce_count, hits, todo, claim, delivered, seen, failed, scans, test, sane, kernel, group>>
  BY DEF Return, Device
<1>2. SameScan
  BY <1>1 DEF SameScan
<1>3. max_results' = max_results
  BY <1>2, SameScanFacts
<1>4. TypeOK'
  BY <1>1, <1>3 DEF ScanInv, TypeOK
<1>5. ScanHere' /\ ItemsHere' /\ ClaimsHere' /\ RunningHere' /\ ReadHere' /\ DeliveredHere'
      /\ MatchesGenuine' /\ MatchesReportedOnce'
  BY <1>1 DEF ScanInv, ScanHere, ItemsHere, ClaimsHere, RunningHere, ReadHere, DeliveredHere,
           MatchesGenuine, MatchesReportedOnce
<1>6. Nonces' = Nonces
  BY <1>1 DEF Nonces
<1>7. SeenHere'
  BY <1>1, <1>6 DEF ScanInv, SeenHere
<1> QED BY <1>4, <1>5, <1>7 DEF ScanInv

LEMMA SetupFailsInv == ASSUME ScanInv, SetupFails PROVE ScanInv'
<1>1. count_buf' \in Nat
  <2>1. max_results \in Nat /\ count_buf \in Nat
    BY SizeFacts DEF ScanInv, TypeOK
  <2> QED BY <2>1 DEF SetupFails
<1>2. host # "idle" /\ Return(-1) /\ UNCHANGED matches
  BY DEF SetupFails
<1> QED BY <1>1, <1>2, FailedReturn

LEMMA ReadFailsInv == ASSUME ScanInv, ReadFails PROVE ScanInv'
<1>1. count_buf' \in Nat /\ host # "idle" /\ Return(-1) /\ UNCHANGED matches
  BY DEF ReadFails, ScanInv, TypeOK
<1> QED BY <1>1, FailedReturn

LEMMA ResetInv == ASSUME ScanInv, Reset PROVE ScanInv'
<1>1. /\ host = "reset" /\ host' = "launch" /\ count_buf' = 0
      /\ UNCHANGED <<nonce_count, hits, matches, todo, claim, delivered, rc, seen, failed, scans,
                     test, sane, kernel, group>>
  BY DEF Reset, Device
<1>2. SameScan
  BY <1>1 DEF SameScan
<1>3. max_results' = max_results
  BY <1>2, SameScanFacts
<1>4. TypeOK'
  BY <1>1, <1>3 DEF ScanInv, TypeOK
<1>5. ScanHere' /\ ItemsHere' /\ ClaimsHere' /\ RunningHere' /\ ReadHere' /\ DeliveredHere'
      /\ MatchesGenuine' /\ MatchesReportedOnce'
  BY <1>1 DEF ScanInv, ScanHere, ItemsHere, ClaimsHere, RunningHere, ReadHere, DeliveredHere,
           MatchesGenuine, MatchesReportedOnce
<1>6. Nonces' = Nonces
  BY <1>1 DEF Nonces
<1>7. SeenHere'
  BY <1>1, <1>6 DEF ScanInv, SeenHere
<1> QED BY <1>4, <1>5, <1>7 DEF ScanInv

(* The work-items start: all matches are to be reported, none is shared.   *)
LEMMA LaunchInv == ASSUME ScanInv, Launch PROVE ScanInv'
<1>1. /\ host = "launch" /\ host' = "running"
      /\ todo' = [g \in Items |-> Offsets(kernel, g, nonce_count) \cap hits]
      /\ claim' = [g \in Items |-> NoClaim]
      /\ UNCHANGED <<nonce_count, hits, count_buf, matches, delivered, rc, seen, failed, scans,
                     test, sane, kernel, group>>
  BY DEF Launch, Device
<1>2. SameScan
  BY <1>1 DEF SameScan
<1>3. max_results' = max_results /\ Items' = Items /\ Good' = Good /\ Found' = Found
  BY <1>2, SameScanFacts
<1>4. TypeOK'
  BY <1>1, <1>3 DEF ScanInv, TypeOK
<1>5. ScanHere' /\ ReadHere' /\ DeliveredHere' /\ MatchesGenuine' /\ MatchesReportedOnce'
  BY <1>1 DEF ScanInv, ScanHere, ReadHere, DeliveredHere, MatchesGenuine, MatchesReportedOnce
<1>6. Nonces' = Nonces
  BY <1>1 DEF Nonces
<1>7. SeenHere'
  BY <1>1, <1>6 DEF ScanInv, SeenHere
<1>8. ItemsHere'
  <2>1. todo' \in [Items -> SUBSET hits]
    BY <1>1
  <2>2. claim' \in [Items -> Nat \cup {NoClaim}] /\ \A g \in Items : claim'[g] = NoClaim
    BY <1>1
  <2> QED BY <1>1, <1>3, <2>1, <2>2 DEF ItemsHere
<1>10. ClaimsHere'
  <2>1. count_buf' = 0 /\ \A g \in Items : claim'[g] = NoClaim
    BY <1>1 DEF ScanInv, ScanHere
  <2>2. \A i \in 0..(max_results - 1) : ~(i < count_buf')
    BY <2>1
  <2> QED BY <1>3, <2>1, <2>2 DEF ClaimsHere
<1>9. RunningHere'
  <2> SUFFICES ASSUME Good PROVE RunningHere'
    BY <1>3 DEF RunningHere
  <2>1. nonce_count > 0 /\ GridFits /\ TypeOK /\ count_buf = 0
    BY <1>1 DEF ScanInv, ScanHere, Good
  <2>2. \A g \in Items : todo'[g] = Offsets(kernel, g, nonce_count) \cap hits /\ claim'[g] = NoClaim
    BY <1>1
  <2>3. \A g, h \in Items : g # h => todo'[g] \cap todo'[h] = {}
    BY <2>1, <2>2, GridCovers
  <2>8. \A g \in Items : todo'[g] \subseteq Found
    BY <2>1, <2>2, GridCovers DEF Found, Requested, Stretch
  <2>4. Unclaimed' = Found
    <3>1. Found \subseteq hits /\ Found \subseteq 0..(nonce_count - 1)
      BY DEF Found, Requested
    <3>2. \A n \in Found : \E g \in Items : n \in todo'[g] /\ claim'[g] = NoClaim
      BY <2>1, <2>2, <3>1, GridCovers
    <3> QED BY <1>1, <1>3, <3>2 DEF Unclaimed
  <2>5. Cardinality(Found) \in Nat
    BY <2>1, SizeFacts
  <2>6. \A i \in 0..(max_results - 1) : ~(i < count_buf)
    BY <2>1
  <2>7. Cardinality(Found) = count_buf' + Cardinality(Unclaimed')
    BY <1>1, <2>1, <2>4, <2>5
  <2> QED BY <1>1, <1>3, <2>2, <2>3, <2>6, <2>7, <2>8 DEF RunningHere
<1> QED BY <1>4, <1>5, <1>7, <1>8, <1>9, <1>10 DEF ScanInv

(* What a work-item keeps of the rest. *)
LEMMA RunningFrame ==
    ASSUME ScanInv, host = "running", host' = "running", TypeOK', ItemsHere', ClaimsHere', RunningHere',
           UNCHANGED <<delivered, rc, seen, failed, scans>>, SameScan
    PROVE  ScanInv'
<1>1. ScanHere' /\ ReadHere' /\ DeliveredHere' /\ MatchesGenuine' /\ MatchesReportedOnce'
  BY DEF ScanInv, ScanHere, ReadHere, DeliveredHere, MatchesGenuine, MatchesReportedOnce, SameScan
<1>2. Nonces' = Nonces
  BY DEF Nonces
<1>3. SeenHere'
  BY <1>2 DEF ScanInv, SeenHere, SameScan
<1> QED BY <1>1, <1>3 DEF ScanInv

(* atomic_inc gives the work-item an index of its own. *)
LEMMA DrawInv == ASSUME ScanInv, NEW g \in Items, Draw(g) PROVE ScanInv'
<1>1. /\ host = "running" /\ host' = "running" /\ claim[g] = NoClaim /\ todo[g] # {}
      /\ claim' = [claim EXCEPT ![g] = count_buf] /\ count_buf' = count_buf + 1
      /\ UNCHANGED <<nonce_count, hits, matches, todo, delivered, rc, seen, failed, scans,
                     test, sane, kernel, group>>
  BY DEF Draw, Device
<1>2. SameScan
  BY <1>1 DEF SameScan
<1>3. max_results' = max_results /\ Items' = Items /\ Good' = Good /\ Found' = Found
  BY <1>2, SameScanFacts
<1>4. /\ todo \in [Items -> SUBSET hits] /\ claim \in [Items -> Nat \cup {NoClaim}]
      /\ count_buf \in Nat /\ hits \subseteq Nat /\ TypeOK
      /\ IsFiniteSet(Found) /\ Cardinality(Found) \in Nat
  BY <1>1, SizeFacts DEF ScanInv, ItemsHere, TypeOK
<1>5. TypeOK'
  BY <1>1, <1>3, <1>4 DEF TypeOK
<1>6. claim'[g] = count_buf /\ \A h \in Items \ {g} : claim'[h] = claim[h]
  BY <1>1, <1>4
<1>7. ItemsHere'
  <2>1. claim' \in [Items -> Nat \cup {NoClaim}]
    BY <1>1, <1>4
  <2> QED BY <1>1, <1>3, <1>4, <1>6, <2>1 DEF ScanInv, ItemsHere
<1>9. ASSUME NEW i \in 0..(max_results - 1), i < count_buf', ~Claimed(i)'
      PROVE  i < count_buf /\ ~Claimed(i)
  <2>1. \A a \in Items : claim'[a] # i
    BY <1>3, <1>9 DEF Claimed
  <2>2. i # count_buf /\ i \in Nat
    BY <1>6, <2>1, <1>4, SizeFacts
  <2>3. \A a \in Items : claim[a] # i
    BY <1>1, <1>6, <2>1, <2>2 DEF NoClaim
  <2> QED BY <1>1, <1>4, <2>3, <2>2, <1>9 DEF Claimed
<1>8. ClaimsHere'
  <2>1. /\ \A a \in Items : claim[a] # NoClaim =>
              claim[a] < count_buf /\ \A h \in Items : h # a => claim[h] # claim[a]
        /\ \A i \in 0..(max_results - 1) : i < count_buf /\ ~Claimed(i) => matches[i].nonce \in hits
    BY <1>1 DEF ScanInv, ClaimsHere
  <2>2. \A a \in Items : claim'[a] # NoClaim =>
              claim'[a] < count_buf' /\ \A h \in Items : h # a => claim'[h] # claim'[a]
    <3>1. \A a \in Items : claim[a] # NoClaim => claim[a] \in Nat /\ claim[a] < count_buf
      BY <1>4, <2>1
    <3>2. count_buf # NoClaim /\ count_buf < count_buf'
      BY <1>1, <1>4 DEF NoClaim
    <3>3. ASSUME NEW a \in Items, claim'[a] # NoClaim
          PROVE  claim'[a] < count_buf'
      <4>1. CASE a = g
        BY <1>6, <3>2, <4>1
      <4>2. CASE a # g
        BY <1>1, <1>4, <1>6, <3>1, <3>3, <4>2
      <4> QED BY <4>1, <4>2
    <3>4. ASSUME NEW a \in Items, NEW h \in Items, claim'[a] # NoClaim, h # a
          PROVE  claim'[h] # claim'[a]
      <4>1. CASE a = g
        BY <1>4, <1>6, <3>1, <3>2, <3>4, <4>1
      <4>2. CASE h = g
        BY <1>4, <1>6, <3>1, <3>2, <3>4, <4>2
      <4>3. CASE a # g /\ h # g
        BY <1>6, <2>1, <3>4, <4>3
      <4> QED BY <4>1, <4>2, <4>3
    <3> QED BY <3>3, <3>4
  <2>3. \A i \in 0..(max_results - 1) : i < count_buf' /\ ~Claimed(i)' => matches[i].nonce \in hits
    BY <1>9, <2>1
  <2> QED BY <1>1, <1>3, <2>2, <2>3 DEF ClaimsHere
<1>10. RunningHere'
  <2> SUFFICES ASSUME Good PROVE RunningHere'
    BY <1>3 DEF RunningHere
  <2>1. /\ \A a \in Items : todo[a] \subseteq Found
        /\ \A a, b \in Items : a # b => todo[a] \cap todo[b] = {}
        /\ \A i \in 0..(max_results - 1) : i < count_buf /\ ~Claimed(i) =>
              matches[i].nonce \in Found /\ \A a \in Items : matches[i].nonce \notin todo[a]
        /\ \A i, j \in 0..(max_results - 1) :
              i < count_buf /\ j < count_buf /\ ~Claimed(i) /\ ~Claimed(j) /\ i # j =>
                  matches[i].nonce # matches[j].nonce
        /\ Cardinality(Found) = count_buf + Cardinality(Unclaimed)
    BY <1>1 DEF ScanInv, RunningHere
  <2>4. \A i \in 0..(max_results - 1) : i < count_buf' /\ ~Claimed(i)' =>
              matches[i].nonce \in Found /\ \A a \in Items : matches[i].nonce \notin todo[a]
    BY <1>9, <2>1
  <2>5. \A i, j \in 0..(max_results - 1) :
              i < count_buf' /\ j < count_buf' /\ ~Claimed(i)' /\ ~Claimed(j)' /\ i # j =>
                  matches[i].nonce # matches[j].nonce
    BY <1>9, <2>1
  <2>6. Cardinality(Found) = count_buf' + Cardinality(Unclaimed')
    <3> DEFINE m == Min(todo[g])
    <3>1. todo[g] \in SUBSET Nat /\ todo[g] # {} /\ todo[g] \subseteq Found
      BY <1>1, <1>4, <2>1
    <3>2. m \in todo[g] /\ m \in Found
      BY <3>1, MinFacts
    <3>3. m \in Unclaimed
      BY <1>1, <3>2 DEF Unclaimed
    <3>4. Unclaimed' = Unclaimed \ {m}
      <4> HIDE DEF m
      <4>1. \A n : n \in Unclaimed' <=>
              n \in Found /\ \E h \in Items : n \in todo[h] /\ (claim'[h] # NoClaim => n # Min(todo[h]))
        BY <1>1, <1>3 DEF Unclaimed
      <4>2. claim'[g] # NoClaim
        BY <1>4, <1>6 DEF NoClaim
      <4>3. ASSUME NEW n \in Unclaimed' PROVE n \in Unclaimed /\ n # m
        <5>1. PICK h \in Items : n \in todo[h] /\ (claim'[h] # NoClaim => n # Min(todo[h]))
          BY <4>1
        <5>2. n \in Found
          BY <4>1
        <5>3. CASE h = g
          BY <1>1, <4>2, <5>1, <5>2, <5>3 DEF Unclaimed, m
        <5>4. CASE h # g
          <6>1. n # m
            BY <2>1, <3>2, <5>1, <5>4
          <6> QED BY <1>6, <5>1, <5>2, <5>4, <6>1 DEF Unclaimed
        <5> QED BY <5>3, <5>4
      <4>4. ASSUME NEW n \in Unclaimed, n # m PROVE n \in Unclaimed'
        <5>1. PICK h \in Items : n \in todo[h] /\ (claim[h] # NoClaim => n # Min(todo[h]))
          BY DEF Unclaimed
        <5>2. n \in Found
          BY DEF Unclaimed
        <5>3. CASE h = g
          BY <4>1, <4>4, <5>1, <5>2, <5>3 DEF m
        <5>4. CASE h # g
          BY <1>6, <4>1, <5>1, <5>2, <5>4
        <5> QED BY <5>3, <5>4
      <4> QED BY <4>3, <4>4
    <3>5. IsFiniteSet(Unclaimed)
      <4>1. Unclaimed \subseteq Found
        BY DEF Unclaimed
      <4> QED BY <1>4, <4>1, FS_Subset
    <3> HIDE DEF m
    <3>6. Cardinality(Unclaimed \ {m}) = Cardinality(Unclaimed) - 1
      BY <3>3, <3>5, FS_RemoveElement
    <3>7. Cardinality(Unclaimed) \in Nat
      BY <3>5, FS_CardinalityType
    <3> QED BY <1>1, <1>4, <2>1, <3>4, <3>6, <3>7
  <2> QED BY <1>1, <1>3, <2>1, <2>4, <2>5, <2>6 DEF RunningHere
<1> QED BY <1>1, <1>2, <1>5, <1>7, <1>8, <1>10, RunningFrame

(* The entry is written at the index drawn for it, and only there. *)
LEMMA StoreInv == ASSUME ScanInv, NEW g \in Items, Store(g) PROVE ScanInv'
<1> DEFINE m == Min(todo[g])
           c == claim[g]
<1>1. /\ host = "running" /\ host' = "running" /\ c # NoClaim
      /\ todo' = [todo EXCEPT ![g] = todo[g] \ {m}] /\ claim' = [claim EXCEPT ![g] = NoClaim]
      /\ UNCHANGED <<nonce_count, hits, count_buf, delivered, rc, seen, failed, scans,
                     test, sane, kernel, group>>
  BY DEF Store, Device
<1>2. SameScan
  BY <1>1 DEF SameScan
<1>3. max_results' = max_results /\ Items' = Items /\ Good' = Good /\ Found' = Found
  BY <1>2, SameScanFacts
<1>4. /\ todo \in [Items -> SUBSET hits] /\ claim \in [Items -> Nat \cup {NoClaim}]
      /\ count_buf \in Nat /\ hits \subseteq Nat /\ TypeOK /\ todo[g] # {} /\ c \in Nat
      /\ max_results \in Nat /\ matches \in [0..(max_results - 1) -> Entry]
  BY <1>1, SizeFacts DEF ScanInv, ItemsHere, TypeOK
<1>5. m \in todo[g] /\ m \in hits /\ m \in Nat
  <2>1. todo[g] \in SUBSET Nat /\ todo[g] \subseteq hits
    BY <1>4
  <2> QED BY <1>4, <2>1, MinFacts
<1>6. PICK good \in {TRUE, sane} :
        matches' = IF InBuffer(c)
                   THEN [i \in DOMAIN matches \cup {c} |-> IF i = c THEN [nonce |-> m, good |-> good] ELSE matches[i]]
                   ELSE matches
  BY DEF Store
<1> HIDE DEF m, c
<1> DEFINE e == [nonce |-> m, good |-> good]
<1>7. e \in Entry /\ e.nonce = m
  <2>1. good \in BOOLEAN
    BY <1>4 DEF TypeOK
  <2> QED BY <1>5, <2>1 DEF Entry
<1>8. /\ matches' \in [0..(max_results - 1) -> Entry]
      /\ \A i \in 0..(max_results - 1) : matches'[i] = IF i = c THEN e ELSE matches[i]
  <2> HIDE DEF e
  <2>1. CASE c < max_results
    <3>1. DOMAIN matches \cup {c} = 0..(max_results - 1)
      BY <1>4, <2>1
    <3>2. matches' = [i \in 0..(max_results - 1) |-> IF i = c THEN e ELSE matches[i]]
      BY <1>6, <2>1, <3>1 DEF InBuffer, e
    <3> QED BY <1>4, <1>7, <3>2
  <2>2. CASE ~(c < max_results)
    <3>1. matches' = matches
      BY <1>6, <2>2 DEF InBuffer
    <3>2. \A i \in 0..(max_results - 1) : i # c
      BY <1>4, <2>2
    <3> QED BY <1>4, <3>1, <3>2
  <2> QED BY <2>1, <2>2
<1> HIDE DEF e
<1>9. TypeOK'
  BY <1>1, <1>3, <1>4, <1>8 DEF TypeOK
<1>10. /\ claim'[g] = NoClaim /\ todo'[g] = todo[g] \ {m}
       /\ \A h \in Items \ {g} : claim'[h] = claim[h] /\ todo'[h] = todo[h]
  BY <1>1, <1>4
<1>11. ItemsHere'
  <2>1. claim' \in [Items -> Nat \cup {NoClaim}] /\ todo' \in [Items -> SUBSET hits]
    BY <1>1, <1>4
  <2> QED BY <1>1, <1>3, <1>10, <2>1 DEF ScanInv, ItemsHere
<1>13. ASSUME NEW i \in 0..(max_results - 1), ~Claimed(i)', i # c
       PROVE  ~Claimed(i)
  BY <1>3, <1>10, <1>13 DEF Claimed, c
<1>14. ClaimsHere'
  <2>1. /\ \A a \in Items : claim[a] # NoClaim =>
              claim[a] < count_buf /\ \A h \in Items : h # a => claim[h] # claim[a]
        /\ \A i \in 0..(max_results - 1) : i < count_buf /\ ~Claimed(i) => matches[i].nonce \in hits
    BY <1>1 DEF ScanInv, ClaimsHere
  <2>2. \A a \in Items : claim'[a] # NoClaim =>
              claim'[a] < count_buf /\ \A h \in Items : h # a => claim'[h] # claim'[a]
    BY <1>10, <2>1
  <2>3. ASSUME NEW i \in 0..(max_results - 1), i < count_buf, ~Claimed(i)'
        PROVE  matches'[i].nonce \in hits
    <3>1. CASE i = c
      BY <1>5, <1>7, <1>8, <3>1
    <3>2. CASE i # c
      <4>1. ~Claimed(i) /\ matches'[i] = matches[i]
        BY <1>8, <1>13, <2>3, <3>2
      <4> QED BY <2>1, <2>3, <4>1
    <3> QED BY <3>1, <3>2
  <2> QED BY <1>1, <1>3, <2>2, <2>3 DEF ClaimsHere
<1>12. RunningHere'
  <2> SUFFICES ASSUME Good PROVE RunningHere'
    BY <1>3 DEF RunningHere
  <2>1. /\ \A a \in Items : todo[a] \subseteq Found
        /\ \A a, b \in Items : a # b => todo[a] \cap todo[b] = {}
        /\ \A i \in 0..(max_results - 1) : i < count_buf /\ ~Claimed(i) =>
              matches[i].nonce \in Found /\ \A a \in Items : matches[i].nonce \notin todo[a]
        /\ \A i, j \in 0..(max_results - 1) :
              i < count_buf /\ j < count_buf /\ ~Claimed(i) /\ ~Claimed(j) /\ i # j =>
                  matches[i].nonce # matches[j].nonce
        /\ Cardinality(Found) = count_buf + Cardinality(Unclaimed)
    BY <1>1 DEF ScanInv, RunningHere
  <2>2. \A a \in Items : todo'[a] \subseteq todo[a] /\ m \notin todo'[a]
    BY <1>5, <1>10, <2>1
  <2>3. \A a, b \in Items : a # b => todo'[a] \cap todo'[b] = {}
    BY <2>1, <2>2
  <2>4. m \in Found
    BY <1>5, <2>1
  <2>6. ASSUME NEW i \in 0..(max_results - 1), i < count_buf, ~Claimed(i)'
        PROVE  matches'[i].nonce \in Found /\ \A a \in Items : matches'[i].nonce \notin todo'[a]
    <3>1. CASE i = c
      BY <1>7, <1>8, <2>2, <2>4, <3>1
    <3>2. CASE i # c
      <4>1. ~Claimed(i)
        BY <1>13, <2>6, <3>2
      <4>2. matches'[i] = matches[i]
        BY <1>8, <3>2
      <4> QED BY <2>1, <2>2, <2>6, <4>1, <4>2
    <3> QED BY <3>1, <3>2
  <2>7. ASSUME NEW i \in 0..(max_results - 1), i < count_buf, ~Claimed(i)', i # c
        PROVE  matches'[i].nonce # m
    <3>1. ~Claimed(i) /\ matches'[i] = matches[i]
      BY <1>8, <1>13, <2>7
    <3> QED BY <1>5, <2>1, <2>7, <3>1
  <2>8. ASSUME NEW i \in 0..(max_results - 1), NEW j \in 0..(max_results - 1),
               i < count_buf, j < count_buf, ~Claimed(i)', ~Claimed(j)', i # j
        PROVE  matches'[i].nonce # matches'[j].nonce
    <3>1. CASE i = c
      BY <1>7, <1>8, <2>7, <2>8, <3>1
    <3>2. CASE j = c
      BY <1>7, <1>8, <2>7, <2>8, <3>2
    <3>3. CASE i # c /\ j # c
      <4>1. ~Claimed(i) /\ ~Claimed(j) /\ matches'[i] = matches[i] /\ matches'[j] = matches[j]
        BY <1>8, <1>13, <2>8, <3>3
      <4> QED BY <2>1, <2>8, <4>1
    <3> QED BY <3>1, <3>2, <3>3
  <2>9. Unclaimed' = Unclaimed
    <3>1. \A n : n \in Unclaimed' <=>
            n \in Found /\ \E h \in Items : n \in todo'[h] /\ (claim'[h] # NoClaim => n # Min(todo'[h]))
      BY <1>1, <1>3 DEF Unclaimed
    <3>2. claim[g] # NoClaim /\ m = Min(todo[g])
      BY <1>1 DEF c, m
    <3>3. ASSUME NEW n \in Unclaimed' PROVE n \in Unclaimed
      <4>1. PICK h \in Items : n \in todo'[h] /\ (claim'[h] # NoClaim => n # Min(todo'[h]))
        BY <3>1
      <4>2. n \in Found
        BY <3>1
      <4>3. CASE h = g
        <5>1. n \in todo[g] /\ n # Min(todo[g])
          BY <1>10, <3>2, <4>1, <4>3
        <5> QED BY <4>2, <5>1 DEF Unclaimed
      <4>4. CASE h # g
        BY <1>10, <4>1, <4>2, <4>4 DEF Unclaimed
      <4> QED BY <4>3, <4>4
    <3>4. ASSUME NEW n \in Unclaimed PROVE n \in Unclaimed'
      <4>1. PICK h \in Items : n \in todo[h] /\ (claim[h] # NoClaim => n # Min(todo[h]))
        BY DEF Unclaimed
      <4>2. n \in Found
        BY DEF Unclaimed
      <4>3. CASE h = g
        <5>1. n \in todo'[g] /\ claim'[g] = NoClaim
          BY <1>10, <3>2, <4>1, <4>3
        <5> QED BY <3>1, <4>2, <5>1
      <4>4. CASE h # g
        BY <1>10, <3>1, <4>1, <4>2, <4>4
      <4> QED BY <4>3, <4>4
    <3> QED BY <3>3, <3>4
  <2>10. \A a \in Items : todo'[a] \subseteq Found
    BY <2>1, <2>2
  <2> QED BY <1>1, <1>3, <2>1, <2>3, <2>6, <2>8, <2>9, <2>10 DEF RunningHere
<1> QED BY <1>1, <1>2, <1>9, <1>11, <1>12, <1>14, RunningFrame

LEMMA MissInv == ASSUME ScanInv, NEW g \in Items, Miss(g) PROVE ScanInv'
<1>1. /\ host = "running" /\ host' = "running" /\ ~sane /\ claim[g] = NoClaim
      /\ todo' = [todo EXCEPT ![g] = todo[g] \ {Min(todo[g])}]
      /\ UNCHANGED <<nonce_count, hits, count_buf, matches, claim, delivered, rc, seen, failed, scans,
                     test, sane, kernel, group>>
  BY DEF Miss, Device
<1>2. SameScan
  BY <1>1 DEF SameScan
<1>3. max_results' = max_results /\ Items' = Items /\ Good' = Good /\ Found' = Found
  BY <1>2, SameScanFacts
<1>4. todo \in [Items -> SUBSET hits] /\ claim \in [Items -> Nat \cup {NoClaim}]
  BY <1>1 DEF ScanInv, ItemsHere
<1>5. TypeOK'
  BY <1>1, <1>3 DEF ScanInv, TypeOK
<1>6. ItemsHere'
  <2>1. todo' \in [Items -> SUBSET hits] /\ \A h \in Items \ {g} : todo'[h] = todo[h]
    BY <1>1, <1>4
  <2> QED BY <1>1, <1>3, <1>4, <2>1 DEF ScanInv, ItemsHere
<1>7. RunningHere'
  BY <1>1, <1>3 DEF RunningHere, Good
<1>8. ClaimsHere'
  <2>1. \A i : Claimed(i)' <=> Claimed(i)
    BY <1>1, <1>3 DEF Claimed
  <2> QED BY <1>1, <1>3, <2>1 DEF ScanInv, ClaimsHere
<1> QED BY <1>1, <1>2, <1>5, <1>6, <1>7, <1>8, RunningFrame

(* When every work-item has finished, nothing is claimed and nothing left. *)
LEMMA SynchronizeInv == ASSUME ScanInv, Synchronize PROVE ScanInv'
<1>1. /\ host = "running" /\ host' = "read" /\ Finished
      /\ UNCHANGED <<nonce_count, hits, count_buf, matches, todo, claim, delivered, rc, seen, failed, scans,
                     test, sane, kernel, group>>
  BY DEF Synchronize, Device
<1>2. SameScan
  BY <1>1 DEF SameScan
<1>3. max_results' = max_results /\ Items' = Items /\ Good' = Good /\ Found' = Found
  BY <1>2, SameScanFacts
<1>4. TypeOK'
  BY <1>1, <1>3 DEF ScanInv, TypeOK
<1>5. delivered = << >> /\ TypeOK
  BY <1>1 DEF ScanInv, ScanHere
<1>6. Nonces = {} /\ Len(delivered) = 0 /\ Cardinality(Nonces) = 0
  BY <1>5, NoneDelivered
<1>7. Nonces' = Nonces /\ Reported' = Reported
  BY <1>1, <1>3 DEF Nonces, Reported
<1>8. ScanHere' /\ ItemsHere' /\ ClaimsHere' /\ RunningHere' /\ MatchesGenuine' /\ MatchesReportedOnce'
  BY <1>1 DEF ScanInv, ScanHere, ItemsHere, ClaimsHere, RunningHere, MatchesGenuine, MatchesReportedOnce
<1>9. SeenHere'
  BY <1>1, <1>7 DEF ScanInv, SeenHere
<1>10. DeliveredHere'
  <2>1. Reported \in Nat
    BY <1>5, SizeFacts
  <2>2. 1..0 = {}
    OBVIOUS
  <2> QED BY <1>1, <1>6, <1>7, <2>1, <2>2 DEF DeliveredHere
<1>11. ReadHere'
  <2>1. \A g \in Items : todo[g] = {} /\ claim[g] = NoClaim
    BY <1>1 DEF ScanInv, ItemsHere, Finished
  <2>2. Unclaimed = {} /\ Cardinality({}) = 0
    BY <2>1, FS_EmptySet DEF Unclaimed
  <2>3. Reported \in Nat /\ Reported <= max_results /\ Reported <= count_buf
        /\ max_results \in Nat /\ count_buf \in Nat
    BY <1>5, SizeFacts DEF TypeOK
  <2>4. \A i \in 0..(Reported - 1) : i \in 0..(max_results - 1) /\ i < count_buf /\ ~Claimed(i)
    BY <2>1, <2>3 DEF Claimed, NoClaim
  <2>5. \A i \in 0..(Reported - 1) : matches[i].nonce \in hits
    BY <1>1, <2>4 DEF ScanInv, ClaimsHere
  <2>6. ASSUME Good
        PROVE  /\ count_buf = Cardinality(Found)
               /\ \A i \in 0..(Reported - 1) : matches[i].nonce \in Found
               /\ \A i, j \in 0..(Reported - 1) : i # j => matches[i].nonce # matches[j].nonce
    <3>1. /\ \A i \in 0..(max_results - 1) : i < count_buf /\ ~Claimed(i) => matches[i].nonce \in Found
          /\ \A i, j \in 0..(max_results - 1) :
                i < count_buf /\ j < count_buf /\ ~Claimed(i) /\ ~Claimed(j) /\ i # j =>
                    matches[i].nonce # matches[j].nonce
          /\ Cardinality(Found) = count_buf + Cardinality(Unclaimed)
      BY <1>1, <2>6 DEF ScanInv, RunningHere
    <3>2. count_buf = Cardinality(Found)
      BY <2>2, <2>3, <3>1
    <3> QED BY <2>4, <3>1, <3>2
  <2> QED BY <1>1, <1>3, <1>7, <2>5, <2>6 DEF ReadHere
<1> QED BY <1>4, <1>8, <1>9, <1>10, <1>11 DEF ScanInv

LEMMA DeliveredFinite == ASSUME TypeOK PROVE IsFiniteSet(Nonces)
<1> DEFINE f == [i \in 1..Len(delivered) |-> delivered[i].nonce]
<1>1. f \in Surjection(1..Len(delivered), Nonces)
  BY DEF Surjection, Nonces
<1>2. IsFiniteSet(1..Len(delivered))
  BY SizeFacts, FS_Interval
<1> QED BY <1>1, <1>2, FS_Surjection

(* One more entry is delivered: it is the next of the buffer. *)
LEMMA CallbackInv == ASSUME ScanInv, Callback PROVE ScanInv'
<1> DEFINE d == Len(delivered)
           e == matches[d]
<1>1. /\ host = "read" /\ host' = "read" /\ d < Reported /\ delivered' = Append(delivered, e)
      /\ UNCHANGED <<nonce_count, hits, count_buf, matches, todo, claim, rc, scans,
                     test, sane, kernel, group>>
      /\ test => TestMatch(e)
      /\ ~test => UNCHANGED <<seen, failed>>
  BY DEF Callback, Device
<1>2. SameScan
  BY <1>1 DEF SameScan
<1>3. max_results' = max_results /\ Items' = Items /\ Good' = Good /\ Found' = Found
  BY <1>2, SameScanFacts
<1>4. Reported' = Reported
  BY <1>1, <1>3 DEF Reported
<1>5. /\ TypeOK /\ delivered \in Seq(Entry) /\ matches \in [0..(max_results - 1) -> Entry]
      /\ max_results \in Nat /\ Reported \in Nat /\ Reported <= max_results /\ d \in Nat
      /\ \A i \in 1..d : delivered[i] = matches[i - 1]
  BY <1>1, SizeFacts DEF ScanInv, TypeOK, DeliveredHere
<1>6. d \in 0..(max_results - 1) /\ e \in Entry
  BY <1>1, <1>5
<1>7. e.nonce \in Nat /\ e.good \in BOOLEAN
  BY <1>6 DEF Entry
<1>8. /\ delivered' \in Seq(Entry) /\ Len(delivered') = d + 1
      /\ \A i \in 1..d : delivered'[i] = delivered[i]
      /\ delivered'[d + 1] = e
  BY <1>1, <1>5, <1>6, AppendProperties
<1> HIDE DEF d, e
<1>9. Nonces = {delivered[i].nonce : i \in 1..d}
  BY DEF Nonces, d
<1>10. Nonces' = Nonces \cup {e.nonce}
  <2>1. 1..(d + 1) = 1..d \cup {d + 1}
    BY <1>5
  <2>2. Nonces' = {delivered'[i].nonce : i \in 1..(d + 1)}
    BY <1>8 DEF Nonces
  <2>3. {delivered'[i].nonce : i \in 1..(d + 1)} = {delivered'[i].nonce : i \in 1..d} \cup {delivered'[d + 1].nonce}
    BY <2>1
  <2>4. {delivered'[i].nonce : i \in 1..d} = {delivered[i].nonce : i \in 1..d}
    BY <1>8
  <2> QED BY <1>8, <1>9, <2>2, <2>3, <2>4
<1>11. IsFiniteSet(Nonces) /\ Cardinality(Nonces) \in Nat
  BY <1>5, DeliveredFinite, FS_CardinalityType
<1>12. e.nonce \notin Nonces => Cardinality(Nonces') = Cardinality(Nonces) + 1
  BY <1>10, <1>11, FS_AddElement
<1>13. seen' \subseteq Nat /\ failed' \in BOOLEAN
  <2>1. CASE test
    <3>1. seen' = seen \cup ({e.nonce} \cap 0..(nonce_count - 1))
      BY <1>1, <2>1 DEF TestMatch
    <3>2. failed' \in BOOLEAN
      BY <1>1, <2>1 DEF TestMatch
    <3> QED BY <1>5, <1>7, <3>1, <3>2 DEF TypeOK
  <2>2. CASE ~test
    BY <1>1, <1>5, <2>2 DEF TypeOK
  <2> QED BY <2>1, <2>2
<1>14. TypeOK'
  BY <1>1, <1>3, <1>5, <1>8, <1>13 DEF TypeOK
<1>15. ScanHere' /\ ItemsHere' /\ ClaimsHere' /\ RunningHere' /\ MatchesGenuine' /\ MatchesReportedOnce'
  BY <1>1 DEF ScanInv, ScanHere, ItemsHere, ClaimsHere, RunningHere, MatchesGenuine, MatchesReportedOnce
<1>16. ReadHere'
  BY <1>1, <1>3, <1>4 DEF ScanInv, ReadHere
<1>17. DeliveredHere'
  <2>1. Len(delivered') <= Reported
    BY <1>1, <1>5, <1>8
  <2>2. ASSUME NEW i \in 1..(d + 1) PROVE delivered'[i] = matches[i - 1]
    <3>1. CASE i \in 1..d
      BY <1>5, <1>8, <3>1
    <3>2. CASE i = d + 1
      <4>1. i - 1 = d
        BY <1>5, <3>2
      <4> QED BY <1>8, <3>2, <4>1 DEF e
    <3> QED BY <1>5, <3>1, <3>2
  <2>3. ASSUME Good PROVE Cardinality(Nonces') = d + 1
    <3>1. \A i, j \in 0..(Reported - 1) : i # j => matches[i].nonce # matches[j].nonce
      BY <1>1, <2>3 DEF ScanInv, ReadHere
    <3>2. Cardinality(Nonces) = d
      BY <1>1, <2>3 DEF ScanInv, DeliveredHere, d
    <3>3. e.nonce \notin Nonces
      <4>1. ASSUME NEW i \in 1..d PROVE delivered[i].nonce # e.nonce
        <5>1. i - 1 \in 0..(Reported - 1) /\ d \in 0..(Reported - 1) /\ i - 1 # d
          BY <1>1, <1>5
        <5> QED BY <1>5, <3>1, <5>1 DEF e
      <4> QED BY <1>9, <4>1
    <3> QED BY <1>12, <3>2, <3>3
  <2> QED BY <1>1, <1>3, <1>4, <1>8, <2>1, <2>2, <2>3 DEF DeliveredHere
<1>18. SeenHere'
  <2>1. ~(host' = "idle" /\ test' /\ scans' > 0 /\ rc' = 0)
    BY <1>1
  <2>2. ASSUME test, ~failed'
        PROVE  /\ seen' = Nonces' /\ Cardinality(seen') = Len(delivered')
               /\ \A i \in 1..Len(delivered') : delivered'[i].good = TRUE
    <3>1. /\ ~failed /\ e.nonce \in 0..(nonce_count - 1) /\ e.nonce \notin seen /\ e.good
          /\ seen' = seen \cup ({e.nonce} \cap 0..(nonce_count - 1))
      BY <1>1, <2>2 DEF TestMatch
    <3>2. /\ seen = Nonces /\ Cardinality(seen) = d
          /\ \A i \in 1..d : delivered[i].good = TRUE
      BY <2>2, <3>1 DEF ScanInv, SeenHere, d
    <3>3. seen' = Nonces'
      BY <1>10, <3>1, <3>2
    <3>4. Cardinality(seen') = d + 1
      BY <1>12, <3>1, <3>2, <3>3
    <3>5. e.good = TRUE
      BY <1>7, <3>1
    <3>6. \A i \in 1..(d + 1) : delivered'[i].good = TRUE
      <4>1. \A i \in 1..(d + 1) : i \in 1..d \/ i = d + 1
        BY <1>5
      <4> QED BY <1>8, <3>2, <3>5, <4>1
    <3> QED BY <1>8, <3>3, <3>4, <3>6
  <2> QED BY <1>1, <2>1, <2>2 DEF SeenHere
<1> QED BY <1>14, <1>15, <1>16, <1>17, <1>18 DEF ScanInv

(* The scan returns 0 when all that was read is delivered, a self-test     *)
(* when it has passed.                                                     *)
LEMMA ScanReturnsInv == ASSUME ScanInv, ScanReturns PROVE ScanInv'
<1>1. host = "read" /\ Len(delivered) = Reported /\ UNCHANGED <<count_buf, matches>>
  BY DEF ScanReturns
<1>2. CASE test /\ ~TestPasses
  <2>1. Return(-1) /\ count_buf' \in Nat
    BY <1>1, <1>2 DEF ScanReturns, ScanInv, TypeOK
  <2> QED BY <1>1, <2>1, FailedReturn
<1>3. CASE ~(test /\ ~TestPasses)
  <2>1. /\ host' = "idle" /\ rc' = 0
        /\ UNCHANGED <<nonce_count, hits, todo, claim, delivered, seen, failed, scans,
                       test, sane, kernel, group>>
    BY <1>3 DEF ScanReturns, Return, Device
  <2>2. SameScan
    BY <2>1 DEF SameScan
  <2>3. max_results' = max_results /\ Good' = Good /\ Found' = Found /\ Requested' = Requested
    BY <2>2, SameScanFacts
  <2>4. TypeOK /\ TypeOK'
    BY <1>1, <2>1, <2>3 DEF ScanInv, TypeOK
  <2>5. ScanHere' /\ ItemsHere' /\ ClaimsHere' /\ RunningHere' /\ ReadHere' /\ DeliveredHere'
    BY <2>1 DEF ScanInv, ScanHere, ItemsHere, ClaimsHere, RunningHere, ReadHere, DeliveredHere
  <2>6. Nonces' = Nonces
    BY <2>1 DEF Nonces
  <2>7. SeenHere'
    <3>1. test => ~failed /\ seen = 0..(nonce_count - 1)
      BY <1>3 DEF TestPasses
    <3> QED BY <2>1, <2>6, <3>1 DEF ScanInv, SeenHere
  <2>10. /\ \A i \in 1..Len(delivered) : delivered[i] = matches[i - 1] /\ i - 1 \in 0..(Reported - 1)
         /\ Reported \in Nat
    <3>1. \A i \in 1..Len(delivered) : delivered[i] = matches[i - 1]
      BY <1>1 DEF ScanInv, DeliveredHere
    <3>2. Reported \in Nat
      BY <2>4, SizeFacts
    <3> QED BY <1>1, <3>1, <3>2
  <2>11. MatchesGenuine'
    <3>1. \A i \in 0..(Reported - 1) : matches[i].nonce \in hits
      BY <1>1 DEF ScanInv, ReadHere
    <3>2. Nonces \subseteq hits
      BY <2>10, <3>1 DEF Nonces
    <3> QED BY <2>1, <2>6, <3>2 DEF MatchesGenuine
  <2>8. ASSUME Good
        PROVE  /\ Nonces \subseteq Requested
               /\ Cardinality(Nonces) = Len(delivered)
               /\ Len(delivered) = IF Cardinality(Found) < max_results THEN Cardinality(Found) ELSE max_results
    <3>1. /\ count_buf = Cardinality(Found)
          /\ \A i \in 0..(Reported - 1) : matches[i].nonce \in Found
      BY <1>1, <2>8 DEF ScanInv, ReadHere
    <3>2. Cardinality(Nonces) = Len(delivered)
      BY <1>1, <2>8 DEF ScanInv, DeliveredHere
    <3>3. Nonces \subseteq Found
      BY <2>10, <3>1 DEF Nonces
    <3>4. Nonces \subseteq Requested
      BY <3>3 DEF Found
    <3> QED BY <1>1, <3>1, <3>2, <3>4 DEF Reported
  <2>9. MatchesReportedOnce'
    <3> SUFFICES ASSUME Good PROVE MatchesReportedOnce'
      BY <2>3 DEF MatchesReportedOnce, Good
    <3> QED BY <2>1, <2>3, <2>6, <2>8 DEF MatchesReportedOnce, Found
  <2> QED BY <2>4, <2>5, <2>7, <2>9, <2>11 DEF ScanInv
<1> QED BY <1>2, <1>3

LEMMA StutterInv == ASSUME ScanInv, UNCHANGED vars PROVE ScanInv'
<1>1. UNCHANGED <<test, sane, host, kernel, group, nonce_count, hits, count_buf, matches, todo, claim,
                  delivered, rc, seen, failed, scans>>
  BY DEF vars
<1>2. /\ Items' = Items /\ GridFits' = GridFits /\ Good' = Good /\ max_results' = max_results
      /\ Found' = Found /\ Requested' = Requested
  BY <1>1, SameScanFacts DEF SameScan
<1>3. Nonces' = Nonces /\ Reported' = Reported /\ Unclaimed' = Unclaimed
  BY <1>1, <1>2 DEF Nonces, Reported, Unclaimed
<1>4. \A i : Claimed(i)' <=> Claimed(i)
  BY <1>1, <1>2 DEF Claimed
<1>5. TypeOK'
  BY <1>1, <1>2 DEF ScanInv, TypeOK
<1>6. ScanHere' /\ ItemsHere' /\ SeenHere'
  BY <1>1, <1>2, <1>3 DEF ScanInv, ScanHere, ItemsHere, SeenHere
<1>7. ReadHere' /\ DeliveredHere'
  BY <1>1, <1>2, <1>3 DEF ScanInv, ReadHere, DeliveredHere
<1>8. RunningHere' /\ ClaimsHere'
  BY <1>1, <1>2, <1>3, <1>4 DEF ScanInv, RunningHere, ClaimsHere
<1>9. MatchesGenuine' /\ MatchesReportedOnce'
  BY <1>1, <1>2, <1>3 DEF ScanInv, MatchesGenuine, MatchesReportedOnce
<1> QED BY <1>5, <1>6, <1>7, <1>8, <1>9 DEF ScanInv

LEMMA NextScanInv == ASSUME ScanInv, [Next]_vars PROVE ScanInv'
<1>1. CASE Call
  BY <1>1, CallInv
<1>2. CASE Reset
  BY <1>2, ResetInv
<1>3. CASE SetupFails
  BY <1>3, SetupFailsInv
<1>4. CASE Launch
  BY <1>4, LaunchInv
<1>5. CASE Synchronize
  BY <1>5, SynchronizeInv
<1>6. CASE ReadFails
  BY <1>6, ReadFailsInv
<1>7. CASE Callback
  BY <1>7, CallbackInv
<1>8. CASE ScanReturns
  BY <1>8, ScanReturnsInv
<1>9. CASE WorkItem
  <2>1. PICK g \in Items : Draw(g) \/ Store(g) \/ Miss(g)
    BY <1>9 DEF WorkItem
  <2> QED BY <2>1, DrawInv, StoreInv, MissInv
<1>10. CASE Quiet \/ UNCHANGED vars
  BY <1>10, StutterInv DEF Quiet
<1> QED BY <1>1, <1>2, <1>3, <1>4, <1>5, <1>6, <1>7, <1>8, <1>9, <1>10 DEF Next

-----------------------------------------------------------------------------
(* The theorems.                                                           *)

(* The invariant of a scan and its work-items: what opencl_miner_scan and  *)
(* cuda_miner_scan rely on between the launch and the last callback.       *)
THEOREM ScanInvariant == Spec => []ScanInv
<1>1. ScanInv /\ [Next]_vars => ScanInv'
  BY NextScanInv
<1> QED BY InitScanInv, <1>1, PTL DEF Spec

(* Whatever the kernel, the group size, the number of nonces, next to 2^32 *)
(* too, and the order of the work-items, the grid hashes every nonce of    *)
(* the range, and a scan that returns 0 has passed matches of its own job  *)
(* to on_match.  Where no word of the grid wraps it hashes each nonce once *)
(* and no other, and reports each match once, all of them or max_results   *)
(* of them; StaysInRange is what fails beyond that.                        *)
THEOREM ScansAreSound == Spec => []ScanSound
<1>1. ScanInv => ScanSound
  <2> SUFFICES ASSUME ScanInv, nonce_count > 0
               PROVE  RangeCovered /\ CoversRangeOnce
    BY DEF ScanSound, RangeCovered, CoversRangeOnce, ScanInv
  <2>1. TypeOK
    BY DEF ScanInv
  <2>2. RangeCovered
    <3>1. /\ kernel \in KernelRecord /\ kernel.npi \in Nat \ {0} /\ group \in Nat \ {0}
          /\ nonce_count \in Nat \ {0} /\ nonce_count < Word
      BY <2>1, SizeFacts
    <3>2. Global(nonce_count, kernel.npi, group) \in Nat
      BY <3>1, GridFacts
    <3>3. ASSUME NEW n \in Requested PROVE n \in Hashed
      <4>1. PICK g \in Items : n \in Stretch(g, kernel.npi, nonce_count)
        BY <3>1, StretchesCover DEF Items, Requested
      <4>2. g \in Nat
        BY <3>2 DEF Items
      <4>3. n \in Offsets(kernel, g, nonce_count)
        BY <3>1, <4>1, <4>2, StretchHashed
      <4> QED BY <4>3 DEF Hashed
    <3> QED BY <3>3 DEF RangeCovered
  <2>3. CoversRangeOnce
    <3> SUFFICES ASSUME GridFits
                 PROVE  /\ Hashed = Requested
                        /\ \A g, h \in Items :
                              g # h => Offsets(kernel, g, nonce_count) \cap Offsets(kernel, h, nonce_count) = {}
      BY DEF CoversRangeOnce
    <3>1. /\ \A g \in Items : Offsets(kernel, g, nonce_count) = Stretch(g, kernel.npi, nonce_count)
          /\ \A g, h \in Items : g # h =>
               Offsets(kernel, g, nonce_count) \cap Offsets(kernel, h, nonce_count) = {}
      BY <2>1, GridCovers
    <3>2. Hashed \subseteq Requested
      BY <3>1 DEF Stretch, Hashed, Requested
    <3>3. Requested \subseteq Hashed
      BY <2>2 DEF RangeCovered
    <3> QED BY <3>1, <3>2, <3>3
  <2> QED BY <2>2, <2>3
<1> QED BY <1>1, ScanInvariant, PTL

(* A self-test that passes, opencl_miner_self_test or cuda_miner_self_test *)
(* returning 0, has seen the right hash of each of its nonces, once,       *)
(* whatever a device that computes wrong hashes or misses some does.       *)
THEOREM SelfTestIsSound == Spec => []SelfTestSound
<1>1. ScanInv => SelfTestSound
  <2> SUFFICES ASSUME ScanInv, host = "idle", test, scans > 0, rc = 0
               PROVE  /\ \A n \in 0..(TestNonces - 1) :
                            \E i \in 1..Len(delivered) : delivered[i] = [nonce |-> n, good |-> TRUE]
                      /\ Len(delivered) = TestNonces
    BY DEF SelfTestSound
  <2>1. nonce_count = TestNonces /\ TestNonces \in Nat \ {0}
    BY ScanAssumption DEF ScanInv, ScanHere
  <2>2. ~failed /\ seen = 0..(TestNonces - 1)
    BY <2>1 DEF ScanInv, SeenHere
  <2>3. /\ seen = Nonces /\ Cardinality(seen) = Len(delivered)
        /\ \A i \in 1..Len(delivered) : delivered[i].good = TRUE
    BY <2>2 DEF ScanInv, SeenHere
  <2>4. Cardinality(0..(TestNonces - 1)) = TestNonces
    <3>1. 0 \in Int /\ TestNonces - 1 \in Int /\ ~(0 > TestNonces - 1) /\ (TestNonces - 1) - 0 + 1 = TestNonces
      BY <2>1
    <3> QED BY <3>1, FS_Interval
  <2>5. ASSUME NEW n \in 0..(TestNonces - 1)
        PROVE  \E i \in 1..Len(delivered) : delivered[i] = [nonce |-> n, good |-> TRUE]
    <3>1. PICK i \in 1..Len(delivered) : delivered[i].nonce = n
      BY <2>2, <2>3 DEF Nonces
    <3>2. delivered[i] \in Entry
      BY ElementOfSeq DEF ScanInv, TypeOK
    <3>3. delivered[i].good = TRUE
      BY <2>3
    <3>4. delivered[i] = [nonce |-> n, good |-> TRUE]
      BY <3>1, <3>2, <3>3 DEF Entry
    <3> QED BY <3>4
  <2> QED BY <2>2, <2>3, <2>4, <2>5
<1> QED BY <1>1, ScanInvariant, PTL
=============================================================================
