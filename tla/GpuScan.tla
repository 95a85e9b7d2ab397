------------------------------- MODULE GpuScan -------------------------------
(***************************************************************************)
(* A scan of a nonce range on a GPU: opencl_miner_scan and cuda_miner_scan *)
(* with the kernels they launch, and the self-test built on them.  The     *)
(* host clears a counter, launches one work-item per group of nonces and,  *)
(* when all are done, reads the counter and that many entries of the       *)
(* result buffer.  The work-items run concurrently and meet only in        *)
(* store_match_words.  Words have Word values and wrap round, as the       *)
(* kernels' u32 do; the host computes the grid in 64 bits.                 *)
(***************************************************************************)
EXTENDS Integers, Sequences, FiniteSets, FiniteSetsExt

CONSTANTS
    Word,            \* 2^32, the values of a kernel word
    Kernels,         \* kernels: set of [kind, npi], see KernelRecord
    Groups,          \* local work sizes or threads per block
    Counts,          \* numbers of nonces a scan is asked for
    MaxResults,      \* max_results of a miner
    TestNonces,      \* 16, nonces of a self-test
    TestResults,     \* 32, max_results of a self-test
    MaxHits,         \* bound on the nonces whose hash meets the target
    MaxScans         \* bound on the scans of a device

(* "bounded": scan_nonce_range of OpenCL, which compares the work-item's   *)
(* number with their count; "ranged": the CUDA kernels, which compare its  *)
(* first nonce; "clipped": the CUDA kernels for 1, 2 or 4 nonces, which    *)
(* take what is left of the range; "fixed": the OpenCL ones.               *)
KernelRecord == [kind : {"bounded", "ranged", "clipped", "fixed"}, npi : Nat \ {0}]

ASSUME ScanAssumption ==
    /\ Word \in Nat \ {0} /\ Kernels \subseteq KernelRecord
    /\ Groups \subseteq Nat \ {0} /\ Counts \subseteq 1..(Word - 1)
    /\ MaxResults \in Nat \ {0} /\ TestNonces \in 1..(Word - 1)
    /\ TestResults \in Nat /\ TestResults >= TestNonces
    /\ MaxHits \in Nat /\ MaxScans \in Nat

U32(x) == x % Word

VARIABLES
    test,            \* the scan is a self-test
    sane,            \* the device hashes correctly and misses nothing
    host,            \* where the host thread is
    kernel, group,   \* what the device was created with
    nonce_count,     \* of the current scan; nonces are offsets from start_nonce
    hits,            \* the offsets whose hash meets the target
    count_buf,       \* the result counter in device memory
    matches,         \* the result buffer: index -> entry
    todo,            \* todo[g]: offsets work-item g has yet to report
    claim,           \* claim[g]: the index it has drawn for the first of them
    delivered,       \* entries passed to on_match by the current scan
    rc,              \* what the scan returned
    seen, failed,    \* opencl_self_test_context_t
    scans            \* scans so far

vars == <<test, sane, host, kernel, group, nonce_count, hits, count_buf, matches, todo, claim,
          delivered, rc, seen, failed, scans>>

NoClaim == -1
Entry   == [nonce : Nat, good : BOOLEAN]
Unwritten == [nonce |-> Word, good |-> FALSE]   \* device memory as allocated

max_results == IF test THEN TestResults ELSE MaxResults

-----------------------------------------------------------------------------
(* The grid and the nonces of a work-item. *)

WorkItems(count, npi) == (count + npi - 1) \div npi

(* Work-items launched: a whole number of groups. *)
Global(count, npi, size) == ((WorkItems(count, npi) + size - 1) \div size) * size

(* The first offset of a work-item, and how many follow it in the range. *)
Base(k, gid) == U32(gid * k.npi)
Limit(k, gid, count) ==
    IF U32(Base(k, gid) + k.npi) > count THEN count - Base(k, gid) ELSE k.npi

(* scan_nonce_range: the work-item compares its number with their count. *)
BoundedOffsets(k, gid, count) ==
    IF U32(gid) >= U32(((count - 1) \div k.npi) + 1) THEN {}
    ELSE {U32(Base(k, gid) + i) : i \in 0..(Limit(k, gid, count) - 1)}

(* The CUDA kernels that are told the number of nonces. *)
RangedOffsets(k, gid, count) ==
    IF Base(k, gid) >= count THEN {}
    ELSE {U32(Base(k, gid) + i) : i \in 0..(Limit(k, gid, count) - 1)}

(* The CUDA kernels for a fixed number: nothing is added to the base. *)
ClippedOffsets(k, gid, count) ==
    LET left  == count - Base(k, gid)
        limit == IF left > k.npi THEN k.npi ELSE left
    IN  IF Base(k, gid) >= count THEN {}
        ELSE {U32(Base(k, gid) + i) : i \in 0..(limit - 1)}

(* scan_nonce_range_npi1, 2 and 4: every offset is compared. *)
FixedOffsets(k, gid, count) ==
    {n \in {U32(Base(k, gid) + i) : i \in 0..(k.npi - 1)} : Base(k, gid) < count /\ n < count}

(* Faulty variant: the last work-item is not clipped to the range.         *)
OffsetsUnclipped(k, gid, count) ==
    IF Base(k, gid) >= count THEN {} ELSE {U32(Base(k, gid) + i) : i \in 0..(k.npi - 1)}

(* The offsets work-item gid hashes. *)
Offsets(k, gid, count) ==
    CASE k.kind = "bounded" -> BoundedOffsets(k, gid, count)
      [] k.kind = "ranged"  -> RangedOffsets(k, gid, count)
      [] k.kind = "clipped" -> ClippedOffsets(k, gid, count)
      [] k.kind = "fixed"   -> FixedOffsets(k, gid, count)

Items == 0..(Global(nonce_count, kernel.npi, group) - 1)

-----------------------------------------------------------------------------
(* The host. *)

(* Kernels and local sizes are those of a created device; only one that   *)
(* passed its self-test is asked to mine.                                  *)
Init ==
    /\ test \in BOOLEAN /\ sane \in {TRUE, ~test}
    /\ host = "idle"
    /\ kernel \in Kernels /\ group \in Groups
    /\ nonce_count = 0 /\ hits = {}
    /\ count_buf = 0
    /\ matches = [i \in 0..(max_results - 1) |-> Unwritten]
    /\ todo = << >> /\ claim = << >>
    /\ delivered = << >> /\ rc = 0
    /\ seen = {} /\ failed = FALSE
    /\ scans = 0

Device == UNCHANGED <<test, sane, kernel, group>>

(* The nonces, of the range or not, whose hash meets a target. *)
Targets == {h \in SUBSET (0..(Word - 1)) : Cardinality(h) <= MaxHits}

(* The caller asks for a scan.  A self-test has a target every hash meets. *)
Call ==
    /\ host = "idle" /\ scans < MaxScans
    /\ nonce_count' \in IF test THEN {TestNonces} ELSE Counts
    /\ hits' \in IF test THEN {0..(Word - 1)} ELSE Targets
    /\ host' = "reset" /\ scans' = scans + 1
    /\ delivered' = << >> /\ seen' = {} /\ failed' = FALSE
    /\ UNCHANGED <<count_buf, matches, todo, claim, rc>> /\ Device

Return(status) ==
    /\ host' = "idle" /\ rc' = status
    /\ UNCHANGED <<nonce_count, hits, todo, claim, delivered, seen, failed, scans>> /\ Device

(* Faulty variant: the counter keeps what the last scan left in it.        *)
ResetKeepsCount ==
    host = "reset" /\ host' = "launch"
    /\ UNCHANGED <<nonce_count, hits, count_buf, matches, todo, claim, delivered, rc, seen, failed, scans>>
    /\ Device

Reset ==
    /\ host = "reset" /\ host' = "launch" /\ count_buf' = 0
    /\ UNCHANGED <<nonce_count, hits, matches, todo, claim, delivered, rc, seen, failed, scans>>
    /\ Device

(* The counter cannot be written, an argument not be set or the kernel not *)
(* be launched.  The OpenCL write does not block and reads a local of the  *)
(* function that returns: the counter may end up with any value.           *)
SetupFails ==
    /\ host \in {"reset", "launch"}
    /\ count_buf' \in IF host = "launch" THEN 0..max_results ELSE {count_buf}
    /\ UNCHANGED matches /\ Return(-1)

Launch ==
    /\ host = "launch" /\ host' = "running"
    /\ todo' = [g \in Items |-> Offsets(kernel, g, nonce_count) \cap hits]
    /\ claim' = [g \in Items |-> NoClaim]
    /\ UNCHANGED <<nonce_count, hits, count_buf, matches, delivered, rc, seen, failed, scans>>
    /\ Device

(* cuCtxSynchronize or the first blocking read of the in-order queue. *)
Finished == \A g \in DOMAIN todo : todo[g] = {}

Synchronize ==
    /\ host = "running" /\ Finished
    /\ host' = "read"
    /\ UNCHANGED <<nonce_count, hits, count_buf, matches, todo, claim, delivered, rc, seen, failed, scans>>
    /\ Device

(* A call fails while or after the kernel runs; what follows in the queue  *)
(* waits for the kernel.                                                   *)
ReadFails ==
    /\ host \in {"running", "read"} /\ Finished
    /\ UNCHANGED <<count_buf, matches>> /\ Return(-1)

(* The entries the host reads back. *)
Reported == IF count_buf < max_results THEN count_buf ELSE max_results

(* opencl_self_test_match and cuda_self_test_match on one entry. *)
TestMatch(e) ==
    /\ seen' = seen \cup ({e.nonce} \cap 0..(nonce_count - 1))
    /\ failed' = (failed \/ e.nonce \notin 0..(nonce_count - 1) \/ e.nonce \in seen \/ ~e.good)

(* on_match on the next entry of the buffer. *)
Callback ==
    /\ host = "read" /\ Len(delivered) < Reported
    /\ LET e == matches[Len(delivered)]
       IN  /\ delivered' = Append(delivered, e)
           /\ IF test THEN TestMatch(e) ELSE UNCHANGED <<seen, failed>>
    /\ UNCHANGED <<host, nonce_count, hits, count_buf, matches, todo, claim, rc, scans>> /\ Device

(* Faulty variant: the self-test does not ask whether every nonce came.    *)
TestPassesUnlessFailed == ~failed

TestPasses == ~failed /\ seen = 0..(nonce_count - 1)

ScanReturns ==
    /\ host = "read" /\ Len(delivered) = Reported
    /\ UNCHANGED <<count_buf, matches>>
    /\ Return(IF test /\ ~TestPasses THEN -1 ELSE 0)

-----------------------------------------------------------------------------
(* The work-items. *)

(* store_match_words: atomic_inc hands out an index, for the first offset  *)
(* that is left ...                                                        *)
Draw(g) ==
    /\ host = "running" /\ claim[g] = NoClaim /\ todo[g] # {}
    /\ claim' = [claim EXCEPT ![g] = count_buf]
    /\ count_buf' = count_buf + 1
    /\ UNCHANGED <<host, nonce_count, hits, matches, todo, delivered, rc, seen, failed, scans>>
    /\ Device

(* Faulty variant: an index past the buffer is written to as well.         *)
InBufferAlways(idx) == idx >= 0

InBuffer(idx) == idx < max_results

(* ... and the entry is written there when the buffer has room for it.  A  *)
(* device that is not sane may write a wrong hash.  The order in which one *)
(* work-item takes its offsets does not matter.                            *)
Store(g) ==
    /\ host = "running" /\ claim[g] # NoClaim
    /\ \E good \in {TRUE, sane} :
         matches' = IF InBuffer(claim[g])
                    THEN [i \in DOMAIN matches \cup {claim[g]} |->
                            IF i = claim[g] THEN [nonce |-> Min(todo[g]), good |-> good] ELSE matches[i]]
                    ELSE matches
    /\ todo' = [todo EXCEPT ![g] = @ \ {Min(@)}]
    /\ claim' = [claim EXCEPT ![g] = NoClaim]
    /\ UNCHANGED <<host, nonce_count, hits, count_buf, delivered, rc, seen, failed, scans>>
    /\ Device

(* It may also miss a hash that meets the target. *)
Miss(g) ==
    /\ host = "running" /\ ~sane /\ claim[g] = NoClaim /\ todo[g] # {}
    /\ todo' = [todo EXCEPT ![g] = @ \ {Min(@)}]
    /\ UNCHANGED <<host, nonce_count, hits, count_buf, matches, claim, delivered, rc, seen, failed, scans>>
    /\ Device

WorkItem == host = "running" /\ \E g \in Items : Draw(g) \/ Store(g) \/ Miss(g)

Quiet == host = "idle" /\ scans = MaxScans /\ UNCHANGED vars

Next ==
    \/ Call \/ Reset \/ SetupFails \/ Launch \/ Synchronize \/ ReadFails
    \/ Callback \/ ScanReturns \/ WorkItem \/ Quiet

Spec == Init /\ [][Next]_vars

-----------------------------------------------------------------------------
(* Properties.                                                             *)

(* Values of the host's and the device's variables. *)
TypeOK ==
    /\ test \in BOOLEAN /\ sane \in BOOLEAN
    /\ host \in {"idle", "reset", "launch", "running", "read"}
    /\ kernel \in Kernels /\ group \in Groups
    /\ nonce_count \in Counts \cup {0, TestNonces} /\ hits \subseteq 0..(Word - 1)
    /\ count_buf \in Nat
    /\ matches \in [0..(max_results - 1) -> Entry]
    /\ delivered \in Seq(Entry) /\ rc \in {0, -1}
    /\ seen \subseteq Nat /\ failed \in BOOLEAN /\ scans \in 0..MaxScans

Requested == 0..(nonce_count - 1)
Hashed    == UNION {Offsets(kernel, g, nonce_count) : g \in Items}

(* The words of the kernels hold every number of the grid. *)
GridFits == Global(nonce_count, kernel.npi, group) * kernel.npi < Word

(* Every nonce of the range is hashed, for every kernel, group size and    *)
(* number of nonces a scan can be asked for, the ones next to 2^32 that    *)
(* make the kernels' words wrap included.                                  *)
RangeCovered == nonce_count > 0 => Requested \subseteq Hashed

(* Where no word wraps, every nonce is hashed by one work-item and none    *)
(* outside the range is: the last work-item is clipped and the ones that   *)
(* fill up the last group do nothing.                                      *)
CoversRangeOnce ==
    nonce_count > 0 /\ GridFits =>
        /\ Hashed = Requested
        /\ \A g, h \in Items :
              g # h => Offsets(kernel, g, nonce_count) \cap Offsets(kernel, h, nonce_count) = {}

Nonces == {delivered[i].nonce : i \in 1..Len(delivered)}

(* Whatever an earlier scan left in the counter and the buffer, and        *)
(* whether or not words wrap, a scan that returns 0 has reported matches   *)
(* of its own job only (lines 1608-1627 of opencl_miner.c).                *)
MatchesGenuine == host = "idle" /\ scans > 0 /\ rc = 0 => Nonces \subseteq hits

(* Where no word wraps, whatever the order of the work-items, it has       *)
(* reported matches of its own range, none twice, and all of them unless   *)
(* there are more than max_results.                                        *)
MatchesReportedOnce ==
    host = "idle" /\ scans > 0 /\ rc = 0 /\ sane /\ GridFits =>
        LET wanted == Cardinality(hits \cap Requested)
        IN  /\ Nonces \subseteq Requested
            /\ Cardinality(Nonces) = Len(delivered)
            /\ Len(delivered) = IF wanted < max_results THEN wanted ELSE max_results

(* A self-test that passes has seen the right hash of every nonce of its   *)
(* range, once each, whatever a device that is not sane does.              *)
SelfTestSound ==
    host = "idle" /\ test /\ scans > 0 /\ rc = 0 =>
        /\ \A n \in 0..(TestNonces - 1) :
              \E i \in 1..Len(delivered) : delivered[i] = [nonce |-> n, good |-> TRUE]
        /\ Len(delivered) = TestNonces

(* A scan is sound: the grid of work-items covers the range, once where no *)
(* word wraps, and what it reports is what it found, whatever earlier      *)
(* scans left behind.                                                      *)
ScanSound == TypeOK /\ RangeCovered /\ CoversRangeOnce /\ MatchesGenuine /\ MatchesReportedOnce

(* "CPU, OpenCL, and CUDA workers share one nonce allocator, so ranges do  *)
(* not overlap" (README.md:328): a device reports no match of a nonce that *)
(* is not of the range it was given.  Batches of up to 2^32 - 1 nonces are *)
(* accepted, and base_nonce + limit then wraps (line 410 of                *)
(* opencl_miner.c).                                                        *)
StaysInRange == host = "idle" /\ scans > 0 /\ rc = 0 /\ sane => Nonces \subseteq Requested
=============================================================================
