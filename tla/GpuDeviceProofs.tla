-------------------------- MODULE GpuDeviceProofs --------------------------
(***************************************************************************)
(* Proofs about GpuDevice: whatever driver call fails, for any devices and *)
(* any configuration, no driver object is lost or released out of order,   *)
(* and a device mines with the kernel that its self-test used.             *)
(***************************************************************************)
EXTENDS GpuDevice, SequenceTheorems, TLAPS

Working == {"select", "create", "destroy"}

(* What the first calls of a creation have acquired before its n-th call.  *)
Acquired(n) == {o \in Objects : \E k \in 1..(n - 1) : k <= Len(Calls) /\ Calls[k] = o}

ApiObjects ==
    IF Opencl THEN Objects \ {"module"}
    ELSE {"context", "module", "count_buf", "matches_buf", "matches"}

(* The structs of the devices in work and started name objects of their    *)
(* API, and no other struct names any.                                     *)
Owned ==
    /\ \A i \in Slots : held[i] \subseteq ApiObjects
    /\ \A i \in Slots : held[i] # {} => \/ i = slot /\ at \in {"create", "destroy"}
                                       \/ \E s \in started : s.slot = i
    /\ at \in {"idle", "resolve"} => started = {}
    /\ \A s \in started : s.slot < slot

(* The slots still to fill are enough for the devices still to probe. *)
RoomLeft ==
    /\ at = "resolve" => slot = 1
    /\ at \in Working => pending # << >> /\ slot + Len(pending) <= MaxDevices + 1

(* How far a creation is tells what it holds. *)
Holding == Acquired(step)

HeldHere == at = "create" => step >= 1 /\ held[slot] = Holding

(* The creations of a device, for the test and for mining, start from the  *)
(* same choices, and its compiler decides which kernel they end with.      *)
Fallback(m) == [m EXCEPT !.kernel = "compact"]

Choice == Made(InWork)

Outcome ==
    IF Opencl /\ setup.kernel = "auto" /\ "unrolled" \notin InWork.compiles
    THEN Fallback(Choice) ELSE Choice

Chosen == at \in {"create", "destroy"} \/ (at = "select" /\ purpose = "mine")

DeviceHere ==
    Chosen => Head(pending) \in 1..Len(setup.hardware) /\ Usable(Choice)

MadeHere ==
    at = "create" =>
        \/ made = Choice
        \/ /\ Opencl /\ setup.kernel = "auto" /\ made = Fallback(Choice)
           /\ ~flaky => "unrolled" \notin InWork.compiles

BuiltHere == at = "create" /\ Opencl /\ step > 4 => made.kernel \in InWork.compiles

TestedHere ==
    Chosen /\ (purpose = "mine" \/ (at = "destroy" /\ step = 1)) /\ ~flaky => tested = Outcome

Counted == \A i \in Slots, o \in Objects : live[i][o] = IF o \in held[i] THEN 1 ELSE 0

ObjectInv == Counted /\ ContextLast /\ Owned /\ RoomLeft /\ HeldHere
KernelInv == DeviceHere /\ MadeHere /\ BuiltHere /\ TestedHere /\ NpiAgrees /\ TestedKernelMines

(* The configuration stays one of those the program was started with. *)
Typed == setup \in Setups /\ DeviceTypeOK

DeviceInv == Typed /\ ObjectInv /\ KernelInv

-----------------------------------------------------------------------------
(* The tables of driver calls.                                             *)

(* The calls of opencl_miner_create and cuda_miner_create, one by one. *)
LEMMA CallTable ==
    /\ Opencl => /\ Len(Calls) = 8
                 /\ Calls[1] = "context" /\ Calls[2] = "queue" /\ Calls[3] = "program"
                 /\ Calls[4] = "build" /\ Calls[5] = "kernel" /\ Calls[6] = "count_buf"
                 /\ Calls[7] = "matches_buf" /\ Calls[8] = "matches"
    /\ ~Opencl => /\ Len(Calls) = 6
                  /\ Calls[1] = "context" /\ Calls[2] = "module" /\ Calls[3] = "function"
                  /\ Calls[4] = "count_buf" /\ Calls[5] = "matches_buf" /\ Calls[6] = "matches"
<1>1. CASE Opencl
  BY <1>1 DEF Calls
<1>2. CASE ~Opencl
  BY <1>2 DEF Calls
<1> QED BY <1>1, <1>2

(* The releases of opencl_miner_destroy and cuda_miner_destroy. *)
LEMMA ReleaseTable ==
    /\ Opencl => /\ Len(ReleaseOrder) = 7
                 /\ ReleaseOrder[1] = "matches" /\ ReleaseOrder[2] = "matches_buf"
                 /\ ReleaseOrder[3] = "count_buf" /\ ReleaseOrder[4] = "kernel"
                 /\ ReleaseOrder[5] = "program" /\ ReleaseOrder[6] = "queue"
                 /\ ReleaseOrder[7] = "context"
    /\ ~Opencl => /\ Len(ReleaseOrder) = 5
                  /\ ReleaseOrder[1] = "matches_buf" /\ ReleaseOrder[2] = "count_buf"
                  /\ ReleaseOrder[3] = "module" /\ ReleaseOrder[4] = "context"
                  /\ ReleaseOrder[5] = "matches"
<1>1. CASE Opencl
  BY <1>1 DEF ReleaseOrder
<1>2. CASE ~Opencl
  BY <1>2 DEF ReleaseOrder
<1> QED BY <1>1, <1>2

(* No call acquires what is already held; nothing is made before its       *)
(* context, and all of it belongs to the API.                              *)
LEMMA AcquiredFacts ==
    /\ Acquired(1) = {}
    /\ \A n \in 1..Len(Calls) :
         /\ Acquired(n + 1) = Acquired(n) \cup ({Calls[n]} \cap Objects)
         /\ Calls[n] \notin Acquired(n)
    /\ \A n \in 1..(Len(Calls) + 1) :
         /\ Acquired(n) \subseteq ApiObjects
         /\ "context" \notin Acquired(n) => Acquired(n) = {}
<1>1. Acquired(1) = {}
  BY DEF Acquired
<1>2. Len(Calls) \in Nat
  BY CallTable
<1>3. ASSUME NEW n \in 1..Len(Calls)
      PROVE  Acquired(n + 1) = Acquired(n) \cup ({Calls[n]} \cap Objects)
  <2>1. \A k : k \in 1..((n + 1) - 1) /\ k <= Len(Calls) <=> (k \in 1..(n - 1) /\ k <= Len(Calls)) \/ k = n
    BY <1>2
  <2> QED BY <2>1 DEF Acquired
<1>4. ASSUME NEW n \in 1..Len(Calls)
      PROVE  Calls[n] \notin Acquired(n)
  <2>1. \A k \in 1..(n - 1) : Calls[k] # Calls[n]
    <3>1. CASE Opencl
      <4>1. n \in 1..8
        BY <3>1, CallTable
      <4>2. n \in {1, 2, 3, 4, 5, 6, 7, 8}
        BY <4>1
      <4> QED BY <3>1, <4>2, CallTable
    <3>2. CASE ~Opencl
      <4>1. n \in 1..6
        BY <3>2, CallTable
      <4>2. n \in {1, 2, 3, 4, 5, 6}
        BY <4>1
      <4> QED BY <3>2, <4>2, CallTable
    <3> QED BY <3>1, <3>2
  <2> QED BY <2>1 DEF Acquired
<1>5. ASSUME NEW n \in 1..(Len(Calls) + 1)
      PROVE  /\ Acquired(n) \subseteq ApiObjects
             /\ "context" \notin Acquired(n) => Acquired(n) = {}
  <2>1. \A k \in 1..Len(Calls) : Calls[k] \in Objects => Calls[k] \in ApiObjects
    <3>1. CASE Opencl
      <4>1. Len(Calls) = 8
        BY <3>1, CallTable
      <4>2. 1..Len(Calls) = {1, 2, 3, 4, 5, 6, 7, 8}
        BY <4>1
      <4> QED BY <3>1, <4>2, CallTable DEF ApiObjects, Objects
    <3>2. CASE ~Opencl
      <4>1. Len(Calls) = 6
        BY <3>2, CallTable
      <4>2. 1..Len(Calls) = {1, 2, 3, 4, 5, 6}
        BY <4>1
      <4> QED BY <3>2, <4>2, CallTable DEF ApiObjects, Objects
    <3> QED BY <3>1, <3>2
  <2>2. Acquired(n) \subseteq ApiObjects
    BY <2>1, <1>2 DEF Acquired
  <2>3. ASSUME NEW o \in Acquired(n)
        PROVE  "context" \in Acquired(n)
    <3>1. 1 \in 1..(n - 1) /\ 1 <= Len(Calls)
      BY <1>2 DEF Acquired
    <3>2. Calls[1] = "context" /\ "context" \in Objects
      BY CallTable DEF Objects
    <3> QED BY <3>1, <3>2 DEF Acquired
  <2> QED BY <2>2, <2>3
<1> QED BY <1>1, <1>3, <1>4, <1>5

(* release_program_objects goes back to what the context and the queue     *)
(* left: the second build starts from the state of the first.              *)
LEMMA AcquiredBeforeBuild ==
    ASSUME Opencl, NEW n \in {3, 4, 5}
    PROVE  Acquired(n) \ ({"program", "kernel"} \cap Acquired(n)) = Acquired(3)
<1>1. Acquired(3) = {"context", "queue"}
  BY CallTable DEF Acquired, Objects
<1>2. Acquired(4) = {"context", "queue", "program"}
  BY CallTable DEF Acquired, Objects
<1>3. Acquired(5) = {"context", "queue", "program"}
  BY CallTable DEF Acquired, Objects
<1> QED BY <1>1, <1>2, <1>3

(* A destruction releases something it holds, and the context only when    *)
(* nothing made in it is left.                                             *)
LEMMA NextReleaseFacts ==
    ASSUME NEW i \in Slots, held[i] \subseteq ApiObjects, held[i] # {}
    PROVE  /\ NextRelease(i) \in held[i]
           /\ NextRelease(i) = "context" => held[i] \subseteq {"context", "matches"}
<1> DEFINE P(k) == /\ ReleaseOrder[k] \in held[i]
                   /\ \A j \in 1..(k - 1) : ReleaseOrder[j] \notin held[i]
<1>0. /\ 1..0 = {} /\ 1..1 = {1} /\ 1..2 = {1, 2} /\ 1..3 = {1, 2, 3} /\ 1..4 = {1, 2, 3, 4}
      /\ 1..5 = {1, 2, 3, 4, 5} /\ 1..6 = {1, 2, 3, 4, 5, 6}
  OBVIOUS
<1>1. \E k \in 1..Len(ReleaseOrder) : P(k)
  <2>1. CASE Opencl
    <3>1. Objects \ {"module"} = {"matches", "matches_buf", "count_buf", "kernel", "program", "queue", "context"}
      BY DEF Objects
    <3>2. held[i] \subseteq {"matches", "matches_buf", "count_buf", "kernel", "program", "queue", "context"}
      BY <2>1, <3>1 DEF ApiObjects
    <3>3. SUFFICES ASSUME \A k \in 1..7 : ~P(k) PROVE FALSE
      BY <2>1, ReleaseTable
    <3>4. ReleaseOrder[1] \notin held[i]
      BY <3>3, <1>0
    <3>5. ReleaseOrder[2] \notin held[i]
      BY <3>3, <1>0, <3>4
    <3>6. ReleaseOrder[3] \notin held[i]
      BY <3>3, <1>0, <3>4, <3>5
    <3>7. ReleaseOrder[4] \notin held[i]
      BY <3>3, <1>0, <3>4, <3>5, <3>6
    <3>8. ReleaseOrder[5] \notin held[i]
      BY <3>3, <1>0, <3>4, <3>5, <3>6, <3>7
    <3>9. ReleaseOrder[6] \notin held[i] /\ ReleaseOrder[7] \notin held[i]
      BY <3>3, <1>0, <3>4, <3>5, <3>6, <3>7, <3>8
    <3> QED BY <2>1, <3>2, <3>4, <3>5, <3>6, <3>7, <3>8, <3>9, ReleaseTable
  <2>2. CASE ~Opencl
    <3>1. held[i] \subseteq {"matches_buf", "count_buf", "module", "context", "matches"}
      BY <2>2 DEF ApiObjects
    <3>3. SUFFICES ASSUME \A k \in 1..5 : ~P(k) PROVE FALSE
      BY <2>2, ReleaseTable
    <3>4. ReleaseOrder[1] \notin held[i]
      BY <3>3, <1>0
    <3>5. ReleaseOrder[2] \notin held[i]
      BY <3>3, <1>0, <3>4
    <3>6. ReleaseOrder[3] \notin held[i]
      BY <3>3, <1>0, <3>4, <3>5
    <3>7. ReleaseOrder[4] \notin held[i]
      BY <3>3, <1>0, <3>4, <3>5, <3>6
    <3>8. ReleaseOrder[5] \notin held[i]
      BY <3>3, <1>0, <3>4, <3>5, <3>6, <3>7
    <3> QED BY <2>2, <3>1, <3>4, <3>5, <3>6, <3>7, <3>8, ReleaseTable
  <2> QED BY <2>1, <2>2
<1> DEFINE c == CHOOSE k \in 1..Len(ReleaseOrder) : P(k)
<1>2. c \in 1..Len(ReleaseOrder) /\ P(c)
  BY <1>1
<1>3. NextRelease(i) = ReleaseOrder[c]
  BY DEF NextRelease
<1> HIDE DEF c
<1>4. ASSUME ReleaseOrder[c] = "context"
      PROVE  held[i] \subseteq {"context", "matches"}
  <2>1. CASE Opencl
    <3>1. c = 7
      BY <2>1, <1>2, <1>4, ReleaseTable
    <3>2. \A j \in 1..6 : ReleaseOrder[j] \notin held[i]
      BY <3>1, <1>2
    <3> QED BY <2>1, <3>2, ReleaseTable DEF ApiObjects, Objects
  <2>2. CASE ~Opencl
    <3>1. c = 4
      BY <2>2, <1>2, <1>4, ReleaseTable
    <3>2. \A j \in 1..3 : ReleaseOrder[j] \notin held[i]
      BY <3>1, <1>2
    <3> QED BY <2>2, <3>2, ReleaseTable DEF ApiObjects, Objects
  <2> QED BY <2>1, <2>2
<1> QED BY <1>2, <1>3, <1>4

-----------------------------------------------------------------------------
(* What a creation chooses.                                                *)

(* The fields of a configuration. *)
LEMMA SetupFacts ==
    ASSUME setup \in Setups
    PROVE  /\ setup.api \in {"opencl", "cuda"} /\ setup.npi \in Nat /\ setup.group \in Nat
           /\ setup.backend \in {"auto", "compat10", "modern"}
           /\ setup.hardware \in Seq(HardwareRecord)
           /\ setup.wanted \in Seq(Nat) /\ setup.wanted # << >>
           /\ Opencl => setup.kernel \in OpenclKernels \cup {"auto"}
           /\ ~Opencl => setup.kernel \in CudaKernels
BY DeviceAssumption DEF SetupRecord, Opencl

(* choose_local_work_size never passes the largest group of the device. *)
LEMMA LocalWorkSizeFacts ==
    ASSUME NEW n \in Nat, NEW hw \in HardwareRecord
    PROVE  /\ LocalWorkSize(n, hw) \in Nat
           /\ hw.max_group > 0 => LocalWorkSize(n, hw) \in 1..hw.max_group
<1> DEFINE max  == hw.max_group
           fits == {c \in {1, 2, 4, 8, 16, 32, 64, 128, 256, 512} : c <= max}
<1>1. max \in Nat /\ hw.preferred \in {128, 256}
  BY DEF HardwareRecord
<1>2. ASSUME max > 0
      PROVE  (CHOOSE c \in fits : \A e \in fits : e <= c) \in 1..max
  <2>1. \E c \in fits : \A e \in fits : e <= c
    <3> HIDE DEF max
    <3>1. CASE max >= 512
      <4>1. 512 \in fits /\ \A e \in fits : e <= 512
        BY <1>1, <3>1
      <4> QED BY <4>1
    <3>2. CASE 256 <= max /\ max < 512
      <4>1. 256 \in fits /\ \A e \in fits : e <= 256
        BY <1>1, <3>2
      <4> QED BY <4>1
    <3>3. CASE 128 <= max /\ max < 256
      <4>1. 128 \in fits /\ \A e \in fits : e <= 128
        BY <1>1, <3>3
      <4> QED BY <4>1
    <3>4. CASE 64 <= max /\ max < 128
      <4>1. 64 \in fits /\ \A e \in fits : e <= 64
        BY <1>1, <3>4
      <4> QED BY <4>1
    <3>5. CASE 32 <= max /\ max < 64
      <4>1. 32 \in fits /\ \A e \in fits : e <= 32
        BY <1>1, <3>5
      <4> QED BY <4>1
    <3>6. CASE 16 <= max /\ max < 32
      <4>1. 16 \in fits /\ \A e \in fits : e <= 16
        BY <1>1, <3>6
      <4> QED BY <4>1
    <3>7. CASE 8 <= max /\ max < 16
      <4>1. 8 \in fits /\ \A e \in fits : e <= 8
        BY <1>1, <3>7
      <4> QED BY <4>1
    <3>8. CASE 4 <= max /\ max < 8
      <4>1. 4 \in fits /\ \A e \in fits : e <= 4
        BY <1>1, <3>8
      <4> QED BY <4>1
    <3>9. CASE 2 <= max /\ max < 4
      <4>1. 2 \in fits /\ \A e \in fits : e <= 2
        BY <1>1, <3>9
      <4> QED BY <4>1
    <3>10. CASE max = 1
      <4>1. 1 \in fits /\ \A e \in fits : e <= 1
        BY <1>1, <3>10
      <4> QED BY <4>1
    <3> HIDE DEF fits
    <3> QED BY <1>1, <1>2, <3>1, <3>2, <3>3, <3>4, <3>5, <3>6, <3>7, <3>8, <3>9, <3>10
  <2>2. \A c \in fits : c \in 1..max
    BY <1>1
  <2> HIDE DEF fits
  <2> QED BY <2>1, <2>2
<1> HIDE DEF fits
<1> DEFINE best == CHOOSE c \in fits : \A e \in fits : e <= c
<1>3. LocalWorkSize(n, hw) =
        IF n # 0 THEN IF max > 0 /\ n > max THEN max ELSE n
        ELSE IF max = 0 THEN 0 ELSE IF hw.preferred <= max THEN hw.preferred ELSE best
  BY DEF LocalWorkSize, fits
<1> HIDE DEF best, max
<1>4. max > 0 => best \in 1..max
  BY <1>2 DEF best
<1>5. LocalWorkSize(n, hw) \in Nat /\ (max > 0 => LocalWorkSize(n, hw) \in 1..max)
  BY <1>1, <1>3, <1>4
<1> QED BY <1>5 DEF max

(* clamp_threads_per_block gives whole warps. *)
LEMMA ClampThreadsFacts ==
    ASSUME NEW n \in Nat
    PROVE  ClampThreads(n) \in 32..1024 /\ ClampThreads(n) % 32 = 0
<1> DEFINE w == IF n = 0 THEN 256 ELSE n
           q == (w + 31) \div 32
<1>1. w \in Nat
  OBVIOUS
<1>2. ASSUME w >= 32, w <= 1024
      PROVE  q \in 1..32
  BY <1>1, <1>2
<1>3. \A k \in 1..32 : k * 32 \in 32..1024 /\ (k * 32) % 32 = 0
  OBVIOUS
<1> HIDE DEF q
<1>4. ClampThreads(n) = IF w < 32 THEN 32 ELSE IF w > 1024 THEN 1024 ELSE q * 32
  BY DEF ClampThreads, q
<1> HIDE DEF w
<1>5. CASE w < 32
  BY <1>4, <1>5
<1>6. CASE w > 1024
  BY <1>1, <1>4, <1>6
<1>7. CASE w >= 32 /\ w <= 1024
  BY <1>1, <1>2, <1>3, <1>4, <1>7
<1> QED BY <1>1, <1>5, <1>6, <1>7

(* A choice is sound for a device: kernel, version, group and number of    *)
(* nonces agree.                                                           *)
SoundChoice(m, hw) ==
    /\ m \in MadeRecord
    /\ m.npi \in 1..MaxNpi /\ ForcedNpi(m.kernel) \in {0, m.npi}
    /\ ModernOnly(m.kernel) => hw.version >= 12
    /\ Opencl => m.kernel \in OpenclKernels /\ (hw.max_group > 0 => m.group \in 1..hw.max_group)
    /\ ~Opencl => m.group \in 32..1024 /\ m.group % 32 = 0

LEMMA MadeIsSound ==
    ASSUME setup \in Setups, NEW hw \in HardwareRecord, Usable(Made(hw))
    PROVE  /\ SoundChoice(Made(hw), hw)
           /\ Opencl /\ setup.kernel = "auto" =>
                Made(hw).kernel = "unrolled" /\ SoundChoice(Fallback(Made(hw)), hw)
<1> DEFINE kernel == IF Opencl /\ setup.kernel = "auto" THEN "unrolled" ELSE setup.kernel
           m == Made(hw)
<1>1. /\ m.kernel = kernel
      /\ m.backend = IF Opencl THEN Backend(hw) ELSE "auto"
      /\ m.npi = IF ForcedNpi(kernel) # 0 THEN ForcedNpi(kernel) ELSE ClampNpi(setup.npi)
      /\ m.group = IF Opencl THEN LocalWorkSize(setup.group, hw) ELSE ClampThreads(setup.group)
      /\ m = [kernel |-> m.kernel, backend |-> m.backend, npi |-> m.npi, group |-> m.group]
  BY DEF Made, MadeFor
<1> HIDE DEF m
<1>2. /\ ForcedNpi(kernel) \in {0, 1, 2, 4}
      /\ ForcedNpi("unrolled") = 0 /\ ForcedNpi("compact") = 0 /\ ~ModernOnly("compact")
  BY DEF ForcedNpi, ModernOnly
<1>3. ClampNpi(setup.npi) \in 1..MaxNpi
  BY DeviceAssumption, SetupFacts DEF ClampNpi
<1>4. m.npi \in 1..MaxNpi /\ ForcedNpi(m.kernel) \in {0, m.npi}
  <2> HIDE DEF kernel
  <2> QED BY <1>1, <1>2, <1>3, DeviceAssumption
<1>5. /\ Opencl => kernel \in OpenclKernels
      /\ ~Opencl => kernel \in CudaKernels /\ ~ModernOnly(kernel)
  BY SetupFacts DEF OpenclKernels, CudaKernels, ModernOnly
<1>6. hw.version \in Nat /\ hw.max_group \in Nat
  BY DEF HardwareRecord, Versions
<1>7. /\ Backend(hw) \in {"modern", "compat10", "none"}
      /\ Backend(hw) = "modern" => hw.version >= 12
  BY <1>6, SetupFacts DEF Backend
<1>8. m.backend # "none" /\ (ModernOnly(m.kernel) => m.backend = "modern")
  BY DEF Usable, m
<1>9. /\ m.group \in Nat
      /\ Opencl => (hw.max_group > 0 => m.group \in 1..hw.max_group)
      /\ ~Opencl => m.group \in 32..1024 /\ m.group % 32 = 0
  <2>1. CASE Opencl
    BY <2>1, <1>1, SetupFacts, LocalWorkSizeFacts
  <2>2. CASE ~Opencl
    <3>1. ClampThreads(setup.group) \in 32..1024 /\ ClampThreads(setup.group) % 32 = 0
      BY SetupFacts, ClampThreadsFacts
    <3> QED BY <2>2, <3>1, <1>1
  <2> QED BY <2>1, <2>2
<1>10. m.backend \in {"auto", "compat10", "modern"}
  BY <1>1, <1>7, <1>8
<1>11. m.kernel \in OpenclKernels \cup CudaKernels \cup {"auto"}
  BY <1>1, <1>5
<1>12. m.npi \in 0..MaxNpi
  BY <1>4, DeviceAssumption
<1>13. m \in MadeRecord
  BY <1>1, <1>9, <1>10, <1>11, <1>12 DEF MadeRecord
<1>14. ModernOnly(m.kernel) => hw.version >= 12
  BY <1>1, <1>5, <1>7, <1>8
<1>15. SoundChoice(m, hw)
  BY <1>1, <1>4, <1>5, <1>9, <1>13, <1>14 DEF SoundChoice
<1>16. ASSUME Opencl, setup.kernel = "auto"
       PROVE  m.kernel = "unrolled" /\ SoundChoice(Fallback(m), hw)
  <2>1. m.kernel = "unrolled"
    BY <1>1, <1>16
  <2>2. /\ Fallback(m).kernel = "compact" /\ Fallback(m).npi = m.npi
        /\ Fallback(m).group = m.group /\ Fallback(m) \in MadeRecord
    BY <1>13 DEF Fallback, MadeRecord, OpenclKernels
  <2> HIDE DEF kernel
  <2>3. "compact" \in OpenclKernels
    BY DEF OpenclKernels
  <2> QED BY <1>2, <1>4, <1>9, <1>16, <2>1, <2>2, <2>3 DEF SoundChoice
<1> QED BY <1>15, <1>16 DEF m

-----------------------------------------------------------------------------
(* Facts for the steps.                                                    *)

(* The configuration never changes, and with it the tables and choices. *)
LEMMA SameSetup ==
    ASSUME setup' = setup
    PROVE  Opencl' = Opencl /\ Calls' = Calls /\ ApiObjects' = ApiObjects
BY DEF Opencl, Calls, ApiObjects

LEMMA SameDevice ==
    ASSUME setup' = setup, pending' = pending
    PROVE  InWork' = InWork /\ Choice' = Choice /\ Outcome' = Outcome
<1>1. InWork' = InWork
  BY DEF InWork
<1>2. Choice' = Choice
  BY <1>1 DEF Choice, Made, MadeFor, Backend, Opencl
<1> QED BY <1>1, <1>2 DEF Outcome, Opencl, Fallback

LEMMA SameHolding ==
    ASSUME setup' = setup, step' = step
    PROVE  Holding' = Holding
BY SameSetup DEF Holding, Acquired

(* Steps that make and release nothing. *)
LEMMA SameObjects ==
    ASSUME DeviceInv, Untouched
    PROVE  Counted' /\ ContextLast' /\ held' \in [Slots -> SUBSET Objects]
           /\ live' \in [Slots -> [Objects -> {0, 1}]]
BY DEF DeviceInv, ObjectInv, Typed, DeviceTypeOK, Counted, ContextLast, Untouched

(* Releasing some of what a device holds keeps count. *)
LEMMA DropFacts ==
    ASSUME DeviceInv, NEW i \in Slots, NEW set \in SUBSET held[i], Drop(i, set)
    PROVE  /\ Counted'
           /\ held' \in [Slots -> SUBSET Objects] /\ live' \in [Slots -> [Objects -> {0, 1}]]
           /\ held'[i] = held[i] \ set /\ \A j \in Slots \ {i} : held'[j] = held[j]
<1>1. held \in [Slots -> SUBSET Objects] /\ live \in [Slots -> [Objects -> {0, 1}]]
  BY DEF DeviceInv, Typed, DeviceTypeOK
<1>2. held' = [held EXCEPT ![i] = held[i] \ set]
  BY DEF Drop
<1>3. live' = [live EXCEPT ![i] = [o \in Objects |-> IF o \in set THEN live[i][o] - 1 ELSE live[i][o]]]
  BY DEF Drop
<1>4. held'[i] = held[i] \ set /\ \A j \in Slots \ {i} : held'[j] = held[j]
  BY <1>1, <1>2
<1>5. \A j \in Slots, o \in Objects : live[j][o] = IF o \in held[j] THEN 1 ELSE 0
  BY DEF DeviceInv, ObjectInv, Counted
<1>6. /\ live'[i] = [o \in Objects |-> IF o \in set THEN live[i][o] - 1 ELSE live[i][o]]
      /\ \A j \in Slots \ {i} : live'[j] = live[j]
  BY <1>1, <1>3
<1>7. ASSUME NEW o \in Objects
      PROVE  live'[i][o] = IF o \in held[i] \ set THEN 1 ELSE 0
  <2>1. live'[i][o] = IF o \in set THEN live[i][o] - 1 ELSE live[i][o]
    BY <1>6
  <2>2. o \in set => o \in held[i]
    OBVIOUS
  <2>3. live[i][o] = IF o \in held[i] THEN 1 ELSE 0
    BY <1>5
  <2> QED BY <2>1, <2>2, <2>3
<1>8. Counted'
  <2> SUFFICES ASSUME NEW j \in Slots, NEW o \in Objects
               PROVE  live'[j][o] = IF o \in held'[j] THEN 1 ELSE 0
    BY DEF Counted
  <2>1. CASE j = i
    BY <1>4, <1>7, <2>1
  <2>2. CASE j # i
    BY <1>4, <1>5, <1>6, <2>2
  <2> QED BY <2>1, <2>2
<1>9. live'[i] \in [Objects -> {0, 1}]
  BY <1>6, <1>7
<1>10. held' \in [Slots -> SUBSET Objects]
  BY <1>1, <1>2
<1>11. live' \in [Slots -> [Objects -> {0, 1}]]
  <2> DEFINE new == [o \in Objects |-> IF o \in set THEN live[i][o] - 1 ELSE live[i][o]]
  <2>1. new \in [Objects -> {0, 1}]
    BY <1>6, <1>9
  <2>2. live' = [live EXCEPT ![i] = new]
    BY <1>3
  <2> HIDE DEF new
  <2> QED BY <1>1, <2>1, <2>2
<1> QED BY <1>4, <1>8, <1>10, <1>11

(* So does acquiring something that is not held. *)
LEMMA AcquireFacts ==
    ASSUME DeviceInv, slot \in Slots, NEW o \in Objects \ held[slot], Acquire(o)
    PROVE  /\ Counted'
           /\ held' \in [Slots -> SUBSET Objects] /\ live' \in [Slots -> [Objects -> {0, 1}]]
           /\ held'[slot] = held[slot] \cup {o} /\ \A j \in Slots \ {slot} : held'[j] = held[j]
<1>1. held \in [Slots -> SUBSET Objects] /\ live \in [Slots -> [Objects -> {0, 1}]]
  BY DEF DeviceInv, Typed, DeviceTypeOK
<1>2. held' = [held EXCEPT ![slot] = held[slot] \cup {o}]
  BY DEF Acquire
<1> DEFINE new == [live[slot] EXCEPT ![o] = live[slot][o] + 1]
<1>3. live' = [live EXCEPT ![slot] = new]
  BY <1>1 DEF Acquire
<1>4. \A j \in Slots, p \in Objects : live[j][p] = IF p \in held[j] THEN 1 ELSE 0
  BY DEF DeviceInv, ObjectInv, Counted
<1>5. \A p \in Objects : new[p] = IF p \in held[slot] \cup {o} THEN 1 ELSE 0
  BY <1>1, <1>4
<1>6. new \in [Objects -> {0, 1}]
  <2>1. live[slot] \in [Objects -> {0, 1}] /\ live[slot][o] = 0
    BY <1>1, <1>4
  <2> QED BY <2>1
<1> HIDE DEF new
<1>7. held'[slot] = held[slot] \cup {o} /\ \A j \in Slots \ {slot} : held'[j] = held[j]
  BY <1>1, <1>2
<1>8. live'[slot] = new /\ \A j \in Slots \ {slot} : live'[j] = live[j]
  BY <1>1, <1>3
<1>9. Counted'
  <2> SUFFICES ASSUME NEW j \in Slots, NEW p \in Objects
               PROVE  live'[j][p] = IF p \in held'[j] THEN 1 ELSE 0
    BY DEF Counted
  <2>1. CASE j = slot
    BY <1>5, <1>7, <1>8, <2>1
  <2>2. CASE j # slot
    BY <1>4, <1>7, <1>8, <2>2
  <2> QED BY <2>1, <2>2
<1>10. held' \in [Slots -> SUBSET Objects]
  BY <1>1, <1>2
<1>11. live' \in [Slots -> [Objects -> {0, 1}]]
  BY <1>1, <1>3, <1>6
<1> QED BY <1>7, <1>9, <1>10, <1>11

(* Between two driver calls of a destruction, a context that is gone has   *)
(* left nothing behind that was made in it.                                *)
LEMMA ReleaseFacts ==
    ASSUME DeviceInv, NEW i \in Slots, held[i] # {}, Drop(i, {NextRelease(i)}), setup' = setup
    PROVE  /\ Counted' /\ ContextLast'
           /\ held' \in [Slots -> SUBSET Objects] /\ live' \in [Slots -> [Objects -> {0, 1}]]
           /\ held'[i] \subseteq held[i] /\ \A j \in Slots \ {i} : held'[j] = held[j]
<1> DEFINE n == NextRelease(i)
<1>1. n \in held[i] /\ (n = "context" => held[i] \subseteq {"context", "matches"})
  BY NextReleaseFacts DEF DeviceInv, ObjectInv, Owned
<1>2. Drop(i, {n})
  OBVIOUS
<1> HIDE DEF n
<1> DEFINE set == {n}
<1>3. set \in SUBSET held[i] /\ Drop(i, set)
  BY <1>1, <1>2
<1> HIDE DEF set
<1>4. /\ Counted' /\ held' \in [Slots -> SUBSET Objects] /\ live' \in [Slots -> [Objects -> {0, 1}]]
      /\ held'[i] = held[i] \ set /\ \A j \in Slots \ {i} : held'[j] = held[j]
  BY <1>3, DropFacts
<1>5. \A j \in Slots : "context" \notin held[j] => held[j] \subseteq {"matches"}
  BY DEF DeviceInv, ObjectInv, ContextLast
<1>6. "context" \notin held'[i] => held'[i] \subseteq {"matches"}
  BY <1>1, <1>4, <1>5 DEF set
<1>7. ContextLast'
  BY <1>4, <1>5, <1>6 DEF ContextLast
<1> QED BY <1>4, <1>7

-----------------------------------------------------------------------------
(* The invariant holds at first and is kept by every step.                 *)

LEMMA InitDeviceInv == DeviceInit => DeviceInv
<1> SUFFICES ASSUME DeviceInit PROVE DeviceInv
  OBVIOUS
<1>1. Typed
  <2>1. Nothing \in MadeRecord
    BY DeviceAssumption DEF Nothing, MadeRecord
  <2>2. << >> \in Seq(Nat)
    OBVIOUS
  <2>3. held \in [Slots -> SUBSET Objects] /\ live \in [Slots -> [Objects -> {0, 1}]]
    BY DEF DeviceInit
  <2>4. step \in 0..(Len(Calls) + 1)
    BY CallTable DEF DeviceInit
  <2>5. slot \in 1..(MaxDevices + 1) /\ starts \in 0..MaxStarts
    BY DeviceAssumption DEF DeviceInit
  <2>6. setup \in Setups /\ setup \in SetupRecord
    BY DeviceAssumption DEF DeviceInit
  <2> QED BY <2>1, <2>2, <2>3, <2>4, <2>5, <2>6 DEF DeviceInit, Typed, DeviceTypeOK
<1>2. ObjectInv
  <2>1. \A i \in Slots : held[i] = {} /\ \A o \in Objects : live[i][o] = 0
    BY DEF DeviceInit
  <2> QED BY <2>1 DEF DeviceInit, ObjectInv, Counted, ContextLast, Owned, RoomLeft, HeldHere, Working
<1>3. KernelInv
  BY DEF DeviceInit, KernelInv, DeviceHere, Chosen, MadeHere, BuiltHere, TestedHere, NpiAgrees, TestedKernelMines
<1> QED BY <1>1, <1>2, <1>3 DEF DeviceInv

(* Where no device is chosen, the invariant of the kernels is about the    *)
(* devices that have started.                                              *)
LEMMA NoDeviceChosen ==
    ASSUME DeviceInv, ~(Chosen'), started' \subseteq started, flaky' = flaky
    PROVE  KernelInv'
<1>1. DeviceHere' /\ MadeHere' /\ BuiltHere' /\ TestedHere'
  BY DEF DeviceHere, MadeHere, BuiltHere, TestedHere, Chosen
<1>2. NpiAgrees' /\ TestedKernelMines'
  BY DEF DeviceInv, KernelInv, NpiAgrees, TestedKernelMines
<1> QED BY <1>1, <1>2 DEF KernelInv

(* The next resolved device. *)
LEMMA NextDeviceFacts ==
    ASSUME DeviceInv, at \in Working, NextDevice
    PROVE  /\ slot \in Slots /\ pending' \in Seq(Nat) /\ purpose' = "test"
           /\ Len(pending) \in Nat \ {0} /\ Len(pending') = Len(pending) - 1
           /\ at' \in {"mining", "select"} /\ (at' = "select" => pending' # << >>)
           /\ ~(Chosen')
<1>1. pending \in Seq(Nat) /\ pending # << >> /\ slot + Len(pending) <= MaxDevices + 1 /\ slot \in Nat \ {0}
  BY DeviceAssumption DEF DeviceInv, Typed, DeviceTypeOK, ObjectInv, RoomLeft
<1>2. pending' = Tail(pending) /\ purpose' = "test" /\ at' = IF Len(pending) = 1 THEN "mining" ELSE "select"
  BY DEF NextDevice
<1>3. Len(pending) \in Nat \ {0} /\ Tail(pending) \in Seq(Nat) /\ Len(Tail(pending)) = Len(pending) - 1
  BY <1>1, HeadTailProperties, EmptySeq, LenProperties
<1>4. slot \in Slots
  BY <1>1, <1>3, DeviceAssumption DEF Slots
<1>5. at' = "select" => pending' # << >>
  <2>1. ASSUME pending' = << >> PROVE Len(pending') = 0
    BY <2>1
  <2>2. Len(pending') = Len(pending) - 1
    BY <1>2, <1>3
  <2>3. at' = "select" => Len(pending) # 1
    BY <1>2
  <2> QED BY <1>3, <2>1, <2>2, <2>3
<1> QED BY <1>2, <1>3, <1>4, <1>5 DEF Chosen

LEMMA LoadInv == ASSUME DeviceInv, Load PROVE DeviceInv'
<1>1. /\ at = "idle" /\ at' \in {"resolve", "idle"} /\ slot' = 1 /\ loader' \in {"fresh", "loaded", "failed"}
      /\ starts' = starts + 1 /\ starts < MaxStarts
      /\ UNCHANGED <<setup, pending, purpose, step, made, tested, flaky>> /\ Untouched
  BY DEF Load, DeviceInv, Typed, DeviceTypeOK
<1>2. Calls' = Calls /\ ApiObjects' = ApiObjects
  BY <1>1, SameSetup
<1>3. Counted' /\ ContextLast' /\ held' \in [Slots -> SUBSET Objects] /\ live' \in [Slots -> [Objects -> {0, 1}]]
  BY <1>1, SameObjects
<1>4. starts' \in 0..MaxStarts /\ slot' \in 1..(MaxDevices + 1)
  BY <1>1, DeviceAssumption DEF DeviceInv, Typed, DeviceTypeOK
<1>5. Typed'
  BY <1>1, <1>2, <1>3, <1>4 DEF DeviceInv, Typed, DeviceTypeOK, Untouched
<1>6. started = {} /\ \A i \in Slots : held[i] = {}
  BY <1>1 DEF DeviceInv, ObjectInv, Owned
<1>7. Owned' /\ RoomLeft' /\ HeldHere'
  BY <1>1, <1>6 DEF Owned, RoomLeft, HeldHere, Working, Untouched
<1>8. KernelInv'
  <2>1. ~(Chosen')
    BY <1>1 DEF Chosen
  <2> QED BY <1>1, <2>1, NoDeviceChosen DEF Untouched
<1> QED BY <1>3, <1>5, <1>7, <1>8 DEF DeviceInv, ObjectInv

(* A list of resolved devices fits in the array of the caller. *)
LEMMA ResolvedFits ==
    ASSUME DeviceInv, Resolve
    PROVE  pending' \in Seq(Nat) /\ Len(pending') <= MaxDevices
<1>1. MaxDevices \in Nat \ {0}
  BY DeviceAssumption
<1>2. setup.wanted \in Seq(Nat) /\ setup.wanted # << >>
  BY SetupFacts DEF DeviceInv, Typed, DeviceTypeOK
<1>3. CASE pending' = << >>
  <2>1. << >> \in Seq(Nat) /\ Len(<< >>) = 0
    OBVIOUS
  <2> QED BY <1>1, <1>3, <2>1
<1>4. CASE pending' = First(setup.wanted)
  <2> DEFINE w == setup.wanted
             n == IF Len(w) < MaxDevices THEN Len(w) ELSE MaxDevices
  <2>1. Len(w) \in Nat /\ w \in Seq(Nat)
    BY <1>2, LenProperties
  <2>2. pending' = SubSeq(w, 1, n)
    BY <1>4 DEF First
  <2>3. n \in 0..MaxDevices /\ n <= Len(w) /\ n \in Nat
    BY <1>1, <2>1
  <2> HIDE DEF n, w
  <2>4. SubSeq(w, 1, n) \in Seq(Nat) /\ Len(SubSeq(w, 1, n)) = n
    BY <2>1, <2>3, SubSeqProperties
  <2> QED BY <2>2, <2>3, <2>4
<1>5. CASE pending' = << setup.wanted[1] >>
  <2>1. setup.wanted[1] \in Nat
    BY <1>2
  <2> DEFINE d == setup.wanted[1]
  <2> HIDE DEF d
  <2>2. << d >> \in Seq(Nat) /\ Len(<< d >>) = 1
    BY <2>1 DEF d
  <2> QED BY <1>1, <1>5, <2>2 DEF d
<1>6. CASE pending' \in Listed
  <2>1. PICK n \in 1..MaxDevices : pending' \in [1..n -> 1..Len(setup.hardware)]
    BY <1>6 DEF Listed
  <2>2. Len(setup.hardware) \in Nat
    BY SetupFacts, LenProperties DEF DeviceInv, Typed, DeviceTypeOK
  <2>3. 1..Len(setup.hardware) \subseteq Nat /\ n \in Nat
    BY <1>1, <2>2
  <2>4. pending' \in [1..n -> Nat]
    BY <2>1, <2>3
  <2>5. pending' \in Seq(Nat) /\ Len(pending') = n
    BY <2>3, <2>4
  <2> QED BY <1>1, <2>5
<1> QED BY <1>3, <1>4, <1>5, <1>6 DEF Resolve

LEMMA ResolveInv == ASSUME DeviceInv, Resolve PROVE DeviceInv'
<1>1. /\ at = "resolve" /\ at' = IF pending' = << >> THEN "mining" ELSE "select"
      /\ purpose' = "test"
      /\ UNCHANGED <<loader, step, made, tested, flaky, slot, setup, starts>> /\ Untouched
  BY DEF Resolve, Fixed
<1>2. Calls' = Calls /\ ApiObjects' = ApiObjects
  BY <1>1, SameSetup
<1>3. Counted' /\ ContextLast' /\ held' \in [Slots -> SUBSET Objects] /\ live' \in [Slots -> [Objects -> {0, 1}]]
  BY <1>1, SameObjects
<1>4. pending' \in Seq(Nat) /\ Len(pending') <= MaxDevices /\ Len(pending') \in Nat
  BY ResolvedFits, LenProperties
<1>5. Typed'
  BY <1>1, <1>2, <1>3, <1>4 DEF DeviceInv, Typed, DeviceTypeOK, Untouched
<1>6. started = {} /\ slot = 1 /\ \A i \in Slots : held[i] = {}
  BY <1>1 DEF DeviceInv, ObjectInv, Owned, RoomLeft
<1>7. Owned' /\ HeldHere'
  BY <1>1, <1>6 DEF Owned, HeldHere, Untouched
<1>8. RoomLeft'
  BY <1>1, <1>4, <1>6, DeviceAssumption DEF RoomLeft, Working
<1>9. KernelInv'
  <2>1. ~(Chosen')
    BY <1>1 DEF Chosen
  <2> QED BY <1>1, <2>1, NoDeviceChosen DEF Untouched
<1> QED BY <1>3, <1>5, <1>7, <1>8, <1>9 DEF DeviceInv, ObjectInv

(* A device that is given up, before or after the driver was called. *)
LEMMA GivenUp ==
    ASSUME DeviceInv, at \in Working, NextDevice, UNCHANGED <<slot, tested, flaky, loader, made>>,
           step' \in {0, step}, held[slot] = {}, Fixed, Untouched
    PROVE  DeviceInv'
<1>1. /\ slot \in Slots /\ pending' \in Seq(Nat) /\ purpose' = "test"
      /\ Len(pending) \in Nat \ {0} /\ Len(pending') = Len(pending) - 1
      /\ at' \in {"mining", "select"} /\ (at' = "select" => pending' # << >>)
      /\ ~(Chosen')
  BY NextDeviceFacts
<1>2. setup' = setup /\ Calls' = Calls /\ ApiObjects' = ApiObjects
  BY SameSetup DEF Fixed
<1>3. Counted' /\ ContextLast' /\ held' \in [Slots -> SUBSET Objects] /\ live' \in [Slots -> [Objects -> {0, 1}]]
  BY SameObjects
<1>4. step' \in 0..(Len(Calls) + 1)
  BY CallTable DEF DeviceInv, Typed, DeviceTypeOK
<1>5. Typed'
  BY <1>1, <1>2, <1>3, <1>4 DEF DeviceInv, Typed, DeviceTypeOK, Untouched, Fixed
<1>6. Owned'
  BY <1>1, <1>2 DEF DeviceInv, ObjectInv, Owned, Untouched
<1>7. RoomLeft' /\ HeldHere'
  BY <1>1, DeviceAssumption DEF DeviceInv, ObjectInv, Typed, DeviceTypeOK, RoomLeft, HeldHere, Working
<1>8. KernelInv'
  BY <1>1, NoDeviceChosen DEF Untouched
<1> QED BY <1>3, <1>5, <1>6, <1>7, <1>8 DEF DeviceInv, ObjectInv

LEMMA SlotInWork ==
    ASSUME DeviceInv, at \in Working
    PROVE  /\ slot \in Slots /\ Len(pending) \in Nat \ {0} /\ slot + Len(pending) <= MaxDevices + 1
           /\ \A s \in started : s.slot # slot
<1>1. pending \in Seq(Nat) /\ pending # << >> /\ slot + Len(pending) <= MaxDevices + 1 /\ slot \in Nat \ {0}
  BY DeviceAssumption DEF DeviceInv, Typed, DeviceTypeOK, ObjectInv, RoomLeft
<1>2. Len(pending) \in Nat \ {0}
  BY <1>1, EmptySeq, LenProperties
<1>3. slot \in Slots
  BY <1>1, <1>2, DeviceAssumption DEF Slots
<1>4. \A s \in started : s.slot \in Nat /\ s.slot < slot
  BY DeviceAssumption DEF DeviceInv, Typed, DeviceTypeOK, ObjectInv, Owned, Slots
<1> QED BY <1>1, <1>2, <1>3, <1>4

LEMMA SelectInv == ASSUME DeviceInv, Select PROVE DeviceInv'
<1>1. at = "select" /\ at \in Working /\ UNCHANGED loader /\ Fixed
  BY DEF Select, Working
<1>2. slot \in Slots /\ \A s \in started : s.slot # slot
  BY <1>1, SlotInWork
<1>3. held[slot] = {}
  BY <1>1, <1>2 DEF DeviceInv, ObjectInv, Owned
<1>4. CASE Skip
  BY <1>1, <1>3, <1>4, GivenUp DEF Skip
<1>5. CASE /\ Head(pending) \in 1..Len(setup.hardware) /\ Usable(Choice)
           /\ made' = Choice /\ at' = "create" /\ step' = 1
           /\ UNCHANGED <<pending, purpose, slot, tested, flaky>> /\ Untouched
  <2>1. setup' = setup /\ Calls' = Calls /\ ApiObjects' = ApiObjects /\ Opencl' = Opencl
    BY <1>1, SameSetup DEF Fixed
  <2>2. Counted' /\ ContextLast' /\ held' \in [Slots -> SUBSET Objects] /\ live' \in [Slots -> [Objects -> {0, 1}]]
    BY <1>5, SameObjects
  <2>3. InWork \in HardwareRecord
    BY <1>5, SetupFacts, ElementOfSeq DEF InWork, DeviceInv, Typed, DeviceTypeOK
  <2>4. Choice \in MadeRecord
    BY <1>5, <2>3, MadeIsSound DEF Choice, SoundChoice, DeviceInv, Typed, DeviceTypeOK
  <2>5. step' \in 0..(Len(Calls) + 1)
    BY <1>5, CallTable
  <2>6. Typed'
    BY <1>1, <1>5, <2>1, <2>2, <2>4, <2>5 DEF DeviceInv, Typed, DeviceTypeOK, Untouched, Fixed
  <2>7. Owned' /\ RoomLeft'
    BY <1>1, <1>2, <1>5, <2>1 DEF DeviceInv, ObjectInv, Owned, RoomLeft, Untouched, Working
  <2>8. Holding' = {}
    BY <1>5, <2>1, AcquiredFacts DEF Holding, Acquired
  <2>9. HeldHere'
    BY <1>3, <1>5, <2>8 DEF HeldHere, Untouched
  <2>10. InWork' = InWork /\ Choice' = Choice /\ Outcome' = Outcome
    BY <1>5, <2>1, SameDevice
  <2>11. DeviceHere'
    BY <1>5, <2>1, <2>10 DEF DeviceHere, Usable
  <2>12. MadeHere' /\ BuiltHere'
    BY <1>5, <2>10 DEF MadeHere, BuiltHere
  <2>13. TestedHere'
    BY <1>1, <1>5, <2>10 DEF DeviceInv, KernelInv, TestedHere, Chosen
  <2>14. NpiAgrees' /\ TestedKernelMines'
    BY <1>5 DEF DeviceInv, KernelInv, NpiAgrees, TestedKernelMines, Untouched
  <2> QED BY <2>2, <2>6, <2>7, <2>9, <2>11, <2>12, <2>13, <2>14 DEF DeviceInv, ObjectInv, KernelInv
<1> QED BY <1>4, <1>5 DEF Select, Choice

(* The device in work, and what was chosen for it. *)
LEMMA ChoiceInWork ==
    ASSUME DeviceInv, Chosen
    PROVE  /\ InWork \in HardwareRecord /\ SoundChoice(Choice, InWork)
           /\ Opencl /\ setup.kernel = "auto" =>
                Choice.kernel = "unrolled" /\ SoundChoice(Fallback(Choice), InWork)
<1>1. Head(pending) \in 1..Len(setup.hardware) /\ Usable(Choice) /\ setup \in Setups
  BY DEF DeviceInv, KernelInv, DeviceHere, Typed, DeviceTypeOK
<1>2. InWork \in HardwareRecord
  BY <1>1, SetupFacts, ElementOfSeq DEF InWork
<1> QED BY <1>1, <1>2, MadeIsSound DEF Choice

(* A driver call of a creation succeeds. *)
LEMMA CreateStepInv == ASSUME DeviceInv, CreateStep PROVE DeviceInv'
<1>1. /\ at = "create" /\ at \in Working /\ step <= Len(Calls) /\ step' = step + 1
      /\ Calls[step] = "build" => made.kernel \in InWork.compiles
      /\ UNCHANGED <<loader, at, pending, purpose, made, tested, flaky, started, slot, setup, starts>>
  BY DEF CreateStep, Fixed, Working
<1>2. slot \in Slots /\ \A s \in started : s.slot # slot
  BY <1>1, SlotInWork
<1>3. step \in 1..Len(Calls) /\ Len(Calls) \in Nat /\ held[slot] = Acquired(step)
  BY <1>1, CallTable DEF DeviceInv, Typed, DeviceTypeOK, ObjectInv, HeldHere, Holding
<1>4. setup' = setup /\ Calls' = Calls /\ ApiObjects' = ApiObjects /\ Opencl' = Opencl
  BY <1>1, SameSetup
<1>5. Holding' = Acquired(step) \cup ({Calls[step]} \cap Objects)
  <2>1. Acquired(step + 1) = Acquired(step) \cup ({Calls[step]} \cap Objects)
    BY <1>3, AcquiredFacts
  <2>2. Holding' = Acquired(step + 1)
    BY <1>1, <1>4 DEF Holding, Acquired
  <2> QED BY <2>1, <2>2
<1>6. /\ Counted' /\ held' \in [Slots -> SUBSET Objects] /\ live' \in [Slots -> [Objects -> {0, 1}]]
      /\ held'[slot] = Holding' /\ \A j \in Slots \ {slot} : held'[j] = held[j]
  <2>1. CASE Calls[step] \in Objects
    <3> DEFINE o == Calls[step]
    <3>1. Acquire(o)
      BY <1>1, <2>1 DEF CreateStep
    <3>2. o \in Objects \ held[slot]
      BY <1>3, <2>1, AcquiredFacts
    <3> HIDE DEF o
    <3>3. /\ Counted' /\ held' \in [Slots -> SUBSET Objects] /\ live' \in [Slots -> [Objects -> {0, 1}]]
          /\ held'[slot] = held[slot] \cup {o} /\ \A j \in Slots \ {slot} : held'[j] = held[j]
      BY <1>2, <3>1, <3>2, AcquireFacts
    <3> QED BY <1>3, <1>5, <2>1, <3>3 DEF o
  <2>2. CASE Calls[step] \notin Objects
    <3>1. held' = held /\ live' = live
      BY <2>2 DEF CreateStep
    <3>2. Untouched
      BY <1>1, <3>1 DEF Untouched
    <3> QED BY <1>3, <1>5, <2>2, <3>1, <3>2, SameObjects
  <2> QED BY <2>1, <2>2
<1>7. step' \in 1..(Len(Calls) + 1)
  BY <1>1, <1>3
<1>8. held'[slot] \subseteq ApiObjects /\ ("context" \notin held'[slot] => held'[slot] = {})
  <2>1. Holding' = Acquired(step + 1) /\ step + 1 \in 1..(Len(Calls) + 1)
    BY <1>1, <1>3, <1>4 DEF Holding, Acquired
  <2> QED BY <1>6, <2>1, AcquiredFacts
<1>9. ContextLast'
  BY <1>6, <1>8 DEF DeviceInv, ObjectInv, ContextLast
<1>10. Typed'
  <2>1. step' \in 0..(Len(Calls) + 1)
    BY <1>3, <1>7
  <2> QED BY <1>1, <1>4, <1>6, <2>1 DEF DeviceInv, Typed, DeviceTypeOK
<1>11. Owned'
  BY <1>1, <1>4, <1>6, <1>8 DEF DeviceInv, ObjectInv, Owned
<1>12. RoomLeft' /\ HeldHere'
  BY <1>1, <1>3, <1>6, <1>7 DEF DeviceInv, ObjectInv, RoomLeft, HeldHere, Working
<1>13. InWork' = InWork /\ Choice' = Choice /\ Outcome' = Outcome
  BY <1>1, SameDevice
<1>14. DeviceHere' /\ MadeHere'
  BY <1>1, <1>4, <1>13 DEF DeviceInv, KernelInv, DeviceHere, MadeHere, Chosen, Usable
<1>15. BuiltHere'
  <2> SUFFICES ASSUME Opencl, step + 1 > 4
               PROVE  made.kernel \in InWork.compiles
    BY <1>1, <1>4, <1>13 DEF BuiltHere
  <2>1. CASE step > 4
    BY <1>1, <2>1 DEF DeviceInv, KernelInv, BuiltHere
  <2>2. CASE step = 4
    BY <1>1, <2>2, CallTable
  <2> QED BY <1>3, <2>1, <2>2
<1>16. TestedHere'
  BY <1>1, <1>13 DEF DeviceInv, KernelInv, TestedHere, Chosen
<1>17. NpiAgrees' /\ TestedKernelMines'
  BY <1>1 DEF DeviceInv, KernelInv, NpiAgrees, TestedKernelMines
<1> QED BY <1>6, <1>9, <1>10, <1>11, <1>12, <1>14, <1>15, <1>16, <1>17 DEF DeviceInv, ObjectInv, KernelInv

(* One fails: a second build, or the way out through the destruction. *)
LEMMA CreateFailsInv == ASSUME DeviceInv, CreateFails PROVE DeviceInv'
<1>1. /\ at = "create" /\ at \in Working /\ Chosen /\ step <= Len(Calls)
      /\ flaky' = (flaky \/ (Building /\ made.kernel \in InWork.compiles))
      /\ UNCHANGED <<loader, pending, purpose, tested, started, slot, setup, starts>>
  BY DEF CreateFails, Fixed, Working, Chosen
<1>2. slot \in Slots /\ \A s \in started : s.slot # slot
  BY <1>1, SlotInWork
<1>3. step \in 1..Len(Calls) /\ Len(Calls) \in Nat /\ held[slot] = Acquired(step)
  BY <1>1, CallTable DEF DeviceInv, Typed, DeviceTypeOK, ObjectInv, HeldHere, Holding
<1>4. setup' = setup /\ Calls' = Calls /\ ApiObjects' = ApiObjects /\ Opencl' = Opencl
  BY <1>1, SameSetup
<1>5. InWork' = InWork /\ Choice' = Choice /\ Outcome' = Outcome
  BY <1>1, SameDevice
<1>6. flaky' \in BOOLEAN /\ (~flaky' => ~flaky)
  <2>1. flaky \in BOOLEAN
    BY DEF DeviceInv, Typed, DeviceTypeOK
  <2> QED BY <1>1, <2>1
<1>7. NpiAgrees' /\ TestedKernelMines'
  BY <1>1, <1>6 DEF DeviceInv, KernelInv, NpiAgrees, TestedKernelMines
<1>8. at' \in {"create", "destroy"} => DeviceHere'
  BY <1>1, <1>4, <1>5 DEF DeviceInv, KernelInv, DeviceHere, Usable
<1>9. CASE Building /\ setup.kernel = "auto" /\ made.kernel = "unrolled"
  <2>1. /\ ReleaseProgramObjects /\ made' = Fallback(made) /\ step' = 3 /\ at' = "create"
    BY <1>1, <1>9 DEF CreateFails, Fallback
  <2>2. Opencl /\ step \in {3, 4, 5}
    <3>1. Opencl /\ Calls[step] \in {"program", "build", "kernel"}
      BY <1>9 DEF Building
    <3>2. step \in 1..8
      BY <1>3, <3>1, CallTable
    <3>3. step \in {1, 2, 3, 4, 5, 6, 7, 8}
      BY <3>2
    <3> QED BY <3>1, <3>3, CallTable
  <2>3. Holding' = Acquired(3)
    BY <1>4, <2>1 DEF Holding, Acquired
  <2> DEFINE set == {"program", "kernel"} \cap held[slot]
  <2>4. Drop(slot, set) /\ set \in SUBSET held[slot]
    BY <2>1 DEF ReleaseProgramObjects
  <2>5. held[slot] \ set = Acquired(3)
    BY <1>3, <2>2, AcquiredBeforeBuild
  <2> HIDE DEF set
  <2>6. /\ Counted' /\ held' \in [Slots -> SUBSET Objects] /\ live' \in [Slots -> [Objects -> {0, 1}]]
        /\ held'[slot] = held[slot] \ set /\ \A j \in Slots \ {slot} : held'[j] = held[j]
    BY <1>2, <2>4, DropFacts
  <2>7. held'[slot] = Holding' /\ held'[slot] \subseteq ApiObjects
        /\ ("context" \notin held'[slot] => held'[slot] = {})
    <3>1. 3 \in 1..(Len(Calls) + 1)
      BY <1>3, <2>2
    <3> QED BY <2>3, <2>5, <2>6, <3>1, AcquiredFacts
  <2>8. ContextLast'
    BY <2>6, <2>7 DEF DeviceInv, ObjectInv, ContextLast
  <2>9. made' \in MadeRecord
    <3>1. made \in MadeRecord /\ "compact" \in OpenclKernels
      BY DEF DeviceInv, Typed, DeviceTypeOK, OpenclKernels
    <3> QED BY <2>1, <3>1 DEF Fallback, MadeRecord
  <2>10. step' \in 0..(Len(Calls) + 1)
    BY <2>1, <2>2, CallTable
  <2>11. Typed'
    BY <1>1, <1>4, <1>6, <2>1, <2>6, <2>9, <2>10 DEF DeviceInv, Typed, DeviceTypeOK
  <2>12. Owned'
    BY <1>1, <1>4, <2>1, <2>6, <2>7 DEF DeviceInv, ObjectInv, Owned
  <2>13. RoomLeft' /\ HeldHere'
    BY <1>1, <2>1, <2>7 DEF DeviceInv, ObjectInv, RoomLeft, HeldHere, Working
  <2>14. MadeHere'
    <3>1. Fallback(Choice).kernel # "unrolled"
      <4>1. Choice \in MadeRecord
        BY <1>1, ChoiceInWork DEF SoundChoice
      <4> QED BY <4>1 DEF Fallback, MadeRecord
    <3>2. made = Choice
      BY <1>1, <1>9, <3>1 DEF DeviceInv, KernelInv, MadeHere
    <3>3. ~flaky' => "unrolled" \notin InWork.compiles
      BY <1>1, <1>9
    <3> QED BY <1>4, <1>5, <1>9, <2>1, <2>2, <3>2, <3>3 DEF MadeHere, Fallback
  <2>15. BuiltHere'
    BY <2>1 DEF BuiltHere
  <2>16. TestedHere'
    BY <1>1, <1>5, <1>6, <2>1 DEF DeviceInv, KernelInv, TestedHere, Chosen
  <2> QED BY <1>7, <1>8, <2>1, <2>6, <2>8, <2>11, <2>12, <2>13, <2>14, <2>15, <2>16
          DEF DeviceInv, ObjectInv, KernelInv
<1>10. CASE ~(Building /\ setup.kernel = "auto" /\ made.kernel = "unrolled")
  <2>1. at' = "destroy" /\ step' = 0 /\ UNCHANGED <<held, live, made>> /\ Untouched
    BY <1>1, <1>10 DEF CreateFails, Untouched
  <2>2. Counted' /\ ContextLast' /\ held' \in [Slots -> SUBSET Objects] /\ live' \in [Slots -> [Objects -> {0, 1}]]
    BY <2>1, SameObjects
  <2>3. step' \in 0..(Len(Calls) + 1)
    BY <1>3, <2>1
  <2>4. Typed'
    BY <1>1, <1>4, <1>6, <2>1, <2>2, <2>3 DEF DeviceInv, Typed, DeviceTypeOK
  <2>5. Owned' /\ RoomLeft' /\ HeldHere'
    BY <1>1, <1>4, <2>1 DEF DeviceInv, ObjectInv, Owned, RoomLeft, HeldHere, Working
  <2>6. MadeHere' /\ BuiltHere'
    BY <2>1 DEF MadeHere, BuiltHere
  <2>7. TestedHere'
    BY <1>1, <1>5, <1>6, <2>1 DEF DeviceInv, KernelInv, TestedHere, Chosen
  <2> QED BY <1>7, <1>8, <2>1, <2>2, <2>4, <2>5, <2>6, <2>7 DEF DeviceInv, ObjectInv, KernelInv
<1> QED BY <1>9, <1>10

(* A creation that is complete ends with the kernel the compiler decides,  *)
(* if it answers the same twice.                                           *)
LEMMA CompleteIsOutcome ==
    ASSUME DeviceInv, at = "create", step = Len(Calls) + 1
    PROVE  /\ made \in MadeRecord /\ made.npi \in 1..MaxNpi /\ ForcedNpi(made.kernel) \in {0, made.npi}
           /\ ~flaky => made = Outcome
<1>1. /\ Chosen
      /\ InWork \in HardwareRecord /\ SoundChoice(Choice, InWork)
      /\ Opencl /\ setup.kernel = "auto" =>
           Choice.kernel = "unrolled" /\ SoundChoice(Fallback(Choice), InWork)
  BY ChoiceInWork DEF Chosen
<1>2. \/ made = Choice
      \/ /\ Opencl /\ setup.kernel = "auto" /\ made = Fallback(Choice)
         /\ ~flaky => "unrolled" \notin InWork.compiles
  BY DEF DeviceInv, KernelInv, MadeHere
<1>3. SoundChoice(made, InWork)
  BY <1>1, <1>2
<1>4. Opencl => made.kernel \in InWork.compiles
  <2>1. Opencl => Len(Calls) = 8
    BY CallTable
  <2>2. ASSUME Opencl PROVE step = 9
    <3>1. step = 8 + 1
      BY <2>1, <2>2
    <3> QED BY <3>1
  <2>3. BuiltHere
    BY DEF DeviceInv, KernelInv
  <2> QED BY <2>2, <2>3 DEF BuiltHere
<1>5. ~flaky => made = Outcome
  BY <1>1, <1>2, <1>4 DEF Outcome
<1> QED BY <1>3, <1>5 DEF SoundChoice

LEMMA CreatedInv == ASSUME DeviceInv, Created PROVE DeviceInv'
<1>1. /\ at = "create" /\ at \in Working /\ Chosen /\ step = Len(Calls) + 1
      /\ UNCHANGED <<loader, made, flaky, held, live, setup, starts>>
  BY DEF Created, Fixed, Working, Chosen
<1>2. /\ slot \in Slots /\ Len(pending) \in Nat \ {0} /\ slot + Len(pending) <= MaxDevices + 1
      /\ \A s \in started : s.slot # slot
  BY <1>1, SlotInWork
<1>3. setup' = setup /\ Calls' = Calls /\ ApiObjects' = ApiObjects /\ Opencl' = Opencl
  BY <1>1, SameSetup
<1>4. /\ made \in MadeRecord /\ made.npi \in 1..MaxNpi /\ ForcedNpi(made.kernel) \in {0, made.npi}
      /\ ~flaky => made = Outcome
  BY <1>1, CompleteIsOutcome
<1>5. Counted' /\ ContextLast' /\ held' \in [Slots -> SUBSET Objects] /\ live' \in [Slots -> [Objects -> {0, 1}]]
  BY <1>1 DEF DeviceInv, ObjectInv, Typed, DeviceTypeOK, Counted, ContextLast
<1>6. CASE purpose = "test"
  <2>1. /\ at' = "destroy" /\ step' \in {0, 1} /\ tested' = IF step' = 1 THEN made ELSE tested
        /\ UNCHANGED <<pending, purpose, started, slot>>
    BY <1>6 DEF Created
  <2>2. InWork' = InWork /\ Choice' = Choice /\ Outcome' = Outcome
    BY <1>1, <2>1, SameDevice
  <2>3. step' \in 0..(Len(Calls) + 1) /\ tested' \in MadeRecord
    BY <1>4, <2>1, CallTable DEF DeviceInv, Typed, DeviceTypeOK
  <2>4. Typed'
    BY <1>1, <1>3, <1>5, <2>1, <2>3 DEF DeviceInv, Typed, DeviceTypeOK
  <2>5. Owned' /\ RoomLeft' /\ HeldHere'
    BY <1>1, <1>3, <2>1 DEF DeviceInv, ObjectInv, Owned, RoomLeft, HeldHere, Working
  <2>6. DeviceHere'
    BY <1>1, <1>3, <2>1, <2>2 DEF DeviceInv, KernelInv, DeviceHere, Usable
  <2>7. MadeHere' /\ BuiltHere'
    BY <2>1 DEF MadeHere, BuiltHere
  <2>8. TestedHere'
    BY <1>1, <1>4, <1>6, <2>1, <2>2 DEF TestedHere
  <2>9. NpiAgrees' /\ TestedKernelMines'
    BY <1>1, <2>1 DEF DeviceInv, KernelInv, NpiAgrees, TestedKernelMines
  <2> QED BY <1>5, <2>4, <2>5, <2>6, <2>7, <2>8, <2>9 DEF DeviceInv, ObjectInv, KernelInv
<1>7. CASE purpose = "mine"
  <2> DEFINE new == [slot |-> slot, made |-> made, tested |-> tested]
  <2>1. /\ started' = started \cup {new} /\ slot' = slot + 1 /\ step' = 0 /\ tested' = tested
        /\ NextDevice
    BY <1>7 DEF Created
  <2>2. /\ pending' \in Seq(Nat) /\ purpose' = "test" /\ Len(pending') = Len(pending) - 1
        /\ at' \in {"mining", "select"} /\ (at' = "select" => pending' # << >>)
        /\ ~(Chosen')
    BY <1>1, <2>1, NextDeviceFacts
  <2>3. slot' \in 1..(MaxDevices + 1) /\ step' \in 0..(Len(Calls) + 1)
    BY <1>2, <2>1, DeviceAssumption, CallTable DEF Slots
  <2>4. new \in [slot : Slots, made : MadeRecord, tested : MadeRecord]
    BY <1>2, <1>4 DEF DeviceInv, Typed, DeviceTypeOK
  <2>5. new.slot = slot /\ new.made = made /\ new.tested = tested
    OBVIOUS
  <2> HIDE DEF new
  <2>6. Typed'
    BY <1>1, <1>3, <1>5, <2>1, <2>2, <2>3, <2>4 DEF DeviceInv, Typed, DeviceTypeOK
  <2>7. Owned'
    <3>1. \A i \in Slots : held'[i] \subseteq ApiObjects'
      BY <1>1, <1>3 DEF DeviceInv, ObjectInv, Owned
    <3>2. ASSUME NEW i \in Slots, held[i] # {}
          PROVE  \E s \in started' : s.slot = i
      BY <1>1, <2>1, <2>5, <3>2 DEF DeviceInv, ObjectInv, Owned
    <3>3. \A s \in started' : s.slot < slot'
      <4>1. slot \in Nat /\ \A s \in started : s.slot \in Nat /\ s.slot < slot
        BY <1>2, DeviceAssumption DEF DeviceInv, Typed, DeviceTypeOK, ObjectInv, Owned, Slots
      <4> QED BY <2>1, <2>5, <4>1
    <3> QED BY <1>1, <2>2, <3>1, <3>2, <3>3 DEF Owned
  <2>8. RoomLeft' /\ HeldHere'
    <3>1. slot \in Nat /\ MaxDevices \in Nat
      BY <1>2, DeviceAssumption DEF Slots
    <3>2. slot' + Len(pending') <= MaxDevices + 1
      BY <1>2, <2>1, <2>2, <3>1
    <3> QED BY <2>2, <3>2 DEF RoomLeft, HeldHere, Working
  <2>9. DeviceHere' /\ MadeHere' /\ BuiltHere' /\ TestedHere'
    BY <2>2 DEF DeviceHere, MadeHere, BuiltHere, TestedHere, Chosen
  <2>10. NpiAgrees'
    BY <1>4, <2>1, <2>5 DEF DeviceInv, KernelInv, NpiAgrees
  <2>11. ~flaky => tested = made
    BY <1>1, <1>4, <1>7 DEF DeviceInv, KernelInv, TestedHere
  <2>12. TestedKernelMines'
    BY <1>1, <2>1, <2>5, <2>11 DEF DeviceInv, KernelInv, TestedKernelMines
  <2> QED BY <1>5, <2>6, <2>7, <2>8, <2>9, <2>10, <2>12 DEF DeviceInv, ObjectInv, KernelInv
<1> QED BY <1>6, <1>7 DEF DeviceInv, Typed, DeviceTypeOK

LEMMA DestroyStepInv == ASSUME DeviceInv, DestroyStep PROVE DeviceInv'
<1>1. /\ at = "destroy" /\ at \in Working /\ held[slot] # {} /\ Drop(slot, {NextRelease(slot)})
      /\ UNCHANGED <<loader, at, pending, purpose, step, made, tested, flaky, started, slot, setup, starts>>
  BY DEF DestroyStep, Fixed, Working
<1>2. slot \in Slots
  BY <1>1, SlotInWork
<1>3. setup' = setup /\ Calls' = Calls /\ ApiObjects' = ApiObjects /\ Opencl' = Opencl
  BY <1>1, SameSetup
<1>4. /\ Counted' /\ ContextLast'
      /\ held' \in [Slots -> SUBSET Objects] /\ live' \in [Slots -> [Objects -> {0, 1}]]
      /\ held'[slot] \subseteq held[slot] /\ \A j \in Slots \ {slot} : held'[j] = held[j]
  BY <1>1, <1>2, ReleaseFacts
<1>5. Typed'
  BY <1>1, <1>3, <1>4 DEF DeviceInv, Typed, DeviceTypeOK
<1>6. Owned' /\ RoomLeft' /\ HeldHere'
  BY <1>1, <1>3, <1>4 DEF DeviceInv, ObjectInv, Owned, RoomLeft, HeldHere, Working
<1>7. InWork' = InWork /\ Choice' = Choice /\ Outcome' = Outcome
  BY <1>1, SameDevice
<1>8. DeviceHere' /\ MadeHere' /\ BuiltHere' /\ TestedHere'
  BY <1>1, <1>3, <1>7
     DEF DeviceInv, KernelInv, DeviceHere, MadeHere, BuiltHere, TestedHere, Chosen, Usable
<1>9. NpiAgrees' /\ TestedKernelMines'
  BY <1>1 DEF DeviceInv, KernelInv, NpiAgrees, TestedKernelMines
<1> QED BY <1>4, <1>5, <1>6, <1>8, <1>9 DEF DeviceInv, ObjectInv, KernelInv

LEMMA DestroyedInv == ASSUME DeviceInv, Destroyed PROVE DeviceInv'
<1>1. /\ at = "destroy" /\ at \in Working /\ held[slot] = {} /\ step' = 0
      /\ UNCHANGED <<loader, made, tested, flaky, held, live, started, slot, setup, starts>>
      /\ Untouched /\ Fixed
  BY DEF Destroyed, Fixed, Working, Untouched
<1>2. CASE purpose = "test" /\ step = 1
  <2>1. at' = "select" /\ purpose' = "mine" /\ pending' = pending
    BY <1>2 DEF Destroyed
  <2>2. setup' = setup /\ Calls' = Calls /\ ApiObjects' = ApiObjects /\ Opencl' = Opencl
    BY <1>1, SameSetup
  <2>3. Counted' /\ ContextLast' /\ held' \in [Slots -> SUBSET Objects] /\ live' \in [Slots -> [Objects -> {0, 1}]]
    BY <1>1, SameObjects
  <2>4. step' \in 0..(Len(Calls) + 1)
    BY <1>1, CallTable
  <2>5. Typed'
    BY <1>1, <2>1, <2>2, <2>3, <2>4 DEF DeviceInv, Typed, DeviceTypeOK
  <2>6. Owned' /\ RoomLeft' /\ HeldHere'
    BY <1>1, <2>1, <2>2 DEF DeviceInv, ObjectInv, Owned, RoomLeft, HeldHere, Working
  <2>7. InWork' = InWork /\ Choice' = Choice /\ Outcome' = Outcome
    BY <1>1, <2>1, SameDevice
  <2>8. DeviceHere' /\ MadeHere' /\ BuiltHere' /\ TestedHere'
    BY <1>1, <1>2, <2>1, <2>2, <2>7
       DEF DeviceInv, KernelInv, DeviceHere, MadeHere, BuiltHere, TestedHere, Chosen, Usable
  <2>9. NpiAgrees' /\ TestedKernelMines'
    BY <1>1 DEF DeviceInv, KernelInv, NpiAgrees, TestedKernelMines
  <2> QED BY <2>3, <2>5, <2>6, <2>8, <2>9 DEF DeviceInv, ObjectInv, KernelInv
<1>3. CASE ~(purpose = "test" /\ step = 1)
  <2>1. NextDevice
    BY <1>3 DEF Destroyed
  <2> QED BY <1>1, <2>1, GivenUp
<1> QED BY <1>2, <1>3

LEMMA StopInv == ASSUME DeviceInv, Stop PROVE DeviceInv'
<1>1. /\ at = "mining" /\ at' = "stop" /\ pending' = << >>
      /\ UNCHANGED <<loader, purpose, step, made, tested, flaky, slot, setup, starts>> /\ Untouched
  BY DEF Stop, Fixed
<1>2. Calls' = Calls /\ ApiObjects' = ApiObjects
  BY <1>1, SameSetup
<1>3. Counted' /\ ContextLast' /\ held' \in [Slots -> SUBSET Objects] /\ live' \in [Slots -> [Objects -> {0, 1}]]
  BY <1>1, SameObjects
<1>4. << >> \in Seq(Nat)
  OBVIOUS
<1>5. Typed'
  BY <1>1, <1>2, <1>3, <1>4 DEF DeviceInv, Typed, DeviceTypeOK, Untouched
<1>6. Owned' /\ RoomLeft' /\ HeldHere'
  BY <1>1, <1>2 DEF DeviceInv, ObjectInv, Owned, RoomLeft, HeldHere, Working, Untouched
<1>7. ~(Chosen')
  BY <1>1 DEF Chosen
<1>8. KernelInv'
  BY <1>1, <1>7, NoDeviceChosen DEF Untouched
<1> QED BY <1>3, <1>5, <1>6, <1>8 DEF DeviceInv, ObjectInv

(* miner_stop releases the next object of the first device that is left,   *)
(* or forgets a device that holds nothing any more.                        *)
LEMMA StopStepInv == ASSUME DeviceInv, StopStep PROVE DeviceInv'
<1>1. /\ at = "stop"
      /\ UNCHANGED <<loader, at, pending, purpose, step, made, tested, flaky, slot, setup, starts>>
  BY DEF StopStep, Fixed
<1>2. PICK s \in started :
        IF held[s.slot] # {} THEN Drop(s.slot, {NextRelease(s.slot)}) /\ UNCHANGED started
        ELSE started' = started \ {s} /\ UNCHANGED <<held, live>>
  BY DEF StopStep
<1>3. s.slot \in Slots
  BY DEF DeviceInv, Typed, DeviceTypeOK
<1>4. setup' = setup /\ Calls' = Calls /\ ApiObjects' = ApiObjects
  BY <1>1, SameSetup
<1>5. /\ Counted' /\ ContextLast'
      /\ held' \in [Slots -> SUBSET Objects] /\ live' \in [Slots -> [Objects -> {0, 1}]]
      /\ \A i \in Slots : held'[i] \subseteq held[i]
  <2>1. CASE held[s.slot] # {}
    <3> DEFINE i == s.slot
    <3>1. i \in Slots /\ held[i] # {} /\ Drop(i, {NextRelease(i)})
      BY <1>2, <1>3, <2>1
    <3> HIDE DEF i
    <3> QED BY <1>4, <3>1, ReleaseFacts
  <2>2. CASE held[s.slot] = {}
    BY <1>2, <2>2 DEF DeviceInv, Typed, DeviceTypeOK, ObjectInv, Counted, ContextLast
  <2> QED BY <2>1, <2>2
<1>6. started' \subseteq started
  BY <1>2
<1>7. Typed'
  BY <1>1, <1>4, <1>5, <1>6 DEF DeviceInv, Typed, DeviceTypeOK
<1>8. Owned'
  <2>1. ASSUME NEW i \in Slots, held'[i] # {}
        PROVE  \E t \in started' : t.slot = i
    <3>1. PICK t \in started : t.slot = i
      BY <1>1, <1>5, <2>1 DEF DeviceInv, ObjectInv, Owned
    <3>2. CASE held[s.slot] # {}
      BY <1>2, <3>1, <3>2
    <3>3. CASE held[s.slot] = {}
      <4>1. held[i] # {} /\ started' = started \ {s}
        BY <1>2, <1>5, <2>1, <3>3
      <4> QED BY <3>1, <3>3, <4>1
    <3> QED BY <3>2, <3>3
  <2>2. \A i \in Slots : held'[i] \subseteq ApiObjects'
    BY <1>4, <1>5 DEF DeviceInv, ObjectInv, Owned
  <2>3. \A t \in started' : t.slot < slot'
    BY <1>1, <1>6 DEF DeviceInv, ObjectInv, Owned
  <2> QED BY <1>1, <2>1, <2>2, <2>3 DEF Owned
<1>9. RoomLeft' /\ HeldHere'
  BY <1>1 DEF RoomLeft, HeldHere, Working
<1>10. ~(Chosen')
  BY <1>1 DEF Chosen
<1>11. KernelInv'
  BY <1>1, <1>6, <1>10, NoDeviceChosen
<1> QED BY <1>5, <1>7, <1>8, <1>9, <1>11 DEF DeviceInv, ObjectInv

LEMMA StoppedInv == ASSUME DeviceInv, Stopped PROVE DeviceInv'
<1>1. /\ at = "stop" /\ started = {} /\ at' = "idle" /\ slot' = 1
      /\ UNCHANGED <<loader, pending, purpose, step, made, tested, flaky, setup, starts>> /\ Untouched
  BY DEF Stopped, Fixed
<1>2. Calls' = Calls /\ ApiObjects' = ApiObjects
  BY <1>1, SameSetup
<1>3. Counted' /\ ContextLast' /\ held' \in [Slots -> SUBSET Objects] /\ live' \in [Slots -> [Objects -> {0, 1}]]
  BY <1>1, SameObjects
<1>4. slot' \in 1..(MaxDevices + 1)
  BY <1>1, DeviceAssumption
<1>5. Typed'
  BY <1>1, <1>2, <1>3, <1>4 DEF DeviceInv, Typed, DeviceTypeOK, Untouched
<1>6. \A i \in Slots : held[i] = {}
  BY <1>1 DEF DeviceInv, ObjectInv, Owned
<1>7. Owned' /\ RoomLeft' /\ HeldHere'
  BY <1>1, <1>2, <1>6 DEF Owned, RoomLeft, HeldHere, Working, Untouched
<1>8. ~(Chosen')
  BY <1>1 DEF Chosen
<1>9. KernelInv'
  BY <1>1, <1>8, NoDeviceChosen DEF Untouched
<1> QED BY <1>3, <1>5, <1>7, <1>9 DEF DeviceInv, ObjectInv

LEMMA StutterInv == ASSUME DeviceInv, UNCHANGED deviceVars PROVE DeviceInv'
<1>1. UNCHANGED <<setup, loader, at, pending, purpose, step, made, tested, flaky, held, live, started, slot, starts>>
  BY DEF deviceVars
<1>2. Calls' = Calls /\ ApiObjects' = ApiObjects /\ Opencl' = Opencl /\ Holding' = Holding
  BY <1>1, SameSetup, SameHolding
<1>3. InWork' = InWork /\ Choice' = Choice /\ Outcome' = Outcome
  BY <1>1, SameDevice
<1>4. Typed'
  BY <1>1, <1>2 DEF DeviceInv, Typed, DeviceTypeOK
<1>5. ObjectInv'
  BY <1>1, <1>2 DEF DeviceInv, ObjectInv, Counted, ContextLast, Owned, RoomLeft, HeldHere
<1>6. KernelInv'
  BY <1>1, <1>2, <1>3
     DEF DeviceInv, KernelInv, DeviceHere, Chosen, Usable, MadeHere, BuiltHere, TestedHere,
         NpiAgrees, TestedKernelMines
<1> QED BY <1>4, <1>5, <1>6 DEF DeviceInv

LEMMA NextDeviceInv == DeviceInv /\ [DeviceNext]_deviceVars => DeviceInv'
<1> SUFFICES ASSUME DeviceInv, [DeviceNext]_deviceVars PROVE DeviceInv'
  OBVIOUS
<1>1. CASE Load
  BY <1>1, LoadInv
<1>2. CASE Resolve
  BY <1>2, ResolveInv
<1>3. CASE Select
  BY <1>3, SelectInv
<1>4. CASE CreateStep
  BY <1>4, CreateStepInv
<1>5. CASE CreateFails
  BY <1>5, CreateFailsInv
<1>6. CASE Created
  BY <1>6, CreatedInv
<1>7. CASE DestroyStep
  BY <1>7, DestroyStepInv
<1>8. CASE Destroyed
  BY <1>8, DestroyedInv
<1>9. CASE Stop
  BY <1>9, StopInv
<1>10. CASE StopStep
  BY <1>10, StopStepInv
<1>11. CASE Stopped
  BY <1>11, StoppedInv
<1>12. CASE UNCHANGED deviceVars
  BY <1>12, StutterInv
<1> QED BY <1>1, <1>2, <1>3, <1>4, <1>5, <1>6, <1>7, <1>8, <1>9, <1>10, <1>11, <1>12 DEF DeviceNext, DeviceQuiet

(* The inductive invariant of device creation, mining and destruction. *)
THEOREM DeviceInvariant == DeviceSpec => []DeviceInv
BY InitDeviceInv, NextDeviceInv, PTL DEF DeviceSpec

(* Driver objects are never lost, released twice or released after their   *)
(* context, on any path through opencl_miner_create, cuda_miner_create,    *)
(* the self-tests and miner_stop, for any devices and configuration.       *)
THEOREM ObjectsAreReleased == DeviceSpec => []ObjectsReleased
<1>1. DeviceInv => ObjectsReleased
  <2> SUFFICES ASSUME DeviceInv PROVE ObjectsReleased
    OBVIOUS
  <2>1. at = "idle" => \A i \in Slots : held[i] = {}
    BY DEF DeviceInv, ObjectInv, Owned
  <2> QED BY <2>1 DEF DeviceInv, ObjectInv, ObjectsReleased, NoObjectLost, Counted
<1> QED BY <1>1, DeviceInvariant, PTL

(* A device mines with a kernel it can run, that counts nonces as its host *)
(* does, and that passed the self-test, for any devices and configuration. *)
THEOREM DevicesAreSound == DeviceSpec => []DeviceSound
<1>1. DeviceInv => DeviceSound
  <2> SUFFICES ASSUME DeviceInv PROVE DeviceSound
    OBVIOUS
  <2>1. KernelAllowed
    <3> SUFFICES ASSUME at = "create" PROVE KernelAllowed
      BY DEF KernelAllowed
    <3>1. /\ SoundChoice(Choice, InWork)
          /\ Opencl /\ setup.kernel = "auto" => SoundChoice(Fallback(Choice), InWork)
      BY ChoiceInWork DEF Chosen
    <3>2. SoundChoice(made, InWork)
      BY <3>1 DEF DeviceInv, KernelInv, MadeHere
    <3> QED BY <3>2 DEF SoundChoice, KernelAllowed
  <2> QED BY <2>1 DEF DeviceInv, Typed, KernelInv, DeviceSound
<1> QED BY <1>1, DeviceInvariant, PTL
=============================================================================
