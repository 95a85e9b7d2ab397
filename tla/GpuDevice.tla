----------------------------- MODULE GpuDevice -----------------------------
(***************************************************************************)
(* GPU devices from start to stop: the driver library is loaded, the       *)
(* devices are resolved, and each one is created for a self-test, tested,  *)
(* destroyed, created again for mining and destroyed at the stop           *)
(* (opencl_loader.c, opencl_miner.c, cuda_miner.c, and the calls of        *)
(* miner_start and miner_stop).  A creation acquires driver objects one    *)
(* after the other; every one of these calls may fail, and what has been   *)
(* acquired so far is released by the same destroy function.  OpenCL may   *)
(* build its program a second time, with another kernel.                   *)
(***************************************************************************)
EXTENDS Integers, Sequences, FiniteSets

CONSTANTS
    Setups,          \* what was configured on what hardware: see SetupRecord
    MaxDevices,      \* MINER_OPENCL_MAX_DEVICES
    MaxNpi,          \* largest number of nonces per work-item
    MaxStarts        \* bound on the starts of a miner in one process

OpenclKernels == {"compact", "unrolled", "npi1", "npi2", "npi4", "register"}
CudaKernels   == {"standard", "dual", "npt1", "npt2", "npt4"}
Versions      == {0, 10, 11, 12}     \* OpenCL 1.0, 1.1 and 1.2; 0: no usable version

(* A device.  preferred: the group size chosen for its vendor; compiles:   *)
(* the OpenCL kernels its compiler accepts.                                *)
HardwareRecord == [gpu : BOOLEAN, version : Versions, atomics : BOOLEAN,
                   max_group : Nat, preferred : {128, 256}, compiles : SUBSET OpenclKernels]

(* selection: an explicit list of devices, one device or all GPUs.         *)
SetupRecord ==
    [api : {"opencl", "cuda"}, selection : {"list", "one", "all"},
     kernel : OpenclKernels \cup CudaKernels \cup {"auto"}, backend : {"auto", "compat10", "modern"},
     npi : Nat, group : Nat, hardware : Seq(HardwareRecord), wanted : Seq(Nat)]

(* Kernels are parsed by the tables of their API (stratum_main.c), and the *)
(* configuration always names a device.  The kernels that fix the number   *)
(* of nonces need up to 4.                                                 *)
ASSUME DeviceAssumption ==
    /\ Setups \subseteq SetupRecord
    /\ \A s \in Setups :
         /\ s.kernel \in IF s.api = "opencl" THEN OpenclKernels \cup {"auto"} ELSE CudaKernels
         /\ s.wanted # << >>
    /\ MaxDevices \in Nat \ {0} /\ MaxNpi \in Nat /\ MaxNpi >= 4 /\ MaxStarts \in Nat

VARIABLES
    setup,
    loader,          \* "fresh", "loaded" or "failed": attempted and loaded
    at,              \* where miner_start, or miner_stop, is
    pending,         \* resolved devices not probed yet, the first is in work
    purpose,         \* what the device is created for: "test" or "mine"
    step,            \* the step of the creation
    made,            \* [kernel, backend, npi, group] of the device in work
    tested,          \* made of the last self-test that passed
    flaky,           \* a build failed that the compiler would have accepted
    held,            \* held[i]: driver objects the i-th device's struct names
    live,            \* live[i][o]: objects of each kind that exist for it
    started,         \* slots with a mining device: [slot, made, tested]
    slot,            \* the slot in work
    starts

deviceVars ==
    <<setup, loader, at, pending, purpose, step, made, tested, flaky, held, live,
      started, slot, starts>>

Slots   == 1..MaxDevices
Objects == {"context", "queue", "module", "program", "kernel", "count_buf", "matches_buf", "matches"}
Nothing == [kernel |-> "auto", backend |-> "auto", npi |-> 0, group |-> 0]

DeviceInit ==
    /\ setup \in Setups
    /\ loader = "fresh" /\ at = "idle"
    /\ pending = << >> /\ purpose = "test" /\ step = 0
    /\ made = Nothing /\ tested = Nothing /\ flaky = FALSE
    /\ held = [i \in Slots |-> {}]
    /\ live = [i \in Slots |-> [o \in Objects |-> 0]]
    /\ started = {} /\ slot = 1 /\ starts = 0

Opencl == setup.api = "opencl"
InWork == setup.hardware[Head(pending)]

-----------------------------------------------------------------------------
(* Choices that depend on the configuration and the device only. *)

(* Faulty variant: no upper bound.                                         *)
ClampNpiUnbounded(n) == IF n = 0 THEN 1 ELSE n

(* clamp_nonces_per_work_item, clamp_nonces_per_thread. *)
ClampNpi(n) == IF n = 0 THEN 1 ELSE IF n > MaxNpi THEN MaxNpi ELSE n

(* clamp_threads_per_block: whole warps of 32. *)
ClampThreads(n) ==
    LET wanted == IF n = 0 THEN 256 ELSE n
    IN  IF wanted < 32 THEN 32 ELSE IF wanted > 1024 THEN 1024 ELSE ((wanted + 31) \div 32) * 32

(* choose_local_work_size, and the clamp of a configured size; 0 leaves    *)
(* the choice to the driver.                                               *)
LocalWorkSize(n, hw) ==
    LET max  == hw.max_group
        fits == {c \in {1, 2, 4, 8, 16, 32, 64, 128, 256, 512} : c <= max}
    IN  IF n # 0 THEN IF max > 0 /\ n > max THEN max ELSE n
        ELSE IF max = 0 THEN 0 ELSE IF hw.preferred <= max THEN hw.preferred
        ELSE CHOOSE c \in fits : \A e \in fits : e <= c

(* The number of nonces a kernel hashes whatever it is told; 0 for none.   *)
ForcedNpi(kernel) ==
    CASE kernel \in {"npi1", "npt1"} -> 1
      [] kernel \in {"npi2", "npt2", "register"} -> 2
      [] kernel \in {"npi4", "npt4"} -> 4
      [] OTHER -> 0

ModernOnly(kernel) == kernel \in {"npi1", "npi2", "npi4", "register"}

(* resolve_backend_variant; "none" when the device does not qualify. *)
Backend(hw) ==
    LET wanted == IF setup.backend # "auto" THEN setup.backend
                  ELSE IF hw.version >= 12 THEN "modern" ELSE "compat10"
    IN  IF wanted = "modern" THEN IF hw.version >= 12 THEN "modern" ELSE "none"
        ELSE IF hw.version >= 11 \/ (hw.version >= 10 /\ hw.atomics) THEN "compat10" ELSE "none"

(* What a creation settles before it calls the driver. *)
MadeFor(hw, wanted, npi, group) ==
    LET kernel == IF Opencl /\ wanted = "auto" THEN "unrolled" ELSE wanted
    IN  [kernel  |-> kernel,
         backend |-> IF Opencl THEN Backend(hw) ELSE "auto",
         npi     |-> IF ForcedNpi(kernel) # 0 THEN ForcedNpi(kernel) ELSE ClampNpi(npi),
         group   |-> IF Opencl THEN LocalWorkSize(group, hw) ELSE ClampThreads(group)]

(* Faulty variants: fixed kernels keep the configured number of nonces,    *)
(* and a self-test that runs with the defaults.                            *)
MadeWithoutForce(hw) ==
    [MadeFor(hw, setup.kernel, setup.npi, setup.group) EXCEPT !.npi = ClampNpi(setup.npi)]

MadeTestsDefaults(hw) ==
    IF purpose = "test" THEN MadeFor(hw, IF Opencl THEN "auto" ELSE "standard", 0, 0)
    ELSE MadeFor(hw, setup.kernel, setup.npi, setup.group)

Made(hw) == MadeFor(hw, setup.kernel, setup.npi, setup.group)

(* Faulty variant: a kernel that needs the modern backend gets any.        *)
UsableAnyBackend(m) == m.backend # "none"

Usable(m) == /\ m.backend # "none"
             /\ ModernOnly(m.kernel) => m.backend = "modern"

(* The driver calls of a creation, and the order in which a destruction    *)
(* releases what they acquired.                                            *)
Calls ==
    IF Opencl THEN <<"context", "queue", "program", "build", "kernel", "count_buf", "matches_buf", "matches">>
    ELSE <<"context", "module", "function", "count_buf", "matches_buf", "matches">>

(* Faulty variant: the context goes first.                                 *)
ReleaseOrderContextFirst ==
    IF Opencl THEN <<"context", "queue", "program", "kernel", "count_buf", "matches_buf", "matches">>
    ELSE <<"context", "module", "count_buf", "matches_buf", "matches">>

ReleaseOrder ==
    IF Opencl THEN <<"matches", "matches_buf", "count_buf", "kernel", "program", "queue", "context">>
    ELSE <<"matches_buf", "count_buf", "module", "context", "matches">>

-----------------------------------------------------------------------------
(* Loading and resolving. *)

Fixed == UNCHANGED <<setup, starts>>
Untouched == UNCHANGED <<held, live, started>>

(* miner_start.  A library that could not be loaded is not tried again.    *)
Load ==
    /\ at = "idle" /\ starts < MaxStarts /\ starts' = starts + 1
    /\ loader' \in IF loader = "fresh" THEN {"loaded", "failed"} ELSE {loader}
    /\ at' = IF loader' = "loaded" THEN "resolve" ELSE "idle"
    /\ slot' = 1
    /\ UNCHANGED <<setup, pending, purpose, step, made, tested, flaky>> /\ Untouched

(* Lists of GPUs of all platforms, in their order; one whose query fails   *)
(* is left out.                                                            *)
Listed ==
    {q \in UNION {[1..n -> 1..Len(setup.hardware)] : n \in 1..MaxDevices} :
        /\ \A i \in DOMAIN q : setup.hardware[q[i]].gpu
        /\ \A i, j \in DOMAIN q : i < j => q[i] < q[j]}

First(seq) == SubSeq(seq, 1, IF Len(seq) < MaxDevices THEN Len(seq) ELSE MaxDevices)

(* opencl_miner_resolve_devices; CUDA has one device.  An index out of     *)
(* range is found out when the device is created.                          *)
Resolve ==
    /\ at = "resolve"
    /\ \/ pending' = << >>                    \* none found, or a calloc of miner_start fails
       \/ setup.selection = "list" /\ pending' = First(setup.wanted)
       \/ setup.selection = "one"  /\ pending' = << setup.wanted[1] >>
       \/ setup.selection = "all"  /\ pending' \in Listed
    /\ at' = IF pending' = << >> THEN "mining" ELSE "select"
    /\ purpose' = "test"
    /\ UNCHANGED <<loader, step, made, tested, flaky, slot>> /\ Fixed /\ Untouched

(* The next resolved device, or the end of the probing. *)
NextDevice ==
    /\ pending' = Tail(pending) /\ purpose' = "test"
    /\ at' = IF Len(pending) = 1 THEN "mining" ELSE "select"

Skip == NextDevice /\ UNCHANGED <<slot, step, made, tested, flaky>> /\ Untouched

(* The device is looked up and the configuration settled, before any       *)
(* driver object exists.                                                   *)
Select ==
    /\ at = "select"
    /\ \/ Head(pending) \notin 1..Len(setup.hardware) /\ Skip
       \/ Skip                                          \* calloc or a query fails
       \/ /\ Head(pending) \in 1..Len(setup.hardware)
          /\ LET m == Made(InWork)
             IN  IF ~Usable(m) THEN Skip
                 ELSE /\ made' = m /\ at' = "create" /\ step' = 1
                      /\ UNCHANGED <<pending, purpose, slot, tested, flaky>> /\ Untouched
    /\ UNCHANGED loader /\ Fixed

-----------------------------------------------------------------------------
(* Creating and destroying. *)

Acquire(o) ==
    /\ held' = [held EXCEPT ![slot] = @ \cup {o}]
    /\ live' = [live EXCEPT ![slot][o] = @ + 1]

Drop(i, set) ==
    /\ held' = [held EXCEPT ![i] = @ \ set]
    /\ live' = [live EXCEPT ![i] = [o \in Objects |-> IF o \in set THEN @[o] - 1 ELSE @[o]]]

CreateStep ==
    /\ at = "create" /\ step <= Len(Calls)
    /\ Calls[step] = "build" => made.kernel \in InWork.compiles
    /\ IF Calls[step] \in Objects THEN Acquire(Calls[step]) ELSE UNCHANGED <<held, live>>
    /\ step' = step + 1
    /\ UNCHANGED <<loader, at, pending, purpose, made, tested, flaky, started, slot>> /\ Fixed

(* Faulty variant: the first program is forgotten.                         *)
ReleaseProgramObjectsForgets == held' = [held EXCEPT ![slot] = @ \ {"program", "kernel"}] /\ UNCHANGED live

ReleaseProgramObjects == Drop(slot, {"program", "kernel"} \cap held[slot])

(* Calls of build_program. *)
Building == Opencl /\ Calls[step] \in {"program", "build", "kernel"}

CreateFails ==
    /\ at = "create" /\ step <= Len(Calls)
    /\ flaky' = (flaky \/ (Building /\ made.kernel \in InWork.compiles))
    /\ IF Building /\ setup.kernel = "auto" /\ made.kernel = "unrolled"
       THEN /\ ReleaseProgramObjects
            /\ made' = [made EXCEPT !.kernel = "compact"]
            /\ step' = 3 /\ UNCHANGED at
       ELSE at' = "destroy" /\ step' = 0 /\ UNCHANGED <<held, live, made>>
    /\ UNCHANGED <<loader, pending, purpose, tested, started, slot>> /\ Fixed

(* The self-test scans and the device is destroyed; a device for mining    *)
(* takes its slot.                                                         *)
Created ==
    /\ at = "create" /\ step = Len(Calls) + 1
    /\ IF purpose = "test"
       THEN /\ at' = "destroy" /\ step' \in {0, 1}      \* 1: the test passed
            /\ tested' = IF step' = 1 THEN made ELSE tested
            /\ UNCHANGED <<pending, purpose, started, slot>>
       ELSE /\ started' = started \cup {[slot |-> slot, made |-> made, tested |-> tested]}
            /\ slot' = slot + 1 /\ step' = 0 /\ UNCHANGED tested
            /\ NextDevice
    /\ UNCHANGED <<loader, made, flaky, held, live>> /\ Fixed

(* The next object a destruction of the i-th device releases. *)
NextRelease(i) ==
    ReleaseOrder[CHOOSE k \in 1..Len(ReleaseOrder) :
                    /\ ReleaseOrder[k] \in held[i]
                    /\ \A j \in 1..(k - 1) : ReleaseOrder[j] \notin held[i]]

DestroyStep ==
    /\ at = "destroy" /\ held[slot] # {}
    /\ Drop(slot, {NextRelease(slot)})
    /\ UNCHANGED <<loader, at, pending, purpose, step, made, tested, flaky, started, slot>> /\ Fixed

Destroyed ==
    /\ at = "destroy" /\ held[slot] = {}
    /\ IF purpose = "test" /\ step = 1
       THEN at' = "select" /\ purpose' = "mine" /\ UNCHANGED pending
       ELSE NextDevice
    /\ step' = 0
    /\ UNCHANGED <<loader, made, tested, flaky, held, live, started, slot>> /\ Fixed

(* miner_stop destroys the devices when their workers have been joined.    *)
Stop ==
    /\ at = "mining"
    /\ at' = "stop" /\ pending' = << >>
    /\ UNCHANGED <<loader, purpose, step, made, tested, flaky, slot>> /\ Fixed /\ Untouched

StopStep ==
    /\ at = "stop"
    /\ \E s \in started :
         /\ \A t \in started : s.slot <= t.slot
         /\ IF held[s.slot] # {} THEN Drop(s.slot, {NextRelease(s.slot)}) /\ UNCHANGED started
            ELSE started' = started \ {s} /\ UNCHANGED <<held, live>>
    /\ UNCHANGED <<loader, at, pending, purpose, step, made, tested, flaky, slot>> /\ Fixed

Stopped ==
    /\ at = "stop" /\ started = {}
    /\ at' = "idle" /\ slot' = 1
    /\ UNCHANGED <<loader, pending, purpose, step, made, tested, flaky>> /\ Fixed /\ Untouched

DeviceQuiet == at = "idle" /\ starts = MaxStarts /\ UNCHANGED deviceVars

DeviceNext ==
    \/ Load \/ Resolve \/ Select \/ CreateStep \/ CreateFails \/ Created
    \/ DestroyStep \/ Destroyed \/ Stop \/ StopStep \/ Stopped \/ DeviceQuiet

DeviceSpec == DeviceInit /\ [][DeviceNext]_deviceVars

-----------------------------------------------------------------------------
(* Properties.                                                             *)

MadeRecord == [kernel : OpenclKernels \cup CudaKernels \cup {"auto"},
               backend : {"auto", "compat10", "modern"}, npi : 0..MaxNpi, group : Nat]

(* Values of the variables; there is never more than one of an object. *)
DeviceTypeOK ==
    /\ setup \in SetupRecord /\ loader \in {"fresh", "loaded", "failed"}
    /\ at \in {"idle", "resolve", "select", "create", "destroy", "mining", "stop"}
    /\ pending \in Seq(Nat) /\ purpose \in {"test", "mine"} /\ step \in 0..(Len(Calls) + 1)
    /\ made \in MadeRecord /\ tested \in MadeRecord /\ flaky \in BOOLEAN
    /\ held \in [Slots -> SUBSET Objects] /\ live \in [Slots -> [Objects -> {0, 1}]]
    /\ slot \in 1..(MaxDevices + 1) /\ starts \in 0..MaxStarts
    /\ started \subseteq [slot : Slots, made : MadeRecord, tested : MadeRecord]

(* The objects that exist are those the structs name: no failed creation,  *)
(* second build, self-test or stop loses one or releases one twice, and    *)
(* none is left when the miner is idle (lines 1163-1175, 1277-1351 of      *)
(* opencl_miner.c, 468-489 of cuda_miner.c).                               *)
NoObjectLost ==
    /\ \A i \in Slots, o \in Objects : live[i][o] = IF o \in held[i] THEN 1 ELSE 0
    /\ at = "idle" => \A i \in Slots : held[i] = {}

(* A context is destroyed only after everything made in it. *)
ContextLast ==
    \A i \in Slots : "context" \notin held[i] => held[i] \subseteq {"matches"}

(* The driver's objects are released once, and in an order it allows, on   *)
(* every path out of creation, self-test and mining.                       *)
ObjectsReleased == NoObjectLost /\ ContextLast

(* The kernels a device was given hash as many nonces as its host counts   *)
(* per work-item: by their name or by their argument.                      *)
NpiAgrees ==
    \A s \in started :
        /\ ForcedNpi(s.made.kernel) \in {0, s.made.npi}
        /\ s.made.npi \in 1..MaxNpi

(* A device mines with a kernel its OpenCL version allows, and with whole  *)
(* groups that it can run.                                                 *)
KernelAllowed ==
    at = "create" =>
        /\ ModernOnly(made.kernel) => InWork.version >= 12
        /\ Opencl => /\ made.kernel \in OpenclKernels
                     /\ InWork.max_group > 0 => made.group \in 1..InWork.max_group
        /\ ~Opencl => made.group \in 32..1024 /\ made.group % 32 = 0

(* What the log calls self-test=ok was tested: a device mines with the     *)
(* kernel, size and backend its self-test used, the fallback of "auto"     *)
(* included, if its compiler answers the same twice.                       *)
TestedKernelMines == ~flaky => \A s \in started : s.made = s.tested

(* A device that mines has a kernel that it can run, that agrees with its  *)
(* host on the nonces per work-item, and that passed the self-test.        *)
DeviceSound == DeviceTypeOK /\ NpiAgrees /\ KernelAllowed /\ TestedKernelMines
=============================================================================
