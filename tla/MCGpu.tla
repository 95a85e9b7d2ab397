------------------------------- MODULE MCGpu -------------------------------
(***************************************************************************)
(* GpuDevice and GpuScan as one GPU: once a device is created it scans, in *)
(* its self-test or for a worker.                                          *)
(***************************************************************************)
EXTENDS GpuDevice, GpuScan

VARIABLE scanning    \* the scans of a device are being followed

gpuVars == <<deviceVars, vars, scanning>>

-----------------------------------------------------------------------------
(* Values of the constants. *)

Hw(gpu, version, atomics, max_group, preferred, compiles) ==
    [gpu |-> gpu, version |-> version, atomics |-> atomics, max_group |-> max_group,
     preferred |-> preferred, compiles |-> compiles]

Old    == Hw(TRUE, 10, TRUE, 24, 128, {"compact"})
Bare   == Hw(TRUE, 10, FALSE, 0, 256, OpenclKernels)
Modern == Hw(TRUE, 12, TRUE, 1024, 256, OpenclKernels)
Host   == Hw(FALSE, 12, TRUE, 8, 128, {"compact"})

Plain == [api |-> "opencl", selection |-> "list", kernel |-> "auto", backend |-> "auto",
          npi |-> 0, group |-> 0, hardware |-> <<Old, Modern>>, wanted |-> <<2, 1, 1>>]

MCSetups ==
    {[Plain EXCEPT !.kernel = k, !.backend = b, !.npi = n, !.group = g, !.selection = "one",
                   !.hardware = <<h>>, !.wanted = <<1>>] :
        k \in OpenclKernels \cup {"auto"}, b \in {"auto", "compat10", "modern"}, n \in {0, 2, 3, 9},
        g \in {0, 100}, h \in {Old, Bare, Modern}}
    \cup
    {[Plain EXCEPT !.selection = s, !.hardware = h, !.wanted = w] :
        s \in {"list", "all"}, h \in {<<Old, Modern>>, <<Host, Modern, Old, Modern>>},
        w \in {<<2, 1, 1>>, <<3, 1>>}}
    \cup
    {[Plain EXCEPT !.api = "cuda", !.selection = "one", !.kernel = k, !.npi = n, !.group = g,
                   !.wanted = w] :
        k \in CudaKernels, n \in {0, 2, 3}, g \in {0, 1, 33, 1000, 2000}, w \in {<<1>>, <<5>>}}

MCKernels ==
    {[kind |-> k, npi |-> n] : k \in {"bounded", "ranged"}, n \in {1, 2, 3}}
    \cup {[kind |-> k, npi |-> n] : k \in {"clipped", "fixed"}, n \in {1, 2, 4}}

-----------------------------------------------------------------------------
(* How GpuScan describes the kernel of the device in work. *)
Kind ==
    CASE made.kernel \in {"compact", "unrolled"} -> "bounded"
      [] ModernOnly(made.kernel) -> "fixed"
      [] made.kernel \in {"standard", "dual"} -> "ranged"
      [] made.kernel \in {"npt1", "npt2", "npt4"} -> "clipped"

GpuInit ==
    /\ DeviceInit /\ scanning = FALSE
    /\ Init /\ test = FALSE /\ kernel = CHOOSE k \in Kernels : TRUE
    /\ sane /\ group = CHOOSE g \in Groups : TRUE

Lives == ~scanning /\ DeviceNext /\ UNCHANGED <<vars, scanning>>

(* Bound: the scans of one device are followed for each kernel of GpuScan. *)
Followed ==
    /\ starts = 1 /\ ~flaky
    /\ setup.group = 0 /\ setup.backend = "auto" /\ setup.wanted = <<1>>
    /\ Opencl => setup.hardware = <<Modern>>
    /\ \/ setup.kernel \in {"unrolled", "standard"} /\ setup.npi \in {0, 2, 3}
       \/ setup.kernel \in {"npi1", "npi2", "npi4", "npt1", "npt2", "npt4"} /\ setup.npi = 0

Begin(is_test) ==
    /\ ~scanning /\ Followed /\ scanning' = TRUE
    /\ test' = is_test /\ sane' \in {TRUE, ~is_test}
    /\ kernel' = [kind |-> Kind, npi |-> made.npi] /\ group' \in Groups
    /\ matches' = [i \in 0..((IF is_test THEN TestResults ELSE MaxResults) - 1) |-> Unwritten]
    /\ UNCHANGED <<deviceVars, host, nonce_count, hits, count_buf, todo, claim, delivered, rc,
                   seen, failed, scans>>

(* A device made for its self-test runs it; one that mines scans. *)
BeginTest == at = "create" /\ step = Len(Calls) + 1 /\ purpose = "test" /\ Begin(TRUE)

BeginMining == at = "mining" /\ started # {} /\ Begin(FALSE)

Scans == scanning /\ Next /\ UNCHANGED <<deviceVars, scanning>>

GpuNext == Lives \/ BeginTest \/ BeginMining \/ Scans

GpuSpec == GpuInit /\ [][GpuNext]_gpuVars
=============================================================================
