------------------------------ MODULE Autotune ------------------------------
(***************************************************************************)
(* The start of btc_stratum, src/src/stratum_main.c: the configuration     *)
(* file is loaded, the command line applied, and, when the worker kinds in *)
(* use have not been measured yet, the autotuner measures them, selects a  *)
(* mode and saves it into the file, in place.  The program may be ended by *)
(* a signal at any point and is started again; its user may edit the file. *)
(*                                                                         *)
(* Rates are what a measurement of a fixed time counts, in percent of some *)
(* unit; 0 is a mode that does not start or does not hash.  The settings   *)
(* of a GPU are the backend, kernel, nonces per work item (per thread) and *)
(* batch size; local-work-size (threads-per-block) is one more list of the *)
(* same kind as nonces per work item and is left out.  So is the clipping  *)
(* of lists at MINER_OPENCL_MAX_DEVICES: files and machines have no more.  *)
(***************************************************************************)
EXTENDS Integers, Sequences, SequencesExt

CONSTANTS
    Setups,         \* machines with their first configuration files
    OpenclKernels,  \* kernel_candidates_raw, without the configured ones
    CudaKernels,
    Npis,           \* npi_candidates_raw, npt_candidates_raw, likewise
    Batches,        \* batch_candidates_raw, likewise
    MaxResults,     \* AUTOTUNE_MAX_RESULTS
    MaxStarts,      \* bound on the starts of the program
    MaxEdits        \* bound on the edits of the file

(* The kernel variants: "auto", CUDA's first one, and the candidates. *)
Kernels  == {"auto", "standard"} \cup Range(OpenclKernels) \cup Range(CudaKernels)
Settings == [backend : {"auto", "compat10", "modern", "cuda"}, kernel : Kernels, npi : Nat, batch : Nat]
Device   == [id : Nat, set : Settings]

(* app_config_t, and a mode of autotune_result_t. *)
OpenclConfig == [on : BOOLEAN, base : Settings, devices : Seq(Device)]
CudaConfig   == [on : BOOLEAN, base : Settings]
Pools  == {"default", "first", "second"}
Config ==
    [cpu : BOOLEAN, threads : Nat, affinity : BOOLEAN, opencl : OpenclConfig, cuda : CudaConfig,
     autosave : BOOLEAN, enabled : BOOLEAN, cpu_done : BOOLEAN, gpu_done : BOOLEAN, pools : Pools]
Modes == [threads : Nat, affinity : BOOLEAN, opencl : OpenclConfig, cuda : CudaConfig]

Off     == "none"  \* no option
Args    == [config : BOOLEAN, mine : BOOLEAN, autotune : {Off, "force", "off"},
            workers : {Off, "threads", "no-cpu", "opencl", "opencl-all", "cuda"}]
Machine == [threads : Nat, affinity : BOOLEAN, gpus : Nat, rates : SUBSET Nat, modes : SUBSET Nat,
            edits : SUBSET {"pools", "opencl", "cuda"}, args : SUBSET Args]

(* What a file says under the further names of a setting that              *)
(* load_config_file reads after the one the save writes, in the order they *)
(* are read: the root's "threads", OpenCL's batch_size, nonces_per_work_item *)
(* and npi, CUDA's batch_size, nonces_per_thread and npt, cpu_self_test,   *)
(* and gpu_self_test, opencl-self-test and opencl_self_test.  The listed   *)
(* devices have such names too; a save writes their list anew.             *)
Aliases ==
    [threads : Seq(Nat), npi : Seq(Nat), batch : Seq(Nat), cuda_npi : Seq(Nat), cuda_batch : Seq(Nat),
     cpu_done : Seq(BOOLEAN), gpu_done : Seq(BOOLEAN)]
File == [state : {"absent", "torn", "good"}, cfg : Config, alias : Aliases]

ASSUME AutotuneAssumption ==
    /\ OpenclKernels \in Seq(STRING) /\ CudaKernels \in Seq(STRING)
    /\ Npis \in Seq(Nat) /\ Batches \in Seq(Nat)
    /\ MaxResults \in Nat /\ MaxStarts \in Nat /\ MaxEdits \in Nat

(* The pools of a file that is not there, or is no JSON, are the default.  *)
ASSUME SetupAssumption ==
    \A s \in Setups :
        /\ s.machine \in Machine /\ s.file \in File
        /\ s.file.state # "good" => s.file.cfg.pools = "default"

VARIABLES
    machine,   \* [threads, affinity, gpus, rates, modes, edits, args]: default_thread_count,
               \* affinity support, OpenCL GPUs, the outcomes of a probe of a GPU and of the
               \* measurement of a mode, what the user edits in the file, and the command lines
    file,      \* the configuration file: [state, cfg, alias]; "absent", "torn" (no valid JSON) or "good"
    path,      \* config_path is set
    at,        \* "off", "cpu", "resolve", "probe", "opencl", "cuda", "select", "save", "merge",
               \* "write", "mining"
    args,      \* the command line
    cfg,       \* app_config
    plan,      \* the modes the current section has still to measure
    results,   \* the modes measured, with their rates
    gpus,      \* resolved: the OpenCL GPUs with their settings
    probe,     \* the probe under way
    written,   \* root: what save_autotune_config is about to write
    \* auxiliary
    before,    \* the configuration when tuning began
    kept,      \* <<what the last save wrote>>, or <<>> when there is none or the file was touched since
    user_pools,\* the pools the user last wrote into the file
    spoiled,   \* a save did not complete, or overtook an edit
    measured,  \* the GPU kinds that have hashed when a mode was selected
    starts, edits

tuning == <<plan, results, gpus, probe>>
ghosts == <<before, kept, user_pools, spoiled, measured>>
tunerVars == <<machine, file, path, at, args, cfg, tuning, written, ghosts, starts, edits>>

NoArgs == [config |-> FALSE, mine |-> TRUE, workers |-> Off, autotune |-> Off]
DefaultOpencl == [backend |-> "auto", kernel |-> "auto", npi |-> 1, batch |-> 1]
DefaultCuda   == [backend |-> "cuda", kernel |-> "standard", npi |-> 1, batch |-> 1]
NoOpencl == [on |-> FALSE, base |-> DefaultOpencl, devices |-> <<>>]
NoCuda   == [on |-> FALSE, base |-> DefaultCuda]
NoProbe  == [on |-> -1, stage |-> "kernel", todo |-> <<>>, base |-> DefaultOpencl,
             best |-> DefaultOpencl, rate |-> 0, seen |-> 0]

NoAlias ==
    [threads |-> <<>>, npi |-> <<>>, batch |-> <<>>, cuda_npi |-> <<>>, cuda_batch |-> <<>>,
     cpu_done |-> <<>>, gpu_done |-> <<>>]

(* app_config_set_defaults. *)
Defaults ==
    [cpu |-> TRUE, threads |-> 0, affinity |-> FALSE, opencl |-> NoOpencl, cuda |-> NoCuda, autosave |-> TRUE,
     enabled |-> TRUE, cpu_done |-> FALSE, gpu_done |-> FALSE, pools |-> "default"]

(* A file that was truncated. *)
Torn == [state |-> "torn", cfg |-> Defaults, alias |-> NoAlias]

-----------------------------------------------------------------------------
(* Loading the file *)

Missing == "missing"  \* json_string_value of a key that is not there

(* parse_opencl_kernel_variant, parse_opencl_backend_variant and           *)
(* parse_cuda_kernel_variant: a missing key means the first variant.       *)
ParseVariant(value, fallback, first) == IF value = Missing THEN first ELSE value

(* The key is read under its three names, and the file has the first. *)
ReadVariant(value, default, first) ==
    ParseVariant(Missing, ParseVariant(Missing, ParseVariant(value, default, first), first), first)

ReadSettings(s, base) ==
    IF base.backend = "cuda" THEN [s EXCEPT !.kernel = ReadVariant(@, base.kernel, "standard")]
    ELSE [s EXCEPT !.kernel = ReadVariant(@, base.kernel, "auto"), !.backend = ReadVariant(@, base.backend, "auto")]

(* A listed device; what it does not say is as in the base. *)
ReadDevice(d, base) == [id |-> d.id, set |-> ReadSettings(d.set, base)]

(* A setting is overwritten by each further name it is found under. *)
Over(value, names) == IF names = <<>> THEN value ELSE names[Len(names)]

OverSettings(s, npi, batch) == [s EXCEPT !.npi = Over(@, npi), !.batch = Over(@, batch)]

(* Faulty variant: the settings of listed devices are not read. *)
LoadConfigFileBaseOnly(f) ==
    LET base == OverSettings(ReadSettings(f.cfg.opencl.base, DefaultOpencl), f.alias.npi, f.alias.batch)
    IN [f.cfg EXCEPT
          !.threads = Over(@, f.alias.threads),
          !.cpu_done = Over(@, f.alias.cpu_done), !.gpu_done = Over(@, f.alias.gpu_done),
          !.opencl.base = base, !.opencl.devices = [i \in DOMAIN @ |-> [id |-> @[i].id, set |-> base]],
          !.cuda.base = OverSettings(ReadSettings(@, DefaultCuda), f.alias.cuda_npi, f.alias.cuda_batch)]

(* load_config_file, of a file that parses. *)
LoadConfigFile(f) ==
    LET base == OverSettings(ReadSettings(f.cfg.opencl.base, DefaultOpencl), f.alias.npi, f.alias.batch)
    IN [f.cfg EXCEPT
          !.threads = Over(@, f.alias.threads),
          !.cpu_done = Over(@, f.alias.cpu_done), !.gpu_done = Over(@, f.alias.gpu_done),
          !.opencl.base = base, !.opencl.devices = [i \in DOMAIN @ |-> ReadDevice(@[i], base)],
          !.cuda.base = OverSettings(ReadSettings(@, DefaultCuda), f.alias.cuda_npi, f.alias.cuda_batch)]

(* The options of main. *)
ApplyArgs(c, a) ==
    LET w == CASE a.workers = "threads" -> [c EXCEPT !.threads = 1, !.cpu = TRUE]
               [] a.workers = "no-cpu"  -> [c EXCEPT !.cpu = FALSE]
               [] a.workers = "opencl"  -> [c EXCEPT !.opencl.on = TRUE]
               [] a.workers = "opencl-all" -> [c EXCEPT !.opencl.on = TRUE, !.opencl.devices = <<>>]
               [] a.workers = "cuda"    -> [c EXCEPT !.cuda.on = TRUE]
               [] OTHER -> c
    IN CASE a.autotune = "force" -> [w EXCEPT !.enabled = TRUE, !.cpu_done = FALSE, !.gpu_done = FALSE]
         [] a.autotune = "off"   -> [w EXCEPT !.enabled = FALSE]
         [] OTHER -> w

(* main's defaults for the threads. *)
Normalized(c) ==
    [c EXCEPT !.threads = IF ~c.cpu THEN 0 ELSE IF c.threads <= 0 THEN machine.threads ELSE @]

NeedsCpu(c) == c.cpu /\ c.threads > 0 /\ ~c.cpu_done
NeedsGpu(c) == (c.opencl.on \/ c.cuda.on) /\ ~c.gpu_done

(* Faulty variant: worker options skip the GPU's measurements too. *)
TunesNotForWorkers(c, a) ==
    /\ c.enabled /\ a.mine
    /\ NeedsCpu(c) \/ NeedsGpu(c)
    /\ a.workers = Off \/ a.autotune = "force"

(* app_config_autotune_required, and the exception for worker options. *)
Tunes(c, a) ==
    /\ c.enabled /\ a.mine
    /\ NeedsCpu(c) \/ NeedsGpu(c)
    /\ a.workers = Off \/ a.autotune = "force" \/ NeedsGpu(c)

-----------------------------------------------------------------------------
(* The modes *)

(* The lists of candidates: the values of s that are in S, each once; seen *)
(* is the list after the first i values.                                   *)
SeenOf(s, S) ==
    LET seen[i \in 0..Len(s)] ==
            IF i = 0 THEN <<>>
            ELSE IF s[i] \in S /\ ~Contains(seen[i - 1], s[i]) THEN Append(seen[i - 1], s[i])
            ELSE seen[i - 1]
    IN seen

Once(s, S) == SeenOf(s, S)[Len(s)]

(* autotune_cpu_thread_candidates. *)
ThreadCandidates(n) ==
    LET raw == <<n, n - 1, (3 * n + 3) \div 4, (2 * n + 2) \div 3, n \div 2, 1>>
    IN Once([i \in 1..6 |-> IF raw[i] > n THEN n ELSE raw[i]], 1..n)

Mode(threads, affinity, opencl, cuda) ==
    [threads |-> threads, affinity |-> affinity /\ threads > 0, opencl |-> opencl, cuda |-> cuda]

(* The modes of autotune_append_cpu_thread_results. *)
CpuModes(c, opencl, cuda) ==
    LET counts == ThreadCandidates(c.threads)
        OfCount(n) == <<Mode(n, FALSE, opencl, cuda)>>
                      \o (IF machine.affinity THEN <<Mode(n, TRUE, opencl, cuda)>> ELSE <<>>)
    IN FlattenSeq([i \in 1..Len(counts) |-> OfCount(counts[i])])

(* With the CPU off, full_threads is 0. *)
WithCpu(c, modes) == IF c.threads > 0 THEN modes ELSE <<>>

(* autotune_device_list_config. *)
DeviceList(c, devices) == [on |-> TRUE, base |-> c.opencl.base, devices |-> devices]

(* A list of GPUs alone, and with all the CPU threads. *)
PairOfModes(c, devices) ==
    <<Mode(0, FALSE, DeviceList(c, devices), NoCuda)>>
    \o WithCpu(c, <<Mode(c.threads, c.affinity, DeviceList(c, devices), NoCuda)>>)

OpenclModes(c, devices) ==
    LET n == Len(devices)
    IN <<Mode(0, FALSE, DeviceList(c, devices), NoCuda)>>
       \o WithCpu(c, CpuModes(c, DeviceList(c, devices), NoCuda))
       \o FlattenSeq([i \in 1..n |-> PairOfModes(c, <<devices[i]>>)])
       \o FlattenSeq([i \in 1..(IF n > 2 THEN n ELSE 0) |-> PairOfModes(c, RemoveAt(devices, i))])

CudaModes(c, settings) ==
    LET cuda == [on |-> TRUE, base |-> settings]
    IN <<Mode(0, FALSE, NoOpencl, cuda)>> \o WithCpu(c, CpuModes(c, NoOpencl, cuda))

-----------------------------------------------------------------------------
(* The settings a GPU is probed with *)

ForcedNpi(kernel) == IF kernel = "fixed2" THEN 2 ELSE 0

(* opencl_kernel_backend_compatible; fixed kernels are modern only. *)
Compatible(backend, kernel) == backend = "compat10" => ForcedNpi(kernel) = 0

Backends(base) ==
    CASE base.backend = "cuda" -> <<"cuda">>
      [] base.backend = "auto" -> <<"compat10", "modern">>
      [] OTHER -> <<base.backend>>

(* The loops over backends, kernels and nonces per work item.  A resolved   *)
(* device has the settings of the configuration it was resolved from.      *)
Candidates(base, kernels) ==
    LET ks == Once(<<base.kernel>> \o kernels, Kernels \ {"auto"})
        ns == Once(<<base.npi>> \o Npis, Nat)
        bs == Backends(base)
        Candidate(backend, kernel, npi) ==
            IF Compatible(backend, kernel) /\ ForcedNpi(kernel) \in {0, npi}
            THEN <<[backend |-> backend, kernel |-> kernel, npi |-> npi, batch |-> base.batch]>>
            ELSE <<>>
    IN FlattenSeq([b \in 1..Len(bs) |-> FlattenSeq([k \in 1..Len(ks) |-> FlattenSeq([n \in 1..Len(ns) |->
           Candidate(bs[b], ks[k], ns[n])])])])

BatchCandidates(base) == Once(<<base.batch>> \o Batches, Nat)

(* on: the GPU, or 0 for the CUDA device; seen: the highest rate measured. *)
NewProbe(on, base, kernels) ==
    [on |-> on, stage |-> "kernel", todo |-> Candidates(base, kernels), base |-> base,
     best |-> base, rate |-> 0, seen |-> 0]

(* Faulty variant: any candidate that works replaces the best. *)
BetterAny(rate, p) == rate > 0

(* autotune_hashrate_is_better, autotune_batch_hashrate_is_better. *)
Better(rate, p) ==
    rate > 0 /\ \/ p.rate = 0
                \/ 100 * rate > (IF p.stage = "kernel" THEN 102 ELSE 101) * p.rate

Measured(p, rate) ==
    LET next == [p EXCEPT !.todo = Tail(@), !.seen = IF rate > @ THEN rate ELSE @]
        s == IF p.stage = "kernel" THEN Head(p.todo) ELSE [p.best EXCEPT !.batch = Head(p.todo)]
    IN IF Better(rate, p) THEN [next EXCEPT !.best = s, !.rate = rate] ELSE next

-----------------------------------------------------------------------------
(* The selection *)

HasGpu(m) == m.opencl.on \/ m.cuda.on

(* autotune_result_priority, of the modes there are. *)
Priority(m) == IF ~HasGpu(m) THEN 1 ELSE IF m.threads > 0 THEN 2 ELSE 0

(* The first loop of run_autotune over the results: the index of the       *)
(* fastest of the first i, 0 for NULL.                                     *)
FastestOf(rs) ==
    LET fastest[i \in 0..Len(rs)] ==
            IF i = 0 THEN 0
            ELSE IF rs[i].rate > 0 /\ (fastest[i - 1] = 0 \/ rs[i].rate > rs[fastest[i - 1]].rate) THEN i
            ELSE fastest[i - 1]
    IN fastest

Fastest(rs) == FastestOf(rs)[Len(rs)]

Close(r, fastest) == r.rate > 0 /\ 100 * r.rate >= 90 * fastest.rate

(* Faulty variant: a faster mode of another kind wins over a preferred one. *)
PreferredByRate(r, best) == r.rate > best.rate

Preferred(r, best) ==
    \/ Priority(r.mode) < Priority(best.mode)
    \/ Priority(r.mode) = Priority(best.mode) /\ r.rate > best.rate

(* The second loop, over the modes close to the fastest one. *)
BestOf(rs, fastest) ==
    LET best[i \in 0..Len(rs)] ==
            IF i = 0 THEN 0
            ELSE IF Close(rs[i], fastest) /\ (best[i - 1] = 0 \/ Preferred(rs[i], rs[best[i - 1]])) THEN i
            ELSE best[i - 1]
    IN best

Selected(rs) == rs[BestOf(rs, rs[Fastest(rs)])[Len(rs)]]

(* Faulty variant: the mode's CPU threads are set, the switch is not. *)
AdoptKeepsCpu(c, rs) ==
    LET m == Selected(rs).mode
    IN [c EXCEPT !.cpu = TRUE, !.threads = m.threads, !.affinity = m.affinity, !.opencl = m.opencl, !.cuda = m.cuda,
                 !.cpu_done = @ \/ \E i \in DOMAIN rs : rs[i].rate > 0 /\ rs[i].mode.threads > 0,
                 !.gpu_done = @ \/ \E i \in DOMAIN rs : rs[i].rate > 0 /\ HasGpu(rs[i].mode)]

(* The configuration after the selection. *)
Adopt(c, rs) ==
    LET m == Selected(rs).mode
    IN [c EXCEPT !.cpu = m.threads > 0, !.threads = m.threads, !.affinity = m.affinity,
                 !.opencl = m.opencl, !.cuda = m.cuda,
                 !.cpu_done = @ \/ \E i \in DOMAIN rs : rs[i].rate > 0 /\ rs[i].mode.threads > 0,
                 !.gpu_done = @ \/ \E i \in DOMAIN rs : rs[i].rate > 0 /\ HasGpu(rs[i].mode)]

-----------------------------------------------------------------------------
(* The program *)

TunerInit ==
    /\ \E s \in Setups : machine = s.machine /\ file = s.file
    /\ path = FALSE /\ at = "off" /\ args = NoArgs /\ cfg = Defaults /\ before = Defaults
    /\ plan = <<>> /\ results = <<>> /\ gpus = <<>> /\ probe = NoProbe /\ written = Torn
    /\ kept = <<>> /\ user_pools = file.cfg.pools /\ spoiled = FALSE
    /\ measured = IF file.state = "good" /\ Over(file.cfg.gpu_done, file.alias.gpu_done)
                  THEN {"opencl", "cuda"} ELSE {}
    /\ starts = 0 /\ edits = 0

(* The process and its memory are gone. *)
Exit ==
    /\ at' = "off" /\ path' = FALSE /\ args' = NoArgs /\ cfg' = Defaults /\ before' = Defaults
    /\ plan' = <<>> /\ results' = <<>> /\ gpus' = <<>> /\ probe' = NoProbe /\ written' = Torn

(* main up to the decision to tune, and the beginning of run_autotune.  A   *)
(* file named on the command line must load; config.json need not.          *)
Start(a) ==
    LET loaded == IF file.state = "good" THEN LoadConfigFile(file) ELSE Defaults
        c == Normalized(ApplyArgs(loaded, a))
    IN /\ at = "off" /\ starts < MaxStarts
       /\ starts' = starts + 1
       /\ IF a.config /\ file.state # "good"
          THEN UNCHANGED <<path, args, at, cfg, plan, before>>
          ELSE /\ path' = (file.state # "absent") /\ args' = a /\ cfg' = c /\ before' = c
               /\ IF Tunes(c, a)
                  THEN at' = "cpu" /\ plan' = WithCpu(c, CpuModes(c, NoOpencl, NoCuda))
                  ELSE at' = "mining" /\ plan' = <<>>
       /\ UNCHANGED <<machine, file, results, gpus, probe, written, kept, user_pools, spoiled, measured, edits>>

(* autotune_append_result, of the next mode of a section. *)
TestMode ==
    /\ at \in {"cpu", "opencl", "cuda"} /\ plan # <<>>
    /\ plan' = Tail(plan)
    /\ \E rate \in machine.modes :
          results' = IF Len(results) >= MaxResults THEN results
                     ELSE Append(results, [mode |-> Head(plan), rate |-> rate])
    /\ UNCHANGED <<machine, file, path, at, args, cfg, gpus, probe, written, ghosts, starts, edits>>

SectionDone(section) == at = section /\ plan = <<>>

(* The section of a GPU kind that is not enabled is skipped. *)
AfterOpencl ==
    IF cfg.cuda.on THEN at' = "probe" /\ probe' = NewProbe(0, cfg.cuda.base, CudaKernels)
    ELSE at' = "select" /\ UNCHANGED probe

AfterCpu ==
    /\ SectionDone("cpu")
    /\ IF cfg.opencl.on THEN at' = "resolve" /\ UNCHANGED probe ELSE AfterOpencl
    /\ UNCHANGED <<machine, file, path, args, cfg, plan, results, gpus, written, ghosts, starts, edits>>

(* opencl_miner_resolve_devices, of all the GPUs: the driver loads or not. *)
ResolveDevices ==
    /\ at = "resolve"
    /\ \/ AfterOpencl /\ UNCHANGED gpus
       \/ /\ machine.gpus > 0
          /\ gpus' = [i \in 1..machine.gpus |-> [id |-> i, set |-> cfg.opencl.base]]
          /\ at' = "probe" /\ probe' = NewProbe(1, cfg.opencl.base, OpenclKernels)
    /\ UNCHANGED <<machine, file, path, args, cfg, plan, results, written, ghosts, starts, edits>>

(* autotune_run_mode, of one candidate of autotune_opencl_device_params or *)
(* autotune_cuda_params.                                                   *)
Probe ==
    /\ at = "probe" /\ probe.todo # <<>>
    /\ \E rate \in machine.rates : probe' = Measured(probe, rate)
    /\ UNCHANGED <<machine, file, path, at, args, cfg, plan, results, gpus, written, ghosts, starts, edits>>

(* With a working candidate the batch sizes follow. *)
ProbeBatches ==
    /\ at = "probe" /\ probe.todo = <<>> /\ probe.stage = "kernel" /\ probe.rate > 0
    /\ probe' = [probe EXCEPT !.stage = "batch", !.todo = BatchCandidates(probe.base)]
    /\ UNCHANGED <<machine, file, path, at, args, cfg, plan, results, gpus, written, ghosts, starts, edits>>

(* Faulty variant: one device too many. *)
MoreDevicesOffByOne == probe.on <= Len(gpus)

MoreDevices == probe.on < Len(gpus)

(* The settings found, or the ones before, go to the GPU. *)
ProbeDone ==
    /\ at = "probe" /\ probe.todo = <<>> /\ (probe.stage = "batch" \/ probe.rate = 0)
    /\ IF probe.on = 0
       THEN /\ at' = "cuda" /\ plan' = CudaModes(cfg, probe.best) /\ probe' = NoProbe
            /\ UNCHANGED gpus
       ELSE /\ gpus' = [gpus EXCEPT ![probe.on].set = probe.best]
            /\ IF MoreDevices
               THEN probe' = NewProbe(probe.on + 1, cfg.opencl.base, OpenclKernels) /\ UNCHANGED <<at, plan>>
               ELSE at' = "opencl" /\ plan' = OpenclModes(cfg, gpus') /\ probe' = NoProbe
    /\ UNCHANGED <<machine, file, path, args, cfg, results, written, ghosts, starts, edits>>

AfterModes ==
    /\ \/ SectionDone("opencl") /\ AfterOpencl
       \/ SectionDone("cuda") /\ at' = "select" /\ UNCHANGED probe
    /\ UNCHANGED <<machine, file, path, args, cfg, plan, results, gpus, written, ghosts, starts, edits>>

(* The GPU kinds of the modes that hash. *)
KindsIn(rs) ==
    {kind \in {"opencl", "cuda"} :
        \E i \in DOMAIN rs :
           rs[i].rate > 0 /\ IF kind = "opencl" THEN rs[i].mode.opencl.on ELSE rs[i].mode.cuda.on}

(* The end of run_autotune; main exits when no mode works. *)
Select ==
    /\ at = "select"
    /\ IF Fastest(results) = 0 THEN Exit /\ UNCHANGED measured
       ELSE /\ cfg' = Adopt(cfg, results)
            /\ at' = IF cfg.autosave /\ path THEN "save" ELSE "mining"
            /\ results' = <<>> /\ gpus' = <<>> /\ measured' = measured \cup KindsIn(results)
            /\ UNCHANGED <<path, args, plan, probe, written, before>>
    /\ UNCHANGED <<machine, file, kept, user_pools, spoiled, starts, edits>>

(* Faulty variant: the whole configuration is written from memory. *)
MergedFromMemory(c, f) ==
    [state |-> "good", cfg |-> [c EXCEPT !.opencl.devices = IF c.opencl.on THEN @ ELSE <<>>],
     alias |-> IF f.state = "good" THEN f.alias ELSE NoAlias]

(* What save_autotune_config writes: the file as it was read, or an empty   *)
(* object when it did not parse, with the settings replaced under the names *)
(* the save uses.                                                           *)
Merged(c, f) ==
    [state |-> "good",
     cfg |-> [c EXCEPT !.opencl.devices = IF c.opencl.on THEN @ ELSE <<>>,
                       !.pools = IF f.state = "good" THEN f.cfg.pools ELSE "default"],
     alias |-> IF f.state = "good" THEN f.alias ELSE NoAlias]

(* save_autotune_config reads the file again ... *)
SaveRead ==
    /\ at = "save" /\ at' = "merge"
    /\ written' = Merged(cfg, file)
    /\ UNCHANGED <<machine, file, path, args, cfg, tuning, ghosts, starts, edits>>

(* ... and later opens it to write, which truncates it. *)
SaveOpen ==
    /\ at = "merge" /\ at' = "write"
    /\ file' = Torn /\ kept' = <<>>
    /\ UNCHANGED <<machine, path, args, cfg, tuning, written, before, user_pools, spoiled, measured, starts, edits>>

(* The rest of json_dump_file.  A failure is reported and changes nothing   *)
(* else: the miner starts.                                                  *)
SaveWrite ==
    /\ at = "write" /\ at' = "mining"
    /\ \/ file' = written /\ kept' = <<cfg>> /\ UNCHANGED spoiled
       \/ spoiled' = TRUE /\ UNCHANGED <<file, kept>>
    /\ UNCHANGED <<machine, path, args, cfg, tuning, written, before, user_pools, measured, starts, edits>>

(* A signal ends the process, wherever it is. *)
Kill ==
    /\ at # "off" /\ Exit
    /\ spoiled' = (spoiled \/ at = "write")
    /\ UNCHANGED <<machine, file, kept, user_pools, measured, starts, edits>>

(* The user edits the file, which is then complete: other pools, or a GPU   *)
(* kind switched on.  The tuner looks at the file when it saves only, so an *)
(* edit while it measures is the same as one just before the save; one      *)
(* after the save has read the file is overwritten.  Two writers at once    *)
(* are left out.                                                            *)
EditFile ==
    LET old == IF file.state = "good" THEN file ELSE [Torn EXCEPT !.state = "good"]
    IN /\ at \in {"off", "save", "merge", "mining"} /\ edits < MaxEdits
       /\ \E e \in machine.edits :
             file' = [old EXCEPT !.cfg.pools = "second", !.cfg.opencl.on = @ \/ e = "opencl",
                                 !.cfg.cuda.on = @ \/ e = "cuda"]
       /\ user_pools' = "second" /\ spoiled' = (at = "merge") /\ kept' = <<>> /\ edits' = edits + 1
       /\ UNCHANGED <<machine, path, at, args, cfg, tuning, written, before, measured, starts>>

(* No further start. *)
Stopped == at = "off" /\ starts = MaxStarts /\ UNCHANGED tunerVars

TunerNext ==
    \/ \E a \in machine.args : Start(a)
    \/ TestMode \/ AfterCpu \/ ResolveDevices \/ Probe \/ ProbeBatches \/ ProbeDone \/ AfterModes
    \/ Select \/ SaveRead \/ SaveOpen \/ SaveWrite \/ Kill \/ EditFile \/ Stopped

TunerSpec == TunerInit /\ [][TunerNext]_tunerVars

-----------------------------------------------------------------------------
(* Properties *)

(* Every variable keeps its type: the configuration app_config_t, the      *)
(* results autotune_result_t.                                              *)
TunerTypeOK ==
    /\ file \in File
    /\ path \in BOOLEAN /\ args \in machine.args \cup {NoArgs} /\ cfg \in Config /\ written \in File
    /\ at \in {"off", "cpu", "resolve", "probe", "opencl", "cuda", "select", "save", "merge", "write", "mining"}
    /\ plan \in Seq(Modes) /\ results \in Seq([mode : Modes, rate : Nat]) /\ Len(results) <= MaxResults
    /\ gpus \in Seq(Device)
    /\ probe.on \in -1..Len(gpus) /\ probe.best \in Settings /\ probe.rate \in Nat
    /\ before \in Config /\ kept \in Seq(Config) /\ user_pools \in Pools
    /\ spoiled \in BOOLEAN /\ measured \in SUBSET {"opencl", "cuda"}
    /\ starts \in 0..MaxStarts /\ edits \in 0..MaxEdits

(* The staged probes of a GPU compare every candidate with the best so far *)
(* and not with each other, and replace it from 2% upwards only: whatever  *)
(* the order of the measurements, the settings kept are within this        *)
(* threshold of the highest one (autotune_hashrate_is_better).             *)
TunedNearBest == 100 * probe.seen <= 102 * probe.rate

(* The mode that run_autotune adopts, stated without its two loops: it     *)
(* works, it is within 10% of every mode measured, and every mode within   *)
(* 10% is of a kind the code prefers less (GPUs alone, then the CPU alone, *)
(* then both), or of the same kind and no faster.                          *)
SelectionRight ==
    (at = "select" /\ Fastest(results) # 0) =>
        LET best == Selected(results)
            CloseToAll(r) == r.rate > 0 /\ \A i \in DOMAIN results : 10 * r.rate >= 9 * results[i].rate
        IN /\ CloseToAll(best)
           /\ \A i \in DOMAIN results :
                 CloseToAll(results[i]) =>
                     \/ Priority(best.mode) < Priority(results[i].mode)
                     \/ Priority(best.mode) = Priority(results[i].mode) /\ best.rate >= results[i].rate

(* "The fastest mode is written back to config.json": no mode measured is  *)
(* faster than the one run_autotune selects.                               *)
FastestSelected ==
    (at = "select" /\ Fastest(results) # 0) =>
        \A i \in DOMAIN results : results[i].rate <= Selected(results).rate

(* "autotune ... preserves both as disabled": what the tuner leaves behind *)
(* uses no worker kind that was off when it began, no more threads than    *)
(* configured, and at least one worker; the switches of the CPU and the    *)
(* thread count agree.                                                     *)
NothingSwitchedOn ==
    (at \in {"save", "merge", "write"}) =>
        /\ cfg.cpu => before.cpu
        /\ cfg.opencl.on => before.opencl.on
        /\ cfg.cuda.on => before.cuda.on
        /\ cfg.cpu \/ cfg.opencl.on \/ cfg.cuda.on
        /\ cfg.cpu <=> cfg.threads > 0
        /\ cfg.threads <= before.threads

(* Tuning is sound: the probes find settings near the best, the two loops  *)
(* over the results select by the rule of 10% and preferred kinds, and     *)
(* nothing is switched on.                                                 *)
TuningSound == TunerTypeOK /\ TunedNearBest /\ SelectionRight /\ NothingSwitchedOn

(* "a CPU-only run only sets cpu-self-test=true, so enabling OpenCL or     *)
(* CUDA later still triggers GPU tuning": with tuning enabled a GPU mines  *)
(* only when a GPU has been seen to hash, or the user's own file says so,  *)
(* whatever sequence of starts, edits and kills led there.  What a tuning  *)
(* leaves behind is stricter, it uses a GPU kind only when this kind has   *)
(* hashed.  The flag that is saved stands for both kinds: a kind switched  *)
(* on after the other was tuned mines without a measurement of its own.    *)
GpuTuningNotSkipped ==
    /\ (at = "mining" /\ cfg.enabled /\ args.mine /\ (cfg.opencl.on \/ cfg.cuda.on)) => measured # {}
    /\ at \in {"save", "merge", "write"} =>
          (cfg.opencl.on => "opencl" \in measured) /\ (cfg.cuda.on => "cuda" \in measured)

(* save_autotune_config reads the file again before it writes it: the      *)
(* pools the user wrote, even while the tuner ran, are in the file unless  *)
(* a save was cut short or the edit fell between its read and its write.   *)
PoolsKept == (file.state = "good" /\ ~spoiled) => file.cfg.pools = user_pools

(* Whatever sequence of starts, edits and kills: a GPU's tuning is not     *)
(* skipped for the CPU's, and the user's pools stay in the file.           *)
StartsSound == GpuTuningNotSkipped /\ PoolsKept

(* A start without options on the file of a complete save. *)
Restart ==
    at = "off" /\ at' # "off" /\ args'.workers = Off /\ args'.autotune = Off /\ args'.mine /\ kept # <<>>

(* A complete save is read back at the next start: the workers, the        *)
(* threads, the affinity and each GPU's nonces and batch size are the ones *)
(* selected, and there is no second measurement.  A name the save does not *)
(* write and load_config_file reads later wins over what was saved, and    *)
(* only for its own setting: the root's "threads" for the CPU's threads,   *)
(* CUDA's for the nonces and the batch, *_self_test for the measurement;   *)
(* OpenCL's stay without effect on the devices listed.                     *)
RestartKeepsMode ==
    [][Restart =>
        LET k == kept[1]
            names == file.alias
            threads == Over(k.threads, names.threads)
        IN /\ Over(TRUE, names.cpu_done) /\ Over(TRUE, names.gpu_done) => at' = "mining"
           /\ cfg'.cpu = k.cpu /\ cfg'.affinity = k.affinity
           /\ k.cpu /\ threads > 0 => cfg'.threads = threads
           /\ ~k.cpu => cfg'.threads = 0
           /\ cfg'.opencl.on = k.opencl.on /\ cfg'.cuda.on = k.cuda.on
           /\ k.cuda.on => /\ cfg'.cuda.base.npi = Over(k.cuda.base.npi, names.cuda_npi)
                           /\ cfg'.cuda.base.batch = Over(k.cuda.base.batch, names.cuda_batch)
           /\ Len(cfg'.opencl.devices) = Len(k.opencl.devices)
           /\ \A i \in DOMAIN k.opencl.devices :
                 LET new == cfg'.opencl.devices[i]
                     old == k.opencl.devices[i]
                 IN new.id = old.id /\ new.set.npi = old.set.npi /\ new.set.batch = old.set.batch]_tunerVars

(* "The fastest mode is written back to config.json": the kernel and the   *)
(* backend selected are also the ones of the next start.                   *)
RestartKeepsKernel ==
    [][Restart =>
        LET k == kept[1]
        IN /\ cfg'.cuda.base.kernel = k.cuda.base.kernel
           /\ \A i \in DOMAIN k.opencl.devices :
                 LET new == cfg'.opencl.devices[i].set
                     old == k.opencl.devices[i].set
                 IN new.kernel = old.kernel /\ new.backend = old.backend]_tunerVars
=============================================================================
