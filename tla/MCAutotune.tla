----------------------------- MODULE MCAutotune -----------------------------
(* Values for the model checking of Autotune: machines whose modes and     *)
(* probes are few enough to take every combination of outcomes.            *)
EXTENDS Autotune

Host(threads, affinity, n, rates, modes, changes, lines) ==
    [threads |-> threads, affinity |-> affinity, gpus |-> n, rates |-> rates, modes |-> modes,
     edits |-> changes, args |-> lines]

Good(c) == [state |-> "good", cfg |-> [c EXCEPT !.pools = "first"], alias |-> NoAlias]

OpenclOn(c) == [c EXCEPT !.opencl.on = TRUE]
CudaOn(c)   == [c EXCEPT !.cuda.on = TRUE]
NoCpu(c)    == [c EXCEPT !.cpu = FALSE]

AllArgs ==
    {NoArgs, [NoArgs EXCEPT !.workers = "threads"], [NoArgs EXCEPT !.config = TRUE, !.autotune = "force"],
     [NoArgs EXCEPT !.workers = "opencl", !.autotune = "off"], [NoArgs EXCEPT !.workers = "no-cpu"],
     [NoArgs EXCEPT !.workers = "opencl-all", !.autotune = "force"],
     [NoArgs EXCEPT !.workers = "cuda", !.mine = FALSE]}

Fast == {0, 85, 92, 100}

MCSetups ==
    {[machine |-> Host(2, TRUE, 0, {100}, Fast, {"pools"}, {NoArgs}), file |-> f] :
        f \in {Good(Defaults), Good([Defaults EXCEPT !.autosave = FALSE]),
               [Torn EXCEPT !.state = "absent"], [Good(Defaults) EXCEPT !.alias.threads = <<1>>],
               [Good(Defaults) EXCEPT !.alias.threads = <<0>>, !.alias.cpu_done = <<FALSE>>]}}
    \cup
    {[machine |-> Host(1, FALSE, 1, {0, 100, 102, 104}, {0, 100}, {}, {NoArgs}), file |-> Good(f)] :
        f \in {OpenclOn(Defaults), CudaOn(Defaults)}}
    \cup
    {[machine |-> Host(1, FALSE, 1, {100}, {0, 100}, {"opencl", "cuda"}, {NoArgs}), file |-> f] :
        f \in {[Good(OpenclOn(Defaults)) EXCEPT !.alias.npi = <<1, 2>>, !.alias.batch = <<2>>],
               [Good(CudaOn(Defaults)) EXCEPT !.alias.cuda_npi = <<2, 4>>, !.alias.cuda_batch = <<3>>],
               [Good(Defaults) EXCEPT !.alias.gpu_done = <<TRUE, FALSE>>],
               [Good(Defaults) EXCEPT !.alias.gpu_done = <<FALSE, TRUE>>]}}
    \cup
    {[machine |-> Host(1, FALSE, 1, {100}, Fast, {"opencl", "cuda"}, AllArgs), file |-> Good(Defaults)],
     [machine |-> Host(1, FALSE, 1, {100, 104}, {0, 100}, {}, {NoArgs}),
      file |-> Good(CudaOn(OpenclOn(NoCpu(Defaults))))],
     [machine |-> Host(1, FALSE, 3, {100}, {0, 92, 100}, {}, {NoArgs}), file |-> Good(OpenclOn(NoCpu(Defaults)))]}

MCOpenclKernels == <<"unrolled", "fixed2">>
MCCudaKernels   == <<"standard", "fixed2">>
MCNpis    == <<1, 2>>
MCBatches == <<1, 2>>
=============================================================================
