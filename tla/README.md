# A TLA+ verification of BTCRig

BTCRig is a Bitcoin miner in C: a Stratum client that drives a pool of CPU,
OpenCL and CUDA worker threads, a supervisor that keeps it connected, an
autotuner, a benchmark and a TLS proxy. This directory holds TLA+ models of its
parts, the TLC configurations that check them, and TLAPS proofs about most of
them.
Paths below are relative to the repository's root; `miner.c` means
`src/miner.c`, and so on.

## The system

| part | state | operations | talks to | what makes it hard |
|---|---|---|---|---|
| miner scheduler (`miner.c`) | `miner_t` behind one mutex: job and sequence number, `next_nonce`, pause flag and epoch, ring of 256 shares, hash counters, thread and device handles | create, start, stop, destroy, set job, set paused, take exhaustion, pop share; the loops of three kinds of worker | called by the session and the autotuner; calls the hash and GPU back ends | worker threads interleave; scans run for a long time without the lock and their results arrive late; any step of the start may fail; condition variable |
| stratum session (`stratum.c`) | `stratum_state_t`: what the pool said last (template, extranonce, difficulty), submissions without an answer, counters; locals of `stratum_run_client` | one handler per message and per answer, flush shares, roll extranonce, keyboard, send what is due, end | reads lines from the pool, sends requests, calls the miner | messages in any order; a half-stored template; answers late, out of order or for evicted shares; workers race with every step |
| job construction (`miner.c`: `miner_build_job`, `miner_format_extranonce2`) | none | build header, merkle root and target | session | widths and formats of numbers |
| connection set-up (`stratum.c`: `conn_open`, ends of `stratum_run_client`) | socket, TLS objects, miner, raw terminal | open, fall back, release | session, supervisor | every step may fail; the server changes between two attempts; blocking calls without a time limit |
| line reader (`stratum.c`: `read_line`, `conn_read`, `conn_pending`) | buffer of 65536 bytes, what OpenSSL has decrypted | read a line | session | lines split over reads; bytes that have left the socket and that `select` no longer sees |
| reconnect loop (end of `main` in `stratum_main.c`, `donation.c`) | pool index, donation phase, attempts, delay, run limit | one iteration: session, switch, retry, sleep | runs sessions | failures mixed with phases and limits over a long run |
| configuration and command line (`stratum_main.c`) | `app_config_t`, `config.json` | load, apply options | everything | one setting under several names; what was saved must be what is loaded |
| autotuner (`stratum_main.c`) | candidates, results, completion flags | probe, measure, select, save | miner, configuration | staged thresholds; modes that fail; a file rewritten in place while the user may edit it |
| TLS proxy, one client (`proxy_main.c`) | one buffer per direction, two streams | detect TLS, connect, relay, close | miner and pool | partial writes, half-closed streams, a peer that does not read |
| TLS proxy, process (`proxy_main.c`) | configuration, certificate and key files, client threads | resolve, generate, load, accept | clients | a kill between two files; several sources for one setting |
| OpenCL and CUDA back ends (`opencl_*.c`, `cuda_miner.c`, the kernels) | driver objects, result counter and buffer | resolve, create, self test, scan, destroy | miner | every driver call may fail; concurrent work-items; a result buffer of limited size; two builds of a program |
| SHA-256d (`sha256d*.c`) | none | hash, scan a range | workers | arithmetic |
| benchmark (`main.c`), CPU topology (`cpu_info.c`), console (`console.c`) | – | – | – | no control of their own |

The interactions that are modelled: the session owns one miner and calls it
from its loop while the workers run; `main` runs one session at a time and sees
only what `stratum_run_client` returns. The first of these interfaces is a
specification of its own, `ShareStream`: `Miner` is proved to implement it and
`Stratum` is written on top of it. The other modules meet at the functions that
they share: a scan is one call in `Miner` and the whole of `GpuScan`; the GPU
steps of `miner_start` and `miner_stop` are atomic in `Miner` and are taken
apart in `GpuDevice`; the session begins and ends in `Connect`, runs in
`Stratum` on the lines of `LineReader`, and is one step of `Supervisor`; a client
thread of `ProxyServer` is `Proxy`.

The hazards, each at its line, are in `PROJECT.json` with the properties that
would catch them.

## Modules

| module | models | checked by |
|---|---|---|
| `ShareStream` | the contract between miner and owner: nonces leave a supply once, a nonce that left it is reported at most once, shares are delivered in order, a new job forgets the rest, an exhausted supply is signalled | used by `Miner` and `Stratum` |
| `Miner` | `miner.c`: start, workers, operations, stop, destruction | `MCMiner.cfg` |
| `Stratum` | `stratum_run_client` from the connected socket to its return | `MCStratum.cfg`, `MCStratumDifficulty.cfg` |
| `LineReader` | `read_line`, `conn_read`, `conn_pending`, `select` | `MCSession.cfg` |
| `Connect` | `conn_open` with its fallbacks, and the beginning and end of `stratum_run_client` | `MCSession.cfg` |
| `MCSession` | `Connect` and `LineReader` as one session | `MCSession.cfg` |
| `Supervisor`, `MCSupervisor` | the loop at the end of `main`, `retry_delay_seconds`, `donation.c` | `MCSupervisor.cfg`, `MCSupervisorDonation.cfg` |
| `Autotune`, `MCAutotune` | `load_config_file`, the options that choose workers, `app_config_autotune_required`, `run_autotune`, `save_autotune_config` | `MCAutotune.cfg`, `MCAutotuneKernel.cfg`, `MCAutotuneFastest.cfg` |
| `GpuScan` | `opencl_miner_scan`, `cuda_miner_scan`, the index arithmetic and `store_match_words` of the kernels, the self-tests | `MCGpu.cfg`, `MCGpuRange.cfg` |
| `GpuDevice` | loading of the driver, selection, creation, test and destruction of devices | `MCGpu.cfg` |
| `MCGpu` | `GpuDevice` and `GpuScan` as one GPU: the devices that are created scan | `MCGpu.cfg`, `MCGpuRange.cfg` |
| `ByteStream` | the contract of a relay: each side receives what the other sent, in order | used by `Proxy` |
| `Proxy` | `client_thread` and `proxy_loop` | `MCProxy.cfg` |
| `ProxyServer` | `main` of the proxy: configuration, certificate files, accept loop | `MCProxy.cfg` |
| `MCProxy` | `ProxyServer` and `Proxy` as one process: a client that is accepted is relayed | `MCProxy.cfg` |
| `MinerProofs`, `StratumProofs`, `GpuDeviceProofs`, `GpuScanProofs`, `ProxyProofs`, `ProxyServerProofs` | theorems about the module each is named after | tlapm |
| `SessionProofs` | theorems about `Connect` and `LineReader` | tlapm |
| `MainProofs` | theorems about `Supervisor` and `Autotune`, the two parts of `main` | tlapm |

A property such as `RelaySound` is a conjunction of named parts, each with its
own comment in the module; the parts of one name are about one concern and are
checked together.

Definitions that begin with "Faulty variant" in their comment are not part of
the specifications: each is a plausible mistake in the code, and replacing the
definition that follows it makes TLC find a violation of the property it is
listed with in `PROJECT.json`.

### Miner

A critical section of `miner_t.lock` is one action. The state has the fields of
`miner_t` under their names, the position of the owning thread in `miner_start`
and `miner_stop` (`main`, `cursor`), and for each worker its position in its
loop (`pc`) and its locals: the batch size it computed *before* it took the
lock, the range it was given, and the nonces that its scan may still report
(`todo`). A scan is not one action but one per match (`ScanMatch`, for
`queue_scan_match`) and one for its end (`ScanDone`, `ScanFails`), so that every
operation of the owner may come between. Which nonces match is left open: any
subset, in ascending order for the CPU and in any order for a GPU. The three
worker functions have the same control; they differ in batch size, in the order
of results and in that only a GPU scan can fail. Both GPU back ends are compiled
in. The owner calls the operations in any order while the miner runs, which
covers the session and the autotuner.

Left out: `miner_get_stats` and the other readers, CPU affinity, log lines, the
250 ms pause after a failed scan (time does not matter there), the nonce's
effect on the header. The order of driver calls inside the start and the stop is
in `GpuDevice`. The job's strings are represented by its sequence number.
The counters that the code keeps in 64 bits are not bounded: they cannot
overflow in the life of a machine.

History variables (`handed`, `delivered`, `interrupted`, `lost`) record what the
properties speak about and are read by no action. `HashAccounting` speaks of
sums over the workers; a sum is the size of a set with one element per worker
and hash (`Heap`), which needs no recursion.

### ShareStream

The abstract state maps to the fields of `miner_t`: the supply is
`next_nonce..MaxNonce`, the waiting shares are the ring read from `share_head`
on. `ImplementsShareStream` is the refinement, checked on the run `miner` and
proved in `MinerProofs`.

### Stratum

`phase` is the position in the loop of `stratum_run_client`; each call the loop
makes is an action, and `stratum_process_line` has an action for each kind of
line. `view` holds what the pool said last. A template is a sequence of
`Fields` strings, each represented by the number of the notification it came
from, so that a template half overwritten by a notification with a string that
is too long is a sequence with two different numbers. A notification may also
have strings that fit but do not decode, which makes `miner_build_job` fail.
An extranonce2 is the value and its printed width; the width is computed as
`"%0*llx"` does, with the radix a constant so that small values overflow.

Assumptions about the pool: it answers each request at most once, and it sends
`mining.set_extranonce` only to a client whose subscription it has answered.
Submissions are answered in any order, or never.
An extranonce1 or a size missing from a message stays as it was, as in the
handlers.
Abstracted: the truncation of more than 128 merkle branches, an odd number of
digits in the strings of the template (the coinbase has an odd number of digits
only through extranonce2), the statistics line, latency. Lines arrive whole here;
`LineReader` is about that. A step at a position in `OnSocket` may never be taken:
the socket blocks, and whether a call on it returns is up to the pool.

### Supervisor

`loop` is the position in `main`; a session is known by its duration, by how
much of it the session timer was armed, and by its result. Time is in ticks with
`Second` and `Minute` constants, so that pauses and phases of different length
can meet in a small clock. `failed` records the pools of the last user sessions
that failed in a row.

### LineReader

The pool sends its bytes in pieces; over TCP a read takes what it asked for from
the socket, over TLS OpenSSL takes a whole record and keeps the rest, which only
`conn_pending` shows. The bytes are a letter, CR and LF. `read_line` is taken
apart into the search in the buffer, the wait and the read, because the pool
sends and closes between them. A record of which only a part has arrived, on which
`SSL_read` blocks, is not modelled here; `Connect` and `Stratum` have the block
itself.

### Connect

The server is a record of what it does now (up, speaks TLS, has a trusted
certificate, leaves handshakes unanswered) and changes at any moment, up to
`MaxChanges` times. Each call that acquires a handle is a step that may fail;
`live` counts the handles that exist in the process, so that one that is
forgotten stays visible. `steady` says that nothing changed or failed since
`conn_open` was called. `Held` is a thread in a call that a silent server does not
answer: the handshake, a read of a part of a record, a write, or the shutdown of
TLS. The sockets have no timeout, so nothing but the server ends it.

### Autotune

A start of the program reads the file, applies the command line and decides
whether to tune; tuning is a step per measurement. Rates are chosen freely from
a small set when a mode is measured, so a mode may be slow, fast or fail at any
time. The save is three steps, as in `save_autotune_config`: the file
is read again and merged with what was selected (`SaveRead`), opened, which
truncates it (`SaveOpen`), and written (`SaveWrite`); a kill may come between any
two. The user edits the file where it makes a difference: before a start, before
the save reads it, between its read and its truncation, when the edit is lost, and
while the program mines. `spoiled` records that a save was cut short or overtook
an edit, `measured` which kinds of GPU have hashed in a tuning.

`load_config_file` reads most settings under several names, and the last one that
is there wins (`Over`). The names that are read after the one the save writes are
in `alias`: the root's `threads`, `batch_size`, `nonces_per_work_item` and `npi`,
`nonces_per_thread` and `npt`, `cpu_self_test`, `gpu_self_test` and the `opencl`
ones. A save neither writes nor deletes them, so they override it at the next
start; `RestartKeepsMode` says exactly which setting they override. Names read
before the one that is saved have no effect after a save. Kernels and back ends,
whose parse functions treat a missing name as a value, are `ReadVariant`.

The loops over candidates and results are functions of the number of
elements visited (`SeenOf`, `FastestOf`, `BestOf`). Left out: local work size and threads
per block (one more list of the same kind as the nonces per work-item), the
clipping of device lists at `MINER_OPENCL_MAX_DEVICES`, number syntax. `AUTOTUNE_MAX_RESULTS` (96) cannot be
reached: the largest number of modes, with eight GPUs, is 70.

### GpuScan

The work-items draw an index from the counter and store their match in two
steps; the nonces a work-item covers are computed with words of `Word` values
that wrap round, as the kernels compute them, the grid in 64 bits as the host
does. The four kinds of kernel differ in how they stop at the end of the range
(`BoundedOffsets`, `RangedOffsets`, `ClippedOffsets`, `FixedOffsets`). Any number of
nonces that a word holds may be asked for, as the options and the file allow;
`GridFits` says that no word wraps, and the properties that fail without it have
it as their condition. `todo` holds the matches a work-item has yet to report; it takes the
smallest first, as the loops of the kernels do. A device that is not
`sane` stores wrong hashes and misses some. A failed call leaves the counter and
the buffer as they are for the next scan.

### GpuDevice

Creation is a list of driver calls (`Calls`); each acquires an object, any may
fail, and the destroy function releases what the struct names. `held` is what
the struct names, `live` what exists. The second build of OpenCL, the kernel and
back end resolution, the rounding of group sizes and the selection of devices
are taken from the code. A driver whose compiler accepts a kernel may still fail
(`flaky`).

### Proxy

Four positions of the loop read and write the two buffers; `select` waits when
nothing moved. A byte is its position in its stream, so that loss, repetition
and reordering are visible. The peers send, receive, half-close and leave at any
moment. TLS is the decision on the first byte, peeked from the socket, and the
handshakes; records are not split further. The sockets are made non-blocking
after the handshakes, so a peer may hold the thread in one (`InHandshake`).

### ProxyServer

The two files hold nothing, a part, or a complete half of a numbered pair; the
process may be killed by a signal between any two steps and starts again with the same
command line. `PEM_write` fills a stdio buffer that `fclose` writes, and what
`fclose` returns is ignored: a write error may be seen (`GenerateFails`) or leave a
file cut short with the program going on (`Generate`). Loss of power, after which
files that were written may be gone, is not modelled; nothing is synced. Client threads are counted with their sockets.

## Runs

| run | instance | shows |
|---|---|---|
| `miner` | 1 CPU and 1 OpenCL worker, nonces 0..1, ring of 1, 2 jobs, 1 pause, every failure of `miner_start` | `TypeOK`, `RangesDisjoint`, `HandedExactlyOnce`, `QueueConsistent`, `NoDuplicateShares`, `ExhaustionSound`, `PauseBarrier`, `NoLostWakeup`, `NoUseAfterDestroy`, `HashAccounting`; `ImplementsShareStream`; liveness: `StopCompletes`, `JobProgress` |
| `stratum` | 2 notifications of 2 strings, 2 values of extranonce1, 2 difficulties, 4 builds of a job, 2 pending slots, radix 2: the extranonce2 outgrows its size | `TypeOK`, `JobFromOneNotify`, `FreshJob`, `NoDuplicateSubmit`, `PendingExact`; liveness: `ExhaustedJobReplaced`, `ShareSubmitted` |
| `stratum_difficulty` | 1 notification, 2 difficulties | violation of `DifficultyAppliesToNextNotify`, see Findings |
| `session` | 4 schemes, 2 sessions, 2 changes of the server; up to 5 bytes in pieces of up to 2, a buffer of 3, TCP and TLS | `SessionSound` (`NoHandleLost`, `AllReleased`, `AttemptsWeaken`, `SteadyServerBestMode`), `ReaderExact` (`LinesExact`, `TooLongOnly`, `LinesBeforeEof`); liveness: `RuntimeLimitHolds`, `LineReturned` |
| `supervisor` | 3 pools, one with an invalid url; with and without a retry limit, with and without a run limit of 23 ticks | `LoopSound` (`EveryPoolTried`, `BackoffIsExponential`), `DonationShare`, `NoOversleep`; liveness: `Reconnects` |
| `supervisor_donation` | `retries` 0 | violation of `DonationFailureReturns`, see Findings |
| `autotune` | machines with and without affinity, 1 to 3 OpenCL GPUs, CUDA; files with and without further names; 2 starts, 1 edit, a kill anywhere | `TuningSound` (`TunedNearBest`, `SelectionRight`, `NothingSwitchedOn`), `StartsSound` (`GpuTuningNotSkipped`, `PoolsKept`), `RestartKeepsMode` |
| `autotune_kernel` | as `autotune` | violation of `RestartKeepsKernel`, see Findings |
| `autotune_fastest` | as `autotune` | violation of `FastestSelected`, see Findings |
| `gpu` | one device of each kind in each configuration, and lists of several; 2 starts; scans of 1, 4 and 7 nonces with words of 8 values, groups of 2 and 3, kernels of all kinds, a buffer of 1 result, a second scan after a failed one | `ObjectsReleased` (`NoObjectLost`, `ContextLast`), `DeviceSound` (`NpiAgrees`, `KernelAllowed`, `TestedKernelMines`), `ScanSound` (`RangeCovered`, `CoversRangeOnce`, `MatchesGenuine`, `MatchesReportedOnce`), `SelfTestSound` |
| `gpu_range` | a batch one short of a word | violation of `StaysInRange`, see Findings |
| `proxy` | all combinations of settings that differ in effect, 3 starts, 2 clients; 3 listening modes, 3 bytes each way, buffers and sockets of 2 | `ServerSound` (`CertificateHasOwnKey`, `ServesStoredPair`, `SocketPerClient`, `ArgumentWins`), `PairKept`; `RelaySound` (`NothingLostWhileOpen`, `ClosedSideDrained`, `StreamsClosedOnce`); `ForwardsBytes`, the refinement of `ByteStream`; liveness: `ClientServed` (`ClientHeard`, `ClientCloseNoticed`) |

Every `...Sound` and `ReaderExact` also contains the module's type invariant.

### Why the bounds are enough

*Miner.* The CPU batch is 2 alone and 1 beside a GPU, the GPU batch 2, so that
ranges of different sizes interleave, the last one is clipped and one worker may
find nothing left. Two jobs are what a stale result needs, one pause what a scan
across a pause and a resume needs. The ring of 1 overflows but has only
one index; changing `QueueSize` to 2 brings the order of two waiting shares (766
thousand states, all properties hold), and with `MaxNonce` 2 as well the wrap of
the indices and the overflow together (10.8 million states under `Spec`; all
properties but the two of liveness were checked and hold). These instances take
too long to be repeated with every change. The proofs below remove the bounds for
all but liveness: any number of workers of each kind, nonces, jobs and pauses,
any ring.

*Stratum.* Two strings are enough for a mixed template, two notifications for an
old one and a new one. `MaxCounter` bounds the jobs that the pool and the
workers ask for. With two slots a third submission evicts one of the first two,
whose answer may still come. `MaxRolled` allows one more job when the miner runs
out of nonces than the pool can ask for, so that an exhausted job is still
replaced at the bound. `Radix` 2 brings the overflow of a one-byte
extranonce2 into reach.

*Session.* The life of a session and the reads of its loop are checked in one run,
the reads from one way into the loop for each transport: nothing but the
transport matters to `read_line`. A line may be empty, fit, fill the buffer or be longer; a record of
2 bytes can hold two line ends, so that a line waits in OpenSSL while the socket
is empty. Two changes let a server come up and go down, or change its kind,
between the three attempts of one `conn_open`; a second session meets what the
first left behind.

*Supervisor.* `Second` and `Minute` are 2 ticks, the end of the run (23) is odd,
so a pause meets a remainder of less than a second; `MaxTime` allows a connect
that outlasts the run. A cycle of 3 minutes with 1 of donation runs more than
once in 23 ticks.

*Autotune.* The rates are chosen so that candidates lie below, between and above
the thresholds of 2% (of a probe) and 10% (of the selection), and fail. Further
names are there for each setting, with a value that overrides the saved one, one
that is overridden in turn, and one that means the default. Two starts are a measurement and
its use; the edit comes before, during or after it.

*Gpu.* A second start shows what the first left behind; OpenCL versions
below, at and above the one that the kernels need; lists longer than
`MaxDevices`. A device that was created scans with the kernel and the number of
nonces its creation resolved; the scans are followed for one device of each kind of
kernel. Words of 8 values are filled by 7 nonces, the largest batch there is, and
not by 1 and 4. A buffer of one result overflows with two matches; that two
matches in a larger buffer keep apart is covered by the self-tests, which have
room for four.

*Proxy.* Three bytes do not fit a buffer of two: it is refilled while a part of
it waits. The first client of the first start is followed in each listening mode;
nothing but the mode is handed to its thread. Three starts: one killed while it writes, one that finds what it
left, and one that serves.

### Fairness

*Miner.* Weak fairness for each worker, for `miner_start` and for `miner_stop`:
the operating system schedules every runnable thread, a mutex that is held for a
few assignments is obtained, and a scan of a finite range ends. The operations
of the owner are not fair: it need not call any. A spurious wake-up is not fair
either.

*Stratum.* Weak fairness for the client loop outside the calls on the socket:
`select` returns after at most 200 ms. A read or a write need not return, the
workers and the pool need not do anything.

*LineReader.* Weak fairness for the client thread; strong fairness for `select`
seeing data that stays there, since a `select` is repeated and is not
interrupted every time. Nothing of the pool.

*Connect.* Weak fairness for the thread, and for the loop to see that the time
limit has passed, both unless a silent server holds a blocking call (`Held`). The
loop tests the limit every 200 ms; a pool that trickles bytes restarts this wait,
but only as often as the line buffer has room. Nothing is assumed of the server.

*Supervisor.* Weak fairness for `main` outside a session. A session may last for
ever.

*Proxy.* Weak fairness for the client thread outside the handshakes (`select`
returns after at most a second, the relay's sockets do not block) and for the
pool reading its socket. Nothing of the miner, and nothing of either peer in a
handshake until it closes.

The other specifications have no fairness and state no liveness. Deadlock is
checked in every run; the end of a program is a stuttering step.

## Findings

* `supervisor_donation`: `stratum_main.c:2680` prints "returning to user mining"
  when a donation round fails; with `retries` 0 the test at line 2686 then ends
  the program.
* `autotune_kernel`: the tuner saves kernel and back end, and
  `load_config_file` reads each under three names in turn with parse functions
  that return their first variant for a name that is not there (lines 476, 513,
  526) instead of the value so far: the next start uses "auto" (CUDA:
  "standard") in place of what was measured and selected.
* `stratum_difficulty`: the comment at `stratum.c:998` says "Stratum difficulty
  changes apply to the next mining.notify job."; lines 1002-1004 rebuild the job
  in work at once. `FreshJob` states what the code does.
* `autotune_fastest`: `README.md:330` says "The fastest mode is written back to
  `config.json`" (`BUILD_LINUX.md:73`, `BUILD_WINDOWS.md:48` alike); the selection
  prefers GPUs alone, then the CPU alone, then both, among the modes within 10% of
  the fastest (`stratum_main.c:2099-2110`). `SelectionRight` states that rule.
* `gpu_range`: batches of up to 2^32 - 1 nonces are accepted
  (`stratum_main.c:2413`, `2463`). In the last work-item `base_nonce + limit`
  wraps (`opencl_miner.c:410`; `cuda_sha256d_kernel.cu:394`, `513`, `623`) and
  nonces past the range are hashed and reported, where `README.md:328` says that
  "ranges do not overlap". With 3 nonces per thread the surplus threads of a CUDA
  grid start over at the beginning of the range, too. The kernels for a fixed
  number of nonces stay in the range.

Other disagreements between code and text, met while modelling. The models
contain the behaviour; no run is about them.

* `miner.c:665`, `miner.c:727` print "scan failed; retrying", but the worker
  takes the *next* range: the nonces of the failed scan are not searched for
  that job, and the job is declared exhausted all the same.
* `stratum.c:358-363`: after a failed *connect*, too, a TLS url is tried without
  TLS; a server that comes up between the attempts is used in plain text.
* `--runtime` does not end a session whose server leaves a blocking call
  unanswered: the TLS handshake (`stratum.c:321`), a read of a part of a record
  (line 411), a write (lines 377, 392). `RuntimeLimitHolds` has this exception, and
  `ClientServed` the same one for the handshakes of the proxy (`proxy_main.c:442`). A
  donation session whose authorization is refused on a connection that stays up
  never arms its timer (`stratum.c:1427`).
* `proxy_main.c:1121`: a kill or a full disk while the key or the certificate is
  written leaves a file cut short that every later start fails on, where `PROXY.md:31` says that the proxy
  generates a certificate if none is configured; an installed file next to one that is missing
  is replaced together with it.
* `proxy_main.c:1035`: `upstream_verify` is off unless the file says otherwise,
  where `PROXY.md:19` lists "upstream verify: true" among the defaults.
* `stratum_main.c:1907` writes `config.json` in place. A save cut short leaves a
  file that does not parse; the next start runs with the defaults, the default
  wallet included, and its save has no pools. An edit between the read (line 1764)
  and the write is lost. `PoolsKept` says that these are the only ways to lose them.
* `README.md:379` says that the CUDA tuning "keeps the fastest stable result"; a
  candidate replaces the best so far only from 2% (batch sizes: 1%) upwards
  (`stratum_main.c:1079-1095`, `TunedNearBest`).
* One flag, `gpu-self-test`, stands for OpenCL and CUDA (`stratum_main.c:2088`,
  `2132`, `2169`): a kind that is switched on after the other was tuned mines
  without a measurement of its own. `GpuTuningNotSkipped` says what the flag
  guarantees.
* A name such as the root's `threads` that the user has in the file overrides
  what every later save writes (`stratum_main.c:898`; see Autotune above).
* A forced tuning starts from the saved selection and so can only reduce the kinds
  of workers and the threads. OpenCL and CUDA together are never measured.

## Proofs

Every theorem is about the specification of its module (`Spec`; `ReaderSpec` in
`LineReader`, `TunerSpec` in `Autotune`, `DeviceSpec` in `GpuDevice`, `ServerSpec`
in `ProxyServer`), for every value of the constants
that satisfies the module's assumptions. What these exclude is no instance of
the program: sizes and bounds are natural numbers, and those by which the code
divides or that it fixes above zero (`QueueSize`, `PendingShares`, `BufferSize`,
`PoolCount`, `Second`, nonces per work-item, ...) are not zero; `DonateLevel` is
at least 1 and less than the cycle, as `donation_level_valid` requires; a self-test has room for all its
results (32 for 16); a kernel belongs to its API and a configuration names a
device (`DeviceAssumption`); a machine and its first configuration file are of
their types, and a file that is not there or is no JSON names no pools
(`SetupAssumption`). TLC evaluates the assumptions on the runs.

Each proof rests on an inductive invariant, a conjunction of named parts that
mostly say what holds at one position of a thread, shown for `Init` and then
action by action. The parts were checked with TLC before they were proved.

| theorem | states | argument |
|---|---|---|
| **MinerProofs** | | |
| `TypeCorrect` | `[]TypeOK` | inductive; the only arithmetic is that `RangeCount` never passes `MaxNonce + 1` and that ring indices stay in the ring |
| `WakeupsNotLost` | `[]NoLostWakeup` | inductive: whatever falsifies `MustWait` broadcasts in the same critical section |
| `RangesNeverOverlap`, `AllocatorExact` | `[]RangesDisjoint`, `[]HandedExactlyOnce` | `AllocInv`: besides the two, a range of the active job lies below `next_nonce` and no range is of a later job. Without it a new range could meet an old one |
| `QueueHoldsCurrentShares`, `SharesDeliveredOnce` | `[]QueueConsistent`, `[]NoDuplicateShares` | `ShareInv`: besides the two, delivered shares are of jobs up to the active one and below `next_nonce` for it, and a nonce that a current scan may still report is neither in the ring nor delivered. Two scans cannot report the same nonce because of `AllocInv` |
| `ExhaustionIsSound` | `[]ExhaustionSound` | inductive |
| `PauseIsBarrier` | `PauseBarrier`, an action property | `EpochInv`: a scan interrupted by a pause has an epoch smaller than `pause_epoch` |
| `DestroyIsSafe` | `[]NoUseAfterDestroy` | `LifeInv`: which workers and devices exist at each value of `cursor` in the start and the stop |
| `HashesAreCountedOnce` | `[]HashAccounting` | `AccountInv`: counted, in flight and lost together never exceed what was handed out (`HandedOut`). Each step moves a range from one of these to another or drops it. `AllocInv` says that a new job has nothing in flight, `LifeInv` that a scanning CPU worker has a counter |
| `MinerIsShareStream` | `ImplementsShareStream`, the refinement | step by step, with `ShareInv` and `AllocInv`: the ring read from `share_head` is the stream's queue, so that a store at `share_tail` appends and a pop takes the head, wherever the indices wrap |
| **StratumProofs** | | |
| `SessionTypes` | `[]TypeOK` | `TypeInv`: with `SeqInv`, the miner's job number is the number of jobs built, and shares are of jobs that were |
| `MinerFollowsPool` | `[]FreshJob` | `FreshInv`: besides it, no job is built before the subscription is answered (`SubscribeFirst`); without that the answer to `mining.subscribe`, which rebuilds nothing, would leave a stale job |
| `JobsAreWhole` | `[]JobFromOneNotify` | `NotifyInv`: a valid template is made of the strings of one notification |
| `NothingSubmittedTwice` | `[]NoDuplicateSubmit` | `SubmitInv`: every job has its own extranonce2 (`RolledJobs`), what waits was not yet delivered (`QueuedOnce`), what was sent was (`SentWasDelivered`) |
| `PendingIsExact` | `[]PendingExact` | `PendingInv`: besides it, ids without an answer are older than the next id; an eviction, an answer and a late answer to an evicted id each keep the size of the table and the counters in step |
| **SessionProofs** | | |
| `SessionIsSound` | `[]SessionSound` | `SessionInv`: the handles held at each point of `conn_open_once` (`HeldHere`), the attempts made by scheme (`AttemptsMade`), and what a server that did not change has refused so far (`SteadyHistory`) |
| `ReaderIsExact` | `[]ReaderExact` | `ReaderInv`: the lines returned are the first lines of the stream (`Returned`); buffer, decrypted bytes and socket are, in this order, what follows them (`NotYetReturned`, `Arriving`); the buffer was searched before a wait (`Searched`); what a result means for the state (`LastResult`). The end of the k-th line of a stream is given by the number of line feeds before it, without recursion, and the lemmas say that bytes sent later do not move it |
| **MainProofs** | | |
| `LoopIsSound` | `[]LoopSound` | `LoopInv`: the pools that failed in a row are consecutive (`TriedInOrder`) and the next one is due (`NextIsDue`), also across a donation; the loop of `retry_delay_seconds` computes the bounded exponential |
| `DonationKeepsShare` | `[]DonationShare` | the same: a user phase that is complete pays for the donation that follows (`UserPhasePays`, `DonationPaid`), and a round interrupted by a failure is not paid for again |
| `PausesEndInTime` | `NoOversleep`, an action property | the same: `PauseInTime` |
| `TuningIsSound` | `[]TuningSound` | `TunerInv`: while the tuner measures, the configuration is the one it began with and every mode measured or planned is one it allows (`Measurements`), a probe belongs to a resolved GPU (`ProbeTyped`, `ProbePlace`). What the loops of the selection compute, for results of any number: `FastestIsFastest`, `BestIsBest`, from them `SelectedIsRight` |
| `StartsAreSound` | `[]StartsSound` | the same: what the tuner leaves behind has measured all it uses (`Saving`, `Writing`), the kinds that have hashed include all that is in use, the file merged before the write has the user's pools unless an edit came after its read, and a file that never was complete has none (`NoPools`) |
| `RestartIsFaithful` | `RestartKeepsMode`, an action property | the same: the file of a complete save holds what was saved (`KeptFile`), and loading keeps workers, threads, affinity, nonces and batch sizes up to the names read later (`LoadKeeps`), though not kernels |
| **GpuDeviceProofs** | | |
| `ObjectsAreReleased` | `[]ObjectsReleased` | `ObjectInv`: at the n-th driver call the struct holds what the earlier calls acquired (`HeldHere`), what exists is what structs hold (`Counted`), and who owns a struct (`Owned`, `RoomLeft`) |
| `DevicesAreSound` | `[]DeviceSound` | `KernelInv`: which kernel, back end and number of nonces a creation has chosen at each call, and that test and mining choose alike (`MadeHere`, `TestedHere`) |
| **GpuScanProofs** | | |
| `ScansAreSound` | `[]ScanSound` | the grid: the offsets of a work-item of each kind of kernel are the `Stretch` of nonces from `g * npi` on, and these cover the range, also where words wrap (`StretchHashed`); where none does they are disjoint and end with it (`GridCovers`). Then `ScanInv`, for grids that fit: work-items share neither nonces nor indices, counter and unclaimed matches add up to the matches, entries below the counter are of different matches (`RunningHere`); so when all have finished the buffer is the matches (`ReadHere`) |
| `SelfTestIsSound` | `[]SelfTestSound` | the same: while nothing failed, `seen` has as many nonces as were delivered (`SeenHere`) |
| **ProxyProofs** | | |
| `RelayIsSound` | `[]RelaySound` | `RelayInv`: received, in the peer's socket, in the buffer, unread: in this order they are the bytes sent (`FlowsKept`); which streams are open at each point (`StreamsHere`) |
| `ProxyForwardsBytes` | `ForwardsBytes`, the refinement of `ByteStream` | each step against both streams, from `FlowsKept` |
| **ProxyServerProofs** | | |
| `ServerIsSound`, `PairIsKept` | `[]ServerSound`, `PairKept` | `ServerInv`: what the files hold while they are written, whole or cut short (`FilesHere`) and what is loaded (`LoadedHere`); a kill leaves the files of the step before |

The induction theorems of the library cannot be instantiated here. Where a
value is computed by recursion (`Doubled`, `Power` in `Supervisor`; the loops of
the autotuner, `SeenOf`, `FastestOf`, `BestOf`) the proof takes the least
counterexample of a set of numbers, which exists because the order is well
founded, and builds the function as the union of its beginnings (`LoopRuns`).

Every invariant, action property and refinement of the passing runs is stated by
a theorem. Only model-checked are the liveness properties (`StopCompletes`,
`JobProgress`, `ExhaustedJobReplaced`, `ShareSubmitted`, `LineReturned`,
`RuntimeLimitHolds`, `Reconnects`, `ClientServed`): fairness and `ENABLED` are
out of the prover's reach. The runs that expect a violation have no theorem.

## Not modelled

* The arithmetic of SHA-256d in C, OpenCL, CUDA and PTX, and of header, merkle
  root and target: a hash is an oracle here. It is out of TLC's reach, and the
  program tests it with vectors of its own. `cuda_sha256d_ptx.h`, 48,745
  generated lines of 62,800, is the compiled kernel as a string.
* The benchmark (`main.c`): it times the same scans and shares no state with the
  rest. CPU topology, affinity plan and console: no state that matters to others.
* Number syntax, usage texts and log lines; JSON itself, which is a library.
* The signing of certificates in the proxy: which files hold what is modelled,
  the contents are not.
* Time, except in `Supervisor`.

## Plan

A composition of `Connect`, `Stratum` and `Supervisor` in which a session ends as
`Stratum` says.
