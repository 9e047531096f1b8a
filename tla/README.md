# NitrinoNet Control Manager exporter: TLA+ models and proofs

The program is a Prometheus exporter for Linux and Windows hosts: it serves
metrics about the hardware and the processes over HTTP (port 9182, protected by
a handshake key) and an HTTPS API (port 9183) that confirms a change of the
hardware. This directory holds TLA+ models of the parts of it that keep state
across steps, the TLC configurations that check them, and proofs for TLAPS.

1. Inventory
2. Modules
3. Runs and bounds
4. Fairness
5. Proofs
6. What disagrees with the code or the documentation
7. What is not modelled
8. Plan

Tools: `tlc -config X.cfg M` checks a run, `tlapm M_proofs.tla` a proof module.

## 1. Inventory

| Part | Source | State it keeps | Operations | What is hard in it |
|---|---|---|---|---|
| Secrets manager | `internal/secrets/manager.go` | handshake key, password hash and the files they came from, under `mu`; the map of watchers; one inotify watch and one goroutine per file | `Reload`, `WatchFiles`, `Close`, the watcher goroutine | several goroutines run `Reload`, which reads files outside the lock; events come late, merged or not at all |
| Log manager | `logmanager/logmanager.go` | the open file, its size; the files `path`, `path.1`, ... | `Write`, `rotate`, `Close`, start | a rotation is a sequence of system calls, any of which may fail, and between any two of which the process may end |
| HTTP servers | `service/common.go` | two servers, `errCh`, the context | `startHTTPServer` | cancellation against failure, one deadline for two shutdowns |
| Linux service | `service/main_linux.go` | `signalChan`, `serverErr` | boot, SIGHUP, SIGINT/SIGTERM, exit | signals in any order, a channel with room for one |
| Windows service | `service/main.go` | `m.cancel`, `m.serverErr`, the channel | `startServers`, `stopServers`, `Execute`, `main` | two goroutines may stop at once; fields that are read after they were cleared |
| Hardware identity | `metrics/uuid_metrics_*.go`, `registryutil`, `internal/api`, the probes in `metrics/memory_metrics_linux.go` and `gpu_metrics_linux.go` | the file `hardware_uuid` or a registry value, the gauges `UNIQUE_ID_CHANGED` and `UNIQUE_ID_SYSTEM` | refresh at the start, API call | unlocked read-compare-write by several threads, crashes between two of its steps, an identity that depends on which tools answer |
| Configuration watchers, mock mode | `internal/deviceconfig`, `internal/mockconfig`, `internal/collector`, `metrics/sn_metrics.go`, `metrics/mock_apply.go` | the two files, the mock configuration in memory, `device_serial_number_info`, `mockEnabled` | `RegisterMetrics`, `Start`, two `Watch` goroutines, the mock loop | a start that interleaves with the watchers it starts; two writers of one gauge |
| Samplers of counters | `metrics/network_metrics_*.go`, `metrics/disk_metrics_*.go` | the previous sample of every device, the series shown | one endless loop each | failed and slow rounds, devices that come and go, counters that start from zero, unsigned subtraction |
| Health of disks | `metrics/disk_metrics_*.go` | on Linux a cache of verdicts by block device, the series shown | asked in the disk sampler's rounds, on Windows once | tools that fail, hang or report by exit code, disks that are swapped |
| Names of interfaces | `metrics/network_metrics_linux.go` | a cache of names, the series by name | looked up every five minutes | devices that take over a kernel name, devices of one name |
| Samplers of processes | `metrics/proccess_metrics_*.go` | series by name and PID; on Windows process times and handles | one endless loop each | series of ended processes, PIDs used again, handles |
| Gauges | memory, CPU and system metrics | the gauge | one loop each, on Windows none for the uptime | failures that end a loop |
| Inventory | BIOS, motherboard, GPU, memory modules | nothing | shown once at the start | which tools answer (it is hashed into the identity) |

How they interact: `main` owns the secrets manager and the log manager, reloads
the secrets on SIGHUP and runs `startHTTPServer` in a goroutine. That registers
the collector's metrics, starts the collector (which starts the watchers of the
configuration files, the mock loop or the samplers, and the goroutine that
computes the identity) and then the two servers. The handler of `/metrics` asks
the secrets manager for the key. The API authenticates with the stored identity
and the password of the secrets manager, rewrites `hardware_uuid` and runs the
same refresh as the start. A cancelled context ends the servers, the watchers
and the mock loop; the samplers end with the process.

What makes each of them correct is stated by the properties of its module,
described next. `PROJECT.json` lists the hazards line by line, with the
properties that would notice each.

## 2. Modules

### SecretsManager (with MCSecretsManager)

Threads are the main goroutine and one watcher goroutine per path. `Reload` is
split where another thread can come in between: the stat that selects a source
(`ResolveKey`, `ResolvePassword`), the read of the file (`ReadFile`), and each
critical section (`CommitKey`, `CommitPassword`). `WatchFiles` is a snapshot of
the files that are set (`SecretFiles`) followed by one `WatchFile` per path,
which may skip, fail, or register the path and start its goroutine, with the
watch on the directory added in a step of its own. A goroutine takes an event,
reloads if its operation is in `ReloadOps`, and takes itself off the map when
its watcher ends. `Hangup` is the SIGHUP branch of `main`, `AfterError` tells
how its error differs from that of the boot. The environment of the process is
the constant `Env`, with the two default paths; the content of files is a value,
blank or absent. A `Hash` is injective and never the text itself.

The environment edits files in place (truncate, then write: two steps that a
reader sees), replaces them by rename, removes and creates them; `Deliver` tells
what a watch reports of each, including that inotify merges equal events and
that a watch ends with its inode.

- `QuietIsFresh`: when no event is pending and no thread is busy, the key served
  is the one in its file. `HotReload` is the same as liveness.
- `WatcherBookkeeping`: the map holds a path exactly while its goroutine runs.
- `ConsistentPassword`: hash, kind of source and file always belong together.
- `NeverBlanked`: a failing or racing `Reload` never blanks a key that is held,
  if its file is edited atomically.
- `NoEventDropped`: `WatchFiles`, run again by every SIGHUP, costs no event.

### LogRotation and BoundedLog

Bytes accepted are numbered, and a file is an interval of them. `Write` begins a
record and decides about rotation; `RemoveOldest`, `Shift`, `Reopen` and `Append`
are one system call each, `RotateFails` is the error of any of them, which leaves
the handle closed, `Crash` ends the process anywhere, and `Start` opens what is
there. Properties: `SizeBound`, `Ordered` (older slots hold older bytes at every
moment), `NothingOverwritten` (no rename hits a file) and `RetainsBackups` (what
is lost is what must be lost); the proofs add `SizeTracked` (the tracked size is
that of the file) and `BackupsFull` (nothing is rotated that still had room). `BoundedLog` is the abstract log, which
accepts bytes and forgets from its old end only; `RefinesBoundedLog` is the
refinement, with the union of the files as what is retained.

### HttpServer, LinuxService, WindowsService, Services

`HttpServer` is one call of `startHTTPServer`, without a `Next` of its own; the
two services extend it by the process that calls it, and `Services` has both,
of which one is built. Its steps are those of the
calling goroutine (register, start the collector, launch, select, and for each
server close the listener and await the requests), of the two server goroutines,
and of the clients. A server that is told to shut down
while it is still starting (`"ending"`) ends when it is to accept requests, and
may still fail before. `NothingLeftBehind`: when the call has returned no server
accepts requests, and a late error finds room. `CleanReturn`: a step that
returns `nil` is one with both servers down, no request cut off before the
deadline, and neither server among those that have reported a failure. It holds
because the channel is looked at once more after a cancellation
(`common.go:210`): without that (`ReturnOwnError`) it fails.

`LinuxService` adds `main`: boot (which may end the program for want of a log or
a collector), `signal.Notify`, the select loop, the reload
(its inside is SecretsManager), the wait after a SIGTERM, the exit code, and
signals that are delivered, dropped when `signalChan` is full, or fatal before
`Notify`. `WindowsService` adds `myService`. `m.serverErr` is a field that may
or may not hold the channel (`field`), and the channel has its own content
(`chan`), since `stopServers` clears the first while the goroutine still has to
send. `Execute` and, interactively, `main` may both be in `stopServers`.

`StopEndsProcess` and `FailureEndsProcess` say of both that the process ends when
it should, even if a request never ends. `ExitInOrder` says that it does not end
before. On Linux `startHTTPServer` has returned by then, and the exit code tells
how (`OrderlyExit`). On Windows, as a service or interactively, its servers are
down and no request is cut off that had time left (`ServersDownAtExit`), with two
exceptions: `stopServers` gave up on a collector that takes ten seconds to start,
and `MainWaitsForNothing`, the interactive `main` that finds no channel in
`stopServers` and ends the process at once, whatever `Execute` waits for. The
second one is a flaw of the program; section 6 tells of it, and of
`StopWarningTrue`.

### HardwareIdentity, HardwareProbes, MCHardwareIdentity

Threads of `HardwareIdentity` are the goroutine of the start and API requests. A
refresh is split at each operation on what is stored and at each gauge: clear,
reset, with. `store` says where that is. A file is looked for, created empty,
truncated and filled, each a step that another thread may come before; a
registry key is created or opened at once (`OpenOrCreateKey`), its value is set
at once (`SetValue`), and a key without the value cannot be read, while an empty
file can. A request authenticates, rewrites the identity and refreshes.

What a host hashes to is a constant, `Identity(h, v)`: v is a view, which says
which tools answer and in which order a map is iterated. `HardwareProbes` has
the probes of Linux as operators on a host and a view: the disks that are not
loop, RAM or floppy devices, the first interface with a device behind it, the
memory modules of dmidecode or else lshw (whose filter only sees the last bank),
the GPUs with labels and memory from whatever knows them, and none if
`/sys/class/drm` cannot be read. It takes the output of the tools as the code
parses it: dmidecode is asked for blocks that begin with their title, and where
it prints a line with the handle first (`titled` is false) nothing is found, and
lshw answers. `MCHardwareIdentity` gives TLC four
hosts: an office computer, the same with a mounted image (the same identity), with
a memory module less (another one), and with two GPUs that no driver lists (two
identities). On Windows the queries answer or the refresh fails.

`BlankIsTransient`: unless a crash or a failing write cut the last writer off,
what is stored is empty only while a writer is about to fill it, whatever
overlaps. `SuccessConfirms`: what a caller who was alone may rely on after a
success. `AlarmJustified`: an alarm that a start raises has a cause.
`ChangeReported`: hardware that changed while the agent was down is reported.
`IdentityShown`: however it was cut off, an agent that keeps running shows its
identity.

### ConfigWatch

The start of a collector, which is the same on both systems, as one thread (`RegisterMetrics`,
`GoWatchMock`, `ReadDevice`, `WatchDevice`, `RecordUUID`) and what it starts: the
two watchers, the mock loop and the refresh of the identity, as far as it writes
the gauge that the loop writes. A file is valid, blank (valid YAML, invalid
JSON), broken or absent; a reader that finds none creates the default.
`QuietIsFresh`: a watcher with nothing pending has taken in what the file
says, and no labels of an older device are left beside the new ones. The history
variable `missed` has the files for which that is not so: those that were edited
before their watch was there, replaced, or edited after that.
`LastGoodMock`: an unreadable mock file changes nothing. `MockShown`: in mock mode
the loop has the last word on `UNIQUE_ID_CHANGED`, also when a call of the API
refreshes the identity (`ApiRefresh`).

`Cancel` may come at any time, during the start too, which does not look at the
context: it goes on and starts what it would have started, except that the watch
of the device configuration may fail, since its goroutine may have closed the
watcher already, and the start with it. `AllEnd`: after a cancellation the start
comes to its end and every goroutine it started, before the cancellation or
after it, ends. A start that fails without a cancellation leaves the watcher of
the mock configuration behind; `startHTTPServer` then returns the error, and the
process ends (`FailureEndsProcess`), the interactive one on Windows with Ctrl-C.

### CounterSampler

The loops of `RecordNetworkMetrics` and `RecordDiskUsage` on both systems; which
of the four it is, is chosen at the start. A round lists devices, reads their
counters and records them, and each of the four records in its own way:
`RecordNetLinux` keeps the samples of devices that are gone and measures the
time, `RecordNetWindows` forgets what it did not see and guards the sum of
errors, `RecordDiskLinux` goes on without counters, `RecordDiskWindows` goes on
with those it could read. Subtraction is modulo `Width`, as that of `uint64`.
Time may pass anywhere: within a round it is a fault (`slow` before the counters
are read, `stall` between the counters and the clock), as are a failing query,
a device that vanishes and counters that start from zero.

- `RateWithinSpeed`: no device is shown faster than it can be. `RateHazards`
  names the faults a sampler is not proof against, per sampler: counters that
  start from zero and stalls for all of them, failed and slow rounds on Windows,
  where the difference is divided by five seconds whatever time has passed. An
  empty list of adapters is an error on Windows (`NoAdapters`), and counts as a
  failed round without being a fault of its own.
- `GuardedErrors`: `network_errors` never exceeds the errors there were, on
  Windows whatever happens, on Linux as long as counters do not start from zero.
- `Recovers`: no failed round is the last one, but for the inventory of disks
  with which the Windows loop starts.

### ProcessSampler

The loop of `RecordProccessInfo` on Linux or on Windows. A round on Windows lists
the processes and opens their handles (`ListProcesses`), reads the system time
(`ReadClock`; `ClockFails` leaves the round, and forgets all samples the third
time in a row) and then records every process whose times can be read
(`RecordWindows`), keeping a sample by PID. On Linux `RecordLinux` follows the
list at once, and what counts is how the instances of a name are summed up when
the memory or the CPU of some cannot be read. The host starts and ends processes
between any two steps and may use a PID again; time passes between rounds.

- `CpuShownIsReal`: a share never exceeds what the process used since the last
  round that succeeded, nor is it divided by less time, whatever failed in
  between. `missed` names the two things it is not proof against: a PID used
  again before a round saw it free, and times that could once not be read (the
  old sample stays, while the system time moves on).
- `HandlesClosed`: between rounds no handle is open, if the system time could
  always be read.
- `InstancesReal`: a count shown is that of processes of the round, each once.

### DiskHealth

`disk_health_status`. On Linux a round lists the mounted disks (`ListDisks`),
and shows for each the verdict in the cache (`ShowCached`) or asks the tools
(`Ask`), and caches and shows the answer (`ShowAnswer`), with the time at which
it is there. On Windows `RecordOnce` is all. Disks begin to fail and may be
swapped; tools may be missing, fail or hang.

- `HealthyIsRecent`: what is called healthy was so less than a minute ago,
  unless a tool hung or the disk was swapped.
- `DegradationShown`: a mounted disk that fails is not held for healthy in the
  end, and what it is held for is shown. That may be "unknown": smartctl tells a
  failing disk by its exit code as well, which `runSmartctl` takes for an error
  of the command.
- `StatusShown` is the documented form, and fails on Windows; see section 6.

### InterfaceNames

The names under which the Linux sampler shows interfaces, and
`network_status`. A round shows one interface per step (`ShowStatus`), under
the name it has at that step: names are loaded for all interfaces when they have
expired (`FriendlyInterfaceName`), which may be in the middle of a round, while
adapters are plugged in and out and take each other's kernel name. lspci may not
answer, and `/sys/class/net` may not be readable, which leaves the names of the
kernel. What a round makes of an interface that has counters but was not listed,
the status 0, is in CounterSampler.

`StatusUnderItsName`: in the end an interface is shown under the name of its
device, with the status of an interface of that name (its own, if there is no
other one: two ports of one card have one name).

### GaugeSamplers

The loops that read one quantity and show it: CPU, memory and system, on either
system. `GaugeCurrent` says what is shown is the quantity, and names the
samplers that a failure ends, and the Windows uptime, which is shown once.

### Samplers

All of these for one run. `Start` starts
each sampler as a goroutine of its own and they share nothing, so that a
behaviour of the composition is one of a single sampler while the others stand
still. Rates and the health of disks are of one goroutine, and so are, on Linux,
rates and names; they share no state but time: a slow command is a slow round.
`SamplersRecover` is `Recovers` of CounterSampler with `GaugeCurrent` in the end.

## 3. Runs and bounds

| Run | Shows | Bounds, and why they are enough |
|---|---|---|
| Secrets_inplace | hot reload works for one watched file edited in place | 4 steps of editing (two whole edits), so that one falls into the reload of another; 2 queued events, so that merging happens |
| Secrets_files | bookkeeping, passwords, keys and events under everything that can happen to files | 3 paths, 2 edits, 1 SIGHUP, failing `Add`, edits during the boot; two edits are what a stat, a read and a commit can straddle |
| Secrets_race | violation of `QuietIsFresh` by two watchers | the key file and the password file that `setup_ncm.sh` configures, 3 edit steps |
| LogRotation_crash | all properties of the log and the refinement | limit 3, records of 1 and 2 (exact fit and overflow), 3 backups, 18 bytes: every backup is dropped at least once; 3 starts |
| Services_all | servers and process, of either system | Linux: 2 SIGHUPs and 2 SIGTERMs (one more than `signalChan` holds); Windows: both modes, slow start, one stop; 1 request per server |
| WindowsService_warning | violation of `StopWarningTrue` | service, collector that starts in time |
| Identity_all | identity in a file or the registry, with crashes, failures, calls, changes while down | 4 hosts, views of which one tool is missing; 1 caller with 2 calls beside the start, 1 change, 1 crash, 1 failure: what a second crash finds is what the first one left |
| Identity_overlap | violation of `DocumentedSuccess` | 2 callers, nothing fails |
| ConfigWatch_all | start, watchers, mock loop | both files in any state at the start, 2 steps at any time, each an edit or a call of the API, 2 queued events; a cancellation at any time |
| Samplers_all | the samplers | Counters: 1 device, 2 bytes, 1 error, 2 faults: two faults are the shortest way to a wrong rate after a right one, and devices do not affect each other; errors and links that go up and down for interfaces only. Processes: 2 PIDs, 1 process that starts late, under a new PID or a used one, 3 failures, of which more than one are of the clock (the third resets the samples), 2 ticks between rounds. Health: 1 bay, 2 disks, any bus and tools, 1 fault; a minute is 2 rounds. Names: 2 kernel names, 2 adapters of one model or none, 3 changes. Gauges: all of them, 3 changes, 3 failures |
| Sampler_reset | violation of `CountsRealErrors` on Linux | 1 fault |
| DiskHealth_windows | violation of `StatusShown` on Windows | 1 disk that begins to fail, no fault |

Deadlock is not checked where the system may stop: all inputs are bounded
(edits, signals, calls, bytes), after which a healthy process has nothing to do.

The Secrets_inplace run edits files only after the watches are there. That
leaves out a window the code really has; see section 6.

## 4. Fairness

- Every goroutine is scheduled: weak fairness of the steps of each thread. The
  steps of the environment (edits, signals, requests, faults, crashes) are never
  fair, and no property needs them.
- `Expire` in HttpServer: the deadline of five seconds comes.
- In HardwareIdentity the agent is started again after a crash: systemd runs the
  unit with a restart policy.
- In ConfigWatch leaving a `select` whose context is done is strongly fair: Go
  chooses among ready cases at random, so a case that is ready again and again
  is taken. `Tick` is the ticker.
- In Samplers time passes and the loops run; faults are limited in number,
  so that the liveness properties are about what follows the last of them. The
  process sampler needs no fairness.

## 5. Proofs

TLAPS proves these for every value of the constants, that is for any number of
files, edits, threads, devices, processes, records, crashes and failures, and
counters of any width. Every invariant and every action property that a run
checks is a theorem of its specification, and so is the refinement of the log.

Assumptions are the `ASSUME`s of the modules: names that are distinct, sets that
are not empty, bounds in `Nat`. Two are there for the proofs and say what the
code's types say anyway: `NoneAssumption`, that "no sample" is not a sample (the
code has maps without the key), and in `ProcessAssumption` that PIDs are
finitely many. Two theorems have a hypothesis: `HotReloadSafe` (`SoleReloader`)
and `AlarmJustifiedCorrect` (`~HotSwap`, see there).

- `SecretsManager_proofs`: `TypeCorrect`, `BookkeepingCorrect`,
  `NeverBlankedCorrect`, `ConsistentPasswordCorrect` and
  `NoEventDroppedCorrect`. Types need that the list of files still to watch is
  one of known paths (`TodoInv`). The bookkeeping is inductive with that: each
  step of a goroutine changes its own map entry only. `NeverBlanked` needs that
  no thread carries a blank key to its commit (`BlankInv`), which rests on failed
  reads leading past the commit. A password and its kind are committed in one
  critical section, so that `ConsistentPassword` is inductive by itself. A queue
  is only emptied where a watcher starts, and there the bookkeeping says that no
  goroutine runs (`EventsKept`).
- `SecretsFreshness_proofs`: `HotReloadSafe`, `QuietIsFresh` under
  `SoleReloader`, the conditions under which the design guarantees hot reload:
  one key file edited in place after the boot. `FreshInv` follows the main
  goroutine through the boot (`Boot1` to `Boot4`) and then says that either the
  key is fresh and no commit will spoil it, or a read is still to come.
- `LogRotation_proofs`: types, order, size, nothing overwritten, bounds
  (`SizesCorrect`), `Refinement` and `RetainsBackupsCorrect`. `LogInv` adds that
  every file is an interval of accepted bytes of which the current one holds the
  last (`FilesOK`), and what an open handle means (`HandleOK`). The refinement
  maps each step of a rotation to a stutter or to forgetting the oldest slot, and
  `Append` to accepting; it covers rotation without backups, which the run does
  not. `SuffixCorrect` is what the abstract log gives: what is kept is a suffix.
  `RetainsBackups` counts the bytes of a union of files. Since they have no hole,
  it is enough to say of every slot how far it lies behind the file at path:
  `KeptInv` says i - 1 full files, less the rotations cut short so far, and less
  one while a rotation has moved this slot but not yet the file at path
  (`Moved`). What a full file holds at least comes from `BackupsFull` and the
  longest record, which exists if all records fit (`LongestRecord`); records that
  do not fit make the bound trivial. After more rotations cut short than there
  are backups the property says nothing, as nothing is promised then.
- `HardwareIdentity_proofs`: `IdentityTypeCorrect`, `BlankIsTransientCorrect`,
  `SuccessConfirmsCorrect` and `AlarmJustifiedCorrect`, for any number of
  callers, either store and any function `Identity`. The invariant adds that a
  file once there stays (`ReadSees`) and no thread outlives the process.
  `SuccessConfirms` rests on what a request that is alone has achieved at each
  program point (`Promise`), on all others being at rest (`OthersRest`), and on a
  process that is down leaving nothing but the file (`DownForgets`): no earlier
  crash, failure or call can spoil what the request finds. `AlarmJustified` rests
  on what the goroutine of the start knows at each point (`BootKnows`): the
  identity it holds is one of the hardware unless a tool failed it at this very
  start, and what it compares is what is stored. It needs that the hardware stays
  while the agent runs: hardware that is replaced and put back under a running
  agent finds the alarm of its absence still on. The proof showed that a torn
  write and failures of earlier starts need not be excused beyond the empty file
  they leave, and the property no longer excuses them.
- `Services_proofs`: `ServicesTypeCorrect`, `NothingLeftBehindCorrect`,
  `CleanReturnCorrect` and `ExitInOrderCorrect`, for both programs and any number
  of requests and signals; the exceptions of `ExitInOrder` are those of section
  2. `HttpInv` says when there is a result (`ReturnInv`), that a server sends at
  most once and the channel holds what failed (`ErrInv`), so that a late error
  finds room, and what is over past each shutdown (`ShutInv`). `ErrInv` also says
  that what was sent is still in the channel or in `serveErr` until the return:
  the step that returns `nil` finds neither, hence no server that has failed
  (`NilStep`, `CleanReturnCorrect`). On Windows a result is in the channel only
  when the call has returned (`ChanInv`), in a service `Execute` alone stops the
  servers (`ServiceInv`), and `HolderInv` tells who took the channel: `Execute`
  goes on when the servers have returned or `main` has it, and `main` when they
  have returned or it never had it. `HttpStep` is proved once, since both
  programs take the same steps of HttpServer.
- `ConfigWatch_proofs`: `ConfigTypeCorrect`, `LastGoodMockCorrect` and
  `ConfigFreshCorrect`, for any device configurations, edits and queue length.
  `FreshInv` says of each watcher, at every point of the start, that what was
  taken in is what the file says, or the watcher has been told to read it, or an
  event in its queue will tell it so; `missed` has what no watch reports.
- `CounterSampler_proofs`: `CounterTypeCorrect`, `GuardedErrorsCorrect` and
  `RateWithinSpeedCorrect`, for any devices, speed and `Width`. Subtraction
  modulo `Width` is the difference only if a counter has not gone back
  (`MinusType`), which `Ascending` says of the samples while no counter starts
  from zero. For `GuardedErrors`, the errors in the total and those that the
  difference to either sample still is add up to no more than there have been
  (`NoMoreErrors`). For `RateWithinSpeed`, a device has carried no more since its
  sample than it can in the ticks since then: on Linux those of its age, with one
  tick for each fault when the age is no longer told (`LinuxRate`, `PaidUp`), on
  Windows one tick (`WindowsRate`), since there a sample that is kept is one
  round old. TLC checked all of these invariants on the instance of Samplers_all
  before they were proved.
- `Samplers_proofs`: `HandlesClosedCorrect`, `CpuShownIsRealCorrect`,
  `InstancesRealCorrect`, `HealthyIsRecentCorrect`, and the composition:
  `SamplersIndependent`, `SamplersTypeCorrect`, `SamplersCorrect`. The handles
  that are open within a round are those of the listed processes that could be
  opened (`ProcRounds`); the sample of a process is its mark, the time of the
  last round that was completed (`Worth`, `TimeKept`), as long as nothing was
  missed. `HealthInv` dates every verdict in the cache. In the composition each
  sampler takes the steps of its own specification (`SamplersIndependent`), so
  that what is proved of one holds of all together.

The library's induction theorems take an operator, which the provers cannot
instantiate. The one proof that needs induction (`LongestRecord`) picks a minimal
counterexample of a well-founded order instead, which needs no operator.

Checked by TLC only: everything under fairness (`HotReload`,
`StopEndsProcess`, `FailureEndsProcess`, `ChangeReported`, `IdentityShown`,
`AllEnd`, `MockShown`, `SamplersRecover`, `DegradationShown`,
`StatusUnderItsName`), which is out of reach of the prover. HardwareProbes is
evaluated on the hosts of MCHardwareIdentity only.

## 6. What disagrees with the code or the documentation

Each with a run of its own:

- Secrets_race: two `Reload`s at once may commit in the wrong order, and the old
  key stays (`manager.go:35`).
- WindowsService_warning: the goroutine evaluates `m.serverErr` after
  `stopServers` has cleared it, sends to a nil channel for ever, and the service
  logs that its servers did not stop in time, ten seconds after they did
  (`main.go:54`).
- Identity_overlap: a refresh that reads `hardware_uuid` while a request has it
  truncated raises the alarm after that request cleared it
  (`uuid_metrics_linux.go:159`).
- Sampler_reset: `errDelta < 0` on a `uint64` never holds; an interface whose
  counters start from zero adds nearly 2^64 errors
  (`network_metrics_linux.go:105`).
- DiskHealth_windows: the comment at `disk_metrics_windows.go:132` promises the
  health of each disk every five seconds, the code shows it once, before its
  loop (line 163).

Found with the same modules and other constants, not kept as runs:

- A secret or configuration file that is replaced by rename ends its watch, and
  is not read again (`manager.go:165`, `watcher.go:25`); README.md:134 and
  README.md:214 promise that it is. In SecretsManager, edits of kind `replace`
  violate `QuietIsFresh`; in ConfigWatch it does without `missed`.
- An edit between the first read and the `Add` of the watch is not noticed
  (`manager.go:118`, `mockconfig.go:108`): `EditDuringBoot`, and `missed` again.
- A SIGTERM is dropped while a SIGHUP waits in `signalChan`
  (`main_linux.go:63`): `StopEndsProcess` without its condition
  on SIGHUPs.
- Run interactively on Windows, Ctrl-C reaches `main` and `Execute`. If `Execute`
  is the first in `stopServers`, or has not started the servers yet, `main` finds
  no channel there, waits for nothing (`main.go:58-69`) and ends the process
  (`main.go:205-206`) while the servers accept requests and answer some, and
  `Execute` waits for them in vain: `ExitInOrder` without `MainWaitsForNothing`.
- A hardware change under a running agent is reported at the next start only
  (`uuid_metrics_linux.go:139`): `HotSwap`.
- With two GPUs and no card in `/sys/class/drm`, the identity depends on the
  iteration order of a map (`gpu_metrics_linux.go:97`): `Ambiguous` hosts.
- A crash between `CreateKey` and the write leaves an empty identity, and every
  later start raises the alarm on unchanged hardware
  (`uuid_metrics_linux.go:151`); `AlarmJustified` allows for an empty file. On
  Windows it leaves a key without its value, at which every later start gives up
  and shows no identity: `IdentityShown` without its exception.
- A tool that does not answer for once changes the identity, and a start raises
  the alarm, or stores it if it is the first (`memory_metrics_linux.go:97`): the
  views that are not `Complete`. The host name is hashed as well
  (`uuid_metrics_linux.go:89`), so that renaming a host is a change of hardware.
- dmidecode prints a line with the handle before the title of a block, unless it
  is called with `-q`; the code wants the title in the first line
  (`memory_metrics_linux.go:126`) and then never finds a module.
- On Windows the memory sampler ends with its first failure
  (`memory_metrics_windows.go:83`), the uptime is shown once
  (`system_metrics_windows.go:57`), and so is, as said, the health of disks.
- A swapped disk is shown with the verdict on the one before it for up to a
  minute (`disk_metrics_linux.go:333`), a verdict that took long counts from its
  end (line 343), and smartctl's exit code for a failing disk makes its verdict
  "unknown" (line 371); the series with the verdict "healthy" stays at 1 beside
  any later one. On Windows a failing disk has the value 0, on Linux 1.
- Two ports of one network card have one name, and hide each other's status
  (`network_metrics_linux.go:237`).
- The call documented at README.md:148 sends GET, which `UpdateUUID` rejects:
  `Methods` with GET reaches `rejected`.
- Rates on Windows are too high after a failed or slow round, and the rate of
  any sampler is absurd for one round after counters started from zero:
  `RateHazards`.
- On Linux a disk's timestamp is taken after the external commands for the
  disks before it, its counters long before: the next interval is measured too
  short (`disk_metrics_linux.go:204`), the fault `stall`.
- On Windows every handle of a round leaks when `GetSystemTimes` fails
  (`proccess_metrics_windows.go:227`): `HandlesClosed` without its condition. A
  PID used again between two rounds makes a subtraction underflow and shows
  100 percent (line 269), and a process whose times could not be read in one
  round is shown too busy in the next: `CpuShownIsReal` without its condition.

## 7. What is not modelled

- The labels and amounts that samplers show and never read again: space on
  disks, memory of processes, temperatures, the inventory of BIOS and
  motherboard; the mapping of partitions to disks. In mock mode the Windows
  collector does not register `disk_health_status`, which the Linux one does.
- The series by PID and by number of instances, which no round removes
  (`proccess_metrics_linux.go:81`): they grow with every process there ever was.
  On Windows the shares are also divided by the number of cores although
  `GetSystemTimes` sums over them already; the model has one core.
- What fsnotify delivers on Windows when a watched file is replaced.
- The parsing of the tools' output beyond the fields that tell modules and cards
  apart.
- SHA-256 (hashes are equal when what is hashed is); passwords and hashing beyond injectivity.
- Installers, certificates, the uninstaller, packaging.

Abstractions worth knowing: a secret file is read in one step once opened, since
it is shorter than a page; `log.Printf` is left out everywhere; failures of
`fsnotify.NewWatcher` are failures of `Add`; the inside of a reload on SIGHUP is
in SecretsManager and a single step of LinuxService; a scrape is not a step but
any state, for what it reads is read under Prometheus' own locks.

## 8. Plan

Done in this order: SecretsManager, LogRotation with its refinement, the
services and their composition, HardwareIdentity with both stores and its
probes, ConfigWatch, CounterSampler, ProcessSampler, DiskHealth, InterfaceNames,
GaugeSamplers. To come:

1. Rates of several interfaces that share a name, whose series each of them sets
   in turn (`network_metrics_linux.go:100`).
2. An abstract specification of a hot-reloaded value, which SecretsManager and
   ConfigWatch implement under the conditions of section 5.
3. LogRotation with standard output redirected to the same file, as the
   installer does (`setup_ncm.sh:199`).
4. Proofs: freshness of the key with several files, each with one reloader; the
   refinement of the specification of item 2.
