# A TLA+ verification of CS-PIP

CS-PIP runs a command in a container (`cspip-runtime`, C), samples the
container's cgroup while it runs and writes a report about it (`cspip`, Go).
This directory holds TLA+ models of that code, TLC configurations that check
them, and TLAPS proofs.  Paths below are relative
to the repository; `container.c` and `cgroup.c` are in `src/internal/runtime`,
`main.go` is `src/cmd/cspip/main.go`.

## The system

| Component | State | Operations | Interacts through |
|---|---|---|---|
| container lifecycle, `container.c` | `state.json` per container, its directory | run, exec, stop, kill, rm, inspect, ps | files, the cgroup tree, signals; no lock, no daemon |
| cgroup manager, `cgroup.c` | cgroup directories, limits, charged PIDs | create, set limits, add a PID, destroy | called by run and rm; its files are read by the sampler and by the report |
| namespaces, rootfs, network | mounts, hostname, devices of the child | set-up in the child, `ns_enter` for exec | called by `container_child` and by exec |
| run supervisor, `main.go` | three goroutines, two channels, two timers | cmdRun | starts `cspip-runtime`, reads its stderr, starts the sampler, saves the record |
| sampler, `src/internal/profiler` | the series, the last CPU reading | StartSampler | reads the cgroup and `/proc` while the container runs |
| store, `src/internal/store` | `~/.cspip/runs/<id>.json` | Save, Load, List | written by run, read by report |
| analyzer, reporter | none | Classify, AnalyzePatterns, DetectBottlenecks, BuildSummary, GenerateAlerts, GenerateSuggestions | called by cmdReport on a stored series |

What is hard here:

* Every invocation of `cspip-runtime` is a process of its own.  run, stop, kill
  and rm of one container read a record, act, and write it back, in several
  system calls each, with nothing that orders them.
* A record holds a PID.  The kernel reuses PIDs as soon as `waitpid` returned,
  so a record that was right when it was read may name anything when it is used.
* `container_run` must outlive the container to record its end; if it crashes,
  or a write fails, the record is wrong for good.
* `write_state` truncates the file and fills it later: readers may come between.
* exec resolves a host PID three times, once per namespace, and what `/proc` is
  changes underneath it.
* In `cmdRun` three goroutines hand values to each other with timeouts on one
  side, the container writes to the same pipe as the runtime, and either program
  may be killed while a record is half written.
* The sampler reads processes one by one while they fork and exit; its counters
  fall when processes exit or reads fail, its clock may stand still or be set
  back, and the rules of the analyzer average and compare what is left.
* A memory limit is parsed twice, in C for the cgroup and in Go for the record.

What makes each component correct, in short: signals and waits reach the right
process; the record follows `created`, `running`, `stopped`, deleted, in that
order, and agrees with the process; failures leave nothing behind (runtime);
no goroutine is left blocked, nothing is lost or reordered, cmdRun returns
(supervisor); a report sees a whole record or none (store); exec enters the
container it names or fails (namespaces); counters never invent work, the limit
a report knows is the one applied, confidence and alerts follow from the samples
(report).  `PROJECT.json` lists the hazards line by line with the
properties that watch them.

## Modules

| Module | Models |
|---|---|
| `ContainerRuntime` | `container.c` and `cgroup.c`: any number of invocations, containers and PIDs |
| `ContainerProperties` | the properties of ContainerRuntime |
| `ContainerInvariant` | its inductive invariant |
| `Lifecycle` | the abstract life cycle of a record, implemented by ContainerRuntime |
| `NamespaceEntry` | `container_exec`, `ns_enter` and the set-up of `/proc`, composed with ContainerRuntime |
| `RunSupervisor` | cmdRun, StartSampler's loop, store.Save and store.Load |
| `RunRecord` | the abstract record of a run, implemented by RunSupervisor |
| `SamplerCounters` | how one sample is read from a cgroup whose processes go on |
| `Limits` | the C and the Go parser of limits |
| `Totals` | the loops that add up numbers, used by the samplers and the rules |
| `Analyzer`, `Reporter` | the rules as operators over a series |
| `ReportPipeline` | the sampler that makes a series, and cmdReport that reads it; composes Analyzer, Reporter and Limits |
| `ContainerRuntimeProofs`, `KernelProofs`, `NamespaceEntryProofs`, `RunSupervisorProofs`, `SamplerCountersProofs`, `ReportPipelineProofs`, `ReporterProofs`, `TotalsProofs` | the theorems and their proofs |
| `MCContainerRuntime`, `MCNamespaceEntry`, `MCRunSupervisor`, `MCSamplerCounters`, `MCReportPipeline` | instances for TLC |

A few modules contain definitions marked `Fault:`.  They are variants of the
definition that follows, with a plausible slip in them; nothing uses them in the
specification, and each breaks the property it is paired with in `PROJECT.json`.

### ContainerRuntime

`file`, `dir` and `cg` are the state files, state directories and cgroups;
`kind`, `ns`, `cgOf` and `killed` are the kernel's table of processes; `pc`,
`op`, `tgt`, `st`, `fd`, `polls`, `buf` and `ret` are the local variables of the
invocations (`st` is the C `ContainerState`); the rest is history that
properties refer to.  One action is one system call, or several that no other
process can tell apart.

| Code | Actions |
|---|---|
| `write_state` | WsMkdir, WsOpen, WsNoDir, WsFail, WsFlush, WsFlushFail |
| `container_run` | RunStart, RunRefused, the write, RunClone, RunCloneFail, RunAddPid, the write, RunWait, the write |
| `container_stop` | SignalStart, SendTerm or SignalGone, PollAgain, PollEnd, the write |
| `container_kill` | SignalStart, SendKill or SignalGone, the write |
| `container_remove`, `cgroup_destroy` | RemoveStart, CgRead, CgMove, CgRmdir, RmUnlink, RmRmdir |
| `container_inspect`, a refusal | Inspect, CmdRejected |
| exit, or SIGINT/SIGKILL at any step | Return, Crash |
| kernel, container, host | ChildExec, InitExit, Fork, OtherExit, HostReap, ForeignSpawn |

Details that matter and are kept: a file opened before `unlink` takes its last
write into a lost inode (`fd = "stale"`); a truncated file parses as a record
`created` with pid 0; errors of `fprintf` and `fclose`, of the second and third
`write_state`, of `cgroup_add_pid` (which may fail for any reason) and of
`cgroup_destroy` in rm are ignored;
`rmdir` of a cgroup fails while a process is charged to it; the kernel may or may
not let processes move to the parent cgroup (`ParentTakesProcs`).

Two history variables name the containers that such an error has struck, and two
properties exempt them: `hurt`, those with a write of the record that failed or
was cut short by a crash, or whose run crashed (their record may be empty or say
`running` for ever, and nothing in the code repairs it: TornIsTransient and
RunningIsSupervised speak of the others), and `uncharged`, those that
`cgroup_add_pid` failed for (RunningIsCharged speaks of the others).  What later
commands make of such a record is not exempt from EarlyStopSawExit and
SignalMissesOnlyTheDead.

Assumptions: identifiers are distinct (48 random bits); between `RunStart` and
the creation of the state directory nobody can name the container.  Left out:
the limits (see Limits and ReportPipeline), the text of the records, list.

### NamespaceEntry

`exec` holds for each invocation of exec how far it is, the PID it read and the
namespaces it has entered so far; `proc` says what `/proc` is in the mount
namespace of a container: a copy of the host's, nothing after `pivot_root`, or
its own.  Every step of ContainerRuntime may come between two of its steps.

| Code | Actions |
|---|---|
| `container_child` before `execv` | PivotRoot (`rootfs_setup`), MountProc (`ns_mount_proc`); ChildExec waits for both |
| `container_exec`, `ns_enter` | ExecStart (read and check the record), Enter (open and setns of one namespace), EnterFail, ExecEnd |

`Lookup` is the heart of it: the PID is resolved in the `/proc` of the mount
namespace exec is in by then.  A refusal by ExecStart changes nothing and is a
stutter.  A failing `execv` ends the command at once (ExecEnd).  Children of the
command are not modelled.

### RunSupervisor

The pipe is a sequence of chunks (a line, a blank line, text without its
newline, the announcement).  `reader`, `sampler` and `main` are the goroutines'
program counters, `startCh` and `profilerDone` the channels, `taken`/`seen` the
bufio buffer.  `cmd.Wait` closes the pipe (`open`).  Timers may expire at any
moment they are armed (`MayTimeout`).  Besides the announcement the runtime
writes warnings of its own, from before the announcement and from its last
`write_state` after the container's end (`RtWarn`).  `cspip` and the runtime may be killed at
any step (`MayDie`; Ctrl-C reaches both): nothing is persisted but the record, so
what matters is where in Save it strikes.  `record` is what the file holds:
absent, truncated, saved.  A report may Load it at any time
(`shown`).  cmdRun ends, so these runs do not check deadlock.

### SamplerCounters

`alive`, `born`, `flt`, `usage` and `clock` are the container and its host;
`prevUsec`, `prevTime` the tracker; `usec`, `du`, `dt`, `todo` and `sum` the
locals of `cpuPercent` and `cgroupPageFaults`; `series` the samples.  cpu.stat
and the clock are read in two steps (CpuRead, CpuNow; FirstNow for the tracker's
first reading), cgroup.procs in one (List), then each process in one (ReadNext).
Processes may fork, fault and exit between any two steps.  Each of the three kinds
of file may fail to be read (`Fails`): without cpu.stat the tracker keeps its
reading, without cgroup.procs the list is empty, without its own file a process is
passed over.  A sum that misses processes in this way falls and rises again, and
what they had is counted again; the history variable `again` adds that up, and
RisesAreReal allows so much and no more.  A PID is used once,
and the host has one core; more cores scale the percentage by a constant.  The
run stops at its bounds and so does not check deadlock.

### Analyzer, Reporter, ReportPipeline

Values are integers in units that make thresholds small; comparisons of averages
are cross-multiplied, so no rounding takes part (for thresholds such as 0.9 and
0.95 the float comparisons agree with the exact ones for the lengths a run can
have).  uint64 subtraction is modelled with its wrap (`Minus`).  `ReportPipeline`
samples a container whose exited processes take their counters with them, whose
cgroup can be deleted at any time and whose readers may fail one by one (`Seen`),
at times that may stand still or go back (stored times are wall-clock times).

A limit is a record of what its text has (sign, digits, fraction, unit, what
follows), read by `AppliedMem` for the cgroup and by `RecordedMem` for the report.
The integers have their width: `atoll` saturates and the product wraps in C, where
what comes out negative is refused (by the runtime or, should a compiler drop that
test, by the kernel); in Go the range error of `ParseUint` is ignored and the
product wraps.  container_run ignores whether a limit could be written, so
`memory.max` holds what AppliedMem says or no limit (`MemMax`), and `cpu.max`
likewise.  The kernel's rounding of memory.max to pages is left out.

Context switches, minor faults, read rates in the summary, `Distance` and
`IsSimilar` are left out.

## Runs

Passing runs (deadlock is checked except for RunSupervisor and SamplerCounters):

| Run | Instance | Shows |
|---|---|---|
| MCFaults | 1 container, 2 PIDs, 2 invocations, all commands, all failures, 1 crash | TypeOK, TornIsTransient, RunErrorCleansCgroup, RunningIsSupervised, EarlyStopSawExit, SignalMissesOnlyTheDead |
| MCLifecycle | 2 containers, 2 PIDs, 2 invocations, no rm, clone and the calls on the cgroup failing, 1 crash | RunningIsCharged, SignalMissesOnlyTheDead, refinement of Lifecycle |
| MCProgress | 3 invocations, 1 PID, kill and rm, fairness | NoLateRunningWrite, OwnsItsChild, KillSettles, ExitIsRecorded |
| MCEntry | 1 container, 2 PIDs, 2 invocations and 1 exec, kill and rm, 1 crash | ExecTypeOK, ExecAimsAtInit, ExecMissesOnlyTheDead, ExecStaysTogether |
| MCRun | 4 chunks, 2 samples, both timers, kills of cspip and of the runtime, a report at any time, fairness | TypeOK, SendsNeverBlock, ForwardedInOrder, SavedSeriesIsFinal, refinement of RunRecord, RunReturns, AnnouncementArrives |
| MCSampler | 3 processes, 2 faults, 2 ticks, 3 samples, every kind of read failing, rm | TypeOK, SampleHasTheLiving, RisesAreReal, CpuWithinCapacity |
| MCSeries | 6 kinds of workload: counters that fall and gaps -1 to 2 (3 samples), CPU and I/O levels with a failing CPU reader (4), memory near its limit (3), a clock that stands still with memory near its limit (4), failing memory and I/O readers (5), and 432 limit texts | TypeOK, CountedIsReal, FaultsAgree, ConfidentTogether, FingerprintAgrees, SpikesAreFew, LimitsAgree, SummaryDescribes |

Runs that find a disagreement between the code and what its comments or README
say (the findings in `PROJECT.json` quote the line):

| Run | What happens |
|---|---|
| MCRemoveLive | rm decides before `running` is written and removes a live container |
| MCUserCode | the command runs before the child is in its cgroup |
| MCExec | exec enters the mount namespace and then looks for the host's PID in the container's own `/proc`: it fails while the init lives |
| MCRunForwards | lines still in the pipe are lost when Wait closes it |
| MCConfidence | confidence is not the share of samples that triggered the rule |

The models show more of what the code does not promise; none of this is the
subject of a run, and no property above relies on the contrary:

* a stop that times out records `stopped` while the init runs (container.c:433),
  and a later rm reports success although the cgroup stays (container.c:488);
* a stop, a kill or a run that has read a record writes it again after rm, which
  brings the container back as `stopped` (container.c:441);
* kill and stop signal whatever process has the recorded PID by then
  (container.c:457): SignalMissesOnlyTheDead says that this is the init of the
  container named as long as it has one, and nothing about later;
* a container that could not be added to its cgroup runs without limits, and is
  recorded as running (container.c:348);
* inspect takes a truncated `state.json` for a container in state `created`
  (container.c:167);
* text without a newline before the announcement hides it: the run is neither
  profiled nor recorded (main.go:209);
* a late profiler costs the record all its samples, not some (main.go:263);
* an exec that wins the race may enter the host's own namespaces, or those of
  another container, when the init was reaped and its PID reused between the
  record and the first open (namespace.c:147); ExecMissesOnlyTheDead says that
  this is the only way;
* the command of exec is not added to the cgroup: it is neither limited nor
  sampled (container.c:407);
* a single CPU percentage may exceed 100 (cgroup.go:143);
* `256m` followed by a blank is 256 bytes to the runtime and 256 MiB to the
  report (cgroup.c:119);
* a limit of more bytes than a signed 64-bit integer holds (`10000000000g`) is
  none to the runtime, or a wrapped one, and another number to the report
  (cgroup.c:131, main.go:105); LimitsAgree speaks of texts that fit (`Fits`);
* a limit the kernel refuses stays in the record (container.c:279, main.go:276):
  LimitsAgree compares the record with `memory.max` when that has a limit;
* constant memory is reported as a leak of 0 bytes (pattern.go:28);
* after a failed read the next write delta is everything written so far, and
  shows as a spike (pattern.go:86); faults that a failed read missed are counted
  again (cgroup.go:82).

Bounds.  The hazards of ContainerRuntime involve one container, the run that
owns it and one or two commands on it; two PIDs are enough to recycle one while
the other lives, and one crash strikes any of them at any step.  `MaxPolls`
stands for the 100 polls of stop: properties do not depend on the number, only on
its being finite.  The second container of MCLifecycle is there for signals and
charges that could go to the wrong one, with two PIDs that either may have had.
An exec needs one PID that dies and one that takes its number.
Four chunks hold an announcement with something before and
after it.  Five samples are the least for which the leak and saturation rules
do anything.  Three processes are one that dies under the reader, one that is
born meanwhile and one that stays; two ticks are the least for a late reading of
the clock and a time after it.  `Scale`, `Width`, `Kilo` and `Long` stand for
units, the range of uint64, 1024 and 2^63: the rules compare, and only need them to
be large enough to tell levels apart.  The numbers of the limit texts lie within a
signed integer, within it only without their unit, between signed and unsigned, and
beyond both.  Two or three samples make medians and percentiles of one, two and
three values; series of any length are left to the proofs.  Symmetry is used in the safety runs only.

Fairness.  `Fairness` of ContainerRuntime asks that an invocation that can take
a step takes one (the kernel schedules it) and that a process with a pending
SIGKILL dies.  Nothing makes a container exit by itself, so nothing promises that
run returns.  `FairSpec` of RunSupervisor asks the same of the goroutines and of
the runtime; fairness of `Main` includes both timers, which the Go runtime lets
expire when nothing else happens: after the runtime has been killed its
container may hold the pipe open in silence, and then only the 15 s timer ends
the wait.  Nobody has to be killed, and no container has to exit.

## Proofs

All theorems hold for all values of the constants that satisfy the named
assumptions (distinctness of `NoPid` and `NoId`, the known names of commands,
natural bounds, workloads made of natural levels):

| Module | Theorem | Says |
|---|---|---|
| `ContainerRuntimeProofs` | Invariance | `Spec => []IInv` |
| | TypeCorrectness, ChildOwnership, WriteOrder, TornRecords, Supervision, ErrorCleanup | safety properties of MCFaults and MCProgress |
| | LifecycleRefinement | `Spec => FollowsLifecycle` when rm is not issued and no write of a record fails |
| `KernelProofs` | EarlyStops | `Spec => []EarlyStopSawExit` |
| | SignalSafety | `Spec => []SignalMissesOnlyTheDead` |
| | Charge | `Spec => []RunningIsCharged` when rm is not issued |
| `NamespaceEntryProofs` | EntryKeepsLifecycle | `NsSpec => Spec`: the theorems above hold with exec |
| | ExecTypeCorrectness, ExecAim, ExecMisses, ExecTogether | the four properties of MCEntry |
| `RunSupervisorProofs` | TypeCorrectness, Sends, Order, Finality | the safety properties of MCRun |
| | Records | `Spec => FollowsRunRecord` |
| `SamplerCountersProofs` | SampleTypes | TypeOK of MCSampler: no difference wraps |
| | Survivors, RealFaults, Capacity | SampleHasTheLiving, RisesAreReal and CpuWithinCapacity of MCSampler |
| `ReportPipelineProofs` | ParsersAgree, Limited | what the two parsers make of texts that fit; `Spec => []LimitsAgree` |
| | ShareTogether, Together, Confident | how many samples back a CPU-bound verdict, and that one does; `Spec => []ConfidentTogether` |
| | ReportTypes, Summary | TypeOK and SummaryDescribes of MCSeries |
| | Counted, Faults, Fingerprint, Spikes | CountedIsReal, FaultsAgree, FingerprintAgrees and SpikesAreFew of MCSeries |
| `ReporterProofs` | SortedUnique | the value at a position of the ascending order is unique |
| | Nearest, PercentileCounts, StatsInOrder | what the 95th percentile, the extremes and the average say of any values |
| | FewSpikes, FaultAlert | for every series: spikes are fewer than half; faults that classify also alert |
| | MemoryVerdict, MemoryNearLimit | what a memory-bound verdict says of faults and of memory, for every series |
| `TotalsProofs` | (lemmas) | sums over finite sets: order, monotonicity, bounds, adding or leaving out elements |

**ContainerRuntime.**  None of the safety properties is inductive.  That the PID a stop
holds is the one clone returned for its container depends on what a record may hold (`RecordInv`: a
`running` record always holds the PID that clone returned), which depends on who
may still write it (`LocalInv`: what an invocation holds at each step), which
depends on a container having one run (`FreshInv`).  `OrderInv` says that until
run has written `running` nobody else holds more than a `created` record; it
gives WriteOrder, and with `StaleInv` (a last write into an unlinked file comes
after the removal) it keeps RunningIsSupervised inductive.  `ChargeInv` says that
only containers with a process charge anything, which makes the clean-up of a
failed run succeed.  `OwnsItsChild`, `TornIsTransient`, `RunningIsSupervised` and
`RunErrorCleansCgroup` are parts of `IInv` themselves.  Each part has a lemma,
with one step per action that can disturb it; the frame lemmas dispose of the
others.

For the refinement, `StandingInv` adds where the record stands at each write as
long as nobody removes containers: every complete write is then a step of
Lifecycle or writes what is there already.  Crashes are allowed in it; failing
writes are not (a skipped `running` write makes `created` go to `stopped`), and
neither is rm (a late write recreates what it removed).

**Kernel.**  `KernelProofs` first states once what a step may do to a PID
(`KernelChange`: which kinds follow which, and that the owner of a number only
changes through a free one), with one lemma per group of actions, and that the
init of a container is fixed once and for all (`InitStays`) and stays dead once
dead (`DeadStays`).  EarlyStops needs nothing else beyond `IInv`: what a poll
has seen stays true.  SignalSafety adds that the only process that can be the init
of a container is the one with the PID clone returned, so that a number in other
hands means that the init was reaped.  For Charge the inductive part is that without rm no
process is ever moved (`NothingToMove`), that a container which may still run has
its cgroup (`HasCgroup`), and that run has added its child before it writes
`running`, unless it could not (`RunCharges`).

**exec.**  `KernelInv` relates `/proc` to the container's processes: its members
exist only once it has its own `/proc`.  `ExecInv` says where each exec stands:
it aims at the init (`Aim`); what it entered first is its container unless that
died (`Landed`); and of the mount namespace it is in (`Rooted`), its PID is the
init's as long as the host's `/proc` is found there, and every later namespace
is of the same container, unless that was abandoned before it was set up.
`KernelChange` carries all three over the steps of ContainerRuntime, and
`InitStays` keeps the aim.

**RunSupervisor.**  `ChannelInv` says how often each goroutine may still send and
`PhaseInv` what main knows in each of its phases; together with TypeOK they are
inductive and give Sends, Finality and Records, where each step of Save, Load
and the sampler maps to one step of RunRecord or to none.  `OrderInv` relates
what was forwarded to the two read positions and the line being read.

**Sums.**  A theorem about sums over a set of any size needs an induction, and the
library's induction theorems take a predicate, which the provers cannot
instantiate.  `TotalsProofs` goes the other way round: `LeastNumber` and
`LeastSet` speak of sets, and say that a set of finite sets has a member no
smaller part of which is in it.  A fact about all finite sets is then proved by
looking at a least counterexample and taking one element out of it.  In this way
`Total`, a fold of the community modules, is shown to exist (`FoldExists`), not to
depend on the order of the elements (`FoldAnyOrder`), and to have the laws the
other modules cite.

**SamplerCounters.** For Capacity the invariant `Accounted` balances the account:
what the percentages given so far claim is no more than the tracker's last reading
of cpu.stat (`prevUsec`), that reading no more than its last look at the clock
(`prevTime`), and that time no more than the lateness of the first look plus what
the samples say has passed; a read that fails moves none of these. For Survivors,
`ReadSoFar` says that the sum covers what the processes read so far had when they
were listed, of which the history variable `sure` keeps nothing for those that
exit or cannot be read. For RealFaults it is not enough to bound the sum of what
was shown: a sample may fall because one process exits and the next rise because
of another. `Shown` therefore asks for a split by process: `seen[h]` are the
faults of `h` that some sample has shown and no failed read has lost since, never
more than `h` has taken, which add up, with `again`, to at least all rises, and to
no more than the last sample over the processes still alive; while a sample is
taken `cur` splits its sum likewise. The proof gives the split for each step.

**Report.**  `PipelineInv` has the types of the samples and that a printed report
was made from the series as it is, from some bottlenecks.  ShareTogether counts:
two subsets of a set that each have at least 60% (90%) of it have 20% (80%) in
common.  ReportTypes shows that the growth of memory is a difference of two levels
taken the right way round.

Counted needs `CountedInv`: while the fault reader does not fail and the cgroup is
there, the last sample shows the counter of the processes alive, so that the next
rise is at most the faults of the interval, however many of the processes exit in
it; once the cgroup is gone the samples are 0 and nothing rises.

Faults and Fingerprint rest on what a memory-bound verdict is made of
(MemoryVerdict): the faults (`Faulty`) or the average of memory.  In the first case
FaultAlert gives the alert: a negative interval has a rate that is not positive, so
the sum over all intervals is no more than that over the timed ones, and there are
no more timed ones than samples to average over.  In the second, levels that are
below the limit in every interval cannot average above it (MemoryNearLimit), and
the sum over the intervals that have a length is no more than that over all samples
(LevelsOnIntervals), which is what the fingerprint averages by the same divisor; for
CPU-bound runs likewise.

Limited rests on ParsersAgree: a number whose bytes fit neither saturates nor wraps
in either parser (`NoWrap`), and a text that the record takes for a limit has digits
and perhaps a unit only, which the runtime takes too.

Spikes rests on FewSpikes, which needs that the upper median has more than half of
the values up to it (`SortedPosition`: the least number with enough values up to it
is one of the values).  Summary puts together, for each metric of a report, that its
values are natural numbers (rates of timed intervals are), StatsInOrder (the average
and the 95th percentile each lie between the extremes; nothing orders these two) and
PercentileCounts, which has 95 of 100 values up to the percentile and fewer below it,
equal values included.  The latter rests on Nearest, the position for every number of
values: the boundary it is about needs series of 20 samples, more than the run has.

Every safety invariant and action property that a passing run checks, and both
refinements, are thereby theorems.  Only model-checked: the liveness properties
KillSettles, ExitIsRecorded, RunReturns and AnnouncementArrives, which need
ENABLED and are out of the prover's reach; the disagreements, which are violated;
and what `GenerateSuggestions` removes from the advice, which no property is
about.

## Not modelled

* Rendering, argument parsing, option handling, printing.
* The single mounts of `rootfs_setup`, host name, `/dev` and the loopback
  interface: a failure ends the child (InitExit), and nothing else reads them.
* Enabling controllers in `subtree_control`, and the rounding of `memory.max` to pages.
* The fallback of `cgroupIO` (the shape of the fault reader, for another file),
  the context-switch reader (likewise), `smaps_rollup` (recorded only), and the
  text of `/proc/<pid>/stat`.
* `store.List`, `Distance`, `IsSimilar`, the strace profiler and the per-process
  CPU tracker: no command uses them.
* Two containers that draw the same identifier; more processes than fit the 4 KB
  that `cgroup_destroy` reads; PIDs recycled within one sample.
* Workload scripts.
