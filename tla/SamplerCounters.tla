--------------------------- MODULE SamplerCounters ---------------------------
(***************************************************************************)
(* One sample after the other as StartSampler takes them from a cgroup     *)
(* (internal/profiler/cgroup.go), while the processes in it go on running. *)
(* The CPU percentage comes from two readings of cpu.stat, each followed   *)
(* by one of the clock; the first (newCgroupCPUTracker) is where usage     *)
(* and time are counted from here.  Page faults (and, by the same code,    *)
(* context switches) are summed over the processes in cgroup.procs:        *)
(* the list is read once, then one process after the other, and a process  *)
(* that has exited by then, or whose counters cannot be read, is passed    *)
(* over.                                                                   *)
(***************************************************************************)
EXTENDS Sequences, Totals

CONSTANTS
  Pids,         \* processes the container may have; no PID is used twice
  Fails,        \* what may fail to be read: cpu.stat, cgroup.procs, a process
  MaxFaults,    \* bound: faults taken
  MaxTicks,     \* bound: clock
  MaxSamples    \* bound: samples taken

ASSUME PidAssumption == IsFiniteSet(Pids)
ASSUME FailAssumption == Fails \subseteq {"cpu", "procs", "stat"}
ASSUME BoundAssumption == MaxFaults \in Nat /\ MaxTicks \in Nat /\ MaxSamples \in Nat

VARIABLES
  (* the container *)
  alive, born,    \* its processes, and those it ever had
  flt,            \* the faults each has taken
  usage, clock,   \* CPU time used, and time, on a host with one core
  up,             \* its cgroup can be read
  (* StartSampler *)
  pc,
  prevUsec, prevTime,   \* cgroupCPUTracker
  late,                 \* history: how late the tracker first read the clock
  usec,                 \* cpu.stat, before the clock is read
  du, dt,               \* the differences that make the CPU percentage
  todo, sum,            \* PIDs still to be read, and the faults of the others
  series,               \* [du, dt, flt] of each sample
  sure,                 \* history: what the listed had when listed, 0 once gone
  again                 \* history: faults of processes missed by failed reads

container == <<alive, born, flt, usage, clock, up>>
tracker   == <<prevUsec, prevTime, late, usec, du, dt>>
reading   == <<todo, sum, sure, again>>
vars == <<alive, born, flt, usage, clock, up, pc, prevUsec, prevTime, late,
          usec, du, dt, todo, sum, series, sure, again>>

\* TypeOK: the variables have their types; no difference of two readings of
\* cpu.stat or of the clock is negative, so none wraps (cgroup.go:144-145).
TypeOK ==
  /\ alive \subseteq born /\ born \subseteq Pids /\ up \in BOOLEAN
  /\ flt \in [Pids -> Nat] /\ sure \in [Pids -> Nat]
  /\ usage \in 0 .. clock /\ clock \in 0 .. MaxTicks
  /\ pc \in {"first", "cpu", "now", "list", "read"}
  /\ prevUsec \in Nat /\ prevTime \in Nat /\ late \in Nat /\ usec \in Nat
  /\ du \in Nat /\ dt \in Nat
  /\ todo \subseteq born /\ sum \in Nat /\ again \in Nat
  /\ series \in Seq([du : Nat, dt : Nat, flt : Nat])

Init ==
  /\ \E h \in Pids : alive = {h} /\ born = {h}
  /\ flt = [h \in Pids |-> 0] /\ sure = [h \in Pids |-> 0]
  /\ usage = 0 /\ clock = 0 /\ up = TRUE
  /\ pc = "first"
  /\ prevUsec = 0 /\ prevTime = 0 /\ late = 0 /\ usec = 0 /\ du = 0 /\ dt = 0
  /\ todo = {} /\ sum = 0 /\ again = 0 /\ series = <<>>

-----------------------------------------------------------------------------
(* The container *)

Fork ==
  /\ alive # {}
  /\ \E h \in Pids \ born : alive' = alive \cup {h} /\ born' = born \cup {h}
  /\ UNCHANGED <<flt, usage, clock, up, pc, tracker, reading, series>>

Fault(h) ==
  /\ h \in alive /\ Total(flt) < MaxFaults
  /\ flt' = [flt EXCEPT ![h] = @ + 1]
  /\ UNCHANGED <<alive, born, usage, clock, up, pc, tracker, reading, series>>

\* The counters of a process are lost with it.
Exit(h) ==
  /\ h \in alive
  /\ alive' = alive \ {h}
  /\ sure' = [sure EXCEPT ![h] = 0]
  /\ UNCHANGED <<born, flt, usage, clock, up, pc, tracker, todo, sum, again, series>>

\* A tick passes; the container may use it.
Tick ==
  /\ clock < MaxTicks
  /\ clock' = clock + 1
  /\ usage' \in {usage} \cup {usage + 1 : h \in alive}
  /\ UNCHANGED <<alive, born, flt, up, pc, tracker, reading, series>>

\* rm deletes the cgroup under the sampler.
Remove ==
  /\ up /\ up' = FALSE
  /\ UNCHANGED <<alive, born, flt, usage, clock, pc, tracker, reading, series>>

-----------------------------------------------------------------------------
(* newCgroupCPUTracker, after its reading of cpu.stat, and cpuPercent *)

FirstNow ==
  /\ pc = "first"
  /\ prevTime' = clock /\ late' = clock
  /\ pc' = "cpu"
  /\ UNCHANGED <<container, prevUsec, usec, du, dt, reading, series>>

CpuRead ==
  /\ pc = "cpu" /\ up /\ Len(series) < MaxSamples
  /\ usec' = usage
  /\ pc' = "now"
  /\ UNCHANGED <<container, prevUsec, prevTime, late, du, dt, reading, series>>

\* Fault: the clock is noted although nothing was read.
CpuReadFailMoves ==
  /\ pc = "cpu" /\ ("cpu" \in Fails \/ ~up) /\ Len(series) < MaxSamples
  /\ du' = 0 /\ dt' = 0 /\ prevTime' = clock
  /\ pc' = "list"
  /\ UNCHANGED <<container, prevUsec, late, usec, reading, series>>

\* Fault: what could not be read counts as a reading of 0.
CpuReadFailAsZero ==
  /\ pc = "cpu" /\ ("cpu" \in Fails \/ ~up) /\ Len(series) < MaxSamples
  /\ usec' = 0
  /\ pc' = "now"
  /\ UNCHANGED <<container, prevUsec, prevTime, late, du, dt, reading, series>>

\* The sample shows 0, and the tracker keeps the readings it has.
CpuReadFail ==
  /\ pc = "cpu" /\ ("cpu" \in Fails \/ ~up) /\ Len(series) < MaxSamples
  /\ du' = 0 /\ dt' = 0
  /\ pc' = "list"
  /\ UNCHANGED <<container, prevUsec, prevTime, late, usec, reading, series>>

\* time.Now, which may come late; with no time passed the percentage is 0.
CpuNow ==
  /\ pc = "now"
  /\ dt' = clock - prevTime
  /\ du' = IF dt' = 0 THEN 0 ELSE usec - prevUsec
  /\ prevUsec' = usec /\ prevTime' = clock
  /\ pc' = "list"
  /\ UNCHANGED <<container, late, usec, reading, series>>

-----------------------------------------------------------------------------
(* cgroupPageFaults *)

\* cgroupPIDs: none once the cgroup is gone, and none when a read of
\* cgroup.procs fails, so that the sample misses every process.
ReadList ==
  /\ \/ /\ todo' = IF up THEN alive ELSE {}
        /\ UNCHANGED again
     \/ /\ "procs" \in Fails /\ up
        /\ todo' = {}
        /\ again' = again + Total([h \in alive |-> flt[h]])
  /\ sure' = [h \in Pids |-> IF h \in todo' THEN flt[h] ELSE 0]

\* Fault: the sum of the sample before is not cleared.
ListNoReset ==
  /\ pc = "list"
  /\ ReadList
  /\ pc' = "read"
  /\ UNCHANGED <<container, tracker, sum, series>>

List ==
  /\ pc = "list"
  /\ ReadList
  /\ sum' = 0
  /\ pc' = "read"
  /\ UNCHANGED <<container, tracker, series>>

\* Fault: the first process that is gone ends the reading.
ReadNextStops ==
  /\ pc = "read"
  /\ \E h \in todo :
       /\ todo' = IF h \in alive THEN todo \ {h} ELSE {}
       /\ sum' = IF h \in alive THEN sum + flt[h] ELSE sum
  /\ UNCHANGED <<container, pc, tracker, sure, again, series>>

\* GetPageFaults: an error for a process that is gone, and for one that cannot
\* be read, which are passed over.
ReadNext ==
  /\ pc = "read"
  /\ \E h \in todo :
       /\ todo' = todo \ {h}
       /\ \/ /\ h \in alive /\ sum' = sum + flt[h]
             /\ UNCHANGED <<sure, again>>
          \/ /\ h \notin alive
             /\ UNCHANGED <<sum, sure, again>>
          \/ /\ "stat" \in Fails /\ h \in alive
             /\ sure' = [sure EXCEPT ![h] = 0]
             /\ again' = again + flt[h]
             /\ UNCHANGED sum
  /\ UNCHANGED <<container, pc, tracker, series>>

AppendSample ==
  /\ pc = "read" /\ todo = {}
  /\ series' = Append(series, [du |-> du, dt |-> dt, flt |-> sum])
  /\ pc' = "cpu"
  /\ UNCHANGED <<container, tracker, reading>>

-----------------------------------------------------------------------------

Container == Fork \/ Tick \/ Remove \/ \E h \in Pids : Fault(h) \/ Exit(h)
Sampler == FirstNow \/ CpuRead \/ CpuReadFail \/ CpuNow \/ List \/ ReadNext \/ AppendSample

Next == Container \/ Sampler

Spec == Init /\ [][Next]_vars

-----------------------------------------------------------------------------
(* Properties *)

\* A sample misses nothing of a process that lived while it was taken and could
\* be read: however many others exit between the list and the reading, or cannot
\* be read, the sum has at least what these had when they were listed
\* (cgroup.go:80-106).
SampleHasTheLiving ==
  pc = "read" /\ todo = {} => sum >= Total(sure)

\* What each sample adds for the analyzer: the first all it shows, the others
\* what they rise above the one before.
Rises(s) ==
  [i \in DOMAIN s |-> IF i = 1 THEN s[1].flt
                      ELSE IF s[i].flt > s[i - 1].flt THEN s[i].flt - s[i - 1].flt
                      ELSE 0]

\* Reading one process after the other never counts a fault twice, and a read
\* that fails, which makes the sum fall and rise again, lets no more be counted
\* again than the faults of the processes it missed: the first sample and the
\* rises after it, as the analyzer takes them, stay within the faults taken and
\* those, whoever was born or died in between (classifier.go:58-62).
RisesAreReal == Total(Rises(series)) <= Total(flt) + again

Used(s) == [i \in DOMAIN s |-> s[i].du]
Passed(s) == [i \in DOMAIN s |-> s[i].dt]

\* A single percentage may exceed 100, when the clock was read late the time
\* before, but the excess never adds up: over a run the percentages claim no more
\* than the host has, and what ran before the tracker first read the clock, reads
\* that failed included (cgroup.go:128-152).
CpuWithinCapacity == Total(Used(series)) <= late + Total(Passed(series))
=============================================================================
