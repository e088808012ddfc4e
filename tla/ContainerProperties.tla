------------------------ MODULE ContainerProperties ------------------------
(***************************************************************************)
(* The correctness properties of ContainerRuntime: what holds whatever is  *)
(* interleaved, crashes or fails; what holds while nobody removes          *)
(* containers; what eventually happens; and what the comments of the       *)
(* source promise and the code does not keep.                              *)
(***************************************************************************)
EXTENDS ContainerRuntime

\* The init of a container still executes.
Live(id) == /\ initOf[id] \in Pids
            /\ kind[initOf[id]] \in {"setup", "user"}
            /\ ns[initOf[id]] = id

-----------------------------------------------------------------------------
(* What holds, whatever fails and whatever is interleaved *)

\* A container still has its init, running or waiting to be reaped.
HasInit(id) == \E h \in Pids : IsInit(h) /\ ns[h] = id

\* stop and kill signal a PID they read from the record, which may by then name
\* any process of the host (container.c:427-435, 457): they miss the init of the
\* container they name only when it has exited and has been reaped.  And they
\* never signal pid 0, the caller's own process group, which an empty record
\* would yield.
SignalMissesOnlyTheDead ==
  \A p \in Procs : pc[p] \in {"kill_pid", "poll"} =>
    /\ st[p].pid \in Pids
    /\ HasInit(tgt[p]) => IsInit(st[p].pid) /\ ns[st[p].pid] = tgt[p]

\* A container_run between clone and the return of waitpid.
Owner(p) ==
  op[p] = "run" /\ (pc[p] \in {"add_pid", "wait"} \/ st[p].status = "running")

\* The PID container_run adds to the cgroup and waits for cannot have been
\* recycled: until waitpid returns it names the container's own init.
OwnsItsChild ==
  \A p \in Procs : Owner(p) => IsInit(st[p].pid) /\ ns[st[p].pid] = tgt[p]

\* container_run's two late writes cannot be reordered by a stop or a kill: no
\* "running" record is still to be written once somebody recorded, or is about
\* to record, "stopped".
NoLateRunningWrite ==
  \A p, q \in Procs :
    /\ op[p] = "run" /\ pc[p] \in WriteSteps \cup {"clone", "add_pid"}
    /\ st[p].status \in {"created", "running"}
    => /\ recorded[tgt[p]].status # "stopped"
       /\ q # p /\ tgt[q] = tgt[p] => st[q].status # "stopped"

\* state.json is only ever found empty while a writer has it open, unless a
\* writer of that container crashed or could not write.
TornIsTransient ==
  \A id \in Ids : file[id] = Torn =>
    \/ id \in hurt
    \/ \E p \in Procs : fd[p] = "open" /\ tgt[p] = id

\* A container_run that waits for its container, or is about to record its end.
Supervises(p, id) ==
  RunOf(p, id) /\ (pc[p] = "wait" \/ st[p].status = "stopped")

\* A container recorded as running has a container_run that will record its
\* end, unless it was struck by a crash or a failed write.
RunningIsSupervised ==
  \A id \in Ids : recorded[id].status = "running" =>
    id \in hurt \/ \E p \in Procs : Supervises(p, id)

\* A container_run that fails leaves no cgroup behind, even when rm works on
\* the same container meanwhile.
RunErrorCleansCgroup ==
  \A p \in Procs : op[p] = "run" /\ pc[p] = "done" /\ ret[p] = "error" =>
    tgt[p] \notin cg

\* A stop that ended before its bound found the container's init gone, although
\* the PID it polls may since have named other processes, and although rm may
\* have removed the container meanwhile (container.c:427-437).
EarlyStopSawExit ==
  \A p \in Procs :
    op[p] = "stop" /\ pc[p] = "done" /\ ret[p] = "ok" /\ polls[p] < MaxPolls
      => ~Live(tgt[p])

-----------------------------------------------------------------------------
(* What holds as long as nobody removes containers (Ops without "rm") *)

\* The init of a container recorded as running is charged to its cgroup, unless
\* its cgroup_add_pid failed, which container_run only warns of.
RunningIsCharged ==
  \A id \in Ids : recorded[id].status = "running" /\ Live(id) =>
    id \in uncharged \/ (id \in cg /\ cgOf[initOf[id]] = id)

\* The records of a container follow the life cycle that container.h draws.
Life == INSTANCE Lifecycle WITH record <- recorded
FollowsLifecycle == Life!Spec

-----------------------------------------------------------------------------
(* Progress, when nothing fails and nobody crashes *)

\* Once kill has sent its signal, the container ends up recorded as not
\* running, for good, however the writes of kill, run and rm interleave.
KillSettles ==
  \A id \in Ids :
    (\E p \in Procs : op[p] = "kill" /\ tgt[p] = id /\ pc[p] \in WriteSteps)
      ~> [](file[id].status # "running")

\* The exit of a container's init is recorded, whoever else touches the record.
ExitIsRecorded ==
  \A id \in Ids :
    (initOf[id] \in Pids /\ \E h \in Pids : kind[h] = "zombie" /\ ns[h] = id)
      ~> (recorded[id].status \in {"stopped", "removed"})

-----------------------------------------------------------------------------
(* What the comments of the source say, and the code does not keep *)

\* container.h:60: remove refuses a running container.
RemoveSparesLive ==
  \A p \in Procs : op[p] = "rm" /\ pc[p] = "unlink" =>
    ~(recorded[tgt[p]].status = "running" /\ Live(tgt[p]))

\* container.c:271: limits are enforced from the first instruction.
UserCodeIsCharged ==
  \A h \in Pids : kind[h] \in {"user", "member"} => cgOf[h] = ns[h]
=============================================================================
