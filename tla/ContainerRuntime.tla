------------------------- MODULE ContainerRuntime -------------------------
(***************************************************************************)
(* The lifecycle of containers as internal/runtime/container.c and         *)
(* internal/runtime/cgroup.c implement it.  Every invocation of            *)
(* cspip-runtime is an operating-system process of its own; the            *)
(* invocations share nothing but the files under the state directory, the  *)
(* cgroup tree and the kernel's table of processes, and no lock protects   *)
(* any of them.  One action is one system call (or a run of calls no other *)
(* process can observe in between); the invocations interleave freely with *)
(* each other, with the processes inside the containers and with unrelated *)
(* processes that reuse PIDs.                                              *)
(***************************************************************************)
EXTENDS Naturals, FiniteSets

CONSTANTS
  Ids,               \* container identifiers (container_generate_id)
  Pids,              \* process identifiers of the host
  Procs,             \* invocations of cspip-runtime alive at the same time
  NoPid, NoId,       \* "pid": 0, and no container
  Ops,               \* the commands that may be issued besides run
  Faults,            \* the system calls that may fail
  ParentTakesProcs,  \* may cspip/cgroup.procs hold processes itself?
  MaxPolls,          \* bound: polls of container_stop (100 in the code)
  MaxCrashes         \* bound: invocations killed half-way (Ctrl-C)

ASSUME IdAssumption == NoId \notin Ids
ASSUME PidAssumption == NoPid \notin Pids
ASSUME OpsAssumption == Ops \subseteq {"stop", "kill", "rm", "inspect"}
ASSUME FaultAssumption == 
  Faults \subseteq {"cgroup", "state", "flush", "clone", "add_pid"}
ASSUME FlagAssumption == ParentTakesProcs \in BOOLEAN
ASSUME BoundAssumption == MaxPolls \in Nat /\ MaxCrashes \in Nat

VARIABLES
  (* disk and cgroup tree *)
  dir,       \* containers whose state directory exists
  file,      \* what state.json holds
  cg,        \* containers whose cgroup directory exists
  (* the kernel's process table *)
  kind,      \* what a PID stands for
  ns,        \* the container whose PID namespace a process lives in
  cgOf,      \* the container whose cgroup a process is charged to
  killed,    \* processes with a pending SIGKILL
  (* the local state of each invocation *)
  pc, op, tgt,
  st,        \* its ContainerState (and the pid returned by clone)
  fd,        \* its FILE* on state.json; stale: the file was unlinked since
  polls,     \* iterations of container_stop's loop
  buf,       \* the PIDs cgroup_destroy read from cgroup.procs
  ret,       \* its exit status
  (* history *)
  used,      \* identifiers already given to a container
  initOf,    \* the PID clone returned for a container
  recorded,  \* the last complete record in a container's state.json
  hurt,      \* containers struck by a crash or by a failed write
  uncharged, \* containers whose cgroup_add_pid charged nothing
  crashes

diskVars   == <<dir, file, cg>>
kernelVars == <<kind, ns, cgOf, killed>>
localVars  == <<tgt, op, polls, buf>>
history    == <<used, initOf, recorded, hurt, uncharged, crashes>>
vars == <<dir, file, cg, kind, ns, cgOf, killed, pc, op, tgt, st, fd, polls,
          buf, ret, used, initOf, recorded, hurt, uncharged, crashes>>

Statuses == {"created", "running", "stopped"}
NoRecord == [status |-> "none", pid |-> NoPid]
Torn     == [status |-> "torn", pid |-> NoPid]
Created  == [status |-> "created", pid |-> NoPid]
Stopped  == [status |-> "stopped", pid |-> NoPid]
Removed  == [status |-> "removed", pid |-> NoPid]
Running(h) == [status |-> "running", pid |-> h]

WriteSteps == {"ws_mkdir", "ws_open", "ws_flush"}
ProgramSteps == WriteSteps \cup
  {"idle", "clone", "add_pid", "wait", "kill_pid", "poll", "cg_read",
   "cg_move", "unlink", "rmdir", "done"}

TypeOK ==
  /\ dir \subseteq Ids /\ cg \subseteq Ids
  /\ file \in [Ids -> [status : Statuses \cup {"none", "torn"},
                       pid : Pids \cup {NoPid}]]
  /\ kind \in [Pids -> {"free", "setup", "user", "zombie", "member", "foreign"}]
  /\ ns \in [Pids -> Ids \cup {NoId}]
  /\ cgOf \in [Pids -> Ids \cup {NoId}]
  /\ killed \subseteq Pids
  /\ pc \in [Procs -> ProgramSteps]
  /\ op \in [Procs -> {"none", "run", "stop", "kill", "rm", "inspect"}]
  /\ tgt \in [Procs -> Ids \cup {NoId}]
  /\ st \in [Procs -> [status : Statuses \cup {"none"}, pid : Pids \cup {NoPid}]]
  /\ fd \in [Procs -> {"none", "open", "stale"}]
  /\ polls \in [Procs -> 0 .. MaxPolls]
  /\ buf \in [Procs -> SUBSET Pids]
  /\ ret \in [Procs -> {"none", "ok", "error"}]
  /\ used \subseteq Ids /\ hurt \subseteq Ids /\ uncharged \subseteq Ids
  /\ initOf \in [Ids -> Pids \cup {NoPid}]
  /\ recorded \in [Ids -> [status : Statuses \cup {"none", "removed"},
                           pid : Pids \cup {NoPid}]]
  /\ crashes \in 0 .. MaxCrashes

Init ==
  /\ dir = {} /\ cg = {}
  /\ file = [id \in Ids |-> NoRecord]
  /\ kind = [h \in Pids |-> "free"]
  /\ ns = [h \in Pids |-> NoId]
  /\ cgOf = [h \in Pids |-> NoId]
  /\ killed = {}
  /\ pc = [p \in Procs |-> "idle"]
  /\ op = [p \in Procs |-> "none"]
  /\ tgt = [p \in Procs |-> NoId]
  /\ st = [p \in Procs |-> NoRecord]
  /\ fd = [p \in Procs |-> "none"]
  /\ polls = [p \in Procs |-> 0]
  /\ buf = [p \in Procs |-> {}]
  /\ ret = [p \in Procs |-> "none"]
  /\ used = {} /\ hurt = {} /\ uncharged = {}
  /\ initOf = [id \in Ids |-> NoPid]
  /\ recorded = [id \in Ids |-> NoRecord]
  /\ crashes = 0

-----------------------------------------------------------------------------
(* The kernel's view of processes *)

IsInit(h) == kind[h] \in {"setup", "user", "zombie"}

\* The container_run that owns a container still has it in hand.
RunOf(p, id) == op[p] = "run" /\ tgt[p] = id /\ pc[p] \notin {"idle", "done"}

\* The processes of S are gone from the table.
Release(S) ==
  /\ kind' = [h \in Pids |-> IF h \in S THEN "free" ELSE kind[h]]
  /\ ns' = [h \in Pids |-> IF h \in S THEN NoId ELSE ns[h]]
  /\ cgOf' = [h \in Pids |-> IF h \in S THEN NoId ELSE cgOf[h]]
  /\ killed' = killed \ S

-----------------------------------------------------------------------------
(* write_state: make the directory, truncate the file, write at fclose *)

\* Fault: container_run returns after its second write, as if detached.
PcAfterWriteDetached(p, res) ==
  IF op[p] # "run" \/ st[p].status # "created" THEN "done"
  ELSE IF res = "ok" THEN "clone" ELSE "cg_read"

\* container_run gives up when the first write fails; every other result of
\* write_state is ignored.
PcAfterWrite(p, res) ==
  IF op[p] # "run" THEN "done"
  ELSE IF st[p].status = "created" THEN IF res = "ok" THEN "clone" ELSE "cg_read"
  ELSE IF st[p].status = "running" THEN "wait" ELSE "done"

AfterWrite(p, res) ==
  LET next == PcAfterWrite(p, res) IN
  /\ pc' = [pc EXCEPT ![p] = next]
  /\ ret' = [ret EXCEPT ![p] = IF next = "done" THEN "ok"
                               ELSE IF next = "cg_read" THEN "error" ELSE @]

WsMkdir(p) ==
  /\ pc[p] = "ws_mkdir"
  /\ dir' = dir \cup {tgt[p]}
  /\ pc' = [pc EXCEPT ![p] = "ws_open"]
  /\ UNCHANGED <<file, cg, kernelVars, localVars, st, fd, ret, history>>

WsOpen(p) ==
  /\ pc[p] = "ws_open"
  /\ tgt[p] \in dir
  /\ file' = [file EXCEPT ![tgt[p]] = Torn]
  /\ fd' = [fd EXCEPT ![p] = "open"]
  /\ pc' = [pc EXCEPT ![p] = "ws_flush"]
  /\ UNCHANGED <<dir, cg, kernelVars, localVars, st, ret, history>>

\* The directory vanished between mkdir and fopen.
WsNoDir(p) ==
  /\ pc[p] = "ws_open"
  /\ tgt[p] \notin dir
  /\ AfterWrite(p, "error")
  /\ UNCHANGED <<diskVars, kernelVars, localVars, st, fd, history>>

\* mkdir or fopen fails.
WsFail(p) ==
  /\ "state" \in Faults
  /\ pc[p] \in {"ws_mkdir", "ws_open"}
  /\ AfterWrite(p, "error")
  /\ hurt' = hurt \cup {tgt[p]}
  /\ UNCHANGED <<diskVars, kernelVars, localVars, st, fd, used, initOf,
                 recorded, uncharged, crashes>>

\* Fault: the stream is never closed, so its buffer is never written.
WsFlushUnclosed(p) ==
  /\ pc[p] = "ws_flush"
  /\ fd' = [fd EXCEPT ![p] = "none"]
  /\ AfterWrite(p, "ok")
  /\ UNCHANGED <<diskVars, kernelVars, localVars, st, history>>

WsFlush(p) ==
  /\ pc[p] = "ws_flush"
  /\ file' = IF fd[p] = "open" THEN [file EXCEPT ![tgt[p]] = st[p]] ELSE file
  /\ recorded' = IF fd[p] = "open" THEN [recorded EXCEPT ![tgt[p]] = st[p]]
                 ELSE recorded
  /\ fd' = [fd EXCEPT ![p] = "none"]
  /\ AfterWrite(p, "ok")
  /\ UNCHANGED <<dir, cg, kernelVars, localVars, st, used, initOf, hurt, uncharged,
                 crashes>>

\* fprintf or fclose fails (a full disk); write_state returns 0 all the same.
WsFlushFail(p) ==
  /\ "flush" \in Faults
  /\ pc[p] = "ws_flush"
  /\ fd' = [fd EXCEPT ![p] = "none"]
  /\ AfterWrite(p, "ok")
  /\ hurt' = hurt \cup {tgt[p]}
  /\ UNCHANGED <<diskVars, kernelVars, localVars, st, used, initOf, recorded,
                 uncharged, crashes>>

-----------------------------------------------------------------------------
(* container_run *)

\* Fault: the fallback of container_generate_id repeats an identifier.
RunStartReusesId(p, id) ==
  /\ pc[p] = "idle"
  /\ used' = used \cup {id}
  /\ cg' = cg \cup {id}
  /\ pc' = [pc EXCEPT ![p] = "ws_mkdir"]
  /\ op' = [op EXCEPT ![p] = "run"]
  /\ tgt' = [tgt EXCEPT ![p] = id]
  /\ st' = [st EXCEPT ![p] = Created]
  /\ UNCHANGED <<dir, file, kernelVars, fd, polls, buf, ret, initOf, recorded,
                 hurt, uncharged, crashes>>

\* A fresh identifier, cgroup_create and the limits; no other invocation can
\* name the container before its state directory exists.
RunStart(p, id) ==
  /\ pc[p] = "idle"
  /\ id \notin used
  /\ used' = used \cup {id}
  /\ cg' = cg \cup {id}
  /\ pc' = [pc EXCEPT ![p] = "ws_mkdir"]
  /\ op' = [op EXCEPT ![p] = "run"]
  /\ tgt' = [tgt EXCEPT ![p] = id]
  /\ st' = [st EXCEPT ![p] = Created]
  /\ UNCHANGED <<dir, file, kernelVars, fd, polls, buf, ret, initOf, recorded,
                 hurt, uncharged, crashes>>

\* cgroup_create fails: nothing was made yet.
RunRefused(p) ==
  /\ "cgroup" \in Faults
  /\ pc[p] = "idle"
  /\ pc' = [pc EXCEPT ![p] = "done"]
  /\ op' = [op EXCEPT ![p] = "run"]
  /\ ret' = [ret EXCEPT ![p] = "error"]
  /\ UNCHANGED <<diskVars, kernelVars, tgt, st, fd, polls, buf, history>>

RunClone(p) ==
  /\ pc[p] = "clone"
  /\ \E h \in Pids :
       /\ kind[h] = "free"
       /\ kind' = [kind EXCEPT ![h] = "setup"]
       /\ ns' = [ns EXCEPT ![h] = tgt[p]]
       /\ initOf' = [initOf EXCEPT ![tgt[p]] = h]
       /\ st' = [st EXCEPT ![p] = [status |-> "created", pid |-> h]]
  /\ pc' = [pc EXCEPT ![p] = "add_pid"]
  /\ UNCHANGED <<diskVars, cgOf, killed, localVars, fd, ret, used, recorded,
                 hurt, uncharged, crashes>>

\* Fault: the error path forgets cgroup_destroy.
RunCloneFailKeepsCgroup(p) ==
  /\ "clone" \in Faults
  /\ pc[p] = "clone"
  /\ pc' = [pc EXCEPT ![p] = "done"]
  /\ ret' = [ret EXCEPT ![p] = "error"]
  /\ UNCHANGED <<diskVars, kernelVars, localVars, st, fd, history>>

\* malloc of the stack or clone fails; state.json stays at "created".
RunCloneFail(p) ==
  /\ "clone" \in Faults
  /\ pc[p] = "clone"
  /\ pc' = [pc EXCEPT ![p] = "cg_read"]
  /\ ret' = [ret EXCEPT ![p] = "error"]
  /\ UNCHANGED <<diskVars, kernelVars, localVars, st, fd, history>>

\* Fault: the child is never added to its cgroup.
RunAddPidForgotten(p) ==
  /\ pc[p] = "add_pid"
  /\ st' = [st EXCEPT ![p] = Running(@.pid)]
  /\ pc' = [pc EXCEPT ![p] = "ws_mkdir"]
  /\ UNCHANGED <<diskVars, kernelVars, localVars, fd, ret, history>>

\* The kernel does not charge the child: the cgroup is gone, or the child has
\* already exited.
NotChargeable(p) == tgt[p] \notin cg \/ kind[st[p].pid] = "zombie"

\* cgroup_add_pid, and "running".  When cgroup.procs cannot be opened or refuses
\* the PID, for whatever reason, container_run warns and goes on all the same.
RunAddPid(p) ==
  /\ pc[p] = "add_pid"
  /\ \/ /\ ~NotChargeable(p)
        /\ cgOf' = [cgOf EXCEPT ![st[p].pid] = tgt[p]]
        /\ UNCHANGED uncharged
     \/ /\ "add_pid" \in Faults \/ NotChargeable(p)
        /\ uncharged' = uncharged \cup {tgt[p]}
        /\ UNCHANGED cgOf
  /\ st' = [st EXCEPT ![p] = Running(@.pid)]
  /\ pc' = [pc EXCEPT ![p] = "ws_mkdir"]
  /\ UNCHANGED <<diskVars, kind, ns, killed, localVars, fd, ret, used, initOf,
                 recorded, hurt, crashes>>

\* Fault: the record is written again without being set to "stopped" first.
RunWaitKeepsRecord(p) ==
  /\ pc[p] = "wait"
  /\ kind[st[p].pid] = "zombie"
  /\ Release({st[p].pid})
  /\ pc' = [pc EXCEPT ![p] = "ws_mkdir"]
  /\ UNCHANGED <<diskVars, localVars, st, fd, ret, history>>

\* waitpid returns and reaps the init: its PID may be reused from here on.
RunWait(p) ==
  /\ pc[p] = "wait"
  /\ kind[st[p].pid] = "zombie"
  /\ Release({st[p].pid})
  /\ st' = [st EXCEPT ![p] = Stopped]
  /\ pc' = [pc EXCEPT ![p] = "ws_mkdir"]
  /\ UNCHANGED <<diskVars, localVars, fd, ret, history>>

-----------------------------------------------------------------------------
(* The commands on an existing container *)

\* read_state: an empty or truncated file parses as a record of zeroes whose
\* status defaults to "created".
ParsedState(id) == IF file[id] = Torn THEN Created ELSE file[id]

Begin(p, o, id, next, result) ==
  /\ pc[p] = "idle"
  /\ o \in Ops
  /\ pc' = [pc EXCEPT ![p] = next]
  /\ op' = [op EXCEPT ![p] = o]
  /\ tgt' = [tgt EXCEPT ![p] = id]
  /\ ret' = [ret EXCEPT ![p] = result]
  /\ UNCHANGED <<diskVars, kernelVars, fd, polls, buf, history>>

\* stop and kill want a running container, rm one that is not running.
Refuses(o, status) ==
  \/ o \in {"stop", "kill"} /\ status # "running"
  \/ o = "rm" /\ status = "running"

CmdRejected(p, o, id) ==
  /\ \/ file[id] = NoRecord
     \/ Refuses(o, ParsedState(id).status)
  /\ Begin(p, o, id, "done", "error")
  /\ UNCHANGED st

Inspect(p, id) ==
  /\ file[id] # NoRecord
  /\ Begin(p, "inspect", id, "done", "ok")
  /\ st' = [st EXCEPT ![p] = ParsedState(id)]

SignalStart(p, o, id) ==
  /\ o \in {"stop", "kill"}
  /\ file[id] # NoRecord
  /\ ~Refuses(o, ParsedState(id).status)
  /\ Begin(p, o, id, "kill_pid", "none")
  /\ st' = [st EXCEPT ![p] = ParsedState(id)]

RemoveStart(p, id) ==
  /\ file[id] # NoRecord
  /\ ~Refuses("rm", ParsedState(id).status)
  /\ Begin(p, "rm", id, "cg_read", "none")
  /\ st' = [st EXCEPT ![p] = ParsedState(id)]

-----------------------------------------------------------------------------
(* container_stop and container_kill *)

\* kill() finds no such process.
SignalGone(p) ==
  /\ pc[p] = "kill_pid"
  /\ kind[st[p].pid] = "free"
  /\ pc' = [pc EXCEPT ![p] = "done"]
  /\ ret' = [ret EXCEPT ![p] = "error"]
  /\ UNCHANGED <<diskVars, kernelVars, localVars, st, fd, history>>

\* Fault: a stop that has sent its signal does not wait.
SendTermNoWait(p) ==
  /\ pc[p] = "kill_pid" /\ op[p] = "stop"
  /\ kind[st[p].pid] # "free"
  /\ st' = [st EXCEPT ![p] = Stopped]
  /\ pc' = [pc EXCEPT ![p] = "ws_mkdir"]
  /\ UNCHANGED <<diskVars, kernelVars, localVars, fd, ret, history>>

\* Fault: the record is reset before the loop that still needs its pid.
SendTermResetsFirst(p) ==
  /\ pc[p] = "kill_pid" /\ op[p] = "stop"
  /\ kind[st[p].pid] # "free"
  /\ st' = [st EXCEPT ![p] = Stopped]
  /\ pc' = [pc EXCEPT ![p] = "poll"]
  /\ UNCHANGED <<diskVars, kernelVars, localVars, fd, ret, history>>

\* SIGTERM: the init of a PID namespace may ignore it, so it has no effect of
\* its own here (any process may exit at any time).
SendTerm(p) ==
  /\ pc[p] = "kill_pid" /\ op[p] = "stop"
  /\ kind[st[p].pid] # "free"
  /\ pc' = [pc EXCEPT ![p] = "poll"]
  /\ UNCHANGED <<diskVars, kernelVars, localVars, st, fd, ret, history>>

SendKill(p) ==
  /\ pc[p] = "kill_pid" /\ op[p] = "kill"
  /\ kind[st[p].pid] # "free"
  /\ killed' = IF kind[st[p].pid] = "zombie" THEN killed
               ELSE killed \cup {st[p].pid}
  /\ st' = [st EXCEPT ![p] = Stopped]
  /\ pc' = [pc EXCEPT ![p] = "ws_mkdir"]
  /\ UNCHANGED <<diskVars, kind, ns, cgOf, localVars, fd, ret, history>>

\* Fault: the loop has no bound.
PollAgainUnbounded(p) ==
  /\ pc[p] = "poll"
  /\ kind[st[p].pid] # "free"
  /\ polls' = [polls EXCEPT ![p] = @ + 1]
  /\ UNCHANGED <<diskVars, kernelVars, pc, op, tgt, buf, st, fd, ret, history>>

\* kill(pid, 0) still finds the process, zombie or not.
PollAgain(p) ==
  /\ pc[p] = "poll"
  /\ kind[st[p].pid] # "free"
  /\ polls[p] < MaxPolls
  /\ polls' = [polls EXCEPT ![p] = @ + 1]
  /\ UNCHANGED <<diskVars, kernelVars, pc, op, tgt, buf, st, fd, ret, history>>

\* The process is gone, or the polls are used up: "stopped" in either case.
PollEnd(p) ==
  /\ pc[p] = "poll"
  /\ kind[st[p].pid] = "free" \/ polls[p] = MaxPolls
  /\ st' = [st EXCEPT ![p] = Stopped]
  /\ pc' = [pc EXCEPT ![p] = "ws_mkdir"]
  /\ UNCHANGED <<diskVars, kernelVars, localVars, fd, ret, history>>

-----------------------------------------------------------------------------
(* cgroup_destroy, and container_remove after it *)

CgRead(p) ==
  /\ pc[p] = "cg_read"
  /\ buf' = [buf EXCEPT ![p] = {h \in Pids : cgOf[h] = tgt[p]}]
  /\ pc' = [pc EXCEPT ![p] = "cg_move"]
  /\ UNCHANGED <<diskVars, kernelVars, op, tgt, polls, st, fd, ret, history>>

\* Write one PID to the parent's cgroup.procs.  The kernel refuses when the
\* parent hands controllers down (no internal processes), and the result is
\* ignored.  NoId stands for every cgroup that is not a container's.
CgMove(p) ==
  /\ pc[p] = "cg_move"
  /\ \E h \in buf[p] :
       /\ buf' = [buf EXCEPT ![p] = @ \ {h}]
       /\ cgOf' = IF ParentTakesProcs THEN [cgOf EXCEPT ![h] = NoId] ELSE cgOf
  /\ UNCHANGED <<diskVars, kind, ns, killed, pc, op, tgt, polls, st, fd, ret,
                 history>>

\* rmdir of the cgroup fails while a process is charged to it; neither caller
\* looks at the result.
CgRmdir(p) ==
  /\ pc[p] = "cg_move" /\ buf[p] = {}
  /\ cg' = IF \E h \in Pids : cgOf[h] = tgt[p] THEN cg ELSE cg \ {tgt[p]}
  /\ pc' = [pc EXCEPT ![p] = IF op[p] = "rm" THEN "unlink" ELSE "done"]
  /\ UNCHANGED <<dir, file, kernelVars, localVars, st, fd, ret, history>>

\* Writers that hold the file open keep an unlinked inode.
RmUnlink(p) ==
  /\ pc[p] = "unlink"
  /\ file' = [file EXCEPT ![tgt[p]] = NoRecord]
  /\ recorded' = IF file[tgt[p]] = NoRecord THEN recorded
                 ELSE [recorded EXCEPT ![tgt[p]] = Removed]
  /\ fd' = [q \in Procs |-> IF tgt[q] = tgt[p] /\ fd[q] = "open"
                            THEN "stale" ELSE fd[q]]
  /\ pc' = [pc EXCEPT ![p] = "rmdir"]
  /\ UNCHANGED <<dir, cg, kernelVars, localVars, st, ret, used, initOf, hurt,
                 uncharged, crashes>>

RmRmdir(p) ==
  /\ pc[p] = "rmdir"
  /\ LET empty == tgt[p] \in dir /\ file[tgt[p]] = NoRecord IN
     /\ dir' = IF empty THEN dir \ {tgt[p]} ELSE dir
     /\ ret' = [ret EXCEPT ![p] = IF empty THEN "ok" ELSE "error"]
  /\ pc' = [pc EXCEPT ![p] = "done"]
  /\ UNCHANGED <<file, cg, kernelVars, localVars, st, fd, history>>

-----------------------------------------------------------------------------
(* The end of an invocation *)

Forget(p) ==
  /\ pc' = [pc EXCEPT ![p] = "idle"]
  /\ op' = [op EXCEPT ![p] = "none"]
  /\ tgt' = [tgt EXCEPT ![p] = NoId]
  /\ st' = [st EXCEPT ![p] = NoRecord]
  /\ fd' = [fd EXCEPT ![p] = "none"]
  /\ polls' = [polls EXCEPT ![p] = 0]
  /\ buf' = [buf EXCEPT ![p] = {}]
  /\ ret' = [ret EXCEPT ![p] = "none"]

Return(p) ==
  /\ pc[p] = "done"
  /\ Forget(p)
  /\ UNCHANGED <<diskVars, kernelVars, history>>

\* The invocation is killed; what it had buffered is never written.
Crash(p) ==
  /\ pc[p] \notin {"idle", "done"}
  /\ crashes < MaxCrashes
  /\ crashes' = crashes + 1
  /\ hurt' = hurt \cup {tgt[p]}
  /\ Forget(p)
  /\ UNCHANGED <<diskVars, kernelVars, used, initOf, recorded, uncharged>>

-----------------------------------------------------------------------------
(* The processes of the containers and of the host *)

\* container_child reached execv.
ChildExec(h) ==
  /\ kind[h] = "setup"
  /\ kind' = [kind EXCEPT ![h] = "user"]
  /\ UNCHANGED <<diskVars, ns, cgOf, killed, pc, localVars, st, fd, ret, history>>

\* The init exits (a failed setup, its own end, or a signal): the kernel kills
\* its whole PID namespace, and the init is a zombie until it is waited for.
InitExit(h) ==
  /\ kind[h] \in {"setup", "user"}
  /\ LET gone == {x \in Pids : kind[x] = "member" /\ ns[x] = ns[h]} IN
     /\ kind' = [x \in Pids |-> IF x = h THEN "zombie"
                                ELSE IF x \in gone THEN "free" ELSE kind[x]]
     /\ ns' = [x \in Pids |-> IF x \in gone THEN NoId ELSE ns[x]]
     /\ cgOf' = [x \in Pids |-> IF x = h \/ x \in gone THEN NoId ELSE cgOf[x]]
     /\ killed' = killed \ (gone \cup {h})
  /\ UNCHANGED <<diskVars, pc, localVars, st, fd, ret, history>>

\* A process of a container forks: same namespaces, same cgroup.
Fork(h) ==
  /\ kind[h] \in {"user", "member"}
  /\ \E x \in Pids :
       /\ kind[x] = "free"
       /\ kind' = [kind EXCEPT ![x] = "member"]
       /\ ns' = [ns EXCEPT ![x] = ns[h]]
       /\ cgOf' = [cgOf EXCEPT ![x] = cgOf[h]]
  /\ UNCHANGED <<diskVars, killed, pc, localVars, st, fd, ret, history>>

\* A child of the init, or a process of the host, exits and is reaped.
OtherExit(h) ==
  /\ kind[h] \in {"member", "foreign"}
  /\ Release({h})
  /\ UNCHANGED <<diskVars, pc, localVars, st, fd, ret, history>>

\* The host's init reaps a container whose container_run crashed.
HostReap(h) ==
  /\ kind[h] = "zombie"
  /\ ~\E p \in Procs : RunOf(p, ns[h])
  /\ Release({h})
  /\ UNCHANGED <<diskVars, pc, localVars, st, fd, ret, history>>

\* An unrelated process gets a free PID.
ForeignSpawn(h) ==
  /\ kind[h] = "free"
  /\ kind' = [kind EXCEPT ![h] = "foreign"]
  /\ UNCHANGED <<diskVars, ns, cgOf, killed, pc, localVars, st, fd, ret, history>>

-----------------------------------------------------------------------------

\* A step of a command that was issued.
CmdStep(p) ==
  \/ WsMkdir(p) \/ WsOpen(p) \/ WsNoDir(p) \/ WsFail(p)
  \/ WsFlush(p) \/ WsFlushFail(p)
  \/ RunClone(p) \/ RunCloneFail(p) \/ RunAddPid(p) \/ RunWait(p)
  \/ SignalGone(p) \/ SendTerm(p) \/ SendKill(p) \/ PollAgain(p) \/ PollEnd(p)
  \/ CgRead(p) \/ CgMove(p) \/ CgRmdir(p) \/ RmUnlink(p) \/ RmRmdir(p)
  \/ Return(p)

\* A command is issued.
CmdStart(p) ==
  \/ RunRefused(p)
  \/ \E id \in Ids :
       \/ RunStart(p, id)
       \/ Inspect(p, id)
       \/ RemoveStart(p, id)
       \/ \E o \in Ops : CmdRejected(p, o, id) \/ SignalStart(p, o, id)

Environment(h) ==
  \/ ChildExec(h) \/ InitExit(h) \/ Fork(h) \/ OtherExit(h) \/ HostReap(h)
  \/ ForeignSpawn(h)

Next ==
  \/ \E p \in Procs : CmdStart(p) \/ CmdStep(p) \/ Crash(p)
  \/ \E h \in Pids : Environment(h)

Spec == Init /\ [][Next]_vars

\* A scheduled process runs, and a process with a pending SIGKILL dies.
Fairness ==
  /\ \A p \in Procs : WF_vars(CmdStep(p))
  /\ \A h \in Pids : WF_vars(h \in killed /\ (InitExit(h) \/ OtherExit(h)))

FairSpec == Spec /\ Fairness
=============================================================================
