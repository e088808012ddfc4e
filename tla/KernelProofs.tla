--------------------------- MODULE KernelProofs ---------------------------
(***************************************************************************)
(* Proofs about the life of a container's init in the kernel's process     *)
(* table.  KernelChange sums up what a step does to one PID; from it       *)
(* follows that an init that has gone never comes back, whoever gets its   *)
(* PID, which is what stop relies on, that every init is where its         *)
(* container was cloned, which is what signals rely on, and that a running *)
(* container stays charged to its cgroup.                                  *)
(***************************************************************************)
EXTENDS ContainerRuntimeProofs

\* What a step of the lifecycle does to a PID.
KernelChange(h) ==
  \/ kind'[h] = kind[h] /\ ns'[h] = ns[h]
  \/ kind'[h] = "free" /\ ns'[h] = NoId
  \/ kind[h] = "free" /\ kind'[h] = "foreign" /\ ns'[h] = ns[h]
  \/ /\ kind[h] = "free" /\ kind'[h] = "setup"
     /\ ns'[h] \in Ids /\ initOf[ns'[h]] = NoPid /\ initOf'[ns'[h]] = h
  \/ /\ kind[h] = "free" /\ kind'[h] = "member"
     /\ \E g \in Pids : kind[g] \in {"user", "member"} /\ ns'[h] = ns[g]
  \/ kind[h] = "setup" /\ kind'[h] = "user" /\ ns'[h] = ns[h]
  \/ kind[h] \in {"setup", "user"} /\ kind'[h] = "zombie" /\ ns'[h] = ns[h]

\* The init a container was cloned with stays its init.
InitStays == \A id \in Ids : initOf[id] \in Pids => initOf'[id] = initOf[id]

-----------------------------------------------------------------------------
(* What a step does to the process table *)

LEMMA RuntimeKernel ==
  ASSUME IInv, NEW p \in Procs, CmdStart(p) \/ CmdStep(p) \/ Crash(p)
  PROVE  InitStays /\ \A h \in Pids : KernelChange(h)
<1> USE DEF IInv, TypeOK
<1>1. CASE RunClone(p)
  <2>1. PICK h \in Pids : /\ kind[h] = "free"
                          /\ kind' = [kind EXCEPT ![h] = "setup"]
                          /\ ns' = [ns EXCEPT ![h] = tgt[p]]
                          /\ initOf' = [initOf EXCEPT ![tgt[p]] = h]
    BY <1>1 DEF RunClone
  <2>2. tgt[p] \in Ids /\ initOf[tgt[p]] = NoPid
    BY <1>1 DEF RunClone, LocalInv, Local, RecordInv, RunOf
  <2>3. InitStays
    BY <2>1, <2>2, PidAssumption DEF InitStays
  <2>4. ASSUME NEW x \in Pids PROVE KernelChange(x)
    BY <2>1, <2>2 DEF KernelChange
  <2> QED
    BY <2>3, <2>4
<1>2. CASE RunWait(p)
  <2>1. InitStays
    BY <1>2 DEF RunWait, InitStays, history
  <2>2. ASSUME NEW x \in Pids PROVE KernelChange(x)
    BY <1>2 DEF RunWait, Release, KernelChange
  <2> QED
    BY <2>1, <2>2
<1>3. CASE ~RunClone(p) /\ ~RunWait(p)
  <2>1. UNCHANGED <<kind, ns, initOf>>
    <3>1. CASE CmdStart(p)
      BY <3>1 DEF CmdStart, RunRefused, RunStart, Inspect, RemoveStart, CmdRejected,
         SignalStart, Begin, kernelVars, history
    <3>2. CASE Crash(p)
      BY <3>2 DEF Crash, kernelVars
    <3>3. CASE CmdStep(p)
      BY <3>3, <1>3 DEF CmdStep, WsMkdir, WsOpen, WsNoDir, WsFail, WsFlush, WsFlushFail,
         RunCloneFail, RunAddPid, SignalGone, SendTerm, SendKill, PollAgain, PollEnd,
         CgRead, CgMove, CgRmdir, RmUnlink, RmRmdir, Return, kernelVars, history
    <3> QED
      BY <3>1, <3>2, <3>3
  <2> QED
    BY <2>1 DEF InitStays, KernelChange
<1> QED
  BY <1>1, <1>2, <1>3

LEMMA EnvironmentKernel ==
  ASSUME IInv, NEW h \in Pids, Environment(h)
  PROVE  InitStays /\ \A x \in Pids : KernelChange(x)
<1> USE DEF IInv, TypeOK
<1>1. InitStays
  BY EnvironmentFrame DEF InitStays, history
<1>2. ASSUME NEW x \in Pids PROVE KernelChange(x)
  <2>1. CASE ChildExec(h)
    BY <2>1 DEF ChildExec, KernelChange
  <2>2. CASE InitExit(h)
    BY <2>2 DEF InitExit, KernelChange
  <2>3. CASE Fork(h)
    BY <2>3 DEF Fork, KernelChange
  <2>4. CASE OtherExit(h)
    BY <2>4 DEF OtherExit, Release, KernelChange
  <2>5. CASE HostReap(h)
    BY <2>5 DEF HostReap, Release, KernelChange
  <2>6. CASE ForeignSpawn(h)
    BY <2>6 DEF ForeignSpawn, KernelChange
  <2> QED
    BY <2>1, <2>2, <2>3, <2>4, <2>5, <2>6 DEF Environment
<1> QED
  BY <1>1, <1>2

\* Every step of the lifecycle changes each PID in one of these ways.
LEMMA LifecycleKernel ==
  ASSUME IInv, Next
  PROVE  InitStays /\ \A h \in Pids : KernelChange(h)
BY RuntimeKernel, EnvironmentKernel DEF Next

\* A container whose init has gone stays without one, whoever gets the PID.
LEMMA DeadStays ==
  ASSUME InitStays, \A h \in Pids : KernelChange(h),
         NEW id \in Ids, initOf[id] \in Pids, ~Live(id)
  PROVE  ~Live(id)'
<1> DEFINE h == initOf[id]
<1>1. h \in Pids /\ initOf'[id] = h /\ KernelChange(h)
  BY DEF InitStays
<1>2. ~(kind[h] \in {"setup", "user"} /\ ns[h] = id)
  BY DEF Live
<1>3. ~(kind'[h] \in {"setup", "user"} /\ ns'[h] = id)
  BY <1>1, <1>2, PidAssumption DEF KernelChange
<1> QED
  BY <1>1, <1>3 DEF Live

-----------------------------------------------------------------------------
(* stop *)

\* A stop that is about to record the end, or has, saw the init gone: its PID
\* was free, or it has used up its polls.
SawExit(p) ==
  op[p] = "stop" /\ (pc[p] \in WriteSteps \/ (pc[p] = "done" /\ ret[p] = "ok"))
    /\ polls[p] < MaxPolls
  => tgt[p] \in Ids /\ initOf[tgt[p]] \in Pids /\ ~Live(tgt[p])

StopInv == \A p \in Procs : SawExit(p)

\* Every step of the lifecycle leaves a dead container dead.
LEMMA DeadThroughout ==
  ASSUME IInv, Next, NEW id \in Ids, initOf[id] \in Pids, ~Live(id)
  PROVE  initOf'[id] \in Pids /\ ~Live(id)'
BY LifecycleKernel, DeadStays DEF InitStays

\* An invocation that keeps what SawExit tells apart.
LEMMA SawExitStays ==
  ASSUME IInv, Next, NEW p \in Procs, SawExit(p),
         UNCHANGED <<op[p], tgt[p], polls[p]>>,
         \/ pc'[p] \notin WriteSteps \cup {"done"}
         \/ pc'[p] = "done" /\ ret'[p] = "error"
         \/ pc[p] \in WriteSteps
         \/ pc'[p] = pc[p] /\ ret'[p] = ret[p]
         \/ op[p] # "stop"
  PROVE  SawExit(p)'
<1> DEFINE id == tgt[p]
<1>1. CASE id \in Ids /\ initOf[id] \in Pids /\ ~Live(id)
  <2>1. PICK c \in Ids : c = id
    BY <1>1
  <2>2. initOf'[c] \in Pids /\ ~Live(c)'
    BY <1>1, <2>1, DeadThroughout
  <2> QED
    BY <2>1, <2>2 DEF SawExit, Live
<1>2. CASE ~(id \in Ids /\ initOf[id] \in Pids /\ ~Live(id))
  BY <1>2 DEF SawExit, WriteSteps
<1> QED
  BY <1>1, <1>2

LEMMA StopStep ==
  ASSUME IInv, StopInv, Next
  PROVE  StopInv'
<1> USE DEF IInv, TypeOK
<1>1. ASSUME NEW h \in Pids, Environment(h), NEW p \in Procs PROVE SawExit(p)'
  <2>1. UNCHANGED <<pc, op, tgt, polls, ret>>
    BY <1>1, EnvironmentFrame DEF localVars
  <2> QED
    BY <2>1, SawExitStays DEF StopInv
<1>2. ASSUME NEW q \in Procs, CmdStart(q) \/ CmdStep(q) \/ Crash(q),
             NEW p \in Procs, p # q
      PROVE  SawExit(p)'
  <2>1. UNCHANGED <<pc[p], op[p], tgt[p], polls[p], ret[p]>>
    BY <1>2, LocalFrame
  <2> QED
    BY <2>1, SawExitStays DEF StopInv
<1>3. ASSUME NEW p \in Procs, CmdStart(p) PROVE SawExit(p)'
  BY <1>3 DEF CmdStart, RunRefused, RunStart, Inspect, RemoveStart, CmdRejected,
     SignalStart, Begin, SawExit, WriteSteps
<1>4. ASSUME NEW p \in Procs, Crash(p) PROVE SawExit(p)'
  BY <1>4 DEF Crash, Forget, SawExit, WriteSteps
<1>5. ASSUME NEW p \in Procs, CmdStep(p) PROVE SawExit(p)'
  <2>1. CASE PollEnd(p)
    <3>1. /\ tgt[p] \in Ids /\ st[p].pid \in Pids /\ st[p].pid = initOf[tgt[p]]
      BY <2>1 DEF PollEnd, LocalInv, Local, RecordInv
    <3>2. UNCHANGED <<kind, ns, initOf, op, tgt, polls>>
      BY <2>1 DEF PollEnd, kernelVars, localVars, history
    <3>3. polls[p] < MaxPolls => kind[st[p].pid] = "free"
      BY <2>1 DEF PollEnd
    <3> QED
      BY <3>1, <3>2, <3>3 DEF SawExit, Live
  <2>2. CASE WsMkdir(p) \/ WsOpen(p) \/ WsNoDir(p) \/ WsFail(p) \/ WsFlush(p)
             \/ WsFlushFail(p)
    <3>1. pc[p] \in WriteSteps /\ UNCHANGED <<op[p], tgt[p], polls[p]>>
      BY <2>2 DEF WsMkdir, WsOpen, WsNoDir, WsFail, WsFlush, WsFlushFail, localVars,
         WriteSteps
    <3> QED
      BY <1>5, <3>1, SawExitStays DEF StopInv, Next
  <2>3. CASE RunClone(p) \/ RunCloneFail(p) \/ RunAddPid(p) \/ RunWait(p) \/ SendKill(p)
             \/ CgRead(p) \/ CgMove(p) \/ CgRmdir(p) \/ RmUnlink(p) \/ RmRmdir(p)
    <3>1. op[p] # "stop" /\ op'[p] = op[p]
      BY <2>3 DEF RunClone, RunCloneFail, RunAddPid, RunWait, SendKill, CgRead, CgMove,
         CgRmdir, RmUnlink, RmRmdir, localVars, LocalInv, Local
    <3> QED
      BY <3>1 DEF SawExit
  <2>4. CASE SignalGone(p) \/ SendTerm(p) \/ PollAgain(p)
    BY <2>4 DEF SignalGone, SendTerm, PollAgain, SawExit, WriteSteps
  <2>5. CASE Return(p)
    BY <2>5 DEF Return, Forget, SawExit, WriteSteps
  <2> QED
    BY <1>5, <2>1, <2>2, <2>3, <2>4, <2>5 DEF CmdStep
<1> QED
  BY <1>1, <1>2, <1>3, <1>4, <1>5 DEF Next, StopInv

\* A stop that ends early has seen the container end.
THEOREM EarlyStops == Spec => []EarlyStopSawExit
<1>1. Init => StopInv
  BY DEF Init, StopInv, SawExit
<1>2. IInv /\ StopInv /\ [Next]_vars => StopInv'
  <2>1. ASSUME IInv, StopInv, UNCHANGED vars PROVE StopInv'
    BY <2>1 DEF StopInv, SawExit, Live, vars
  <2> QED
    BY <2>1, StopStep
<1>3. StopInv => EarlyStopSawExit
  BY DEF StopInv, SawExit, EarlyStopSawExit
<1> QED
  BY <1>1, <1>2, <1>3, Invariance, PTL DEF Spec

-----------------------------------------------------------------------------
(* Signals *)

\* Every init, zombie or not, is the process its container was cloned with.
InitsAreCloned ==
  \A h \in Pids : IsInit(h) => ns[h] \in Ids /\ initOf[ns[h]] = h

LEMMA ClonedStep ==
  ASSUME IInv, InitsAreCloned, Next
  PROVE  InitsAreCloned'
<1> SUFFICES ASSUME NEW h \in Pids, IsInit(h)'
             PROVE  ns'[h] \in Ids /\ initOf'[ns'[h]] = h
  BY DEF InitsAreCloned
<1>1. InitStays /\ KernelChange(h)
  BY LifecycleKernel
<1>2. kind'[h] \in {"setup", "user", "zombie"}
  BY DEF IsInit
<1>3. CASE IsInit(h) /\ ns'[h] = ns[h]
  <2>1. ns[h] \in Ids /\ initOf[ns[h]] = h
    BY <1>3 DEF InitsAreCloned
  <2> QED
    BY <1>1, <1>3, <2>1 DEF InitStays
<1>4. CASE ns'[h] \in Ids /\ initOf'[ns'[h]] = h
  BY <1>4
<1>5. (IsInit(h) /\ ns'[h] = ns[h]) \/ (ns'[h] \in Ids /\ initOf'[ns'[h]] = h)
  BY <1>1, <1>2 DEF KernelChange, IsInit
<1> QED
  BY <1>3, <1>4, <1>5

\* A stop or kill that misses the init of the container it names, because the
\* number it holds names something else by now, misses a process that has exited
\* and was reaped; it never signals pid 0.
THEOREM SignalSafety == Spec => []SignalMissesOnlyTheDead
<1>1. Init => InitsAreCloned
  BY DEF Init, InitsAreCloned, IsInit
<1>2. IInv /\ InitsAreCloned /\ [Next]_vars => InitsAreCloned'
  <2>1. ASSUME IInv, InitsAreCloned, UNCHANGED vars PROVE InitsAreCloned'
    BY <2>1 DEF InitsAreCloned, IsInit, vars
  <2> QED
    BY <2>1, ClonedStep
<1>3. IInv /\ InitsAreCloned => SignalMissesOnlyTheDead
  <2> SUFFICES ASSUME IInv, InitsAreCloned,
                      NEW p \in Procs, pc[p] \in {"kill_pid", "poll"}
               PROVE  /\ st[p].pid \in Pids
                      /\ HasInit(tgt[p]) =>
                           IsInit(st[p].pid) /\ ns[st[p].pid] = tgt[p]
    BY DEF SignalMissesOnlyTheDead
  <2>1. st[p].pid \in Pids /\ st[p].pid = initOf[tgt[p]]
    BY DEF IInv, LocalInv, Local, RecordInv
  <2>2. ASSUME NEW h \in Pids, IsInit(h), ns[h] = tgt[p] PROVE h = st[p].pid
    BY <2>1, <2>2 DEF InitsAreCloned
  <2> QED
    BY <2>1, <2>2 DEF HasInit
<1> QED
  BY <1>1, <1>2, <1>3, Invariance, PTL DEF Spec

-----------------------------------------------------------------------------
(* The charge of a running container, as long as nobody removes containers *)

Charged(id) ==
  Live(id) => id \in uncharged \/ (id \in cg /\ cgOf[initOf[id]] = id)

\* Only the error path of container_run destroys cgroups, and it finds them
\* empty: no process was ever started there.
NothingToMove == \A p \in Procs : op[p] # "rm" /\ buf[p] = {}

\* Before that a container_run has the cgroup it made.
HasCgroup ==
  \A p \in Procs :
    op[p] = "run" /\ pc[p] \notin {"idle", "done", "cg_read", "cg_move"}
      => tgt[p] \in cg

\* Whoever is about to record the container as running has charged it or warned.
RunCharges ==
  \A p \in Procs : op[p] = "run" /\ st[p].status = "running" => Charged(tgt[p])

ChargedInv == NothingToMove /\ HasCgroup /\ RunCharges /\ RunningIsCharged

LEMMA MoveStep ==
  ASSUME IInv, NothingToMove, "rm" \notin Ops, Next
  PROVE  NothingToMove'
<1> USE DEF IInv, TypeOK
<1>1. ASSUME NEW h \in Pids, Environment(h) PROVE NothingToMove'
  BY <1>1, EnvironmentFrame DEF localVars, NothingToMove
<1>2. ASSUME NEW p \in Procs, CmdStart(p) \/ CmdStep(p) \/ Crash(p),
             NEW q \in Procs, q # p
      PROVE  op'[q] # "rm" /\ buf'[q] = {}
  BY <1>2, LocalFrame DEF NothingToMove
<1>3. ASSUME NEW p \in Procs, CmdStart(p) PROVE op'[p] # "rm" /\ buf'[p] = {}
  BY <1>3 DEF CmdStart, RunRefused, RunStart, Inspect, RemoveStart, CmdRejected,
     SignalStart, Begin, NothingToMove
<1>4. ASSUME NEW p \in Procs, Crash(p) PROVE op'[p] # "rm" /\ buf'[p] = {}
  BY <1>4 DEF Crash, Forget
<1>5. ASSUME NEW p \in Procs, CmdStep(p) PROVE op'[p] # "rm" /\ buf'[p] = {}
  <2>1. CASE CgRead(p)
    <3>1. op[p] = "run" /\ tgt[p] \in Ids /\ initOf[tgt[p]] = NoPid
      BY <2>1 DEF CgRead, LocalInv, Local, NothingToMove, RecordInv, RunOf
    <3>2. {h \in Pids : cgOf[h] = tgt[p]} = {}
      BY <3>1, PidAssumption DEF ChargeInv
    <3> QED
      BY <2>1, <3>1, <3>2 DEF CgRead
  <2>2. CASE CgMove(p)
    BY <2>2 DEF CgMove, NothingToMove
  <2>3. CASE PollAgain(p)
    BY <2>3 DEF PollAgain, NothingToMove
  <2>4. CASE Return(p)
    BY <2>4 DEF Return, Forget
  <2>5. CASE ~CgRead(p) /\ ~CgMove(p) /\ ~PollAgain(p) /\ ~Return(p)
    <3>1. UNCHANGED <<op, buf>>
      BY <1>5, <2>5 DEF CmdStep, WsMkdir, WsOpen, WsNoDir, WsFail, WsFlush, WsFlushFail,
         RunClone, RunCloneFail, RunAddPid, RunWait, SignalGone, SendTerm, SendKill,
         PollEnd, CgRmdir, RmUnlink, RmRmdir, localVars
    <3> QED
      BY <3>1 DEF NothingToMove
  <2> QED
    BY <2>1, <2>2, <2>3, <2>4, <2>5
<1> QED
  BY <1>1, <1>2, <1>3, <1>4, <1>5 DEF Next, NothingToMove

\* A cgroup goes only in the error path of its own container_run, before clone.
LEMMA CgroupEffect ==
  ASSUME IInv, NothingToMove, Next, NEW id \in cg, id \notin cg'
  PROVE  \E p \in Procs : op[p] = "run" /\ tgt[p] = id /\ pc[p] = "cg_move"
                          /\ initOf[id] = NoPid
<1> USE DEF IInv, TypeOK
<1>1. ASSUME NEW h \in Pids, Environment(h) PROVE FALSE
  BY <1>1, EnvironmentFrame DEF diskVars
<1>2. ASSUME NEW p \in Procs, CmdStart(p) \/ Crash(p) PROVE FALSE
  BY <1>2 DEF CmdStart, RunRefused, RunStart, Inspect, RemoveStart, CmdRejected,
     SignalStart, Begin, Crash, diskVars
<1>3. ASSUME NEW p \in Procs, CmdStep(p)
      PROVE  op[p] = "run" /\ tgt[p] = id /\ pc[p] = "cg_move" /\ initOf[id] = NoPid
  <2>1. CgRmdir(p)
    BY <1>3 DEF CmdStep, WsMkdir, WsOpen, WsNoDir, WsFail, WsFlush, WsFlushFail, RunClone,
       RunCloneFail, RunAddPid, RunWait, SignalGone, SendTerm, SendKill, PollAgain,
       PollEnd, CgRead, CgMove, RmUnlink, RmRmdir, Return, diskVars
  <2>2. pc[p] = "cg_move" /\ tgt[p] = id
    BY <2>1 DEF CgRmdir
  <2> QED
    BY <2>2 DEF LocalInv, Local, NothingToMove, RecordInv, RunOf
<1> QED
  BY <1>1, <1>2, <1>3 DEF Next

\* The init of a container is charged anew only to its own cgroup.
LEMMA ChargeEffect ==
  ASSUME IInv, NothingToMove, Next, NEW h \in Pids,
         kind[h] \in {"setup", "user"}, kind'[h] \in {"setup", "user"}
  PROVE  cgOf'[h] = cgOf[h] \/ cgOf'[h] = ns[h]
<1> USE DEF IInv, TypeOK
<1>1. ASSUME NEW x \in Pids, Environment(x) PROVE cgOf'[h] = cgOf[h]
  BY <1>1 DEF Environment, ChildExec, InitExit, Fork, OtherExit, HostReap, ForeignSpawn,
     Release
<1>2. ASSUME NEW p \in Procs, CmdStart(p) \/ Crash(p) PROVE cgOf'[h] = cgOf[h]
  BY <1>2 DEF CmdStart, RunRefused, RunStart, Inspect, RemoveStart, CmdRejected,
     SignalStart, Begin, Crash, kernelVars
<1>3. ASSUME NEW p \in Procs, CmdStep(p) PROVE cgOf'[h] = cgOf[h] \/ cgOf'[h] = ns[h]
  <2>1. CASE RunAddPid(p)
    <3>1. op[p] = "run" /\ ns[st[p].pid] = tgt[p]
      BY <2>1 DEF RunAddPid, LocalInv, Local, OwnsItsChild, Owner
    <3> QED
      BY <2>1, <3>1 DEF RunAddPid
  <2>2. CASE RunWait(p)
    BY <2>2 DEF RunWait, Release
  <2>3. CASE CgMove(p)
    BY <2>3 DEF CgMove, NothingToMove
  <2>4. CASE ~RunAddPid(p) /\ ~RunWait(p) /\ ~CgMove(p)
    BY <1>3, <2>4 DEF CmdStep, WsMkdir, WsOpen, WsNoDir, WsFail, WsFlush, WsFlushFail,
       RunClone, RunCloneFail, SignalGone, SendTerm, SendKill, PollAgain, PollEnd,
       CgRead, CgRmdir, RmUnlink, RmRmdir, Return, kernelVars
  <2> QED
    BY <2>1, <2>2, <2>3, <2>4
<1> QED
  BY <1>1, <1>2, <1>3 DEF Next

LEMMA UnchargedStays ==
  ASSUME Next
  PROVE  uncharged \subseteq uncharged'
<1>1. ASSUME NEW h \in Pids, Environment(h) PROVE UNCHANGED uncharged
  BY <1>1, EnvironmentFrame DEF history
<1>2. ASSUME NEW p \in Procs, CmdStart(p) \/ Crash(p) PROVE UNCHANGED uncharged
  BY <1>2 DEF CmdStart, RunRefused, RunStart, Inspect, RemoveStart, CmdRejected,
     SignalStart, Begin, Crash, history
<1>3. ASSUME NEW p \in Procs, CmdStep(p) PROVE uncharged \subseteq uncharged'
  BY <1>3 DEF CmdStep, WsMkdir, WsOpen, WsNoDir, WsFail, WsFlush, WsFlushFail, RunClone,
     RunCloneFail, RunAddPid, RunWait, SignalGone, SendTerm, SendKill, PollAgain,
     PollEnd, CgRead, CgMove, CgRmdir, RmUnlink, RmRmdir, Return, history
<1> QED
  BY <1>1, <1>2, <1>3 DEF Next

LEMMA ChargedStays ==
  ASSUME IInv, NothingToMove, Next, NEW id \in Ids, initOf[id] \in Pids, Charged(id)
  PROVE  initOf'[id] = initOf[id] /\ Charged(id)'
<1>1. initOf'[id] = initOf[id] /\ (Live(id)' => Live(id))
  BY DeadThroughout, LifecycleKernel DEF InitStays
<1>2. ASSUME Live(id)'
      PROVE  id \in uncharged' \/ (id \in cg' /\ cgOf'[initOf'[id]] = id)
  <2>1. CASE id \in uncharged
    BY <2>1, UnchargedStays
  <2>2. CASE id \notin uncharged
    <3>1. Live(id) /\ id \in cg /\ cgOf[initOf[id]] = id
      BY <1>1, <1>2, <2>2 DEF Charged
    <3>2. id \in cg'
      BY <3>1, CgroupEffect, PidAssumption
    <3>3. cgOf'[initOf[id]] = id
      BY <1>1, <1>2, <3>1, ChargeEffect DEF Live
    <3> QED
      BY <1>1, <3>2, <3>3
  <2> QED
    BY <2>1, <2>2
<1> QED
  BY <1>1, <1>2 DEF Charged

LEMMA HasCgroupStep ==
  ASSUME IInv, NothingToMove, HasCgroup, Next
  PROVE  HasCgroup'
<1> USE DEF IInv, TypeOK
<1> SUFFICES ASSUME NEW p \in Procs, op'[p] = "run",
                    pc'[p] \notin {"idle", "done", "cg_read", "cg_move"}
             PROVE  tgt'[p] \in cg'
  BY DEF HasCgroup
<1>1. CASE \E id \in Ids : RunStart(p, id)
  BY <1>1 DEF RunStart
<1>2. CASE ~\E id \in Ids : RunStart(p, id)
  <2>1. op[p] = "run" /\ tgt'[p] = tgt[p]
        /\ pc[p] \notin {"idle", "done", "cg_read", "cg_move"}
    <3>1. ASSUME NEW h \in Pids, Environment(h)
          PROVE  UNCHANGED <<op, tgt, pc>>
      BY <3>1, EnvironmentFrame DEF localVars
    <3>2. ASSUME NEW q \in Procs, CmdStart(q) \/ CmdStep(q) \/ Crash(q), q # p
          PROVE  UNCHANGED <<op[p], tgt[p], pc[p]>>
      BY <3>2, LocalFrame
    <3>3. ASSUME CmdStart(p) PROVE FALSE
      BY <1>2, <3>3, OpsAssumption DEF CmdStart, RunRefused, Inspect, RemoveStart,
         CmdRejected, SignalStart, Begin
    <3>4. ASSUME Crash(p) PROVE FALSE
      BY <3>4 DEF Crash, Forget
    <3>5. ASSUME CmdStep(p)
          PROVE  /\ op[p] = "run" /\ tgt'[p] = tgt[p]
                 /\ pc[p] \notin {"idle", "done", "cg_read", "cg_move"}
      BY <3>5 DEF CmdStep, WsMkdir, WsOpen, WsNoDir, WsFail, WsFlush, WsFlushFail,
         RunClone, RunCloneFail, RunAddPid, RunWait, SignalGone, SendTerm, SendKill,
         PollAgain, PollEnd, CgRead, CgMove, CgRmdir, RmUnlink, RmRmdir, Return, Forget,
         localVars
    <3> QED
      BY <3>1, <3>2, <3>3, <3>4, <3>5 DEF Next
  <2>2. tgt[p] \in cg /\ tgt[p] \in Ids
    BY <2>1 DEF HasCgroup, LocalInv, Local
  <2> QED
    BY <2>1, <2>2, CgroupEffect DEF FreshInv
<1> QED
  BY <1>1, <1>2

LEMMA RunChargesStep ==
  ASSUME IInv, NothingToMove, HasCgroup, RunCharges, Next
  PROVE  RunCharges'
<1> USE DEF IInv, TypeOK
<1> SUFFICES ASSUME NEW p \in Procs, op'[p] = "run", st'[p].status = "running"
             PROVE  Charged(tgt[p])' /\ tgt'[p] = tgt[p]
  BY DEF RunCharges, Charged, Live
<1>1. CASE RunAddPid(p)
  <2>1. /\ op[p] = "run" /\ tgt[p] \in Ids /\ tgt[p] \in cg
        /\ st[p].pid \in Pids /\ st[p].pid = initOf[tgt[p]]
    BY <1>1 DEF RunAddPid, LocalInv, Local, RecordInv, HasCgroup
  <2>2. UNCHANGED <<cg, kind, ns, initOf, tgt>>
    BY <1>1 DEF RunAddPid, diskVars, localVars
  <2>3. tgt[p] \in uncharged' \/ cgOf'[initOf[tgt[p]]] = tgt[p]
    BY <1>1, <2>1 DEF RunAddPid
  <2> QED
    BY <2>1, <2>2, <2>3 DEF Charged, Live
<1>2. CASE ~RunAddPid(p)
  <2>1. UNCHANGED <<op[p], tgt[p], st[p]>>
    <3>1. ASSUME NEW h \in Pids, Environment(h) PROVE UNCHANGED <<op, tgt, st>>
      BY <3>1, EnvironmentFrame DEF localVars
    <3>2. ASSUME NEW q \in Procs, CmdStart(q) \/ CmdStep(q) \/ Crash(q), q # p
          PROVE  UNCHANGED <<op[p], tgt[p], st[p]>>
      BY <3>2, LocalFrame
    <3>3. ASSUME CmdStart(p) PROVE FALSE
      BY <3>3, OpsAssumption DEF CmdStart, RunRefused, RunStart, Inspect, RemoveStart,
         CmdRejected, SignalStart, Begin, LocalInv, Local, Idle, NoRecord, Created
    <3>4. ASSUME Crash(p) PROVE FALSE
      BY <3>4 DEF Crash, Forget
    <3>5. ASSUME CmdStep(p) PROVE UNCHANGED <<op[p], tgt[p], st[p]>>
      BY <1>2, <3>5 DEF CmdStep, WsMkdir, WsOpen, WsNoDir, WsFail, WsFlush, WsFlushFail,
         RunClone, RunCloneFail, RunWait, SignalGone, SendTerm, SendKill,
         PollAgain, PollEnd, CgRead, CgMove, CgRmdir, RmUnlink, RmRmdir, Return, Forget,
         localVars, Stopped
    <3> QED
      BY <3>1, <3>2, <3>3, <3>4, <3>5 DEF Next
  <2>2. st[p].pid \in Pids
    BY <2>1, OwnerFacts DEF Owner
  <2>3. PICK id \in Ids : id = tgt[p] /\ initOf[id] \in Pids
    BY <2>2 DEF RecordInv
  <2>4. Charged(id)
    BY <2>1, <2>3 DEF RunCharges
  <2>5. Charged(id)'
    BY <2>3, <2>4, ChargedStays
  <2> QED
    BY <2>1, <2>3, <2>5 DEF Charged, Live
<1> QED
  BY <1>1, <1>2

LEMMA RunningIsChargedStep ==
  ASSUME IInv, ChargedInv, Next
  PROVE  RunningIsCharged'
<1> USE DEF IInv, TypeOK
<1> SUFFICES ASSUME NEW id \in Ids, recorded'[id].status = "running"
             PROVE  Charged(id)'
  BY DEF RunningIsCharged, Charged
<1>1. CASE recorded[id].status = "running"
  <2>1. recorded[id] \notin {NoRecord, Created, Stopped, Removed}
    BY <1>1 DEF NoRecord, Created, Stopped, Removed
  <2>2. initOf[id] \in Pids
    BY <2>1 DEF RecordInv
  <2>3. Charged(id)
    BY <1>1 DEF ChargedInv, RunningIsCharged, Charged
  <2> QED
    BY <2>2, <2>3, ChargedStays DEF ChargedInv
<1>2. CASE recorded[id].status # "running"
  <2>1. PICK p \in Procs : WsFlush(p) /\ tgt[p] = id /\ st[p].status = "running"
    <3>1. ASSUME NEW h \in Pids, Environment(h) PROVE FALSE
      BY <1>2, <3>1, EnvironmentFrame DEF history
    <3>2. ASSUME NEW p \in Procs, CmdStart(p) \/ Crash(p) PROVE FALSE
      BY <1>2, <3>2 DEF CmdStart, RunRefused, RunStart, Inspect, RemoveStart, CmdRejected,
         SignalStart, Begin, Crash, history
    <3>3. ASSUME NEW p \in Procs, CmdStep(p)
          PROVE  WsFlush(p) /\ tgt[p] = id /\ st[p].status = "running"
      <4>1. CASE WsFlush(p)
        BY <1>2, <4>1 DEF WsFlush
      <4>2. CASE RmUnlink(p)
        BY <1>2, <4>2 DEF RmUnlink, Removed
      <4>3. CASE ~WsFlush(p) /\ ~RmUnlink(p)
        BY <1>2, <3>3, <4>3 DEF CmdStep, WsMkdir, WsOpen, WsNoDir, WsFail, WsFlushFail,
           RunClone, RunCloneFail, RunAddPid, RunWait, SignalGone, SendTerm, SendKill,
           PollAgain, PollEnd, CgRead, CgMove, CgRmdir, RmRmdir, Return, history
      <4> QED
        BY <4>1, <4>2, <4>3
    <3> QED
      BY <3>1, <3>2, <3>3 DEF Next
  <2>2. op[p] = "run" /\ st[p].pid \in Pids
    BY <2>1 DEF WsFlush, WriteSteps, LocalInv, Local, Created, Stopped
  <2>3. initOf[id] \in Pids /\ Charged(id)
    <3>1. initOf[id] \in Pids
      BY <2>1, <2>2 DEF RecordInv
    <3>2. Charged(tgt[p])
      BY <2>1, <2>2 DEF ChargedInv, RunCharges
    <3> QED
      BY <2>1, <3>1, <3>2 DEF Charged, Live
  <2> QED
    BY <2>3, ChargedStays DEF ChargedInv
<1> QED
  BY <1>1, <1>2

\* As long as nobody removes containers, the init of a container recorded as
\* running is charged to its cgroup, unless its cgroup_add_pid failed.
THEOREM Charge ==
  ASSUME "rm" \notin Ops
  PROVE  Spec => []RunningIsCharged
<1>1. Init => ChargedInv
  BY DEF Init, ChargedInv, NothingToMove, HasCgroup, RunCharges, RunningIsCharged,
     NoRecord
<1>2. IInv /\ ChargedInv /\ [Next]_vars => ChargedInv'
  <2>1. ASSUME IInv, ChargedInv, Next PROVE ChargedInv'
    BY <2>1, MoveStep, HasCgroupStep, RunChargesStep, RunningIsChargedStep DEF ChargedInv
  <2>2. ASSUME ChargedInv, UNCHANGED vars PROVE ChargedInv'
    BY <2>2 DEF ChargedInv, NothingToMove, HasCgroup, RunCharges, RunningIsCharged,
       Charged, Live, vars
  <2> QED
    BY <2>1, <2>2
<1>3. ChargedInv => RunningIsCharged
  BY DEF ChargedInv
<1> QED
  BY <1>1, <1>2, <1>3, Invariance, PTL DEF Spec
=============================================================================
