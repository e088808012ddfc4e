---------------------- MODULE ContainerRuntimeProofs ----------------------
(***************************************************************************)
(* Proofs about ContainerRuntime for any number of containers, PIDs and    *)
(* invocations and any fault or crash.  Invariance shows that IInv of      *)
(* ContainerInvariant is inductive; there is one lemma for each of its     *)
(* parts, with a step for each action that can disturb the part, and the   *)
(* frame lemmas below say which actions cannot.  The safety theorems at    *)
(* the end follow from it, and so does the refinement of Lifecycle.        *)
(***************************************************************************)
EXTENDS ContainerInvariant, TLAPS

USE IdAssumption, PidAssumption, OpsAssumption, BoundAssumption

\* Processes of containers and of the host touch the process table only.
LEMMA EnvironmentFrame ==
  ASSUME NEW h \in Pids, Environment(h)
  PROVE  UNCHANGED <<diskVars, pc, localVars, st, fd, ret, history>>
BY DEF Environment, ChildExec, InitExit, Fork, OtherExit, HostReap, ForeignSpawn,
       kernelVars

\* An invocation changes its own local state only; unlink alone reaches into
\* another one's FILE*, which it makes stale.
LEMMA LocalFrame ==
  ASSUME TypeOK, NEW p \in Procs, NEW q \in Procs, q # p,
         CmdStart(p) \/ CmdStep(p) \/ Crash(p)
  PROVE  /\ pc'[q] = pc[q] /\ op'[q] = op[q] /\ tgt'[q] = tgt[q]
         /\ st'[q] = st[q] /\ polls'[q] = polls[q] /\ buf'[q] = buf[q]
         /\ ret'[q] = ret[q]
         /\ fd'[q] = fd[q] \/ (fd[q] = "open" /\ fd'[q] = "stale")
<1>1. CASE CmdStart(p)
  BY <1>1 DEF CmdStart, TypeOK, RunRefused, RunStart, Inspect, RemoveStart,
     CmdRejected, SignalStart, Begin
<1>2. CASE CmdStep(p)
  <2>1. CASE WsMkdir(p)
    BY <2>1 DEF WsMkdir, TypeOK, localVars
  <2>2. CASE WsOpen(p)
    BY <2>2 DEF WsOpen, TypeOK, localVars
  <2>3. CASE WsNoDir(p)
    BY <2>3 DEF WsNoDir, AfterWrite, TypeOK, localVars
  <2>4. CASE WsFail(p)
    BY <2>4 DEF WsFail, AfterWrite, TypeOK, localVars
  <2>5. CASE WsFlush(p)
    BY <2>5 DEF WsFlush, AfterWrite, TypeOK, localVars
  <2>6. CASE WsFlushFail(p)
    BY <2>6 DEF WsFlushFail, AfterWrite, TypeOK, localVars
  <2>7. CASE RunClone(p)
    BY <2>7 DEF RunClone, TypeOK, localVars
  <2>8. CASE RunCloneFail(p)
    BY <2>8 DEF RunCloneFail, TypeOK, localVars
  <2>9. CASE RunAddPid(p)
    BY <2>9 DEF RunAddPid, TypeOK, localVars
  <2>10. CASE RunWait(p)
    BY <2>10 DEF RunWait, Release, TypeOK, localVars
  <2>11. CASE SignalGone(p)
    BY <2>11 DEF SignalGone, TypeOK, localVars
  <2>12. CASE SendTerm(p)
    BY <2>12 DEF SendTerm, TypeOK, localVars
  <2>13. CASE SendKill(p)
    BY <2>13 DEF SendKill, TypeOK, localVars
  <2>14. CASE PollAgain(p)
    BY <2>14 DEF PollAgain, TypeOK, localVars
  <2>15. CASE PollEnd(p)
    BY <2>15 DEF PollEnd, TypeOK, localVars
  <2>16. CASE CgRead(p)
    BY <2>16 DEF CgRead, TypeOK, localVars
  <2>17. CASE CgMove(p)
    BY <2>17 DEF CgMove, TypeOK, localVars
  <2>18. CASE CgRmdir(p)
    BY <2>18 DEF CgRmdir, TypeOK, localVars
  <2>19. CASE RmUnlink(p)
    BY <2>19 DEF RmUnlink, TypeOK, localVars
  <2>20. CASE RmRmdir(p)
    BY <2>20 DEF RmRmdir, TypeOK, localVars
  <2>21. CASE Return(p)
    BY <2>21 DEF Return, Forget, TypeOK, localVars
  <2> QED
    BY <1>2, <2>1, <2>2, <2>3, <2>4, <2>5, <2>6, <2>7, <2>8, <2>9, <2>10,
       <2>11, <2>12, <2>13, <2>14, <2>15, <2>16, <2>17, <2>18, <2>19, <2>20,
       <2>21 DEF CmdStep
<1>3. CASE Crash(p)
  BY <1>3 DEF Crash, Forget, TypeOK
<1> QED BY <1>1, <1>2, <1>3

\* What read_state makes of a file that exists.
LEMMA ParsedRecord ==
  ASSUME TypeOK, RecordInv, NEW id \in Ids, file[id] # NoRecord
  PROVE  /\ ParsedState(id) \in [status : Statuses, pid : Pids \cup {NoPid}]
         /\ \/ ParsedState(id) = Created
            \/ ParsedState(id) = file[id]
         /\ ParsedState(id).pid \in Pids =>
              ParsedState(id) = Running(initOf[id])
         /\ ParsedState(id).status = "running" =>
              ParsedState(id).pid \in Pids /\ file[id].status = "running"
BY DEF TypeOK, RecordInv, ParsedState, Statuses, NoRecord, Torn, Created, Stopped,
       Running

\* write_state leaves the program at a step, with a result.
LEMMA AfterWriteType ==
  ASSUME TypeOK, NEW p \in Procs, NEW res, AfterWrite(p, res)
  PROVE  /\ pc' \in [Procs -> ProgramSteps]
         /\ ret' \in [Procs -> {"none", "ok", "error"}]
BY DEF AfterWrite, PcAfterWrite, TypeOK, ProgramSteps

\* Every step keeps the types.
LEMMA TypeStep ==
  ASSUME TypeOK, LocalInv, RecordInv, Next
  PROVE  TypeOK'
<1>1. ASSUME NEW p \in Procs, CmdStart(p) PROVE TypeOK'
  <2>1. CASE RunRefused(p)
    BY <2>1 DEF RunRefused, TypeOK, diskVars, kernelVars, localVars, history,
       Statuses, ProgramSteps, WriteSteps, Created, Stopped, Running,
       NoRecord, Torn, Removed
  <2>2. ASSUME NEW id \in Ids, RunStart(p, id) PROVE TypeOK'
    BY <2>2 DEF RunStart, TypeOK, diskVars, kernelVars, localVars, history,
       Statuses, ProgramSteps, WriteSteps, Created, Stopped, Running,
       NoRecord, Torn, Removed
  <2>3. ASSUME NEW id \in Ids, Inspect(p, id) PROVE TypeOK'
    BY <2>3, ParsedRecord DEF Inspect, Begin, TypeOK, diskVars, kernelVars,
       localVars, history, Statuses, ProgramSteps, WriteSteps, Created,
       Stopped, Running, NoRecord, Torn, Removed
  <2>4. ASSUME NEW id \in Ids, RemoveStart(p, id) PROVE TypeOK'
    BY <2>4, ParsedRecord DEF RemoveStart, Begin, TypeOK, diskVars,
       kernelVars, localVars, history, Statuses, ProgramSteps, WriteSteps,
       Created, Stopped, Running, NoRecord, Torn, Removed
  <2>5. ASSUME NEW id \in Ids, NEW o \in Ops, CmdRejected(p, o, id)
        PROVE  TypeOK'
    BY <2>5 DEF CmdRejected, Begin, TypeOK, diskVars, kernelVars, localVars,
       history, Statuses, ProgramSteps, WriteSteps, Created, Stopped, Running,
       NoRecord, Torn, Removed
  <2>6. ASSUME NEW id \in Ids, NEW o \in Ops, SignalStart(p, o, id)
        PROVE  TypeOK'
    BY <2>6, ParsedRecord DEF SignalStart, Begin, TypeOK, diskVars,
       kernelVars, localVars, history, Statuses, ProgramSteps, WriteSteps,
       Created, Stopped, Running, NoRecord, Torn, Removed
  <2> QED
    BY <1>1, <2>1, <2>2, <2>3, <2>4, <2>5, <2>6 DEF CmdStart
<1>2. ASSUME NEW p \in Procs, CmdStep(p) PROVE TypeOK'
  <2>1. CASE WsMkdir(p)
    BY SMTT(40), <2>1 DEF WsMkdir, TypeOK, diskVars, kernelVars, localVars, history,
       Statuses, ProgramSteps, WriteSteps, Created, Stopped, Running,
       NoRecord, Torn, Removed, LocalInv, Local
  <2>2. CASE WsOpen(p)
    BY SMTT(40), <2>2 DEF WsOpen, TypeOK, diskVars, kernelVars, localVars, history,
       Statuses, ProgramSteps, WriteSteps, Created, Stopped, Running,
       NoRecord, Torn, Removed, LocalInv, Local
  <2>3. CASE WsNoDir(p)
    BY SMTT(40), <2>3, AfterWriteType DEF WsNoDir, TypeOK, diskVars, kernelVars,
       localVars, history, Statuses, ProgramSteps, WriteSteps, Created,
       Stopped, Running, NoRecord, Torn, Removed, LocalInv, Local
  <2>4. CASE WsFail(p)
    BY SMTT(40), <2>4, AfterWriteType DEF WsFail, TypeOK, diskVars, kernelVars,
       localVars, history, Statuses, ProgramSteps, WriteSteps, Created,
       Stopped, Running, NoRecord, Torn, Removed, LocalInv, Local
  <2>5. CASE WsFlush(p)
      <3>1. /\ pc' \in [Procs -> ProgramSteps]
            /\ ret' \in [Procs -> {"none", "ok", "error"}]
        BY <2>5, AfterWriteType DEF WsFlush
      <3>2. /\ file' \in [Ids -> [status : Statuses \cup {"none", "torn"},
                                 pid : Pids \cup {NoPid}]]
            /\ recorded' \in [Ids -> [status : Statuses \cup {"none", "removed"},
                                     pid : Pids \cup {NoPid}]]
        BY <2>5 DEF WsFlush, TypeOK
      <3> QED
        BY <2>5, <3>1, <3>2 DEF WsFlush, TypeOK, kernelVars, localVars
  <2>6. CASE WsFlushFail(p)
    BY <2>6, AfterWriteType DEF WsFlushFail, TypeOK, diskVars, kernelVars,
       localVars, history, Statuses, ProgramSteps, WriteSteps, Created,
       Stopped, Running, NoRecord, Torn, Removed, LocalInv, Local
  <2>7. CASE RunClone(p)
    BY <2>7 DEF RunClone, TypeOK, diskVars, kernelVars, localVars, history,
       Statuses, ProgramSteps, WriteSteps, Created, Stopped, Running,
       NoRecord, Torn, Removed, LocalInv, Local
  <2>8. CASE RunCloneFail(p)
    BY <2>8 DEF RunCloneFail, TypeOK, diskVars, kernelVars, localVars,
       history, Statuses, ProgramSteps, WriteSteps, Created, Stopped, Running,
       NoRecord, Torn, Removed, LocalInv, Local
  <2>9. CASE RunAddPid(p)
    <3>1. tgt[p] \in Ids /\ st[p].pid \in Pids
      BY <2>9 DEF RunAddPid, LocalInv, Local
    <3>2. cgOf' \in [Pids -> Ids \cup {NoId}] /\ uncharged' \subseteq Ids
      BY <2>9, <3>1 DEF RunAddPid, TypeOK
    <3>3. /\ st' \in [Procs -> [status : Statuses \cup {"none"}, pid : Pids \cup {NoPid}]]
          /\ pc' \in [Procs -> ProgramSteps]
      BY <2>9, <3>1 DEF RunAddPid, TypeOK, Running, Statuses, ProgramSteps, WriteSteps
    <3>4. UNCHANGED <<diskVars, kind, ns, killed, localVars, fd, ret, used, initOf,
                      recorded, hurt, crashes>>
      BY <2>9 DEF RunAddPid
    <3> QED
      BY <3>2, <3>3, <3>4 DEF TypeOK, diskVars, localVars
  <2>10. CASE RunWait(p)
    BY <2>10 DEF RunWait, Release, TypeOK, diskVars, kernelVars, localVars,
       history, Statuses, ProgramSteps, WriteSteps, Created, Stopped, Running,
       NoRecord, Torn, Removed, LocalInv, Local
  <2>11. CASE SignalGone(p)
    BY <2>11 DEF SignalGone, TypeOK, diskVars, kernelVars, localVars, history,
       Statuses, ProgramSteps, WriteSteps, Created, Stopped, Running,
       NoRecord, Torn, Removed, LocalInv, Local
  <2>12. CASE SendTerm(p)
    BY <2>12 DEF SendTerm, TypeOK, diskVars, kernelVars, localVars, history,
       Statuses, ProgramSteps, WriteSteps, Created, Stopped, Running,
       NoRecord, Torn, Removed, LocalInv, Local
  <2>13. CASE SendKill(p)
    BY <2>13 DEF SendKill, TypeOK, diskVars, kernelVars, localVars, history,
       Statuses, ProgramSteps, WriteSteps, Created, Stopped, Running,
       NoRecord, Torn, Removed, LocalInv, Local
  <2>14. CASE PollAgain(p)
    BY <2>14 DEF PollAgain, TypeOK, diskVars, kernelVars, localVars, history,
       Statuses, ProgramSteps, WriteSteps, Created, Stopped, Running,
       NoRecord, Torn, Removed, LocalInv, Local
  <2>15. CASE PollEnd(p)
    BY <2>15 DEF PollEnd, TypeOK, diskVars, kernelVars, localVars, history,
       Statuses, ProgramSteps, WriteSteps, Created, Stopped, Running,
       NoRecord, Torn, Removed, LocalInv, Local
  <2>16. CASE CgRead(p)
    BY <2>16 DEF CgRead, TypeOK, diskVars, kernelVars, localVars, history,
       Statuses, ProgramSteps, WriteSteps, Created, Stopped, Running,
       NoRecord, Torn, Removed, LocalInv, Local
  <2>17. CASE CgMove(p)
    BY <2>17 DEF CgMove, TypeOK, diskVars, kernelVars, localVars, history,
       Statuses, ProgramSteps, WriteSteps, Created, Stopped, Running,
       NoRecord, Torn, Removed, LocalInv, Local
  <2>18. CASE CgRmdir(p)
    BY <2>18 DEF CgRmdir, TypeOK, diskVars, kernelVars, localVars, history,
       Statuses, ProgramSteps, WriteSteps, Created, Stopped, Running,
       NoRecord, Torn, Removed, LocalInv, Local
  <2>19. CASE RmUnlink(p)
    BY <2>19 DEF RmUnlink, TypeOK, diskVars, kernelVars, localVars, history,
       Statuses, ProgramSteps, WriteSteps, Created, Stopped, Running,
       NoRecord, Torn, Removed, LocalInv, Local
  <2>20. CASE RmRmdir(p)
      <3>1. dir' \subseteq Ids
        BY <2>20 DEF RmRmdir, TypeOK
      <3>2. ret' \in [Procs -> {"none", "ok", "error"}]
        BY <2>20 DEF RmRmdir, TypeOK
      <3> QED
        BY <2>20, <3>1, <3>2 DEF RmRmdir, TypeOK, kernelVars, localVars, history,
           ProgramSteps
  <2>21. CASE Return(p)
    BY <2>21 DEF Return, Forget, TypeOK, diskVars, kernelVars, localVars,
       history, Statuses, ProgramSteps, WriteSteps, Created, Stopped, Running,
       NoRecord, Torn, Removed, LocalInv, Local
  <2> QED
    BY <1>2, <2>1, <2>2, <2>3, <2>4, <2>5, <2>6, <2>7, <2>8, <2>9, <2>10,
       <2>11, <2>12, <2>13, <2>14, <2>15, <2>16, <2>17, <2>18, <2>19, <2>20,
       <2>21 DEF CmdStep
<1>3. ASSUME NEW p \in Procs, Crash(p) PROVE TypeOK'
  BY <1>3 DEF Crash, Forget, TypeOK, diskVars, kernelVars, localVars, history,
     Statuses, ProgramSteps, WriteSteps, Created, Stopped, Running, NoRecord,
     Torn, Removed, LocalInv, Local
<1>4. ASSUME NEW h \in Pids, Environment(h) PROVE TypeOK'
  <2>1. CASE ChildExec(h)
    BY <2>1 DEF ChildExec, TypeOK, diskVars, kernelVars, localVars, history,
       Statuses, ProgramSteps, WriteSteps, Created, Stopped, Running,
       NoRecord, Torn, Removed
  <2>2. CASE InitExit(h)
    BY <2>2 DEF InitExit, TypeOK, diskVars, kernelVars, localVars, history,
       Statuses, ProgramSteps, WriteSteps, Created, Stopped, Running,
       NoRecord, Torn, Removed
  <2>3. CASE Fork(h)
    BY <2>3 DEF Fork, TypeOK, diskVars, kernelVars, localVars, history,
       Statuses, ProgramSteps, WriteSteps, Created, Stopped, Running,
       NoRecord, Torn, Removed
  <2>4. CASE OtherExit(h)
    BY <2>4 DEF OtherExit, Release, TypeOK, diskVars, kernelVars, localVars,
       history, Statuses, ProgramSteps, WriteSteps, Created, Stopped, Running,
       NoRecord, Torn, Removed
  <2>5. CASE HostReap(h)
    BY <2>5 DEF HostReap, Release, TypeOK, diskVars, kernelVars, localVars,
       history, Statuses, ProgramSteps, WriteSteps, Created, Stopped, Running,
       NoRecord, Torn, Removed
  <2>6. CASE ForeignSpawn(h)
    BY <2>6 DEF ForeignSpawn, TypeOK, diskVars, kernelVars, localVars,
       history, Statuses, ProgramSteps, WriteSteps, Created, Stopped, Running,
       NoRecord, Torn, Removed
  <2> QED
    BY <1>4, <2>1, <2>2, <2>3, <2>4, <2>5, <2>6 DEF Environment
<1> QED
  BY <1>1, <1>2, <1>3, <1>4 DEF Next

\* Every step keeps what each invocation holds at its place in the program.
LEMMA LocalStep ==
  ASSUME TypeOK, LocalInv, RecordInv, Next
  PROVE  LocalInv'
<1>1. ASSUME NEW p \in Procs, CmdStart(p) PROVE Local(p)'
  <2>1. CASE RunRefused(p)
    BY <2>1 DEF RunRefused, Local, TypeOK, Idle, localVars, WriteSteps,
       Created, Stopped, Running, NoRecord, LocalInv
  <2>2. ASSUME NEW id \in Ids, RunStart(p, id) PROVE Local(p)'
    BY <2>2 DEF RunStart, Local, TypeOK, Idle, localVars, WriteSteps, Created,
       Stopped, Running, NoRecord, LocalInv
  <2>3. ASSUME NEW id \in Ids, Inspect(p, id) PROVE Local(p)'
    BY <2>3, ParsedRecord DEF Inspect, Begin, Local, TypeOK, Idle, localVars,
       WriteSteps, Created, Stopped, Running, NoRecord, Statuses, LocalInv
  <2>4. ASSUME NEW id \in Ids, RemoveStart(p, id) PROVE Local(p)'
    BY <2>4, ParsedRecord DEF RemoveStart, Begin, Local, TypeOK, Idle,
       localVars, WriteSteps, Created, Stopped, Running, NoRecord, Statuses,
       LocalInv
  <2>5. ASSUME NEW id \in Ids, NEW o \in Ops, CmdRejected(p, o, id)
        PROVE  Local(p)'
    BY <2>5 DEF CmdRejected, Begin, Local, TypeOK, Idle, localVars,
       WriteSteps, Created, Stopped, Running, NoRecord, LocalInv
  <2>6. ASSUME NEW id \in Ids, NEW o \in Ops, SignalStart(p, o, id)
        PROVE  Local(p)'
    BY <2>6, ParsedRecord DEF SignalStart, Begin, Local, TypeOK, Idle,
       localVars, WriteSteps, Created, Stopped, Running, NoRecord, Refuses,
       LocalInv
  <2> QED
    BY <1>1, <2>1, <2>2, <2>3, <2>4, <2>5, <2>6 DEF CmdStart
<1>2. ASSUME NEW p \in Procs, CmdStep(p) PROVE Local(p)'
  <2>1. CASE WsMkdir(p)
    BY <2>1 DEF WsMkdir, Local, TypeOK, Idle, localVars, WriteSteps, Created,
       Stopped, Running, NoRecord, LocalInv
  <2>2. CASE WsOpen(p)
    BY <2>2 DEF WsOpen, Local, TypeOK, Idle, localVars, WriteSteps, Created,
       Stopped, Running, NoRecord, LocalInv
  <2>3. CASE WsNoDir(p)
    BY <2>3 DEF WsNoDir, Local, TypeOK, Idle, localVars, WriteSteps, Created,
       Stopped, Running, NoRecord, LocalInv, AfterWrite, PcAfterWrite
  <2>4. CASE WsFail(p)
    BY <2>4 DEF WsFail, Local, TypeOK, Idle, localVars, WriteSteps, Created,
       Stopped, Running, NoRecord, LocalInv, AfterWrite, PcAfterWrite
  <2>5. CASE WsFlush(p)
    BY <2>5 DEF WsFlush, Local, TypeOK, Idle, localVars, WriteSteps, Created,
       Stopped, Running, NoRecord, LocalInv, AfterWrite, PcAfterWrite
  <2>6. CASE WsFlushFail(p)
    BY <2>6 DEF WsFlushFail, Local, TypeOK, Idle, localVars, WriteSteps,
       Created, Stopped, Running, NoRecord, LocalInv, AfterWrite, PcAfterWrite
  <2>7. CASE RunClone(p)
    BY <2>7 DEF RunClone, Local, TypeOK, Idle, localVars, WriteSteps, Created,
       Stopped, Running, NoRecord, LocalInv
  <2>8. CASE RunCloneFail(p)
    BY <2>8 DEF RunCloneFail, Local, TypeOK, Idle, localVars, WriteSteps,
       Created, Stopped, Running, NoRecord, LocalInv
  <2>9. CASE RunAddPid(p)
    BY <2>9 DEF RunAddPid, Local, TypeOK, Idle, localVars, WriteSteps,
       Created, Stopped, Running, NoRecord, LocalInv
  <2>10. CASE RunWait(p)
    BY <2>10 DEF RunWait, Release, Local, TypeOK, Idle, localVars, WriteSteps,
       Created, Stopped, Running, NoRecord, LocalInv
  <2>11. CASE SignalGone(p)
      <3>1. op[p] \in {"stop", "kill"} /\ tgt[p] \in Ids /\ fd[p] = "none"
        BY <2>11 DEF SignalGone, LocalInv, Local
      <3> QED
        BY <2>11, <3>1 DEF SignalGone, Local, TypeOK, localVars, WriteSteps
  <2>12. CASE SendTerm(p)
    BY <2>12 DEF SendTerm, Local, TypeOK, Idle, localVars, WriteSteps,
       Created, Stopped, Running, NoRecord, LocalInv
  <2>13. CASE SendKill(p)
    BY <2>13 DEF SendKill, Local, TypeOK, Idle, localVars, WriteSteps,
       Created, Stopped, Running, NoRecord, LocalInv
  <2>14. CASE PollAgain(p)
    BY <2>14 DEF PollAgain, Local, TypeOK, Idle, localVars, WriteSteps,
       Created, Stopped, Running, NoRecord, LocalInv
  <2>15. CASE PollEnd(p)
    BY <2>15 DEF PollEnd, Local, TypeOK, Idle, localVars, WriteSteps, Created,
       Stopped, Running, NoRecord, LocalInv
  <2>16. CASE CgRead(p)
    BY <2>16 DEF CgRead, Local, TypeOK, Idle, localVars, WriteSteps, Created,
       Stopped, Running, NoRecord, LocalInv
  <2>17. CASE CgMove(p)
    BY <2>17 DEF CgMove, Local, TypeOK, Idle, localVars, WriteSteps, Created,
       Stopped, Running, NoRecord, LocalInv
  <2>18. CASE CgRmdir(p)
    BY <2>18 DEF CgRmdir, Local, TypeOK, Idle, localVars, WriteSteps, Created,
       Stopped, Running, NoRecord, LocalInv
  <2>19. CASE RmUnlink(p)
    BY <2>19 DEF RmUnlink, Local, TypeOK, Idle, localVars, WriteSteps,
       Created, Stopped, Running, NoRecord, LocalInv
  <2>20. CASE RmRmdir(p)
    BY <2>20 DEF RmRmdir, Local, TypeOK, Idle, localVars, WriteSteps, Created,
       Stopped, Running, NoRecord, LocalInv
  <2>21. CASE Return(p)
    BY <2>21 DEF Return, Forget, Local, TypeOK, Idle, localVars, WriteSteps,
       Created, Stopped, Running, NoRecord, LocalInv
  <2> QED
    BY <1>2, <2>1, <2>2, <2>3, <2>4, <2>5, <2>6, <2>7, <2>8, <2>9, <2>10,
       <2>11, <2>12, <2>13, <2>14, <2>15, <2>16, <2>17, <2>18, <2>19, <2>20,
       <2>21 DEF CmdStep
<1>3. ASSUME NEW p \in Procs, Crash(p) PROVE Local(p)'
  BY <1>3 DEF Crash, Forget, Local, TypeOK, Idle, localVars, WriteSteps,
     Created, Stopped, Running, NoRecord
<1>4. ASSUME NEW h \in Pids, Environment(h) PROVE LocalInv'
  BY <1>4, EnvironmentFrame DEF LocalInv, Local, Idle, localVars
<1>5. ASSUME NEW p \in Procs, CmdStart(p) \/ CmdStep(p) \/ Crash(p)
      PROVE  LocalInv'
  <2> SUFFICES ASSUME NEW q \in Procs PROVE Local(q)'
    BY DEF LocalInv
  <2>1. CASE q = p
    BY <1>1, <1>2, <1>3, <1>5, <2>1
  <2>2. CASE q # p
    BY <1>5, <2>2, LocalFrame DEF LocalInv, Local, Idle
  <2> QED BY <2>1, <2>2
<1> QED
  BY <1>4, <1>5 DEF Next

\* Every step keeps identifiers fresh and containers with a single owner.
LEMMA FreshStep ==
  ASSUME TypeOK, LocalInv, RecordInv, FreshInv, Next
  PROVE  FreshInv'
<1>1. ASSUME NEW p \in Procs, CmdStart(p) PROVE FreshInv'
  <2>1. CASE RunRefused(p)
    BY <2>1 DEF RunRefused, FreshInv, TypeOK, diskVars, localVars, history,
       NoRecord, LocalInv, Local, Idle
  <2>2. ASSUME NEW id \in Ids, RunStart(p, id) PROVE FreshInv'
    BY <2>2 DEF RunStart, FreshInv, TypeOK, diskVars, localVars, history,
       NoRecord, LocalInv, Local, Idle
  <2>3. ASSUME NEW id \in Ids, Inspect(p, id) PROVE FreshInv'
    BY <2>3 DEF Inspect, Begin, FreshInv, TypeOK, diskVars, localVars,
       history, NoRecord, LocalInv, Local, Idle
  <2>4. ASSUME NEW id \in Ids, RemoveStart(p, id) PROVE FreshInv'
    BY <2>4 DEF RemoveStart, Begin, FreshInv, TypeOK, diskVars, localVars,
       history, NoRecord, LocalInv, Local, Idle
  <2>5. ASSUME NEW id \in Ids, NEW o \in Ops, CmdRejected(p, o, id)
        PROVE  FreshInv'
      <3>1. o # "run"
        BY OpsAssumption
      <3> QED
        BY <2>5, <3>1 DEF CmdRejected, Begin, FreshInv, TypeOK, diskVars, localVars,
           history, LocalInv, Local, Idle
  <2>6. ASSUME NEW id \in Ids, NEW o \in Ops, SignalStart(p, o, id)
        PROVE  FreshInv'
    BY <2>6 DEF SignalStart, Begin, FreshInv, TypeOK, diskVars, localVars,
       history, NoRecord, LocalInv, Local, Idle
  <2> QED
    BY <1>1, <2>1, <2>2, <2>3, <2>4, <2>5, <2>6 DEF CmdStart
<1>2. ASSUME NEW p \in Procs, CmdStep(p) PROVE FreshInv'
  <2>1. CASE WsMkdir(p)
    BY <2>1 DEF WsMkdir, FreshInv, TypeOK, diskVars, localVars, history,
       NoRecord
  <2>2. CASE WsOpen(p)
    BY <2>2 DEF WsOpen, FreshInv, TypeOK, diskVars, localVars, history,
       NoRecord, LocalInv, Local, WriteSteps, Created, Stopped, Running
  <2>3. CASE WsNoDir(p)
    BY <2>3 DEF WsNoDir, FreshInv, TypeOK, diskVars, localVars, history,
       NoRecord, AfterWrite
  <2>4. CASE WsFail(p)
    BY <2>4 DEF WsFail, FreshInv, TypeOK, diskVars, localVars, history,
       NoRecord, AfterWrite
  <2>5. CASE WsFlush(p)
    BY <2>5 DEF WsFlush, FreshInv, TypeOK, diskVars, localVars, history,
       NoRecord, LocalInv, Local, WriteSteps, Created, Stopped, Running,
       AfterWrite
  <2>6. CASE WsFlushFail(p)
    BY <2>6 DEF WsFlushFail, FreshInv, TypeOK, diskVars, localVars, history,
       NoRecord, AfterWrite
  <2>7. CASE RunClone(p)
    BY <2>7 DEF RunClone, FreshInv, TypeOK, diskVars, localVars, history,
       NoRecord, LocalInv, Local, WriteSteps, Created, Stopped, Running
  <2>8. CASE RunCloneFail(p)
    BY <2>8 DEF RunCloneFail, FreshInv, TypeOK, diskVars, localVars, history,
       NoRecord
  <2>9. CASE RunAddPid(p)
    BY <2>9 DEF RunAddPid, FreshInv, TypeOK, diskVars, localVars, history,
       NoRecord, LocalInv, Local, WriteSteps, Created, Stopped, Running
  <2>10. CASE RunWait(p)
    BY <2>10 DEF RunWait, Release, FreshInv, TypeOK, diskVars, localVars,
       history, NoRecord, LocalInv, Local, WriteSteps, Created, Stopped,
       Running
  <2>11. CASE SignalGone(p)
    BY <2>11 DEF SignalGone, FreshInv, TypeOK, diskVars, localVars, history,
       NoRecord
  <2>12. CASE SendTerm(p)
    BY <2>12 DEF SendTerm, FreshInv, TypeOK, diskVars, localVars, history,
       NoRecord
  <2>13. CASE SendKill(p)
    BY <2>13 DEF SendKill, FreshInv, TypeOK, diskVars, localVars, history,
       NoRecord, LocalInv, Local, WriteSteps, Created, Stopped, Running
  <2>14. CASE PollAgain(p)
    BY <2>14 DEF PollAgain, FreshInv, TypeOK, diskVars, localVars, history,
       NoRecord
  <2>15. CASE PollEnd(p)
    BY <2>15 DEF PollEnd, FreshInv, TypeOK, diskVars, localVars, history,
       NoRecord, LocalInv, Local, WriteSteps, Created, Stopped, Running
  <2>16. CASE CgRead(p)
    BY <2>16 DEF CgRead, FreshInv, TypeOK, diskVars, localVars, history,
       NoRecord
  <2>17. CASE CgMove(p)
    BY <2>17 DEF CgMove, FreshInv, TypeOK, diskVars, localVars, history,
       NoRecord
  <2>18. CASE CgRmdir(p)
    BY <2>18 DEF CgRmdir, FreshInv, TypeOK, diskVars, localVars, history,
       NoRecord
  <2>19. CASE RmUnlink(p)
    BY <2>19 DEF RmUnlink, FreshInv, TypeOK, diskVars, localVars, history,
       NoRecord, LocalInv, Local, WriteSteps, Created, Stopped, Running
  <2>20. CASE RmRmdir(p)
    BY <2>20 DEF RmRmdir, FreshInv, TypeOK, diskVars, localVars, history,
       NoRecord
  <2>21. CASE Return(p)
    BY <2>21 DEF Return, Forget, FreshInv, TypeOK, diskVars, localVars,
       history, NoRecord
  <2> QED
    BY <1>2, <2>1, <2>2, <2>3, <2>4, <2>5, <2>6, <2>7, <2>8, <2>9, <2>10,
       <2>11, <2>12, <2>13, <2>14, <2>15, <2>16, <2>17, <2>18, <2>19, <2>20,
       <2>21 DEF CmdStep
<1>3. ASSUME NEW p \in Procs, Crash(p) PROVE FreshInv'
  BY <1>3 DEF Crash, Forget, FreshInv, TypeOK, diskVars, localVars, history,
     NoRecord
<1>4. ASSUME NEW h \in Pids, Environment(h) PROVE FreshInv'
  BY <1>4, EnvironmentFrame DEF FreshInv, TypeOK, diskVars, localVars,
     history, NoRecord
<1> QED
  BY <1>1, <1>2, <1>3, <1>4 DEF Next

\* Every step keeps what the records may hold.
LEMMA RecordStep ==
  ASSUME TypeOK, LocalInv, FreshInv, RecordInv, Next
  PROVE  RecordInv'
<1>1. ASSUME NEW p \in Procs, CmdStart(p) PROVE RecordInv'
  <2>1. CASE RunRefused(p)
    BY <2>1, ParsedRecord DEF RunRefused, RecordInv, TypeOK, diskVars,
       localVars, history, RunOf, LocalInv, Local, Idle, NoRecord, Torn,
       Created, Stopped, Running, Removed
  <2>2. ASSUME NEW id \in Ids, RunStart(p, id) PROVE RecordInv'
    BY <2>2 DEF RunStart, RecordInv, TypeOK, diskVars, localVars, history,
       RunOf, FreshInv, LocalInv, Local, Idle, NoRecord, Torn, Created,
       Stopped, Running, Removed
  <2>3. ASSUME NEW id \in Ids, Inspect(p, id) PROVE RecordInv'
    BY <2>3, ParsedRecord DEF Inspect, Begin, RecordInv, TypeOK, diskVars,
       localVars, history, RunOf, LocalInv, Local, Idle, NoRecord, Torn,
       Created, Stopped, Running, Removed
  <2>4. ASSUME NEW id \in Ids, RemoveStart(p, id) PROVE RecordInv'
    BY <2>4, ParsedRecord DEF RemoveStart, Begin, RecordInv, TypeOK, diskVars,
       localVars, history, RunOf, LocalInv, Local, Idle, NoRecord, Torn,
       Created, Stopped, Running, Removed
  <2>5. ASSUME NEW id \in Ids, NEW o \in Ops, CmdRejected(p, o, id)
        PROVE  RecordInv'
    BY <2>5, ParsedRecord DEF CmdRejected, Begin, RecordInv, TypeOK, diskVars,
       localVars, history, RunOf, LocalInv, Local, Idle, NoRecord, Torn,
       Created, Stopped, Running, Removed
  <2>6. ASSUME NEW id \in Ids, NEW o \in Ops, SignalStart(p, o, id)
        PROVE  RecordInv'
    BY <2>6, ParsedRecord DEF SignalStart, Begin, RecordInv, TypeOK, diskVars,
       localVars, history, RunOf, LocalInv, Local, Idle, NoRecord, Torn,
       Created, Stopped, Running, Removed
  <2> QED
    BY <1>1, <2>1, <2>2, <2>3, <2>4, <2>5, <2>6 DEF CmdStart
<1>2. ASSUME NEW p \in Procs, CmdStep(p) PROVE RecordInv'
  <2>1. CASE WsMkdir(p)
    BY <2>1 DEF WsMkdir, RecordInv, TypeOK, diskVars, localVars, history,
       RunOf, LocalInv, Local, WriteSteps, NoRecord, Torn, Created, Stopped,
       Running, Removed
  <2>2. CASE WsOpen(p)
    BY <2>2 DEF WsOpen, RecordInv, TypeOK, diskVars, localVars, history,
       RunOf, LocalInv, Local, WriteSteps, NoRecord, Torn, Created, Stopped,
       Running, Removed
  <2>3. CASE WsNoDir(p)
    BY <2>3 DEF WsNoDir, RecordInv, TypeOK, diskVars, localVars, history,
       RunOf, LocalInv, Local, WriteSteps, NoRecord, Torn, Created, Stopped,
       Running, Removed, AfterWrite, PcAfterWrite
  <2>4. CASE WsFail(p)
    BY <2>4 DEF WsFail, RecordInv, TypeOK, diskVars, localVars, history,
       RunOf, LocalInv, Local, WriteSteps, NoRecord, Torn, Created, Stopped,
       Running, Removed, AfterWrite, PcAfterWrite
  <2>5. CASE WsFlush(p)
    BY <2>5 DEF WsFlush, RecordInv, TypeOK, diskVars, localVars, history,
       RunOf, LocalInv, Local, WriteSteps, NoRecord, Torn, Created, Stopped,
       Running, Removed, AfterWrite, PcAfterWrite
  <2>6. CASE WsFlushFail(p)
    BY <2>6 DEF WsFlushFail, RecordInv, TypeOK, diskVars, localVars, history,
       RunOf, LocalInv, Local, WriteSteps, NoRecord, Torn, Created, Stopped,
       Running, Removed, AfterWrite, PcAfterWrite
  <2>7. CASE RunClone(p)
      <3>1. /\ st[p] = Created /\ initOf[tgt[p]] = NoPid /\ tgt[p] \in Ids
            /\ op[p] = "run"
        BY <2>7 DEF RunClone, LocalInv, Local, RecordInv, RunOf
      <3>2. \A q \in Procs : tgt[q] = tgt[p] => st[q].pid \notin Pids
        BY <3>1, <2>7 DEF RecordInv
      <3>3. file[tgt[p]] # Running(NoPid) \/ NoPid \notin Pids
        BY PidAssumption
      <3>4. \A q \in Procs : RunOf(q, tgt[q]) /\ tgt[q] = tgt[p] => q = p
        BY <3>1 DEF FreshInv, RunOf
      <3> QED
        BY <2>7, <3>1, <3>2, <3>3, <3>4
           DEF RunClone, RecordInv, TypeOK, diskVars, localVars, history, RunOf,
           NoRecord, Torn, Created, Stopped, Running, Removed
  <2>8. CASE RunCloneFail(p)
    BY <2>8 DEF RunCloneFail, RecordInv, TypeOK, diskVars, localVars, history,
       RunOf, LocalInv, Local, WriteSteps, NoRecord, Torn, Created, Stopped,
       Running, Removed
  <2>9. CASE RunAddPid(p)
    BY <2>9 DEF RunAddPid, RecordInv, TypeOK, diskVars, localVars, history,
       RunOf, LocalInv, Local, WriteSteps, NoRecord, Torn, Created, Stopped,
       Running, Removed
  <2>10. CASE RunWait(p)
    BY <2>10 DEF RunWait, Release, RecordInv, TypeOK, diskVars, localVars,
       history, RunOf, LocalInv, Local, WriteSteps, NoRecord, Torn, Created,
       Stopped, Running, Removed
  <2>11. CASE SignalGone(p)
    BY <2>11 DEF SignalGone, RecordInv, TypeOK, diskVars, localVars, history,
       RunOf, LocalInv, Local, WriteSteps, NoRecord, Torn, Created, Stopped,
       Running, Removed
  <2>12. CASE SendTerm(p)
    BY <2>12 DEF SendTerm, RecordInv, TypeOK, diskVars, localVars, history,
       RunOf, LocalInv, Local, WriteSteps, NoRecord, Torn, Created, Stopped,
       Running, Removed
  <2>13. CASE SendKill(p)
    BY <2>13 DEF SendKill, RecordInv, TypeOK, diskVars, localVars, history,
       RunOf, LocalInv, Local, WriteSteps, NoRecord, Torn, Created, Stopped,
       Running, Removed
  <2>14. CASE PollAgain(p)
    BY <2>14 DEF PollAgain, RecordInv, TypeOK, diskVars, localVars, history,
       RunOf, LocalInv, Local, WriteSteps, NoRecord, Torn, Created, Stopped,
       Running, Removed
  <2>15. CASE PollEnd(p)
    BY <2>15 DEF PollEnd, RecordInv, TypeOK, diskVars, localVars, history,
       RunOf, LocalInv, Local, WriteSteps, NoRecord, Torn, Created, Stopped,
       Running, Removed
  <2>16. CASE CgRead(p)
    BY <2>16 DEF CgRead, RecordInv, TypeOK, diskVars, localVars, history,
       RunOf, LocalInv, Local, WriteSteps, NoRecord, Torn, Created, Stopped,
       Running, Removed
  <2>17. CASE CgMove(p)
    BY <2>17 DEF CgMove, RecordInv, TypeOK, diskVars, localVars, history,
       RunOf, LocalInv, Local, WriteSteps, NoRecord, Torn, Created, Stopped,
       Running, Removed
  <2>18. CASE CgRmdir(p)
    BY <2>18 DEF CgRmdir, RecordInv, TypeOK, diskVars, localVars, history,
       RunOf, LocalInv, Local, WriteSteps, NoRecord, Torn, Created, Stopped,
       Running, Removed
  <2>19. CASE RmUnlink(p)
    BY <2>19 DEF RmUnlink, RecordInv, TypeOK, diskVars, localVars, history,
       RunOf, LocalInv, Local, WriteSteps, NoRecord, Torn, Created, Stopped,
       Running, Removed
  <2>20. CASE RmRmdir(p)
    BY <2>20 DEF RmRmdir, RecordInv, TypeOK, diskVars, localVars, history,
       RunOf, LocalInv, Local, WriteSteps, NoRecord, Torn, Created, Stopped,
       Running, Removed
  <2>21. CASE Return(p)
    BY <2>21 DEF Return, Forget, RecordInv, TypeOK, diskVars, localVars,
       history, RunOf, LocalInv, Local, WriteSteps, NoRecord, Torn, Created,
       Stopped, Running, Removed
  <2> QED
    BY <1>2, <2>1, <2>2, <2>3, <2>4, <2>5, <2>6, <2>7, <2>8, <2>9, <2>10,
       <2>11, <2>12, <2>13, <2>14, <2>15, <2>16, <2>17, <2>18, <2>19, <2>20,
       <2>21 DEF CmdStep
<1>3. ASSUME NEW p \in Procs, Crash(p) PROVE RecordInv'
  BY <1>3 DEF Crash, Forget, RecordInv, TypeOK, diskVars, localVars, history,
     RunOf, NoRecord, Torn, Created, Stopped, Running, Removed
<1>4. ASSUME NEW h \in Pids, Environment(h) PROVE RecordInv'
  BY <1>4, EnvironmentFrame DEF RecordInv, TypeOK, diskVars, localVars,
     history, RunOf
<1> QED
  BY <1>1, <1>2, <1>3, <1>4 DEF Next

\* A record that is neither running nor stopped reads as "created".
LEMMA EarlyParsed ==
  ASSUME RecordInv, NEW id \in Ids, file[id] # NoRecord,
         recorded[id].status \notin {"running", "stopped"}
  PROVE  ParsedState(id).status = "created"
<1>1. CASE file[id] = Torn
  BY <1>1 DEF ParsedState, Created
<1>2. CASE file[id] # Torn
  <2>1. file[id] = recorded[id] /\ ParsedState(id) = file[id]
    BY <1>2 DEF RecordInv, ParsedState
  <2>2. \/ file[id] \in {Created, Stopped}
        \/ file[id] = Running(initOf[id])
    BY <1>2 DEF RecordInv
  <2> QED
    BY <2>1, <2>2 DEF Created, Stopped, Running
<1> QED BY <1>1, <1>2

\* The child of a container_run that owns one.
LEMMA OwnerFacts ==
  ASSUME TypeOK, LocalInv, NEW p \in Procs, Owner(p)
  PROVE  st[p].pid \in Pids /\ tgt[p] \in Ids /\ RunOf(p, tgt[p])
<1>1. pc[p] \in ProgramSteps
  BY DEF TypeOK
<1> QED
  BY <1>1 DEF LocalInv, Local, Owner, RunOf, ProgramSteps, WriteSteps, Created,
     Stopped, Idle

\* Every step keeps that nobody saw an early container run.
LEMMA OrderStep ==
  ASSUME TypeOK, LocalInv, FreshInv, RecordInv, OrderInv, Next
  PROVE  OrderInv'
<1>1. ASSUME NEW p \in Procs, CmdStart(p) PROVE OrderInv'
  <2>1. CASE RunRefused(p)
    BY <2>1, ParsedRecord DEF RunRefused, OrderInv, Early, TypeOK, diskVars,
       localVars, history, WriteSteps, RecordInv, LocalInv, Local, Idle,
       FreshInv, NoRecord, Torn, Created, Stopped, Running, Removed
  <2>2. ASSUME NEW id \in Ids, RunStart(p, id) PROVE OrderInv'
    BY <2>2, ParsedRecord DEF RunStart, OrderInv, Early, TypeOK, diskVars,
       localVars, history, WriteSteps, RecordInv, LocalInv, Local, Idle,
       FreshInv, NoRecord, Torn, Created, Stopped, Running, Removed
  <2>3. ASSUME NEW id \in Ids, Inspect(p, id) PROVE OrderInv'
      <3> SUFFICES ASSUME NEW r \in Procs, Early(r)'
                   PROVE  /\ recorded'[tgt'[r]].status \notin {"running", "stopped"}
                          /\ \A q \in Procs : q # r /\ tgt'[q] = tgt'[r] =>
                               st'[q].status \in {"none", "created"}
        BY DEF OrderInv
      <3>1. r # p /\ Early(r) /\ tgt'[r] = tgt[r] /\ UNCHANGED <<recorded, file>>
        BY <2>3 DEF Inspect, Begin, Early, TypeOK, diskVars, history
      <3>2. tgt[r] = id => ParsedState(id).status = "created"
        BY <3>1, <2>3, EarlyParsed DEF Inspect, OrderInv
      <3> QED
        BY <2>3, <3>1, <3>2 DEF Inspect, Begin, OrderInv, TypeOK
  <2>4. ASSUME NEW id \in Ids, RemoveStart(p, id) PROVE OrderInv'
      <3> SUFFICES ASSUME NEW r \in Procs, Early(r)'
                   PROVE  /\ recorded'[tgt'[r]].status \notin {"running", "stopped"}
                          /\ \A q \in Procs : q # r /\ tgt'[q] = tgt'[r] =>
                               st'[q].status \in {"none", "created"}
        BY DEF OrderInv
      <3>1. r # p /\ Early(r) /\ tgt'[r] = tgt[r] /\ UNCHANGED <<recorded, file>>
        BY <2>4 DEF RemoveStart, Begin, Early, TypeOK, diskVars, history
      <3>2. tgt[r] = id => ParsedState(id).status = "created"
        BY <3>1, <2>4, EarlyParsed DEF RemoveStart, OrderInv
      <3> QED
        BY <2>4, <3>1, <3>2 DEF RemoveStart, Begin, OrderInv, TypeOK
  <2>5. ASSUME NEW id \in Ids, NEW o \in Ops, CmdRejected(p, o, id)
        PROVE  OrderInv'
    BY <2>5, ParsedRecord DEF CmdRejected, Begin, OrderInv, Early, TypeOK,
       diskVars, localVars, history, WriteSteps, RecordInv, LocalInv, Local,
       Idle, FreshInv, NoRecord, Torn, Created, Stopped, Running, Removed
  <2>6. ASSUME NEW id \in Ids, NEW o \in Ops, SignalStart(p, o, id)
        PROVE  OrderInv'
      <3> SUFFICES ASSUME NEW r \in Procs, Early(r)'
                   PROVE  /\ recorded'[tgt'[r]].status \notin {"running", "stopped"}
                          /\ \A q \in Procs : q # r /\ tgt'[q] = tgt'[r] =>
                               st'[q].status \in {"none", "created"}
        BY DEF OrderInv
      <3>1. r # p /\ Early(r) /\ tgt'[r] = tgt[r] /\ UNCHANGED <<recorded, file>>
        BY <2>6 DEF SignalStart, Begin, Early, TypeOK, diskVars, history
      <3>2. tgt[r] = id => ParsedState(id).status = "created"
        BY <3>1, <2>6, EarlyParsed DEF SignalStart, OrderInv
      <3> QED
        BY <2>6, <3>1, <3>2 DEF SignalStart, Begin, OrderInv, TypeOK
  <2> QED
    BY <1>1, <2>1, <2>2, <2>3, <2>4, <2>5, <2>6 DEF CmdStart
<1>2. ASSUME NEW p \in Procs, CmdStep(p) PROVE OrderInv'
  <2>1. CASE WsMkdir(p)
    BY <2>1 DEF WsMkdir, OrderInv, Early, TypeOK, diskVars, localVars,
       history, WriteSteps, LocalInv, Local, FreshInv, NoRecord, Torn,
       Created, Stopped, Running, Removed
  <2>2. CASE WsOpen(p)
    BY <2>2 DEF WsOpen, OrderInv, Early, TypeOK, diskVars, localVars, history,
       WriteSteps, LocalInv, Local, FreshInv, NoRecord, Torn, Created,
       Stopped, Running, Removed
  <2>3. CASE WsNoDir(p)
    BY <2>3 DEF WsNoDir, OrderInv, Early, TypeOK, diskVars, localVars,
       history, WriteSteps, LocalInv, Local, FreshInv, AfterWrite,
       PcAfterWrite, NoRecord, Torn, Created, Stopped, Running, Removed
  <2>4. CASE WsFail(p)
    BY <2>4 DEF WsFail, OrderInv, Early, TypeOK, diskVars, localVars, history,
       WriteSteps, LocalInv, Local, FreshInv, AfterWrite, PcAfterWrite,
       NoRecord, Torn, Created, Stopped, Running, Removed
  <2>5. CASE WsFlush(p)
    BY <2>5 DEF WsFlush, OrderInv, Early, TypeOK, diskVars, localVars,
       history, WriteSteps, LocalInv, Local, FreshInv, AfterWrite,
       PcAfterWrite, NoRecord, Torn, Created, Stopped, Running, Removed
  <2>6. CASE WsFlushFail(p)
    BY <2>6 DEF WsFlushFail, OrderInv, Early, TypeOK, diskVars, localVars,
       history, WriteSteps, LocalInv, Local, FreshInv, AfterWrite,
       PcAfterWrite, NoRecord, Torn, Created, Stopped, Running, Removed
  <2>7. CASE RunClone(p)
    BY <2>7 DEF RunClone, OrderInv, Early, TypeOK, diskVars, localVars,
       history, WriteSteps, LocalInv, Local, FreshInv, NoRecord, Torn,
       Created, Stopped, Running, Removed
  <2>8. CASE RunCloneFail(p)
    BY <2>8 DEF RunCloneFail, OrderInv, Early, TypeOK, diskVars, localVars,
       history, WriteSteps, LocalInv, Local, FreshInv, NoRecord, Torn,
       Created, Stopped, Running, Removed
  <2>9. CASE RunAddPid(p)
    BY <2>9 DEF RunAddPid, OrderInv, Early, TypeOK, diskVars, localVars,
       history, WriteSteps, LocalInv, Local, FreshInv, NoRecord, Torn,
       Created, Stopped, Running, Removed
  <2>10. CASE RunWait(p)
    BY <2>10 DEF RunWait, Release, OrderInv, Early, TypeOK, diskVars,
       localVars, history, WriteSteps, LocalInv, Local, FreshInv, NoRecord,
       Torn, Created, Stopped, Running, Removed
  <2>11. CASE SignalGone(p)
    BY <2>11 DEF SignalGone, OrderInv, Early, TypeOK, diskVars, localVars,
       history, WriteSteps, LocalInv, Local, FreshInv, NoRecord, Torn,
       Created, Stopped, Running, Removed
  <2>12. CASE SendTerm(p)
    BY <2>12 DEF SendTerm, OrderInv, Early, TypeOK, diskVars, localVars,
       history, WriteSteps, LocalInv, Local, FreshInv, NoRecord, Torn,
       Created, Stopped, Running, Removed
  <2>13. CASE SendKill(p)
    BY <2>13 DEF SendKill, OrderInv, Early, TypeOK, diskVars, localVars,
       history, WriteSteps, LocalInv, Local, FreshInv, NoRecord, Torn,
       Created, Stopped, Running, Removed
  <2>14. CASE PollAgain(p)
    BY <2>14 DEF PollAgain, OrderInv, Early, TypeOK, diskVars, localVars,
       history, WriteSteps, LocalInv, Local, FreshInv, NoRecord, Torn,
       Created, Stopped, Running, Removed
  <2>15. CASE PollEnd(p)
    BY <2>15 DEF PollEnd, OrderInv, Early, TypeOK, diskVars, localVars,
       history, WriteSteps, LocalInv, Local, FreshInv, NoRecord, Torn,
       Created, Stopped, Running, Removed
  <2>16. CASE CgRead(p)
    BY <2>16 DEF CgRead, OrderInv, Early, TypeOK, diskVars, localVars,
       history, WriteSteps, LocalInv, Local, FreshInv, NoRecord, Torn,
       Created, Stopped, Running, Removed
  <2>17. CASE CgMove(p)
    BY <2>17 DEF CgMove, OrderInv, Early, TypeOK, diskVars, localVars,
       history, WriteSteps, LocalInv, Local, FreshInv, NoRecord, Torn,
       Created, Stopped, Running, Removed
  <2>18. CASE CgRmdir(p)
    BY <2>18 DEF CgRmdir, OrderInv, Early, TypeOK, diskVars, localVars,
       history, WriteSteps, LocalInv, Local, FreshInv, NoRecord, Torn,
       Created, Stopped, Running, Removed
  <2>19. CASE RmUnlink(p)
    BY <2>19 DEF RmUnlink, OrderInv, Early, TypeOK, diskVars, localVars,
       history, WriteSteps, LocalInv, Local, FreshInv, NoRecord, Torn,
       Created, Stopped, Running, Removed
  <2>20. CASE RmRmdir(p)
    BY <2>20 DEF RmRmdir, OrderInv, Early, TypeOK, diskVars, localVars,
       history, WriteSteps, LocalInv, Local, FreshInv, NoRecord, Torn,
       Created, Stopped, Running, Removed
  <2>21. CASE Return(p)
    BY <2>21 DEF Return, Forget, OrderInv, Early, TypeOK, diskVars, localVars,
       history, WriteSteps, LocalInv, Local, FreshInv, NoRecord, Torn,
       Created, Stopped, Running, Removed
  <2> QED
    BY <1>2, <2>1, <2>2, <2>3, <2>4, <2>5, <2>6, <2>7, <2>8, <2>9, <2>10,
       <2>11, <2>12, <2>13, <2>14, <2>15, <2>16, <2>17, <2>18, <2>19, <2>20,
       <2>21 DEF CmdStep
<1>3. ASSUME NEW p \in Procs, Crash(p) PROVE OrderInv'
  BY <1>3 DEF Crash, Forget, OrderInv, Early, TypeOK, diskVars, localVars,
     history, WriteSteps, NoRecord, Torn, Created, Stopped, Running, Removed
<1>4. ASSUME NEW h \in Pids, Environment(h) PROVE OrderInv'
  BY <1>4, EnvironmentFrame DEF OrderInv, Early, TypeOK, diskVars, localVars,
     history, WriteSteps
<1> QED
  BY <1>1, <1>2, <1>3, <1>4 DEF Next

\* Every step keeps an invocation of run in charge of its own child.
LEMMA ChildStep ==
  ASSUME TypeOK, LocalInv, FreshInv, OwnsItsChild, Next
  PROVE  OwnsItsChild'
<1>1. ASSUME NEW p \in Procs, CmdStart(p) PROVE OwnsItsChild'
  <2>1. CASE RunRefused(p)
    BY <2>1 DEF RunRefused, OwnsItsChild, Owner, IsInit, TypeOK, kernelVars,
       localVars, history, LocalInv, Local, Idle, NoRecord, Torn, Created,
       Stopped, Running, Removed
  <2>2. ASSUME NEW id \in Ids, RunStart(p, id) PROVE OwnsItsChild'
    BY <2>2 DEF RunStart, OwnsItsChild, Owner, IsInit, TypeOK, kernelVars,
       localVars, history, LocalInv, Local, Idle, NoRecord, Torn, Created,
       Stopped, Running, Removed
  <2>3. ASSUME NEW id \in Ids, Inspect(p, id) PROVE OwnsItsChild'
    BY <2>3 DEF Inspect, Begin, OwnsItsChild, Owner, IsInit, TypeOK,
       kernelVars, localVars, history, LocalInv, Local, Idle, NoRecord, Torn,
       Created, Stopped, Running, Removed
  <2>4. ASSUME NEW id \in Ids, RemoveStart(p, id) PROVE OwnsItsChild'
    BY <2>4 DEF RemoveStart, Begin, OwnsItsChild, Owner, IsInit, TypeOK,
       kernelVars, localVars, history, LocalInv, Local, Idle, NoRecord, Torn,
       Created, Stopped, Running, Removed
  <2>5. ASSUME NEW id \in Ids, NEW o \in Ops, CmdRejected(p, o, id)
        PROVE  OwnsItsChild'
    BY <2>5 DEF CmdRejected, Begin, OwnsItsChild, Owner, IsInit, TypeOK,
       kernelVars, localVars, history, LocalInv, Local, Idle, NoRecord, Torn,
       Created, Stopped, Running, Removed
  <2>6. ASSUME NEW id \in Ids, NEW o \in Ops, SignalStart(p, o, id)
        PROVE  OwnsItsChild'
    BY <2>6 DEF SignalStart, Begin, OwnsItsChild, Owner, IsInit, TypeOK,
       kernelVars, localVars, history, LocalInv, Local, Idle, NoRecord, Torn,
       Created, Stopped, Running, Removed
  <2> QED
    BY <1>1, <2>1, <2>2, <2>3, <2>4, <2>5, <2>6 DEF CmdStart
<1>2. ASSUME NEW p \in Procs, CmdStep(p) PROVE OwnsItsChild'
  <2>1. CASE WsMkdir(p)
    BY <2>1 DEF WsMkdir, OwnsItsChild, Owner, IsInit, TypeOK, kernelVars,
       localVars, history, LocalInv, Local, FreshInv, WriteSteps, NoRecord,
       Torn, Created, Stopped, Running, Removed
  <2>2. CASE WsOpen(p)
    BY <2>2 DEF WsOpen, OwnsItsChild, Owner, IsInit, TypeOK, kernelVars,
       localVars, history, LocalInv, Local, FreshInv, WriteSteps, NoRecord,
       Torn, Created, Stopped, Running, Removed
  <2>3. CASE WsNoDir(p)
    BY <2>3 DEF WsNoDir, OwnsItsChild, Owner, IsInit, TypeOK, kernelVars,
       localVars, history, LocalInv, Local, FreshInv, AfterWrite,
       PcAfterWrite, NoRecord, Torn, Created, Stopped, Running, Removed
  <2>4. CASE WsFail(p)
    BY <2>4 DEF WsFail, OwnsItsChild, Owner, IsInit, TypeOK, kernelVars,
       localVars, history, LocalInv, Local, FreshInv, AfterWrite,
       PcAfterWrite, NoRecord, Torn, Created, Stopped, Running, Removed
  <2>5. CASE WsFlush(p)
    BY <2>5 DEF WsFlush, OwnsItsChild, Owner, IsInit, TypeOK, kernelVars,
       localVars, history, LocalInv, Local, FreshInv, AfterWrite,
       PcAfterWrite, NoRecord, Torn, Created, Stopped, Running, Removed
  <2>6. CASE WsFlushFail(p)
    BY <2>6 DEF WsFlushFail, OwnsItsChild, Owner, IsInit, TypeOK, kernelVars,
       localVars, history, LocalInv, Local, FreshInv, AfterWrite,
       PcAfterWrite, NoRecord, Torn, Created, Stopped, Running, Removed
  <2>7. CASE RunClone(p)
    BY <2>7 DEF RunClone, OwnsItsChild, Owner, IsInit, TypeOK, kernelVars,
       localVars, history, LocalInv, Local, FreshInv, WriteSteps, NoRecord,
       Torn, Created, Stopped, Running, Removed
  <2>8. CASE RunCloneFail(p)
    BY <2>8 DEF RunCloneFail, OwnsItsChild, Owner, IsInit, TypeOK, kernelVars,
       localVars, history, LocalInv, Local, FreshInv, WriteSteps, NoRecord,
       Torn, Created, Stopped, Running, Removed
  <2>9. CASE RunAddPid(p)
    BY <2>9 DEF RunAddPid, OwnsItsChild, Owner, IsInit, TypeOK, kernelVars,
       localVars, history, LocalInv, Local, FreshInv, WriteSteps, NoRecord,
       Torn, Created, Stopped, Running, Removed
  <2>10. CASE RunWait(p)
      <3> SUFFICES ASSUME NEW q \in Procs, Owner(q)'
                   PROVE  IsInit(st[q].pid)' /\ ns'[st'[q].pid] = tgt[q]
        BY <2>10 DEF RunWait, OwnsItsChild, localVars
      <3>1. q # p /\ Owner(q) /\ st'[q] = st[q]
        BY <2>10 DEF RunWait, Owner, TypeOK, localVars, Stopped
      <3>2. Owner(p)
        BY <2>10 DEF RunWait, Owner, LocalInv, Local
      <3>3. tgt[q] # tgt[p]
        BY <3>1, <3>2, OwnerFacts DEF FreshInv, Owner
      <3>4. st[q].pid \in Pids /\ IsInit(st[q].pid) /\ ns[st[q].pid] # ns[st[p].pid]
            /\ ns[st[q].pid] = tgt[q]
        BY <3>1, <3>2, <3>3, OwnerFacts DEF OwnsItsChild
      <3> QED
        BY <2>10, <3>1, <3>4 DEF RunWait, Release, IsInit, TypeOK
  <2>11. CASE SignalGone(p)
    BY <2>11 DEF SignalGone, OwnsItsChild, Owner, IsInit, TypeOK, kernelVars,
       localVars, history, LocalInv, Local, FreshInv, WriteSteps, NoRecord,
       Torn, Created, Stopped, Running, Removed
  <2>12. CASE SendTerm(p)
    BY <2>12 DEF SendTerm, OwnsItsChild, Owner, IsInit, TypeOK, kernelVars,
       localVars, history, LocalInv, Local, FreshInv, WriteSteps, NoRecord,
       Torn, Created, Stopped, Running, Removed
  <2>13. CASE SendKill(p)
    BY <2>13 DEF SendKill, OwnsItsChild, Owner, IsInit, TypeOK, kernelVars,
       localVars, history, LocalInv, Local, FreshInv, WriteSteps, NoRecord,
       Torn, Created, Stopped, Running, Removed
  <2>14. CASE PollAgain(p)
    BY <2>14 DEF PollAgain, OwnsItsChild, Owner, IsInit, TypeOK, kernelVars,
       localVars, history, LocalInv, Local, FreshInv, WriteSteps, NoRecord,
       Torn, Created, Stopped, Running, Removed
  <2>15. CASE PollEnd(p)
    BY <2>15 DEF PollEnd, OwnsItsChild, Owner, IsInit, TypeOK, kernelVars,
       localVars, history, LocalInv, Local, FreshInv, WriteSteps, NoRecord,
       Torn, Created, Stopped, Running, Removed
  <2>16. CASE CgRead(p)
    BY <2>16 DEF CgRead, OwnsItsChild, Owner, IsInit, TypeOK, kernelVars,
       localVars, history, LocalInv, Local, FreshInv, WriteSteps, NoRecord,
       Torn, Created, Stopped, Running, Removed
  <2>17. CASE CgMove(p)
    BY <2>17 DEF CgMove, OwnsItsChild, Owner, IsInit, TypeOK, kernelVars,
       localVars, history, LocalInv, Local, FreshInv, WriteSteps, NoRecord,
       Torn, Created, Stopped, Running, Removed
  <2>18. CASE CgRmdir(p)
    BY <2>18 DEF CgRmdir, OwnsItsChild, Owner, IsInit, TypeOK, kernelVars,
       localVars, history, LocalInv, Local, FreshInv, WriteSteps, NoRecord,
       Torn, Created, Stopped, Running, Removed
  <2>19. CASE RmUnlink(p)
    BY <2>19 DEF RmUnlink, OwnsItsChild, Owner, IsInit, TypeOK, kernelVars,
       localVars, history, LocalInv, Local, FreshInv, WriteSteps, NoRecord,
       Torn, Created, Stopped, Running, Removed
  <2>20. CASE RmRmdir(p)
    BY <2>20 DEF RmRmdir, OwnsItsChild, Owner, IsInit, TypeOK, kernelVars,
       localVars, history, LocalInv, Local, FreshInv, WriteSteps, NoRecord,
       Torn, Created, Stopped, Running, Removed
  <2>21. CASE Return(p)
    BY <2>21 DEF Return, Forget, OwnsItsChild, Owner, IsInit, TypeOK,
       kernelVars, localVars, history, LocalInv, Local, FreshInv, WriteSteps,
       NoRecord, Torn, Created, Stopped, Running, Removed
  <2> QED
    BY <1>2, <2>1, <2>2, <2>3, <2>4, <2>5, <2>6, <2>7, <2>8, <2>9, <2>10,
       <2>11, <2>12, <2>13, <2>14, <2>15, <2>16, <2>17, <2>18, <2>19, <2>20,
       <2>21 DEF CmdStep
<1>3. ASSUME NEW p \in Procs, Crash(p) PROVE OwnsItsChild'
  BY <1>3 DEF Crash, Forget, OwnsItsChild, Owner, IsInit, TypeOK, kernelVars,
     localVars, history, NoRecord, Torn, Created, Stopped, Running, Removed
<1>4. ASSUME NEW h \in Pids, Environment(h) PROVE OwnsItsChild'
  <2>1. CASE ChildExec(h)
    BY <2>1 DEF ChildExec, OwnsItsChild, Owner, IsInit, TypeOK, kernelVars,
       localVars, history, LocalInv, Local, RunOf
  <2>2. CASE InitExit(h)
      <3> SUFFICES ASSUME NEW q \in Procs, Owner(q)
                   PROVE  IsInit(st[q].pid)' /\ ns'[st[q].pid] = tgt[q]
        BY <2>2 DEF InitExit, OwnsItsChild, Owner, IsInit, localVars
      <3>1. st[q].pid \in Pids /\ RunOf(q, tgt[q])
        BY OwnerFacts
      <3>2. IsInit(st[q].pid) /\ ns[st[q].pid] = tgt[q]
        BY DEF OwnsItsChild
      <3> QED
        BY <2>2, <3>1, <3>2 DEF InitExit, IsInit, TypeOK
  <2>3. CASE Fork(h)
    BY <2>3 DEF Fork, OwnsItsChild, Owner, IsInit, TypeOK, kernelVars,
       localVars, history, LocalInv, Local, RunOf
  <2>4. CASE OtherExit(h)
      <3> SUFFICES ASSUME NEW q \in Procs, Owner(q)
                   PROVE  IsInit(st[q].pid)' /\ ns'[st[q].pid] = tgt[q]
        BY <2>4 DEF OtherExit, OwnsItsChild, Owner, IsInit, localVars
      <3>1. st[q].pid \in Pids /\ RunOf(q, tgt[q])
        BY OwnerFacts
      <3>2. IsInit(st[q].pid) /\ ns[st[q].pid] = tgt[q]
        BY DEF OwnsItsChild
      <3> QED
        BY <2>4, <3>1, <3>2 DEF OtherExit, Release, IsInit, TypeOK
  <2>5. CASE HostReap(h)
      <3> SUFFICES ASSUME NEW q \in Procs, Owner(q)
                   PROVE  IsInit(st[q].pid)' /\ ns'[st[q].pid] = tgt[q]
        BY <2>5 DEF HostReap, OwnsItsChild, Owner, IsInit, localVars
      <3>1. st[q].pid \in Pids /\ RunOf(q, tgt[q])
        BY OwnerFacts
      <3>2. IsInit(st[q].pid) /\ ns[st[q].pid] = tgt[q]
        BY DEF OwnsItsChild
      <3> QED
        BY <2>5, <3>1, <3>2 DEF HostReap, Release, RunOf, IsInit, TypeOK
  <2>6. CASE ForeignSpawn(h)
    BY <2>6 DEF ForeignSpawn, OwnsItsChild, Owner, IsInit, TypeOK, kernelVars,
       localVars, history, LocalInv, Local, RunOf
  <2> QED
    BY <1>4, <2>1, <2>2, <2>3, <2>4, <2>5, <2>6 DEF Environment
<1> QED
  BY <1>1, <1>2, <1>3, <1>4 DEF Next

\* Every step keeps that a write into an unlinked file comes too late to matter.
LEMMA StaleStep ==
  ASSUME TypeOK, LocalInv, FreshInv, RecordInv, StaleInv, Next
  PROVE  StaleInv'
<1>1. ASSUME NEW p \in Procs, CmdStart(p) PROVE StaleInv'
  <2>1. CASE RunRefused(p)
    BY <2>1 DEF RunRefused, StaleInv, TypeOK, localVars, history, LocalInv,
       Local, Idle, NoRecord, Torn, Created, Stopped, Running, Removed
  <2>2. ASSUME NEW id \in Ids, RunStart(p, id) PROVE StaleInv'
    BY <2>2 DEF RunStart, StaleInv, TypeOK, localVars, history, LocalInv,
       Local, Idle, NoRecord, Torn, Created, Stopped, Running, Removed
  <2>3. ASSUME NEW id \in Ids, Inspect(p, id) PROVE StaleInv'
    BY <2>3 DEF Inspect, Begin, StaleInv, TypeOK, localVars, history,
       LocalInv, Local, Idle, NoRecord, Torn, Created, Stopped, Running,
       Removed
  <2>4. ASSUME NEW id \in Ids, RemoveStart(p, id) PROVE StaleInv'
    BY <2>4 DEF RemoveStart, Begin, StaleInv, TypeOK, localVars, history,
       LocalInv, Local, Idle, NoRecord, Torn, Created, Stopped, Running,
       Removed
  <2>5. ASSUME NEW id \in Ids, NEW o \in Ops, CmdRejected(p, o, id)
        PROVE  StaleInv'
    BY <2>5 DEF CmdRejected, Begin, StaleInv, TypeOK, localVars, history,
       LocalInv, Local, Idle, NoRecord, Torn, Created, Stopped, Running,
       Removed
  <2>6. ASSUME NEW id \in Ids, NEW o \in Ops, SignalStart(p, o, id)
        PROVE  StaleInv'
    BY <2>6 DEF SignalStart, Begin, StaleInv, TypeOK, localVars, history,
       LocalInv, Local, Idle, NoRecord, Torn, Created, Stopped, Running,
       Removed
  <2> QED
    BY <1>1, <2>1, <2>2, <2>3, <2>4, <2>5, <2>6 DEF CmdStart
<1>2. ASSUME NEW p \in Procs, CmdStep(p) PROVE StaleInv'
  <2>1. CASE WsMkdir(p)
    BY <2>1 DEF WsMkdir, StaleInv, TypeOK, localVars, history, LocalInv,
       Local, WriteSteps, FreshInv, NoRecord, Torn, Created, Stopped, Running,
       Removed
  <2>2. CASE WsOpen(p)
    BY <2>2 DEF WsOpen, StaleInv, TypeOK, localVars, history, LocalInv, Local,
       WriteSteps, FreshInv, NoRecord, Torn, Created, Stopped, Running,
       Removed
  <2>3. CASE WsNoDir(p)
    BY <2>3 DEF WsNoDir, StaleInv, TypeOK, localVars, history, LocalInv,
       Local, AfterWrite, WriteSteps, FreshInv, NoRecord, Torn, Created,
       Stopped, Running, Removed
  <2>4. CASE WsFail(p)
    BY <2>4 DEF WsFail, StaleInv, TypeOK, localVars, history, LocalInv, Local,
       AfterWrite, WriteSteps, FreshInv, NoRecord, Torn, Created, Stopped,
       Running, Removed
  <2>5. CASE WsFlush(p)
    BY <2>5 DEF WsFlush, StaleInv, TypeOK, localVars, history, LocalInv,
       Local, AfterWrite, WriteSteps, FreshInv, NoRecord, Torn, Created,
       Stopped, Running, Removed
  <2>6. CASE WsFlushFail(p)
    BY <2>6 DEF WsFlushFail, StaleInv, TypeOK, localVars, history, LocalInv,
       Local, AfterWrite, WriteSteps, FreshInv, NoRecord, Torn, Created,
       Stopped, Running, Removed
  <2>7. CASE RunClone(p)
    BY <2>7 DEF RunClone, StaleInv, TypeOK, localVars, history, LocalInv,
       Local, WriteSteps, FreshInv, NoRecord, Torn, Created, Stopped, Running,
       Removed
  <2>8. CASE RunCloneFail(p)
    BY <2>8 DEF RunCloneFail, StaleInv, TypeOK, localVars, history, LocalInv,
       Local, WriteSteps, FreshInv, NoRecord, Torn, Created, Stopped, Running,
       Removed
  <2>9. CASE RunAddPid(p)
    BY <2>9 DEF RunAddPid, StaleInv, TypeOK, localVars, history, LocalInv,
       Local, WriteSteps, FreshInv, NoRecord, Torn, Created, Stopped, Running,
       Removed
  <2>10. CASE RunWait(p)
    <3>1. fd[p] = "none" /\ UNCHANGED <<fd, op, tgt, recorded>>
      BY <2>10 DEF RunWait, localVars, history, LocalInv, Local, TypeOK
    <3>2. \A q \in Procs : q # p => st'[q] = st[q]
      BY <2>10 DEF RunWait, TypeOK
    <3> QED
      BY <3>1, <3>2 DEF StaleInv
  <2>11. CASE SignalGone(p)
    BY <2>11 DEF SignalGone, StaleInv, TypeOK, localVars, history, LocalInv,
       Local, WriteSteps, FreshInv, NoRecord, Torn, Created, Stopped, Running,
       Removed
  <2>12. CASE SendTerm(p)
    BY <2>12 DEF SendTerm, StaleInv, TypeOK, localVars, history, LocalInv,
       Local, WriteSteps, FreshInv, NoRecord, Torn, Created, Stopped, Running,
       Removed
  <2>13. CASE SendKill(p)
    BY <2>13 DEF SendKill, StaleInv, TypeOK, localVars, history, LocalInv,
       Local, WriteSteps, FreshInv, NoRecord, Torn, Created, Stopped, Running,
       Removed
  <2>14. CASE PollAgain(p)
    BY <2>14 DEF PollAgain, StaleInv, TypeOK, localVars, history, LocalInv,
       Local, WriteSteps, FreshInv, NoRecord, Torn, Created, Stopped, Running,
       Removed
  <2>15. CASE PollEnd(p)
    BY <2>15 DEF PollEnd, StaleInv, TypeOK, localVars, history, LocalInv,
       Local, WriteSteps, FreshInv, NoRecord, Torn, Created, Stopped, Running,
       Removed
  <2>16. CASE CgRead(p)
    BY <2>16 DEF CgRead, StaleInv, TypeOK, localVars, history, LocalInv,
       Local, WriteSteps, FreshInv, NoRecord, Torn, Created, Stopped, Running,
       Removed
  <2>17. CASE CgMove(p)
    BY <2>17 DEF CgMove, StaleInv, TypeOK, localVars, history, LocalInv,
       Local, WriteSteps, FreshInv, NoRecord, Torn, Created, Stopped, Running,
       Removed
  <2>18. CASE CgRmdir(p)
    BY <2>18 DEF CgRmdir, StaleInv, TypeOK, localVars, history, LocalInv,
       Local, WriteSteps, FreshInv, NoRecord, Torn, Created, Stopped, Running,
       Removed
  <2>19. CASE RmUnlink(p)
    BY <2>19 DEF RmUnlink, StaleInv, TypeOK, localVars, history, LocalInv,
       Local, RecordInv, FreshInv, NoRecord, Torn, Created, Stopped, Running,
       Removed
  <2>20. CASE RmRmdir(p)
    BY <2>20 DEF RmRmdir, StaleInv, TypeOK, localVars, history, LocalInv,
       Local, WriteSteps, FreshInv, NoRecord, Torn, Created, Stopped, Running,
       Removed
  <2>21. CASE Return(p)
    BY <2>21 DEF Return, Forget, StaleInv, TypeOK, localVars, history,
       LocalInv, Local, WriteSteps, FreshInv, NoRecord, Torn, Created,
       Stopped, Running, Removed
  <2> QED
    BY <1>2, <2>1, <2>2, <2>3, <2>4, <2>5, <2>6, <2>7, <2>8, <2>9, <2>10,
       <2>11, <2>12, <2>13, <2>14, <2>15, <2>16, <2>17, <2>18, <2>19, <2>20,
       <2>21 DEF CmdStep
<1>3. ASSUME NEW p \in Procs, Crash(p) PROVE StaleInv'
  BY <1>3 DEF Crash, Forget, StaleInv, TypeOK, localVars, history
<1>4. ASSUME NEW h \in Pids, Environment(h) PROVE StaleInv'
  BY <1>4, EnvironmentFrame DEF StaleInv, TypeOK, localVars, history
<1> QED
  BY <1>1, <1>2, <1>3, <1>4 DEF Next

\* Every step keeps that only a container with an init charges processes.
LEMMA ChargeStep ==
  ASSUME TypeOK, LocalInv, RecordInv, ChargeInv, Next
  PROVE  ChargeInv'
<1>1. ASSUME NEW p \in Procs, CmdStart(p) PROVE ChargeInv'
  <2>1. CASE RunRefused(p)
    BY <2>1 DEF RunRefused, ChargeInv, TypeOK, kernelVars, history
  <2>2. ASSUME NEW id \in Ids, RunStart(p, id) PROVE ChargeInv'
    BY <2>2 DEF RunStart, ChargeInv, TypeOK, kernelVars, history
  <2>3. ASSUME NEW id \in Ids, Inspect(p, id) PROVE ChargeInv'
    BY <2>3 DEF Inspect, Begin, ChargeInv, TypeOK, kernelVars, history
  <2>4. ASSUME NEW id \in Ids, RemoveStart(p, id) PROVE ChargeInv'
    BY <2>4 DEF RemoveStart, Begin, ChargeInv, TypeOK, kernelVars, history
  <2>5. ASSUME NEW id \in Ids, NEW o \in Ops, CmdRejected(p, o, id)
        PROVE  ChargeInv'
    BY <2>5 DEF CmdRejected, Begin, ChargeInv, TypeOK, kernelVars, history
  <2>6. ASSUME NEW id \in Ids, NEW o \in Ops, SignalStart(p, o, id)
        PROVE  ChargeInv'
    BY <2>6 DEF SignalStart, Begin, ChargeInv, TypeOK, kernelVars, history
  <2> QED
    BY <1>1, <2>1, <2>2, <2>3, <2>4, <2>5, <2>6 DEF CmdStart
<1>2. ASSUME NEW p \in Procs, CmdStep(p) PROVE ChargeInv'
  <2>1. CASE WsMkdir(p)
    BY <2>1 DEF WsMkdir, ChargeInv, TypeOK, kernelVars, history
  <2>2. CASE WsOpen(p)
    BY <2>2 DEF WsOpen, ChargeInv, TypeOK, kernelVars, history
  <2>3. CASE WsNoDir(p)
    BY <2>3 DEF WsNoDir, ChargeInv, TypeOK, kernelVars, history
  <2>4. CASE WsFail(p)
    BY <2>4 DEF WsFail, ChargeInv, TypeOK, kernelVars, history
  <2>5. CASE WsFlush(p)
    BY <2>5 DEF WsFlush, ChargeInv, TypeOK, kernelVars, history
  <2>6. CASE WsFlushFail(p)
    BY <2>6 DEF WsFlushFail, ChargeInv, TypeOK, kernelVars, history
  <2>7. CASE RunClone(p)
    BY <2>7 DEF RunClone, ChargeInv, TypeOK, kernelVars, history
  <2>8. CASE RunCloneFail(p)
    BY <2>8 DEF RunCloneFail, ChargeInv, TypeOK, kernelVars, history
  <2>9. CASE RunAddPid(p)
    <3>1. initOf[tgt[p]] \in Pids /\ initOf' = initOf
      BY <2>9 DEF RunAddPid, LocalInv, Local, RecordInv
    <3>2. \A h \in Pids : cgOf'[h] \in {cgOf[h], tgt[p]}
      BY <2>9 DEF RunAddPid, TypeOK
    <3> QED
      BY <3>1, <3>2 DEF ChargeInv
  <2>10. CASE RunWait(p)
    BY <2>10 DEF RunWait, Release, ChargeInv, TypeOK, kernelVars, history,
       Release
  <2>11. CASE SignalGone(p)
    BY <2>11 DEF SignalGone, ChargeInv, TypeOK, kernelVars, history
  <2>12. CASE SendTerm(p)
    BY <2>12 DEF SendTerm, ChargeInv, TypeOK, kernelVars, history
  <2>13. CASE SendKill(p)
    BY <2>13 DEF SendKill, ChargeInv, TypeOK, kernelVars, history
  <2>14. CASE PollAgain(p)
    BY <2>14 DEF PollAgain, ChargeInv, TypeOK, kernelVars, history
  <2>15. CASE PollEnd(p)
    BY <2>15 DEF PollEnd, ChargeInv, TypeOK, kernelVars, history
  <2>16. CASE CgRead(p)
    BY <2>16 DEF CgRead, ChargeInv, TypeOK, kernelVars, history
  <2>17. CASE CgMove(p)
    BY <2>17 DEF CgMove, ChargeInv, TypeOK, kernelVars, history
  <2>18. CASE CgRmdir(p)
    BY <2>18 DEF CgRmdir, ChargeInv, TypeOK, kernelVars, history
  <2>19. CASE RmUnlink(p)
    BY <2>19 DEF RmUnlink, ChargeInv, TypeOK, kernelVars, history
  <2>20. CASE RmRmdir(p)
    BY <2>20 DEF RmRmdir, ChargeInv, TypeOK, kernelVars, history
  <2>21. CASE Return(p)
    BY <2>21 DEF Return, Forget, ChargeInv, TypeOK, kernelVars, history
  <2> QED
    BY <1>2, <2>1, <2>2, <2>3, <2>4, <2>5, <2>6, <2>7, <2>8, <2>9, <2>10,
       <2>11, <2>12, <2>13, <2>14, <2>15, <2>16, <2>17, <2>18, <2>19, <2>20,
       <2>21 DEF CmdStep
<1>3. ASSUME NEW p \in Procs, Crash(p) PROVE ChargeInv'
  BY <1>3 DEF Crash, Forget, ChargeInv, TypeOK, kernelVars, history
<1>4. ASSUME NEW h \in Pids, Environment(h) PROVE ChargeInv'
  <2>1. CASE ChildExec(h)
    BY <2>1 DEF ChildExec, ChargeInv, TypeOK, kernelVars, history
  <2>2. CASE InitExit(h)
    BY <2>2 DEF InitExit, ChargeInv, TypeOK, kernelVars, history
  <2>3. CASE Fork(h)
    BY <2>3 DEF Fork, ChargeInv, TypeOK, kernelVars, history
  <2>4. CASE OtherExit(h)
    BY <2>4 DEF OtherExit, Release, ChargeInv, TypeOK, kernelVars, history,
       Release
  <2>5. CASE HostReap(h)
    BY <2>5 DEF HostReap, Release, ChargeInv, TypeOK, kernelVars, history,
       Release
  <2>6. CASE ForeignSpawn(h)
    BY <2>6 DEF ForeignSpawn, ChargeInv, TypeOK, kernelVars, history
  <2> QED
    BY <1>4, <2>1, <2>2, <2>3, <2>4, <2>5, <2>6 DEF Environment
<1> QED
  BY <1>1, <1>2, <1>3, <1>4 DEF Next

\* Every step keeps an empty state.json in the hands of a writer.
LEMMA TornStep ==
  ASSUME TypeOK, LocalInv, TornIsTransient, Next
  PROVE  TornIsTransient'
<1>1. ASSUME NEW p \in Procs, CmdStart(p) PROVE TornIsTransient'
  <2>1. CASE RunRefused(p)
    BY <2>1 DEF RunRefused, TornIsTransient, TypeOK, diskVars, localVars,
       history, LocalInv, Local
  <2>2. ASSUME NEW id \in Ids, RunStart(p, id) PROVE TornIsTransient'
    BY <2>2 DEF RunStart, TornIsTransient, TypeOK, diskVars, localVars,
       history, LocalInv, Local
  <2>3. ASSUME NEW id \in Ids, Inspect(p, id) PROVE TornIsTransient'
    BY <2>3 DEF Inspect, Begin, TornIsTransient, TypeOK, diskVars, localVars,
       history, LocalInv, Local
  <2>4. ASSUME NEW id \in Ids, RemoveStart(p, id) PROVE TornIsTransient'
    BY <2>4 DEF RemoveStart, Begin, TornIsTransient, TypeOK, diskVars,
       localVars, history, LocalInv, Local
  <2>5. ASSUME NEW id \in Ids, NEW o \in Ops, CmdRejected(p, o, id)
        PROVE  TornIsTransient'
    BY <2>5 DEF CmdRejected, Begin, TornIsTransient, TypeOK, diskVars,
       localVars, history, LocalInv, Local
  <2>6. ASSUME NEW id \in Ids, NEW o \in Ops, SignalStart(p, o, id)
        PROVE  TornIsTransient'
    BY <2>6 DEF SignalStart, Begin, TornIsTransient, TypeOK, diskVars,
       localVars, history, LocalInv, Local
  <2> QED
    BY <1>1, <2>1, <2>2, <2>3, <2>4, <2>5, <2>6 DEF CmdStart
<1>2. ASSUME NEW p \in Procs, CmdStep(p) PROVE TornIsTransient'
  <2>1. CASE WsMkdir(p)
    BY <2>1 DEF WsMkdir, TornIsTransient, TypeOK, diskVars, localVars,
       history, LocalInv, Local
  <2>2. CASE WsOpen(p)
    BY <2>2 DEF WsOpen, TornIsTransient, TypeOK, diskVars, localVars, history,
       LocalInv, Local
  <2>3. CASE WsNoDir(p)
    BY <2>3 DEF WsNoDir, TornIsTransient, TypeOK, diskVars, localVars,
       history, LocalInv, Local
  <2>4. CASE WsFail(p)
    BY <2>4 DEF WsFail, TornIsTransient, TypeOK, diskVars, localVars, history,
       LocalInv, Local
  <2>5. CASE WsFlush(p)
      <3> SUFFICES ASSUME NEW i \in Ids, file'[i] = Torn, i \notin hurt'
                   PROVE  \E q \in Procs : fd'[q] = "open" /\ tgt'[q] = i
        BY DEF TornIsTransient
      <3>1. st[p] # Torn
        <4>1. st[p].status # "torn"
          BY DEF TypeOK, Statuses
        <4> QED
          BY <4>1 DEF Torn
      <3>2. i # tgt[p] \/ fd[p] # "open"
        BY <2>5, <3>1 DEF WsFlush, TypeOK
      <3>3. PICK q \in Procs : fd[q] = "open" /\ tgt[q] = i
        BY <2>5, <3>2 DEF WsFlush, TypeOK, TornIsTransient
      <3>4. q # p
        BY <3>2, <3>3
      <3> QED
        BY <2>5, <3>3, <3>4 DEF WsFlush, TypeOK, localVars
  <2>6. CASE WsFlushFail(p)
    BY <2>6 DEF WsFlushFail, TornIsTransient, TypeOK, diskVars, localVars,
       history, LocalInv, Local
  <2>7. CASE RunClone(p)
    BY <2>7 DEF RunClone, TornIsTransient, TypeOK, diskVars, localVars,
       history, LocalInv, Local
  <2>8. CASE RunCloneFail(p)
    BY <2>8 DEF RunCloneFail, TornIsTransient, TypeOK, diskVars, localVars,
       history, LocalInv, Local
  <2>9. CASE RunAddPid(p)
    BY <2>9 DEF RunAddPid, TornIsTransient, TypeOK, diskVars, localVars,
       history, LocalInv, Local
  <2>10. CASE RunWait(p)
    BY <2>10 DEF RunWait, Release, TornIsTransient, TypeOK, diskVars,
       localVars, history, LocalInv, Local
  <2>11. CASE SignalGone(p)
    BY <2>11 DEF SignalGone, TornIsTransient, TypeOK, diskVars, localVars,
       history, LocalInv, Local
  <2>12. CASE SendTerm(p)
    BY <2>12 DEF SendTerm, TornIsTransient, TypeOK, diskVars, localVars,
       history, LocalInv, Local
  <2>13. CASE SendKill(p)
    BY <2>13 DEF SendKill, TornIsTransient, TypeOK, diskVars, localVars,
       history, LocalInv, Local
  <2>14. CASE PollAgain(p)
    BY <2>14 DEF PollAgain, TornIsTransient, TypeOK, diskVars, localVars,
       history, LocalInv, Local
  <2>15. CASE PollEnd(p)
    BY <2>15 DEF PollEnd, TornIsTransient, TypeOK, diskVars, localVars,
       history, LocalInv, Local
  <2>16. CASE CgRead(p)
    BY <2>16 DEF CgRead, TornIsTransient, TypeOK, diskVars, localVars,
       history, LocalInv, Local
  <2>17. CASE CgMove(p)
    BY <2>17 DEF CgMove, TornIsTransient, TypeOK, diskVars, localVars,
       history, LocalInv, Local
  <2>18. CASE CgRmdir(p)
    BY <2>18 DEF CgRmdir, TornIsTransient, TypeOK, diskVars, localVars,
       history, LocalInv, Local
  <2>19. CASE RmUnlink(p)
    BY <2>19 DEF RmUnlink, TornIsTransient, TypeOK, diskVars, localVars,
       history, NoRecord, Torn, Created, Stopped, Running, Removed
  <2>20. CASE RmRmdir(p)
    BY <2>20 DEF RmRmdir, TornIsTransient, TypeOK, diskVars, localVars,
       history, LocalInv, Local
  <2>21. CASE Return(p)
    BY <2>21 DEF Return, Forget, TornIsTransient, TypeOK, diskVars, localVars,
       history, LocalInv, Local
  <2> QED
    BY <1>2, <2>1, <2>2, <2>3, <2>4, <2>5, <2>6, <2>7, <2>8, <2>9, <2>10,
       <2>11, <2>12, <2>13, <2>14, <2>15, <2>16, <2>17, <2>18, <2>19, <2>20,
       <2>21 DEF CmdStep
<1>3. ASSUME NEW p \in Procs, Crash(p) PROVE TornIsTransient'
  BY <1>3 DEF Crash, Forget, TornIsTransient, TypeOK, diskVars, localVars,
     history
<1>4. ASSUME NEW h \in Pids, Environment(h) PROVE TornIsTransient'
  BY <1>4, EnvironmentFrame DEF TornIsTransient, TypeOK, diskVars, localVars,
     history
<1> QED
  BY <1>1, <1>2, <1>3, <1>4 DEF Next

\* Every step keeps that a failed run leaves no cgroup.
LEMMA CleanStep ==
  ASSUME TypeOK, LocalInv, FreshInv, RecordInv, ChargeInv, RunErrorCleansCgroup, Next
  PROVE  RunErrorCleansCgroup'
<1>1. ASSUME NEW p \in Procs, CmdStart(p) PROVE RunErrorCleansCgroup'
  <2>1. CASE RunRefused(p)
    BY <2>1, IdAssumption DEF RunRefused, RunErrorCleansCgroup, TypeOK,
       diskVars, localVars, history, LocalInv, Local, Idle
  <2>2. ASSUME NEW id \in Ids, RunStart(p, id) PROVE RunErrorCleansCgroup'
    BY <2>2 DEF RunStart, RunErrorCleansCgroup, TypeOK, diskVars, localVars,
       history, FreshInv
  <2>3. ASSUME NEW id \in Ids, Inspect(p, id) PROVE RunErrorCleansCgroup'
    BY <2>3 DEF Inspect, Begin, RunErrorCleansCgroup, TypeOK, diskVars,
       localVars, history, LocalInv, Local
  <2>4. ASSUME NEW id \in Ids, RemoveStart(p, id) PROVE RunErrorCleansCgroup'
    BY <2>4 DEF RemoveStart, Begin, RunErrorCleansCgroup, TypeOK, diskVars,
       localVars, history, LocalInv, Local
  <2>5. ASSUME NEW id \in Ids, NEW o \in Ops, CmdRejected(p, o, id)
        PROVE  RunErrorCleansCgroup'
      <3>1. o # "run"
        BY OpsAssumption
      <3> QED
        BY <2>5, <3>1 DEF CmdRejected, Begin, RunErrorCleansCgroup, TypeOK, diskVars
  <2>6. ASSUME NEW id \in Ids, NEW o \in Ops, SignalStart(p, o, id)
        PROVE  RunErrorCleansCgroup'
    BY <2>6 DEF SignalStart, Begin, RunErrorCleansCgroup, TypeOK, diskVars,
       localVars, history, LocalInv, Local
  <2> QED
    BY <1>1, <2>1, <2>2, <2>3, <2>4, <2>5, <2>6 DEF CmdStart
<1>2. ASSUME NEW p \in Procs, CmdStep(p) PROVE RunErrorCleansCgroup'
  <2>1. CASE WsMkdir(p)
    BY <2>1 DEF WsMkdir, RunErrorCleansCgroup, TypeOK, diskVars, localVars,
       history, LocalInv, Local
  <2>2. CASE WsOpen(p)
    BY <2>2 DEF WsOpen, RunErrorCleansCgroup, TypeOK, diskVars, localVars,
       history, LocalInv, Local
  <2>3. CASE WsNoDir(p)
    BY <2>3 DEF WsNoDir, RunErrorCleansCgroup, TypeOK, diskVars, localVars,
       history, LocalInv, Local, AfterWrite, PcAfterWrite, WriteSteps,
       NoRecord, Torn, Created, Stopped, Running, Removed
  <2>4. CASE WsFail(p)
    BY <2>4 DEF WsFail, RunErrorCleansCgroup, TypeOK, diskVars, localVars,
       history, LocalInv, Local, AfterWrite, PcAfterWrite, WriteSteps,
       NoRecord, Torn, Created, Stopped, Running, Removed
  <2>5. CASE WsFlush(p)
    BY <2>5 DEF WsFlush, RunErrorCleansCgroup, TypeOK, diskVars, localVars,
       history, LocalInv, Local, AfterWrite, PcAfterWrite, WriteSteps,
       NoRecord, Torn, Created, Stopped, Running, Removed
  <2>6. CASE WsFlushFail(p)
    BY <2>6 DEF WsFlushFail, RunErrorCleansCgroup, TypeOK, diskVars,
       localVars, history, LocalInv, Local, AfterWrite, PcAfterWrite,
       WriteSteps, NoRecord, Torn, Created, Stopped, Running, Removed
  <2>7. CASE RunClone(p)
    BY <2>7 DEF RunClone, RunErrorCleansCgroup, TypeOK, diskVars, localVars,
       history, LocalInv, Local
  <2>8. CASE RunCloneFail(p)
    BY <2>8 DEF RunCloneFail, RunErrorCleansCgroup, TypeOK, diskVars,
       localVars, history, LocalInv, Local
  <2>9. CASE RunAddPid(p)
    BY <2>9 DEF RunAddPid, RunErrorCleansCgroup, TypeOK, diskVars, localVars,
       history, LocalInv, Local
  <2>10. CASE RunWait(p)
    BY <2>10 DEF RunWait, Release, RunErrorCleansCgroup, TypeOK, diskVars,
       localVars, history, LocalInv, Local
  <2>11. CASE SignalGone(p)
    BY <2>11 DEF SignalGone, RunErrorCleansCgroup, TypeOK, diskVars,
       localVars, history, LocalInv, Local
  <2>12. CASE SendTerm(p)
    BY <2>12 DEF SendTerm, RunErrorCleansCgroup, TypeOK, diskVars, localVars,
       history, LocalInv, Local
  <2>13. CASE SendKill(p)
    BY <2>13 DEF SendKill, RunErrorCleansCgroup, TypeOK, diskVars, localVars,
       history, LocalInv, Local
  <2>14. CASE PollAgain(p)
    BY <2>14 DEF PollAgain, RunErrorCleansCgroup, TypeOK, diskVars, localVars,
       history, LocalInv, Local
  <2>15. CASE PollEnd(p)
    BY <2>15 DEF PollEnd, RunErrorCleansCgroup, TypeOK, diskVars, localVars,
       history, LocalInv, Local
  <2>16. CASE CgRead(p)
    BY <2>16 DEF CgRead, RunErrorCleansCgroup, TypeOK, diskVars, localVars,
       history, LocalInv, Local
  <2>17. CASE CgMove(p)
    BY <2>17 DEF CgMove, RunErrorCleansCgroup, TypeOK, diskVars, localVars,
       history, LocalInv, Local
  <2>18. CASE CgRmdir(p)
    BY <2>18 DEF CgRmdir, RunErrorCleansCgroup, TypeOK, diskVars, localVars,
       history, LocalInv, Local, ChargeInv, RecordInv, RunOf
  <2>19. CASE RmUnlink(p)
    BY <2>19 DEF RmUnlink, RunErrorCleansCgroup, TypeOK, diskVars, localVars,
       history, LocalInv, Local
  <2>20. CASE RmRmdir(p)
    BY <2>20 DEF RmRmdir, RunErrorCleansCgroup, TypeOK, diskVars, localVars,
       history, LocalInv, Local
  <2>21. CASE Return(p)
    BY <2>21 DEF Return, Forget, RunErrorCleansCgroup, TypeOK, diskVars,
       localVars, history, LocalInv, Local
  <2> QED
    BY <1>2, <2>1, <2>2, <2>3, <2>4, <2>5, <2>6, <2>7, <2>8, <2>9, <2>10,
       <2>11, <2>12, <2>13, <2>14, <2>15, <2>16, <2>17, <2>18, <2>19, <2>20,
       <2>21 DEF CmdStep
<1>3. ASSUME NEW p \in Procs, Crash(p) PROVE RunErrorCleansCgroup'
  BY <1>3 DEF Crash, Forget, RunErrorCleansCgroup, TypeOK, diskVars,
     localVars, history
<1>4. ASSUME NEW h \in Pids, Environment(h) PROVE RunErrorCleansCgroup'
  BY <1>4, EnvironmentFrame DEF RunErrorCleansCgroup, TypeOK, diskVars,
     localVars, history
<1> QED
  BY <1>1, <1>2, <1>3, <1>4 DEF Next

\* Every step keeps running containers supervised.
LEMMA SupervisionStep ==
  ASSUME TypeOK, LocalInv, FreshInv, RecordInv, StaleInv, RunningIsSupervised, Next
  PROVE  RunningIsSupervised'
<1>1. ASSUME NEW p \in Procs, CmdStart(p) PROVE RunningIsSupervised'
  <2>1. CASE RunRefused(p)
      <3> SUFFICES ASSUME NEW i \in Ids, recorded'[i].status = "running", i \notin hurt'
                   PROVE  \E q \in Procs : Supervises(q, i)'
        BY DEF RunningIsSupervised
      <3>1. PICK q \in Procs : Supervises(q, i)
        BY <2>1 DEF RunRefused, RunningIsSupervised, history
      <3>2. q # p
        BY <2>1, <3>1 DEF RunRefused, Supervises, RunOf, LocalInv, Local, Stopped, Created
      <3> QED
        BY <1>1, <3>1, <3>2, LocalFrame DEF Supervises, RunOf
  <2>2. ASSUME NEW id \in Ids, RunStart(p, id) PROVE RunningIsSupervised'
      <3> SUFFICES ASSUME NEW i \in Ids, recorded'[i].status = "running", i \notin hurt'
                   PROVE  \E q \in Procs : Supervises(q, i)'
        BY DEF RunningIsSupervised
      <3>1. PICK q \in Procs : Supervises(q, i)
        BY <2>2 DEF RunStart, RunningIsSupervised, history
      <3>2. q # p
        BY <2>2, <3>1 DEF RunStart, Supervises, RunOf, LocalInv, Local, Stopped, Created
      <3> QED
        BY <1>1, <3>1, <3>2, LocalFrame DEF Supervises, RunOf
  <2>3. ASSUME NEW id \in Ids, Inspect(p, id) PROVE RunningIsSupervised'
      <3> SUFFICES ASSUME NEW i \in Ids, recorded'[i].status = "running", i \notin hurt'
                   PROVE  \E q \in Procs : Supervises(q, i)'
        BY DEF RunningIsSupervised
      <3>1. PICK q \in Procs : Supervises(q, i)
        BY <2>3 DEF Inspect, Begin, RunningIsSupervised, history
      <3>2. q # p
        BY <2>3, <3>1 DEF Inspect, Begin, Supervises, RunOf, LocalInv, Local, Stopped, Created
      <3> QED
        BY <1>1, <3>1, <3>2, LocalFrame DEF Supervises, RunOf
  <2>4. ASSUME NEW id \in Ids, RemoveStart(p, id) PROVE RunningIsSupervised'
      <3> SUFFICES ASSUME NEW i \in Ids, recorded'[i].status = "running", i \notin hurt'
                   PROVE  \E q \in Procs : Supervises(q, i)'
        BY DEF RunningIsSupervised
      <3>1. PICK q \in Procs : Supervises(q, i)
        BY <2>4 DEF RemoveStart, Begin, RunningIsSupervised, history
      <3>2. q # p
        BY <2>4, <3>1 DEF RemoveStart, Begin, Supervises, RunOf, LocalInv, Local, Stopped, Created
      <3> QED
        BY <1>1, <3>1, <3>2, LocalFrame DEF Supervises, RunOf
  <2>5. ASSUME NEW id \in Ids, NEW o \in Ops, CmdRejected(p, o, id)
        PROVE  RunningIsSupervised'
      <3> SUFFICES ASSUME NEW i \in Ids, recorded'[i].status = "running", i \notin hurt'
                   PROVE  \E q \in Procs : Supervises(q, i)'
        BY DEF RunningIsSupervised
      <3>1. PICK q \in Procs : Supervises(q, i)
        BY <2>5 DEF CmdRejected, Begin, RunningIsSupervised, history
      <3>2. q # p
        BY <2>5, <3>1 DEF CmdRejected, Begin, Supervises, RunOf, LocalInv, Local, Stopped, Created
      <3> QED
        BY <1>1, <3>1, <3>2, LocalFrame DEF Supervises, RunOf
  <2>6. ASSUME NEW id \in Ids, NEW o \in Ops, SignalStart(p, o, id)
        PROVE  RunningIsSupervised'
      <3> SUFFICES ASSUME NEW i \in Ids, recorded'[i].status = "running", i \notin hurt'
                   PROVE  \E q \in Procs : Supervises(q, i)'
        BY DEF RunningIsSupervised
      <3>1. PICK q \in Procs : Supervises(q, i)
        BY <2>6 DEF SignalStart, Begin, RunningIsSupervised, history
      <3>2. q # p
        BY <2>6, <3>1 DEF SignalStart, Begin, Supervises, RunOf, LocalInv, Local, Stopped, Created
      <3> QED
        BY <1>1, <3>1, <3>2, LocalFrame DEF Supervises, RunOf
  <2> QED
    BY <1>1, <2>1, <2>2, <2>3, <2>4, <2>5, <2>6 DEF CmdStart
<1>2. ASSUME NEW p \in Procs, CmdStep(p) PROVE RunningIsSupervised'
  <2>1. CASE WsMkdir(p)
    BY <2>1 DEF WsMkdir, RunningIsSupervised, Supervises, RunOf, TypeOK,
       localVars, history, LocalInv, Local, FreshInv, WriteSteps, NoRecord,
       Torn, Created, Stopped, Running, Removed
  <2>2. CASE WsOpen(p)
    BY <2>2 DEF WsOpen, RunningIsSupervised, Supervises, RunOf, TypeOK,
       localVars, history, LocalInv, Local, FreshInv, WriteSteps, NoRecord,
       Torn, Created, Stopped, Running, Removed
  <2>3. CASE WsNoDir(p)
    BY <2>3 DEF WsNoDir, RunningIsSupervised, Supervises, RunOf, TypeOK,
       localVars, history, LocalInv, Local, AfterWrite, PcAfterWrite,
       WriteSteps, FreshInv, RecordInv, NoRecord, Torn, Created, Stopped,
       Running, Removed
  <2>4. CASE WsFail(p)
      <3> SUFFICES ASSUME NEW i \in Ids, recorded'[i].status = "running", i \notin hurt'
                   PROVE  \E q \in Procs : Supervises(q, i)'
        BY DEF RunningIsSupervised
      <3>1. PICK q \in Procs : Supervises(q, i)
        BY <2>4 DEF WsFail, RunningIsSupervised, history
      <3>2. q # p
        BY <2>4, <3>1 DEF WsFail, Supervises, RunOf, LocalInv, Local, Stopped, Created
      <3> QED
        BY <1>2, <3>1, <3>2, LocalFrame DEF Supervises, RunOf
  <2>5. CASE WsFlush(p)
      <3> SUFFICES ASSUME NEW i \in Ids, recorded'[i].status = "running", i \notin hurt'
                   PROVE  \E q \in Procs : Supervises(q, i)'
        BY DEF RunningIsSupervised
      <3>1. CASE i = tgt[p] /\ fd[p] = "open"
        <4>1. op[p] = "run" /\ st[p].status = "running" /\ pc'[p] = "wait" /\ tgt'[p] = i
              /\ op'[p] = "run"
          BY <2>5, <3>1 DEF WsFlush, AfterWrite, PcAfterWrite, TypeOK, localVars, LocalInv,
             Local, WriteSteps, Created, Stopped
        <4> QED
          BY <4>1 DEF Supervises, RunOf
      <3>2. CASE i # tgt[p] \/ fd[p] # "open"
        <4>1. recorded[i].status = "running" /\ i \notin hurt
          BY <2>5, <3>2 DEF WsFlush, TypeOK
        <4>2. PICK q \in Procs : Supervises(q, i)
          BY <4>1 DEF RunningIsSupervised
        <4>3. q # p
          BY <2>5, <3>2, <4>1, <4>2 DEF WsFlush, Supervises, RunOf, StaleInv, TypeOK,
             LocalInv, Local
        <4> QED
          BY <1>2, <4>2, <4>3, LocalFrame DEF Supervises, RunOf
      <3> QED BY <3>1, <3>2
  <2>6. CASE WsFlushFail(p)
    BY <2>6 DEF WsFlushFail, RunningIsSupervised, Supervises, RunOf, TypeOK,
       localVars, history, LocalInv, Local, AfterWrite, PcAfterWrite,
       WriteSteps, FreshInv, RecordInv, NoRecord, Torn, Created, Stopped,
       Running, Removed
  <2>7. CASE RunClone(p)
      <3> SUFFICES ASSUME NEW i \in Ids, recorded'[i].status = "running", i \notin hurt'
                   PROVE  \E q \in Procs : Supervises(q, i)'
        BY DEF RunningIsSupervised
      <3>1. PICK q \in Procs : Supervises(q, i)
        BY <2>7 DEF RunClone, RunningIsSupervised, history
      <3>2. q # p
        BY <2>7, <3>1 DEF RunClone, Supervises, RunOf, LocalInv, Local, Stopped, Created
      <3> QED
        BY <1>2, <3>1, <3>2, LocalFrame DEF Supervises, RunOf
  <2>8. CASE RunCloneFail(p)
    BY <2>8 DEF RunCloneFail, RunningIsSupervised, Supervises, RunOf, TypeOK,
       localVars, history, LocalInv, Local, FreshInv, WriteSteps, NoRecord,
       Torn, Created, Stopped, Running, Removed
  <2>9. CASE RunAddPid(p)
    <3>1. /\ pc[p] = "add_pid" /\ st[p].status = "created"
          /\ UNCHANGED <<op, tgt, recorded, hurt>>
      BY <2>9 DEF RunAddPid, localVars, LocalInv, Local
    <3>2. \A q \in Procs : q # p => pc'[q] = pc[q] /\ st'[q] = st[q]
      BY <2>9 DEF RunAddPid, TypeOK
    <3> QED
      BY <3>1, <3>2 DEF RunningIsSupervised, Supervises, RunOf
  <2>10. CASE RunWait(p)
    BY <2>10 DEF RunWait, Release, RunningIsSupervised, Supervises, RunOf,
       TypeOK, localVars, history, LocalInv, Local, FreshInv, WriteSteps,
       NoRecord, Torn, Created, Stopped, Running, Removed
  <2>11. CASE SignalGone(p)
    BY <2>11 DEF SignalGone, RunningIsSupervised, Supervises, RunOf, TypeOK,
       localVars, history, LocalInv, Local, FreshInv, WriteSteps, NoRecord,
       Torn, Created, Stopped, Running, Removed
  <2>12. CASE SendTerm(p)
    BY <2>12 DEF SendTerm, RunningIsSupervised, Supervises, RunOf, TypeOK,
       localVars, history, LocalInv, Local, FreshInv, WriteSteps, NoRecord,
       Torn, Created, Stopped, Running, Removed
  <2>13. CASE SendKill(p)
    BY <2>13 DEF SendKill, RunningIsSupervised, Supervises, RunOf, TypeOK,
       localVars, history, LocalInv, Local, FreshInv, WriteSteps, NoRecord,
       Torn, Created, Stopped, Running, Removed
  <2>14. CASE PollAgain(p)
    BY <2>14 DEF PollAgain, RunningIsSupervised, Supervises, RunOf, TypeOK,
       localVars, history, LocalInv, Local, FreshInv, WriteSteps, NoRecord,
       Torn, Created, Stopped, Running, Removed
  <2>15. CASE PollEnd(p)
    BY <2>15 DEF PollEnd, RunningIsSupervised, Supervises, RunOf, TypeOK,
       localVars, history, LocalInv, Local, FreshInv, WriteSteps, NoRecord,
       Torn, Created, Stopped, Running, Removed
  <2>16. CASE CgRead(p)
    BY <2>16 DEF CgRead, RunningIsSupervised, Supervises, RunOf, TypeOK,
       localVars, history, LocalInv, Local, FreshInv, WriteSteps, NoRecord,
       Torn, Created, Stopped, Running, Removed
  <2>17. CASE CgMove(p)
    BY <2>17 DEF CgMove, RunningIsSupervised, Supervises, RunOf, TypeOK,
       localVars, history, LocalInv, Local, FreshInv, WriteSteps, NoRecord,
       Torn, Created, Stopped, Running, Removed
  <2>18. CASE CgRmdir(p)
    <3>1. /\ pc[p] = "cg_move" /\ (op[p] = "rm" \/ st[p] = Created)
          /\ UNCHANGED <<op, tgt, st, recorded, hurt>>
      BY <2>18 DEF CgRmdir, localVars, history, LocalInv, Local
    <3>2. \A q \in Procs : q # p => pc'[q] = pc[q]
      BY <2>18 DEF CgRmdir, TypeOK
    <3> QED
      BY <3>1, <3>2 DEF RunningIsSupervised, Supervises, RunOf, Created
  <2>19. CASE RmUnlink(p)
    BY <2>19 DEF RmUnlink, RunningIsSupervised, Supervises, RunOf, TypeOK,
       localVars, history, LocalInv, Local, FreshInv, WriteSteps, NoRecord,
       Torn, Created, Stopped, Running, Removed
  <2>20. CASE RmRmdir(p)
    BY <2>20 DEF RmRmdir, RunningIsSupervised, Supervises, RunOf, TypeOK,
       localVars, history, LocalInv, Local, FreshInv, WriteSteps, NoRecord,
       Torn, Created, Stopped, Running, Removed
  <2>21. CASE Return(p)
      <3> SUFFICES ASSUME NEW i \in Ids, recorded'[i].status = "running", i \notin hurt'
                   PROVE  \E q \in Procs : Supervises(q, i)'
        BY DEF RunningIsSupervised
      <3>1. PICK q \in Procs : Supervises(q, i)
        BY <2>21 DEF Return, RunningIsSupervised, history
      <3>2. q # p
        BY <2>21, <3>1 DEF Return, Supervises, RunOf, LocalInv, Local, Stopped, Created
      <3> QED
        BY <1>2, <3>1, <3>2, LocalFrame DEF Supervises, RunOf
  <2> QED
    BY <1>2, <2>1, <2>2, <2>3, <2>4, <2>5, <2>6, <2>7, <2>8, <2>9, <2>10,
       <2>11, <2>12, <2>13, <2>14, <2>15, <2>16, <2>17, <2>18, <2>19, <2>20,
       <2>21 DEF CmdStep
<1>3. ASSUME NEW p \in Procs, Crash(p) PROVE RunningIsSupervised'
  BY <1>3 DEF Crash, Forget, RunningIsSupervised, Supervises, RunOf, TypeOK,
     localVars, history
<1>4. ASSUME NEW h \in Pids, Environment(h) PROVE RunningIsSupervised'
  BY <1>4, EnvironmentFrame DEF RunningIsSupervised, Supervises, RunOf,
     TypeOK, localVars, history
<1> QED
  BY <1>1, <1>2, <1>3, <1>4 DEF Next

\* The initial state satisfies the inductive invariant.
LEMMA InitInv == Init => IInv
<1> SUFFICES ASSUME Init PROVE IInv
  OBVIOUS
<1>1. TypeOK
  BY DEF Init, TypeOK, NoRecord, ProgramSteps
<1>2. LocalInv /\ OrderInv /\ StaleInv /\ OwnsItsChild
  BY DEF Init, LocalInv, Local, Idle, OrderInv, Early, StaleInv, OwnsItsChild, Owner,
     WriteSteps
<1>3. FreshInv /\ RecordInv /\ ChargeInv
  BY IdAssumption, PidAssumption DEF Init, FreshInv, RecordInv, ChargeInv, RunOf,
     NoRecord
<1>4. TornIsTransient /\ RunningIsSupervised /\ RunErrorCleansCgroup
  BY DEF Init, TornIsTransient, RunningIsSupervised, RunErrorCleansCgroup,
     NoRecord, Torn
<1> QED
  BY <1>1, <1>2, <1>3, <1>4 DEF IInv

\* The invariant is inductive.
LEMMA NextInv == IInv /\ [Next]_vars => IInv'
<1>1. ASSUME IInv, Next PROVE IInv'
  <2>1. TypeOK' /\ LocalInv' /\ FreshInv' /\ RecordInv'
    BY <1>1, TypeStep, LocalStep, FreshStep, RecordStep DEF IInv
  <2>2. OrderInv' /\ OwnsItsChild' /\ StaleInv' /\ ChargeInv'
    BY <1>1, OrderStep, ChildStep, StaleStep, ChargeStep DEF IInv
  <2>3. TornIsTransient' /\ RunErrorCleansCgroup' /\ RunningIsSupervised'
    BY <1>1, TornStep, CleanStep, SupervisionStep DEF IInv
  <2> QED
    BY <2>1, <2>2, <2>3 DEF IInv
<1>2. ASSUME IInv, UNCHANGED vars PROVE IInv'
  BY <1>2 DEF IInv, vars, TypeOK, LocalInv, FreshInv, RecordInv, OrderInv, StaleInv, ChargeInv, OwnsItsChild, TornIsTransient, RunningIsSupervised, RunErrorCleansCgroup, RunOf, Owner, Early, Local, Idle,
     IsInit, Supervises
<1> QED BY <1>1, <1>2

\* Every reachable state satisfies the inductive invariant.
THEOREM Invariance == Spec => []IInv
  BY InitInv, NextInv, PTL DEF Spec

\* Every variable keeps its type, for any number of containers and invocations.
THEOREM TypeCorrectness == Spec => []TypeOK
<1>1. IInv => TypeOK
  BY DEF IInv
<1> QED BY <1>1, Invariance, PTL

\* The PID run adds to a cgroup and waits for is never a recycled one.
THEOREM ChildOwnership == Spec => []OwnsItsChild
<1>1. IInv => OwnsItsChild
  BY DEF IInv
<1> QED BY <1>1, Invariance, PTL

\* No "running" record is written after "stopped" was recorded.
THEOREM WriteOrder == Spec => []NoLateRunningWrite
<1>1. IInv => NoLateRunningWrite
  BY DEF IInv, NoLateRunningWrite, OrderInv, Early
<1> QED BY <1>1, Invariance, PTL

\* An empty state.json has a writer, or was left by a crash or a failed write.
THEOREM TornRecords == Spec => []TornIsTransient
<1>1. IInv => TornIsTransient
  BY DEF IInv
<1> QED BY <1>1, Invariance, PTL

\* A container recorded as running has a container_run to record its end.
THEOREM Supervision == Spec => []RunningIsSupervised
<1>1. IInv => RunningIsSupervised
  BY DEF IInv
<1> QED BY <1>1, Invariance, PTL

\* A failed run leaves no cgroup.
THEOREM ErrorCleanup == Spec => []RunErrorCleansCgroup
<1>1. IInv => RunErrorCleansCgroup
  BY DEF IInv
<1> QED BY <1>1, Invariance, PTL

\* While nobody removes containers and no write fails, every record stands where
\* its next writer expects it.
LEMMA StandingStep ==
  ASSUME TypeOK, LocalInv, FreshInv, RecordInv, OrderInv, StandingInv, Next,
         "rm" \notin Ops, "state" \notin Faults, "flush" \notin Faults
  PROVE  StandingInv'
<1>1. ASSUME NEW p \in Procs, CmdStart(p) PROVE StandingInv'
  <2>1. CASE RunRefused(p)
    BY <2>1 DEF RunRefused, StandingInv, Standing, TypeOK, localVars, history,
       WriteSteps, LocalInv, Local, Idle, NoRecord
  <2>2. ASSUME NEW id \in Ids, RunStart(p, id) PROVE StandingInv'
    BY <2>2 DEF RunStart, StandingInv, Standing, TypeOK, localVars, history,
       WriteSteps, FreshInv, LocalInv, Local, Idle, NoRecord, Torn, Created,
       Stopped, Running, Removed
  <2>3. ASSUME NEW id \in Ids, Inspect(p, id) PROVE StandingInv'
    BY <2>3, ParsedRecord DEF Inspect, Begin, StandingInv, Standing, TypeOK,
       localVars, history, WriteSteps, LocalInv, Local, Idle, NoRecord, Torn,
       Created, Stopped, Running, Removed
  <2>4. ASSUME NEW id \in Ids, RemoveStart(p, id) PROVE StandingInv'
    BY <2>4 DEF RemoveStart, Begin
  <2>5. ASSUME NEW id \in Ids, NEW o \in Ops, CmdRejected(p, o, id)
        PROVE  StandingInv'
    BY <2>5 DEF CmdRejected, Begin, StandingInv, Standing, TypeOK, localVars,
       history, WriteSteps, LocalInv, Local, Idle, NoRecord, Torn, Created,
       Stopped, Running, Removed
  <2>6. ASSUME NEW id \in Ids, NEW o \in Ops, SignalStart(p, o, id)
        PROVE  StandingInv'
    BY <2>6, ParsedRecord DEF SignalStart, Begin, StandingInv, Standing,
       TypeOK, localVars, history, WriteSteps, Refuses, RecordInv, LocalInv,
       Local, Idle, NoRecord, Torn, Created, Stopped, Running, Removed
  <2> QED
    BY <1>1, <2>1, <2>2, <2>3, <2>4, <2>5, <2>6 DEF CmdStart
<1>2. ASSUME NEW p \in Procs, CmdStep(p) PROVE StandingInv'
  <2>1. CASE WsMkdir(p)
    BY <2>1 DEF WsMkdir, StandingInv, Standing, TypeOK, localVars, history,
       WriteSteps, LocalInv, Local, NoRecord, Torn, Created, Stopped, Running,
       Removed
  <2>2. CASE WsOpen(p)
    BY <2>2 DEF WsOpen, StandingInv, Standing, TypeOK, localVars, history,
       WriteSteps, LocalInv, Local, NoRecord, Torn, Created, Stopped, Running,
       Removed
  <2>3. CASE WsNoDir(p)
    BY <2>3 DEF WsNoDir, StandingInv, Standing, TypeOK, localVars, history,
       WriteSteps, AfterWrite, PcAfterWrite, LocalInv, Local, RecordInv,
       NoRecord, Torn, Created, Stopped, Running, Removed
  <2>4. CASE WsFail(p)
    BY <2>4 DEF WsFail
  <2>5. CASE WsFlush(p)
    BY <2>5 DEF WsFlush, StandingInv, Standing, TypeOK, localVars, history,
       WriteSteps, AfterWrite, PcAfterWrite, LocalInv, Local, FreshInv,
       OrderInv, Early, NoRecord, Torn, Created, Stopped, Running, Removed
  <2>6. CASE WsFlushFail(p)
    BY <2>6 DEF WsFlushFail
  <2>7. CASE RunClone(p)
    BY <2>7 DEF RunClone, StandingInv, Standing, TypeOK, localVars, history,
       WriteSteps, LocalInv, Local, NoRecord, Torn, Created, Stopped, Running,
       Removed
  <2>8. CASE RunCloneFail(p)
    BY <2>8 DEF RunCloneFail, StandingInv, Standing, TypeOK, localVars, history,
       WriteSteps
  <2>9. CASE RunAddPid(p)
    BY <2>9 DEF RunAddPid, StandingInv, Standing, TypeOK, localVars, history,
       WriteSteps, LocalInv, Local, NoRecord, Torn, Created, Stopped, Running,
       Removed
  <2>10. CASE RunWait(p)
    BY <2>10 DEF RunWait, Release, StandingInv, Standing, TypeOK, localVars,
       history, WriteSteps, LocalInv, Local, NoRecord, Torn, Created, Stopped,
       Running, Removed
  <2>11. CASE SignalGone(p)
    BY <2>11 DEF SignalGone, StandingInv, Standing, TypeOK, localVars,
       history, WriteSteps, LocalInv, Local, NoRecord, Torn, Created, Stopped,
       Running, Removed
  <2>12. CASE SendTerm(p)
    BY <2>12 DEF SendTerm, StandingInv, Standing, TypeOK, localVars, history,
       WriteSteps, LocalInv, Local, NoRecord, Torn, Created, Stopped, Running,
       Removed
  <2>13. CASE SendKill(p)
    BY <2>13 DEF SendKill, StandingInv, Standing, TypeOK, localVars, history,
       WriteSteps, LocalInv, Local, NoRecord, Torn, Created, Stopped, Running,
       Removed
  <2>14. CASE PollAgain(p)
    BY <2>14 DEF PollAgain, StandingInv, Standing, TypeOK, localVars, history,
       WriteSteps, LocalInv, Local, NoRecord, Torn, Created, Stopped, Running,
       Removed
  <2>15. CASE PollEnd(p)
    BY <2>15 DEF PollEnd, StandingInv, Standing, TypeOK, localVars, history,
       WriteSteps, LocalInv, Local, NoRecord, Torn, Created, Stopped, Running,
       Removed
  <2>16. CASE CgRead(p)
    BY <2>16 DEF CgRead, StandingInv, Standing, TypeOK, localVars, history,
       WriteSteps, LocalInv, Local, NoRecord, Torn, Created, Stopped, Running,
       Removed
  <2>17. CASE CgMove(p)
    BY <2>17 DEF CgMove, StandingInv, Standing, TypeOK, localVars, history,
       WriteSteps, LocalInv, Local, NoRecord, Torn, Created, Stopped, Running,
       Removed
  <2>18. CASE CgRmdir(p)
    BY <2>18 DEF CgRmdir, StandingInv, Standing, TypeOK, localVars, history,
       WriteSteps, LocalInv, Local, NoRecord, Torn, Created, Stopped, Running,
       Removed
  <2>19. CASE RmUnlink(p)
    BY <2>19 DEF RmUnlink, StandingInv, Standing, TypeOK, localVars, history,
       WriteSteps, LocalInv, Local, NoRecord, Torn, Created, Stopped, Running,
       Removed
  <2>20. CASE RmRmdir(p)
    BY <2>20 DEF RmRmdir, StandingInv, Standing, TypeOK, localVars, history,
       WriteSteps, LocalInv, Local, NoRecord, Torn, Created, Stopped, Running,
       Removed
  <2>21. CASE Return(p)
    BY <2>21 DEF Return, Forget, StandingInv, Standing, TypeOK, localVars,
       history, WriteSteps, LocalInv, Local, NoRecord, Torn, Created, Stopped,
       Running, Removed
  <2> QED
    BY <1>2, <2>1, <2>2, <2>3, <2>4, <2>5, <2>6, <2>7, <2>8, <2>9, <2>10,
       <2>11, <2>12, <2>13, <2>14, <2>15, <2>16, <2>17, <2>18, <2>19, <2>20,
       <2>21 DEF CmdStep
<1>3. ASSUME NEW p \in Procs, Crash(p) PROVE StandingInv'
  BY <1>3 DEF Crash, Forget, StandingInv, Standing, TypeOK, localVars,
     history, WriteSteps, NoRecord, Torn, Created, Stopped, Running, Removed
<1>4. ASSUME NEW h \in Pids, Environment(h) PROVE StandingInv'
  BY <1>4, EnvironmentFrame DEF StandingInv, Standing, TypeOK, localVars,
     history, WriteSteps
<1> QED
  BY <1>1, <1>2, <1>3, <1>4 DEF Next

\* Writing a record is a step of the life cycle; nothing else touches it.
LEMMA LifecycleStep ==
  ASSUME TypeOK, LocalInv, RecordInv, StandingInv, Next,
         "rm" \notin Ops, "state" \notin Faults, "flush" \notin Faults
  PROVE  [Life!Next]_recorded
<1>1. ASSUME NEW p \in Procs, WsFlush(p) PROVE [Life!Next]_recorded
  <2>1. /\ tgt[p] \in Ids /\ fd[p] = "open"
        /\ recorded' = [recorded EXCEPT ![tgt[p]] = st[p]]
    BY <1>1 DEF WsFlush, LocalInv, Local, StandingInv, Standing, TypeOK
  <2>2. CASE st[p].status = "created"
    <3>1. recorded[tgt[p]] = NoRecord /\ st[p] = [status |-> "created", pid |-> NoPid]
      BY <1>1, <2>2 DEF WsFlush, StandingInv, Standing, WriteSteps, LocalInv, Local,
         Created, Stopped
    <3>2. Life!Create(tgt[p])
      BY <2>1, <3>1 DEF Life!Create, Life!Step, Life!Phase, NoRecord
    <3> QED
      BY <2>1, <3>2 DEF Life!Next
  <2>3. CASE st[p].status = "running"
    <3>1. recorded[tgt[p]] = Created /\ st[p].pid \in Pids
      BY <1>1, <2>3 DEF WsFlush, StandingInv, Standing, WriteSteps, LocalInv, Local,
         Created, Stopped
    <3>2. PICK h \in Pids : st[p] = [status |-> "running", pid |-> h]
      BY <2>3, <3>1 DEF TypeOK
    <3>3. recorded[tgt[p]].status = "created"
      BY <3>1 DEF Created
    <3>4. recorded' = [recorded EXCEPT ![tgt[p]] = [status |-> "running", pid |-> h]]
      BY <2>1, <3>2
    <3>5. Life!Start(tgt[p])
      BY <3>3, <3>4 DEF Life!Start, Life!Step, Life!Phase
    <3> QED
      BY <2>1, <3>5 DEF Life!Next
  <2>4. CASE st[p].status = "stopped"
    <3>1. /\ recorded[tgt[p]].status \in {"running", "stopped"}
          /\ st[p] = Stopped
      BY <1>1, <2>4 DEF WsFlush, StandingInv, Standing, WriteSteps, LocalInv, Local,
         Created, Stopped
    <3>2. CASE recorded[tgt[p]].status = "running"
      <4>1. Life!Stop(tgt[p])
        BY <2>1, <3>1, <3>2 DEF Life!Stop, Life!Step, Life!Phase, Stopped
      <4> QED
        BY <2>1, <4>1 DEF Life!Next
    <3>3. CASE recorded[tgt[p]].status = "stopped"
      <4>1. \/ recorded[tgt[p]] \in {NoRecord, Created, Stopped, Removed}
            \/ recorded[tgt[p]] = Running(initOf[tgt[p]])
        BY <2>1 DEF RecordInv
      <4>2. recorded[tgt[p]] = Stopped
        BY <3>3, <4>1 DEF NoRecord, Created, Stopped, Removed, Running
      <4> QED
        BY <2>1, <3>1, <4>2 DEF TypeOK
    <3> QED BY <3>1, <3>2, <3>3
  <2> QED
    BY <1>1, <2>2, <2>3, <2>4 DEF WsFlush, LocalInv, Local, WriteSteps, Created,
       Stopped
<1>2. ASSUME NEW p \in Procs, CmdStep(p), ~WsFlush(p) PROVE UNCHANGED recorded
  <2>1. ~RmUnlink(p)
    BY DEF RmUnlink, LocalInv, Local, StandingInv, Standing
  <2>2. CASE WsMkdir(p)
    BY <2>2 DEF WsMkdir, history
  <2>3. CASE WsOpen(p)
    BY <2>3 DEF WsOpen, history
  <2>4. CASE WsNoDir(p)
    BY <2>4 DEF WsNoDir, history
  <2>5. CASE WsFail(p)
    BY <2>5 DEF WsFail, history
  <2>6. CASE WsFlushFail(p)
    BY <2>6 DEF WsFlushFail, history
  <2>7. CASE RunClone(p)
    BY <2>7 DEF RunClone, history
  <2>8. CASE RunCloneFail(p)
    BY <2>8 DEF RunCloneFail, history
  <2>9. CASE RunAddPid(p)
    BY <2>9 DEF RunAddPid, history
  <2>10. CASE RunWait(p)
    BY <2>10 DEF RunWait, history
  <2>11. CASE SignalGone(p)
    BY <2>11 DEF SignalGone, history
  <2>12. CASE SendTerm(p)
    BY <2>12 DEF SendTerm, history
  <2>13. CASE SendKill(p)
    BY <2>13 DEF SendKill, history
  <2>14. CASE PollAgain(p)
    BY <2>14 DEF PollAgain, history
  <2>15. CASE PollEnd(p)
    BY <2>15 DEF PollEnd, history
  <2>16. CASE CgRead(p)
    BY <2>16 DEF CgRead, history
  <2>17. CASE CgMove(p)
    BY <2>17 DEF CgMove, history
  <2>18. CASE CgRmdir(p)
    BY <2>18 DEF CgRmdir, history
  <2>19. CASE RmRmdir(p)
    BY <2>19 DEF RmRmdir, history
  <2>20. CASE Return(p)
    BY <2>20 DEF Return, history
  <2> QED
    BY <1>2, <2>1, <2>2, <2>3, <2>4, <2>5, <2>6, <2>7, <2>8, <2>9, <2>10,
       <2>11, <2>12, <2>13, <2>14, <2>15, <2>16, <2>17, <2>18, <2>19, <2>20
       DEF CmdStep
<1>3. ASSUME NEW p \in Procs, CmdStart(p) PROVE UNCHANGED recorded
  BY <1>3 DEF CmdStart, RunRefused, RunStart, Inspect, RemoveStart, CmdRejected,
     SignalStart, Begin, history
<1>4. ASSUME NEW p \in Procs, Crash(p) PROVE UNCHANGED recorded
  BY <1>4 DEF Crash
<1>5. ASSUME NEW h \in Pids, Environment(h) PROVE UNCHANGED recorded
  BY <1>5, EnvironmentFrame DEF history
<1> QED
  BY <1>1, <1>2, <1>3, <1>4, <1>5 DEF Next

\* As long as nobody removes containers and no write fails, the records follow
\* the life cycle that container.h draws, whatever crashes and interleaves.
THEOREM LifecycleRefinement ==
  ASSUME "rm" \notin Ops, "state" \notin Faults, "flush" \notin Faults
  PROVE  Spec => FollowsLifecycle
<1>1. Init => Life!Init /\ StandingInv
  BY DEF Init, Life!Init, NoRecord, StandingInv, Standing, WriteSteps
<1>2. IInv /\ StandingInv /\ [Next]_vars => StandingInv'
  <2>1. ASSUME IInv, StandingInv, Next PROVE StandingInv'
    BY <2>1, StandingStep DEF IInv
  <2>2. ASSUME StandingInv, UNCHANGED vars PROVE StandingInv'
    BY <2>2 DEF StandingInv, Standing, vars
  <2> QED BY <2>1, <2>2
<1>3. IInv /\ StandingInv /\ [Next]_vars => [Life!Next]_recorded
  <2>1. ASSUME IInv, StandingInv, Next PROVE [Life!Next]_recorded
    BY <2>1, LifecycleStep DEF IInv
  <2> QED BY <2>1 DEF vars
<1> QED
  BY <1>1, <1>2, <1>3, Invariance, PTL DEF Spec, FollowsLifecycle, Life!Spec
=============================================================================
