----------------------- MODULE NamespaceEntryProofs -----------------------
(***************************************************************************)
(* Proofs about exec and its races with the life of the container, for any *)
(* number of containers, PIDs and invocations.  NsSpec inherits the        *)
(* invariant of ContainerRuntimeProofs; KernelChange says what a step of   *)
(* the lifecycle does to the process table underneath an exec.             *)
(***************************************************************************)
EXTENDS NamespaceEntry, KernelProofs

\* An init knows its container, and only processes of a container that has its
\* own /proc execute a command.
KernelInv ==
  \A h \in Pids :
    /\ IsInit(h) => ns[h] \in Ids /\ initOf[ns[h]] = h
    /\ kind[h] \in {"user", "member"} => ns[h] \in Ids /\ proc[ns[h]] = "own"
    /\ kind[h] \in {"free", "foreign"} => ns[h] = NoId

\* No process is setting the container up.
Abandoned(id) == \A h \in Pids : ~(kind[h] = "setup" /\ ns[h] = id)

LEMMA AbandonedStays ==
  ASSUME \A h \in Pids : KernelChange(h),
         NEW id \in Ids, initOf[id] \in Pids, Abandoned(id)
  PROVE  Abandoned(id)'
BY PidAssumption DEF KernelChange, Abandoned

-----------------------------------------------------------------------------
(* What an exec holds *)

\* It aims at the init of its container; until it is in a mount namespace it is
\* in none.
Aim(e) ==
  /\ exec[e].at # "idle" =>
       /\ exec[e].id \in Ids /\ exec[e].pid \in Pids
       /\ exec[e].pid = initOf[exec[e].id]
  /\ exec[e].at = "mnt" => exec[e].mnt = NoId

Landed(e) ==
  exec[e].at \in {"uts", "pidns", "command"} =>
    exec[e].mnt = exec[e].id \/ ~Live(exec[e].id)

\* While the host's /proc is still found in the namespace it entered, its PID is
\* that of the init; a namespace of another container was reached through it
\* only when that init had gone.
Rooted(e) ==
  LET x == exec[e]
      Same(id) == id = x.mnt \/ (proc[x.mnt] # "own" /\ Abandoned(x.mnt)) IN
  x.mnt \in Ids =>
    /\ x.at \in {"uts", "pidns", "command"} /\ proc[x.mnt] # "own" =>
         initOf[x.mnt] = x.pid
    /\ x.at \in {"pidns", "command"} => Same(x.uts)
    /\ x.at = "command" => Same(x.pidns)

ExecInv == \A e \in Execs : Aim(e) /\ Landed(e) /\ Rooted(e)

NsInv == IInv /\ ExecTypeOK /\ KernelInv /\ ExecInv

LEMMA NsInitInv == NsInit => NsInv
<1> SUFFICES ASSUME NsInit PROVE NsInv
  OBVIOUS
<1>1. IInv
  BY InitInv DEF NsInit
<1>2. ExecTypeOK /\ KernelInv
  BY IdAssumption, PidAssumption DEF NsInit, Init, ExecTypeOK, KernelInv, IsInit, Idling
<1>3. ExecInv
  BY IdAssumption DEF NsInit, ExecInv, Aim, Landed, Rooted, Idling
<1> QED
  BY <1>1, <1>2, <1>3 DEF NsInv

\* A step of the lifecycle.
LEMMA NsLifecycle ==
  ASSUME NsInv, Next, CommandAfterSetUp, UNCHANGED <<proc, exec>>
  PROVE  NsInv'
<1>1. IInv' /\ InitStays /\ \A h \in Pids : KernelChange(h)
  BY NextInv, LifecycleKernel DEF NsInv
<1>2. ExecTypeOK'
  BY <1>1 DEF NsInv, ExecTypeOK, InitStays
<1>3. KernelInv'
  <2> SUFFICES ASSUME NEW h \in Pids
               PROVE  /\ IsInit(h)' => ns'[h] \in Ids /\ initOf'[ns'[h]] = h
                      /\ kind'[h] \in {"user", "member"} =>
                           ns'[h] \in Ids /\ proc[ns'[h]] = "own"
                      /\ kind'[h] \in {"free", "foreign"} => ns'[h] = NoId
    BY DEF KernelInv
  <2> QED
    BY <1>1 DEF KernelChange, NsInv, KernelInv, IsInit, InitStays, CommandAfterSetUp
<1>4. ASSUME NEW e \in Execs PROVE Aim(e)' /\ Landed(e)' /\ Rooted(e)'
  <2>1. Aim(e)'
    BY <1>1 DEF NsInv, ExecInv, Aim, InitStays
  <2>2. Landed(e)'
    <3>1. CASE exec[e].at \in {"uts", "pidns", "command"} /\ exec[e].mnt # exec[e].id
      <4>1. exec[e].id \in Ids /\ initOf[exec[e].id] \in Pids /\ ~Live(exec[e].id)
        BY <3>1 DEF NsInv, ExecInv, Aim, Landed
      <4> QED
        BY <1>1, <4>1, DeadStays DEF NsInv, Landed
    <3> QED
      BY <3>1 DEF Landed
  <2>3. Rooted(e)'
    <3>1. exec[e].at \in {"uts", "pidns", "command"} => exec[e].pid \in Pids
      BY DEF NsInv, ExecInv, Aim
    <3>2. exec[e].mnt \in Ids /\ initOf[exec[e].mnt] \in Pids /\ Abandoned(exec[e].mnt)
            => Abandoned(exec[e].mnt)'
      BY <1>1, AbandonedStays
    <3> QED
      BY <1>1, <3>1, <3>2 DEF NsInv, ExecInv, Rooted, InitStays
  <2> QED
    BY <2>1, <2>2, <2>3
<1> QED
  BY <1>1, <1>2, <1>3, <1>4 DEF NsInv, ExecInv

\* A step of container_child.
LEMMA NsSetUp ==
  ASSUME NsInv, NEW id \in Ids, PivotRoot(id) \/ MountProc(id)
  PROVE  NsInv'
<1>1. /\ UNCHANGED <<vars, exec>> /\ initOf[id] \in Pids /\ ~Abandoned(id)
      /\ \E v \in {"bare", "own"} : proc' = [proc EXCEPT ![id] = v]
      /\ proc[id] # "own"
  BY DEF PivotRoot, MountProc, SetUp, NsInv, KernelInv, IsInit, Abandoned
<1>2. IInv'
  BY <1>1, NextInv DEF NsInv
<1>3. ExecTypeOK'
  BY <1>1 DEF NsInv, ExecTypeOK, vars
<1>4. KernelInv'
  BY <1>1 DEF NsInv, KernelInv, ExecTypeOK, IsInit, vars
<1>5. ExecInv'
  BY <1>1 DEF NsInv, ExecInv, ExecTypeOK, Aim, Landed, Rooted, Live, Abandoned, vars
<1> QED
  BY <1>2, <1>3, <1>4, <1>5 DEF NsInv

\* What a step of exec leaves alone.
LEMMA NsElsewhere ==
  ASSUME NsInv, UNCHANGED <<vars, proc>>, NEW e \in Execs, NEW x,
         exec' = [exec EXCEPT ![e] = x], ExecTypeOK',
         (Aim(e) /\ Landed(e) /\ Rooted(e))'
  PROVE  NsInv'
<1>1. IInv' /\ KernelInv'
  BY NextInv DEF NsInv, KernelInv, IsInit, vars
<1>2. ASSUME NEW f \in Execs, f # e PROVE (Aim(f) /\ Landed(f) /\ Rooted(f))'
  <2>1. exec'[f] = exec[f]
    BY <1>2 DEF NsInv, ExecTypeOK
  <2> QED
    BY <2>1 DEF NsInv, ExecInv, Aim, Landed, Rooted, Live, Abandoned, vars
<1> QED
  BY <1>1, <1>2 DEF NsInv, ExecInv

\* exec starts with the PID of a container recorded as running.
LEMMA NsExecStart ==
  ASSUME NsInv, NEW e \in Execs, NEW id \in Ids, ExecStart(e, id)
  PROVE  NsInv'
<1> DEFINE x == [exec[e] EXCEPT !.at = "mnt", !.id = id, !.pid = initOf[id]]
<1>1. ParsedState(id).pid \in Pids /\ ParsedState(id).pid = initOf[id]
  BY ParsedRecord DEF ExecStart, NsInv, IInv, Running
<1>2. exec[e] = Idling /\ exec' = [exec EXCEPT ![e] = x] /\ UNCHANGED <<vars, proc>>
  BY <1>1 DEF ExecStart
<1>3. exec'[e] = x /\ UNCHANGED initOf
  BY <1>2 DEF NsInv, ExecTypeOK, vars
<1>4. x.at = "mnt" /\ x.id = id /\ x.pid = initOf[id] /\ x.mnt = NoId
  BY <1>2 DEF NsInv, ExecTypeOK, Idling
<1>5. ExecTypeOK'
  <2>1. x \in [at : {"idle", "mnt", "uts", "pidns", "command", "failed"},
               id : Ids \cup {NoId}, pid : Pids \cup {NoPid},
               mnt : Ids \cup {NoId}, uts : Ids \cup {NoId}, pidns : Ids \cup {NoId}]
    BY <1>1, <1>2 DEF NsInv, ExecTypeOK
  <2> HIDE DEF x
  <2> QED
    BY <1>2, <1>3, <2>1 DEF NsInv, ExecTypeOK, vars
<1>6. (Aim(e) /\ Landed(e) /\ Rooted(e))'
  BY <1>1, <1>3, <1>4, IdAssumption DEF Aim, Landed, Rooted
<1> HIDE DEF x
<1> QED
  BY <1>2, <1>5, <1>6, NsElsewhere

\* The namespaces ns_enter may find.
LEMMA Found ==
  ASSUME NsInv, NEW e \in Execs, exec[e].at # "idle",
         NEW name \in {"mnt", "uts", "pidns"}, NEW id \in Lookup(e, name)
  PROVE  /\ id \in Ids \cup {NoId}
         /\ exec[e].mnt \in Ids /\ proc[exec[e].mnt] = "own" => id = exec[e].mnt
         /\ exec[e].mnt = NoId \/ proc[exec[e].mnt] # "own" =>
              /\ id = ns[exec[e].pid]
              /\ kind[exec[e].pid] = "zombie" => name = "pidns"
              /\ kind[exec[e].pid] # "free"
<1>1. exec[e].pid \in Pids /\ exec[e].mnt \in Ids \cup {NoId}
  BY DEF NsInv, ExecInv, Aim, ExecTypeOK
<1>2. CASE exec[e].mnt # NoId /\ proc[exec[e].mnt] = "own"
  BY <1>1, <1>2 DEF Lookup
<1>3. CASE exec[e].mnt # NoId /\ proc[exec[e].mnt] = "bare"
  BY <1>1, <1>3 DEF Lookup
<1>4. CASE exec[e].mnt = NoId \/ proc[exec[e].mnt] = "host"
  <2>1. id \in OnHost(exec[e].pid, name)
    BY <1>4 DEF Lookup
  <2> QED
    BY <1>1, <1>4, <2>1, IdAssumption DEF OnHost, NsInv, IInv, TypeOK
<1> QED
  BY <1>1, <1>2, <1>3, <1>4 DEF NsInv, ExecTypeOK

\* What ns_enter finds besides the namespaces of the mount namespace it is in
\* belongs to a later process with the PID of that container's init.
LEMMA FoundOther ==
  ASSUME NsInv, NEW e \in Execs, exec[e].at \in {"uts", "pidns"}, exec[e].mnt \in Ids,
         NEW name \in {"mnt", "uts", "pidns"}, NEW id \in Lookup(e, name)
  PROVE  id = exec[e].mnt \/ (proc[exec[e].mnt] # "own" /\ Abandoned(exec[e].mnt))
<1> SUFFICES ASSUME id # exec[e].mnt, proc[exec[e].mnt] # "own"
             PROVE  Abandoned(exec[e].mnt)
  BY Found
<1>1. id = ns[exec[e].pid] /\ initOf[exec[e].mnt] = exec[e].pid
  BY Found DEF NsInv, ExecInv, Rooted
<1> SUFFICES ASSUME NEW h \in Pids, kind[h] = "setup", ns[h] = exec[e].mnt
             PROVE  FALSE
  BY DEF Abandoned
<1>2. initOf[exec[e].mnt] = h
  BY DEF NsInv, KernelInv, IsInit
<1> QED
  BY <1>1, <1>2

\* Entering the mount namespace.
LEMMA NsEnterMnt ==
  ASSUME NsInv, NEW e \in Execs, exec[e].at = "mnt", NEW id \in Lookup(e, "mnt"),
         exec' = [exec EXCEPT ![e] = [@ EXCEPT !.mnt = id, !.at = "uts"]],
         UNCHANGED <<vars, proc>>
  PROVE  NsInv'
<1>1. /\ exec[e].mnt = NoId /\ exec[e].id \in Ids /\ exec[e].pid \in Pids
      /\ exec[e].pid = initOf[exec[e].id]
  BY DEF NsInv, ExecInv, Aim
<1>2. /\ id \in Ids \cup {NoId} /\ id = ns[exec[e].pid]
      /\ kind[exec[e].pid] # "zombie" /\ kind[exec[e].pid] # "free"
  BY <1>1, Found
<1>3. ExecTypeOK'
  <2> DEFINE x == [exec[e] EXCEPT !.mnt = id, !.at = "uts"]
  <2>1. x \in [at : {"idle", "mnt", "uts", "pidns", "command", "failed"},
               id : Ids \cup {NoId}, pid : Pids \cup {NoPid},
               mnt : Ids \cup {NoId}, uts : Ids \cup {NoId}, pidns : Ids \cup {NoId}]
    BY <1>2 DEF NsInv, ExecTypeOK
  <2>2. exec' = [exec EXCEPT ![e] = x]
    OBVIOUS
  <2> HIDE DEF x
  <2> QED
    BY <2>1, <2>2 DEF NsInv, ExecTypeOK, vars
<1>4. /\ exec'[e].at = "uts" /\ exec'[e].mnt = id
      /\ exec'[e].id = exec[e].id /\ exec'[e].pid = exec[e].pid
  BY DEF NsInv, ExecTypeOK
<1>5. UNCHANGED <<initOf, kind, ns>>
  BY DEF vars
<1>6. Aim(e)'
  BY <1>1, <1>4, <1>5 DEF Aim
<1>7. Landed(e)'
  BY <1>1, <1>2, <1>4, <1>5 DEF Landed, Live
<1>8. id \in Ids /\ proc[id] # "own" => initOf[id] = exec[e].pid
  BY <1>1, <1>2, IdAssumption DEF NsInv, IInv, TypeOK, KernelInv, IsInit
<1>9. Rooted(e)'
  BY <1>4, <1>5, <1>8 DEF Rooted
<1> QED
  BY <1>3, <1>6, <1>7, <1>9, NsElsewhere

\* Entering one of the others.
LEMMA NsEnterOther ==
  ASSUME NsInv, NEW e \in Execs, NEW id,
         \/ /\ exec[e].at = "uts" /\ id \in Lookup(e, "uts")
            /\ exec' = [exec EXCEPT ![e] = [@ EXCEPT !.uts = id, !.at = "pidns"]]
         \/ /\ exec[e].at = "pidns" /\ id \in Lookup(e, "pidns")
            /\ exec' = [exec EXCEPT ![e] = [@ EXCEPT !.pidns = id, !.at = "command"]],
         UNCHANGED <<vars, proc>>
  PROVE  NsInv'
<1>1. id \in Ids \cup {NoId}
  BY Found
<1>2. exec[e].mnt \in Ids =>
        id = exec[e].mnt \/ (proc[exec[e].mnt] # "own" /\ Abandoned(exec[e].mnt))
  BY FoundOther
<1> DEFINE Effect ==
      /\ exec'[e].mnt = exec[e].mnt /\ exec'[e].id = exec[e].id
      /\ exec'[e].pid = exec[e].pid
      /\ \/ exec[e].at = "uts" /\ exec'[e].at = "pidns" /\ exec'[e].uts = id
         \/ /\ exec[e].at = "pidns" /\ exec'[e].at = "command"
            /\ exec'[e].uts = exec[e].uts /\ exec'[e].pidns = id
<1>3. ASSUME exec[e].at = "uts",
             exec' = [exec EXCEPT ![e] = [@ EXCEPT !.uts = id, !.at = "pidns"]]
      PROVE  ExecTypeOK' /\ Effect
  <2>1. ExecTypeOK'
    BY <1>1, <1>3 DEF NsInv, ExecTypeOK, vars
  <2>2. Effect
    BY <1>1, <1>3 DEF NsInv, ExecTypeOK
  <2> QED
    BY <2>1, <2>2
<1>4. ASSUME exec[e].at = "pidns",
             exec' = [exec EXCEPT ![e] = [@ EXCEPT !.pidns = id, !.at = "command"]]
      PROVE  ExecTypeOK' /\ Effect
  <2>1. ExecTypeOK'
    BY <1>1, <1>4 DEF NsInv, ExecTypeOK, vars
  <2>2. Effect
    BY <1>1, <1>4 DEF NsInv, ExecTypeOK
  <2> QED
    BY <2>1, <2>2
<1>5. ExecTypeOK' /\ Effect
  BY <1>3, <1>4
<1>6. UNCHANGED <<initOf, kind, ns>>
  BY DEF vars
<1>7. Aim(e)' /\ Landed(e)'
  BY <1>5, <1>6 DEF NsInv, ExecInv, Aim, Landed, Live
<1>8. Rooted(e)'
  BY <1>2, <1>5, <1>6 DEF NsInv, ExecInv, Rooted, Abandoned
<1>9. \E x : exec' = [exec EXCEPT ![e] = x]
  OBVIOUS
<1> QED
  BY <1>5, <1>7, <1>8, <1>9, NsElsewhere, Zenon

LEMMA NsEnter ==
  ASSUME NsInv, NEW e \in Execs, Enter(e)
  PROVE  NsInv'
<1>1. PICK id \in Lookup(e, exec[e].at) :
        \/ /\ exec[e].at = "mnt"
           /\ exec' = [exec EXCEPT ![e] = [@ EXCEPT !.mnt = id, !.at = "uts"]]
        \/ /\ exec[e].at = "uts"
           /\ exec' = [exec EXCEPT ![e] = [@ EXCEPT !.uts = id, !.at = "pidns"]]
        \/ /\ exec[e].at = "pidns"
           /\ exec' = [exec EXCEPT ![e] = [@ EXCEPT !.pidns = id, !.at = "command"]]
  BY DEF Enter
<1>2. UNCHANGED <<vars, proc>>
  BY DEF Enter
<1>3. CASE exec[e].at = "mnt"
  BY <1>1, <1>2, <1>3, NsEnterMnt
<1>4. CASE exec[e].at # "mnt"
  BY <1>1, <1>2, <1>4, NsEnterOther
<1> QED
  BY <1>3, <1>4

\* Giving up, or ending.
LEMMA NsLeave ==
  ASSUME NsInv, NEW e \in Execs, EnterFail(e) \/ ExecEnd(e)
  PROVE  NsInv'
<1>1. CASE EnterFail(e)
  <2>1. /\ exec' = [exec EXCEPT ![e] = [exec[e] EXCEPT !.at = "failed"]]
        /\ exec[e].at # "idle" /\ UNCHANGED <<vars, proc>>
    BY <1>1 DEF EnterFail, Entering, NsInv, ExecTypeOK
  <2>2. ExecTypeOK' /\ exec'[e] = [exec[e] EXCEPT !.at = "failed"]
    BY <2>1 DEF NsInv, ExecTypeOK, vars
  <2>3. (Aim(e) /\ Landed(e) /\ Rooted(e))'
    BY <2>1, <2>2 DEF NsInv, ExecInv, ExecTypeOK, Aim, Landed, Rooted, vars
  <2> QED
    BY <2>1, <2>2, <2>3, NsElsewhere
<1>2. CASE ExecEnd(e)
  <2>1. exec' = [exec EXCEPT ![e] = Idling] /\ UNCHANGED <<vars, proc>>
    BY <1>2 DEF ExecEnd
  <2>2. ExecTypeOK' /\ exec'[e] = Idling
    BY <2>1 DEF NsInv, ExecTypeOK, Idling, vars
  <2>3. (Aim(e) /\ Landed(e) /\ Rooted(e))'
    BY <2>2, IdAssumption DEF Idling, Aim, Landed, Rooted
  <2> QED
    BY <2>1, <2>2, <2>3, NsElsewhere
<1> QED
  BY <1>1, <1>2

\* The invariant is inductive.
LEMMA NsNextInv == NsInv /\ [NsNext]_nsVars => NsInv'
<1>1. ASSUME NsInv, NsNext PROVE NsInv'
  BY <1>1, NsLifecycle, NsSetUp, NsExecStart, NsEnter, NsLeave DEF NsNext
<1>2. ASSUME NsInv, UNCHANGED nsVars PROVE NsInv'
  <2>1. UNCHANGED <<vars, proc, exec>>
    BY <1>2 DEF nsVars
  <2>2. IInv'
    BY <1>2, <2>1, NextInv DEF NsInv
  <2> QED
    BY <1>2, <2>1, <2>2 DEF NsInv, ExecTypeOK, KernelInv, IsInit, ExecInv, Aim, Landed,
       Rooted, Live, Abandoned, vars
<1> QED
  BY <1>1, <1>2

-----------------------------------------------------------------------------

\* Every reachable state satisfies the inductive invariant.
THEOREM NsInvariance == NsSpec => []NsInv
BY NsInitInv, NsNextInv, PTL DEF NsSpec

\* exec and the set-up of the root leave the life cycle as it is: what holds of
\* it holds with them.
THEOREM EntryKeepsLifecycle == NsSpec => Spec
<1>1. NsInit => Init
  BY DEF NsInit
<1>2. [NsNext]_nsVars => [Next]_vars
  BY DEF NsNext, nsVars, PivotRoot, MountProc, SetUp, ExecStart, Enter, EnterFail,
     ExecEnd
<1> QED
  BY <1>1, <1>2, PTL DEF NsSpec, Spec

\* Every variable of exec keeps its type, and only a container that has had an
\* init was ever set up.
THEOREM ExecTypeCorrectness == NsSpec => []ExecTypeOK
BY NsInvariance, PTL DEF NsInv

\* exec aims at the PID that clone returned for the container it names.
THEOREM ExecAim == NsSpec => []ExecAimsAtInit
<1>1. NsInv => ExecAimsAtInit
  BY DEF NsInv, ExecInv, Aim, ExecAimsAtInit, Entering
<1> QED
  BY <1>1, NsInvariance, PTL

\* exec lands elsewhere only when the init it aimed at is gone.
THEOREM ExecMisses == NsSpec => []ExecMissesOnlyTheDead
<1>1. NsInv => ExecMissesOnlyTheDead
  BY DEF NsInv, ExecInv, Landed, ExecMissesOnlyTheDead
<1> QED
  BY <1>1, NsInvariance, PTL

\* A command that exec starts in a container that was set up has all of its
\* namespaces from there.
THEOREM ExecTogether == NsSpec => []ExecStaysTogether
<1>1. NsInv => ExecStaysTogether
  BY DEF NsInv, ExecInv, Rooted, ExecStaysTogether
<1> QED
  BY <1>1, NsInvariance, PTL
=============================================================================
