-------------------------- MODULE NamespaceEntry --------------------------
(***************************************************************************)
(* cspip-runtime exec, composed with the lifecycle of ContainerRuntime.    *)
(* exec reads the record once and then opens /proc/<pid>/ns/<name> for     *)
(* each namespace in turn.  Which /proc that is changes underneath it:     *)
(* entering the container's mount namespace replaces the host's /proc by   *)
(* whatever container_child has made of it by then, and the PID may die,   *)
(* be reaped and be reused between any two of the openings.                *)
(***************************************************************************)
EXTENDS ContainerProperties

CONSTANT Execs       \* invocations of exec alive at the same time

VARIABLES
  proc,   \* what /proc is in a container's mount namespace: a copy of the
          \* host's, nothing (after pivot_root), or the container's own
  exec    \* how far each exec is, what it read, which namespaces it is in

nsVars == <<vars, proc, exec>>

\* The namespaces in the order ns_enter takes them; NoId is the host.
Idling == [at |-> "idle", id |-> NoId, pid |-> NoPid,
           mnt |-> NoId, uts |-> NoId, pidns |-> NoId]
Entering(e) == exec[e].at \in {"mnt", "uts", "pidns"}

\* The variables have their types, and only a container that has had an init
\* was ever set up (container.c:200-215 runs in the child).
ExecTypeOK ==
  /\ proc \in [Ids -> {"host", "bare", "own"}]
  /\ \A id \in Ids : proc[id] # "host" => initOf[id] \in Pids
  /\ exec \in [Execs -> [at : {"idle", "mnt", "uts", "pidns", "command", "failed"},
                         id : Ids \cup {NoId}, pid : Pids \cup {NoPid},
                         mnt : Ids \cup {NoId}, uts : Ids \cup {NoId},
                         pidns : Ids \cup {NoId}]]

NsInit ==
  /\ Init
  /\ proc = [id \in Ids |-> "host"]
  /\ exec = [e \in Execs |-> Idling]

-----------------------------------------------------------------------------
(* container_child, between clone and execv *)

\* Fault: container_run does it before it has a child.
SetUpInParent(id, from, to) ==
  /\ proc[id] = from
  /\ proc' = [proc EXCEPT ![id] = to]
  /\ UNCHANGED <<vars, exec>>

SetUp(id, from, to) ==
  /\ proc[id] = from
  /\ \E h \in Pids : kind[h] = "setup" /\ ns[h] = id
  /\ proc' = [proc EXCEPT ![id] = to]
  /\ UNCHANGED <<vars, exec>>

\* rootfs_setup: from pivot_root on, /proc is a directory of the new root.
PivotRoot(id) == SetUp(id, "host", "bare")

\* ns_mount_proc: the /proc of the new PID namespace.
MountProc(id) == SetUp(id, "bare", "own")

\* container_child executes the command only after both.
CommandAfterSetUp ==
  \A h \in Pids : kind[h] = "setup" /\ kind'[h] = "user" => proc[ns[h]] = "own"

-----------------------------------------------------------------------------
(* container_exec *)

\* Fault: the status is not looked at.
ExecStartUnchecked(e, id) ==
  /\ exec[e] = Idling
  /\ file[id] # NoRecord
  /\ exec' = [exec EXCEPT ![e] = [@ EXCEPT !.at = "mnt", !.id = id,
                                           !.pid = ParsedState(id).pid]]
  /\ UNCHANGED <<vars, proc>>

\* container_inspect, and the refusal of what is not recorded as running.
ExecStart(e, id) ==
  /\ exec[e] = Idling
  /\ file[id] # NoRecord /\ ParsedState(id).status = "running"
  /\ exec' = [exec EXCEPT ![e] = [@ EXCEPT !.at = "mnt", !.id = id,
                                           !.pid = ParsedState(id).pid]]
  /\ UNCHANGED <<vars, proc>>

\* The namespaces a PID leads to in the host's /proc: none for a free PID, and
\* of a zombie only its PID namespace is left.
OnHost(h, name) ==
  {ns[x] : x \in {y \in Pids \cap {h} :
     kind[y] # "free" /\ (kind[y] = "zombie" => name = "pidns")}}

\* Fault: the host's /proc stays in use after the mount namespace was entered.
LookupOnHost(e, name) == OnHost(exec[e].pid, name)

\* Fault: the namespaces of the caller itself.
LookupSelf(e, name) == {NoId}

\* The same in the /proc of the mount namespace it is in.  A container's own
\* /proc knows its processes by other numbers (the init is 1 there), so a host
\* PID finds nothing or, by chance, some other process of that container.
Lookup(e, name) ==
  LET m == exec[e].mnt IN
  IF m = NoId \/ proc[m] = "host" THEN OnHost(exec[e].pid, name)
  ELSE {ns[x] : x \in {y \in Pids : proc[m] = "own" /\ kind[y] = "member"
                                    /\ ns[y] = m}}

\* setns of one namespace after the other.
Enter(e) ==
  /\ \E id \in Lookup(e, exec[e].at) :
       \/ /\ exec[e].at = "mnt"
          /\ exec' = [exec EXCEPT ![e] = [@ EXCEPT !.mnt = id, !.at = "uts"]]
       \/ /\ exec[e].at = "uts"
          /\ exec' = [exec EXCEPT ![e] = [@ EXCEPT !.uts = id, !.at = "pidns"]]
       \/ /\ exec[e].at = "pidns"
          /\ exec' = [exec EXCEPT ![e] = [@ EXCEPT !.pidns = id, !.at = "command"]]
  /\ UNCHANGED <<vars, proc>>

\* open of /proc/<pid>/ns/<name> fails: ns_enter and exec return -1.
EnterFail(e) ==
  /\ Entering(e)
  /\ \/ Lookup(e, exec[e].at) = {}
     \/ exec[e].mnt # NoId /\ proc[exec[e].mnt] = "own"
  /\ exec' = [exec EXCEPT ![e].at = "failed"]
  /\ UNCHANGED <<vars, proc>>

\* It was killed, has failed, or has become the command and that ended.
ExecEnd(e) ==
  /\ exec[e] # Idling
  /\ exec' = [exec EXCEPT ![e] = Idling]
  /\ UNCHANGED <<vars, proc>>

-----------------------------------------------------------------------------

NsNext ==
  \/ Next /\ CommandAfterSetUp /\ UNCHANGED <<proc, exec>>
  \/ \E id \in Ids : PivotRoot(id) \/ MountProc(id)
  \/ \E e \in Execs : \/ \E id \in Ids : ExecStart(e, id)
                      \/ Enter(e) \/ EnterFail(e) \/ ExecEnd(e)

NsSpec == NsInit /\ [][NsNext]_nsVars

-----------------------------------------------------------------------------
(* Properties *)

\* exec only ever aims at the PID that clone returned for the container it
\* names, however the record it read was being rewritten (container.c:391-403).
ExecAimsAtInit ==
  \A e \in Execs : Entering(e) =>
    exec[e].pid \in Pids /\ exec[e].pid = initOf[exec[e].id]

\* An exec that has landed in the host's or in another container's mount
\* namespace lost a race: the init it aimed at had been reaped and its PID
\* reused before ns_enter opened it (container.c:403).
ExecMissesOnlyTheDead ==
  \A e \in Execs : exec[e].at \in {"uts", "pidns", "command"} =>
    exec[e].mnt = exec[e].id \/ ~Live(exec[e].id)

\* A command that exec starts in a container that was ever set up has all three
\* namespaces from it, never the root of one and the host name or PID namespace
\* of another, although ns_enter resolves the PID anew for each of them
\* (namespace.c:142-162).
ExecStaysTogether ==
  \A e \in Execs :
    LET x == exec[e] IN
    x.at = "command" /\ x.mnt \in Ids /\ proc[x.mnt] = "own" =>
      x.uts = x.mnt /\ x.pidns = x.mnt

\* container.h:36-39: exec enters the namespaces of the container's init and
\* then executes the command.  It cannot fail to while that init lives.
ExecEntersLive ==
  \A e \in Execs : exec[e].at = "failed" => ~Live(exec[e].id)
=============================================================================
