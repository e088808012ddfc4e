------------------------ MODULE ContainerInvariant ------------------------
(***************************************************************************)
(* The inductive invariant behind the safety properties of                 *)
(* ContainerRuntime.  No property is inductive alone: that a stop aims at  *)
(* the right PID depends on what the records may hold, which depends on    *)
(* who may still write them, which depends on identifiers being fresh.     *)
(***************************************************************************)
EXTENDS ContainerProperties

Idle(p) == /\ op[p] = "none" /\ tgt[p] = NoId
           /\ st[p] = NoRecord /\ buf[p] = {} /\ fd[p] = "none"
           /\ ret[p] = "none" /\ polls[p] = 0

\* What an invocation holds at each step of its program.
Local(p) ==
  /\ pc[p] = "idle" => Idle(p)
  /\ pc[p] \notin {"idle", "done"} => tgt[p] \in Ids
  /\ op[p] = "run" /\ pc[p] # "done" => tgt[p] \in Ids
  /\ pc[p] \in WriteSteps =>
       \/ op[p] = "run" /\ st[p].status = "running" /\ st[p].pid \in Pids
       \/ op[p] = "run" /\ st[p] \in {Created, Stopped}
       \/ op[p] \in {"stop", "kill"} /\ st[p] = Stopped
  /\ pc[p] = "clone" => op[p] = "run" /\ st[p] = Created
  /\ pc[p] = "add_pid" =>
       op[p] = "run" /\ st[p].status = "created" /\ st[p].pid \in Pids
  /\ pc[p] = "wait" =>
       op[p] = "run" /\ st[p].status = "running" /\ st[p].pid \in Pids
  /\ pc[p] \in {"kill_pid", "poll"} =>
       op[p] \in {"stop", "kill"} /\ st[p].status = "running" /\ st[p].pid \in Pids
  /\ pc[p] \in {"cg_read", "cg_move"} =>
       op[p] = "rm" \/ (op[p] = "run" /\ st[p] = Created /\ ret[p] = "error")
  /\ pc[p] \in {"unlink", "rmdir"} => op[p] = "rm"
  /\ op[p] = "run" /\ pc[p] = "done" => st[p].status # "running"
  /\ fd[p] # "none" <=> pc[p] = "ws_flush"

LocalInv == \A p \in Procs : Local(p)

\* A container belongs to one container_run, and nothing exists under an
\* identifier before it is given out.
FreshInv ==
  /\ \A p \in Procs : op[p] = "run" => tgt[p] \in used \cup {NoId}
  /\ \A p, q \in Procs :
       op[p] = "run" /\ op[q] = "run" /\ tgt[p] = tgt[q] /\ tgt[p] \in Ids => p = q
  /\ \A id \in Ids \ used :
       /\ initOf[id] = NoPid /\ file[id] = NoRecord /\ recorded[id] = NoRecord
       /\ \A q \in Procs : tgt[q] = id => st[q] = NoRecord

\* What the records may hold, and where the PIDs they hold come from.
RecordInv ==
  /\ \A id \in Ids :
       /\ \/ file[id] \in {NoRecord, Torn, Created, Stopped}
          \/ file[id] = Running(initOf[id]) /\ initOf[id] \in Pids
       /\ \/ recorded[id] \in {NoRecord, Created, Stopped, Removed}
          \/ recorded[id] = Running(initOf[id]) /\ initOf[id] \in Pids
       /\ file[id] \in {NoRecord, Torn} \/ file[id] = recorded[id]
       /\ file[id] = NoRecord => recorded[id] \in {NoRecord, Removed}
       /\ file[id] # NoRecord => id \in dir
  /\ \A p \in Procs :
       /\ fd[p] = "open" => file[tgt[p]] # NoRecord
       /\ st[p].pid \in Pids => tgt[p] \in Ids /\ st[p].pid = initOf[tgt[p]]
       /\ RunOf(p, tgt[p]) /\ st[p] = Created => initOf[tgt[p]] = NoPid

\* The container_run that has not recorded "running" yet.
Early(p) ==
  /\ op[p] = "run" /\ pc[p] \in WriteSteps \cup {"clone", "add_pid"}
  /\ st[p].status \in {"created", "running"}

\* Until then nobody has seen the container run, so nobody can stop it.
OrderInv ==
  \A p \in Procs : Early(p) =>
    /\ recorded[tgt[p]].status \notin {"running", "stopped"}
    /\ \A q \in Procs : q # p /\ tgt[q] = tgt[p] =>
         st[q].status \in {"none", "created"}

\* A last write into an unlinked file comes after the record was removed.
StaleInv ==
  \A p \in Procs : op[p] = "run" /\ fd[p] = "stale" /\ st[p].status = "stopped" =>
    recorded[tgt[p]].status # "running"

\* Only a container whose init exists charges processes.
ChargeInv ==
  \A h \in Pids : cgOf[h] \in Ids => initOf[cgOf[h]] \in Pids

IInv ==
  /\ TypeOK /\ LocalInv /\ FreshInv /\ RecordInv /\ OrderInv /\ StaleInv
  /\ ChargeInv /\ OwnsItsChild /\ TornIsTransient /\ RunningIsSupervised
  /\ RunErrorCleansCgroup

\* Where the record stands when it is about to be written, as long as nobody
\* removes containers and no write fails.
Standing(p) ==
  /\ op[p] # "rm" /\ fd[p] # "stale"
  /\ pc[p] \in WriteSteps /\ st[p].status = "created" =>
       recorded[tgt[p]] = NoRecord
  /\ \/ pc[p] \in {"clone", "add_pid"}
     \/ pc[p] \in WriteSteps /\ st[p].status = "running"
     => recorded[tgt[p]] = Created
  /\ \/ pc[p] \in {"wait", "kill_pid", "poll"}
     \/ pc[p] \in WriteSteps /\ st[p].status = "stopped"
     => recorded[tgt[p]].status \in {"running", "stopped"}

StandingInv == \A p \in Procs : Standing(p)
=============================================================================
