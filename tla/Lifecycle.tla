----------------------------- MODULE Lifecycle -----------------------------
(***************************************************************************)
(* What internal/runtime/container.h promises of a container's record: it  *)
(* is created, then running with the PID of its init, then stopped, and    *)
(* then it may be deleted; each record is written at most once.            *)
(***************************************************************************)
CONSTANTS Ids, Pids, NoPid

VARIABLE record

Phase(id) == record[id].status

Step(id, from, to, pids) ==
  /\ Phase(id) = from
  /\ \E h \in pids :
       record' = [record EXCEPT ![id] = [status |-> to, pid |-> h]]

Create(id) == Step(id, "none", "created", {NoPid})
Start(id)  == Step(id, "created", "running", Pids)
Stop(id)   == Step(id, "running", "stopped", {NoPid})
Remove(id) == Step(id, "stopped", "removed", {NoPid})

Init == record = [id \in Ids |-> [status |-> "none", pid |-> NoPid]]

Next == \E id \in Ids : Create(id) \/ Start(id) \/ Stop(id) \/ Remove(id)

Spec == Init /\ [][Next]_record
=============================================================================
