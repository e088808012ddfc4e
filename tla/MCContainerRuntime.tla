------------------------ MODULE MCContainerRuntime ------------------------
(* Instances of ContainerRuntime for TLC. *)
EXTENDS ContainerInvariant, TLC

NoFaults   == {}
AllFaults  == {"cgroup", "state", "flush", "clone", "add_pid"}
NoWriteFaults == {"cgroup", "clone", "add_pid"}
NoOps      == {}
AllOps     == {"stop", "kill", "rm", "inspect"}

\* PIDs, invocations and containers are interchangeable.
Interchangeable == Permutations(Pids) \cup Permutations(Procs) \cup Permutations(Ids)
=============================================================================
