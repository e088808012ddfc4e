-------------------------- MODULE MCRunSupervisor --------------------------
(* Instances of RunSupervisor for TLC. *)
EXTENDS RunSupervisor

NoTimeouts == {}
=============================================================================
