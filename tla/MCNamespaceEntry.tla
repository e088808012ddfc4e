------------------------- MODULE MCNamespaceEntry -------------------------
(* Instances of NamespaceEntry for TLC. *)
EXTENDS NamespaceEntry, MCContainerRuntime
=============================================================================
