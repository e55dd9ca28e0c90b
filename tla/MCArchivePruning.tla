-------------------------- MODULE MCArchivePruning --------------------------
(* An operator, with one pass that prunes, and the prune-archive command.   *)
EXTENDS ArchivePruning

OwnIdentity == [p \in Pruners |-> p]
=============================================================================
