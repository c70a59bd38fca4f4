---------------------------- MODULE MCAuditChain ----------------------------
(***************************************************************************)
(* An instance of AuditChain for TLC.  Neither writers nor bodies are told *)
(* apart by the log.                                                       *)
(***************************************************************************)
EXTENDS AuditChain, TLC

MCSymmetry == Permutations(Writers) \cup Permutations(Bodies)
=============================================================================
