---------------------------- MODULE MCAuditChain ----------------------------
(* Instances of AuditChain for TLC. *)
EXTENDS AuditChain, TLC

CONSTANTS w1, w2

WriterSymmetry == Permutations(Writers)

=============================================================================
