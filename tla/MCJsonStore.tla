---------------------------- MODULE MCJsonStore ----------------------------
(***************************************************************************)
(* Instances of JsonStore for TLC.  The calls are interchangeable wherever *)
(* all of them, or none, may be slow.                                      *)
(***************************************************************************)
EXTENDS JsonStore, TLC

CONSTANTS c1, c2, c3

CallSymmetry == Permutations(Calls)

=============================================================================
