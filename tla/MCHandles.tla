------------------------------ MODULE MCHandles ------------------------------
(***************************************************************************)
(* Three objects, so that a Reader, its Dumper and a program exist at the  *)
(* same time; one resource more, for a handle of compile, a program of     *)
(* setfilter, or an object closed and replaced by a new one.               *)
(***************************************************************************)
EXTENDS Handles, TLC

Symmetry == Permutations(Objects) \cup Permutations(Resources)

=============================================================================
