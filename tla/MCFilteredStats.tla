--------------------------- MODULE MCFilteredStats ---------------------------
(* One class in the generic profile and two in the security one; a mask that *)
(* admits one of them.                                                       *)
EXTENDS FilteredStats

SomeMasks == {{0}}
=============================================================================
