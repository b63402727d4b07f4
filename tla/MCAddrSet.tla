------------------------------ MODULE MCAddrSet ------------------------------
(* Integers of 4 bits instead of 32: the tables have 2, 4 or 8 slots, n * 2 + 1 *)
(* does not wrap for lists of up to 7 entries, and i * 4 wraps at the fifth.    *)
(* The products begin a probe at the first or at the last slot.                 *)
EXTENDS AddrSet

=============================================================================
