------------------------------- MODULE MCBatch -------------------------------
(***************************************************************************)
(* A buffer that starts with two bytes for up to four packets of up to     *)
(* seven: it grows more than once, by doubling and beyond, and each growth *)
(* may fail.  A word of 8 values is exceeded by the bytes of two packets.  *)
(***************************************************************************)
EXTENDS Batch

ShortAndLong == {<<>>, <<1>>, <<1, 2, 1>>, <<2, 1, 1, 2, 1, 2, 2>>}
Sizes == {-1, 1, 2, 4}

=============================================================================
