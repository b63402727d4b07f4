--------------------------- MODULE MCRecordBuffer ---------------------------
(* Three values of a byte and two bytes for the caplen: caplens of 0, 1 and  *)
(* 3, so that records take 3 to 6 bytes of the 14 in the buffer: four of the *)
(* shortest fit and three of the longest do not.  Class 0 is not admitted.   *)
EXTENDS RecordBuffer

Data == {<<>>, <<0>>, <<2>>, <<2, 0, 1>>}
ThreeClasses == [class : {0, 1, 2}, data : Data]
OneAndTwo == {1, 2}

=============================================================================
