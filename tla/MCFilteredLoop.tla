---------------------------- MODULE MCFilteredLoop ----------------------------
(***************************************************************************)
(* Four flows over two slots: f0 has the key 0 that empty slots hold and   *)
(* shares its slot with f1, which is watched; f2 and f3 have a key in      *)
(* common.  One kind of packet has no flow and is watched.  Four packets   *)
(* of a key wrap the counter.                                              *)
(***************************************************************************)
EXTENDS FilteredLoop

MCFlows == 0 .. 3
MCKeys == 0 .. 2
MCKeyOf == [f \in MCFlows |-> IF f = 3 THEN 2 ELSE f]
MCSlotOf == [k \in MCKeys |-> IF k < 2 THEN 0 ELSE 1]
MCMasks == {Classes, {"FLOW_HEAD"}, {"SET_MATCH", "OTHER"}}

=============================================================================
