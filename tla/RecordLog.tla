------------------------------ MODULE RecordLog ------------------------------
(***************************************************************************)
(* What loop_to_buffer promises: the records of the admitted packets are   *)
(* appended, in the order of capture, to a log that takes up at most Cap   *)
(* bytes; a packet overflows exactly when its record does not fit.         *)
(***************************************************************************)
EXTENDS Integers, SequencesExt

CONSTANTS
  Packets,  \* [class, data]
  Admitted, \* classes in admit_mask
  Header,   \* bytes of a record before its data
  Cap       \* bytes of the buffer

VARIABLES log, dropped, overflow
vars == <<log, dropped, overflow>>

Bytes(records) == SumFunction([k \in DOMAIN records |-> Header + Len(records[k].data)])

Init == log = <<>> /\ dropped = 0 /\ overflow = 0

Keep(p) ==
  /\ p.class \in Admitted /\ Bytes(log) + Header + Len(p.data) =< Cap
  /\ log' = Append(log, p)
  /\ UNCHANGED <<dropped, overflow>>

Shed(p) == p.class \notin Admitted /\ dropped' = dropped + 1 /\ UNCHANGED <<log, overflow>>

Overflow(p) ==
  /\ p.class \in Admitted /\ Bytes(log) + Header + Len(p.data) > Cap
  /\ overflow' = overflow + 1
  /\ UNCHANGED <<log, dropped>>

Next == \E p \in Packets : Keep(p) \/ Shed(p) \/ Overflow(p)
Spec == Init /\ [][Next]_vars

=============================================================================
