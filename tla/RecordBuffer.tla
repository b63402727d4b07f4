---------------------------- MODULE RecordBuffer ----------------------------
(***************************************************************************)
(* loop_to_buffer (pcapobj.cc: BufferCallBack, p_loop_to_buffer) writes the *)
(* records of the admitted packets, byte by byte, into a buffer of the     *)
(* caller; afterwards the worker processes of                              *)
(* examples/05_shared_memory_ring.py each read a stretch of the records.   *)
(*                                                                         *)
(* A record is the caplen in LenBytes bytes, the lowest first, one byte    *)
(* for the class and the captured bytes.                                   *)
(***************************************************************************)
EXTENDS Integers, SequencesExt

CONSTANTS
  Packets,     \* [class, data]: public class ids, and sequences of bytes
  Admitted,    \* classes in admit_mask
  Cap,         \* bytes of the buffer
  Radix,       \* values of a byte: 256
  LenBytes,    \* bytes of the caplen: 4
  Junk,        \* what the buffer holds before
  Workers,     \* worker processes: 4
  MaxPackets   \* bound: packets of the loop

ClassIds == {p.class : p \in Packets}
Octets == 0 .. Radix - 1

\* The weight of byte i of the caplen: 1 << 8 * i.
Place[i \in 0 .. LenBytes] == IF i = 0 THEN 1 ELSE Radix * Place[i - 1]

ASSUME BufferOK ==
  /\ Cap \in Nat /\ LenBytes \in Nat /\ Workers \in Nat \ {0} /\ MaxPackets \in Nat
  /\ Radix \in Nat /\ Junk \in Octets
  /\ Packets \subseteq [class : Octets, data : Seq(Octets)]
  /\ \A p \in Packets : Len(p.data) < Place[LenBytes]

VARIABLES
  buf, used,                   \* the buffer, and the bytes written to it
  written, dropped, overflow,  \* the counters of the result
  tally,                       \* and its counters per class
  pc,                          \* "loop", then "drain"
  off, got                     \* per worker: its offset, and the records it read
counters == <<written, dropped, overflow, tally>>
vars == <<buf, used, counters, pc, off, got>>

HeaderBytes == LenBytes + 1
Pool == 0 .. Workers - 1

-----------------------------------------------------------------------------
(* The bytes of a record.                                                  *)

\* Mutant of Digit: the highest byte first.
DigitReversed(n, i) == (n \div Place[LenBytes - 1 - i]) % Radix

\* (cl >> 8 * i) & 0xff
Digit(n, i) == (n \div Place[i]) % Radix

\* Mutant of Octet: the bytes of the caplen are not masked.
OctetUnmasked(p, i) ==
  IF i < LenBytes THEN Len(p.data) \div Place[i]
  ELSE IF i = LenBytes THEN p.class ELSE p.data[i - LenBytes]

\* Byte i of the record of p.
Octet(p, i) ==
  IF i < LenBytes THEN Digit(Len(p.data), i)
  ELSE IF i = LenBytes THEN p.class ELSE p.data[i - LenBytes]

Need(p) == HeaderBytes + Len(p.data)

\* The caplen of the record at offset o, mv[o] | mv[o + 1] << 8 | ...
LenAt(o) == LET n[i \in 0 .. LenBytes] == IF i = 0 THEN 0 ELSE n[i - 1] + buf[o + i - 1] * Place[i - 1]
            IN n[LenBytes]
RecordAt(o) == [class |-> buf[o + LenBytes],
                data |-> [i \in 1 .. LenAt(o) |-> buf[o + LenBytes + i]]]

\* slot_offsets: where the records start, and the end of the last one.
Starts == LET s[k \in 0 .. written] ==
                IF k = 0 THEN 0 ELSE s[k - 1] + HeaderBytes + LenAt(s[k - 1])
          IN s

-----------------------------------------------------------------------------
Init ==
  /\ buf = [o \in 0 .. Cap - 1 |-> Junk] /\ used = 0
  /\ written = 0 /\ dropped = 0 /\ overflow = 0 /\ tally = [c \in ClassIds |-> 0]
  /\ pc = "loop"
  /\ off = [k \in Pool |-> 0] /\ got = [k \in Pool |-> <<>>]

\* Every packet of the loop is counted in its class, whatever becomes of it.
Classified(p) ==
  /\ pc = "loop" /\ written + dropped + overflow < MaxPackets
  /\ tally' = [tally EXCEPT ![p.class] = @ + 1]
  /\ UNCHANGED <<pc, off, got>>

\* Not in admit_mask.
Drop(p) ==
  /\ Classified(p) /\ p.class \notin Admitted
  /\ dropped' = dropped + 1
  /\ UNCHANGED <<buf, used, written, overflow>>

\* Mutant of Fits: only a buffer that is full already is noticed.
FitsUnlessFull(p) == used < Cap

Fits(p) == used + Need(p) =< Cap

\* Mutant of Overflow: the packet is not counted.
OverflowUncounted(p) ==
  /\ Classified(p) /\ p.class \in Admitted /\ ~Fits(p)
  /\ UNCHANGED <<buf, used, written, dropped, overflow>>

Overflow(p) ==
  /\ Classified(p) /\ p.class \in Admitted /\ ~Fits(p)
  /\ overflow' = overflow + 1
  /\ UNCHANGED <<buf, used, written, dropped>>

Write(p) ==
  /\ Classified(p) /\ p.class \in Admitted /\ Fits(p)
  /\ buf' = [o \in DOMAIN buf |-> IF o \in used .. used + HeaderBytes + Len(p.data) - 1
                                 THEN Octet(p, o - used) ELSE buf[o]]
  /\ used' = used + Need(p)
  /\ written' = written + 1
  /\ UNCHANGED <<dropped, overflow>>

BufferCallBack(p) == Drop(p) \/ Overflow(p) \/ Write(p)

-----------------------------------------------------------------------------
(* The worker processes.                                                   *)

\* Mutant of Share: the records that remain after the division are left out.
ShareEqual(k) == (written \div Workers) * k

\* The first record of worker k: written * k // N.
Share(k) == (written * k) \div Workers

\* The loop is over; each worker gets the offset of its first record.
Split ==
  /\ pc = "loop" /\ pc' = "drain"
  /\ off' = [k \in Pool |-> Starts[Share(k)]]
  /\ UNCHANGED <<buf, used, counters, got>>

\* One turn of consume.
Consume(k) ==
  /\ pc = "drain" /\ off[k] < Starts[Share(k + 1)]
  /\ got' = [got EXCEPT ![k] = Append(@, RecordAt(off[k]))]
  /\ off' = [off EXCEPT ![k] = @ + HeaderBytes + LenAt(@)]
  /\ UNCHANGED <<buf, used, counters, pc>>

Drained == pc = "drain" /\ \A k \in Pool : off[k] >= Starts[Share(k + 1)]
Joined == Drained /\ UNCHANGED vars

Next == \/ \E p \in Packets : BufferCallBack(p)
        \/ Split \/ (\E k \in Pool : Consume(k)) \/ Joined
Spec == Init /\ [][Next]_vars

-----------------------------------------------------------------------------
\* The records the buffer holds, as a reader of the documented layout finds them.
Records == [k \in 1 .. written |-> RecordAt(Starts[k - 1])]

\* Type invariant.
TypeOK ==
  /\ buf \in [0 .. Cap - 1 -> Octets] /\ used \in Nat
  /\ written \in Nat /\ dropped \in Nat /\ overflow \in Nat /\ tally \in [ClassIds -> Nat]
  /\ pc \in {"loop", "drain"} /\ off \in [Pool -> Nat] /\ got \in [Pool -> Seq(Packets)]

\* The buffer is never overrun, and nothing after the used part is touched.
NeverOverrun == used =< Cap /\ \A o \in used .. Cap - 1 : buf[o] = Junk

\* Moreover, a reader of the layout finds that the records take up the used part.
WithinBuffer == NeverOverrun /\ Starts[written] = used

\* tests/test_fast.py, and the comment above BufferCtx: the classes are counted
\* exactly even when the buffer is full.  The counters tell how many packets of the
\* admitted classes are missing from the buffer, and no class has more records
\* there than packets.
Count(C) == SumFunctionOnSet(tally, C)
Accounted ==
  /\ dropped = Count(ClassIds \ Admitted)
  /\ written + overflow = Count(ClassIds \cap Admitted)
  /\ \A c \in ClassIds : Cardinality({k \in 1 .. written : Records[k].class = c}) =< tally[c]

\* The bytes in the buffer implement the log of loop_to_buffer.
Log == INSTANCE RecordLog WITH log <- Records, Header <- HeaderBytes
ImplementsLog == Log!Spec

\* Every record is read by exactly one worker, in the order of capture.
EveryRecordOnce ==
  Drained => FlattenSeq([k \in 1 .. Workers |-> got[k - 1]]) = Records

=============================================================================
