-------------------------------- MODULE Batch --------------------------------
(***************************************************************************)
(* One call of next_batch (pcapobj.cc: BatchCallBack, p_next_batch): the   *)
(* packets of one pcap_dispatch are copied one after the other into a      *)
(* buffer that grows, with one record of offset and caplen per packet in   *)
(* an array; any allocation may fail.  The array has room for as many      *)
(* packets as pcap_dispatch is asked for, so that the growth of it in      *)
(* BatchCallBack never runs.  Afterwards the caller cuts the packets out   *)
(* of the buffer with the records (README.md).                             *)
(*                                                                         *)
(* kept and lost are history variables.  The time stamps of the records    *)
(* are left out.                                                           *)
(***************************************************************************)
EXTENDS Integers, Sequences

CONSTANTS
  Data,        \* the captured bytes of a packet, as sequences
  Args,        \* max_n arguments tried
  DefaultN,    \* 256
  FirstCap,    \* 65536
  Slack,       \* 4096
  Word,        \* 2^32: values of an unsigned int
  Junk         \* what allocated memory holds

ASSUME SizesOK ==
  /\ \A d \in Data : d \in Seq(Nat)
  /\ Args \subseteq Int /\ \A m \in Args : m < Word
  /\ DefaultN \in Nat \ {0} /\ DefaultN < Word
  /\ FirstCap \in Nat /\ Slack \in Nat /\ Word \in Nat /\ Junk \in Nat

VARIABLES
  pc,           \* "called", "dispatch" in libpcap, "returned"
  mem, cap,     \* b.buf and its size
  used,         \* bytes of it in use
  meta, mcap,   \* b.meta, as the sequence of its first b.n records, and its size
  kept,         \* the packets stored, with their true offsets
  lost,         \* packets libpcap delivered that were not stored
  result        \* the object returned, or NULL
vars == <<pc, mem, cap, used, meta, mcap, kept, lost, result>>

NULL == [n |-> -1]
Uninitialized(size) == [o \in 0 .. size - 1 |-> Junk]

Init ==
  /\ pc = "called" /\ mem = Uninitialized(0) /\ cap = 0 /\ used = 0
  /\ meta = <<>> /\ mcap = 0 /\ kept = <<>> /\ lost = 0 /\ result = NULL

MetaSize(n) == IF n =< 0 THEN DefaultN ELSE n

\* Both arrays are allocated, or the call ends with a MemoryError.
Call(n) ==
  /\ pc = "called"
  /\ \/ pc' = "dispatch" /\ cap' = FirstCap /\ mcap' = MetaSize(n)
     \/ pc' = "returned" /\ UNCHANGED <<cap, mcap>>
  /\ mem' = Uninitialized(cap')
  /\ UNCHANGED <<used, meta, kept, lost, result>>

-----------------------------------------------------------------------------
(* BatchCallBack.                                                          *)

Fits(d) == used + Len(d) =< cap

Larger(a, b) == IF a < b THEN b ELSE a
\* Mutant of Grown: the buffer is only doubled.
GrownByDoubling(d) == 2 * cap
\* The size of the buffer after realloc.
Grown(d) == Larger(2 * cap, used + Len(d) + Slack)
CapFor(d) == IF Fits(d) THEN cap ELSE Grown(d)

\* realloc keeps the bytes there are.
Resized(size) == [o \in 0 .. size - 1 |-> IF o < cap THEN mem[o] ELSE Junk]
\* memcpy
Copied(m, at, d) ==
  [o \in DOMAIN m |-> IF at =< o /\ o < at + Len(d) THEN d[o - at + 1] ELSE m[o]]

\* Mutant of RecordOf: the offset is taken after the copy.
RecordOfEnd(at, d) == [off |-> (at + Len(d)) % Word, len |-> Len(d)]
RecordOf(at, d) == [off |-> at % Word, len |-> Len(d)]

\* pcap_dispatch was asked for max_n packets, the size of the array.
Delivered == pc = "dispatch" /\ Len(kept) + lost < mcap

Store(d) ==
  /\ Delivered
  /\ cap' = CapFor(d)
  /\ mem' = Copied(Resized(cap'), used, d)
  /\ used' = used + Len(d)
  /\ meta' = Append(meta, RecordOf(used, d))
  /\ kept' = Append(kept, [data |-> d, at |-> used])
  /\ UNCHANGED <<pc, mcap, lost, result>>

\* realloc of the buffer fails: the packet is passed over.
Lose(d) ==
  /\ Delivered /\ ~Fits(d)
  /\ lost' = lost + 1
  /\ UNCHANGED <<pc, mem, cap, used, meta, mcap, kept, result>>

-----------------------------------------------------------------------------
\* pcap_dispatch returns; a read error, or no memory for the two bytes objects,
\* gives an exception.  Otherwise both arrays are copied up to what is in use.
Return ==
  /\ pc = "dispatch" /\ pc' = "returned"
  /\ \/ result' = NULL
     \/ result' = [n |-> Len(meta), meta |-> meta, bytes |-> [o \in 0 .. used - 1 |-> mem[o]]]
  /\ UNCHANGED <<mem, cap, used, meta, mcap, kept, lost>>

Over == pc = "returned" /\ UNCHANGED vars

Next ==
  \/ \E n \in Args : Call(n)
  \/ \E d \in Data : Store(d) \/ Lose(d)
  \/ Return \/ Over
Spec == Init /\ [][Next]_vars

-----------------------------------------------------------------------------
\* Type invariant, with the bounds of the two arrays: neither is overrun, although the
\* records are counted against no more than the packets pcap_dispatch was asked for.
TypeOK ==
  /\ pc \in {"called", "dispatch", "returned"}
  /\ cap \in Nat /\ used \in 0 .. cap /\ mem \in [0 .. cap - 1 -> Nat]
  /\ mcap \in Nat /\ Len(meta) =< mcap
  /\ lost \in Nat /\ Len(kept) + lost =< mcap

\* README.md: bytes[off:off + caplen], a slice of Python.
Slice(b, r) == [i \in {j \in 1 .. r.len : r.off + j - 1 \in DOMAIN b} |-> b[r.off + i - 1]]

\* The caller cuts out of the batch the packets that were stored, in the order of
\* capture, whatever grew, moved or failed to grow meanwhile: every record whose
\* offset an unsigned int can hold leads to its packet.
PacketsCutOut ==
  result # NULL =>
    /\ result.n = Len(kept)
    /\ \A i \in 1 .. result.n :
         kept[i].at < Word => Slice(result.bytes, result.meta[i]) = kept[i].data

=============================================================================
