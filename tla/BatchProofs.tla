----------------------------- MODULE BatchProofs -----------------------------
(***************************************************************************)
(* Theorems about Batch, for any packets, sizes and failing allocations.   *)
(***************************************************************************)
EXTENDS Batch, TLAPS

\* What a stored packet leaves in the two arrays: its bytes below the used end, and
\* its record.
IsStored(i) ==
  /\ kept[i].at + Len(kept[i].data) =< used
  /\ meta[i] = RecordOf(kept[i].at, kept[i].data)
  /\ \A j \in 1 .. Len(kept[i].data) : mem[kept[i].at + j - 1] = kept[i].data[j]

HistoryOK ==
  /\ kept \in Seq([data : Data, at : Nat])
  /\ meta \in Seq([off : Nat, len : Nat]) /\ Len(meta) = Len(kept)
  /\ pc = "dispatch" => mcap # 0 /\ result = NULL
  /\ pc = "called" => used = 0 /\ kept = <<>> /\ lost = 0 /\ result = NULL

\* The result holds what the arrays hold when the call returns.
ResultOK ==
  result # NULL => result = [n |-> Len(meta), meta |-> meta, bytes |-> [o \in 0 .. used - 1 |-> mem[o]]]

Inv == TypeOK /\ HistoryOK /\ ResultOK /\ \A i \in 1 .. Len(kept) : IsStored(i)

\* The bytes of a packet that ends within the first m bytes lie there.
LEMMA InWindow ==
  ASSUME NEW a \in Nat, NEW n \in Nat, NEW m \in Nat, a + n =< m, NEW j \in 1 .. n
  PROVE  /\ a + j - 1 \in 0 .. m - 1 /\ a =< a + j - 1 /\ a + j - 1 < a + n
         /\ (a + j - 1) - a + 1 = j
  OBVIOUS

\* A byte in use lies in both buffers, the old one and the larger new one.
LEMMA BelowBoth ==
  ASSUME NEW u \in Nat, NEW c \in Nat, NEW e \in Nat, u =< c, c =< e, NEW o \in 0 .. u - 1
  PROVE  o \in 0 .. e - 1 /\ o \in 0 .. c - 1 /\ ~(u =< o)
  OBVIOUS

\* A stored packet is one of Data.
LEMMA KeptOK ==
  ASSUME HistoryOK, NEW i \in 1 .. Len(kept)
  PROVE  kept[i].at \in Nat /\ kept[i].data \in Seq(Nat) /\ Len(kept[i].data) \in Nat
  <1> DEFINE E == [data : Data, at : Nat]
  <1>1. kept \in Seq(E)
    BY DEF HistoryOK
  <1> HIDE DEF E
  <1>2. kept[i] \in E
    BY <1>1
  <1>3. kept[i].at \in Nat /\ kept[i].data \in Data
    BY <1>2 DEF E
  <1> QED
    BY <1>3, SizesOK

\* Before the call there is nothing.
LEMMA InitInv == Init => Inv
  <1> SUFFICES ASSUME Init PROVE Inv
    OBVIOUS
  <1>1. TypeOK
    BY SizesOK DEF Init, TypeOK, Uninitialized
  <1> QED
    BY <1>1 DEF Init, Inv, HistoryOK, ResultOK

\* The arrays have room for the packet: the buffer because its new size counts the
\* packet in, the records because a dispatch delivers no more packets than there are
\* records, and each packet stored takes one.
LEMMA RoomForOneMore ==
  ASSUME Inv, NEW d \in Data, Delivered
  PROVE  /\ CapFor(d) \in Nat /\ CapFor(d) >= cap /\ used + Len(d) =< CapFor(d)
         /\ mcap \in Nat /\ Len(meta) \in Nat /\ Len(meta) < mcap
  <1>1. /\ Len(d) \in Nat /\ cap \in Nat /\ used \in Nat /\ used =< cap
        /\ Len(kept) \in Nat /\ Len(meta) = Len(kept) /\ mcap \in Nat /\ lost \in Nat
    BY SizesOK DEF Inv, TypeOK, HistoryOK, Delivered
  <1>2. Len(meta) \in Nat /\ Len(meta) < mcap
    BY <1>1 DEF Delivered
  <1>3. CapFor(d) \in Nat /\ CapFor(d) >= cap /\ used + Len(d) =< CapFor(d)
    BY <1>1, SizesOK DEF CapFor, Fits, Grown, Larger
  <1> QED
    BY <1>1, <1>2, <1>3

\* A grown buffer holds the bytes it held.
LEMMA ResizedKeeps ==
  ASSUME Inv, NEW size \in Nat, size >= cap
  PROVE  /\ Resized(size) \in [0 .. size - 1 -> Nat]
         /\ \A o \in 0 .. cap - 1 : Resized(size)[o] = mem[o]
  BY SizesOK DEF Resized, Inv, TypeOK

LEMMA CallInv ==
  ASSUME Inv, NEW n \in Args, Call(n)
  PROVE  Inv'
  <1>1. /\ pc = "called" /\ used = 0 /\ kept = <<>> /\ lost = 0 /\ result = NULL
        /\ used' = used /\ meta' = meta /\ kept' = kept /\ lost' = lost /\ result' = result
    BY DEF Call, Inv, HistoryOK
  <1>2. MetaSize(n) \in Nat /\ MetaSize(n) # 0
    BY SizesOK DEF MetaSize
  <1>3. cap' \in Nat /\ mem' \in [0 .. cap' - 1 -> Nat]
    BY SizesOK DEF Call, Uninitialized, Inv, TypeOK
  <1>4. pc' \in {"dispatch", "returned"} /\ mcap' \in Nat /\ (pc' = "dispatch" => mcap' # 0)
    BY <1>2 DEF Call, Inv, TypeOK
  <1>5. meta = <<>> /\ Len(meta) = 0
    BY <1>1 DEF Inv, HistoryOK
  <1>6. TypeOK'
    <2>1. used' \in 0 .. cap' /\ Len(meta') =< mcap' /\ Len(kept') + lost' =< mcap'
      BY <1>1, <1>3, <1>4, <1>5 DEF Inv, TypeOK
    <2> QED
      BY <1>1, <1>3, <1>4, <2>1 DEF Inv, TypeOK
  <1>7. HistoryOK' /\ ResultOK'
    BY <1>1, <1>4, <1>5 DEF Inv, HistoryOK, ResultOK
  <1> QED
    BY <1>1, <1>6, <1>7 DEF Inv

LEMMA StoreInv ==
  ASSUME Inv, NEW d \in Data, Store(d)
  PROVE  Inv'
  <1>1. Delivered /\ pc = "dispatch" /\ pc' = pc /\ result = NULL /\ result' = result /\ lost' = lost
    BY DEF Store, Delivered, Inv, HistoryOK
  <1>2. /\ cap' \in Nat /\ cap' >= cap /\ used + Len(d) =< cap'
        /\ mcap' = mcap /\ mcap' \in Nat /\ Len(meta) < mcap'
    BY <1>1, RoomForOneMore DEF Store
  <1>3. /\ used \in Nat /\ cap \in Nat /\ used =< cap /\ Len(d) \in Nat /\ d \in Seq(Nat)
        /\ Len(meta) \in Nat /\ Word \in Nat /\ Word # 0 /\ mem \in [0 .. cap - 1 -> Nat]
    <2>1. Len(meta) \in Nat
      BY <1>1, RoomForOneMore
    <2> QED
      BY <2>1, SizesOK DEF Inv, TypeOK, HistoryOK
  <1>4. used' = used + Len(d)
    BY DEF Store
  <1>5. /\ mem' \in [0 .. cap' - 1 -> Nat]
        /\ \A o \in 0 .. used - 1 : mem'[o] = mem[o]
        /\ \A j \in 1 .. Len(d) : mem'[used + j - 1] = d[j]
    <2> DEFINE R == Resized(cap')
    <2>1. R \in [0 .. cap' - 1 -> Nat] /\ \A o \in 0 .. cap - 1 : R[o] = mem[o]
      BY <1>2, ResizedKeeps
    <2>2. mem' = Copied(R, used, d)
      BY DEF Store
    <2> HIDE DEF R
    <2>3. mem' = [o \in 0 .. cap' - 1 |->
                    IF used =< o /\ o < used + Len(d) THEN d[o - used + 1] ELSE R[o]]
      BY <2>1, <2>2 DEF Copied
    <2>4. \A o \in 0 .. cap' - 1 : used =< o /\ o < used + Len(d) => o - used + 1 \in 1 .. Len(d)
      BY <1>2, <1>3
    <2>5. mem' \in [0 .. cap' - 1 -> Nat]
      BY <1>3, <2>1, <2>3, <2>4
    <2>6. ASSUME NEW o \in 0 .. used - 1 PROVE mem'[o] = mem[o]
      <3>1. o \in 0 .. cap' - 1 /\ o \in 0 .. cap - 1 /\ ~(used =< o)
        BY <1>2, <1>3, BelowBoth
      <3> QED
        BY <2>1, <2>3, <3>1
    <2>7. ASSUME NEW j \in 1 .. Len(d) PROVE mem'[used + j - 1] = d[j]
      <3>1. /\ used + j - 1 \in 0 .. cap' - 1 /\ used =< used + j - 1
            /\ used + j - 1 < used + Len(d) /\ (used + j - 1) - used + 1 = j
        BY <1>2, <1>3, InWindow
      <3> QED
        BY <2>3, <3>1
    <2> QED
      BY <2>5, <2>6, <2>7
  <1>6. /\ kept' = Append(kept, [data |-> d, at |-> used]) /\ meta' = Append(meta, RecordOf(used, d))
        /\ [data |-> d, at |-> used] \in [data : Data, at : Nat]
        /\ RecordOf(used, d) \in [off : Nat, len : Nat]
        /\ kept \in Seq([data : Data, at : Nat]) /\ meta \in Seq([off : Nat, len : Nat])
        /\ Len(meta) = Len(kept)
    BY <1>3 DEF Store, RecordOf, Inv, HistoryOK
  <1>7. TypeOK'
    <2>1. Len(meta') =< mcap' /\ Len(kept') + lost' =< mcap'
      BY <1>1, <1>2, <1>3, <1>6 DEF Delivered, Inv, TypeOK
    <2>2. used' \in 0 .. cap'
      BY <1>2, <1>3, <1>4
    <2> QED
      BY <1>1, <1>2, <1>5, <2>1, <2>2 DEF Inv, TypeOK
  <1>8. HistoryOK'
    <2>1. mcap' # 0
      BY <1>2, <1>3
    <2> QED
      BY <1>1, <1>6, <2>1 DEF HistoryOK
  <1>9. ResultOK'
    BY <1>1 DEF ResultOK
  <1>10. ASSUME NEW i \in 1 .. Len(kept') PROVE IsStored(i)'
    <2>1. CASE i = Len(kept')
      <3>1. kept'[i] = [data |-> d, at |-> used] /\ meta'[i] = RecordOf(used, d)
        BY <1>6, <2>1
      <3> QED
        BY <1>3, <1>4, <1>5, <3>1 DEF IsStored, RecordOf
    <2>2. CASE i # Len(kept')
      <3>1. i \in 1 .. Len(kept) /\ kept'[i] = kept[i] /\ meta'[i] = meta[i]
        BY <1>6, <2>2
      <3>2. IsStored(i) /\ kept[i].at \in Nat /\ Len(kept[i].data) \in Nat
        BY <3>1, KeptOK DEF Inv
      <3>3. kept[i].at \in Nat /\ Len(kept[i].data) \in Nat /\ kept[i].at + Len(kept[i].data) =< used
        BY <3>2 DEF IsStored
      <3>4. kept[i].at + Len(kept[i].data) =< used'
        BY <1>3, <1>4, <3>3
      <3>5. ASSUME NEW j \in 1 .. Len(kept[i].data) PROVE mem'[kept[i].at + j - 1] = kept[i].data[j]
        <4>1. kept[i].at + j - 1 \in 0 .. used - 1
          BY <1>3, <3>3, InWindow
        <4> QED
          BY <1>5, <3>2, <4>1 DEF IsStored
      <3> QED
        BY <3>1, <3>2, <3>4, <3>5 DEF IsStored, RecordOf
    <2> QED
      BY <2>1, <2>2
  <1> QED
    BY <1>7, <1>8, <1>9, <1>10 DEF Inv

LEMMA LoseInv ==
  ASSUME Inv, NEW d \in Data, Lose(d)
  PROVE  Inv'
  <1>1. /\ Delivered /\ pc = "dispatch" /\ lost' = lost + 1
        /\ UNCHANGED <<pc, mem, cap, used, meta, mcap, kept, result>>
    BY DEF Lose, Delivered
  <1>2. Len(kept) \in Nat /\ lost \in Nat /\ mcap \in Nat /\ Len(kept) + lost < mcap
    BY <1>1 DEF Delivered, Inv, TypeOK, HistoryOK
  <1>3. lost' \in Nat /\ Len(kept') + lost' =< mcap'
    BY <1>1, <1>2
  <1>4. TypeOK'
    BY <1>1, <1>3 DEF Inv, TypeOK
  <1>5. HistoryOK' /\ ResultOK'
    BY <1>1 DEF Inv, HistoryOK, ResultOK
  <1>6. ASSUME NEW i \in 1 .. Len(kept') PROVE IsStored(i)'
    BY <1>1 DEF Inv, IsStored, RecordOf
  <1> QED
    BY <1>4, <1>5, <1>6 DEF Inv

\* Every step keeps the invariant: one case per action.
LEMMA InvIsInductive == Inv /\ [Next]_vars => Inv'
  <1> SUFFICES ASSUME Inv, [Next]_vars PROVE Inv'
    OBVIOUS
  <1>1. CASE Return
    BY <1>1 DEF Return, Inv, TypeOK, HistoryOK, ResultOK, IsStored, RecordOf
  <1>2. CASE UNCHANGED vars
    BY <1>2 DEF vars, Inv, TypeOK, HistoryOK, ResultOK, IsStored, RecordOf
  <1> QED
    BY <1>1, <1>2, CallInv, StoreInv, LoseInv DEF Next, Over

\* A record with the true offset cuts its packet out.
LEMMA InvCutsOut == Inv => PacketsCutOut
  <1> SUFFICES ASSUME Inv, result # NULL, NEW i \in 1 .. Len(kept), kept[i].at < Word
               PROVE  Slice(result.bytes, result.meta[i]) = kept[i].data
    BY DEF PacketsCutOut, Inv, ResultOK, HistoryOK
  <1> DEFINE d == kept[i].data  a == kept[i].at  b == [o \in 0 .. used - 1 |-> mem[o]]
  <1>1. /\ d \in Seq(Nat) /\ Len(d) \in Nat /\ a \in Nat /\ Word \in Nat /\ used \in Nat
        /\ a + Len(d) =< used /\ \A j \in 1 .. Len(d) : mem[a + j - 1] = d[j]
    <2>1. IsStored(i) /\ TypeOK /\ d \in Seq(Nat) /\ Len(d) \in Nat /\ a \in Nat
      BY KeptOK DEF Inv
    <2>2. Word \in Nat /\ used \in Nat
      BY <2>1, SizesOK DEF TypeOK
    <2> QED
      BY <2>1, <2>2 DEF IsStored
  <1>2. result.bytes = b /\ result.meta[i] = [off |-> a % Word, len |-> Len(d)]
    BY DEF Inv, ResultOK, IsStored, RecordOf
  <1> HIDE DEF d
  <1>3. a % Word = a
    <2>1. a < Word /\ a \in Nat /\ Word \in Nat
      BY <1>1
    <2> HIDE DEF a
    <2> QED
      BY <2>1
  <1> HIDE DEF a
  <1>4. {j \in 1 .. Len(d) : a + j - 1 \in DOMAIN b} = 1 .. Len(d)
    BY <1>1
  <1>5. Slice(result.bytes, result.meta[i]) = [j \in 1 .. Len(d) |-> b[a + j - 1]]
    BY <1>2, <1>3, <1>4 DEF Slice
  <1>6. \A j \in 1 .. Len(d) : b[a + j - 1] = d[j]
    BY <1>1
  <1>7. d = [j \in 1 .. Len(d) |-> d[j]]
    BY <1>1
  <1> QED
    BY <1>5, <1>6, <1>7 DEF d

-----------------------------------------------------------------------------
\* Neither array of a batch is overrun (BatchCallBack), for any sizes and packets: the
\* buffer because it grows, the records although they never do.
THEOREM ArraysAreLargeEnough == Spec => []TypeOK
  <1>1. Inv => TypeOK
    BY DEF Inv
  <1> QED
    BY <1>1, InitInv, InvIsInductive, PTL DEF Spec

\* The records of next_batch lead to the packets.
THEOREM BatchesCanBeCut == Spec => []PacketsCutOut
  BY InitInv, InvIsInductive, InvCutsOut, PTL DEF Spec

=============================================================================
