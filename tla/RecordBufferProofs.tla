-------------------------- MODULE RecordBufferProofs --------------------------
(***************************************************************************)
(* What holds of loop_to_buffer and of the workers that share its buffer,  *)
(* for every buffer, every radix, any number of packets and of workers.    *)
(* The heart is that the bytes read back (StoredReads): whatever records   *)
(* have been laid end to end, Starts finds where they start and Records    *)
(* what they are.  The invariant Laid says so of the state.                *)
(***************************************************************************)
EXTENDS RecordBuffer, DataLemmas, SequenceTheorems

-----------------------------------------------------------------------------
(* The weights of the bytes of a caplen.                                   *)

LEMMA RadixType == LenBytes \in Nat /\ Radix \in Nat /\ Radix > 0
<1>1. Junk \in 0 .. Radix - 1 /\ Radix \in Nat /\ LenBytes \in Nat
  BY BufferOK DEF Octets
<1> QED BY <1>1

LEMMA PlaceIs == ArePowers(Place, Radix, LenBytes)
<1>1. \E g : ArePowers(g, Radix, LenBytes)
  BY RadixType, PowersExist
<1> QED BY <1>1, Zenon DEF Place, ArePowers

LEMMA PlaceSteps ==
  /\ Place[0] = 1
  /\ \A i \in 0 .. LenBytes - 1 : Place[i + 1] = Radix * Place[i]
<1> DEFINE P == Place
<1>1. ArePowers(P, Radix, LenBytes)
  BY PlaceIs
<1> HIDE DEF P
<1>2. P[0] = 1 /\ \A i \in 0 .. LenBytes - 1 : P[i + 1] = Radix * P[i]
  BY <1>1, RadixType, PowerSteps
<1> QED BY <1>2 DEF P

LEMMA PlaceType == \A i \in 0 .. LenBytes : Place[i] \in Nat /\ Place[i] > 0
<1> DEFINE P == Place
<1>1. ArePowers(P, Radix, LenBytes)
  BY PlaceIs
<1> HIDE DEF P
<1>2. \A i \in 0 .. LenBytes : P[i] \in Nat /\ P[i] > 0
  BY <1>1, RadixType, PowerType
<1> QED BY <1>2 DEF P

-----------------------------------------------------------------------------
(* A record is read back.                                                  *)

\* The first i bytes of a caplen tell its remainder by the weight of the next.
LEMMA ReadsLength ==
  ASSUME NEW a \in Nat, NEW L \in Nat, L < Place[LenBytes],
         \A i \in 0 .. LenBytes - 1 : buf[a + i] = Digit(L, i)
  PROVE  LenAt(a) = L
<1> DEFINE Reads(n) == n = [i \in 0 .. LenBytes |->
                              IF i = 0 THEN 0 ELSE n[i - 1] + buf[a + i - 1] * Place[i - 1]]
           m == [i \in 0 .. LenBytes |-> L % Place[i]]
           r == CHOOSE n : Reads(n)
<1>1. ASSUME NEW i \in 0 .. LenBytes - 1
      PROVE  L % Place[i + 1] = (L % Place[i]) + buf[a + i] * Place[i]
  <2>1. Place[i] \in Nat /\ Place[i] > 0 /\ Place[i + 1] = Radix * Place[i]
    BY PlaceType, PlaceSteps, RadixType
  <2>2. buf[a + i] = (L \div Place[i]) % Radix
    BY DEF Digit
  <2>3. L % (Radix * Place[i]) = (L % Place[i]) + ((L \div Place[i]) % Radix) * Place[i]
    BY <2>1, RadixType, NextDigit
  <2> QED BY <2>1, <2>2, <2>3
<1>2. L % Place[0] = 0
  BY PlaceSteps
<1>3. ASSUME NEW i \in 0 .. LenBytes, i # 0
      PROVE  m[i] = m[i - 1] + buf[a + i - 1] * Place[i - 1]
  <2>1. i - 1 \in 0 .. LenBytes - 1 /\ (i - 1) + 1 = i /\ a + (i - 1) = a + i - 1
        /\ i - 1 \in 0 .. LenBytes
    BY <1>3, RadixType
  <2>2. L % Place[(i - 1) + 1] = (L % Place[i - 1]) + buf[a + (i - 1)] * Place[i - 1]
    BY <1>1, <2>1
  <2>3. L % Place[i] = (L % Place[i - 1]) + buf[a + i - 1] * Place[i - 1]
    BY <2>1, <2>2
  <2> QED BY <2>1, <2>3
<1>4. m[0] = 0 /\ 0 \in 0 .. LenBytes
  BY <1>2, RadixType
<1>5. Reads(m)
  <2>1. \A i \in 0 .. LenBytes :
          m[i] = IF i = 0 THEN 0 ELSE m[i - 1] + buf[a + i - 1] * Place[i - 1]
    BY <1>3, <1>4
  <2>2. m = [i \in 0 .. LenBytes |-> m[i]]
    OBVIOUS
  <2> HIDE DEF m
  <2> QED BY <2>1, <2>2
<1> HIDE DEF m
<1>6. Reads(r)
  BY <1>5, Zenon
<1>7. LenAt(a) = r[LenBytes]
  BY Zenon DEF LenAt
<1> HIDE DEF r
<1> DEFINE T == {i \in Nat : i =< LenBytes => r[i] = m[i]}
<1>8. 0 \in T
  BY <1>4, <1>6
<1>9. ASSUME NEW n \in Nat, n \in T PROVE n + 1 \in T
  <2> SUFFICES ASSUME n + 1 =< LenBytes PROVE r[n + 1] = m[n + 1]
    OBVIOUS
  <2>1. n + 1 \in 0 .. LenBytes /\ n + 1 # 0 /\ (n + 1) - 1 = n /\ n =< LenBytes
    BY RadixType
  <2>2. r[n] = m[n]
    BY <1>9, <2>1
  <2>3. r[n + 1] = r[(n + 1) - 1] + buf[a + (n + 1) - 1] * Place[(n + 1) - 1]
    BY <1>6, <2>1
  <2>4. m[n + 1] = m[(n + 1) - 1] + buf[a + (n + 1) - 1] * Place[(n + 1) - 1]
    BY <1>3, <2>1
  <2> QED BY <2>1, <2>2, <2>3, <2>4
<1> HIDE DEF T
<1>10. LenBytes \in T
  BY <1>8, <1>9, NumberInduction, RadixType
<1>11. r[LenBytes] = L % Place[LenBytes]
  BY <1>10, RadixType DEF T, m
<1>12. L % Place[LenBytes] = L
  <2>1. Place[LenBytes] \in Nat /\ Place[LenBytes] > 0
    BY PlaceType, RadixType
  <2> QED BY <2>1
<1> QED BY <1>7, <1>11, <1>12

\* What the code writes of a packet.
At(p, a) == \A i \in 0 .. Need(p) - 1 : buf[a + i] = Octet(p, i)

LEMMA PacketType ==
  ASSUME NEW p \in Packets
  PROVE  /\ Len(p.data) \in Nat /\ HeaderBytes \in Nat /\ HeaderBytes = LenBytes + 1
         /\ Need(p) = HeaderBytes + Len(p.data) /\ Need(p) \in Nat /\ Need(p) > 0
         /\ p.data \in Seq(Octets) /\ p.class \in Octets /\ p.class \in ClassIds
         /\ p = [class |-> p.class, data |-> p.data]
<1>1. p \in [class : Octets, data : Seq(Octets)]
  BY BufferOK
<1>2. p.data \in Seq(Octets) /\ p.class \in Octets /\ p = [class |-> p.class, data |-> p.data]
  BY <1>1
<1>3. Len(p.data) \in Nat
  BY <1>2
<1>4. HeaderBytes = LenBytes + 1 /\ HeaderBytes \in Nat /\ HeaderBytes > 0
  BY RadixType DEF HeaderBytes
<1>5. Need(p) = HeaderBytes + Len(p.data)
  BY DEF Need
<1>6. p.class \in ClassIds
  BY DEF ClassIds
<1> HIDE DEF Need, HeaderBytes
<1> QED BY <1>2, <1>3, <1>4, <1>5, <1>6

LEMMA ReadsRecord ==
  ASSUME NEW p \in Packets, NEW a \in Nat, At(p, a)
  PROVE  LenAt(a) = Len(p.data) /\ RecordAt(a) = p
<1> DEFINE L == Len(p.data)
<1>1. /\ L \in Nat /\ LenBytes \in Nat /\ Need(p) = LenBytes + 1 + L
      /\ p = [class |-> p.class, data |-> p.data] /\ p.data \in Seq(Octets)
  BY PacketType, RadixType
<1>2. L < Place[LenBytes]
  BY BufferOK
<1> HIDE DEF L
<1>3. \A i \in 0 .. LenBytes + L : buf[a + i] = Octet(p, i)
  <2>1. 0 .. LenBytes + L = 0 .. Need(p) - 1
    BY <1>1
  <2> QED BY <2>1 DEF At
<1>4. LenAt(a) = L
  <2>1. ASSUME NEW i \in 0 .. LenBytes - 1 PROVE buf[a + i] = Digit(L, i)
    <3>1. i \in 0 .. LenBytes + L /\ i < LenBytes
      BY <1>1
    <3> QED BY <1>3, <3>1 DEF Octet, L
  <2> QED BY <1>1, <1>2, <2>1, ReadsLength
<1>5. buf[a + LenBytes] = p.class
  <2>1. LenBytes \in 0 .. LenBytes + L /\ ~(LenBytes < LenBytes)
    BY <1>1
  <2> QED BY <1>3, <2>1 DEF Octet
<1>6. ASSUME NEW i \in 1 .. L PROVE buf[a + LenBytes + i] = p.data[i]
  <2>1. /\ LenBytes + i \in 0 .. LenBytes + L /\ ~(LenBytes + i < LenBytes) /\ LenBytes + i # LenBytes
        /\ a + (LenBytes + i) = a + LenBytes + i /\ (LenBytes + i) - LenBytes = i
    BY <1>1
  <2>2. buf[a + (LenBytes + i)] = p.data[(LenBytes + i) - LenBytes]
    BY <1>3, <2>1 DEF Octet
  <2> QED BY <2>1, <2>2
<1>7. p.data = [i \in 1 .. L |-> p.data[i]]
  BY <1>1 DEF L
<1>8. [i \in 1 .. L |-> buf[a + LenBytes + i]] = p.data
  <2>1. [i \in 1 .. L |-> buf[a + LenBytes + i]] = [i \in 1 .. L |-> p.data[i]]
    BY <1>6
  <2> QED BY <1>7, <2>1
<1>9. RecordAt(a) = [class |-> p.class, data |-> p.data]
  BY <1>4, <1>5, <1>8 DEF RecordAt
<1> QED BY <1>1, <1>4, <1>9 DEF L

-----------------------------------------------------------------------------
(* So are all of them.                                                     *)

\* The records of the packets l have been laid end to end: the one of l[k] lies
\* between o[k - 1] and o[k].
Stored(l, o) ==
  /\ l \in Seq(Packets) /\ Len(l) = written
  /\ o \in [0 .. written -> Nat] /\ o[0] = 0 /\ o[written] = used
  /\ \A k \in 1 .. written : o[k] = o[k - 1] + Need(l[k]) /\ o[k] =< used /\ At(l[k], o[k - 1])

LEMMA StoredReads ==
  written \in Nat => \A l, o : Stored(l, o) => Starts = o /\ Records = l
<1> SUFFICES ASSUME written \in Nat, NEW l, NEW o, Stored(l, o) PROVE Starts = o /\ Records = l
  OBVIOUS
<1> DEFINE Walks(s) == s = [k \in 0 .. written |->
                              IF k = 0 THEN 0 ELSE s[k - 1] + HeaderBytes + LenAt(s[k - 1])]
           r == CHOOSE s : Walks(s)
<1>1. ASSUME NEW k \in 1 .. written
      PROVE  /\ l[k] \in Packets /\ o[k - 1] \in Nat
             /\ o[k] = o[k - 1] + HeaderBytes + LenAt(o[k - 1])
             /\ RecordAt(o[k - 1]) = l[k]
  <2>1. l[k] \in Packets
    <3>1. k \in 1 .. Len(l)
      BY DEF Stored
    <3> QED BY <3>1 DEF Stored
  <2>2. o[k - 1] \in Nat
    <3>1. k - 1 \in 0 .. written
      OBVIOUS
    <3> QED BY <3>1 DEF Stored
  <2>3. At(l[k], o[k - 1]) /\ o[k] = o[k - 1] + Need(l[k])
    BY DEF Stored
  <2>4. LenAt(o[k - 1]) = Len(l[k].data) /\ RecordAt(o[k - 1]) = l[k]
    BY <2>1, <2>2, <2>3, ReadsRecord
  <2>5. /\ Need(l[k]) = HeaderBytes + LenAt(o[k - 1])
        /\ HeaderBytes \in Nat /\ LenAt(o[k - 1]) \in Nat
    BY <2>1, <2>4, PacketType
  <2>6. o[k] = o[k - 1] + HeaderBytes + LenAt(o[k - 1])
    BY <2>2, <2>3, <2>5
  <2> QED BY <2>1, <2>2, <2>4, <2>6
<1>2. o = [k \in 0 .. written |-> o[k]] /\ o[0] = 0
  BY DEF Stored
<1>3. \A k \in 0 .. written : k # 0 => k \in 1 .. written
  OBVIOUS
<1>4. Walks(o)
  <2>1. \A k \in 0 .. written :
          o[k] = IF k = 0 THEN 0 ELSE o[k - 1] + HeaderBytes + LenAt(o[k - 1])
    BY <1>1, <1>2, <1>3
  <2> QED BY <1>2, <2>1
<1>5. Walks(r)
  BY <1>4, Zenon
<1>6. Starts = r
  BY Zenon DEF Starts
<1> HIDE DEF r
<1> DEFINE T == {n \in Nat : n =< written => r[n] = o[n]}
<1>7. 0 \in T
  BY <1>2, <1>5
<1>8. ASSUME NEW n \in Nat, n \in T PROVE n + 1 \in T
  <2> SUFFICES ASSUME n + 1 =< written PROVE r[n + 1] = o[n + 1]
    OBVIOUS
  <2>1. n + 1 \in 0 .. written /\ n + 1 # 0 /\ (n + 1) - 1 = n /\ n =< written /\ n + 1 \in 1 .. written
    OBVIOUS
  <2>2. r[n] = o[n]
    BY <1>8, <2>1
  <2>3. r[n + 1] = r[n] + HeaderBytes + LenAt(r[n])
    BY <1>5, <2>1
  <2>4. o[n + 1] = o[n] + HeaderBytes + LenAt(o[n])
    BY <1>1, <2>1
  <2> QED BY <2>2, <2>3, <2>4
<1> HIDE DEF T
<1>9. Nat \subseteq T
  BY <1>7, <1>8, NumberInduction
<1>10. \A k \in 0 .. written : r[k] = o[k]
  BY <1>9 DEF T
<1>11. r = [k \in 0 .. written |-> r[k]]
  BY <1>5
<1>12. r = o
  BY <1>2, <1>10, <1>11
<1>13. Records = l
  <2>1. Records = [k \in 1 .. written |-> RecordAt(o[k - 1])]
    BY <1>6, <1>12 DEF Records
  <2>2. l = [k \in 1 .. written |-> l[k]]
    BY DEF Stored
  <2> QED BY <1>1, <2>1, <2>2
<1> QED BY <1>6, <1>12, <1>13

-----------------------------------------------------------------------------
(* The inductive invariant.                                                *)

Laid == Stored(Records, Starts)

\* In the loop no worker has read; later each has read its first records, and
\* stands where the next one starts.
Reading ==
  /\ pc = "loop" => got = [k \in Pool |-> <<>>]
  /\ pc = "drain" => \A k \in Pool : \E n \in Share(k) .. Share(k + 1) :
                       got[k] = SubSeq(Records, Share(k) + 1, n) /\ off[k] = Starts[n]

Inv == TypeOK /\ NeverOverrun /\ Laid /\ Accounted /\ Reading

\* What the steps need to know of the state.
LEMMA StateFacts ==
  ASSUME TypeOK, Laid
  PROVE  /\ written \in Nat /\ used \in Nat /\ Cap \in Nat /\ Workers \in Nat /\ Workers > 0
         /\ Records \in Seq(Packets) /\ Len(Records) = written
         /\ Starts \in [0 .. written -> Nat] /\ Starts[0] = 0 /\ Starts[written] = used
  BY BufferOK DEF TypeOK, Laid, Stored

\* A step that neither writes nor counts a record leaves them all where they are.
LEMMA RecordsStay ==
  ASSUME TypeOK, Laid, UNCHANGED <<buf, used, written>>
  PROVE  Records' = Records /\ Starts' = Starts /\ Laid'
<1>1. (written \in Nat => \A l, o : Stored(l, o) => Starts = o /\ Records = l)'
  BY StoredReads, PTL
<1>2. written' \in Nat
  BY StateFacts
<1>3. PICK l, o : l = Records /\ o = Starts
  OBVIOUS
<1>4. Stored(l, o)
  BY <1>3 DEF Laid
<1>5. Stored(l, o)'
  BY <1>4 DEF Stored, At
<1>6. Starts' = o /\ Records' = l
  BY <1>1, <1>2, <1>5
<1> HIDE DEF Records, Starts, Stored
<1>7. Stored(Records, Starts)'
  BY <1>5, <1>6
<1> QED BY <1>3, <1>6, <1>7 DEF Laid

LEMMA InRecord ==
  ASSUME NEW a \in Nat, NEW h \in Nat, NEW n \in Nat, NEW i \in Int
  PROVE  i \in a .. a + h + n - 1 <=> a =< i /\ i < a + (h + n)
OBVIOUS

\* One that writes appends its packet.
LEMMA WriteAppends ==
  ASSUME TypeOK, NeverOverrun, Laid, NEW p \in Packets, Write(p)
  PROVE  Laid' /\ Records' = Append(Records, p)
<1>1. (written \in Nat => \A l, o : Stored(l, o) => Starts = o /\ Records = l)'
  BY StoredReads, PTL
<1>2. PICK l, o : l = Records /\ o = Starts
  OBVIOUS
<1>3. Stored(l, o)
  BY <1>2 DEF Laid
<1>0. PICK m, q :
        /\ m = Append(l, p)
        /\ q = [k \in 0 .. written + 1 |-> IF k = written + 1 THEN used + Need(p) ELSE o[k]]
  OBVIOUS
<1>4. /\ written \in Nat /\ used \in Nat /\ Cap \in Nat
      /\ Need(p) \in Nat /\ Need(p) > 0 /\ Need(p) = HeaderBytes + Len(p.data)
      /\ HeaderBytes \in Nat /\ Len(p.data) \in Nat
  BY StateFacts, PacketType
<1>5. written' = written + 1 /\ used' = used + Need(p) /\ used + Need(p) =< Cap
  BY DEF Write, Fits
<1>6. /\ l \in Seq(Packets) /\ Len(l) = written
      /\ o \in [0 .. written -> Nat] /\ o[0] = 0 /\ o[written] = used
  BY <1>3 DEF Stored
<1>7. DOMAIN buf = 0 .. Cap - 1
  BY DEF TypeOK
<1>8. ASSUME NEW i \in Int, 0 =< i, i < used PROVE buf'[i] = buf[i]
  <2>1. i \in 0 .. Cap - 1
    BY <1>4, <1>5, <1>8
  <2>2. i \notin used .. used + HeaderBytes + Len(p.data) - 1
    <3>1. ~(used =< i)
      BY <1>4, <1>8
    <3> QED BY <1>4, <3>1, InRecord
  <2> QED BY <1>7, <2>1, <2>2 DEF Write
<1>9. ASSUME NEW i \in 0 .. Need(p) - 1 PROVE buf'[used + i] = Octet(p, i)
  <2>1. used + i \in 0 .. Cap - 1 /\ (used + i) - used = i
    BY <1>4, <1>5
  <2>2. used + i \in used .. used + HeaderBytes + Len(p.data) - 1
    <3>1. used + i \in Int /\ used =< used + i /\ used + i < used + Need(p)
      BY <1>4
    <3> QED BY <1>4, <3>1, InRecord
  <2>3. buf'[used + i] = Octet(p, (used + i) - used)
    BY <1>7, <2>1, <2>2 DEF Write
  <2> QED BY <2>1, <2>3
<1>10. m \in Seq(Packets) /\ Len(m) = written + 1 /\ m[written + 1] = p
  BY <1>0, <1>4, <1>6
<1>11. \A k \in 1 .. written : m[k] = l[k] /\ l[k] \in Packets
  BY <1>0, <1>4, <1>6
<1>12. q \in [0 .. written + 1 -> Nat] /\ q[0] = 0 /\ q[written + 1] = used + Need(p)
       /\ \A k \in 0 .. written : q[k] = o[k]
  <2>1. used + Need(p) \in Nat /\ 0 \in 0 .. written + 1 /\ 0 # written + 1
        /\ written + 1 \in 0 .. written + 1
    BY <1>4
  <2>2. \A k \in 0 .. written : k # written + 1 /\ k \in 0 .. written + 1 /\ o[k] \in Nat
    BY <1>4, <1>6
  <2>3. \A k \in 0 .. written + 1 : k = written + 1 \/ k \in 0 .. written
    BY <1>4
  <2> QED BY <1>0, <1>6, <2>1, <2>2, <2>3
<1>13. ASSUME NEW k \in 1 .. written + 1
       PROVE  q[k] = q[k - 1] + Need(m[k]) /\ q[k] =< used + Need(p) /\ At(m[k], q[k - 1])'
  <2>1. CASE k = written + 1
    <3>1. k - 1 = written /\ written \in 0 .. written
      BY <1>4, <2>1
    <3>2. q[k - 1] = used /\ m[k] = p /\ q[k] = used + Need(p)
      BY <1>6, <1>10, <1>12, <2>1, <3>1
    <3>4. \A i \in 0 .. Need(p) - 1 : buf'[q[k - 1] + i] = Octet(m[k], i)
      BY <1>9, <3>2
    <3>5. At(m[k], q[k - 1])'
      BY <3>2, <3>4 DEF At
    <3>6. used + Need(p) =< used + Need(p)
      BY <1>4
    <3> QED BY <3>2, <3>5, <3>6
  <2>2. CASE k # written + 1
    <3>1. k \in 1 .. written /\ k - 1 \in 0 .. written /\ k \in 0 .. written
      BY <1>4, <2>2
    <3>2. q[k - 1] = o[k - 1] /\ m[k] = l[k] /\ q[k] = o[k] /\ l[k] \in Packets
      BY <1>11, <1>12, <3>1
    <3>3. o[k] = o[k - 1] + Need(l[k]) /\ o[k] =< used /\ At(l[k], o[k - 1])
      BY <1>3, <3>1 DEF Stored
    <3>4. o[k - 1] \in Nat /\ o[k] \in Nat /\ Need(l[k]) \in Nat
      BY <1>6, <3>1, <3>2, PacketType
    <3>5. ASSUME NEW i \in 0 .. Need(l[k]) - 1 PROVE buf'[o[k - 1] + i] = Octet(l[k], i)
      <4>1. o[k - 1] + i \in Int /\ 0 =< o[k - 1] + i /\ o[k - 1] + i < used
        BY <1>4, <3>3, <3>4
      <4>2. buf'[o[k - 1] + i] = buf[o[k - 1] + i]
        BY <1>8, <4>1
      <4> QED BY <3>3, <4>2 DEF At
    <3>6. At(m[k], q[k - 1])'
      BY <3>2, <3>5 DEF At
    <3>7. o[k] =< used + Need(p)
      BY <1>4, <3>3, <3>4
    <3> QED BY <3>2, <3>3, <3>6, <3>7
  <2> QED BY <2>1, <2>2
<1>14. Stored(m, q)'
  BY <1>5, <1>10, <1>12, <1>13 DEF Stored
<1>15. written' \in Nat
  BY <1>4, <1>5
<1>16. Starts' = q /\ Records' = m
  BY <1>1, <1>14, <1>15
<1>17. Stored(Records, Starts)'
  BY <1>14, <1>16, Zenon
<1> QED BY <1>0, <1>2, <1>16, <1>17 DEF Laid

\* Later records start later.
LEMMA OffsetsGrow ==
  ASSUME TypeOK, Laid
  PROVE  \A a, b \in 0 .. written : a < b => Starts[a] < Starts[b]
<1> DEFINE T == {n \in Nat : \A a, b \in 0 .. written : b = a + n + 1 => Starts[a] < Starts[b]}
<1>1. /\ written \in Nat /\ used \in Nat /\ Starts \in [0 .. written -> Nat]
      /\ Records \in Seq(Packets) /\ Len(Records) = written
  BY StateFacts
<1>2. ASSUME NEW a \in 0 .. written - 1 PROVE Starts[a] < Starts[a + 1]
  <2>1. a + 1 \in 1 .. written /\ (a + 1) - 1 = a /\ a \in 0 .. written /\ a + 1 \in 0 .. written
    BY <1>1
  <2>2. Records[a + 1] \in Packets
    BY <1>1, <2>1
  <2>3. Starts[a + 1] = Starts[a] + Need(Records[a + 1])
    BY <2>1 DEF Laid, Stored
  <2>4. Need(Records[a + 1]) \in Nat /\ Need(Records[a + 1]) > 0 /\ Starts[a] \in Nat
    BY <1>1, <2>1, <2>2, PacketType
  <2> QED BY <2>3, <2>4
<1>3. 0 \in T
  <2> SUFFICES ASSUME NEW a \in 0 .. written, NEW b \in 0 .. written, b = a + 0 + 1
               PROVE  Starts[a] < Starts[b]
    OBVIOUS
  <2>1. a \in 0 .. written - 1 /\ b = a + 1
    BY <1>1
  <2> QED BY <1>2, <2>1
<1>4. ASSUME NEW n \in Nat, n \in T PROVE n + 1 \in T
  <2> SUFFICES ASSUME NEW a \in 0 .. written, NEW b \in 0 .. written, b = a + (n + 1) + 1
               PROVE  Starts[a] < Starts[b]
    OBVIOUS
  <2>1. /\ b - 1 \in 0 .. written /\ b - 1 = a + n + 1
        /\ b - 1 \in 0 .. written - 1 /\ (b - 1) + 1 = b
    BY <1>1
  <2>2. Starts[a] < Starts[b - 1]
    BY <1>4, <2>1
  <2>3. Starts[b - 1] < Starts[(b - 1) + 1]
    BY <1>2, <2>1
  <2>4. Starts[a] \in Nat /\ Starts[b - 1] \in Nat /\ Starts[b] \in Nat
    BY <1>1, <2>1
  <2> QED BY <2>1, <2>2, <2>3, <2>4
<1> HIDE DEF T
<1>5. Nat \subseteq T
  BY <1>3, <1>4, NumberInduction
<1> SUFFICES ASSUME NEW a \in 0 .. written, NEW b \in 0 .. written, a < b
             PROVE  Starts[a] < Starts[b]
  OBVIOUS
<1>6. (b - a) - 1 \in Nat /\ b = a + ((b - a) - 1) + 1
  BY <1>1
<1>7. (b - a) - 1 \in T
  BY <1>5, <1>6
<1> QED BY <1>6, <1>7 DEF T

-----------------------------------------------------------------------------
(* The counters.                                                           *)

LEMMA ClassesAreFinite == IsFiniteSet(ClassIds)
<1>1. ClassIds \subseteq Octets
  BY PacketType DEF ClassIds
<1>2. 0 \in Int /\ Radix - 1 \in Int
  BY RadixType
<1>3. IsFiniteSet(0 .. Radix - 1)
  BY <1>2, FS_Interval
<1>4. IsFiniteSet(Octets)
  BY <1>3 DEF Octets
<1> QED BY <1>1, <1>4, FS_Subset

LEMMA CountType ==
  ASSUME tally \in [ClassIds -> Nat], NEW C \in SUBSET ClassIds
  PROVE  Count(C) \in Nat
<1>1. IsFiniteSet(C) /\ \A c \in C : tally[c] \in Nat
  BY ClassesAreFinite, FS_Subset
<1>2. SumFunctionOnSet(tally, C) \in Nat
  BY <1>1, SumType
<1> QED BY <1>2 DEF Count

\* A packet is counted where its class is.
LEMMA CountTicks ==
  ASSUME tally \in [ClassIds -> Nat], NEW c \in ClassIds, tally'[c] = tally[c] + 1,
         \A y \in ClassIds \ {c} : tally'[y] = tally[y], NEW C \in SUBSET ClassIds
  PROVE  /\ c \in C => Count(C)' = Count(C) + 1
         /\ c \notin C => Count(C)' = Count(C)
<1>1. PICK f, h : f = tally /\ h = tally'
  OBVIOUS
<1>2. (\A y \in C : f[y] \in Int) /\ h[c] = f[c] + 1 /\ \A y \in C \ {c} : h[y] = f[y]
  BY <1>1
<1>3. /\ c \in C => SumFunctionOnSet(h, C) = SumFunctionOnSet(f, C) + 1
      /\ c \notin C => SumFunctionOnSet(h, C) = SumFunctionOnSet(f, C)
  <2>1. IsFiniteSet(C)
    BY ClassesAreFinite, FS_Subset
  <2> QED BY <1>2, <2>1, SumTicks
<1> QED BY <1>1, <1>3, Zenon DEF Count

\* The records of a class.
Of(c) == {k \in 1 .. written : Records[k].class = c}

LEMMA OfIsFinite == written \in Nat => \A c : IsFiniteSet(Of(c)) /\ Cardinality(Of(c)) \in Nat
<1> SUFFICES ASSUME written \in Nat, NEW c PROVE IsFiniteSet(Of(c)) /\ Cardinality(Of(c)) \in Nat
  OBVIOUS
<1>1. IsFiniteSet(1 .. written)
  BY FS_Interval
<1>2. Of(c) \subseteq 1 .. written
  BY DEF Of
<1> QED BY <1>1, <1>2, FS_Subset, FS_CardinalityType

LEMMA Grown ==
  ASSUME TypeOK, NEW p \in Packets, Classified(p)
  PROVE  tally' \in [ClassIds -> Nat] /\ p.class \in ClassIds
         /\ tally'[p.class] = tally[p.class] + 1 /\ tally[p.class] \in Nat
         /\ \A c \in ClassIds \ {p.class} : tally'[c] = tally[c]
<1>1. p.class \in ClassIds
  BY PacketType
<1>2. tally \in [ClassIds -> Nat] /\ tally' = [tally EXCEPT ![p.class] = @ + 1]
  BY DEF TypeOK, Classified
<1> QED BY <1>1, <1>2

LEMMA DropCounts ==
  ASSUME Inv, NEW p \in Packets, Drop(p)
  PROVE  Accounted'
<1>1. /\ TypeOK /\ Laid /\ Accounted /\ Classified(p) /\ p.class \notin Admitted
      /\ dropped' = dropped + 1 /\ UNCHANGED <<buf, used, written, overflow>>
  BY DEF Inv, Drop
<1>2. Records' = Records
  BY <1>1, RecordsStay
<1> HIDE DEF Records
<1>3. /\ tally \in [ClassIds -> Nat] /\ p.class \in ClassIds
      /\ tally'[p.class] = tally[p.class] + 1 /\ tally[p.class] \in Nat
      /\ \A c \in ClassIds \ {p.class} : tally'[c] = tally[c]
      /\ \A c \in ClassIds : tally[c] \in Nat
  BY <1>1, Grown DEF TypeOK
<1>4. Count(ClassIds \ Admitted)' = Count(ClassIds \ Admitted) + 1
  BY <1>1, <1>3, CountTicks
<1>5. Count(ClassIds \cap Admitted)' = Count(ClassIds \cap Admitted)
  BY <1>1, <1>3, CountTicks
<1>6. \A c \in ClassIds : Cardinality(Of(c)) =< tally[c]
  BY <1>1 DEF Accounted, Of
<1>7. \A c : Of(c)' = Of(c)
  BY <1>1, <1>2 DEF Of
<1>8. ASSUME NEW c \in ClassIds PROVE Cardinality(Of(c)') =< tally'[c]
  BY <1>1, <1>3, <1>6, <1>7, OfIsFinite DEF TypeOK
<1>9. dropped' = Count(ClassIds \ Admitted)'
  BY <1>1, <1>4 DEF Accounted
<1>10. written' + overflow' = Count(ClassIds \cap Admitted)'
  BY <1>1, <1>5 DEF Accounted
<1> QED BY <1>8, <1>9, <1>10 DEF Accounted, Of

LEMMA OverflowCounts ==
  ASSUME Inv, NEW p \in Packets, Overflow(p)
  PROVE  Accounted'
<1>1. /\ TypeOK /\ Laid /\ Accounted /\ Classified(p) /\ p.class \in Admitted
      /\ overflow' = overflow + 1 /\ UNCHANGED <<buf, used, written, dropped>>
  BY DEF Inv, Overflow
<1>2. Records' = Records
  BY <1>1, RecordsStay
<1> HIDE DEF Records
<1>3. /\ tally \in [ClassIds -> Nat] /\ p.class \in ClassIds
      /\ tally'[p.class] = tally[p.class] + 1 /\ tally[p.class] \in Nat
      /\ \A c \in ClassIds \ {p.class} : tally'[c] = tally[c]
      /\ \A c \in ClassIds : tally[c] \in Nat
  BY <1>1, Grown DEF TypeOK
<1>4. Count(ClassIds \ Admitted)' = Count(ClassIds \ Admitted)
  BY <1>1, <1>3, CountTicks
<1>5. Count(ClassIds \cap Admitted)' = Count(ClassIds \cap Admitted) + 1
  BY <1>1, <1>3, CountTicks
<1>6. \A c \in ClassIds : Cardinality(Of(c)) =< tally[c]
  BY <1>1 DEF Accounted, Of
<1>7. \A c : Of(c)' = Of(c)
  BY <1>1, <1>2 DEF Of
<1>8. ASSUME NEW c \in ClassIds PROVE Cardinality(Of(c)') =< tally'[c]
  BY <1>1, <1>3, <1>6, <1>7, OfIsFinite DEF TypeOK
<1>9. dropped' = Count(ClassIds \ Admitted)'
  BY <1>1, <1>4 DEF Accounted
<1>10. written' + overflow' = Count(ClassIds \cap Admitted)'
  <2>1. written \in Nat /\ overflow \in Nat /\ written + overflow = Count(ClassIds \cap Admitted)
    BY <1>1 DEF TypeOK, Accounted
  <2>2. written' = written /\ overflow' = overflow + 1
    BY <1>1
  <2>3. written' + overflow' = (written + overflow) + 1
    BY <2>1, <2>2
  <2> QED BY <1>5, <2>1, <2>3
<1> QED BY <1>8, <1>9, <1>10 DEF Accounted, Of

LEMMA WriteCounts ==
  ASSUME Inv, NEW p \in Packets, Write(p)
  PROVE  Accounted'
<1>1. /\ TypeOK /\ Laid /\ NeverOverrun /\ Accounted /\ Classified(p) /\ p.class \in Admitted
      /\ written' = written + 1 /\ UNCHANGED <<dropped, overflow>>
  BY DEF Inv, Write
<1>2. Records' = Append(Records, p)
  BY <1>1, WriteAppends
<1>3. Records \in Seq(Packets) /\ Len(Records) = written /\ written \in Nat /\ overflow \in Nat
  BY <1>1, StateFacts DEF TypeOK
<1> HIDE DEF Records
<1>4. /\ tally \in [ClassIds -> Nat] /\ p.class \in ClassIds
      /\ tally'[p.class] = tally[p.class] + 1 /\ tally[p.class] \in Nat
      /\ \A c \in ClassIds \ {p.class} : tally'[c] = tally[c]
      /\ \A c \in ClassIds : tally[c] \in Nat
  BY <1>1, Grown DEF TypeOK
<1>5. Count(ClassIds \ Admitted)' = Count(ClassIds \ Admitted)
  BY <1>1, <1>4, CountTicks
<1>6. Count(ClassIds \cap Admitted)' = Count(ClassIds \cap Admitted) + 1
  BY <1>1, <1>4, CountTicks
<1>7. \A c \in ClassIds : Cardinality(Of(c)) =< tally[c]
  BY <1>1 DEF Accounted, Of
<1>8. /\ \A k \in 1 .. written : Records'[k] = Records[k]
      /\ Records'[written + 1] = p
      /\ 1 .. written + 1 = (1 .. written) \cup {written + 1} /\ written + 1 \notin 1 .. written
  BY <1>2, <1>3
<1>9. \A c : Of(c)' = {k \in 1 .. written + 1 : Records'[k].class = c}
  BY <1>1 DEF Of
<1>10. \A c : Of(c) \subseteq 1 .. written
  BY DEF Of
<1>11. Of(p.class)' = Of(p.class) \cup {written + 1}
  BY <1>8, <1>9 DEF Of
<1>12. ASSUME NEW c \in ClassIds \ {p.class} PROVE Of(c)' = Of(c)
  BY <1>8, <1>9 DEF Of
<1>13. Cardinality(Of(p.class) \cup {written + 1}) = Cardinality(Of(p.class)) + 1
  BY <1>3, <1>8, <1>10, OfIsFinite, FS_AddElement
<1>14. \A c : Cardinality(Of(c)) \in Nat
  BY <1>3, OfIsFinite
<1>15. ASSUME NEW c \in ClassIds PROVE Cardinality(Of(c)') =< tally'[c]
  <2>1. CASE c = p.class
    <3>1. Cardinality(Of(c)') = Cardinality(Of(c)) + 1 /\ tally'[c] = tally[c] + 1
      BY <1>4, <1>11, <1>13, <2>1
    <3>2. Cardinality(Of(c)) =< tally[c] /\ Cardinality(Of(c)) \in Nat /\ tally[c] \in Nat
      BY <1>4, <1>7, <1>14
    <3> QED BY <3>1, <3>2
  <2>2. CASE c # p.class
    BY <1>4, <1>7, <1>12, <2>2
  <2> QED BY <2>1, <2>2
<1>16. dropped' = Count(ClassIds \ Admitted)'
  BY <1>1, <1>5 DEF Accounted
<1>17. written' + overflow' = Count(ClassIds \cap Admitted)'
  <2>1. written + overflow = Count(ClassIds \cap Admitted)
    BY <1>1 DEF Accounted
  <2>2. written' + overflow' = (written + overflow) + 1
    BY <1>1, <1>3
  <2> QED BY <1>6, <2>1, <2>2
<1> QED BY <1>15, <1>16, <1>17 DEF Accounted, Of

-----------------------------------------------------------------------------
(* The shares of the workers.                                              *)

\* The shares lie end to end and take in all records.
LEMMA Shares ==
  ASSUME TypeOK
  PROVE  /\ Share(0) = 0 /\ Share(Workers) = written
         /\ \A k \in 0 .. Workers : Share(k) \in 0 .. written
         /\ \A k \in Pool : Share(k) =< Share(k + 1)
         /\ \A k \in Pool : k \in 0 .. Workers /\ k + 1 \in 0 .. Workers
<1>1. written \in Nat /\ Workers \in Nat /\ Workers > 0
  BY BufferOK DEF TypeOK
<1>2. Share(0) = 0
  <2>1. written * 0 = 0 /\ 0 \div Workers = 0
    BY <1>1
  <2> QED BY <2>1 DEF Share
<1>3. Share(Workers) = written
  BY <1>1, QuotientOfProduct DEF Share
<1>4. ASSUME NEW j \in Nat, NEW k \in Nat, j =< k PROVE Share(j) =< Share(k)
  BY <1>1, <1>4, ProductGrows, QuotientGrows DEF Share
<1>5. \A k \in Nat : Share(k) \in Nat
  <2> TAKE k \in Nat
  <2>1. written * k \in Nat
    BY <1>1, ProductGrows
  <2> QED BY <1>1, <2>1, Division DEF Share
<1> HIDE DEF Share
<1>6. ASSUME NEW k \in 0 .. Workers PROVE Share(k) \in 0 .. written
  <2>1. k \in Nat /\ k =< Workers /\ Workers \in Nat
    BY <1>1
  <2>2. Share(k) =< Share(Workers)
    BY <1>4, <2>1
  <2> QED BY <1>1, <1>3, <1>5, <2>1, <2>2
<1>7. ASSUME NEW k \in Pool
      PROVE  /\ k \in Nat /\ k + 1 \in Nat /\ k =< k + 1
             /\ k \in 0 .. Workers /\ k + 1 \in 0 .. Workers
  BY <1>1 DEF Pool
<1>8. \A k \in Pool : Share(k) =< Share(k + 1)
  BY <1>4, <1>7
<1> QED BY <1>2, <1>3, <1>6, <1>7, <1>8

-----------------------------------------------------------------------------
(* The steps.                                                              *)

LEMMA InitInv == Init => Inv
<1> SUFFICES ASSUME Init PROVE Inv
  OBVIOUS
<1>1. TypeOK
  <2>1. buf \in [0 .. Cap - 1 -> Octets]
    BY BufferOK DEF Init
  <2>2. got \in [Pool -> Seq(Packets)]
    BY EmptySeq DEF Init
  <2> QED BY <2>1, <2>2 DEF Init, TypeOK
<1>2. NeverOverrun
  BY BufferOK DEF Init, NeverOverrun
<1>3. Laid /\ Records = <<>>
  <2> DEFINE z == [k \in 0 .. 0 |-> 0]
  <2>1. written = 0 /\ used = 0
    BY DEF Init
  <2>2. <<>> \in Seq(Packets) /\ Len(<<>>) = written
    BY <2>1
  <2>3. z \in [0 .. written -> Nat] /\ z[0] = 0 /\ z[written] = used
    BY <2>1
  <2>4. 1 .. written = {}
    BY <2>1
  <2> HIDE DEF z
  <2>5. Stored(<<>>, z)
    BY <2>2, <2>3, <2>4 DEF Stored
  <2>6. written \in Nat
    BY <2>1
  <2>7. Starts = z /\ Records = <<>>
    BY <2>5, <2>6, StoredReads
  <2> QED BY <2>5, <2>7, Zenon DEF Laid
<1>4. Accounted
  <2>1. \A C \in SUBSET ClassIds : Count(C) = 0
    <3> TAKE C \in SUBSET ClassIds
    <3>1. IsFiniteSet(C) /\ \A c \in C : tally[c] = 0
      BY ClassesAreFinite, FS_Subset DEF Init
    <3>2. SumFunctionOnSet(tally, C) = 0
      BY <3>1, SumOfZeroes
    <3> QED BY <3>2 DEF Count
  <2>2. \A c \in ClassIds : Of(c) = {} /\ tally[c] = 0
    BY DEF Of, Init
  <2>3. \A c \in ClassIds : Cardinality(Of(c)) =< tally[c]
    BY <2>2, FS_EmptySet
  <2>4. dropped = 0 /\ written = 0 /\ overflow = 0
    BY DEF Init
  <2>5. dropped = Count(ClassIds \ Admitted) /\ written + overflow = Count(ClassIds \cap Admitted)
    BY <2>1, <2>4
  <2> QED BY <2>3, <2>5 DEF Accounted, Of
<1>5. Reading
  BY DEF Init, Reading
<1> QED BY <1>1, <1>2, <1>3, <1>4, <1>5 DEF Inv

\* Packets leave the workers alone; none is told where to start yet.
LEMMA PacketKeepsReading ==
  ASSUME Reading, NEW p, Classified(p)
  PROVE  Reading'
  BY DEF Reading, Classified

LEMMA DropStep == ASSUME Inv, NEW p \in Packets, Drop(p) PROVE Inv'
<1>1. TypeOK /\ NeverOverrun /\ Laid /\ Reading /\ Classified(p)
  BY DEF Inv, Drop
<1>2. UNCHANGED <<buf, used, written, overflow, pc, off, got>> /\ dropped' = dropped + 1
  BY DEF Drop, Classified
<1>3. TypeOK'
  BY <1>1, <1>2, Grown DEF TypeOK
<1>4. NeverOverrun'
  BY <1>1, <1>2 DEF NeverOverrun
<1>5. Laid'
  BY <1>1, <1>2, RecordsStay
<1> QED BY <1>1, <1>3, <1>4, <1>5, DropCounts, PacketKeepsReading DEF Inv

LEMMA OverflowStep == ASSUME Inv, NEW p \in Packets, Overflow(p) PROVE Inv'
<1>1. TypeOK /\ NeverOverrun /\ Laid /\ Reading /\ Classified(p)
  BY DEF Inv, Overflow
<1>2. UNCHANGED <<buf, used, written, dropped, pc, off, got>> /\ overflow' = overflow + 1
  BY DEF Overflow, Classified
<1>3. TypeOK'
  BY <1>1, <1>2, Grown DEF TypeOK
<1>4. NeverOverrun'
  BY <1>1, <1>2 DEF NeverOverrun
<1>5. Laid'
  BY <1>1, <1>2, RecordsStay
<1> QED BY <1>1, <1>3, <1>4, <1>5, OverflowCounts, PacketKeepsReading DEF Inv

\* A byte of a caplen is masked; the others come from the packet.
LEMMA OctetType ==
  ASSUME NEW p \in Packets, NEW i \in 0 .. Need(p) - 1
  PROVE  Octet(p, i) \in Octets
<1> DEFINE L == Len(p.data)
<1>1. /\ L \in Nat /\ LenBytes \in Nat /\ Need(p) = LenBytes + 1 + L
      /\ p.data \in Seq(Octets) /\ p.class \in Octets
  BY PacketType, RadixType
<1> HIDE DEF L
<1>2. CASE i < LenBytes
  <2>1. i \in 0 .. LenBytes
    BY <1>1, <1>2
  <2>2. Place[i] \in Nat /\ Place[i] > 0
    BY <2>1, PlaceType
  <2>3. L \div Place[i] \in Nat
    BY <1>1, <2>2, Division
  <2>4. (L \div Place[i]) % Radix \in 0 .. Radix - 1
    BY <2>3, RadixType, Division
  <2> QED BY <1>2, <2>4 DEF Octet, Digit, Octets, L
<1>3. CASE i = LenBytes
  BY <1>1, <1>3 DEF Octet
<1>4. CASE i > LenBytes
  <2>1. i - LenBytes \in 1 .. L /\ ~(i < LenBytes) /\ i # LenBytes
    <3>1. i =< LenBytes + L /\ i \in Int
      BY <1>1
    <3> QED BY <1>1, <1>4, <3>1
  <2>2. p.data[i - LenBytes] \in Octets
    BY <1>1, <2>1, ElementOfSeq DEF L
  <2> QED BY <2>1, <2>2 DEF Octet
<1> QED BY <1>1, <1>2, <1>3, <1>4

LEMMA WriteStep == ASSUME Inv, NEW p \in Packets, Write(p) PROVE Inv'
<1>1. TypeOK /\ NeverOverrun /\ Laid /\ Reading /\ Classified(p)
  BY DEF Inv, Write
<1>2. /\ used' = used + Need(p) /\ used + Need(p) =< Cap /\ written' = written + 1
      /\ UNCHANGED <<dropped, overflow, pc, off, got>>
  BY DEF Write, Fits, Classified
<1>3. /\ written \in Nat /\ used \in Nat /\ Cap \in Nat /\ Len(p.data) \in Nat /\ HeaderBytes \in Nat
      /\ Need(p) = HeaderBytes + Len(p.data) /\ Need(p) \in Nat
  BY <1>1, StateFacts, PacketType
<1>4. buf \in [0 .. Cap - 1 -> Octets]
  BY <1>1 DEF TypeOK
<1>5. buf' \in [0 .. Cap - 1 -> Octets]
  <2>1. ASSUME NEW o \in 0 .. Cap - 1, o \in used .. used + HeaderBytes + Len(p.data) - 1
        PROVE  Octet(p, o - used) \in Octets
    <3>0. o \in Int
      OBVIOUS
    <3>1. used =< o /\ o < used + (HeaderBytes + Len(p.data))
      BY <1>3, <2>1, <3>0, InRecord
    <3>2. o - used \in 0 .. Need(p) - 1
      BY <1>3, <3>1
    <3> QED BY <3>2, OctetType
  <2>2. \A o \in 0 .. Cap - 1 : buf[o] \in Octets
    BY <1>4
  <2>3. buf' = [o \in 0 .. Cap - 1 |-> IF o \in used .. used + HeaderBytes + Len(p.data) - 1
                                      THEN Octet(p, o - used) ELSE buf[o]]
    BY <1>4 DEF Write
  <2> QED BY <2>1, <2>2, <2>3
<1>6. TypeOK'
  <2>1. used' \in Nat /\ written' \in Nat
    BY <1>2, <1>3
  <2>2. tally' \in [ClassIds -> Nat]
    BY <1>1, Grown
  <2> QED BY <1>1, <1>2, <1>5, <2>1, <2>2 DEF TypeOK
<1>7. NeverOverrun'
  <2>1. ASSUME NEW o \in used' .. Cap - 1 PROVE buf'[o] = Junk
    <3>1. o \in Int /\ used + Need(p) =< o /\ o =< Cap - 1 /\ used =< o
      BY <1>2, <1>3
    <3>2. o \in used .. Cap - 1 /\ o \in 0 .. Cap - 1 /\ ~(o < used + (HeaderBytes + Len(p.data)))
      BY <1>3, <3>1
    <3>3. o \notin used .. used + HeaderBytes + Len(p.data) - 1
      BY <1>3, <3>1, <3>2, InRecord
    <3>4. buf'[o] = buf[o]
      BY <1>4, <3>2, <3>3 DEF Write
    <3> QED BY <1>1, <3>2, <3>4 DEF NeverOverrun
  <2> QED BY <1>2, <2>1 DEF NeverOverrun
<1>8. Laid'
  BY <1>1, WriteAppends
<1> QED BY <1>1, <1>6, <1>7, <1>8, WriteCounts, PacketKeepsReading DEF Inv

LEMMA ShareStays == UNCHANGED written => \A k : Share(k)' = Share(k)
  BY DEF Share

LEMMA SplitStep == ASSUME Inv, Split PROVE Inv'
<1>1. TypeOK /\ NeverOverrun /\ Laid /\ Accounted /\ Reading
  BY DEF Inv
<1>2. /\ pc = "loop" /\ pc' = "drain" /\ off' = [k \in Pool |-> Starts[Share(k)]]
      /\ UNCHANGED <<buf, used, written, dropped, overflow, tally, got>>
  BY DEF Split, counters
<1>3. Records' = Records /\ Starts' = Starts /\ Laid'
  BY <1>1, <1>2, RecordsStay
<1>4. /\ \A k \in 0 .. Workers : Share(k) \in 0 .. written
      /\ \A k \in Pool : Share(k) =< Share(k + 1)
      /\ \A k \in Pool : k \in 0 .. Workers /\ k + 1 \in 0 .. Workers
  BY <1>1, Shares
<1>5. /\ Starts \in [0 .. written -> Nat] /\ written \in Nat
  BY <1>1, StateFacts
<1>6. \A k : Share(k)' = Share(k)
  BY <1>2, ShareStays
<1> HIDE DEF Share, Records, Starts
<1>7. \A k \in Pool : Starts[Share(k)] \in Nat
  BY <1>4, <1>5
<1>8. TypeOK'
  BY <1>1, <1>2, <1>7 DEF TypeOK
<1>9. NeverOverrun' /\ Accounted'
  BY <1>1, <1>2, <1>3 DEF NeverOverrun, Accounted, Count
<1>10. ASSUME NEW k \in Pool
       PROVE  \E n \in Share(k) .. Share(k + 1) :
                got'[k] = SubSeq(Records, Share(k) + 1, n) /\ off'[k] = Starts[n]
  <2>1. Share(k) \in Int /\ Share(k + 1) \in Int /\ Share(k) =< Share(k + 1)
    BY <1>4
  <2>2. Share(k) + 1 \in Int /\ Share(k) < Share(k) + 1 /\ Share(k) \in Share(k) .. Share(k + 1)
    BY <2>1
  <2>3. SubSeq(Records, Share(k) + 1, Share(k)) = <<>>
    BY <2>1, <2>2, SubSeqEmpty
  <2>4. got'[k] = <<>> /\ off'[k] = Starts[Share(k)]
    BY <1>1, <1>2 DEF Reading
  <2> QED BY <2>2, <2>3, <2>4
<1>11. Reading'
  BY <1>2, <1>3, <1>6, <1>10 DEF Reading
<1> QED BY <1>3, <1>8, <1>9, <1>11 DEF Inv

\* A worker reads the next of its records, and moves to the one after it.
LEMMA NextRecord ==
  ASSUME Inv, NEW k \in Pool, Consume(k)
  PROVE  \E n \in Share(k) .. Share(k + 1) - 1 :
           /\ got[k] = SubSeq(Records, Share(k) + 1, n)
           /\ RecordAt(off[k]) = Records[n + 1] /\ Records[n + 1] \in Packets
           /\ off[k] + HeaderBytes + LenAt(off[k]) = Starts[n + 1]
<1>1. TypeOK /\ Laid /\ Reading /\ pc = "drain" /\ off[k] < Starts[Share(k + 1)]
  BY DEF Inv, Consume
<1>2. PICK n \in Share(k) .. Share(k + 1) :
        got[k] = SubSeq(Records, Share(k) + 1, n) /\ off[k] = Starts[n]
  BY <1>1 DEF Reading
<1>3. /\ Share(k) \in 0 .. written /\ Share(k + 1) \in 0 .. written
  BY <1>1, Shares
<1>4. /\ written \in Nat /\ Starts \in [0 .. written -> Nat]
      /\ Records \in Seq(Packets) /\ Len(Records) = written
  BY <1>1, StateFacts
<1>5. Stored(Records, Starts)
  BY <1>1 DEF Laid
<1> HIDE DEF Share, Records, Starts
<1>6. n # Share(k + 1)
  <2>1. Starts[Share(k + 1)] \in Nat
    BY <1>3, <1>4
  <2>2. ~(Starts[Share(k + 1)] < Starts[Share(k + 1)])
    BY <2>1
  <2> QED BY <1>1, <1>2, <2>2
<1>7. /\ n \in Share(k) .. Share(k + 1) - 1 /\ n \in 0 .. written
      /\ n + 1 \in 1 .. written /\ (n + 1) - 1 = n
  BY <1>3, <1>4, <1>6
<1>8. Records[n + 1] \in Packets /\ Starts[n] \in Nat
  BY <1>4, <1>7, ElementOfSeq
<1>9. Starts[n + 1] = Starts[n] + Need(Records[n + 1]) /\ At(Records[n + 1], Starts[n])
  BY <1>5, <1>7 DEF Stored
<1>10. RecordAt(Starts[n]) = Records[n + 1] /\ LenAt(Starts[n]) = Len(Records[n + 1].data)
  BY <1>8, <1>9, ReadsRecord
<1>11. /\ Need(Records[n + 1]) = HeaderBytes + LenAt(Starts[n])
       /\ HeaderBytes \in Nat /\ LenAt(Starts[n]) \in Nat
  BY <1>8, <1>10, PacketType
<1>12. Starts[n] + HeaderBytes + LenAt(Starts[n]) = Starts[n + 1]
  BY <1>8, <1>9, <1>11
<1> QED BY <1>2, <1>7, <1>8, <1>10, <1>12

LEMMA ConsumeStep == ASSUME Inv, NEW k \in Pool, Consume(k) PROVE Inv'
<1>1. TypeOK /\ NeverOverrun /\ Laid /\ Accounted /\ Reading
  BY DEF Inv
<1>2. /\ pc = "drain" /\ pc' = "drain"
      /\ UNCHANGED <<buf, used, written, dropped, overflow, tally>>
      /\ got' = [got EXCEPT ![k] = Append(got[k], RecordAt(off[k]))]
      /\ off' = [off EXCEPT ![k] = off[k] + HeaderBytes + LenAt(off[k])]
  BY DEF Consume, counters
<1>3. Records' = Records /\ Starts' = Starts /\ Laid'
  BY <1>1, <1>2, RecordsStay
<1>4. Share(k) \in 0 .. written /\ Share(k + 1) \in 0 .. written
  BY <1>1, Shares
<1>5. /\ Starts \in [0 .. written -> Nat] /\ written \in Nat
      /\ Records \in Seq(Packets) /\ Len(Records) = written
  BY <1>1, StateFacts
<1>6. PICK n \in Share(k) .. Share(k + 1) - 1 :
           /\ got[k] = SubSeq(Records, Share(k) + 1, n)
           /\ RecordAt(off[k]) = Records[n + 1] /\ Records[n + 1] \in Packets
           /\ off[k] + HeaderBytes + LenAt(off[k]) = Starts[n + 1]
  BY NextRecord
<1>7. \A j : Share(j)' = Share(j)
  BY <1>2, ShareStays
<1>8. got \in [Pool -> Seq(Packets)] /\ off \in [Pool -> Nat]
  BY <1>1 DEF TypeOK
<1> HIDE DEF Share, Records, Starts
<1>9. /\ n + 1 \in Share(k) .. Share(k + 1) /\ n + 1 \in 0 .. written
      /\ n \in Int /\ Share(k) \in Int
  BY <1>4, <1>5
<1>10. Append(got[k], Records[n + 1]) \in Seq(Packets) /\ Starts[n + 1] \in Nat
  BY <1>5, <1>6, <1>8, <1>9, AppendProperties
<1>11. /\ got' \in [Pool -> Seq(Packets)] /\ off' \in [Pool -> Nat]
       /\ got'[k] = Append(got[k], Records[n + 1]) /\ off'[k] = Starts[n + 1]
       /\ \A j \in Pool \ {k} : got'[j] = got[j] /\ off'[j] = off[j]
  BY <1>2, <1>6, <1>8, <1>10
<1>12. Append(got[k], Records[n + 1]) = SubSeq(Records, Share(k) + 1, n + 1)
  <2>1. /\ Share(k) + 1 \in 1 .. Len(Records) /\ n + 1 \in Share(k) + 1 .. Len(Records)
        /\ (n + 1) - 1 = n
    BY <1>4, <1>5, <1>6
  <2>2. SubSeq(Records, Share(k) + 1, n + 1) = SubSeq(Records, Share(k) + 1, (n + 1) - 1) \o <<Records[n + 1]>>
    BY <1>5, <2>1, SubSeqRecursiveSecond
  <2>3. Append(got[k], Records[n + 1]) = got[k] \o <<Records[n + 1]>>
    BY <1>6, <1>8, AppendIsConcat
  <2> QED BY <1>6, <2>1, <2>2, <2>3
<1>13. TypeOK'
  BY <1>1, <1>2, <1>11 DEF TypeOK
<1>14. NeverOverrun' /\ Accounted'
  BY <1>1, <1>2, <1>3 DEF NeverOverrun, Accounted, Count
<1>15. ASSUME NEW j \in Pool
       PROVE  \E m \in Share(j) .. Share(j + 1) :
                got'[j] = SubSeq(Records, Share(j) + 1, m) /\ off'[j] = Starts[m]
  <2>1. CASE j = k
    BY <1>9, <1>11, <1>12, <2>1
  <2>2. CASE j # k
    BY <1>1, <1>2, <1>11, <2>2 DEF Reading
  <2> QED BY <2>1, <2>2
<1>16. Reading'
  BY <1>2, <1>3, <1>7, <1>15 DEF Reading
<1> QED BY <1>3, <1>13, <1>14, <1>16 DEF Inv

LEMMA NoStep == ASSUME Inv, UNCHANGED vars PROVE Inv'
<1>1. TypeOK /\ NeverOverrun /\ Laid /\ Accounted /\ Reading
  BY DEF Inv
<1>2. UNCHANGED <<buf, used, written, dropped, overflow, tally, pc, off, got>>
  BY DEF vars, counters
<1>3. Records' = Records /\ Starts' = Starts /\ Laid'
  BY <1>1, <1>2, RecordsStay
<1>4. \A j : Share(j)' = Share(j)
  BY <1>2, ShareStays
<1> HIDE DEF Share, Records, Starts
<1>5. TypeOK' /\ NeverOverrun'
  BY <1>1, <1>2 DEF TypeOK, NeverOverrun
<1>6. Accounted'
  BY <1>1, <1>2, <1>3 DEF Accounted, Count
<1>7. Reading'
  BY <1>1, <1>2, <1>3, <1>4 DEF Reading
<1> QED BY <1>3, <1>5, <1>6, <1>7 DEF Inv

LEMMA Invariance == Spec => []Inv
<1>1. Inv /\ [Next]_vars => Inv'
  <2> SUFFICES ASSUME Inv, [Next]_vars PROVE Inv'
    OBVIOUS
  <2>1. ASSUME NEW p \in Packets, BufferCallBack(p) PROVE Inv'
    BY <2>1, DropStep, OverflowStep, WriteStep DEF BufferCallBack
  <2>2. CASE Split
    BY <2>2, SplitStep
  <2>3. ASSUME NEW k \in Pool, Consume(k) PROVE Inv'
    BY <2>3, ConsumeStep
  <2>4. CASE Joined
    BY <2>4, NoStep DEF Joined
  <2>5. CASE UNCHANGED vars
    BY <2>5, NoStep
  <2> QED BY <2>1, <2>2, <2>3, <2>4, <2>5 DEF Next
<1> QED BY <1>1, InitInv, PTL DEF Spec

-----------------------------------------------------------------------------
\* Type correctness: whatever the packets, every byte of the buffer is one of Radix
\* values, so the bytes of a caplen are masked (BufferCallBack), the workers read
\* packets of the loop, and their offsets are those of records.
THEOREM TypeCorrect == Spec => []TypeOK
<1>1. Inv => TypeOK
  BY DEF Inv
<1> QED BY <1>1, Invariance, PTL

\* Whatever the sizes of the packets, no byte is written at or beyond the end of
\* the caller's buffer, nor after the last record; and a reader of the documented
\* layout who adds up the lengths he reads arrives at the end of the used part.
THEOREM RecordsFillTheBuffer == Spec => []WithinBuffer
<1>1. Inv => WithinBuffer
  BY StateFacts DEF Inv, WithinBuffer
<1> QED BY <1>1, Invariance, PTL

\* Every packet is counted, in its class and as written, dropped or overflowed,
\* also when the buffer is full; no class has more records than packets.
THEOREM EveryPacketIsCounted == Spec => []Accounted
<1>1. Inv => Accounted
  BY DEF Inv
<1> QED BY <1>1, Invariance, PTL

\* A byte once written is never written again: later packets, those that overflow
\* among them, leave the records alone that a worker may already have found.
THEOREM RecordsAreFinal == Spec => [][\A o \in 0 .. used - 1 : buf'[o] = buf[o]]_vars
<1>1. Inv /\ [Next]_vars => \A o \in 0 .. used - 1 : buf'[o] = buf[o]
  <2> SUFFICES ASSUME Inv, [Next]_vars, NEW o \in 0 .. used - 1 PROVE buf'[o] = buf[o]
    OBVIOUS
  <2>1. ASSUME NEW p \in Packets, Write(p) PROVE buf'[o] = buf[o]
    <3>1. /\ used \in Nat /\ Cap \in Nat /\ used =< Cap /\ DOMAIN buf = 0 .. Cap - 1
      BY BufferOK DEF Inv, TypeOK, NeverOverrun
    <3>2. o \in DOMAIN buf /\ o \in Int /\ ~(used =< o)
      BY <3>1
    <3>3. HeaderBytes \in Nat /\ Len(p.data) \in Nat
      BY PacketType
    <3>4. o \notin used .. used + HeaderBytes + Len(p.data) - 1
      BY <3>1, <3>2, <3>3, InRecord
    <3> QED BY <2>1, <3>2, <3>4 DEF Write
  <2>2. CASE UNCHANGED buf
    BY <2>2
  <2>3. (\E p \in Packets : Write(p)) \/ UNCHANGED buf
    BY DEF Next, BufferCallBack, Drop, Overflow, Split, Consume, Joined, vars
  <2> QED BY <2>1, <2>2, <2>3
<1> QED BY <1>1, Invariance, PTL DEF Spec

-----------------------------------------------------------------------------
(* Every record is read once.                                              *)

\* Stretches that lie end to end, put together.
LEMMA Stretches ==
  ASSUME NEW W \in Nat, W > 0, NEW S, NEW s \in Seq(S),
         NEW b \in [0 .. W -> 0 .. Len(s)], b[0] = 0, \A i \in 1 .. W : b[i - 1] =< b[i],
         NEW q, DOMAIN q = 1 .. W, Len(q) = W,
         \A i \in 1 .. W : q[i] = SubSeq(s, b[i - 1] + 1, b[i])
  PROVE  FlattenSeq(q) = SubSeq(s, 1, b[W])
<1> DEFINE Flat(f) == f = [i \in 1 .. Len(q) |-> IF i = 1 THEN q[i] ELSE f[i - 1] \o q[i]]
           m == [i \in 1 .. W |-> SubSeq(s, 1, b[i])]
           r == CHOOSE f : Flat(f)
<1>0. Len(s) \in Nat
  OBVIOUS
<1>1. ASSUME NEW i \in 1 .. W, i # 1 PROVE m[i] = m[i - 1] \o q[i]
  <2>1. i - 1 \in 1 .. W /\ i - 1 \in 0 .. W /\ i \in 0 .. W
    BY <1>1
  <2>2. b[i - 1] \in 0 .. Len(s) /\ b[i] \in 0 .. Len(s) /\ b[i - 1] =< b[i]
    BY <2>1
  <2>3. 1 \in 1 .. Len(s) + 1 /\ b[i - 1] \in 1 - 1 .. Len(s) /\ b[i] \in b[i - 1] .. Len(s)
    BY <1>0, <2>2
  <2>4. SubSeq(s, 1, b[i - 1]) \o SubSeq(s, b[i - 1] + 1, b[i]) = SubSeq(s, 1, b[i])
    BY <2>3, ConcatAdjacentSubSeq
  <2> QED BY <2>1, <2>4
<1>2. m[1] = q[1] /\ 1 \in 1 .. W
  <2>1. 1 \in 1 .. W /\ 1 - 1 = 0 /\ 0 + 1 = 1
    OBVIOUS
  <2>2. q[1] = SubSeq(s, b[1 - 1] + 1, b[1])
    BY <2>1
  <2>3. q[1] = SubSeq(s, 1, b[1])
    BY <2>1, <2>2
  <2> QED BY <2>1, <2>3
<1>3. Flat(m)
  <2>1. \A i \in 1 .. Len(q) : m[i] = IF i = 1 THEN q[i] ELSE m[i - 1] \o q[i]
    BY <1>1, <1>2
  <2>2. m = [i \in 1 .. Len(q) |-> m[i]]
    OBVIOUS
  <2> HIDE DEF m
  <2> QED BY <2>1, <2>2
<1> HIDE DEF m
<1>4. Flat(r)
  BY <1>3, Zenon
<1>5. FlattenSeq(q) = r[Len(q)]
  <2>1. Len(q) # 0
    OBVIOUS
  <2> QED BY <2>1, Zenon DEF FlattenSeq
<1> HIDE DEF r
<1> DEFINE T == {n \in Nat : n + 1 =< W => r[n + 1] = m[n + 1]}
<1>6. 0 \in T
  <2>1. r[1] = q[1]
    BY <1>2, <1>4
  <2> QED BY <1>2, <2>1
<1>7. ASSUME NEW n \in Nat, n \in T PROVE n + 1 \in T
  <2> SUFFICES ASSUME (n + 1) + 1 =< W PROVE r[(n + 1) + 1] = m[(n + 1) + 1]
    OBVIOUS
  <2> DEFINE i == (n + 1) + 1
  <2>1. i \in 1 .. W /\ i # 1 /\ i - 1 = n + 1 /\ n + 1 =< W
    OBVIOUS
  <2> HIDE DEF i
  <2>2. r[i] = r[i - 1] \o q[i]
    BY <1>4, <2>1
  <2>3. m[i] = m[i - 1] \o q[i]
    BY <1>1, <2>1
  <2>4. r[n + 1] = m[n + 1]
    BY <1>7, <2>1
  <2>5. r[i] = m[i]
    BY <2>1, <2>2, <2>3, <2>4
  <2> QED BY <2>5 DEF i
<1> HIDE DEF T
<1>8. W - 1 \in T
  <2>1. W - 1 \in Nat
    OBVIOUS
  <2> QED BY <1>6, <1>7, <2>1, NumberInduction
<1>9. r[(W - 1) + 1] = m[(W - 1) + 1]
  <2>1. (W - 1) + 1 =< W
    OBVIOUS
  <2> QED BY <1>8, <2>1 DEF T
<1>10. m[W] = SubSeq(s, 1, b[W])
  BY DEF m
<1>11. (W - 1) + 1 = W
  OBVIOUS
<1> QED BY <1>5, <1>9, <1>10, <1>11

\* Whatever the number of records and of workers: when all have read what they were
\* given (examples/05_shared_memory_ring.py), every record has been read by exactly
\* one of them, and in the order of capture.
THEOREM EveryRecordIsReadOnce == Spec => []EveryRecordOnce
<1>1. Inv => EveryRecordOnce
  <2> SUFFICES ASSUME Inv, Drained
               PROVE  FlattenSeq([k \in 1 .. Workers |-> got[k - 1]]) = Records
    BY DEF EveryRecordOnce
  <2>1. TypeOK /\ Laid /\ Reading /\ pc = "drain"
    BY DEF Inv, Drained
  <2>2. /\ written \in Nat /\ Workers \in Nat /\ Workers > 0
        /\ Starts \in [0 .. written -> Nat]
        /\ Records \in Seq(Packets) /\ Len(Records) = written
    BY <2>1, StateFacts
  <2>3. /\ Share(0) = 0 /\ Share(Workers) = written
        /\ \A k \in 0 .. Workers : Share(k) \in 0 .. written
        /\ \A k \in Pool : Share(k) =< Share(k + 1)
        /\ \A k \in Pool : k \in 0 .. Workers /\ k + 1 \in 0 .. Workers
    BY <2>1, Shares
  <2>4. \A a, b \in 0 .. written : a < b => Starts[a] < Starts[b]
    BY <2>1, OffsetsGrow
  <2>5. \A k \in Pool : off[k] >= Starts[Share(k + 1)]
    BY DEF Drained
  <2>6. \A k \in Pool : \E n \in Share(k) .. Share(k + 1) :
                       got[k] = SubSeq(Records, Share(k) + 1, n) /\ off[k] = Starts[n]
    BY <2>1 DEF Reading
  <2> HIDE DEF Share, Starts, Records
  <2>7. ASSUME NEW k \in Pool PROVE got[k] = SubSeq(Records, Share(k) + 1, Share(k + 1))
    <3>1. PICK n \in Share(k) .. Share(k + 1) :
            got[k] = SubSeq(Records, Share(k) + 1, n) /\ off[k] = Starts[n]
      BY <2>6
    <3>2. Share(k) \in 0 .. written /\ Share(k + 1) \in 0 .. written
      BY <2>3
    <3>3. n \in 0 .. written
      BY <2>2, <3>2
    <3>4. Starts[n] \in Nat /\ Starts[Share(k + 1)] \in Nat /\ Starts[n] >= Starts[Share(k + 1)]
      BY <2>2, <2>5, <3>1, <3>2, <3>3
    <3>5. ~(n < Share(k + 1))
      <4>1. ~(Starts[n] < Starts[Share(k + 1)])
        BY <3>4
      <4> QED BY <2>4, <3>2, <3>3, <4>1
    <3>6. n = Share(k + 1)
      BY <3>2, <3>3, <3>5
    <3> QED BY <3>1, <3>6
  <2> DEFINE b == [k \in 0 .. Workers |-> Share(k)]
             q == [k \in 1 .. Workers |-> got[k - 1]]
  <2>8. b \in [0 .. Workers -> 0 .. Len(Records)] /\ b[0] = 0 /\ b[Workers] = written
    BY <2>2, <2>3
  <2>9. ASSUME NEW k \in 1 .. Workers
        PROVE  b[k - 1] =< b[k] /\ q[k] = SubSeq(Records, b[k - 1] + 1, b[k])
    <3>1. k - 1 \in Pool /\ (k - 1) + 1 = k /\ k - 1 \in 0 .. Workers /\ k \in 0 .. Workers
      BY <2>2 DEF Pool
    <3>2. b[k - 1] = Share(k - 1) /\ b[k] = Share(k) /\ q[k] = got[k - 1]
      BY <3>1
    <3>3. Share(k - 1) =< Share((k - 1) + 1)
      BY <2>3, <3>1
    <3>4. got[k - 1] = SubSeq(Records, Share(k - 1) + 1, Share((k - 1) + 1))
      BY <2>7, <3>1
    <3> QED BY <3>1, <3>2, <3>3, <3>4
  <2>10. DOMAIN q = 1 .. Workers /\ Len(q) = Workers
    <3> DEFINE S == {got[k - 1] : k \in 1 .. Workers}
    <3>1. q \in [1 .. Workers -> S]
      OBVIOUS
    <3> HIDE DEF S, q
    <3>2. q \in Seq(S)
      BY <2>2, <3>1
    <3>3. DOMAIN q = 1 .. Workers /\ DOMAIN q = 1 .. Len(q) /\ Len(q) \in Nat
      BY <3>1, <3>2
    <3> QED BY <2>2, <3>3
  <2> HIDE DEF b, q
  <2>11. FlattenSeq(q) = SubSeq(Records, 1, b[Workers])
    BY <2>2, <2>8, <2>9, <2>10, Stretches
  <2>12. SubSeq(Records, 1, Len(Records)) = Records
    BY <2>2, SubSeqFull
  <2>13. FlattenSeq(q) = Records
    BY <2>2, <2>8, <2>11, <2>12
  <2> QED BY <2>13 DEF q
<1> QED BY <1>1, Invariance, PTL

-----------------------------------------------------------------------------
(* The refinement of the log.                                              *)

\* The log takes up what the buffer has used.
LEMMA LogTakesUp == ASSUME TypeOK, Laid PROVE Log!Bytes(Records) = used
<1> DEFINE f == [k \in DOMAIN Records |-> HeaderBytes + Len(Records[k].data)]
           T == {n \in Nat : n =< written => SumFunctionOnSet(f, 1 .. n) = Starts[n]}
<1>1. /\ written \in Nat /\ Starts \in [0 .. written -> Nat] /\ Starts[0] = 0 /\ Starts[written] = used
      /\ Records \in Seq(Packets) /\ Len(Records) = written
  BY StateFacts
<1>2. Stored(Records, Starts)
  BY DEF Laid
<1> HIDE DEF Records, Starts
<1>3. DOMAIN Records = 1 .. written
  BY <1>1, LenProperties
<1>4. ASSUME NEW k \in 1 .. written
      PROVE  f[k] = Need(Records[k]) /\ f[k] \in Nat /\ Starts[k] = Starts[k - 1] + f[k]
  <2>1. Records[k] \in Packets
    BY <1>1, ElementOfSeq
  <2>2. f[k] = HeaderBytes + Len(Records[k].data)
    BY <1>3
  <2>3. f[k] = Need(Records[k]) /\ f[k] \in Nat
    BY <2>1, <2>2, PacketType
  <2>4. Starts[k] = Starts[k - 1] + Need(Records[k])
    BY <1>2 DEF Stored
  <2> QED BY <2>3, <2>4
<1>5. DOMAIN f = 1 .. written
  BY <1>3
<1> HIDE DEF f
<1>6. 0 \in T
  <2>1. 1 .. 0 = {}
    OBVIOUS
  <2>2. SumFunctionOnSet(f, 1 .. 0) = 0
    BY <2>1, SumOfNone
  <2> QED BY <1>1, <2>2
<1>7. ASSUME NEW n \in Nat, n \in T PROVE n + 1 \in T
  <2> SUFFICES ASSUME n + 1 =< written PROVE SumFunctionOnSet(f, 1 .. n + 1) = Starts[n + 1]
    OBVIOUS
  <2>1. /\ n + 1 \in 1 .. written /\ (n + 1) - 1 = n /\ n =< written /\ n \in 0 .. written
        /\ 1 .. n + 1 \subseteq 1 .. written
    BY <1>1
  <2>2. \A k \in 1 .. n + 1 : f[k] \in Int
    BY <1>4, <2>1
  <2>3. SumFunctionOnSet(f, 1 .. n + 1) = f[n + 1] + SumFunctionOnSet(f, (1 .. n + 1) \ {n + 1})
    <3>1. IsFiniteSet(1 .. n + 1) /\ n + 1 \in 1 .. n + 1
      BY IntervalGrows
    <3> QED BY <2>2, <3>1, SumWithout
  <2>4. SumFunctionOnSet(f, 1 .. n + 1) = f[n + 1] + SumFunctionOnSet(f, 1 .. n)
    BY <2>3, IntervalGrows
  <2>5. SumFunctionOnSet(f, 1 .. n) = Starts[n]
    BY <1>7, <2>1
  <2>6. Starts[n + 1] = Starts[n] + f[n + 1]
    BY <1>4, <2>1
  <2>7. Starts[n] \in Nat /\ f[n + 1] \in Nat
    BY <1>1, <1>4, <2>1
  <2> QED BY <2>4, <2>5, <2>6, <2>7
<1> HIDE DEF T
<1>8. written \in T
  BY <1>1, <1>6, <1>7, NumberInduction
<1>9. SumFunctionOnSet(f, 1 .. written) = used
  <2>1. written =< written
    BY <1>1
  <2> QED BY <1>1, <1>8, <2>1 DEF T
<1>10. Log!Bytes(Records) = SumFunction(f)
  <2>1. Log!Bytes(Records) = Log!SumFunction(f)
    BY Zenon DEF Log!Bytes, f
  <2>2. Log!SumFunction(f) = SumFunction(f)
    BY Zenon DEF SumFunction, SumFunctionOnSet, FoldFunctionOnSet, MapThenFoldSet,
                 Log!SumFunction, Log!SumFunctionOnSet, Log!FoldFunctionOnSet, Log!MapThenFoldSet
  <2> QED BY <2>1, <2>2
<1> QED BY <1>5, <1>9, <1>10 DEF SumFunction

LEMMA ThreeTerms ==
  ASSUME NEW a \in Nat, NEW h \in Nat, NEW n \in Nat
  PROVE  a + h + n = a + (h + n) /\ a + (h + n) \in Int
OBVIOUS

\* What the abstract guard asks is what Fits does.
LEMMA FitsTheLog ==
  ASSUME TypeOK, Laid, NEW p \in Packets
  PROVE  /\ Fits(p) => Log!Bytes(Records) + HeaderBytes + Len(p.data) =< Cap
         /\ ~Fits(p) => Log!Bytes(Records) + HeaderBytes + Len(p.data) > Cap
<1>1. /\ used \in Nat /\ Cap \in Nat /\ HeaderBytes \in Nat /\ Len(p.data) \in Nat
      /\ Need(p) = HeaderBytes + Len(p.data)
  BY StateFacts, PacketType
<1>2. Log!Bytes(Records) = used
  BY LogTakesUp
<1>3. used + HeaderBytes + Len(p.data) = used + Need(p) /\ used + Need(p) \in Int /\ Cap \in Int
  <2>1. /\ used + HeaderBytes + Len(p.data) = used + (HeaderBytes + Len(p.data))
        /\ used + (HeaderBytes + Len(p.data)) \in Int
    BY <1>1, ThreeTerms, Zenon
  <2>2. Cap \in Int
    BY <1>1
  <2> QED BY <1>1, <2>1, <2>2, Zenon
<1>4. Fits(p) <=> used + Need(p) =< Cap
  BY DEF Fits
<1>5. ~(used + Need(p) =< Cap) => used + Need(p) > Cap
  BY <1>3
<1> QED BY <1>2, <1>3, <1>4, <1>5

\* Whatever the packets: what a reader of the layout finds in the buffer is a log to
\* which loop_to_buffer has appended the admitted packets that fit, in the order of
\* capture, and in which no later packet ever changes a record.
THEOREM BytesImplementTheLog == Spec => ImplementsLog
<1>1. Init => Log!Init
  <2> SUFFICES ASSUME Init PROVE Log!Init
    OBVIOUS
  <2>1. written = 0 /\ dropped = 0 /\ overflow = 0
    BY DEF Init
  <2>2. TypeOK /\ Laid
    BY InitInv DEF Inv
  <2>3. Records \in Seq(Packets) /\ Len(Records) = 0
    BY <2>1, <2>2, StateFacts
  <2>4. Records = <<>>
    BY <2>3
  <2> QED BY <2>1, <2>4 DEF Log!Init
<1>2. Inv /\ [Next]_vars => [Log!Next]_(Log!vars)
  <2> SUFFICES ASSUME Inv, [Next]_vars PROVE [Log!Next]_(Log!vars)
    OBVIOUS
  <2>1. TypeOK /\ NeverOverrun /\ Laid
    BY DEF Inv
  <2>2. ASSUME UNCHANGED <<buf, used, written>> PROVE Records' = Records
    BY <2>1, <2>2, RecordsStay
  <2>3. ASSUME NEW p \in Packets, Write(p) PROVE Records' = Append(Records, p)
    BY <2>1, <2>3, WriteAppends
  <2>4. ASSUME NEW p \in Packets
        PROVE  /\ Fits(p) => Log!Bytes(Records) + HeaderBytes + Len(p.data) =< Cap
               /\ ~Fits(p) => Log!Bytes(Records) + HeaderBytes + Len(p.data) > Cap
    BY <2>1, FitsTheLog
  <2> HIDE DEF Records
  <2>5. ASSUME NEW p \in Packets, Drop(p) PROVE Log!Shed(p)
    BY <2>2, <2>5 DEF Drop, Log!Shed
  <2>6. ASSUME NEW p \in Packets, Overflow(p) PROVE Log!Overflow(p)
    BY <2>2, <2>4, <2>6, Zenon DEF Overflow, Log!Overflow
  <2>7. ASSUME NEW p \in Packets, Write(p) PROVE Log!Keep(p)
    BY <2>3, <2>4, <2>7, Zenon DEF Write, Log!Keep
  <2>8. ASSUME Split \/ (\E k \in Pool : Consume(k)) \/ Joined \/ UNCHANGED vars
        PROVE  UNCHANGED Log!vars
    <3>1. UNCHANGED <<buf, used, written, dropped, overflow>>
      BY <2>8 DEF Split, Consume, Joined, vars, counters
    <3> QED BY <2>2, <3>1 DEF Log!vars
  <2>9. CASE \E p \in Packets : BufferCallBack(p)
    BY <2>5, <2>6, <2>7, <2>9 DEF BufferCallBack, Log!Next
  <2> QED BY <2>8, <2>9 DEF Next
<1> QED BY <1>1, <1>2, Invariance, PTL DEF Spec, ImplementsLog, Log!Spec

=============================================================================
