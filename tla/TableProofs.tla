----------------------------- MODULE TableProofs -----------------------------
(***************************************************************************)
(* Theorems about the two tables of loop_filtered.  FlowTable and the      *)
(* calls of FilteredLoop over it, for all flows and keys, every slot       *)
(* function, every cutoff and every counter width; AddrSet, for every list *)
(* of addresses, every hash, every table size and every integer width.     *)
(***************************************************************************)
EXTENDS FilteredLoop, AddrSet, DataLemmas

\* While a key holds its slot, the counter is backed by that many heads, so no
\* packet is refused that NeverHidesAHead still needs.
CountIsBacked ==
  \A k \in Keys : Resident(k) => heads[k] >= Cutoff \/ heads[k] >= cnt[SlotOf[k]]

\* Between two restarts at most Cutoff heads are added.
StartIsBounded ==
  \A k \in Keys :
    LET n == cnt[SlotOf[k]] IN
    Resident(k) /\ n > 0 =>
      /\ restarts[k] >= 1
      /\ heads[k] =< Cutoff * (restarts[k] - 1) + (IF n < Cutoff THEN n ELSE Cutoff)

\* A slot that only one key uses counts exactly that key.
SlotIsOwn ==
  \A k \in Keys :
    Alone(k) /\ seen[k] < CntMod =>
      /\ seen[k] > 0 => Resident(k)
      /\ Resident(k) => cnt[SlotOf[k]] = seen[k]

IInv == /\ TypeOK /\ CountIsBacked /\ NeverHidesAHead
        /\ StartIsBounded /\ HeadsPerStart
        /\ SlotIsOwn /\ ExactWhenAlone

-----------------------------------------------------------------------------
LEMMA SlotInRange ==
  ASSUME NEW k \in Keys
  PROVE  SlotOf[k] \in Slots
BY TableOK

\* The counter after one more packet.
LEMMA NextCount ==
  ASSUME NEW n \in 0 .. CntMod - 1
  PROVE  /\ After(n) \in 0 .. CntMod - 1
         /\ After(n) = IF n + 1 = CntMod THEN 0 ELSE n + 1
BY TableOK DEF After

\* What one packet of k does to the table, with the slot and key named.
LEMMA PacketEffect ==
  ASSUME TypeOK, NEW k \in Keys, Packet(k)
  PROVE  /\ Before(k) \in 0 .. CntMod - 1
         /\ keys'[SlotOf[k]] = k /\ cnt'[SlotOf[k]] = After(Before(k))
         /\ \A s \in Slots \ {SlotOf[k]} : keys'[s] = keys[s] /\ cnt'[s] = cnt[s]
         /\ seen'[k] = seen[k] + 1
         /\ heads'[k] = IF IsHead(Before(k)) THEN heads[k] + 1 ELSE heads[k]
         /\ restarts'[k] = IF Before(k) = 0 THEN restarts[k] + 1 ELSE restarts[k]
         /\ \A j \in Keys \ {k} : seen'[j] = seen[j] /\ heads'[j] = heads[j]
                                   /\ restarts'[j] = restarts[j]
         /\ TypeOK'
<1>1. SlotOf[k] \in Slots
  BY SlotInRange
<1>2. Before(k) \in 0 .. CntMod - 1
  BY <1>1, TableOK DEF TypeOK, Before
<1>3. After(Before(k)) \in 0 .. CntMod - 1
  BY <1>2, NextCount
<1> QED BY <1>1, <1>2, <1>3 DEF Packet, TypeOK

\* Another key that holds its slot held it before, with the same counter.
LEMMA OthersKeepTheirSlot ==
  ASSUME TypeOK, NEW k \in Keys, Packet(k), NEW j \in Keys \ {k}, Resident(j)'
  PROVE  SlotOf[j] # SlotOf[k] /\ Resident(j) /\ cnt'[SlotOf[j]] = cnt[SlotOf[j]]
<1>1. SlotOf[j] \in Slots
  BY SlotInRange
<1> QED BY <1>1, PacketEffect DEF Resident

-----------------------------------------------------------------------------
LEMMA InitEstablishes == Init => IInv
<1> SUFFICES ASSUME Init PROVE IInv
  OBVIOUS
<1>1. TypeOK
  BY TableOK DEF Init, TypeOK
<1>2. \A k \in Keys : SlotOf[k] \in Slots
  BY SlotInRange
<1>3. CountIsBacked /\ NeverHidesAHead /\ StartIsBounded
  BY <1>2, TableOK DEF Init, CountIsBacked, NeverHidesAHead, StartIsBounded
<1>4. HeadsPerStart
  <2>1. ASSUME NEW k \in Keys PROVE heads[k] =< Cutoff * restarts[k]
    <3>1. heads[k] = 0 /\ restarts[k] = 0
      BY DEF Init
    <3>2. Cutoff * restarts[k] = 0
      BY <3>1, TableOK
    <3> QED BY <3>1, <3>2
  <2> QED BY <2>1 DEF HeadsPerStart
<1>5. SlotIsOwn
  BY <1>2 DEF Init, SlotIsOwn
<1>6. ExactWhenAlone
  BY TableOK DEF Init, ExactWhenAlone
<1> QED BY <1>1, <1>3, <1>4, <1>5, <1>6 DEF IInv

\* No head is hidden: the counter of a resident key is backed by heads, a
\* non-resident key starts again at zero.
LEMMA HeadsStep ==
  ASSUME IInv, NEW k \in Keys, Packet(k)
  PROVE  CountIsBacked' /\ NeverHidesAHead'
<1> DEFINE n == Before(k)
<1>1. TypeOK /\ TypeOK' /\ n \in 0 .. CntMod - 1 /\ Cutoff \in Nat
  BY PacketEffect, TableOK DEF IInv
<1>2. heads[k] >= Cutoff \/ heads[k] >= n
  BY <1>1 DEF IInv, CountIsBacked, Before, TypeOK
<1>3. heads'[k] >= Cutoff \/ (heads'[k] >= n + 1)
  BY <1>1, <1>2, PacketEffect DEF IsHead, TypeOK
<1>4. CountIsBacked'
  <2>1. After(n) =< n + 1
    BY <1>1, NextCount
  <2>2. heads'[k] >= Cutoff \/ heads'[k] >= cnt'[SlotOf[k]]
    BY <1>1, <1>3, <2>1, PacketEffect, NextCount DEF TypeOK
  <2>3. ASSUME NEW j \in Keys \ {k}, Resident(j)'
        PROVE  heads'[j] >= Cutoff \/ heads'[j] >= cnt'[SlotOf[j]]
    BY <1>1, <2>3, OthersKeepTheirSlot, PacketEffect DEF IInv, CountIsBacked
  <2> QED BY <2>2, <2>3 DEF CountIsBacked
<1>5. NeverHidesAHead'
  <2>1. heads'[k] >= Cutoff \/ heads'[k] >= seen'[k]
    <3>1. heads[k] >= Cutoff \/ heads[k] >= seen[k]
      BY DEF IInv, NeverHidesAHead
    <3>2. CASE IsHead(n)
      BY <1>1, <3>1, <3>2, PacketEffect DEF TypeOK
    <3>3. CASE ~IsHead(n)
      BY <1>1, <1>2, <3>3, PacketEffect DEF TypeOK, IsHead
    <3> QED BY <3>2, <3>3
  <2> QED BY <2>1, PacketEffect, <1>1 DEF IInv, NeverHidesAHead
<1> QED BY <1>4, <1>5

\* Extra heads are paid for by restarts.
LEMMA RestartsStep ==
  ASSUME IInv, NEW k \in Keys, Packet(k)
  PROVE  StartIsBounded' /\ HeadsPerStart'
<1> DEFINE n == Before(k)  r == restarts[k]
           AtMost(m) == IF m < Cutoff THEN m ELSE Cutoff
<1>1. TypeOK /\ n \in 0 .. CntMod - 1 /\ Cutoff \in Nat \ {0} /\ Cutoff < CntMod
      /\ CntMod \in Nat /\ r \in Nat /\ heads[k] \in Nat
  BY PacketEffect, TableOK DEF IInv, TypeOK
<1>2. Cutoff * r = Cutoff * (r - 1) + Cutoff /\ Cutoff * (r + 1) = Cutoff * r + Cutoff
      /\ Cutoff * (r - 1) \in Int /\ Cutoff * r \in Int
  BY <1>1
<1>3. heads[k] =< Cutoff * r
  BY DEF IInv, HeadsPerStart
<1>4. n > 0 => r >= 1 /\ heads[k] =< Cutoff * (r - 1) + AtMost(n)
  BY DEF IInv, StartIsBounded, Before
<1>5. /\ heads'[k] = IF n < Cutoff THEN heads[k] + 1 ELSE heads[k]
      /\ restarts'[k] = IF n = 0 THEN r + 1 ELSE r
      /\ cnt'[SlotOf[k]] = IF n + 1 = CntMod THEN 0 ELSE n + 1
  BY <1>1, PacketEffect, NextCount DEF IInv, IsHead
<1>6. heads'[k] =< Cutoff * restarts'[k]
  BY <1>1, <1>2, <1>3, <1>4, <1>5
<1>7. cnt'[SlotOf[k]] > 0 =>
        /\ restarts'[k] >= 1
        /\ heads'[k] =< Cutoff * (restarts'[k] - 1) + AtMost(cnt'[SlotOf[k]])
  <2>1. CASE n = 0
    <3>1. (r + 1) - 1 = r /\ r + 1 >= 1
      BY <1>1
    <3> QED BY <1>1, <1>2, <1>3, <1>5, <2>1, <3>1
  <2>2. CASE n > 0
    BY <1>1, <1>2, <1>4, <1>5, <2>2
  <2> QED BY <1>1, <2>1, <2>2
<1>8. HeadsPerStart'
  BY <1>1, <1>6, PacketEffect DEF IInv, HeadsPerStart
<1>9. ASSUME NEW j \in Keys \ {k}, Resident(j)', cnt'[SlotOf[j]] > 0
      PROVE  /\ restarts'[j] >= 1
             /\ heads'[j] =< Cutoff * (restarts'[j] - 1) + AtMost(cnt'[SlotOf[j]])
  BY <1>1, <1>9, OthersKeepTheirSlot, PacketEffect DEF IInv, StartIsBounded
<1>10. StartIsBounded'
  BY <1>7, <1>9 DEF StartIsBounded
<1> QED BY <1>8, <1>10

\* A key alone in its slot is counted exactly.
LEMMA AloneStep ==
  ASSUME IInv, NEW k \in Keys, Packet(k)
  PROVE  SlotIsOwn' /\ ExactWhenAlone'
<1> DEFINE n == Before(k)
<1>1. TypeOK /\ TypeOK' /\ n \in 0 .. CntMod - 1 /\ Cutoff \in Nat /\ CntMod \in Nat
  BY PacketEffect, TableOK DEF IInv
<1>2. Alone(k)' => Alone(k)
  BY PacketEffect, <1>1 DEF Alone
<1>3. Alone(k) /\ seen[k] < CntMod => n = seen[k]
  BY <1>1 DEF IInv, SlotIsOwn, Before, TypeOK
<1>4. Alone(k)' /\ seen'[k] < CntMod => cnt'[SlotOf[k]] = seen'[k] /\ Resident(k)'
  BY <1>1, <1>2, <1>3, PacketEffect, NextCount DEF TypeOK, Resident
<1>5. Alone(k)' /\ seen'[k] < CntMod
      => heads'[k] = IF seen'[k] < Cutoff THEN seen'[k] ELSE Cutoff
  BY <1>1, <1>2, <1>3, PacketEffect DEF IInv, ExactWhenAlone, IsHead, TypeOK
<1>6. ASSUME NEW j \in Keys \ {k}, Alone(j)', seen'[j] < CntMod
      PROVE  /\ Alone(j) /\ seen[j] < CntMod /\ SlotOf[j] # SlotOf[k]
             /\ (Resident(j)' <=> Resident(j)) /\ cnt'[SlotOf[j]] = cnt[SlotOf[j]]
  <2>1. seen'[k] > 0 /\ \A h \in Keys \ {k} : seen'[h] = seen[h]
    BY <1>1, PacketEffect DEF TypeOK
  <2>2. SlotOf[j] # SlotOf[k]
    BY <1>6, <2>1 DEF Alone
  <2>3. Alone(j) /\ seen[j] < CntMod
    BY <1>6, <2>1, <2>2 DEF Alone
  <2>4. keys'[SlotOf[j]] = keys[SlotOf[j]] /\ cnt'[SlotOf[j]] = cnt[SlotOf[j]]
    BY <1>1, <2>2, PacketEffect, SlotInRange
  <2> QED BY <2>2, <2>3, <2>4 DEF Resident
<1>7. SlotIsOwn'
  BY <1>4, <1>6, PacketEffect, <1>1 DEF IInv, SlotIsOwn
<1>8. ExactWhenAlone'
  BY <1>5, <1>6, PacketEffect, <1>1 DEF IInv, ExactWhenAlone
<1> QED BY <1>7, <1>8

LEMMA TableStep == IInv /\ [Next]_vars => IInv'
<1> SUFFICES ASSUME IInv, [Next]_vars PROVE IInv'
  OBVIOUS
<1>1. ASSUME NEW k \in Keys, Packet(k) PROVE IInv'
  BY <1>1, PacketEffect, HeadsStep, RestartsStep, AloneStep DEF IInv
<1>2. CASE UNCHANGED vars
  BY <1>2 DEF vars, IInv, TypeOK, CountIsBacked, NeverHidesAHead, StartIsBounded,
              HeadsPerStart, SlotIsOwn, ExactWhenAlone, Resident, Alone
<1> QED BY <1>1, <1>2 DEF Next

LEMMA Invariance == Spec => []IInv
BY TableStep, InitEstablishes, PTL DEF Spec

-----------------------------------------------------------------------------
(* The calls of FilteredLoop.                                              *)

\* The table counts what comes and does not hit the set; what it calls a head
\* reaches the callback if the mask admits heads.  A flow without twins has its key
\* to itself.
TableSeesTraffic ==
  \A f \in Flows :
    /\ table /\ ~Hit(f) /\ Twins(f) = {} =>
         /\ seen[KeyOf[f]] = came[f]
         /\ Admits("FLOW_HEAD") => got[f]["FLOW_HEAD"] = heads[KeyOf[f]]
    /\ ~table \/ Hit(f) => got[f]["FLOW_HEAD"] = 0
    /\ got[f]["FLOW_HEAD"] =< heads[KeyOf[f]]

\* Keys are counted for flows that came.
KeysOfTraffic ==
  \A k \in Keys : seen[k] > 0 => \E g \in Flows : KeyOf[g] = k /\ came[g] > 0 /\ ~Hit(g)

LoopInv == IInv /\ LoopTypeOK /\ TableSeesTraffic /\ KeysOfTraffic

LEMMA LoopStarts == LoopInit => LoopInv
<1> SUFFICES ASSUME LoopInit PROVE LoopInv
  OBVIOUS
<1>1. IInv
  BY InitEstablishes DEF LoopInit
<1>2. LoopTypeOK
  BY <1>1, TrafficOK DEF LoopInit, LoopTypeOK, IInv, Zero, NoneCame, NoneGot, Traffic
<1>3. \A f \in Flows : f \in Traffic /\ KeyOf[f] \in Keys
  BY TrafficOK DEF Traffic
<1>4. TableSeesTraffic
  BY <1>3 DEF LoopInit, Init, TableSeesTraffic, NoneGot, Classes
<1>5. KeysOfTraffic
  BY DEF LoopInit, Init, KeysOfTraffic
<1> QED BY <1>1, <1>2, <1>4, <1>5 DEF LoopInv

\* A new call finds an empty table, whatever the last one left.
LEMMA CallStep ==
  ASSUME LoopInv, NEW m \in Masks, Call(m)
  PROVE  LoopInv'
<1>1. Init'
  BY DEF Call, Built, Init
<1>2. IInv'
  BY <1>1, InitEstablishes, PTL
<1>3. LoopTypeOK'
  BY <1>2, TrafficOK DEF Call, LoopTypeOK, IInv, Zero, NoneCame, NoneGot, Traffic
<1>4. \A f \in Flows : f \in Traffic /\ KeyOf[f] \in Keys
  BY TrafficOK DEF Traffic
<1>5. TableSeesTraffic'
  BY <1>4 DEF Call, TableSeesTraffic, NoneCame, NoneGot, Classes
<1>6. KeysOfTraffic'
  BY DEF Call, KeysOfTraffic
<1> QED BY <1>2, <1>3, <1>5, <1>6 DEF LoopInv

LEMMA TakeStep ==
  ASSUME LoopInv, NEW p \in Traffic, NEW raises \in BOOLEAN, Take(p, raises)
  PROVE  LoopInv'
<1> DEFINE c == ClassOf(p)
<1>1. LoopTypeOK /\ TypeOK /\ IInv /\ TableSeesTraffic /\ KeysOfTraffic
  BY DEF LoopInv, LoopTypeOK
<1>2. c \in Classes /\ (c = "FLOW_HEAD" <=> Looks(p) /\ IsHead(Before(KeyOf[p])))
  BY DEF ClassOf, Classes, Looks
<1>3. UNCHANGED <<mask, set, table>>
  BY DEF Take
<1>4. IInv'
  BY <1>1, TableStep, TrafficOK DEF Take, Next, Looks
<1>5. /\ came' = [came EXCEPT ![p] = @ + 1]
      /\ got' = IF Admits(c) THEN [got EXCEPT ![p][c] = @ + 1] ELSE got
      /\ counts' = Counted(c)
  BY DEF Take
<1>6. LoopTypeOK'
  <2>1. counts' \in [DOMAIN Zero -> Nat]
    <3> DEFINE D == DOMAIN Zero  w == IF Admits(c) THEN "admitted" ELSE "dropped"
    <3>1. c \in D /\ w \in D
      BY <1>2 DEF Zero
    <3>2. counts \in [D -> Nat] /\ counts' = [[counts EXCEPT ![c] = @ + 1] EXCEPT ![w] = @ + 1]
      BY <1>1, <1>5 DEF LoopTypeOK, Counted, Ticked
    <3> HIDE DEF D, w, c
    <3>3. [counts EXCEPT ![c] = @ + 1] \in [D -> Nat]
      BY <3>1, <3>2
    <3> QED BY <3>1, <3>2, <3>3 DEF D
  <2>2. came' \in [Traffic -> Nat]
    BY <1>1, <1>5 DEF LoopTypeOK
  <2>3. got' \in [Traffic -> [Classes -> Nat]]
    <3>1. got[p] \in [Classes -> Nat] /\ got[p][c] + 1 \in Nat
      BY <1>1, <1>2 DEF LoopTypeOK
    <3>2. [got[p] EXCEPT ![c] = @ + 1] \in [Classes -> Nat]
      BY <3>1
    <3> QED BY <1>1, <1>5, <3>2 DEF LoopTypeOK
  <2> QED BY <1>1, <1>3, <1>4, <2>1, <2>2, <2>3 DEF LoopTypeOK, IInv, Take
<1>7. /\ came'[p] = came[p] + 1 /\ came[p] \in Nat /\ came'[p] > 0
      /\ \A q \in Traffic : (q # p => came'[q] = came[q] /\ got'[q] = got[q]) /\ came'[q] \in Nat
      /\ got'[p]["FLOW_HEAD"] = IF Admits(c) /\ c = "FLOW_HEAD"
                                THEN got[p]["FLOW_HEAD"] + 1 ELSE got[p]["FLOW_HEAD"]
  BY <1>1, <1>2, <1>5 DEF LoopTypeOK, Classes
<1>8. \A q \in Traffic : (Hit(q)' <=> Hit(q)) /\ (came[q] > 0 => came'[q] > 0)
  BY <1>1, <1>3, <1>7 DEF Hit, LoopTypeOK
<1>9. /\ Flows \subseteq Traffic /\ \A f \in Flows : KeyOf[f] \in Keys
      /\ Admits("FLOW_HEAD")' <=> Admits("FLOW_HEAD")
  BY <1>3, TrafficOK DEF Traffic, Admits
<1>10. \A k \in Keys : heads[k] \in Nat /\ heads'[k] \in Nat
  BY <1>1, <1>4 DEF TypeOK, IInv
<1>11. ASSUME Looks(p)
       PROVE  /\ p \in Flows /\ table /\ ~Hit(p) /\ Packet(KeyOf[p])
              /\ seen'[KeyOf[p]] = seen[KeyOf[p]] + 1
              /\ heads'[KeyOf[p]] = IF c = "FLOW_HEAD" THEN heads[KeyOf[p]] + 1 ELSE heads[KeyOf[p]]
              /\ \A k \in Keys \ {KeyOf[p]} : seen'[k] = seen[k] /\ heads'[k] = heads[k]
  BY <1>1, <1>2, <1>9, <1>11, PacketEffect DEF Take, Looks
<1>12. ASSUME ~Looks(p) PROVE seen' = seen /\ heads' = heads /\ c # "FLOW_HEAD"
  BY <1>2, <1>12 DEF Take, vars
<1>13. ASSUME NEW f \in Flows
       PROVE  /\ Twins(f)' = {} => Twins(f) = {}
              /\ Twins(f)' = {} /\ f # p /\ Looks(p) => KeyOf[p] # KeyOf[f]
  <2>1. Twins(f) \subseteq Twins(f)'
    BY <1>8, <1>9 DEF Twins
  <2>2. f # p /\ Looks(p) /\ KeyOf[p] = KeyOf[f] => p \in Twins(f)'
    BY <1>7, <1>8, <1>9, <1>11 DEF Twins
  <2> QED BY <2>1, <2>2
<1>14. ASSUME NEW f \in Flows
       PROVE  /\ table' /\ ~Hit(f)' /\ Twins(f)' = {} =>
                   /\ seen'[KeyOf[f]] = came'[f]
                   /\ Admits("FLOW_HEAD")' => got'[f]["FLOW_HEAD"] = heads'[KeyOf[f]]
              /\ ~table' \/ Hit(f)' => got'[f]["FLOW_HEAD"] = 0
              /\ got'[f]["FLOW_HEAD"] =< heads'[KeyOf[f]]
  <2>1. /\ f \in Traffic /\ KeyOf[f] \in Keys /\ (table' <=> table) /\ (Hit(f)' <=> Hit(f))
        /\ got[f]["FLOW_HEAD"] \in Nat
    BY <1>1, <1>3, <1>8, <1>9 DEF LoopTypeOK, Classes
  <2>2. /\ table /\ ~Hit(f) /\ Twins(f) = {} =>
             /\ seen[KeyOf[f]] = came[f]
             /\ Admits("FLOW_HEAD") => got[f]["FLOW_HEAD"] = heads[KeyOf[f]]
        /\ ~table \/ Hit(f) => got[f]["FLOW_HEAD"] = 0
        /\ got[f]["FLOW_HEAD"] =< heads[KeyOf[f]]
    BY <1>1 DEF TableSeesTraffic
  <2>3. heads[KeyOf[f]] =< heads'[KeyOf[f]]
    <3>1. CASE Looks(p) /\ KeyOf[f] = KeyOf[p]
      BY <1>10, <1>11, <2>1, <3>1
    <3>2. CASE ~(Looks(p) /\ KeyOf[f] = KeyOf[p])
      BY <1>10, <1>11, <1>12, <2>1, <3>2
    <3> QED BY <3>1, <3>2
  <2>4. CASE f # p
    <3>1. came'[f] = came[f] /\ got'[f] = got[f]
      BY <1>7, <2>1, <2>4
    <3>2. Twins(f)' = {} => seen'[KeyOf[f]] = seen[KeyOf[f]] /\ heads'[KeyOf[f]] = heads[KeyOf[f]]
      BY <1>11, <1>12, <1>13, <2>1, <2>4
    <3>3. got[f]["FLOW_HEAD"] =< heads'[KeyOf[f]]
      BY <1>10, <2>1, <2>2, <2>3
    <3> QED BY <1>9, <1>13, <2>1, <2>2, <3>1, <3>2, <3>3
  <2>5. CASE f = p /\ Looks(p)
    <3>1. got'[f]["FLOW_HEAD"] = IF Admits("FLOW_HEAD") /\ c = "FLOW_HEAD"
                                   THEN got[f]["FLOW_HEAD"] + 1 ELSE got[f]["FLOW_HEAD"]
      BY <1>7, <2>5
    <3> QED BY <1>7, <1>9, <1>10, <1>11, <1>13, <2>1, <2>2, <2>5, <3>1
  <2>6. CASE f = p /\ ~Looks(p)
    <3>1. ~table \/ Hit(f)
      BY <2>6 DEF Looks
    <3>2. got'[f]["FLOW_HEAD"] = got[f]["FLOW_HEAD"]
      BY <1>7, <1>12, <2>6
    <3>3. heads' = heads
      BY <1>12, <2>6
    <3> QED BY <2>1, <2>2, <3>1, <3>2, <3>3
  <2> QED BY <2>4, <2>5, <2>6
<1>15. TableSeesTraffic'
  BY <1>14 DEF TableSeesTraffic
<1>16. KeysOfTraffic'
  <2> SUFFICES ASSUME NEW k \in Keys, seen'[k] > 0
               PROVE  \E g \in Flows : KeyOf[g] = k /\ came'[g] > 0 /\ ~Hit(g)'
    BY DEF KeysOfTraffic
  <2>1. CASE Looks(p) /\ k = KeyOf[p]
    BY <1>7, <1>8, <1>11, <2>1
  <2>2. CASE ~(Looks(p) /\ k = KeyOf[p])
    <3>1. seen'[k] = seen[k]
      BY <1>11, <1>12, <2>2
    <3>2. PICK g \in Flows : KeyOf[g] = k /\ came[g] > 0 /\ ~Hit(g)
      BY <1>1, <3>1 DEF KeysOfTraffic
    <3> QED BY <1>8, <1>9, <3>2
  <2> QED BY <2>1, <2>2
<1> QED BY <1>4, <1>6, <1>15, <1>16 DEF LoopInv

LEMMA LoopStep == LoopInv /\ [LoopNext]_loopVars => LoopInv'
<1> SUFFICES ASSUME LoopInv, [LoopNext]_loopVars PROVE LoopInv'
  OBVIOUS
<1>1. CASE Return
  <2>1. UNCHANGED <<vars, mask, set, table, counts, came, got>>
    BY <1>1 DEF Return
  <2>2. IInv'
    BY <2>1, TableStep DEF LoopInv
  <2>3. LoopTypeOK'
    BY <1>1, <2>1, <2>2 DEF Return, LoopInv, LoopTypeOK, IInv
  <2> QED BY <2>1, <2>2, <2>3 DEF LoopInv, TableSeesTraffic, KeysOfTraffic, Twins, Hit, Admits, vars
<1>2. CASE UNCHANGED loopVars
  <2>1. UNCHANGED <<vars, callVars, counts, came, got>>
    BY <1>2 DEF loopVars
  <2>2. IInv'
    BY <2>1, TableStep DEF LoopInv
  <2> QED BY <2>1, <2>2 DEF callVars, LoopInv, LoopTypeOK, IInv, TableSeesTraffic, KeysOfTraffic, Twins, Hit, Admits, vars
<1> QED BY <1>1, <1>2, CallStep, TakeStep DEF LoopNext

LEMMA LoopInvariance == LoopSpec => []LoopInv
BY LoopStarts, LoopStep, PTL DEF LoopSpec

-----------------------------------------------------------------------------
\* flow_seen never hides a head of a key: whatever keys share a slot and however
\* often a counter wraps, the first Cutoff packets with a key are flow heads.
THEOREM NoHeadIsHidden == Spec => []NeverHidesAHead
BY Invariance, PTL DEF IInv

\* ... and it invents none without a restart of the key's counter.
THEOREM ExtraHeadsArePaidFor == Spec => []HeadsPerStart
BY Invariance, PTL DEF IInv

\* A key whose slot no other key of the capture uses has exactly its first Cutoff
\* packets classified as heads, until its 32-bit counter wraps.
THEOREM AloneMeansExact == Spec => []ExactWhenAlone
BY Invariance, PTL DEF IInv

\* Types of the composition.
THEOREM LoopTypes == LoopSpec => []LoopTypeOK
BY LoopInvariance, PTL DEF LoopInv

\* The bound on extra heads holds in every call of loop_filtered, for every key.
THEOREM ExtraHeadsArePaidForInCalls == LoopSpec => []HeadsPerStart
BY LoopInvariance, PTL DEF LoopInv, IInv

\* loop_filtered gives its callback the first flow_cutoff packets of every flow that
\* does not hit the set and whose key no other flow of the capture has.  Nothing is
\* assumed of flow_key: two flows with one key are cut off together.
THEOREM FirstPacketsAreDelivered == LoopSpec => []HeadsDelivered
<1>1. ASSUME LoopInv, table, Admits("FLOW_HEAD"), NEW f \in Flows, ~Hit(f), Twins(f) = {}
      PROVE  got[f]["FLOW_HEAD"] >= Cutoff \/ got[f]["FLOW_HEAD"] >= came[f]
  <2>1. KeyOf[f] \in Keys
    BY TrafficOK
  <2>2. heads[KeyOf[f]] >= Cutoff \/ heads[KeyOf[f]] >= seen[KeyOf[f]]
    BY <1>1, <2>1 DEF LoopInv, IInv, NeverHidesAHead
  <2> QED BY <1>1, <2>2 DEF LoopInv, TableSeesTraffic
<1>2. LoopInv => HeadsDelivered
  BY <1>1 DEF HeadsDelivered
<1> QED BY <1>2, LoopInvariance, PTL

\* ... and no others of a flow whose slot only hits of the set share.
THEOREM OnlyFirstPacketsAreDelivered == LoopSpec => []HeadsOnlyFirst
<1>1. ASSUME LoopInv, NEW f \in Flows, Undisturbed(f), came[f] < CntMod
      PROVE  got[f]["FLOW_HEAD"] =< Cutoff
  <2>1. /\ KeyOf[f] \in Keys /\ Cutoff \in Nat
        /\ \A k \in Keys : seen[k] \in Nat /\ heads[k] \in Nat
        /\ got[f]["FLOW_HEAD"] \in Nat
        /\ \A g \in Flows : came[g] \in Nat
    BY <1>1, TrafficOK, TableOK DEF LoopInv, IInv, TypeOK, LoopTypeOK, Traffic, Classes
  <2>2. CASE ~table \/ Hit(f)
    BY <1>1, <2>1, <2>2 DEF LoopInv, TableSeesTraffic
  <2>3. CASE table /\ ~Hit(f)
    <3>1. Twins(f) = {}
      BY <1>1, <2>1 DEF Undisturbed, SameSlot, Twins
    <3>2. seen[KeyOf[f]] = came[f] /\ got[f]["FLOW_HEAD"] =< heads[KeyOf[f]]
      BY <1>1, <2>3, <3>1 DEF LoopInv, TableSeesTraffic
    <3>3. ASSUME NEW j \in Keys \ {KeyOf[f]}, seen[j] > 0 PROVE SlotOf[j] # SlotOf[KeyOf[f]]
      <4>1. PICK g \in Flows : KeyOf[g] = j /\ came[g] > 0 /\ ~Hit(g)
        BY <1>1, <3>3 DEF LoopInv, KeysOfTraffic
      <4> QED BY <1>1, <2>1, <3>3, <4>1 DEF Undisturbed, SameSlot
    <3>4. Alone(KeyOf[f])
      BY <3>3 DEF Alone
    <3>5. heads[KeyOf[f]] =< Cutoff
      BY <1>1, <2>1, <3>2, <3>4 DEF LoopInv, IInv, ExactWhenAlone
    <3> QED BY <2>1, <3>2, <3>5
  <2> QED BY <2>2, <2>3
<1>2. LoopInv => HeadsOnlyFirst
  BY <1>1 DEF HeadsOnlyFirst
<1> QED BY <1>2, LoopInvariance, PTL

-----------------------------------------------------------------------------
(* The counters tell the traffic.                                          *)

\* The packets of hits, and the calls of the callback, by kind of packet.
HitsCame == [p \in {q \in Traffic : Hit(q)} |-> came[p]]
Delivered == [p \in Traffic |-> Total(got[p])]

CountsTell ==
  /\ counts.admitted + counts.dropped = Total(came)
  /\ counts["SET_MATCH"] = Total(HitsCame)
  /\ counts["FLOW_HEAD"] = Total(heads)
  /\ counts["OTHER"] = counts.admitted + counts.dropped - counts["SET_MATCH"] - counts["FLOW_HEAD"]
  /\ counts.admitted = Total(Delivered)

\* The result of a call that is over is what was counted.
ResultIsCounts == pc = "idle" => result \in {NULL, counts}

LEMMA FiniteTraffic == IsFiniteSet(Traffic) /\ IsFiniteSet(Keys) /\ IsFiniteSet(Classes)
<1>1. IsFiniteSet(Traffic) /\ IsFiniteSet(Keys)
  BY TrafficOK
<1>2. IsFiniteSet({}) /\ IsFiniteSet({"OTHER"}) /\ IsFiniteSet({"OTHER", "FLOW_HEAD"})
  BY FS_EmptySet, FS_Singleton, FS_AddElement
<1>3. IsFiniteSet({"OTHER", "FLOW_HEAD"} \cup {"SET_MATCH"})
  BY <1>2, FS_AddElement
<1>4. Classes = {"OTHER", "FLOW_HEAD"} \cup {"SET_MATCH"}
  BY DEF Classes
<1> QED BY <1>1, <1>3, <1>4

\* Nothing counted and nothing come.
LEMMA ZeroesTell ==
  counts = Zero /\ came = NoneCame /\ got = NoneGot /\ heads = [k \in Keys |-> 0] => CountsTell
<1> SUFFICES ASSUME counts = Zero, came = NoneCame, got = NoneGot, heads = [k \in Keys |-> 0]
             PROVE  CountsTell
  OBVIOUS
<1> DEFINE none == [c \in Classes |-> 0]
           H == {q \in Traffic : Hit(q)}
<1>1. Total(came) = 0
  BY FiniteTraffic, TotalOfZeroes DEF NoneCame, Total
<1>2. Total(heads) = 0
  BY FiniteTraffic, TotalOfZeroes DEF Total
<1>3. Total(HitsCame) = 0
  <2>1. HitsCame = [p \in H |-> 0]
    BY DEF HitsCame, NoneCame
  <2>2. IsFiniteSet(H)
    BY FiniteTraffic, FS_Subset
  <2> HIDE DEF H
  <2> QED BY <2>1, <2>2, TotalOfZeroes DEF Total
<1>4. Total(Delivered) = 0
  <2>1. Total(none) = 0
    BY FiniteTraffic, TotalOfZeroes DEF Total
  <2>2. \A p \in Traffic : got[p] = none
    BY DEF NoneGot
  <2> HIDE DEF none
  <2>3. Delivered = [p \in Traffic |-> 0]
    BY <2>1, <2>2 DEF Delivered
  <2> QED BY <2>3, FiniteTraffic, TotalOfZeroes DEF Total
<1>5. /\ counts.admitted = 0 /\ counts.dropped = 0 /\ counts["SET_MATCH"] = 0
      /\ counts["FLOW_HEAD"] = 0 /\ counts["OTHER"] = 0
  BY DEF Zero, Classes
<1> QED BY <1>1, <1>2, <1>3, <1>4, <1>5 DEF CountsTell

\* One packet: its class and its fate are counted, and so it is in what came.
LEMMA TakeTells ==
  ASSUME LoopInv, CountsTell, NEW p \in Traffic, NEW raises \in BOOLEAN, Take(p, raises)
  PROVE  CountsTell'
<1> DEFINE c == ClassOf(p)
           w == IF Admits(c) THEN "admitted" ELSE "dropped"
<1>1. LoopTypeOK /\ TypeOK /\ IInv
  BY DEF LoopInv, LoopTypeOK
<1>2. /\ c \in Classes
      /\ c = "FLOW_HEAD" <=> Looks(p) /\ IsHead(Before(KeyOf[p]))
      /\ c = "SET_MATCH" <=> Hit(p)
  BY DEF ClassOf, Classes, Looks
<1>3. /\ UNCHANGED <<mask, set, table>>
      /\ came' = [came EXCEPT ![p] = @ + 1]
      /\ got' = IF Admits(c) THEN [got EXCEPT ![p][c] = @ + 1] ELSE got
      /\ counts' = [[counts EXCEPT ![c] = @ + 1] EXCEPT ![w] = @ + 1]
  BY DEF Take, Counted, Ticked
<1>4. /\ came \in [Traffic -> Nat] /\ got \in [Traffic -> [Classes -> Nat]]
      /\ heads \in [Keys -> Nat]
      /\ counts \in [{"OTHER", "FLOW_HEAD", "SET_MATCH", "admitted", "dropped"} -> Nat]
  BY <1>1 DEF LoopTypeOK, TypeOK, Zero, Classes
<1>5. c \in {"OTHER", "FLOW_HEAD", "SET_MATCH"}
  BY <1>2 DEF Classes
<1>6. Total(came) \in Nat /\ Total(came') = Total(came) + 1
  BY <1>3, <1>4, FiniteTraffic, TotalTicks DEF Total
<1>7. Total(heads') = Total(heads) + (IF c = "FLOW_HEAD" THEN 1 ELSE 0) /\ Total(heads) \in Nat
  <2>1. CASE c = "FLOW_HEAD"
    <3>1. KeyOf[p] \in Keys /\ heads' = [heads EXCEPT ![KeyOf[p]] = @ + 1]
      BY <1>2, <2>1, TrafficOK DEF Take, Looks, Packet
    <3> QED BY <1>4, <2>1, <3>1, FiniteTraffic, TotalTicks DEF Total
  <2>2. CASE c # "FLOW_HEAD"
    <3>1. heads' = heads
      <4>1. CASE ~Looks(p)
        BY <4>1 DEF Take, vars
      <4>2. CASE Looks(p)
        <5>1. ~IsHead(Before(KeyOf[p])) /\ Packet(KeyOf[p])
          BY <1>2, <2>2, <4>2 DEF Take
        <5> QED BY <1>4, <5>1 DEF Packet
      <4> QED BY <4>1, <4>2
    <3>2. Total(heads) \in Nat
      BY <1>4, FiniteTraffic, SumType DEF Total, SumFunction
    <3> QED BY <2>2, <3>1, <3>2
  <2> QED BY <2>1, <2>2
<1>8. Total(HitsCame') = Total(HitsCame) + (IF c = "SET_MATCH" THEN 1 ELSE 0) /\ Total(HitsCame) \in Nat
  <2> DEFINE H == {q \in Traffic : Hit(q)}
  <2>1. H = {q \in Traffic : Hit(q)'} /\ IsFiniteSet(H) /\ H \subseteq Traffic
    BY <1>3, FiniteTraffic, FS_Subset DEF Hit
  <2>2. HitsCame = [q \in H |-> came[q]] /\ HitsCame' = [q \in H |-> came'[q]]
    BY <2>1 DEF HitsCame
  <2>3. HitsCame \in [H -> Nat]
    BY <1>4, <2>1, <2>2
  <2>4. p \in H <=> c = "SET_MATCH"
    BY <1>2
  <2> HIDE DEF H
  <2>5. CASE c = "SET_MATCH"
    <3>1. HitsCame' = [HitsCame EXCEPT ![p] = @ + 1]
      BY <1>3, <1>4, <2>1, <2>2
    <3> QED BY <2>1, <2>3, <2>4, <2>5, <3>1, TotalTicks DEF Total
  <2>6. CASE c # "SET_MATCH"
    <3>1. HitsCame' = HitsCame
      BY <1>3, <1>4, <2>1, <2>2, <2>4, <2>6
    <3>2. Total(HitsCame) \in Nat
      BY <2>1, <2>3, SumType DEF Total, SumFunction
    <3> QED BY <2>6, <3>1, <3>2
  <2> QED BY <2>5, <2>6
<1>9. Total(Delivered') = Total(Delivered) + (IF Admits(c) THEN 1 ELSE 0) /\ Total(Delivered) \in Nat
  <2>1. ASSUME NEW q \in Traffic PROVE got[q] \in [Classes -> Nat] /\ Total(got[q]) \in Nat
    <3>1. got[q] \in [Classes -> Nat]
      BY <1>4
    <3>2. DOMAIN got[q] = Classes /\ \A k \in Classes : got[q][k] \in Nat
      BY <3>1
    <3>3. SumFunctionOnSet(got[q], Classes) \in Nat
      BY <3>2, FiniteTraffic, SumType
    <3> QED BY <3>1, <3>2, <3>3 DEF Total, SumFunction
  <2>2. Delivered \in [Traffic -> Nat]
    BY <2>1 DEF Delivered
  <2>3. CASE Admits(c)
    <3>1. got'[p] = [got[p] EXCEPT ![c] = @ + 1] /\ \A q \in Traffic \ {p} : got'[q] = got[q]
      BY <1>3, <1>4, <2>3
    <3>2. Total(got'[p]) = Total(got[p]) + 1
      BY <1>2, <2>1, <3>1, FiniteTraffic, TotalTicks DEF Total
    <3> HIDE DEF c
    <3>3. Delivered' = [Delivered EXCEPT ![p] = @ + 1]
      BY <3>1, <3>2 DEF Delivered
    <3> QED BY <2>2, <2>3, <3>3, FiniteTraffic, TotalTicks DEF Total
  <2>4. CASE ~Admits(c)
    <3>1. Delivered' = Delivered
      BY <1>3, <2>4 DEF Delivered
    <3>2. Total(Delivered) \in Nat
      BY <2>2, FiniteTraffic, SumType DEF Total, SumFunction
    <3> QED BY <2>4, <3>1, <3>2
  <2> QED BY <2>3, <2>4
<1>10. /\ counts'.admitted = counts.admitted + (IF Admits(c) THEN 1 ELSE 0)
       /\ counts'.dropped = counts.dropped + (IF Admits(c) THEN 0 ELSE 1)
       /\ counts'["SET_MATCH"] = counts["SET_MATCH"] + (IF c = "SET_MATCH" THEN 1 ELSE 0)
       /\ counts'["FLOW_HEAD"] = counts["FLOW_HEAD"] + (IF c = "FLOW_HEAD" THEN 1 ELSE 0)
       /\ counts'["OTHER"] = counts["OTHER"] + (IF c = "OTHER" THEN 1 ELSE 0)
       /\ counts.admitted \in Nat /\ counts.dropped \in Nat /\ counts["SET_MATCH"] \in Nat
       /\ counts["FLOW_HEAD"] \in Nat /\ counts["OTHER"] \in Nat
  <2> HIDE DEF c
  <2> QED BY <1>3, <1>4, <1>5
<1> HIDE DEF c
<1> QED BY <1>5, <1>6, <1>7, <1>8, <1>9, <1>10 DEF CountsTell

\* From the first call on; a new Reader has counted nothing.
TellInv == (pc # "idle" \/ result # NULL => CountsTell) /\ ResultIsCounts

LEMMA TellStarts == LoopInit => TellInv
BY DEF LoopInit, TellInv, ResultIsCounts

LEMMA TellStep == LoopInv /\ TellInv /\ [LoopNext]_loopVars => TellInv'
<1> SUFFICES ASSUME LoopInv, TellInv, [LoopNext]_loopVars PROVE TellInv'
  OBVIOUS
<1>1. ASSUME NEW m \in Masks, Call(m) PROVE TellInv'
  <2>1. (counts = Zero /\ came = NoneCame /\ got = NoneGot /\ heads = [k \in Keys |-> 0])'
    BY <1>1 DEF Call
  <2>2. CountsTell'
    BY <2>1, ZeroesTell, PTL
  <2> QED BY <1>1, <2>2 DEF Call, TellInv, ResultIsCounts
<1>2. ASSUME NEW p \in Traffic, NEW raises \in BOOLEAN, Take(p, raises) PROVE TellInv'
  <2>1. pc # "idle" /\ pc' # "idle"
    BY <1>2 DEF Take
  <2>2. CountsTell'
    BY <1>2, <2>1, TakeTells DEF TellInv
  <2> QED BY <2>1, <2>2 DEF TellInv, ResultIsCounts
<1>3. ASSUME UNCHANGED <<vars, mask, set, table, counts, came, got>>, CountsTell PROVE CountsTell'
  BY <1>3 DEF CountsTell, HitsCame, Delivered, Hit, vars
<1>4. CASE Return
  BY <1>3, <1>4 DEF Return, TellInv, ResultIsCounts
<1>5. CASE UNCHANGED loopVars
  BY <1>3, <1>5 DEF loopVars, callVars, TellInv, ResultIsCounts
<1> QED BY <1>1, <1>2, <1>4, <1>5 DEF LoopNext

\* The tuple loop_filtered returns tells of every packet libpcap delivered, and of no
\* other, which class it had and whether the callback was given it: for all flows, sets
\* and masks, with or without a table, and after any earlier calls.
THEOREM ResultsTellTheTraffic == LoopSpec => []ResultTellsTheTraffic
<1>1. TellInv => ResultTellsTheTraffic
  BY DEF TellInv, CountsTell, ResultIsCounts, ResultTellsTheTraffic, HitsCame, Delivered
<1> QED BY <1>1, TellStarts, TellStep, LoopStarts, LoopStep, PTL DEF LoopSpec

-----------------------------------------------------------------------------
(* The address set.  Its inductive invariant:                               *)

\* Every stored address was added, and its probe meets no free slot before it.
Reachable ==
  \A s \in DOMAIN slots : slots[s] # EMPTY =>
    /\ slots[s] \in Added
    /\ \A x \in Path(Home(slots[s]), s) : slots[x] \notin {EMPTY, slots[s]}

\* Every address that was added is stored.
Stored == \A ip \in Added : \E s \in DOMAIN slots : slots[s] = ip

SetInv == SetTypeOK /\ Reachable /\ Stored

-----------------------------------------------------------------------------
LEMMA TwoToIs == ArePowers(TwoTo, 2, Width)
<1>1. \E g : ArePowers(g, 2, Width)
  BY SetOK, PowersExist
<1> QED BY <1>1, Zenon DEF TwoTo, ArePowers

\* A table has slots, and a shift by the remaining bits yields one of them.
LEMMA HomesInTable ==
  \A b \in MinBits .. MaxBits :
    /\ TwoTo[b] \in Nat \ {0}
    /\ \A p \in Products : p \div TwoTo[Width - b] \in 0 .. TwoTo[b] - 1
<1> DEFINE P == TwoTo
<1>1. ArePowers(P, 2, Width)
  BY TwoToIs
<1>2. Products \subseteq 0 .. P[Width] - 1
  BY SetOK
<1> HIDE DEF P
<1> SUFFICES ASSUME NEW b \in MinBits .. MaxBits
             PROVE  /\ P[b] \in Nat \ {0}
                    /\ \A p \in Products : p \div P[Width - b] \in 0 .. P[b] - 1
  BY DEF P
<1>3. Width \in Nat /\ b \in 0 .. Width
  BY SetOK
<1>4. P[b] \in Nat /\ P[b] > 0
  BY <1>1, <1>3, PowerType
<1>5. ASSUME NEW p \in Products PROVE p \div P[Width - b] \in 0 .. P[b] - 1
  <2>1. p \in 0 .. P[Width] - 1
    BY <1>2
  <2> QED BY <1>1, <1>3, <2>1, HighDigits
<1> QED BY <1>4, <1>5

LEMMA HomeInTable ==
  ASSUME SetTypeOK, NEW ip \in Addrs
  PROVE  Home(ip) \in 0 .. Cap - 1 /\ Cap \in Nat \ {0}
BY HomesInTable DEF SetTypeOK, Home, Cap

\* A probe passes slots of the table only, and not the slot it looks at.
LEMMA PathInTable ==
  ASSUME Cap \in Nat, NEW h \in 0 .. Cap - 1, NEW s \in 0 .. Cap - 1
  PROVE  Path(h, s) \subseteq 0 .. Cap - 1 /\ s \notin Path(h, s)
BY DEF Path

\* Of two slots, the probe passes one before it looks at the other.
LEMMA PathOrder ==
  ASSUME Cap \in Nat, NEW h \in 0 .. Cap - 1,
         NEW s \in 0 .. Cap - 1, NEW t \in 0 .. Cap - 1, s # t
  PROVE  s \in Path(h, t) \/ t \in Path(h, s)
BY DEF Path

LEMMA SetInitEstablishes == SetInit => SetInv
<1> SUFFICES ASSUME SetInit PROVE SetInv
  OBVIOUS
<1>1. list \in Seq(Addrs \cup {EMPTY}) /\ Len(list) \in Nat
  <2>1. PICK n \in 0 .. MaxLen : list \in [1 .. n -> Addrs \cup {EMPTY}]
    BY DEF SetInit
  <2>2. n \in Nat
    BY SetOK
  <2> QED BY <2>1, <2>2
<1>2. bits \in MinBits .. MaxBits
  BY DEF SetInit, Sizes, Smallest, LargeEnough
<1>3. SetTypeOK
  BY <1>1, <1>2 DEF SetInit, SetTypeOK
<1>4. Added = {}
  BY DEF SetInit, Added
<1>5. Reachable /\ Stored
  BY <1>4 DEF SetInit, Reachable, Stored
<1> QED BY <1>3, <1>5 DEF SetInv

\* While i * 4 does not wrap, turn i reads entry i; afterwards an earlier one.
LEMMA EntryIs ==
  /\ Reach \in Nat /\ Reach > 0
  /\ \A k \in Nat :
       Entry(k) \in 0 .. Reach - 1 /\ Entry(k) =< k /\ (k < Reach => Entry(k) = k)
<1> DEFINE P == TwoTo  R == P[Width - 2]
<1>1. ArePowers(P, 2, Width) /\ Width \in Nat /\ Width >= 2
  BY TwoToIs, SetOK
<1> HIDE DEF P
<1>2. /\ Width - 2 \in 0 .. Width /\ Width - 2 \in 0 .. Width - 1 /\ Width - 1 \in 0 .. Width - 1
      /\ (Width - 2) + 1 = Width - 1 /\ (Width - 1) + 1 = Width
  BY <1>1
<1>3. P[Width - 1] = 2 * R /\ P[Width] = 2 * P[Width - 1]
  BY <1>1, <1>2, PowerSteps
<1>4. R \in Nat /\ R > 0
  BY <1>1, <1>2, PowerType
<1> HIDE DEF R
<1>5. P[Width] = 4 * R
  BY <1>3, <1>4
<1>6. ASSUME NEW k \in Nat
      PROVE  /\ ((k * 4) % (4 * R)) \div 4 \in 0 .. R - 1
             /\ ((k * 4) % (4 * R)) \div 4 =< k
             /\ k < R => ((k * 4) % (4 * R)) \div 4 = k
  BY <1>4, <1>6
<1>7. Reach = R
  BY DEF Reach, P, R
<1>8. TwoTo[Width] = 4 * R
  BY <1>5 DEF P
<1> QED BY <1>4, <1>6, <1>7, <1>8 DEF Entry

LEMMA InsertStep ==
  ASSUME SetInv, Insert
  PROVE  SetInv'
<1> DEFINE e == Entry(i)  ip == list[e + 1]
<1>1. /\ SetTypeOK /\ i < Len(list) /\ i \in Nat /\ Len(list) \in Nat /\ Cap \in Nat
  BY HomesInTable DEF SetInv, SetTypeOK, Insert, Cap
<1>2. UNCHANGED <<list, product, bits>> /\ i' = i + 1 /\ Cap' = Cap
  BY DEF Insert, Cap
<1>3. /\ e \in Nat /\ e < Reach /\ e =< i /\ (i < Reach => e = i) /\ Reach \in Nat
      /\ ip \in Addrs \cup {EMPTY}
  <2>1. /\ Entry(i) \in 0 .. Reach - 1 /\ Entry(i) =< i
        /\ (i < Reach => Entry(i) = i) /\ Reach \in Nat
    BY <1>1, EntryIs
  <2>2. /\ e \in Nat /\ e < Reach /\ e =< i /\ (i < Reach => e = i)
        /\ e + 1 \in 1 .. Len(list)
    BY <1>1, <2>1
  <2> HIDE DEF e
  <2> QED BY <1>1, <2>1, <2>2 DEF SetTypeOK
<1> HIDE DEF e
<1>4. Added' = Added \cup ({ip} \ {EMPTY})
  <2> DEFINE K(n) == {k \in 1 .. n : k =< Reach}
  <2>1. K(i + 1) = K(i) \cup {e + 1}
    BY <1>1, <1>3
  <2>2. Added = {list[k] : k \in K(i)} \ {EMPTY} /\ Added' = {list[k] : k \in K(i + 1)} \ {EMPTY}
    BY <1>2 DEF Added, Reach
  <2> HIDE DEF K
  <2> QED BY <2>1, <2>2
<1>5. CASE ip = EMPTY /\ UNCHANGED slots
  <2>1. SetTypeOK'
    BY <1>1, <1>2, <1>5 DEF SetTypeOK
  <2>2. Added' = Added
    BY <1>4, <1>5
  <2> QED BY <1>2, <1>5, <2>1, <2>2 DEF SetInv, Reachable, Stored, Home, Path, Cap
<1>6. ASSUME ip # EMPTY, NEW j \in DOMAIN slots, StopsAt(ip, j),
             slots' = [slots EXCEPT ![j] = ip]
      PROVE  SetInv'
  <2>1. ip \in Addrs /\ j \in 0 .. Cap - 1 /\ DOMAIN slots = 0 .. Cap - 1
        /\ DOMAIN slots' = DOMAIN slots
    BY <1>1, <1>3, <1>6 DEF SetTypeOK
  <2>2. SetTypeOK'
    BY <1>1, <1>2, <1>6, <2>1 DEF SetTypeOK
  <2>3. Home(ip) \in 0 .. Cap - 1
    BY <1>1, <2>1, HomeInTable
  <2>4. ASSUME NEW s \in DOMAIN slots', slots'[s] # EMPTY
        PROVE  /\ slots'[s] \in Added'
               /\ \A x \in Path(Home(slots'[s]), s) : slots'[x] \notin {EMPTY, slots'[s]}
    <3>1. s \in 0 .. Cap - 1
      BY <2>1
    <3>2. CASE s = j
      <4>1. slots'[s] = ip
        BY <1>6, <2>1, <3>2
      <4>2. \A x \in Path(Home(ip), s) : x # j /\ slots'[x] = slots[x]
        BY <1>1, <1>6, <2>1, <2>3, <3>2, PathInTable
      <4>3. \A x \in Path(Home(ip), s) : slots[x] \notin {EMPTY, ip}
        BY <1>6, <3>2 DEF StopsAt
      <4> QED BY <1>2, <1>4, <1>6, <4>1, <4>2, <4>3
    <3>3. CASE s # j
      <4> DEFINE b == slots[s]
      <4>1. slots'[s] = b /\ b # EMPTY /\ b \in Addrs
        BY <1>1, <1>6, <2>1, <2>4, <3>3 DEF SetTypeOK
      <4>2. b \in Added /\ \A x \in Path(Home(b), s) : slots[x] \notin {EMPTY, b}
        BY <2>1, <4>1 DEF SetInv, Reachable
      <4>3. Home(b) \in 0 .. Cap - 1
        BY <1>1, <4>1, HomeInTable
      <4>4. ASSUME NEW x \in Path(Home(b), s)
            PROVE  slots'[x] \notin {EMPTY, b}
        <5>1. x \in 0 .. Cap - 1
          BY <1>1, <3>1, <4>3, PathInTable
        <5>2. CASE x # j
          BY <1>6, <2>1, <4>2, <4>4, <5>1, <5>2
        <5>3. CASE x = j
          BY <1>6, <2>1, <4>2, <4>4, <5>3 DEF StopsAt
        <5> QED BY <5>2, <5>3
      <4> QED BY <1>2, <1>4, <4>1, <4>2, <4>4
    <3> QED BY <3>2, <3>3
  <2>5. Reachable'
    BY <1>2, <2>4 DEF Reachable, Home, Path, Cap
  <2>6. Stored'
    <3>1. ASSUME NEW a \in Added' PROVE \E s \in DOMAIN slots' : slots'[s] = a
      <4>1. CASE a = ip
        BY <1>6, <2>1, <4>1
      <4>2. CASE a # ip
        <5>1. a \in Added /\ a # EMPTY
          BY <1>4, <3>1, <4>2 DEF Added
        <5>2. PICK s \in DOMAIN slots : slots[s] = a
          BY <5>1 DEF SetInv, Stored
        <5>3. s # j
          BY <1>6, <4>2, <5>1, <5>2 DEF StopsAt
        <5> QED BY <1>6, <2>1, <5>2, <5>3
      <4> QED BY <4>1, <4>2
    <3> QED BY <3>1 DEF Stored
  <2> QED BY <2>2, <2>5, <2>6 DEF SetInv
<1> QED BY <1>5, <1>6 DEF Insert, e

LEMMA SetInvariance == SetSpec => []SetInv
<1>1. SetInv /\ [SetNext]_setVars => SetInv'
  <2> SUFFICES ASSUME SetInv, [SetNext]_setVars PROVE SetInv'
    OBVIOUS
  <2>1. CASE Insert
    BY <2>1, InsertStep
  <2>2. CASE UNCHANGED setVars
    BY <2>2 DEF setVars, SetInv, SetTypeOK, Reachable, Stored, Added, Cap, Home, Path
  <2> QED BY <2>1, <2>2 DEF SetNext, BuiltOrStuck
<1> QED BY <1>1, SetInitEstablishes, PTL DEF SetSpec

-----------------------------------------------------------------------------
\* While the set is filled and ever after, ipset_has finds exactly the addresses
\* passed so far, for every hash function and every table size; of a list so long that
\* i * 4 wraps, those of its first quarter of the integers only.
THEOREM LookupsAreExact == SetSpec => []MembershipExact
<1>1. SetInv => MembershipExact
  <2> SUFFICES ASSUME SetInv, NEW ip \in Addrs \cup {EMPTY} PROVE Has(ip) <=> ip \in Added
    BY DEF MembershipExact
  <2>1. Has(ip) => ip \in Added
    BY DEF Has, SetInv, Reachable
  <2>2. ip \in Added => Has(ip)
    BY DEF Has, SetInv, Reachable, Stored, Added
  <2> QED BY <2>1, <2>2
<1> QED BY <1>1, SetInvariance, PTL

\* A repeated entry of the packed list takes no second slot.
THEOREM EntriesAreStoredOnce == SetSpec => []StoredOnce
<1>1. SetInv => StoredOnce
  <2> SUFFICES ASSUME SetInv, NEW s \in DOMAIN slots, NEW t \in DOMAIN slots,
                      slots[s] # EMPTY, slots[s] = slots[t], s # t
               PROVE  FALSE
    BY DEF StoredOnce
  <2>1. /\ SetTypeOK /\ slots[s] \in Addrs /\ Cap \in Nat
        /\ s \in 0 .. Cap - 1 /\ t \in 0 .. Cap - 1
    BY HomesInTable DEF SetInv, SetTypeOK, Cap
  <2>2. Home(slots[s]) \in 0 .. Cap - 1
    BY <2>1, HomeInTable
  <2>3. s \in Path(Home(slots[s]), t) \/ t \in Path(Home(slots[s]), s)
    BY <2>1, <2>2, PathOrder
  <2> QED BY <2>3 DEF SetInv, Reachable
<1> QED BY <1>1, SetInvariance, PTL

\* The table keeps the size it was built with and holds addresses only, and the
\* build never runs beyond the list.
THEOREM SetTypesHold == SetSpec => []SetTypeOK
<1>1. SetInv => SetTypeOK
  BY DEF SetInv
<1> QED BY <1>1, SetInvariance, PTL

-----------------------------------------------------------------------------
(* There is always a free slot: the table has more slots than the list has  *)
(* entries, and every entry takes at most one.                              *)

Taken == {s \in DOMAIN slots : slots[s] # EMPTY}

\* The unsigned n * 2 + 1 of ipset_build does not wrap (below 2^31 entries), and the
\* largest table can hold the list.
ListsFit == MaxLen * 2 + 1 < TwoTo[Width] /\ MaxLen < TwoTo[MaxBits]

LEMMA NeedDoesNotWrap == ListsFit => \A n \in 0 .. MaxLen : Need(n) = n * 2 + 1
<1> DEFINE W == TwoTo[Width]
<1> SUFFICES ASSUME MaxLen * 2 + 1 < W, NEW n \in 0 .. MaxLen PROVE (n * 2 + 1) % W = n * 2 + 1
  BY DEF ListsFit, Need
<1>1. W \in Nat /\ W > 0
  <2> DEFINE P == TwoTo
  <2>1. ArePowers(P, 2, Width) /\ Width \in Nat
    BY TwoToIs, SetOK
  <2> HIDE DEF P
  <2>2. P[Width] \in Nat /\ P[Width] > 0
    BY <2>1, PowerType
  <2> QED BY <2>2 DEF P
<1> HIDE DEF W
<1>2. n * 2 + 1 \in 0 .. W - 1
  BY <1>1, SetOK
<1> QED BY <1>1, <1>2

Roomy == Len(list) < Cap /\ IsFiniteSet(Taken) /\ Cardinality(Taken) =< i

\* The doubling loop does not stop before there is room for the whole list.
LEMMA InitRoomy == ListsFit /\ SetInit => Roomy
<1> SUFFICES ASSUME ListsFit, SetInit PROVE Roomy
  OBVIOUS
<1>1. PICK n \in 0 .. MaxLen : list \in [1 .. n -> Addrs \cup {EMPTY}]
  BY DEF SetInit
<1>2. n \in Nat /\ Len(list) = n /\ MaxLen \in Nat
  BY <1>1, SetOK
<1>3. bits \in LargeEnough(Need(n)) /\ Need(n) = n * 2 + 1
  BY <1>1, <1>2, NeedDoesNotWrap DEF SetInit, Sizes, Smallest
<1>4. bits \in MinBits .. MaxBits /\ Cap \in Nat
  BY <1>3, HomesInTable DEF LargeEnough, Cap
<1>5. Len(list) < Cap
  <2>1. CASE bits = MaxBits
    BY <1>1, <1>2, <1>4, <2>1 DEF ListsFit, Cap
  <2>2. CASE Cap >= n * 2 + 1
    BY <1>2, <1>4, <2>2
  <2> QED BY <1>3, <2>1, <2>2 DEF LargeEnough, Cap
<1>6. Taken = {} /\ i = 0
  BY DEF SetInit, Taken
<1> QED BY <1>5, <1>6, FS_EmptySet DEF Roomy

\* An entry of the list takes at most one slot.
LEMMA StepRoomy == SetTypeOK /\ Roomy /\ [SetNext]_setVars => Roomy'
<1> SUFFICES ASSUME SetTypeOK, Roomy, [SetNext]_setVars PROVE Roomy'
  OBVIOUS
<1>1. i \in Nat
  BY DEF SetTypeOK
<1>2. CASE UNCHANGED slots /\ UNCHANGED <<list, bits>> /\ i' \in Nat /\ i =< i'
  <2>1. Taken' = Taken /\ Cap' = Cap
    BY <1>2 DEF Taken, Cap
  <2>2. Cardinality(Taken) \in Nat
    BY FS_CardinalityType DEF Roomy
  <2> QED BY <1>1, <1>2, <2>1, <2>2 DEF Roomy
<1>3. CASE Insert /\ slots' # slots
  <2>1. PICK s \in DOMAIN slots : slots' = [slots EXCEPT ![s] = list[Entry(i) + 1]]
    BY <1>3 DEF Insert
  <2>2. Taken' \subseteq Taken \cup {s}
    BY <2>1 DEF Taken
  <2>3. /\ IsFiniteSet(Taken \cup {s})
        /\ Cardinality(Taken \cup {s}) =< Cardinality(Taken) + 1
        /\ Cardinality(Taken) \in Nat
    <3>1. IsFiniteSet(Taken)
      BY DEF Roomy
    <3>2. Cardinality(Taken) \in Nat
      BY <3>1, FS_CardinalityType
    <3>3. /\ IsFiniteSet(Taken \cup {s})
          /\ Cardinality(Taken \cup {s}) =
               IF s \in Taken THEN Cardinality(Taken) ELSE Cardinality(Taken) + 1
      BY <3>1, FS_AddElement
    <3> QED BY <3>2, <3>3
  <2>4. IsFiniteSet(Taken') /\ Cardinality(Taken') =< Cardinality(Taken \cup {s})
    BY <2>2, <2>3, FS_Subset
  <2>5. Cardinality(Taken') \in Nat /\ Cardinality(Taken \cup {s}) \in Nat
    BY <2>3, <2>4, FS_CardinalityType
  <2>6. i' = i + 1 /\ UNCHANGED list /\ Cap' = Cap
    BY <1>3 DEF Insert, Cap
  <2>7. Cardinality(Taken') =< i'
    BY <1>1, <2>3, <2>4, <2>5, <2>6 DEF Roomy
  <2> QED BY <2>4, <2>6, <2>7 DEF Roomy
<1>4. CASE Insert /\ slots' = slots
  BY <1>1, <1>2, <1>4 DEF Insert
<1>5. CASE UNCHANGED setVars
  BY <1>1, <1>2, <1>5 DEF setVars
<1> QED BY <1>3, <1>4, <1>5 DEF SetNext, BuiltOrStuck

\* Every probe of ipset_build and ipset_has ends, for every list short enough for
\* the arithmetic of ipset_build and every hash.
THEOREM ProbesMeetFreeSlots ==
  ASSUME ListsFit
  PROVE  SetSpec => []ProbesEnd
<1>1. SetTypeOK /\ Roomy => ProbesEnd
  <2> SUFFICES ASSUME SetTypeOK, Roomy, ~ProbesEnd PROVE FALSE
    OBVIOUS
  <2>1. Taken = 0 .. Cap - 1
    BY DEF SetTypeOK, Taken, ProbesEnd
  <2>2. Cap \in Nat \ {0}
    BY HomesInTable DEF SetTypeOK, Cap
  <2>3. Cardinality(Taken) = Cap
    BY <2>1, <2>2, FS_Interval
  <2> QED BY <2>2, <2>3 DEF SetTypeOK, Roomy
<1>2. SetInit => Roomy
  BY InitRoomy
<1>3. SetInv => SetTypeOK
  BY DEF SetInv
<1> QED BY <1>1, <1>2, <1>3, StepRoomy, SetInvariance, PTL DEF SetSpec

=============================================================================
