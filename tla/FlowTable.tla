------------------------------ MODULE FlowTable ------------------------------
(***************************************************************************)
(* The packet counter behind FLOW_HEAD (pcapobj.cc: mt_flowtab,            *)
(* flowtab_build, flow_seen, and the comparison with flow_cutoff in        *)
(* classify_generic and classify_refine).  The table knows keys, not       *)
(* flows: one slot holds one key, and another key takes the slot over and  *)
(* starts to count from zero.                                              *)
(*                                                                         *)
(* seen, heads and restarts are history variables: how often a key reached *)
(* the table, how many of its packets were classified as flow heads, and   *)
(* how often it was counted from zero.                                     *)
(***************************************************************************)
EXTENDS Integers

CONSTANTS
  Keys,       \* 64-bit keys
  Slots,      \* slots of the table
  SlotOf,     \* key & mask
  ZeroKey,    \* the key 0 that calloc leaves in every slot
  Cutoff,     \* flow_cutoff, a positive C int
  CntMod      \* 2^32, the range of the unsigned counters

\* Nothing is assumed of SlotOf.
ASSUME TableOK ==
  /\ SlotOf \in [Keys -> Slots]
  /\ ZeroKey \in Keys
  /\ Cutoff \in Nat \ {0} /\ CntMod \in Nat /\ Cutoff < CntMod

VARIABLES keys, cnt, seen, heads, restarts
vars == <<keys, cnt, seen, heads, restarts>>

Init ==
  /\ keys = [s \in Slots |-> ZeroKey]
  /\ cnt = [s \in Slots |-> 0]
  /\ seen = [k \in Keys |-> 0]
  /\ heads = [k \in Keys |-> 0]
  /\ restarts = [k \in Keys |-> 0]

Resident(k) == keys[SlotOf[k]] = k

\* Mutant: the counter is not reset for a new key.
BeforeWithoutReset(k) == cnt[SlotOf[k]]

\* flow_seen: the packets of this key counted before this one.
Before(k) == IF Resident(k) THEN cnt[SlotOf[k]] ELSE 0

AfterUnbounded(n) == n + 1     \* mutant: the counter has no width

\* cnt[slot]++ on an unsigned int.
After(n) == (n + 1) % CntMod

IsHeadUpToCutoff(n) == n =< Cutoff   \* mutant: off by one

\* The comparison with flow_cutoff.
IsHead(n) == n < Cutoff

\* One packet of key k reaches the table.
Packet(k) ==
  LET n == Before(k) IN
  /\ keys' = [keys EXCEPT ![SlotOf[k]] = k]
  /\ cnt' = [cnt EXCEPT ![SlotOf[k]] = After(n)]
  /\ seen' = [seen EXCEPT ![k] = @ + 1]
  /\ heads' = [heads EXCEPT ![k] = IF IsHead(n) THEN @ + 1 ELSE @]
  /\ restarts' = [restarts EXCEPT ![k] = IF n = 0 THEN @ + 1 ELSE @]

Next == \E k \in Keys : Packet(k)
Spec == Init /\ [][Next]_vars

-----------------------------------------------------------------------------
\* Type invariant: counters stay in the range of an unsigned int.
TypeOK ==
  /\ keys \in [Slots -> Keys]
  /\ cnt \in [Slots -> 0 .. CntMod - 1]
  /\ seen \in [Keys -> Nat] /\ heads \in [Keys -> Nat] /\ restarts \in [Keys -> Nat]

\* "Eviction can only make a flow look new again (an extra head), never hide one"
\* (README.md): of every key at least the first Cutoff packets were heads, whatever
\* shares its slot and however often the counter wrapped.
NeverHidesAHead == \A k \in Keys : heads[k] >= Cutoff \/ heads[k] >= seen[k]

\* Every extra head is paid for by a restart (an eviction or a wrapped counter): a
\* key that started over n times has at most Cutoff heads per start.
HeadsPerStart == \A k \in Keys : heads[k] =< Cutoff * restarts[k]

\* A key that shares its slot with no other key of the capture and did not wrap
\* its counter is cut off exactly: min(seen, Cutoff) heads.
Alone(k) == \A j \in Keys \ {k} : seen[j] > 0 => SlotOf[j] # SlotOf[k]
ExactWhenAlone ==
  \A k \in Keys : Alone(k) /\ seen[k] < CntMod
                  => heads[k] = (IF seen[k] < Cutoff THEN seen[k] ELSE Cutoff)

=============================================================================
