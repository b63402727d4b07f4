------------------------------- MODULE AddrSet -------------------------------
(***************************************************************************)
(* The address set behind SET_MATCH (pcapobj.cc: mt_ipset, ipset_build,    *)
(* ipset_slot, ipset_has): an open-addressing hash set that is filled once *)
(* from a packed list of IPv4 addresses and then only read.  The address   *)
(* 0.0.0.0 marks an empty slot and is never a member.                      *)
(***************************************************************************)
EXTENDS Integers, Sequences

CONSTANTS
  Addrs,      \* the addresses other than 0.0.0.0
  Products,   \* values of ip * 2654435761 on an unsigned int
  Width,      \* bits of an unsigned int: 32
  MinBits,    \* bits of the smallest table: 4
  MaxBits,    \* bits of the largest table: 31
  MaxLen      \* bound: addresses in the packed list

EMPTY == 0

\* 1 << b.
TwoTo[b \in 0 .. Width] == IF b = 0 THEN 1 ELSE 2 * TwoTo[b - 1]

ASSUME SetOK ==
  /\ EMPTY \notin Addrs
  /\ Width \in Nat /\ MinBits \in Nat /\ MaxBits \in Nat /\ MinBits =< MaxBits
  /\ MaxBits < Width /\ Width >= 2
  /\ Products \subseteq 0 .. TwoTo[Width] - 1
  /\ MaxLen \in Nat

VARIABLES
  list,     \* the packed list
  product,  \* the multiplied address, arbitrary for every address
  bits,     \* the table has TwoTo[bits] slots
  slots,
  i         \* turns of the loop that fills the table
setVars == <<list, product, bits, slots, i>>

Cap == TwoTo[bits]

\* n * 2 + 1 on an unsigned int.
Need(n) == (n * 2 + 1) % TwoTo[Width]

\* The bits of the tables with at least n slots, or of the largest table.
LargeEnough(n) == {b \in MinBits .. MaxBits : TwoTo[b] >= n \/ b = MaxBits}
Smallest(B) == {b \in B : \A c \in B : b =< c}

\* Mutants: room for the n addresses only; no limit on the doubling; no doubling.
SizesForExactly(n) == Smallest(LargeEnough(n))
SizesUnlimited(n) == Smallest({b \in MinBits .. Width : TwoTo[b] >= Need(n)})
SizesFixed(n) == {MinBits}

\* Where the doubling loop stops for n addresses (a set of one element).
Sizes(n) == Smallest(LargeEnough(Need(n)))

SetInit ==
  /\ list \in UNION {[1 .. n -> Addrs \cup {EMPTY}] : n \in 0 .. MaxLen}
  /\ product \in [Addrs -> Products]
  /\ bits \in Sizes(Len(list))
  /\ slots = [s \in 0 .. Cap - 1 |-> EMPTY]
  /\ i = 0

\* ipset_slot: the high bits of the product.
Home(ip) == product[ip] \div TwoTo[Width - bits]

\* The slots a probe from h passes before it looks at s: j = (j + 1) & mask.
Path(h, s) == IF h =< s THEN h .. s - 1 ELSE (h .. Cap - 1) \cup (0 .. s - 1)

\* Mutants: the probe for a free slot does not notice the address itself; it
\* takes any free slot.
StopsWhenFree(ip, s) ==
  slots[s] = EMPTY /\ \A x \in Path(Home(ip), s) : slots[x] # EMPTY
StopsAnywhere(ip, s) == slots[s] \in {EMPTY, ip}

\* The probe for ip ends at s: the first slot that is free or holds ip.
StopsAt(ip, s) ==
  /\ slots[s] \in {EMPTY, ip}
  /\ \A x \in Path(Home(ip), s) : slots[x] \notin {EMPTY, ip}

\* data + i * 4 on an unsigned int: the entry (from 0) that turn k of the loop reads.
Entry(k) == ((k * 4) % TwoTo[Width]) \div 4

\* One turn of the loop that fills the table.
Insert ==
  /\ i < Len(list)
  /\ LET ip == list[Entry(i) + 1] IN
       \/ ip = EMPTY /\ UNCHANGED slots
       \/ /\ ip # EMPTY
          /\ \E s \in DOMAIN slots : StopsAt(ip, s) /\ slots' = [slots EXCEPT ![s] = ip]
  /\ i' = i + 1
  /\ UNCHANGED <<list, product, bits>>

\* The build loop has a next entry, and its probe ends.
CanGoOn ==
  /\ i < Len(list)
  /\ LET ip == list[Entry(i) + 1] IN ip = EMPTY \/ \E s \in DOMAIN slots : StopsAt(ip, s)

\* The table is filled and only read from now on; or a probe goes round for ever.
BuiltOrStuck == ~CanGoOn /\ UNCHANGED setVars

SetNext == Insert \/ BuiltOrStuck
SetSpec == SetInit /\ [][SetNext]_setVars
FairSpec == SetSpec /\ WF_setVars(Insert)

\* ipset_has: the probe for ip ends at ip, not at a free slot.
Has(ip) ==
  /\ ip # EMPTY
  /\ \E s \in DOMAIN slots :
       /\ slots[s] = ip
       /\ \A x \in Path(Home(ip), s) : slots[x] \notin {EMPTY, ip}

-----------------------------------------------------------------------------
\* Type invariant: the table has as many slots as it was sized for.
SetTypeOK ==
  /\ list \in Seq(Addrs \cup {EMPTY})
  /\ product \in [Addrs -> Products]
  /\ bits \in MinBits .. MaxBits
  /\ slots \in [0 .. Cap - 1 -> Addrs \cup {EMPTY}]
  /\ i \in 0 .. Len(list)

\* The addresses among the entries passed so far.  Behind the first quarter of the
\* integers (2^30 entries) i * 4 wraps, and nothing new is read.
Reach == TwoTo[Width - 2]
Added == {list[k] : k \in {n \in 1 .. i : n =< Reach}} \ {EMPTY}

\* The set contains exactly the addresses entered so far: whatever the hash, no
\* probe misses a stored address and none finds another one.  Of a list of more than
\* 2^30 addresses the later ones never become members.
MembershipExact == \A ip \in Addrs \cup {EMPTY} : Has(ip) <=> ip \in Added

\* No address is stored twice: a repeated entry of the list takes no second slot.
StoredOnce ==
  \A s, t \in DOMAIN slots : slots[s] # EMPTY /\ slots[s] = slots[t] => s = t

\* There is always a free slot, so that the probe loops of ipset_build and
\* ipset_has end whatever address they look for.
ProbesEnd == \E s \in DOMAIN slots : slots[s] = EMPTY

\* Liveness: ipset_build returns.
BuildEnds == <>(i = Len(list))

=============================================================================
