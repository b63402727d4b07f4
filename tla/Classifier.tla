----------------------------- MODULE Classifier -----------------------------
(***************************************************************************)
(* What class a captured packet gets (pcapobj.cc: locate_ipv4,             *)
(* classify_generic, mt_classify, classify_refine, classify_dispatch).     *)
(*                                                                         *)
(* A frame is the link header, a stack of VLAN tags, and a payload.  The   *)
(* code looks for the IPv4 header at three offsets, four bytes apart, and  *)
(* stops at the first one whose byte has the upper half 4.  It then reads  *)
(* header fields at that offset; whether the bytes there are an IPv4       *)
(* header is another matter, so a frame says what is read at the payload   *)
(* (`ip') and what is read when a tag is taken for a header (`misread').   *)
(* The code does not look at the fragment offset: of a fragment other than *)
(* the first (`later') it reads four bytes of data where ports would be.   *)
(***************************************************************************)
EXTENDS Integers, Sequences

CONSTANTS
  Frames,   \* [tags, ipv4, later, ip, misread, len]
  Configs,  \* [profile, l2, set, cutoff, dns, dpi, tls]
  Counts    \* bound: values flow_seen may return

NONE == -1
GENERIC == 0
SECURITY == 1
TCP == 6
UDP == 17
SYN_ONLY == 2
\* Class indexes of the generic and of the security profile.
UNMATCHED == 0
FLOW_HEAD == 1
SET_MATCH == 2
DNS == 0
HTTP == 1
NOISE == 2
ADDR == 3
HANDSHAKE == 4
SYN == 5

Headers == [version : 0 .. 15, ihl : Nat, proto : Nat, sip : Nat, dip : Nat,
            sport : Nat, dport : Nat, flags : Nat, doff : Nat]

ASSUME InputsOK ==
  /\ Counts \subseteq Nat
  /\ \A f \in Frames :
       /\ f.tags \in Seq(0 .. 15) /\ f.ipv4 \in BOOLEAN /\ f.later \in BOOLEAN /\ f.len \in Nat
       /\ f.ip \in Headers /\ f.misread \in Headers
  /\ \A c \in Configs :
       /\ c.profile \in {GENERIC, SECURITY} /\ c.l2 \in Nat /\ c.cutoff \in Nat

VARIABLES
  cfg,      \* the arguments of loop_filtered
  frame,    \* the packet
  seen,     \* what the flow table holds for its flow
  class,    \* its class index, NONE before it is classified
  counted   \* the packet was counted in the flow table
vars == <<cfg, frame, seen, class, counted>>

-----------------------------------------------------------------------------
(* locate_ipv4, and the same loop in mt_classify.                          *)

Offset(k) == cfg.l2 + 4 * k

\* Byte k of the search: the upper half of a tag's first byte is its priority.
Version(k) == IF k < Len(frame.tags) THEN frame.tags[k + 1] ELSE frame.ip.version

\* len >= l2 + 20, a whole minimal header
Fits(k) == frame.len >= Offset(k) + 20

\* The search goes past offset k: the two bytes before it are a tag's TPID.
SkipsOnce(k) == k = 0 /\ Version(k) # 4 /\ Offset(k) >= 2 /\ k < Len(frame.tags)  \* mutant
Skips(k) == Version(k) # 4 /\ Offset(k) >= 2 /\ k < Len(frame.tags)

Located == {k \in 0 .. 2 : Fits(k) /\ Version(k) = 4 /\ \A j \in 0 .. k - 1 : Skips(j)}

-----------------------------------------------------------------------------
(* What is read once a header is located at k.                             *)

Header(k) == IF k < Len(frame.tags) THEN frame.misread ELSE frame.ip
L4(k) == Offset(k) + Header(k).ihl
Ports(k) == {Header(k).sport, Header(k).dport}

\* ipset_has of either address
Hit(k) == {Header(k).sip, Header(k).dip} \cap cfg.set # {}

\* Mutant: the length test forgets that the header may have options.
HasPortsAnyLength(k) ==
  Header(k).proto \in {TCP, UDP} /\ Header(k).ihl >= 20 /\ frame.len >= Offset(k) + 24
\* TCP or UDP, with a valid header length and both ports captured
HasPorts(k) == Header(k).proto \in {TCP, UDP} /\ Header(k).ihl >= 20 /\ frame.len >= L4(k) + 4

HasFlags(k) == HasPorts(k) /\ Header(k).proto = TCP /\ frame.len >= L4(k) + 14

IsDns(k) == HasPorts(k) /\ cfg.dns \in Ports(k)
IsSyn(k) == HasFlags(k) /\ Header(k).flags = SYN_ONLY
IsHttpBare(k) == HasFlags(k) /\ Ports(k) \cap cfg.dpi # {}  \* mutant: no payload needed
\* Payload beyond a valid TCP header.
IsHttp(k) ==
  /\ HasFlags(k)
  /\ Header(k).doff >= 20 /\ frame.len > L4(k) + Header(k).doff
  /\ Ports(k) \cap cfg.dpi # {}
\* cand, and a TLS port: the flow is counted if the packet is noise.
IsTls(k) == HasPorts(k) /\ Ports(k) \cap cfg.tls # {}

\* classify_generic
GenericCountsFirst(k) == cfg.cutoff > 0 /\ HasPorts(k)  \* mutant: set looked up last
GenericCounts(k) == ~Hit(k) /\ cfg.cutoff > 0 /\ HasPorts(k)
GenericClass(k) ==
  IF Hit(k) THEN SET_MATCH
  ELSE IF GenericCounts(k) /\ seen < cfg.cutoff THEN FLOW_HEAD ELSE UNMATCHED

\* mt_classify, then classify_refine for what is noise so far
PlainClass(k) ==
  IF IsDns(k) THEN DNS ELSE IF IsSyn(k) THEN SYN ELSE IF IsHttp(k) THEN HTTP ELSE NOISE
SecurityCounts(k) == PlainClass(k) = NOISE /\ ~Hit(k) /\ cfg.cutoff > 0 /\ IsTls(k)
SecurityClass(k) ==
  IF PlainClass(k) # NOISE THEN PlainClass(k)
  ELSE IF Hit(k) THEN ADDR
  ELSE IF SecurityCounts(k) /\ seen < cfg.cutoff THEN HANDSHAKE ELSE NOISE

\* Mutant of ClassAt: the profile is ignored.
ClassAtSecurity(k) == SecurityClass(k)

\* classify_dispatch
ClassAt(k) == IF cfg.profile = SECURITY THEN SecurityClass(k) ELSE GenericClass(k)
CountsAt(k) == IF cfg.profile = SECURITY THEN SecurityCounts(k) ELSE GenericCounts(k)
Unlocated == IF cfg.profile = SECURITY THEN NOISE ELSE UNMATCHED

Init ==
  /\ cfg \in Configs /\ frame \in Frames /\ seen \in Counts
  /\ class = NONE /\ counted = FALSE

Classify ==
  /\ class = NONE
  /\ \/ Located = {} /\ class' = Unlocated /\ counted' = FALSE
     \/ \E k \in Located : class' = ClassAt(k) /\ counted' = CountsAt(k)
  /\ UNCHANGED <<cfg, frame, seen>>

Delivered == class # NONE /\ UNCHANGED vars

Next == Classify \/ Delivered
Spec == Init /\ [][Next]_vars

-----------------------------------------------------------------------------
(* The offsets of the bytes a classification reads, the last of each group. *)
Searched == {k \in 0 .. 2 : Fits(k) /\ \A j \in 0 .. k - 1 : Skips(j)}
ReadsAt(k) ==
  {Offset(k) + 19}
  \cup {x \in {L4(k) + 3} : HasPorts(k)}
  \cup {x \in {L4(k) + 13} : HasFlags(k) /\ cfg.profile = SECURITY}
Reads == {Offset(k) : k \in Searched} \cup UNION {ReadsAt(k) : k \in Located}

-----------------------------------------------------------------------------
(* What the documentation says of the frame itself, without the search.    *)

IsIPv4 ==
  /\ frame.ipv4 /\ Len(frame.tags) =< 2
  /\ frame.len >= cfg.l2 + 4 * Len(frame.tags) + 20
Transport == cfg.l2 + 4 * Len(frame.tags) + frame.ip.ihl
Rest == frame.len - Transport  \* bytes captured beyond the IP header
InSet == frame.ip.sip \in cfg.set \/ frame.ip.dip \in cfg.set
PortIs(P) == frame.ip.sport \in P \/ frame.ip.dport \in P
PortsInPlace == frame.ip.ihl >= 20 /\ frame.ip.proto \in {TCP, UDP} /\ Rest >= 4
\* A packet of a TCP or UDP conversation, "non-first fragments aren't matched".
Conversation == ~frame.later /\ PortsInPlace
\* What the code takes for one although README.md:181 says otherwise.
TakenForConversation == frame.later /\ PortsInPlace
EarlyInFlow == seen < cfg.cutoff

\* The frames whose bytes at the searched offsets show what they are: no tag with
\* a priority that reads as version 4, and version 4 in IPv4 payloads only.
PlainFrames ==
  \A f \in Frames :
    /\ f.ipv4 <=> f.ip.version = 4
    /\ \A j \in DOMAIN f.tags : f.tags[j] # 4
    /\ \A c \in Configs : f.tags # <<>> => c.l2 >= 2

-----------------------------------------------------------------------------
\* Type invariant: a class of the profile in use.
TypeOK ==
  /\ seen \in Counts /\ counted \in BOOLEAN
  /\ class \in {NONE} \cup (IF cfg.profile = SECURITY THEN 0 .. 5 ELSE 0 .. 2)

\* The generic classes mean what README.md says of them, whatever tags, options
\* or truncation the frame has, and SET_MATCH comes before FLOW_HEAD; but later
\* fragments are flow heads, too, which README.md:181 denies.
GenericMeaning ==
  cfg.profile = GENERIC /\ class # NONE =>
    /\ class = SET_MATCH <=> IsIPv4 /\ InSet
    /\ class = FLOW_HEAD <=> /\ IsIPv4 /\ ~InSet /\ EarlyInFlow
                             /\ Conversation \/ TakenForConversation

AsDns == IsIPv4 /\ Conversation /\ PortIs({cfg.dns})
AsSyn == IsIPv4 /\ Conversation /\ frame.ip.proto = TCP /\ Rest >= 14
         /\ frame.ip.flags = SYN_ONLY
AsHttp == IsIPv4 /\ Conversation /\ frame.ip.proto = TCP /\ PortIs(cfg.dpi)
          /\ frame.ip.doff >= 20 /\ Rest > frame.ip.doff

\* The same for the security profile, of frames that are no later fragments:
\* addresses and handshakes are looked for in what is neither DNS nor SYN nor HTTP.
SecurityMeaning ==
  cfg.profile = SECURITY /\ class # NONE /\ ~frame.later =>
    /\ class = DNS <=> AsDns
    /\ class = SYN <=> AsSyn /\ ~AsDns
    /\ class = HTTP <=> AsHttp /\ ~AsSyn /\ ~AsDns
    /\ class = ADDR <=> IsIPv4 /\ InSet /\ ~AsHttp /\ ~AsSyn /\ ~AsDns
    /\ class = HANDSHAKE <=> /\ IsIPv4 /\ Conversation /\ PortIs(cfg.tls) /\ EarlyInFlow
                             /\ ~InSet /\ ~AsHttp /\ ~AsSyn /\ ~AsDns

\* No byte beyond the captured ones decides a class, however short the capture
\* and whatever the two length fields of the headers say.
ReadsCaptured == \A r \in Reads : r < frame.len

\* A packet that is delivered for its addresses uses up no head of its flow, and
\* every packet delivered as a head does: the cutoff counts heads and only heads.
OnlyHeadsUseTheCutoff ==
  class # NONE =>
    LET head == IF cfg.profile = SECURITY THEN HANDSHAKE ELSE FLOW_HEAD
        rest == IF cfg.profile = SECURITY THEN NOISE ELSE UNMATCHED IN
    /\ counted => class \in {head, rest}
    /\ class = head => counted

\* README.md: "VLAN tags are skipped automatically".  A tag never makes another
\* header be read than the one behind it.
TagsAreSkipped ==
  frame.ipv4 => \A k \in Located : k = Len(frame.tags)

=============================================================================
