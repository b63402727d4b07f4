---------------------------- MODULE MCClassifier ----------------------------
(* Frames at the boundaries of every length test: whole headers of 20 and of *)
(* 24 bytes and an invalid one, no, some and all of the transport header     *)
(* captured, up to three tags, and fragments other than the first.           *)
EXTENDS Classifier

A == 1
B == 2
Arp == [version |-> 0, ihl |-> 4, proto |-> 0, sip |-> B, dip |-> B,
        sport |-> 53, dport |-> 53, flags |-> 0, doff |-> 0]
Ip(ihl, proto, sip, sport, dport, flags, doff) ==
  [version |-> 4, ihl |-> ihl, proto |-> proto, sip |-> sip, dip |-> A,
   sport |-> sport, dport |-> dport, flags |-> flags, doff |-> doff]

PortPairs == {<<9, 9>>, <<9, 53>>, <<80, 9>>, <<9, 443>>, <<80, 443>>}
Ips ==
  {Ip(ihl, TCP, sip, p[1], p[2], fl, doff) :
     ihl \in {20, 24}, sip \in {A, B}, p \in PortPairs,
     fl \in {SYN_ONLY, 24}, doff \in {16, 24}}
  \cup {Ip(ihl, proto, sip, p[1], p[2], 0, 0) :
          ihl \in {20, 24}, proto \in {1, UDP}, sip \in {A, B}, p \in PortPairs}
  \cup {Ip(16, TCP, sip, p[1], p[2], 24, 20) : sip \in {A, B}, p \in PortPairs}

\* Bytes captured from the start of the payload: whether 20, ihl + 4, ihl + 14
\* and more than ihl + doff bytes are there.
Lengths == {19, 20, 23, 24, 27, 28, 33, 34, 37, 38, 44, 45, 48, 49}

Frame(tags, l2, h, n) ==
  [tags |-> tags, ipv4 |-> h.version = 4, later |-> FALSE, ip |-> h, misread |-> Arp,
   len |-> l2 + 4 * Len(tags) + n]

TagStacks == {<<>>, <<0>>, <<6, 0>>, <<0, 0, 0>>}
\* Later fragments carry 24 or 4 bytes of data, or none.
LaterFragments ==
  {[Frame(t, 14, Ip(20, proto, sip, p[1], p[2], 24, 20), n) EXCEPT !.later = TRUE] :
     t \in {<<>>, <<0>>}, proto \in {TCP, UDP}, sip \in {A, B}, p \in PortPairs,
     n \in {20, 24, 44}}
EthernetFrames ==
  {Frame(t, 14, h, n) : t \in TagStacks, h \in Ips \cup {Arp}, n \in Lengths}
  \cup LaterFragments

Config(profile, l2, set, cutoff) ==
  [profile |-> profile, l2 |-> l2, set |-> set, cutoff |-> cutoff,
   dns |-> 53, dpi |-> {80}, tls |-> {443}]
Ethernet == {Config(p, 14, s, 1) : p \in {GENERIC, SECURITY}, s \in {{}, {A}, {B}}}
            \cup {Config(p, 14, {}, 0) : p \in {GENERIC, SECURITY}}
OneConfig == {Config(p, 14, {B}, 1) : p \in {GENERIC, SECURITY}}

\* Frames with a priority 2 tag, whose first byte is 0x4n: n * 4 is read as the
\* header length and the payload as addresses and ports.
Behind == Ip(20, TCP, B, 9, 9, 24, 20)
PriorityFrames ==
  {[Frame(t, 14, h, n) EXCEPT !.misread = Behind] :
     t \in {<<>>, <<0>>, <<4>>, <<0, 4>>}, h \in Ips, n \in {20, 40}}
Zeroes == {0, 1}

=============================================================================
