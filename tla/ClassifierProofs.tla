-------------------------- MODULE ClassifierProofs --------------------------
(***************************************************************************)
(* Theorems about Classifier, for every set of frames and configurations.  *)
(***************************************************************************)
EXTENDS Classifier, TLAPS

\* The inputs are what they were chosen to be.
Inputs == cfg \in Configs /\ frame \in Frames /\ seen \in Counts

\* Everything the proofs use about the inputs.
LEMMA InputTypes ==
  ASSUME Inputs
  PROVE  /\ cfg.l2 \in Nat /\ cfg.profile \in {GENERIC, SECURITY}
         /\ frame.len \in Nat /\ frame.tags \in Seq(0 .. 15) /\ Len(frame.tags) \in Nat
         /\ \A k \in 0 .. 2 : Header(k) \in Headers /\ Offset(k) \in Nat
  <1>1. /\ cfg.l2 \in Nat /\ cfg.profile \in {GENERIC, SECURITY}
        /\ frame.len \in Nat /\ frame.tags \in Seq(0 .. 15)
        /\ frame.ip \in Headers /\ frame.misread \in Headers
    BY InputsOK DEF Inputs
  <1>2. Len(frame.tags) \in Nat
    BY <1>1
  <1>3. \A k \in 0 .. 2 : Header(k) \in Headers
    BY <1>1 DEF Header
  <1>4. \A k \in 0 .. 2 : Offset(k) \in Nat
    BY <1>1 DEF Offset
  <1> QED
    BY <1>1, <1>2, <1>3, <1>4

LEMMA InputsInvariant == Spec => []Inputs
  <1>1. Init => Inputs
    BY DEF Init, Inputs
  <1>2. Inputs /\ [Next]_vars => Inputs'
    BY DEF Inputs, Next, Classify, Delivered, vars
  <1> QED
    BY <1>1, <1>2, PTL DEF Spec

\* No byte beyond the captured ones is read, for every frame, link header size
\* and configuration (classify_dispatch).
LEMMA ReadsAreGuarded == ASSUME Inputs PROVE ReadsCaptured
  <1> SUFFICES ASSUME NEW r \in Reads PROVE r < frame.len
    BY DEF ReadsCaptured
  <1>1. /\ frame.len \in Nat
        /\ \A k \in 0 .. 2 : /\ Offset(k) \in Nat
                             /\ Header(k).ihl \in Nat /\ L4(k) \in Nat
    <2>1. frame.len \in Nat
      BY InputTypes
    <2>2. ASSUME NEW k \in 0 .. 2
          PROVE  Offset(k) \in Nat /\ Header(k).ihl \in Nat /\ L4(k) \in Nat
      <3>1. Offset(k) \in Nat /\ Header(k) \in Headers
        BY InputTypes
      <3>2. Header(k).ihl \in Nat
        BY <3>1 DEF Headers
      <3> QED
        BY <3>1, <3>2 DEF L4
    <2> QED
      BY <2>1, <2>2
  <1>2. CASE \E k \in 0 .. 2 : Fits(k) /\ r = Offset(k)
    BY <1>1, <1>2 DEF Fits
  <1>3. CASE \E k \in Located : r = Offset(k) + 19
    BY <1>1, <1>3 DEF Located, Fits
  <1>4. CASE \E k \in Located : HasPorts(k) /\ r = L4(k) + 3
    BY <1>1, <1>4 DEF Located, HasPorts
  <1>5. CASE \E k \in Located : HasFlags(k) /\ r = L4(k) + 13
    BY <1>1, <1>5 DEF Located, HasFlags
  <1>6. \/ \E k \in 0 .. 2 : Fits(k) /\ r = Offset(k)
        \/ \E k \in Located : \/ r = Offset(k) + 19
                              \/ HasPorts(k) /\ r = L4(k) + 3
                              \/ HasFlags(k) /\ r = L4(k) + 13
    <2>1. \/ \E k \in 0 .. 2 : Fits(k) /\ r = Offset(k)
          \/ \E k \in Located : r \in ReadsAt(k)
      BY DEF Reads, Searched
    <2> QED
      BY <2>1 DEF ReadsAt
  <1> QED
    BY <1>2, <1>3, <1>4, <1>5, <1>6

THEOREM ReadsStayInTheCapture == Spec => []ReadsCaptured
  <1>1. Inputs => ReadsCaptured
    BY ReadsAreGuarded
  <1> QED
    BY <1>1, InputsInvariant, PTL

-----------------------------------------------------------------------------
\* The cutoff of a flow counts its heads only, in both profiles.
LEMMA CountedAtIsHeadOrRest ==
  ASSUME NEW k
  PROVE  /\ GenericCounts(k) => GenericClass(k) \in {FLOW_HEAD, UNMATCHED}
         /\ GenericClass(k) = FLOW_HEAD => GenericCounts(k)
         /\ SecurityCounts(k) => SecurityClass(k) \in {HANDSHAKE, NOISE}
         /\ SecurityClass(k) = HANDSHAKE => SecurityCounts(k)
  BY DEF GenericCounts, GenericClass, SecurityCounts, SecurityClass, PlainClass,
         FLOW_HEAD, UNMATCHED, SET_MATCH, HANDSHAKE, NOISE, ADDR, DNS, SYN, HTTP

THEOREM HeadsAndOnlyHeadsUseTheCutoff == Spec => []OnlyHeadsUseTheCutoff
  <1>1. Init => OnlyHeadsUseTheCutoff
    BY DEF Init, OnlyHeadsUseTheCutoff
  <1>2. OnlyHeadsUseTheCutoff /\ [Next]_vars => OnlyHeadsUseTheCutoff'
    <2> SUFFICES ASSUME OnlyHeadsUseTheCutoff, [Next]_vars
                 PROVE  OnlyHeadsUseTheCutoff'
      OBVIOUS
    <2>1. CASE Classify /\ Located = {}
      BY <2>1 DEF Classify, OnlyHeadsUseTheCutoff, Unlocated, FLOW_HEAD, UNMATCHED,
                  HANDSHAKE, NOISE
    <2>2. ASSUME NEW k \in Located, class' = ClassAt(k), counted' = CountsAt(k), cfg' = cfg
          PROVE  OnlyHeadsUseTheCutoff'
      <3>1. CASE cfg.profile = SECURITY
        BY <2>2, <3>1, CountedAtIsHeadOrRest
           DEF OnlyHeadsUseTheCutoff, ClassAt, CountsAt
      <3>2. CASE cfg.profile # SECURITY
        BY <2>2, <3>2, CountedAtIsHeadOrRest
           DEF OnlyHeadsUseTheCutoff, ClassAt, CountsAt
      <3> QED
        BY <3>1, <3>2
    <2>3. CASE UNCHANGED vars
      BY <2>3 DEF vars, OnlyHeadsUseTheCutoff
    <2> QED
      BY <2>1, <2>2, <2>3 DEF Next, Classify, Delivered
  <1> QED
    BY <1>1, <1>2, PTL DEF Spec

-----------------------------------------------------------------------------
\* In plain frames the search finds the header behind the tags, if the frame is
\* an IPv4 packet with at most two tags and a whole header, and nothing else.
LEMMA SearchFindsTheHeader ==
  ASSUME PlainFrames, Inputs
  PROVE  Located = IF IsIPv4 THEN {Len(frame.tags)} ELSE {}
  <1> DEFINE n == Len(frame.tags)
  <1>1. /\ n \in Nat /\ cfg.l2 \in Nat /\ frame.len \in Nat
        /\ frame.ipv4 <=> frame.ip.version = 4
        /\ n > 0 => cfg.l2 >= 2
        /\ \A k \in 0 .. 2 : k < n => Version(k) # 4
    <2>1. n \in Nat /\ cfg.l2 \in Nat /\ frame.len \in Nat /\ frame.tags \in Seq(0 .. 15)
      BY InputTypes
    <2>2. frame.ipv4 <=> frame.ip.version = 4
      BY DEF PlainFrames, Inputs
    <2>3. n > 0 => cfg.l2 >= 2
      BY <2>1 DEF PlainFrames, Inputs
    <2>4. ASSUME NEW k \in 0 .. 2, k < n PROVE Version(k) # 4
      <3>1. k + 1 \in DOMAIN frame.tags
        BY <2>1, <2>4
      <3>2. \A j \in DOMAIN frame.tags : frame.tags[j] # 4
        BY DEF PlainFrames, Inputs
      <3> QED
        BY <2>4, <3>1, <3>2 DEF Version
    <2> QED
      BY <2>1, <2>2, <2>3, <2>4
  <1> HIDE DEF n
  <1>2. ASSUME NEW k \in Located PROVE k = n /\ IsIPv4
    <2>1. k \in 0 .. 2 /\ Fits(k) /\ Version(k) = 4 /\ \A j \in 0 .. k - 1 : j < n
      BY <1>2 DEF Located, Skips, n
    <2>2. ~ k < n
      BY <1>1, <2>1
    <2>3. k = n
      <3>1. CASE k > 0
        <4>1. k - 1 \in 0 .. k - 1
          BY <2>1, <3>1
        <4> QED
          BY <1>1, <2>1, <2>2, <4>1
      <3>2. CASE k = 0
        BY <1>1, <2>2, <3>2
      <3> QED
        BY <2>1, <3>1, <3>2
    <2> QED
      BY <1>1, <2>1, <2>3 DEF IsIPv4, Fits, Offset, Version, n
  <1>3. ASSUME IsIPv4 PROVE n \in Located
    <2>0. n =< 2 /\ frame.len >= cfg.l2 + 4 * n + 20
      BY <1>3 DEF IsIPv4, n
    <2>1. n \in 0 .. 2 /\ Fits(n)
      BY <1>1, <2>0 DEF Fits, Offset
    <2>2. Version(n) = 4
      BY <1>1, <1>3 DEF IsIPv4, Version, n
    <2>3. ASSUME NEW j \in 0 .. n - 1 PROVE Skips(j)
      <3>1. j \in 0 .. 2 /\ j < n
        BY <1>1, <2>1
      <3>2. Offset(j) >= 2
        BY <1>1, <3>1 DEF Offset
      <3> QED
        BY <1>1, <3>1, <3>2 DEF Skips, n
    <2> QED
      BY <2>1, <2>2, <2>3 DEF Located
  <1> QED
    BY <1>2, <1>3 DEF n

\* At the header behind the tags, the fields are those of the frame.
LEMMA HeaderFields ==
  ASSUME Inputs, NEW k, k = Len(frame.tags)
  PROVE  /\ Header(k) = frame.ip
         /\ Hit(k) <=> InSet
         /\ Ports(k) = {frame.ip.sport, frame.ip.dport}
         /\ HasPorts(k) <=> PortsInPlace
         /\ L4(k) = Transport
  <1>1. k \in Nat /\ Header(k) = frame.ip
    BY InputTypes DEF Header
  <1>2. L4(k) = Transport
    BY <1>1 DEF L4, Transport, Offset
  <1>3. frame.len \in Nat /\ Transport \in Nat
    <2>1. frame.ip \in Headers
      BY InputsOK DEF Inputs
    <2>2. frame.ip.ihl \in Nat
      BY <2>1 DEF Headers
    <2>3. cfg.l2 \in Nat /\ frame.len \in Nat /\ Len(frame.tags) \in Nat
      BY InputTypes
    <2> DEFINE n == Len(frame.tags)
    <2>4. n \in Nat /\ Transport = cfg.l2 + 4 * n + frame.ip.ihl
      BY <2>3 DEF Transport
    <2> HIDE DEF n
    <2> QED
      BY <2>2, <2>3, <2>4
  <1>4. HasPorts(k) <=> PortsInPlace
    BY <1>1, <1>2, <1>3 DEF HasPorts, PortsInPlace, Rest
  <1>5. Hit(k) <=> InSet
    BY <1>1 DEF Hit, InSet
  <1> QED
    BY <1>1, <1>2, <1>4, <1>5 DEF Ports

\* The generic classes mean what the documentation says, for every plain frame, but
\* for later fragments, which are heads if what follows their header is long enough
\* (classify_generic).
THEOREM GenericClassesMeanWhatTheySay ==
  ASSUME PlainFrames PROVE Spec => []GenericMeaning
  <1>1. Init => GenericMeaning
    BY DEF Init, GenericMeaning
  <1>2. Inputs /\ GenericMeaning /\ [Next]_vars => GenericMeaning'
    <2> SUFFICES ASSUME Inputs, GenericMeaning, [Next]_vars PROVE GenericMeaning'
      OBVIOUS
    <2>1. CASE UNCHANGED vars
      BY <2>1 DEF vars, GenericMeaning, IsIPv4, InSet, Conversation, TakenForConversation,
                  PortsInPlace, Rest, Transport, EarlyInFlow
    <2>2. CASE Classify
      <3> SUFFICES ASSUME cfg.profile = GENERIC
                   PROVE  /\ class' = SET_MATCH <=> IsIPv4 /\ InSet
                          /\ class' = FLOW_HEAD <=>
                               IsIPv4 /\ ~InSet /\ PortsInPlace /\ EarlyInFlow
        BY <2>2, InputsOK
           DEF Inputs, Classify, GenericMeaning, IsIPv4, InSet, Conversation,
               TakenForConversation, PortsInPlace, Rest, Transport, EarlyInFlow
      <3>1. CASE ~IsIPv4
        <4>1. Located = {}
          BY <3>1, SearchFindsTheHeader
        <4>2. class' = UNMATCHED
          BY <2>2, <4>1 DEF Classify, Unlocated, GENERIC, SECURITY
        <4> QED
          BY <3>1, <4>2 DEF UNMATCHED, SET_MATCH, FLOW_HEAD
      <3>2. CASE IsIPv4
        <4> DEFINE n == Len(frame.tags)
        <4>1. Located = {n}
          BY <3>2, SearchFindsTheHeader
        <4>2. class' = GenericClass(n)
          BY <2>2, <4>1 DEF Classify, ClassAt, GENERIC, SECURITY
        <4>3. /\ Hit(n) <=> InSet
              /\ HasPorts(n) <=> PortsInPlace
          BY HeaderFields
        <4>4. cfg.cutoff \in Nat /\ seen \in Nat
          BY InputsOK DEF Inputs
        <4>5. GenericCounts(n) /\ seen < cfg.cutoff <=> ~InSet /\ PortsInPlace /\ EarlyInFlow
          BY <4>3, <4>4 DEF GenericCounts, EarlyInFlow
        <4> QED
          BY <3>2, <4>2, <4>3, <4>5
             DEF GenericClass, SET_MATCH, FLOW_HEAD, UNMATCHED
      <3> QED
        BY <3>1, <3>2
    <2> QED
      BY <2>1, <2>2 DEF Next, Delivered
  <1> QED
    BY <1>1, <1>2, InputsInvariant, PTL DEF Spec

\* At the header behind the tags, mt_classify's tests are the documented ones, if the
\* packet is no later fragment.
LEMMA SecurityTests ==
  ASSUME Inputs, IsIPv4, ~frame.later, NEW k, k = Len(frame.tags)
  PROVE  /\ IsDns(k) <=> AsDns
         /\ IsSyn(k) <=> AsSyn
         /\ IsHttp(k) <=> AsHttp
         /\ SecurityCounts(k) <=> /\ PlainClass(k) = NOISE /\ ~InSet /\ cfg.cutoff > 0
                                  /\ Conversation /\ PortIs(cfg.tls)
  <1>1. /\ Header(k) = frame.ip
        /\ Ports(k) = {frame.ip.sport, frame.ip.dport}
        /\ L4(k) = Transport
        /\ Hit(k) <=> InSet
        /\ HasPorts(k) <=> Conversation
    BY HeaderFields DEF Conversation
  <1>2. /\ frame.len \in Nat /\ Transport \in Int /\ frame.ip.doff \in Nat
        /\ Rest = frame.len - Transport
    <2>1. frame.ip \in Headers
      BY InputsOK DEF Inputs
    <2>2. frame.ip.doff \in Nat /\ frame.ip.ihl \in Nat
      BY <2>1 DEF Headers
    <2>3. cfg.l2 \in Nat /\ frame.len \in Nat /\ Len(frame.tags) \in Nat
      BY InputTypes
    <2> DEFINE n == Len(frame.tags)
    <2>4. n \in Nat /\ Transport = cfg.l2 + 4 * n + frame.ip.ihl
      BY <2>3 DEF Transport
    <2> HIDE DEF n
    <2>5. Transport \in Int
      BY <2>2, <2>3, <2>4
    <2> QED
      BY <2>2, <2>3, <2>5 DEF Rest
  <1>3. /\ frame.len >= Transport + 14 <=> Rest >= 14
        /\ frame.len > Transport + frame.ip.doff <=> Rest > frame.ip.doff
        /\ frame.ip.doff >= 20 /\ Rest > frame.ip.doff => Rest >= 14
    BY <1>2
  <1>4. IsDns(k) <=> AsDns
    BY <1>1 DEF IsDns, AsDns, PortIs
  <1>5. IsSyn(k) <=> AsSyn
    BY <1>1, <1>3 DEF IsSyn, AsSyn, HasFlags
  <1>6. IsHttp(k) <=> AsHttp
    BY <1>1, <1>3 DEF IsHttp, AsHttp, HasFlags, PortIs
  <1>7. SecurityCounts(k) <=> /\ PlainClass(k) = NOISE /\ ~InSet /\ cfg.cutoff > 0
                              /\ Conversation /\ PortIs(cfg.tls)
    BY <1>1 DEF SecurityCounts, IsTls, PortIs
  <1> QED
    BY <1>4, <1>5, <1>6, <1>7

\* The same for the classes of the security profile (mt_classify, classify_refine).
THEOREM SecurityClassesMeanWhatTheySay ==
  ASSUME PlainFrames PROVE Spec => []SecurityMeaning
  <1>1. Init => SecurityMeaning
    BY DEF Init, SecurityMeaning
  <1>2. Inputs /\ SecurityMeaning /\ [Next]_vars => SecurityMeaning'
    <2> SUFFICES ASSUME Inputs, SecurityMeaning, [Next]_vars PROVE SecurityMeaning'
      OBVIOUS
    <2> USE DEF AsDns, AsSyn, AsHttp, IsIPv4, InSet, Conversation, PortsInPlace, Rest,
                Transport, EarlyInFlow, PortIs
    <2>1. CASE UNCHANGED vars
      BY <2>1 DEF vars, SecurityMeaning
    <2>2. CASE Classify
      <3>1. /\ cfg' = cfg /\ frame' = frame /\ seen' = seen
            /\ AsDns' = AsDns /\ AsSyn' = AsSyn /\ AsHttp' = AsHttp
            /\ IsIPv4' = IsIPv4 /\ InSet' = InSet /\ Conversation' = Conversation
            /\ EarlyInFlow' = EarlyInFlow /\ PortIs(cfg.tls)' = PortIs(cfg.tls)
        BY <2>2 DEF Classify
      <3> USE DEF DNS, SYN, HTTP, NOISE, ADDR, HANDSHAKE
      <3>2. CASE cfg.profile # SECURITY \/ frame.later
        BY <3>1, <3>2 DEF SecurityMeaning
      <3>3. CASE cfg.profile = SECURITY /\ ~frame.later /\ ~IsIPv4
        <4>1. Located = {}
          BY <3>3, SearchFindsTheHeader
        <4>2. class' = NOISE
          BY <2>2, <3>3, <4>1 DEF Classify, Unlocated
        <4>3. ~AsDns /\ ~AsSyn /\ ~AsHttp
          BY <3>3
        <4> HIDE DEF AsDns, AsSyn, AsHttp, IsIPv4, InSet, Conversation, PortsInPlace, Rest,
                     Transport, EarlyInFlow, PortIs
        <4> QED
          BY <3>1, <3>3, <4>2, <4>3 DEF SecurityMeaning
      <3>4. CASE cfg.profile = SECURITY /\ ~frame.later /\ IsIPv4
        <4> HIDE DEF AsDns, AsSyn, AsHttp, IsIPv4, InSet, Conversation, PortsInPlace, Rest,
                     Transport, EarlyInFlow, PortIs
        <4> DEFINE n == Len(frame.tags)
        <4>1. Located = {n}
          BY <3>4, SearchFindsTheHeader
        <4>2. class' = SecurityClass(n)
          BY <2>2, <3>4, <4>1 DEF Classify, ClassAt
        <4>3. /\ Hit(n) <=> InSet
              /\ IsDns(n) <=> AsDns
              /\ IsSyn(n) <=> AsSyn
              /\ IsHttp(n) <=> AsHttp
              /\ SecurityCounts(n) <=> /\ PlainClass(n) = NOISE /\ ~InSet /\ cfg.cutoff > 0
                                       /\ Conversation /\ PortIs(cfg.tls)
          BY <3>4, HeaderFields, SecurityTests
        <4>4. seen < cfg.cutoff <=> EarlyInFlow
          BY DEF EarlyInFlow
        <4>5. EarlyInFlow => cfg.cutoff > 0
          BY InputsOK DEF Inputs, EarlyInFlow
        <4> QED
          BY <3>1, <3>4, <4>2, <4>3, <4>4, <4>5
             DEF SecurityMeaning, SecurityClass, PlainClass
      <3> QED
        BY <3>2, <3>3, <3>4
    <2> QED
      BY <2>1, <2>2 DEF Next, Delivered
  <1> QED
    BY <1>1, <1>2, InputsInvariant, PTL DEF Spec

-----------------------------------------------------------------------------
\* FilteredCallBack uses the class as an index: in both profiles it is one of
\* filt_counts and of admit_mask.
THEOREM ClassesAreIndexes == Spec => []TypeOK
  <1>1. Init => TypeOK
    BY DEF Init, TypeOK
  <1>2. TypeOK /\ [Next]_vars => TypeOK'
    <2> SUFFICES ASSUME TypeOK, [Next]_vars PROVE TypeOK'
      OBVIOUS
    <2> USE DEF DNS, SYN, HTTP, ADDR, HANDSHAKE, NOISE, UNMATCHED, FLOW_HEAD, SET_MATCH, NONE
    <2>1. CASE Classify /\ Located = {} /\ class' = Unlocated /\ counted' = FALSE
      <3>1. seen' \in Counts /\ cfg' = cfg /\ counted' \in BOOLEAN
        BY <2>1 DEF Classify, TypeOK
      <3>2. class' \in IF cfg.profile = SECURITY THEN 0 .. 5 ELSE 0 .. 2
        BY <2>1 DEF Unlocated
      <3> QED BY <3>1, <3>2 DEF TypeOK
    <2>2. ASSUME NEW k \in Located, Classify, class' = ClassAt(k), counted' = CountsAt(k)
          PROVE  TypeOK'
      <3>1. seen' \in Counts /\ cfg' = cfg
        BY <2>2 DEF Classify, TypeOK
      <3>2. counted' \in BOOLEAN
        BY <2>2 DEF CountsAt, SecurityCounts, GenericCounts
      <3>3. class' \in IF cfg.profile = SECURITY THEN 0 .. 5 ELSE 0 .. 2
        BY <2>2 DEF ClassAt, SecurityClass, GenericClass, PlainClass
      <3>4. class' \in {NONE} \cup (IF cfg'.profile = SECURITY THEN 0 .. 5 ELSE 0 .. 2)
        BY <3>1, <3>3
      <3> QED BY <3>1, <3>2, <3>4 DEF TypeOK
    <2>3. CASE UNCHANGED vars
      BY <2>3 DEF TypeOK, vars
    <2> QED BY <2>1, <2>2, <2>3 DEF Next, Classify, Delivered
  <1> QED
    BY <1>1, <1>2, PTL DEF Spec

=============================================================================
