----------------------------- MODULE FilteredLoop -----------------------------
(***************************************************************************)
(* Calls of loop_filtered, one after the other on one Reader, in the       *)
(* generic profile (pcapobj.cc: p_loop_filtered, classify_generic,         *)
(* FilteredCallBack): the table of FlowTable and the address set behind    *)
(* it, either of which may fail to be allocated, the admit mask, the       *)
(* counters and the callback.                                              *)
(*                                                                         *)
(* came and got are history variables of the current call: the packets     *)
(* libpcap delivered and those the callback was given, by class.  The      *)
(* interpreter lock is in Reader, polling of the counters in               *)
(* FilteredStats, the bytes behind Watched and Others in Classifier.       *)
(***************************************************************************)
EXTENDS FlowTable, FiniteSets, Functions

CONSTANTS
  Flows,       \* directional 5-tuples
  KeyOf,       \* flow_key: the key of a flow
  Others,      \* packets without a flow: not IPv4, not TCP or UDP, or cut short
  Watched,     \* flows and other packets with an address of addr_set
  Masks,       \* values of admit_mask, as sets of classes
  Junk,        \* what the memory of a new Reader may hold
  MaxCame      \* bound: packets of a kind in a call

Traffic == Flows \cup Others
Classes == {"OTHER", "FLOW_HEAD", "SET_MATCH"}

\* Nothing is assumed of KeyOf: flow_key folds 104 bits into 64.  Its ports reach only
\* the half of the key that holds the source address, so that two flows of a protocol
\* to one destination share a key whenever their sources differ as their ports do.
ASSUME TrafficOK ==
  /\ KeyOf \in [Flows -> Keys] /\ IsFiniteSet(Keys)
  /\ Junk \subseteq Nat /\ Junk # {} /\ MaxCame \in Nat
  /\ Flows \cap Others = {} /\ IsFiniteSet(Traffic)
  /\ Watched \subseteq Traffic /\ Masks \subseteq SUBSET Classes

VARIABLES
  pc,          \* "idle", "loop" in pcap_loop, "broken" by a callback that raised
  mask,
  set, table,  \* whether there is an address set, a flow table
  counts,      \* pp->filt_counts
  result,      \* of the last call, NULL while one runs
  came, got
callVars == <<pc, mask, set, table, result>>
loopVars == <<vars, callVars, counts, came, got>>

NULL == [admitted |-> -1]
Zero == [c \in Classes \cup {"admitted", "dropped"} |-> 0]
NoneCame == [p \in Traffic |-> 0]
NoneGot == [p \in Traffic |-> [c \in Classes |-> 0]]

LoopInit ==
  /\ Init /\ pc = "idle" /\ mask = {} /\ set = FALSE /\ table = FALSE
  /\ counts \in [DOMAIN Zero -> Junk] /\ result = NULL /\ came = NoneCame /\ got = NoneGot

\* Mutant of Built: the table of the last call is used on.
BuiltOnce == UNCHANGED <<keys, cnt>>
\* flowtab_build: no slot is taken.
Built == keys' = [s \in Slots |-> ZeroKey] /\ cnt' = [s \in Slots |-> 0]

\* The call: the set and the table are built if they are asked for, and the loop
\* runs without the one for which there is no memory.
Call(m) ==
  /\ pc = "idle" /\ pc' = "loop" /\ mask' = m
  /\ set' \in BOOLEAN /\ table' \in BOOLEAN
  /\ Built
  /\ seen' = [k \in Keys |-> 0] /\ heads' = [k \in Keys |-> 0]
  /\ restarts' = [k \in Keys |-> 0]
  /\ counts' = Zero /\ came' = NoneCame /\ got' = NoneGot
  /\ result' = NULL

-----------------------------------------------------------------------------
(* FilteredCallBack.                                                       *)

Hit(p) == set /\ p \in Watched

\* Mutant of Looks: the flow is counted before the addresses are looked up.
LooksFirst(p) == table /\ p \in Flows
\* Whether the packet is counted in the flow table.
Looks(p) == ~Hit(p) /\ table /\ p \in Flows

ClassOf(p) ==
  CASE Hit(p) -> "SET_MATCH"
    [] ~Hit(p) /\ Looks(p) /\ IsHead(Before(KeyOf[p])) -> "FLOW_HEAD"
    [] OTHER -> "OTHER"

Admits(c) == c \in mask
Ticked(w) == [counts EXCEPT ![w] = @ + 1]

\* Mutant of Counted: only what is admitted is counted in its class.
CountedIfAdmitted(c) ==
  IF Admits(c) THEN [Ticked(c) EXCEPT !["admitted"] = @ + 1] ELSE Ticked("dropped")
Counted(c) == [Ticked(c) EXCEPT ![IF Admits(c) THEN "admitted" ELSE "dropped"] = @ + 1]

\* One packet; an admitted one goes to the callback, which may raise.
Take(p, raises) ==
  LET c == ClassOf(p) IN
  /\ pc = "loop" /\ came[p] < MaxCame
  /\ IF Looks(p) THEN Packet(KeyOf[p]) ELSE UNCHANGED vars
  /\ counts' = Counted(c)
  /\ came' = [came EXCEPT ![p] = @ + 1]
  /\ got' = IF Admits(c) THEN [got EXCEPT ![p][c] = @ + 1] ELSE got
  /\ raises => Admits(c)
  /\ pc' = IF raises THEN "broken" ELSE "loop"
  /\ UNCHANGED <<mask, set, table, result>>

\* The counters, unless a callback raised or libpcap met an error.
Return ==
  /\ pc # "idle" /\ pc' = "idle"
  /\ result' \in IF pc = "broken" THEN {NULL} ELSE {NULL, counts}
  /\ UNCHANGED <<vars, mask, set, table, counts, came, got>>

LoopNext ==
  \/ \E m \in Masks : Call(m)
  \/ \E p \in Traffic, raises \in BOOLEAN : Take(p, raises)
  \/ Return
LoopSpec == LoopInit /\ [][LoopNext]_loopVars

-----------------------------------------------------------------------------
\* Type invariant.
LoopTypeOK ==
  /\ TypeOK
  /\ pc \in {"idle", "loop", "broken"} /\ mask \in SUBSET Classes
  /\ set \in BOOLEAN /\ table \in BOOLEAN
  /\ counts \in [DOMAIN Zero -> Nat] /\ result \in {NULL} \cup [DOMAIN Zero -> Nat]
  /\ came \in [Traffic -> Nat] /\ got \in [Traffic -> [Classes -> Nat]]

\* The other flows of the key of f that are counted with it.
Twins(f) == {g \in Flows \ {f} : KeyOf[g] = KeyOf[f] /\ came[g] > 0 /\ ~Hit(g)}

\* README.md: flow_cutoff=N delivers the first N packets of each flow.  Whatever
\* earlier calls left, whichever flows and set hits came in between, and if the mask
\* admits heads: only another flow of the same key keeps one from the callback, or a
\* table that could not be allocated.
HeadsDelivered ==
  table /\ Admits("FLOW_HEAD") =>
    \A f \in Flows : ~Hit(f) /\ Twins(f) = {} =>
      got[f]["FLOW_HEAD"] >= Cutoff \/ got[f]["FLOW_HEAD"] >= came[f]

\* ... and no later packet of it, when no other flow came into its slot but flows
\* that hit the set: a hit evicts nobody.
SameSlot(f, g) == SlotOf[KeyOf[f]] = SlotOf[KeyOf[g]]
Undisturbed(f) == \A g \in Flows \ {f} : SameSlot(f, g) => came[g] = 0 \/ Hit(g)
HeadsOnlyFirst ==
  \A f \in Flows :
    Undisturbed(f) /\ came[f] < CntMod => got[f]["FLOW_HEAD"] =< Cutoff

\* README.md: the counts are independent of admit_mask.  The tuple of a call says of
\* all packets that came, dropped ones among them, and of no others, how many were
\* hits and how many were heads.
Total(f) == SumFunction(f)
ResultTellsTheTraffic ==
  pc = "idle" /\ result # NULL =>
    /\ result.admitted + result.dropped = Total(came)
    /\ result["SET_MATCH"] = Total([p \in {q \in Traffic : Hit(q)} |-> came[p]])
    /\ result["FLOW_HEAD"] = Total(heads)
    /\ result["OTHER"] = result.admitted + result.dropped - result["SET_MATCH"] - result["FLOW_HEAD"]
    /\ result.admitted = Total([p \in Traffic |-> Total(got[p])])

=============================================================================
