---------------------------- MODULE HandlesProofs ----------------------------
(***************************************************************************)
(* Theorems about Handles, for any objects and resources.                  *)
(***************************************************************************)
EXTENDS Handles, TLAPS

\* A program object always has its program: nothing but its end releases it.
ProgramsAreThere == \A o \in Objects : type[o] = "BPFProgram" => ptr[o] # NULL

\* As long as no Reader is closed while running, a running one is open, and libpcap
\* works on its handle.
CapturesKeepTheirHandle ==
  ~closedInUse =>
    \A o \in Objects : running[o] # "none" => ptr[o] # NULL /\ (o \in reading \/ given[o] = ptr[o])

Inv == /\ TypeOK /\ PointersAreLive /\ ProgramsAreThere /\ CapturesKeepTheirHandle
       /\ MisusesAreKnown /\ NothingElseLeaks

\* At the start there are neither objects nor resources.
LEMMA InitInv == Init => Inv
  BY NullIsNoResource
     DEF Init, Inv, TypeOK, PointersAreLive, ProgramsAreThere, CapturesKeepTheirHandle,
         MisusesAreKnown, NothingElseLeaks

\* What an object points to is open, so that libpcap may be given it.
LEMMA GivesOpen ==
  ASSUME Inv, NEW o \in Objects, ptr[o] # NULL, NEW caller, Gives(native, ptr[o], caller)
  PROVE  misuses' = misuses
  BY DEF Inv, PointersAreLive, Gives

\* A new resource is nobody's yet; it gets an owner or is dropped.
LEMMA NewResource ==
  ASSUME Inv, NEW o \in Objects, NEW n \in Resources, NEW t \in {"Reader", "Dumper", "BPFProgram"},
         native[n] = "unused",
         native' \in [Resources -> {"unused", "created", "open", "freed"}], native'[n] \in {"created", "open"},
         \A m \in Resources \ {n} : native'[m] = native[m] \/ (native[m] = "unused" /\ native'[m] = "freed"),
         Wraps(o, t, n), UNCHANGED <<calls, misuses>>
  PROVE  Inv'
  <1>1. \A p \in Objects : ptr[p] # n /\ (ptr[p] # NULL => Alive(native', ptr[p]))
    BY NullIsNoResource DEF Inv, TypeOK, PointersAreLive, Alive
  <1>2. n # NULL
    BY NullIsNoResource
  <1>3. CASE /\ type[o] = "none" /\ type' = [type EXCEPT ![o] = t]
             /\ ptr' = [ptr EXCEPT ![o] = n] /\ dropped' = dropped
    <2>1. /\ type'[o] = t /\ ptr'[o] = n /\ ptr[o] = NULL
          /\ \A p \in Objects \ {o} : type'[p] = type[p] /\ ptr'[p] = ptr[p]
      BY <1>3 DEF Inv, TypeOK
    <2>2. TypeOK'
      <3>1. /\ type' \in [Objects -> {"none", "Reader", "Dumper", "BPFProgram"}]
            /\ ptr' \in [Objects -> Resources \cup {NULL}]
        BY <1>3 DEF Inv, TypeOK
      <3>2. \A p \in Objects : type'[p] = "none" => ptr'[p] = NULL
        BY <2>1 DEF Inv, TypeOK
      <3>3. \A p \in Objects : running'[p] # "none" => type'[p] = "Reader"
        BY <1>3, <2>1 DEF Inv, TypeOK, calls
      <3> QED
        BY <1>3, <3>1, <3>2, <3>3 DEF Inv, TypeOK, calls
    <2>3. PointersAreLive'
      BY <1>1, <2>1 DEF Inv, PointersAreLive, Alive
    <2>4. ProgramsAreThere'
      BY <1>2, <2>1 DEF Inv, ProgramsAreThere
    <2>5. NothingElseLeaks'
      <3> SUFFICES ASSUME NEW m \in Resources, native'[m] \in {"created", "open"}
                   PROVE  m \in dropped' \/ \E p \in Objects : ptr'[p] = m
        BY DEF NothingElseLeaks
      <3>1. CASE m = n
        BY <2>1, <3>1
      <3>2. CASE m # n
        <4>1. m \in dropped \/ \E p \in Objects : ptr[p] = m
          BY <3>2 DEF Inv, NothingElseLeaks
        <4> QED
          BY <1>3, <2>1, <4>1, NullIsNoResource
      <3> QED
        BY <3>1, <3>2
    <2>6. CapturesKeepTheirHandle'
      BY <1>3, <2>1 DEF Inv, TypeOK, CapturesKeepTheirHandle, calls
    <2> QED
      BY <2>2, <2>3, <2>4, <2>5, <2>6 DEF Inv, MisusesAreKnown, calls
  <1>4. CASE dropped' = dropped \cup {n} /\ type' = type /\ ptr' = ptr
    <2>1. TypeOK' /\ ProgramsAreThere'
      BY <1>4 DEF Inv, TypeOK, ProgramsAreThere, calls
    <2>2. PointersAreLive'
      BY <1>1, <1>4 DEF Inv, PointersAreLive
    <2>3. NothingElseLeaks'
      BY <1>4 DEF Inv, NothingElseLeaks
    <2>4. CapturesKeepTheirHandle' /\ MisusesAreKnown'
      BY <1>4 DEF Inv, CapturesKeepTheirHandle, MisusesAreKnown, calls
    <2> QED
      BY <2>1, <2>2, <2>3, <2>4 DEF Inv
  <1> QED
    BY <1>3, <1>4 DEF Wraps

\* A single new resource.
LEMMA AllocatesOne ==
  ASSUME Inv, NEW n \in Resources, NEW state \in {"created", "open"}, Allocates(n, state)
  PROVE  /\ native[n] = "unused" /\ native'[n] = state
         /\ native' \in [Resources -> {"unused", "created", "open", "freed"}]
         /\ \A m \in Resources \ {n} : native'[m] = native[m]
  BY DEF Allocates, Inv, TypeOK

\* compile: the throwaway handle is freed in any case.
LEMMA CompileInv ==
  ASSUME Inv, NEW o \in Objects, NEW h \in Resources, NEW n \in Resources, Compile(o, h, n)
  PROVE  Inv'
  <1>1. native[h] = "unused" /\ native[n] = "unused" /\ h # n /\ calls' = calls
    BY DEF Compile
  <1>2. CASE /\ native' = [native EXCEPT ![h] = "freed", ![n] = "open"]
             /\ Wraps(o, "BPFProgram", n) /\ misuses' = misuses
    <2>1. /\ native' \in [Resources -> {"unused", "created", "open", "freed"}] /\ native'[n] = "open"
          /\ \A m \in Resources \ {n} :
               native'[m] = native[m] \/ (native[m] = "unused" /\ native'[m] = "freed")
      BY <1>1, <1>2 DEF Inv, TypeOK
    <2> QED
      BY <1>1, <1>2, <2>1, NewResource
  <1>3. CASE /\ native' = [native EXCEPT ![h] = "freed"] /\ Gives(native', h, "compile")
             /\ type' = type /\ ptr' = ptr /\ dropped' = dropped
    <2>1. /\ native' \in [Resources -> {"unused", "created", "open", "freed"}] /\ native'[h] = "freed"
          /\ \A m \in Resources \ {h} : native'[m] = native[m]
      BY <1>3 DEF Inv, TypeOK
    <2>2. \A p \in Objects : ptr[p] # h
      BY <1>1, NullIsNoResource DEF Inv, PointersAreLive, Alive
    <2>3. MisusesAreKnown'
      BY <1>1, <1>3 DEF Inv, MisusesAreKnown, Gives, calls
    <2>4. TypeOK' /\ ProgramsAreThere' /\ CapturesKeepTheirHandle'
      BY <1>1, <1>3, <2>1 DEF Inv, TypeOK, ProgramsAreThere, CapturesKeepTheirHandle, calls
    <2>5. PointersAreLive' /\ NothingElseLeaks'
      BY <1>3, <2>1, <2>2 DEF Inv, TypeOK, PointersAreLive, NothingElseLeaks, Alive
    <2> QED
      BY <2>3, <2>4, <2>5 DEF Inv
  <1> QED
    BY <1>2, <1>3 DEF Compile

\* setfilter keeps no pointer to its program.
LEMMA SetFilterInv ==
  ASSUME Inv, NEW o \in Objects, NEW n \in Resources, SetFilter(o, n)
  PROVE  Inv'
  <1>1. misuses' = misuses
    BY GivesOpen DEF SetFilter, IsOpen
  <1>2. type' = type /\ ptr' = ptr /\ UNCHANGED calls /\ dropped' = dropped \cup {n}
    BY DEF SetFilter
  <1>3. /\ native[n] = "unused" /\ native' \in [Resources -> {"unused", "created", "open", "freed"}]
        /\ \A m \in Resources \ {n} : native'[m] = native[m]
    BY AllocatesOne DEF SetFilter
  <1>4. TypeOK' /\ ProgramsAreThere' /\ MisusesAreKnown' /\ CapturesKeepTheirHandle'
    BY <1>1, <1>2, <1>3 DEF Inv, TypeOK, ProgramsAreThere, MisusesAreKnown, CapturesKeepTheirHandle, calls
  <1>5. PointersAreLive'
    BY <1>2, <1>3 DEF Inv, TypeOK, PointersAreLive, Alive
  <1>6. NothingElseLeaks'
    BY <1>2, <1>3 DEF Inv, NothingElseLeaks
  <1> QED
    BY <1>4, <1>5, <1>6 DEF Inv

\* A close frees what the object points to, which is nobody else's.
LEMMA ReleaseInv ==
  ASSUME Inv, NEW o \in Objects, Release(o), ptr' = [ptr EXCEPT ![o] = NULL],
         \/ /\ type' = type /\ type[o] \in {"Reader", "Dumper"}
            /\ closedInUse' = (closedInUse \/ running[o] # "none")
         \/ type' = [type EXCEPT ![o] = "none"] /\ running[o] = "none" /\ closedInUse' = closedInUse,
         UNCHANGED <<running, reading, given, dropped>>
  PROVE  Inv'
  <1>1. misuses' = misuses
    BY GivesOpen DEF Release
  <1>2. /\ native' \in [Resources -> {"unused", "created", "open", "freed"}]
        /\ \A m \in Resources : IF m = ptr[o] THEN native'[m] = "freed" ELSE native'[m] = native[m]
    BY NullIsNoResource DEF Release, Inv, TypeOK
  <1>3. ptr'[o] = NULL /\ \A p \in Objects \ {o} : ptr'[p] = ptr[p]
    BY DEF Inv, TypeOK
  <1>4. /\ type' \in [Objects -> {"none", "Reader", "Dumper", "BPFProgram"}]
        /\ type'[o] # "BPFProgram" /\ \A p \in Objects \ {o} : type'[p] = type[p]
        /\ running[o] # "none" => type'[o] = type[o]
        /\ closedInUse' \in BOOLEAN /\ closedInUse => closedInUse'
        /\ running[o] # "none" => closedInUse'
    BY DEF Inv, TypeOK
  <1>5. TypeOK'
    <2>1. ptr' \in [Objects -> Resources \cup {NULL}]
      BY DEF Inv, TypeOK
    <2>2. \A p \in Objects : type'[p] = "none" => ptr'[p] = NULL
      BY <1>3, <1>4 DEF Inv, TypeOK
    <2>3. \A p \in Objects : running'[p] # "none" => type'[p] = "Reader"
      BY <1>4 DEF Inv, TypeOK
    <2> QED
      BY <1>2, <1>4, <2>1, <2>2, <2>3 DEF Inv, TypeOK
  <1>6. PointersAreLive'
    BY <1>2, <1>3 DEF Inv, TypeOK, PointersAreLive, Alive
  <1>7. ProgramsAreThere' /\ MisusesAreKnown' /\ CapturesKeepTheirHandle'
    BY <1>1, <1>3, <1>4 DEF Inv, ProgramsAreThere, MisusesAreKnown, CapturesKeepTheirHandle
  <1>8. NothingElseLeaks'
    BY <1>2, <1>3 DEF Inv, NothingElseLeaks
  <1> QED
    BY <1>5, <1>6, <1>7, <1>8 DEF Inv

\* The steps that neither allocate nor free, nor start or end a capture.
LEMMA QuietInv ==
  ASSUME Inv, UNCHANGED <<type, ptr, native, dropped, calls, misuses>>
  PROVE  Inv'
  BY DEF Inv, TypeOK, PointersAreLive, ProgramsAreThere, CapturesKeepTheirHandle, MisusesAreKnown,
         NothingElseLeaks, Alive, calls

\* activate
LEMMA ActivateInv ==
  ASSUME Inv, NEW o \in Objects, Activate(o)
  PROVE  Inv'
  <1>1. misuses' = misuses /\ UNCHANGED <<type, ptr, calls, dropped>>
    BY GivesOpen DEF Activate, IsOpen
  <1>2. CASE native' = [native EXCEPT ![ptr[o]] = "open"]
    <2>1. ptr[o] \in Resources /\ native[ptr[o]] \in {"created", "open"}
      BY DEF Activate, IsOpen, Inv, PointersAreLive, Alive
    <2>2. /\ native' \in [Resources -> {"unused", "created", "open", "freed"}]
          /\ \A n \in Resources : n # ptr[o] => native'[n] = native[n]
          /\ native'[ptr[o]] = "open"
      BY <1>2, <2>1 DEF Inv, TypeOK
    <2>3. TypeOK' /\ ProgramsAreThere' /\ CapturesKeepTheirHandle' /\ MisusesAreKnown'
      BY <1>1, <2>2 DEF Inv, TypeOK, ProgramsAreThere, CapturesKeepTheirHandle, MisusesAreKnown, calls
    <2>4. PointersAreLive' /\ NothingElseLeaks'
      BY <1>1, <2>1, <2>2 DEF Inv, PointersAreLive, NothingElseLeaks, Alive
    <2> QED
      BY <2>3, <2>4 DEF Inv
  <1> QED
    BY <1>1, <1>2, QuietInv DEF Activate

\* A capture: it is given the handle of its Reader, which goes away before it ends
\* only if the Reader is closed.
LEMMA CaptureInv ==
  ASSUME Inv, NEW o \in Objects, NEW m \in CaptureMethods,
         CallFiltered(o, m) \/ PortsFail(o) \/ Start(o, m) \/ Return(o)
  PROVE  Inv'
  <1>1. UNCHANGED <<type, ptr, native, dropped, closedInUse>>
    BY DEF CallFiltered, PortsFail, Start, Return
  <1>2. /\ running \in [Objects -> CaptureMethods \cup {"none"}]
        /\ given \in [Objects -> Resources \cup {NULL}] /\ ptr[o] \in Resources \cup {NULL}
        /\ \A p \in reading : p \in Objects /\ running[p] # "none"
    BY DEF Inv, TypeOK
  <1>3. /\ running' \in [Objects -> CaptureMethods \cup {"none"}]
        /\ given' \in [Objects -> Resources \cup {NULL}]
        /\ \A p \in Objects \ {o} : running'[p] = running[p] /\ given'[p] = given[p]
                                   /\ (p \in reading' <=> p \in reading)
        /\ o \in reading' => running'[o] # "none"
        /\ running'[o] # "none" => type[o] = "Reader"
    <2>1. "none" \notin CaptureMethods
      BY DEF CaptureMethods, FilteredMethods
    <2>2. running[o] # "none" => type[o] = "Reader"
      BY DEF Inv, TypeOK
    <2>3. CASE CallFiltered(o, m)
      BY <1>2, <2>1, <2>3 DEF CallFiltered
    <2>4. CASE PortsFail(o)
      BY <1>2, <2>4 DEF PortsFail
    <2>5. CASE Start(o, m)
      BY <1>2, <2>1, <2>2, <2>5 DEF Start
    <2>6. CASE Return(o)
      BY <1>2, <2>6 DEF Return
    <2> QED
      BY <2>3, <2>4, <2>5, <2>6
  <1>4. reading' \subseteq {p \in Objects : running'[p] # "none"}
    <2>1. \A p \in reading' : p \in Objects
      BY <1>2 DEF CallFiltered, PortsFail, Start, Return
    <2> QED
      BY <1>2, <1>3, <2>1
  <1>5. TypeOK'
    BY <1>1, <1>3, <1>4 DEF Inv, TypeOK
  <1>6. CapturesKeepTheirHandle'
    <2> SUFFICES ASSUME ~closedInUse, NEW p \in Objects, running'[p] # "none"
                 PROVE  ptr[p] # NULL /\ (p \in reading' \/ given'[p] = ptr[p])
      BY <1>1 DEF CapturesKeepTheirHandle
    <2>1. CASE p # o
      BY <1>3, <2>1 DEF Inv, CapturesKeepTheirHandle
    <2>2. CASE p = o
      <3>1. running[o] # "none" => ptr[o] # NULL
        BY DEF Inv, CapturesKeepTheirHandle
      <3>2. CASE CallFiltered(o, m)
        BY <2>2, <3>2 DEF CallFiltered, IsOpen
      <3>3. CASE Start(o, m)
        <4>1. given'[o] = ptr[o]
          BY <1>2, <3>3 DEF Start
        <4>2. "none" \notin CaptureMethods
          BY DEF CaptureMethods, FilteredMethods
        <4> QED
          BY <1>2, <2>2, <3>1, <3>3, <4>1, <4>2 DEF Start, IsOpen
      <3>4. CASE PortsFail(o) \/ Return(o)
        BY <1>2, <2>2, <3>4 DEF PortsFail, Return
      <3> QED
        BY <3>2, <3>3, <3>4
    <2> QED
      BY <2>1, <2>2
  <1>7. MisusesAreKnown'
    <2>1. ptr[o] # NULL => Alive(native, ptr[o])
      BY DEF Inv, PointersAreLive
    <2>2. CASE CallFiltered(o, m) \/ PortsFail(o)
      BY <1>1, <2>2 DEF CallFiltered, PortsFail, Inv, MisusesAreKnown
    <2>3. CASE Start(o, m)
      <3>1. ~closedInUse => ptr[o] # NULL
        BY <1>2, <2>3 DEF Start, IsOpen, Inv, CapturesKeepTheirHandle
      <3> QED
        BY <1>1, <2>1, <2>3, <3>1 DEF Start, Gives, Inv, MisusesAreKnown
    <2>4. CASE Return(o)
      <3>1. ~closedInUse => given[o] = ptr[o] /\ ptr[o] # NULL
        BY <2>4 DEF Return, Inv, CapturesKeepTheirHandle
      <3> QED
        BY <1>1, <2>1, <2>4, <3>1 DEF Return, Gives, Inv, MisusesAreKnown
    <2> QED
      BY <2>2, <2>3, <2>4
  <1>8. PointersAreLive' /\ ProgramsAreThere' /\ NothingElseLeaks'
    BY <1>1 DEF Inv, PointersAreLive, ProgramsAreThere, NothingElseLeaks, Alive
  <1> QED
    BY <1>5, <1>6, <1>7, <1>8 DEF Inv

\* Every step keeps the invariant: one case per action.
LEMMA InvIsInductive == Inv /\ [Next]_vars => Inv'
  <1> SUFFICES ASSUME Inv, [Next]_vars PROVE Inv'
    OBVIOUS
  <1>1. ASSUME NEW o \in Objects, NEW n \in Resources, Open(o, n) \/ NewProgram(o, n) PROVE Inv'
    <2>1. /\ Allocates(n, "open") \/ Allocates(n, "created")
          /\ UNCHANGED <<calls, misuses>>
      BY <1>1 DEF Open, NewProgram
    <2>2. CASE Wraps(o, "Reader", n)
      BY <2>1, <2>2, AllocatesOne, NewResource
    <2>3. CASE Wraps(o, "BPFProgram", n)
      BY <2>1, <2>3, AllocatesOne, NewResource
    <2> QED
      BY <1>1, <2>2, <2>3 DEF Open, NewProgram
  <1>2. ASSUME NEW o \in Objects, NEW d \in Objects, NEW n \in Resources, DumpOpen(o, d, n) PROVE Inv'
    <2>1. Allocates(n, "open") /\ Wraps(d, "Dumper", n) /\ UNCHANGED calls
      BY <1>2 DEF DumpOpen
    <2>2. misuses' = misuses
      BY <1>2, GivesOpen DEF DumpOpen, IsOpen
    <2> QED
      BY <2>1, <2>2, AllocatesOne, NewResource
  <1>3. ASSUME NEW o \in Objects, Ask(o) \/ Match(o) \/ Dump(o) PROVE Inv'
    <2>1. ptr[o] # NULL
      BY <1>3 DEF Ask, Match, Dump, IsOpen, Inv, ProgramsAreThere
    <2>2. misuses' = misuses
      BY <1>3, <2>1, GivesOpen DEF Ask, Match, Dump
    <2>3. UNCHANGED <<type, ptr, native, calls, dropped>>
      BY <1>3 DEF Ask, Match, Dump
    <2> QED
      BY <2>2, <2>3, QuietInv
  <1>4. ASSUME NEW o \in Objects, Close(o) \/ Collect(o) PROVE Inv'
    BY <1>4, ReleaseInv DEF Close, Collect, Reset, Unreferenced, calls
  <1>5. ASSUME NEW o \in Objects, NEW m \in CaptureMethods,
               CallFiltered(o, m) \/ PortsFail(o) \/ Start(o, m) \/ Return(o)
        PROVE  Inv'
    BY <1>5, CaptureInv
  <1>6. CASE UNCHANGED vars
    BY <1>6, QuietInv DEF vars
  <1>7. CaptureMethods # {}
    BY DEF CaptureMethods
  <1> QED
    BY <1>1, <1>2, <1>3, <1>4, <1>5, <1>6, <1>7, ActivateInv, CompileInv, SetFilterInv DEF Next

-----------------------------------------------------------------------------
\* No pointer of a Python object dangles, and no two point to the same resource
\* (the p_close methods and the deallocators).
THEOREM PointersStayLive == Spec => []PointersAreLive
  <1>1. Inv => PointersAreLive
    BY DEF Inv
  <1> QED
    BY <1>1, InitInv, InvIsInductive, PTL DEF Spec

\* Only compile's error and captures of Readers closed meanwhile give libpcap what
\* is not there.
THEOREM OnlyKnownMisuses == Spec => []MisusesAreKnown
  <1>1. Inv => MisusesAreKnown
    BY DEF Inv
  <1> QED
    BY <1>1, InitInv, InvIsInductive, PTL DEF Spec

\* What is open has an owner, but for the programs of setfilter and failed
\* constructors.
THEOREM OnlyKnownLeaks == Spec => []NothingElseLeaks
  <1>1. Inv => NothingElseLeaks
    BY DEF Inv
  <1> QED
    BY <1>1, InitInv, InvIsInductive, PTL DEF Spec

\* Types of Handles; with them, a method holds a reference to its Reader.
THEOREM HandleTypes == Spec => []TypeOK
  <1>1. Inv => TypeOK
    BY DEF Inv
  <1> QED
    BY <1>1, InitInv, InvIsInductive, PTL DEF Spec

=============================================================================
