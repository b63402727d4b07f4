------------------------------- MODULE Handles -------------------------------
(***************************************************************************)
(* Who owns what libpcap allocates: capture handles, dump files and filter *)
(* programs, and the Python objects around them (pcapobj.cc, pcapdumper.cc, *)
(* bpfobj.cc, pcapy.cc).                                                   *)
(*                                                                         *)
(* A Reader comes from create, not yet activated, or from an open          *)
(* function, and its handle is passed to libpcap by every method.  What    *)
(* libpcap answers, and what a method makes of it, is left out.            *)
(*                                                                         *)
(* Methods run one at a time, under the interpreter lock, but for captures *)
(* (which release it or call back) and the part of loop_filtered and       *)
(* loop_to_buffer that reads port sequences of their caller, after the     *)
(* test for a closed Reader: other methods of the same Reader run then.    *)
(* Packets, exceptions and results of captures are in Reader.              *)
(***************************************************************************)
EXTENDS Integers

CONSTANTS
  Objects,    \* places for Python objects
  Resources,  \* bound: what libpcap can allocate in a behaviour, by name
  NULL

ASSUME NullIsNoResource == NULL \notin Resources

VARIABLES
  type,     \* type of each object, none if there is no object in the place
  ptr,      \* pcap, dumper or bpf of the object
  native,   \* what became of each resource
  running,  \* the method a Reader is in, if it is one of CaptureMethods
  reading,  \* Readers in a filtered loop that still reads its port sequences
  given,    \* the handle a capture was started with
  dropped,  \* resources to which no pointer was kept
  misuses,  \* the calls that gave libpcap a resource that is not there
  closedInUse  \* a Reader was closed while running
calls == <<running, reading, given, closedInUse>>
vars == <<type, ptr, native, calls, dropped, misuses>>

\* dispatch stands for loop, next and next_batch, which start alike.
FilteredMethods == {"loop_filtered", "loop_to_buffer"}
CaptureMethods == FilteredMethods \cup {"dispatch"}

Init ==
  /\ type = [o \in Objects |-> "none"] /\ ptr = [o \in Objects |-> NULL]
  /\ native = [n \in Resources |-> "unused"]
  /\ running = [o \in Objects |-> "none"] /\ reading = {} /\ given = [o \in Objects |-> NULL]
  /\ dropped = {} /\ misuses = {} /\ closedInUse = FALSE

-----------------------------------------------------------------------------

Alive(nat, n) == n \in Resources /\ nat[n] \in {"created", "open"}
\* libpcap is given n by caller, when the resources are as in nat.
Gives(nat, n, caller) == misuses' = misuses \cup (IF Alive(nat, n) THEN {} ELSE {caller})

\* libpcap returns a new resource.
Allocates(n, state) == native[n] = "unused" /\ native' = [native EXCEPT ![n] = state]

\* new_pcapobject, new_pcapdumper and new_bpfobject: PyType_Ready or PyObject_New
\* may fail, and then nobody frees n.
Wraps(o, t, n) ==
  /\ type[o] = "none"
  /\ \/ /\ type' = [type EXCEPT ![o] = t] /\ ptr' = [ptr EXCEPT ![o] = n]
        /\ UNCHANGED dropped
     \/ dropped' = dropped \cup {n} /\ UNCHANGED <<type, ptr>>

\* open_live, open_offline; create
Open(o, n) ==
  (Allocates(n, "open") \/ Allocates(n, "created")) /\ Wraps(o, "Reader", n)
  /\ UNCHANGED <<calls, misuses>>

\* compile: h is opened for the compiler and closed again; if the filter does not
\* compile, pcap_geterr is asked of the closed h.
Compile(o, h, n) ==
  /\ native[h] = "unused" /\ native[n] = "unused" /\ h # n
  /\ \/ /\ native' = [native EXCEPT ![h] = "freed", ![n] = "open"]
        /\ Wraps(o, "BPFProgram", n) /\ UNCHANGED misuses
     \/ /\ native' = [native EXCEPT ![h] = "freed"]
        /\ Gives(native', h, "compile") /\ UNCHANGED <<type, ptr, dropped>>
  /\ UNCHANGED <<calls>>

\* BPFProgram(filter)
NewProgram(o, n) ==
  Allocates(n, "open") /\ Wraps(o, "BPFProgram", n) /\ UNCHANGED <<calls, misuses>>

\* BPFProgram.filter and get_bpf: a program has no close and no test for one.
Match(o) ==
  /\ type[o] = "BPFProgram" /\ Gives(native, ptr[o], "filter")
  /\ UNCHANGED <<type, ptr, native, calls, dropped>>

-----------------------------------------------------------------------------
(* Readers and Dumpers.                                                    *)

\* The object has not been closed.
IsOpen(o) == ptr[o] # NULL

\* The methods that pass the handle on and leave all as it is: stats, setdirection,
\* datalink, getfd, the set_ methods, setnonblock, getnonblock, sendpacket.
Ask(o) ==
  /\ type[o] = "Reader" /\ IsOpen(o) /\ Gives(native, ptr[o], "method")
  /\ UNCHANGED <<type, ptr, native, calls, dropped>>

Activate(o) ==
  /\ type[o] = "Reader" /\ IsOpen(o) /\ Gives(native, ptr[o], "activate")
  /\ native' = [native EXCEPT ![ptr[o]] = "open"] \/ UNCHANGED native
  /\ UNCHANGED <<type, ptr, calls, dropped>>

\* setfilter with a filter that compiles: libpcap copies the program, which is
\* never freed, whether pcap_setfilter succeeds or not.
SetFilter(o, n) ==
  /\ type[o] = "Reader" /\ IsOpen(o) /\ native[ptr[o]] = "open"
  /\ Allocates(n, "open") /\ dropped' = dropped \cup {n} /\ Gives(native, ptr[o], "setfilter")
  /\ UNCHANGED <<type, ptr, calls>>

DumpOpen(o, d, n) ==
  /\ type[o] = "Reader" /\ IsOpen(o) /\ native[ptr[o]] = "open"
  /\ Allocates(n, "open") /\ Wraps(d, "Dumper", n) /\ Gives(native, ptr[o], "dump_open")
  /\ UNCHANGED <<calls>>

Dump(d) ==
  /\ type[d] = "Dumper" /\ IsOpen(d) /\ Gives(native, ptr[d], "dump")
  /\ UNCHANGED <<type, ptr, native, calls, dropped>>

\* Closing what the object points to, if anything.
ReleaseNothing(o) == UNCHANGED <<native, misuses>>  \* mutant
Release(o) ==
  IF ptr[o] = NULL THEN UNCHANGED <<native, misuses>>
  ELSE native' = [native EXCEPT ![ptr[o]] = "freed"] /\ Gives(native, ptr[o], "close")

Kept(o) == ptr[o]  \* mutant: the pointer is left as it was
\* The pointer after the resource was closed.
Reset(o) == NULL

\* close of a Reader, also at the end of a with block, and of a Dumper.
Close(o) ==
  /\ type[o] \in {"Reader", "Dumper"} /\ Release(o)
  /\ ptr' = [ptr EXCEPT ![o] = Reset(o)]
  /\ closedInUse' = (closedInUse \/ running[o] # "none")
  /\ UNCHANGED <<type, running, reading, given, dropped>>

Unused(o) == TRUE  \* mutant of Unreferenced: a running method holds no reference
Unreferenced(o) == running[o] = "none"

\* The last reference to an object goes away: the three tp_dealloc.
Collect(o) ==
  /\ type[o] # "none" /\ Unreferenced(o) /\ Release(o)
  /\ ptr' = [ptr EXCEPT ![o] = NULL] /\ type' = [type EXCEPT ![o] = "none"]
  /\ UNCHANGED <<calls, dropped>>

-----------------------------------------------------------------------------
(* Captures.                                                               *)

\* loop_filtered or loop_to_buffer finds the Reader open and reads the ports,
\* which may run any Python code and may fail.
CallFiltered(o, m) ==
  /\ type[o] = "Reader" /\ IsOpen(o) /\ running[o] = "none" /\ m \in FilteredMethods
  /\ reading' = reading \cup {o} /\ running' = [running EXCEPT ![o] = m]
  /\ UNCHANGED <<type, ptr, native, given, dropped, misuses, closedInUse>>

PortsFail(o) ==
  /\ o \in reading /\ reading' = reading \ {o} /\ running' = [running EXCEPT ![o] = "none"]
  /\ UNCHANGED <<type, ptr, native, given, dropped, misuses, closedInUse>>

\* libpcap is called with the handle the Reader has now.
Start(o, m) ==
  /\ \/ o \in reading /\ running[o] = m /\ reading' = reading \ {o} /\ UNCHANGED running
     \/ /\ type[o] = "Reader" /\ IsOpen(o) /\ running[o] = "none" /\ m \notin FilteredMethods
        /\ running' = [running EXCEPT ![o] = m] /\ UNCHANGED reading
  /\ given' = [given EXCEPT ![o] = ptr[o]] /\ Gives(native, ptr[o], "capture")
  /\ UNCHANGED <<type, ptr, native, dropped, closedInUse>>

\* libpcap, which has used that handle all the time, returns.
Return(o) ==
  /\ running[o] # "none" /\ o \notin reading
  /\ Gives(native, given[o], "capture")
  /\ running' = [running EXCEPT ![o] = "none"] /\ given' = [given EXCEPT ![o] = NULL]
  /\ UNCHANGED <<type, ptr, native, reading, dropped, closedInUse>>

Next ==
  \/ \E o \in Objects, n \in Resources : Open(o, n) \/ NewProgram(o, n) \/ SetFilter(o, n)
  \/ \E o \in Objects, h, n \in Resources : Compile(o, h, n)
  \/ \E o, d \in Objects, n \in Resources : DumpOpen(o, d, n)
  \/ \E o \in Objects : Ask(o) \/ Activate(o) \/ Match(o) \/ Dump(o)
  \/ \E o \in Objects : Close(o) \/ Collect(o)
  \/ \E o \in Objects : PortsFail(o) \/ Return(o)
  \/ \E o \in Objects, m \in CaptureMethods : CallFiltered(o, m) \/ Start(o, m)

Spec == Init /\ [][Next]_vars

-----------------------------------------------------------------------------
\* Type invariant: a place without an object points nowhere, and an object whose
\* method is running is there.
TypeOK ==
  /\ type \in [Objects -> {"none", "Reader", "Dumper", "BPFProgram"}]
  /\ ptr \in [Objects -> Resources \cup {NULL}] /\ given \in [Objects -> Resources \cup {NULL}]
  /\ native \in [Resources -> {"unused", "created", "open", "freed"}]
  /\ running \in [Objects -> CaptureMethods \cup {"none"}]
  /\ \A o \in Objects : type[o] = "none" => ptr[o] = NULL
  /\ \A o \in Objects : running[o] # "none" => type[o] = "Reader"
  /\ reading \subseteq {o \in Objects : running[o] # "none"}
  /\ dropped \subseteq Resources /\ closedInUse \in BOOLEAN

\* However objects are closed, collected and closed again, a pointer that is not
\* NULL points to a resource that is there, to which no other object points: nothing
\* is closed twice, and a Dumper does not depend on the Reader it came from.
PointersAreLive ==
  \A o \in Objects : ptr[o] # NULL =>
    Alive(native, ptr[o]) /\ \A p \in Objects \ {o} : ptr[p] # ptr[o]

\* libpcap gets a resource that is not there in two cases only: compile asks for the
\* error text of a handle it has closed, and a Reader was closed, by a port sequence,
\* a callback or another thread, while one of its captures was running.
MisusesAreKnown == misuses \subseteq {"compile"} \cup (IF closedInUse THEN {"capture"} ELSE {})

\* Every resource that is not freed has an owner that will free it, except the
\* programs of setfilter and those for which no Python object could be made.
NothingElseLeaks ==
  \A n \in Resources :
    native[n] \in {"created", "open"} => n \in dropped \/ \E o \in Objects : ptr[o] = n

=============================================================================
