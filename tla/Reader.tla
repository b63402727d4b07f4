------------------------------- MODULE Reader -------------------------------
(***************************************************************************)
(* The capture calls of a Reader object (pcapobj.cc) as Python threads run *)
(* them: loop, dispatch, loop_filtered, loop_to_buffer, next, next_batch   *)
(* and close, with the global interpreter lock, the callbacks into Python, *)
(* the pending Python exception and libpcap's break flag.                  *)
(*                                                                         *)
(* libpcap itself is not part of the repository; the steps of a read are   *)
(* the ones the code relies on.  A savefile is read by one routine, a      *)
(* Linux live capture by another, and the two treat the break flag and the *)
(* end of the packets differently.                                         *)
(*                                                                         *)
(* An assumption of this model, which the code does not enforce and no     *)
(* document states: a Reader serves one capture call at a time and is not  *)
(* closed while one is running on it.  Module FilteredStats has the one    *)
(* call that is documented as safe meanwhile, module Handles what a close  *)
(* meanwhile does.                                                         *)
(***************************************************************************)
EXTENDS Integers

CONSTANTS
  Threads,          \* Python threads
  Readers,          \* Reader objects
  Live,             \* the Readers opened on a live capture; the rest read a savefile
  Failing,          \* the Readers whose packets may end in a read error
  Ops,              \* the capture methods the threads call
  Counts,           \* the cnt arguments tried; 0 stands for every cnt =< 0
  DefaultBatch,     \* packets next_batch asks for if its argument is =< 0: 256
  MaxPackets,       \* bound: packets a Reader ever sees
  Reused,           \* the Readers that are read again after a callback raised on them
  NoThread

CallbackOps == {"loop", "dispatch", "loop_filtered"}         \* call Python per packet
LoopOps     == {"loop", "loop_filtered", "loop_to_buffer"}   \* run pcap_loop
AllOps      == CallbackOps \cup LoopOps \cup {"next", "next_batch"}

ASSUME ConstantsOK ==
  /\ NoThread \notin Threads
  /\ Readers # {}
  /\ Live \subseteq Readers /\ Failing \subseteq Readers /\ Reused \subseteq Readers
  /\ Ops \subseteq AllOps
  /\ Counts \subseteq Nat /\ DefaultBatch \in Nat \ {0}
  /\ MaxPackets \in Nat

BREAK == -2   \* PCAP_ERROR_BREAK
ERROR == -1   \* PCAP_ERROR

VARIABLES
  \* Python and the threads
  gil,      \* the thread that holds the interpreter lock, or NoThread
  pc,       \* where each thread is, see Places
  op,       \* the method of the thread's current or last call
  on,       \* the Reader of that call
  want,     \* packets pcap_loop / pcap_dispatch may still deliver, 0: no limit
  got,      \* packets the running read has processed; then, those in the result
  rc,       \* what the libpcap function returned
  exc,      \* a Python exception is pending in the thread
  ret,      \* what the method returned: nothing yet, the C NULL, or an object
  missed,   \* history: packets the call read and had no memory to store
  \* the Readers
  open,     \* pp->pcap is not NULL
  brk,      \* p->break_loop of the handle
  left,     \* packets the handle has not read
  held,     \* packets read into the C buffer of the running call
  handed,   \* packets given to Python, or counted in C as dropped or overflow
  total,    \* packets that ever reached the handle
  raised    \* a callback raised on this Reader

threadVars == <<pc, op, on, want, got, rc, exc, ret, missed>>
readerVars == <<open, brk, left, held, handed, total, raised>>
vars == <<gil, threadVars, readerVars>>

\* python: in Python code, outside a capture call; reading: inside libpcap;
\* entering: PyEval_RestoreThread of the callback; callback: in the callback;
\* finishing: the libpcap function returned, PyEval_RestoreThread of the method.
Places == {"python", "reading", "entering", "callback", "finishing"}

Init ==
  /\ gil = NoThread
  /\ pc = [t \in Threads |-> "python"]
  /\ op = [t \in Threads |-> "next"]
  /\ on = [t \in Threads |-> CHOOSE r \in Readers : TRUE]
  /\ want = [t \in Threads |-> 0]
  /\ got = [t \in Threads |-> 0]
  /\ rc = [t \in Threads |-> 0]
  /\ exc = [t \in Threads |-> FALSE]
  /\ ret = [t \in Threads |-> "none"]
  /\ missed = [t \in Threads |-> 0]
  /\ open = [r \in Readers |-> TRUE]
  /\ brk = [r \in Readers |-> FALSE]
  /\ left \in [Readers -> 0 .. MaxPackets]
  /\ total = left
  /\ held = [r \in Readers |-> 0]
  /\ handed = [r \in Readers |-> 0]
  /\ raised = [r \in Readers |-> FALSE]

Busy(r) == \E t \in Threads : pc[t] # "python" /\ on[t] = r

-----------------------------------------------------------------------------
\* The interpreter lock between two bytecodes.

\* A thread running Python code gives the lock up when the switch interval ends.
SwitchOut(t) ==
  /\ gil = t /\ pc[t] \in {"python", "callback"}
  /\ gil' = NoThread
  /\ UNCHANGED <<threadVars, readerVars>>

\* A thread with Python code to run takes the lock.
SwitchIn(t) ==
  /\ gil = NoThread
  /\ pc[t] \in {"python", "callback"}
  /\ gil' = t
  /\ UNCHANGED <<threadVars, readerVars>>

-----------------------------------------------------------------------------
\* Calls.

\* Who holds the lock inside libpcap: PyEval_SaveThread has released it.
KeptLock(t) == t                    \* mutant: no PyEval_SaveThread
LockInside(t) == NoThread

\* The count libpcap is given: next_batch has no unlimited form.
Limit(o, n) == IF o = "next_batch" /\ n = 0 THEN DefaultBatch ELSE n

\* The method tests pp->pcap, parses its arguments and releases the lock.
Call(t, r, o, n) ==
  /\ gil = t /\ pc[t] = "python"
  /\ open[r] /\ ~Busy(r)
  /\ r \in Reused \/ ~raised[r]
  /\ o = "next" => n = 1
  /\ gil' = LockInside(t)
  /\ pc' = [pc EXCEPT ![t] = "reading"]
  /\ op' = [op EXCEPT ![t] = o]
  /\ on' = [on EXCEPT ![t] = r]
  /\ want' = [want EXCEPT ![t] = Limit(o, n)]
  /\ got' = [got EXCEPT ![t] = 0]
  /\ exc' = [exc EXCEPT ![t] = FALSE]
  /\ ret' = [ret EXCEPT ![t] = "none"]
  /\ missed' = [missed EXCEPT ![t] = 0]
  /\ UNCHANGED <<rc, readerVars>>

\* A method of a closed Reader: err_closed.
CallClosed(t, r, o) ==
  /\ gil = t /\ pc[t] = "python" /\ ~open[r]
  /\ op' = [op EXCEPT ![t] = o]
  /\ on' = [on EXCEPT ![t] = r]
  /\ exc' = [exc EXCEPT ![t] = TRUE]
  /\ ret' = [ret EXCEPT ![t] = "NULL"]
  /\ UNCHANGED <<gil, pc, want, got, rc, missed, readerVars>>

\* close(): pcap_close once, and never again.
Close(t, r) ==
  /\ gil = t /\ pc[t] \in {"python", "callback"}
  /\ ~Busy(r)
  /\ open' = [open EXCEPT ![r] = FALSE]
  /\ UNCHANGED <<gil, threadVars, brk, left, held, handed, total, raised>>

-----------------------------------------------------------------------------
\* libpcap, without the lock.

\* A libpcap function returns code to the method that called it.
Return(t, code) ==
  /\ pc' = [pc EXCEPT ![t] = "finishing"]
  /\ rc' = [rc EXCEPT ![t] = code]
  /\ UNCHANGED <<want, got>>

\* pcap_loop reads again.
ReadAgain(t, n) ==
  /\ pc' = [pc EXCEPT ![t] = "reading"]
  /\ want' = [want EXCEPT ![t] = IF @ = 0 THEN 0 ELSE @ - n]
  /\ got' = [got EXCEPT ![t] = 0]
  /\ UNCHANGED rc

\* One read of the handle ended with n packets: pcap_loop goes on until its
\* count is used up, or a savefile has no packet left; pcap_dispatch is a single
\* read, and so is pcap_next_ex, which reports the end of a savefile as -2.
ReadEnds(t, n) ==
  LET offline == on[t] \notin Live
      done    == (n = 0 /\ offline) \/ (n > 0 /\ want[t] = n)
  IN
  \/ op[t] \in {"dispatch", "next_batch"} /\ Return(t, n)
  \/ op[t] = "next" /\ Return(t, IF n = 0 /\ offline THEN BREAK ELSE n)
  \/ op[t] \in LoopOps /\ done /\ Return(t, 0)
  \/ op[t] \in LoopOps /\ ~done /\ ReadAgain(t, n)

\* The read is past its n-th packet: it stops at the count.
NextPacket(t, n) ==
  IF n = want[t]
    THEN ReadEnds(t, n)
    ELSE /\ pc' = [pc EXCEPT ![t] = "reading"]
         /\ got' = [got EXCEPT ![t] = n]
         /\ UNCHANGED <<want, rc>>

\* The read finds the break flag set: at its start (and anywhere in a live
\* capture) it clears the flag and returns -2; a savefile read that already
\* delivered packets returns their number and leaves the flag set.
ReadBreaks(t) ==
  LET r == on[t] IN
  /\ pc[t] = "reading" /\ brk[r]
  /\ IF r \in Live \/ got[t] = 0
       THEN brk' = [brk EXCEPT ![r] = FALSE] /\ Return(t, BREAK)
       ELSE UNCHANGED brk /\ ReadEnds(t, got[t])
  /\ UNCHANGED <<gil, op, on, exc, ret, missed, open, left, held, handed, total, raised>>

\* No packet left: a read error (a live read reports it once it has no packet to
\* report), the end of the savefile (which libpcap versions return as 0 or as
\* the packets of this read), or the live read timeout.
ReadRunsDry(t) ==
  LET r == on[t] IN
  /\ pc[t] = "reading" /\ ~brk[r] /\ left[r] = 0
  /\ \/ r \in Failing /\ (r \in Live => got[t] = 0) /\ Return(t, ERROR)
     \/ \E n \in IF r \in Live THEN {got[t]} ELSE {0, got[t]} : ReadEnds(t, n)
  /\ UNCHANGED <<gil, op, on, exc, ret, missed, readerVars>>

\* A packet whose callback needs Python waits for the lock.  FilteredCallBack
\* does not: a packet of a class that is not admitted is counted in C.
ReadPacketForPython(t) ==
  LET r == on[t] IN
  /\ pc[t] = "reading" /\ ~brk[r] /\ left[r] > 0
  /\ op[t] \in CallbackOps
  /\ left' = [left EXCEPT ![r] = @ - 1]
  /\ handed' = [handed EXCEPT ![r] = @ + 1]
  /\ \/ pc' = [pc EXCEPT ![t] = "entering"] /\ UNCHANGED <<want, got, rc>>
     \/ op[t] = "loop_filtered" /\ NextPacket(t, got[t] + 1)
  /\ UNCHANGED <<gil, op, on, exc, ret, missed, open, brk, held, total, raised>>

\* A packet that goes to a C buffer: pcap_next_ex, BatchCallBack, BufferCallBack.
\* BatchCallBack passes over a packet its buffer cannot be enlarged for.
ReadPacketIntoBuffer(t) ==
  LET r == on[t] IN
  /\ pc[t] = "reading" /\ ~brk[r] /\ left[r] > 0
  /\ op[t] \notin CallbackOps
  /\ left' = [left EXCEPT ![r] = @ - 1]
  /\ \/ held' = [held EXCEPT ![r] = @ + 1] /\ UNCHANGED missed
     \/ op[t] = "next_batch" /\ missed' = [missed EXCEPT ![t] = @ + 1] /\ UNCHANGED held
  /\ NextPacket(t, got[t] + 1)
  /\ UNCHANGED <<gil, op, on, exc, ret, open, brk, handed, total, raised>>

-----------------------------------------------------------------------------
\* PythonCallBack and FilteredCallBack.

EnterCallback(t) ==
  /\ gil = NoThread /\ pc[t] = "entering"
  /\ gil' = t
  /\ pc' = [pc EXCEPT ![t] = "callback"]
  /\ UNCHANGED <<op, on, want, got, rc, exc, ret, missed, readerVars>>

\* pcap_breakloop when the call of the Python function failed.
NoBreakOnRaise(r, raises) == brk[r]   \* mutant: the failed call is not noticed
BreakAlways(r, raises) == TRUE        \* mutant: a call that succeeded breaks, too
BreakOnRaise(r, raises) == brk[r] \/ raises

\* The Python function returned, or raised; the lock is released and the read
\* goes on.  The live read looks at the flag before it counts the packet.
LeaveCallback(t, raises) ==
  LET r == on[t]  b == BreakOnRaise(r, raises) IN
  /\ gil = t /\ pc[t] = "callback"
  /\ gil' = NoThread
  /\ exc' = [exc EXCEPT ![t] = raises]
  /\ raised' = [raised EXCEPT ![r] = @ \/ raises]
  /\ IF b /\ r \in Live
       THEN brk' = [brk EXCEPT ![r] = FALSE] /\ Return(t, BREAK)
       ELSE brk' = [brk EXCEPT ![r] = b] /\ NextPacket(t, got[t] + 1)
  /\ UNCHANGED <<op, on, ret, missed, open, left, held, handed, total>>

-----------------------------------------------------------------------------
\* The end of each method, with the lock again: which object it returns, and
\* whether an exception is pending then.

\* dispatch and loop_filtered look at PyErr_Occurred first, loop does not.
PendingIsIgnored(t) == FALSE          \* mutant: no PyErr_Occurred after the read
PendingIsNull(t) == op[t] \in {"dispatch", "loop_filtered"} /\ exc[t]

\* A libpcap failure becomes a PcapError; loop_to_buffer ignores the code.
SetsPcapError(t) ==
  ~PendingIsNull(t) /\ rc[t] < 0 /\ rc[t] # BREAK /\ op[t] # "loop_to_buffer"

\* Mutant: -2 counts as a normal end.
ReturnsNullOnErrorOnly(t) == PendingIsNull(t) \/ SetsPcapError(t)
ReturnsNull(t) ==
  PendingIsNull(t) \/ SetsPcapError(t) \/ (op[t] \in CallbackOps /\ rc[t] < 0)

\* The packets of the C buffer reach Python with the result.  next_batch frees
\* its buffer before it raises, pcap_next_ex has none then.
\* Mutants: the return code is taken for the number of packets; a read that ends
\* with 0 is taken for an empty one; the last packet is left out.
HandsOverCode(t) == IF ReturnsNull(t) THEN 0 ELSE rc[t]
HandsOverIfPositive(t) == IF rc[t] > 0 THEN held[on[t]] ELSE 0
HandsOverAllButLast(t) ==
  IF ReturnsNull(t) \/ held[on[t]] = 0 THEN 0 ELSE held[on[t]] - 1
HandsOver(t) == IF ReturnsNull(t) THEN 0 ELSE held[on[t]]

Finish(t) ==
  LET r == on[t] IN
  /\ gil = NoThread /\ pc[t] = "finishing"
  /\ gil' = t
  /\ pc' = [pc EXCEPT ![t] = "python"]
  /\ exc' = [exc EXCEPT ![t] = @ \/ SetsPcapError(t)]
  /\ ret' = [ret EXCEPT ![t] = IF ReturnsNull(t) THEN "NULL" ELSE "object"]
  /\ got' = [got EXCEPT ![t] = HandsOver(t)]
  /\ handed' = [handed EXCEPT ![r] = @ + HandsOver(t)]
  /\ held' = [held EXCEPT ![r] = 0]
  /\ UNCHANGED <<op, on, want, rc, missed, open, brk, left, total, raised>>

-----------------------------------------------------------------------------
\* A packet reaches a live capture.
Arrive(r) ==
  /\ r \in Live /\ open[r] /\ total[r] < MaxPackets
  /\ left' = [left EXCEPT ![r] = @ + 1]
  /\ total' = [total EXCEPT ![r] = @ + 1]
  /\ UNCHANGED <<gil, threadVars, open, brk, held, handed, raised>>

ThreadStep(t) ==
  \/ SwitchOut(t) \/ SwitchIn(t)
  \/ \E r \in Readers, o \in Ops, n \in Counts : Call(t, r, o, n)
  \/ \E r \in Readers, o \in Ops : CallClosed(t, r, o)
  \/ \E r \in Readers : Close(t, r)
  \/ ReadBreaks(t) \/ ReadRunsDry(t)
  \/ ReadPacketForPython(t) \/ ReadPacketIntoBuffer(t)
  \/ EnterCallback(t) \/ \E raises \in BOOLEAN : LeaveCallback(t, raises)
  \/ Finish(t)

Next == (\E t \in Threads : ThreadStep(t)) \/ (\E r \in Readers : Arrive(r))

Spec == Init /\ [][Next]_vars

\* libpcap makes progress (weak fairness).  CPython hands the lock to a thread that
\* keeps asking for it: a holder that was asked to drop it waits until another
\* thread has taken it (strong fairness of the actions that take the lock).  A
\* callback ends although it may lose the lock meanwhile: it gets on whenever it has
\* the lock (strong fairness of LeaveCallback).
Fairness ==
  \A t \in Threads :
    /\ WF_vars(SwitchOut(t)) /\ SF_vars(SwitchIn(t))
    /\ SF_vars(EnterCallback(t)) /\ SF_vars(Finish(t))
    /\ SF_vars(\E raises \in BOOLEAN : LeaveCallback(t, raises))
    /\ WF_vars(ReadBreaks(t) \/ ReadRunsDry(t))
    /\ WF_vars(ReadPacketForPython(t) \/ ReadPacketIntoBuffer(t))

FairSpec == Spec /\ Fairness

-----------------------------------------------------------------------------
\* Type invariant: every variable holds what its C or Python counterpart may.
TypeOK ==
  /\ gil \in Threads \cup {NoThread}
  /\ pc \in [Threads -> Places]
  /\ op \in [Threads -> AllOps]
  /\ on \in [Threads -> Readers]
  /\ want \in [Threads -> Nat] /\ got \in [Threads -> Nat]
  /\ rc \in [Threads -> Int]
  /\ exc \in [Threads -> BOOLEAN]
  /\ ret \in [Threads -> {"none", "NULL", "object"}]
  /\ missed \in [Threads -> Nat]
  /\ open \in [Readers -> BOOLEAN] /\ brk \in [Readers -> BOOLEAN]
  /\ raised \in [Readers -> BOOLEAN]
  /\ left \in [Readers -> Nat] /\ held \in [Readers -> Nat]
  /\ handed \in [Readers -> Nat] /\ total \in [Readers -> Nat]

\* A blocking capture never holds the interpreter lock: its holder is in Python
\* code (the SaveThread / RestoreThread pairs around every libpcap call).
LockOnlyInPython == \A t \in Threads : gil = t => pc[t] \in {"python", "callback"}

\* Once a callback raised, its call runs no other callback: pcap_breakloop stops
\* the read before the next packet, so no Python code runs with the exception
\* pending.
NoCallbackAfterRaise ==
  \A t \in Threads : pc[t] \in {"entering", "callback"} => ~exc[t]

RaisedCallTakesNothing ==
  \A t \in Threads : pc[t] # "python" /\ exc[t] => left'[on[t]] >= left[on[t]]

\* ... and takes no packet from the handle either, not even one that the filter
\* would drop: what was not delivered stays readable.
NoPacketAfterRaise == [][RaisedCallTakesNothing]_vars

Returned(t) == pc[t] = "python" /\ ret[t] # "none"

\* The C API contract of every method: NULL if and only if an exception is
\* pending.  Otherwise the interpreter itself raises SystemError.
ResultConvention == \A t \in Threads : Returned(t) => (ret[t] = "NULL" <=> exc[t])

\* No method returns NULL without an exception: "pcap_breakloop was not called
\* so error is not set", that is, after pcap_breakloop it is.
NullHasException == \A t \in Threads : Returned(t) /\ ret[t] = "NULL" => exc[t]

\* The packets that reached the handle and are neither unread, nor in the buffer of
\* the running call, nor given to Python.
Lost(r) == total[r] - left[r] - held[r] - handed[r]

\* A step that ends a failing next_batch, which frees the packets it has read.
FreesBatch(t, r) ==
  pc[t] = "finishing" /\ on[t] = r /\ op[t] = "next_batch" /\ ret'[t] = "NULL"

\* A step of next_batch that passes over the one packet it has read.
PassesOver(t, r) ==
  /\ pc[t] = "reading" /\ on[t] = r /\ op[t] = "next_batch"
  /\ missed'[t] = missed[t] + 1 /\ Lost(r)' = Lost(r) + 1

LosesOnlyBatches ==
  \A r \in Readers :
    Lost(r)' = Lost(r) \/ \E t \in Threads : FreesBatch(t, r) \/ PassesOver(t, r)

\* No step of any call loses a packet, on any path of its end, but those two of
\* next_batch, and without memory it loses one packet at a time.
PacketsAccounted == (\A r \in Readers : Lost(r) = 0) /\ [][LosesOnlyBatches]_vars

\* On a savefile, an empty result of next_batch or next, which documents and
\* tests take for the end of the file, comes only when no packet is left, unless
\* next_batch had no memory for any of those it read.
EmptyMeansEnd ==
  \A t \in Threads :
    Returned(t) /\ ret[t] = "object" /\ op[t] \in {"next", "next_batch"}
      /\ got[t] = 0 /\ missed[t] = 0 /\ on[t] \notin Live => left[on[t]] = 0

\* A loop without a count over a savefile that returns a result has read the file to
\* its end, whatever dispatch, next or a loop with a count left before.  In particular
\* loop_to_buffer, which has no look at what pcap_loop returned, was not broken off.
LoopsReadAll ==
  \A t \in Threads :
    Returned(t) /\ ret[t] = "object" /\ op[t] \in LoopOps /\ want[t] = 0
      /\ on[t] \notin Live => left[on[t]] = 0

\* Liveness: a call on a savefile returns, whatever its count, its filter and its
\* callbacks do and whoever competes for the lock.
SavefileCallsReturn ==
  \A t \in Threads : (pc[t] = "reading" /\ on[t] \notin Live) ~> pc[t] = "python"

\* Liveness: Python code goes on while another thread is in a capture call, even
\* one that never returns.
PythonRuns == \A t \in Threads : pc[t] \in {"python", "callback"} ~> gil = t

=============================================================================
