---------------------------- MODULE ReaderProofs ----------------------------
(* Theorems about Reader, for every set of threads and Readers.            *)
EXTENDS Reader, TLAPS

\* A Reader serves one capture call at a time (the assumption of the model, in Call).
OneCallPerReader ==
  \A t, u \in Threads : pc[t] # "python" /\ pc[u] # "python" /\ on[t] = on[u] => t = u

\* A read never goes past the count it was given.
WithinCount ==
  \A t \in Threads : pc[t] \in {"reading", "entering", "callback"}
                     => want[t] = 0 \/ got[t] < want[t]

\* While libpcap still reads with an exception pending, the break flag is set.
RaiseIsFlagged == \A t \in Threads : pc[t] = "reading" /\ exc[t] => brk[on[t]]

\* Only the methods that take a callback are ever in one.
CallbacksAreOurs ==
  \A t \in Threads : pc[t] \in {"entering", "callback"} => op[t] \in CallbackOps

\* The inductive invariant.
IInv ==
  /\ TypeOK /\ LockOnlyInPython /\ OneCallPerReader /\ WithinCount
  /\ NoCallbackAfterRaise /\ RaiseIsFlagged /\ CallbacksAreOurs

-----------------------------------------------------------------------------
\* What the end of a read does to its own thread, whatever the method: it goes
\* on reading below the count, or returns; no other thread is touched.
Moves(t) ==
  /\ pc' \in {[pc EXCEPT ![t] = "reading"], [pc EXCEPT ![t] = "finishing"]}
  /\ want' \in [Threads -> Nat] /\ got' \in [Threads -> Nat] /\ rc' \in [Threads -> Int]
  /\ \A u \in Threads \ {t} : want'[u] = want[u] /\ got'[u] = got[u] /\ rc'[u] = rc[u]
  /\ pc'[t] = "reading" => want'[t] = 0 \/ got'[t] < want'[t]

LEMMA ReturnMoves ==
  ASSUME TypeOK, NEW t \in Threads, NEW code \in Int, Return(t, code)
  PROVE  Moves(t)
  BY DEF Return, Moves, TypeOK

LEMMA ReadEndsMoves ==
  ASSUME TypeOK, NEW t \in Threads, NEW n \in Nat,
         want[t] = 0 \/ n =< want[t], ReadEnds(t, n)
  PROVE  Moves(t)
<1> DEFINE code == IF n = 0 /\ on[t] \notin Live THEN BREAK ELSE n
<1>1. CASE Return(t, n)
  BY <1>1, ReturnMoves
<1>2. CASE Return(t, code)
  <2>1. code \in Int
    BY DEF BREAK
  <2> QED BY <1>2, <2>1, ReturnMoves
<1>3. CASE Return(t, 0)
  BY <1>3, ReturnMoves
<1>4. CASE /\ ~((n = 0 /\ on[t] \notin Live) \/ (n > 0 /\ want[t] = n))
           /\ ReadAgain(t, n)
  BY <1>4 DEF ReadAgain, Moves, TypeOK
<1> QED BY <1>1, <1>2, <1>3, <1>4 DEF ReadEnds

LEMMA NextPacketMoves ==
  ASSUME TypeOK, NEW t \in Threads, want[t] = 0 \/ got[t] < want[t],
         NextPacket(t, got[t] + 1)
  PROVE  Moves(t)
<1>1. got[t] + 1 \in Nat /\ (want[t] = 0 \/ got[t] + 1 =< want[t])
  BY DEF TypeOK
<1>2. CASE ReadEnds(t, got[t] + 1)
  BY <1>1, <1>2, ReadEndsMoves
<1>3. CASE /\ got[t] + 1 # want[t]
           /\ pc' = [pc EXCEPT ![t] = "reading"]
           /\ got' = [got EXCEPT ![t] = got[t] + 1]
           /\ UNCHANGED <<want, rc>>
  BY <1>1, <1>3 DEF Moves, TypeOK
<1> QED BY <1>2, <1>3 DEF NextPacket

-----------------------------------------------------------------------------
LEMMA InitEstablishes == Init => IInv
<1> SUFFICES ASSUME Init PROVE IInv
  OBVIOUS
<1>1. (CHOOSE r \in Readers : TRUE) \in Readers
  BY ConstantsOK
<1>2. TypeOK
  BY <1>1, ConstantsOK DEF Init, TypeOK, Places, AllOps
<1>3. LockOnlyInPython /\ OneCallPerReader /\ WithinCount
  BY DEF Init, LockOnlyInPython, OneCallPerReader, WithinCount
<1>4. NoCallbackAfterRaise /\ RaiseIsFlagged /\ CallbacksAreOurs
  BY DEF Init, NoCallbackAfterRaise, RaiseIsFlagged, CallbacksAreOurs
<1> QED BY <1>2, <1>3, <1>4 DEF IInv

\* The steps of Python code: the lock, the start of a call, close.
LEMMA PythonSteps ==
  ASSUME IInv, NEW t \in Threads,
         \/ SwitchOut(t) \/ SwitchIn(t)
         \/ \E r \in Readers, o \in Ops, n \in Counts : Call(t, r, o, n)
         \/ \E r \in Readers, o \in Ops : CallClosed(t, r, o)
         \/ \E r \in Readers : Close(t, r)
  PROVE  IInv'
<1> USE DEF IInv, TypeOK, LockOnlyInPython, OneCallPerReader, WithinCount,
            NoCallbackAfterRaise, RaiseIsFlagged, CallbacksAreOurs,
            threadVars, readerVars
<1>1. CASE SwitchOut(t)
  BY <1>1, ConstantsOK DEF SwitchOut
<1>2. CASE SwitchIn(t)
  BY <1>2, ConstantsOK DEF SwitchIn
<1>3. ASSUME NEW r \in Readers, NEW o \in Ops, NEW n \in Counts, Call(t, r, o, n)
      PROVE  IInv'
  <2>1. Limit(o, n) \in Nat /\ o \in AllOps
    BY ConstantsOK DEF Limit
  <2> HIDE DEF Limit
  <2>2. TypeOK'
    BY <1>3, <2>1 DEF Call, Places, LockInside
  <2>3. OneCallPerReader' /\ WithinCount'
    BY <1>3, <2>1 DEF Call, Busy
  <2>4. LockOnlyInPython' /\ NoCallbackAfterRaise' /\ RaiseIsFlagged' /\ CallbacksAreOurs'
    BY <1>3, ConstantsOK DEF Call, LockInside
  <2> QED BY <2>2, <2>3, <2>4
<1>4. ASSUME NEW r \in Readers, NEW o \in Ops, CallClosed(t, r, o)
      PROVE  IInv'
  BY <1>4, ConstantsOK DEF CallClosed
<1>5. ASSUME NEW r \in Readers, Close(t, r)
      PROVE  IInv'
  BY <1>5 DEF Close
<1> QED BY <1>1, <1>2, <1>3, <1>4, <1>5

\* The steps of libpcap while the lock is released.
LEMMA ReadSteps ==
  ASSUME IInv, NEW t \in Threads,
         \/ ReadBreaks(t) \/ ReadRunsDry(t)
         \/ ReadPacketForPython(t) \/ ReadPacketIntoBuffer(t)
  PROVE  IInv'
<1> DEFINE r == on[t]
<1>1. TypeOK /\ r \in Readers /\ got[t] \in Nat
  BY DEF IInv, TypeOK
<1>2. pc[t] = "reading" /\ (want[t] = 0 \/ got[t] < want[t])
  BY DEF IInv, WithinCount, ReadBreaks, ReadRunsDry, ReadPacketForPython, ReadPacketIntoBuffer
<1>3. ASSUME Moves(t), UNCHANGED <<gil, op, on, exc, ret, open, total, raised>>,
             brk' \in [Readers -> BOOLEAN], left' \in [Readers -> Nat],
             held' \in [Readers -> Nat], handed' \in [Readers -> Nat],
             missed' \in [Threads -> Nat],
             \A u \in Threads : pc'[u] = "reading" /\ exc[u] => brk'[on[u]]
      PROVE  IInv'
  <2>1. TypeOK'
    BY <1>1, <1>3 DEF TypeOK, Moves, Places
  <2>2. LockOnlyInPython' /\ OneCallPerReader' /\ WithinCount'
    <3>1. LockOnlyInPython' /\ OneCallPerReader'
      BY <1>1, <1>2, <1>3 DEF IInv, TypeOK, Moves, LockOnlyInPython, OneCallPerReader
    <3>2. WithinCount'
      BY <1>1, <1>3 DEF IInv, TypeOK, Moves, WithinCount
    <3> QED BY <3>1, <3>2
  <2>3. NoCallbackAfterRaise' /\ RaiseIsFlagged' /\ CallbacksAreOurs'
    BY <1>1, <1>2, <1>3 DEF IInv, TypeOK, Moves, NoCallbackAfterRaise, RaiseIsFlagged, CallbacksAreOurs
  <2> QED BY <2>1, <2>2, <2>3 DEF IInv
<1>4. ASSUME NEW u \in Threads, pc[u] = "reading", exc[u]
      PROVE  brk[on[u]]
  BY <1>4 DEF IInv, RaiseIsFlagged
<1>5. CASE ReadBreaks(t)
  <2>1. CASE brk' = [brk EXCEPT ![r] = FALSE] /\ Return(t, BREAK)
    <3>1. Moves(t)
      BY <2>1, <1>1, ReturnMoves DEF BREAK
    <3>2. \A u \in Threads : pc'[u] = "reading" => u # t /\ pc[u] = "reading"
      BY <2>1, <1>1 DEF Return, TypeOK
    <3>3. \A u \in Threads : pc'[u] = "reading" /\ exc[u] => brk'[on[u]]
      BY <2>1, <1>1, <1>2, <1>4, <3>2 DEF IInv, OneCallPerReader, TypeOK
    <3> QED BY <1>1, <1>3, <1>5, <2>1, <3>1, <3>3 DEF ReadBreaks, TypeOK
  <2>2. CASE UNCHANGED brk /\ ReadEnds(t, got[t])
    <3>1. Moves(t)
      BY <2>2, <1>1, <1>2, ReadEndsMoves DEF TypeOK
    <3>2. \A u \in Threads : pc'[u] = "reading" => pc[u] = "reading"
      BY <1>1, <1>2, <3>1 DEF Moves, TypeOK
    <3> QED BY <1>1, <1>3, <1>4, <1>5, <2>2, <3>1, <3>2 DEF ReadBreaks, TypeOK
  <2> QED BY <1>5, <2>1, <2>2 DEF ReadBreaks
<1>6. CASE ReadRunsDry(t)
  <2>1. Moves(t)
    <3>1. ERROR \in Int /\ 0 \in Nat
      BY DEF ERROR
    <3>2. ASSUME NEW n \in {0, got[t]}, ReadEnds(t, n) PROVE Moves(t)
      <4>1. n \in Nat /\ (want[t] = 0 \/ n =< want[t])
        BY <1>1, <1>2 DEF TypeOK
      <4> QED BY <3>2, <4>1, <1>1, ReadEndsMoves
    <3> QED BY <1>1, <1>6, <3>1, <3>2, ReturnMoves DEF ReadRunsDry
  <2>2. \A u \in Threads : pc'[u] = "reading" => pc[u] = "reading"
    BY <1>1, <1>2, <2>1 DEF Moves, TypeOK
  <2> QED BY <1>1, <1>3, <1>4, <1>6, <2>1, <2>2 DEF ReadRunsDry, TypeOK, readerVars
<1>7. CASE ReadPacketForPython(t)
  <2>1. ~exc[t] /\ left[r] > 0 /\ op[t] \in CallbackOps
    BY <1>4, <1>7 DEF ReadPacketForPython, IInv, TypeOK
  <2>2. left' \in [Readers -> Nat] /\ handed' \in [Readers -> Nat]
    BY <1>1, <1>7, <2>1 DEF ReadPacketForPython, TypeOK
  <2>3. CASE pc' = [pc EXCEPT ![t] = "entering"] /\ UNCHANGED <<want, got, rc>>
    <3>1. TypeOK'
      BY <1>1, <1>7, <2>2, <2>3 DEF ReadPacketForPython, TypeOK, Places
    <3>2. LockOnlyInPython' /\ OneCallPerReader' /\ WithinCount'
      BY <1>1, <1>2, <1>7, <2>3 DEF ReadPacketForPython, IInv, TypeOK, LockOnlyInPython,
                                   OneCallPerReader, WithinCount
    <3>3. NoCallbackAfterRaise' /\ RaiseIsFlagged' /\ CallbacksAreOurs'
      BY <1>1, <1>2, <1>7, <2>1, <2>3 DEF ReadPacketForPython, IInv, TypeOK,
                    NoCallbackAfterRaise, RaiseIsFlagged, CallbacksAreOurs
    <3> QED BY <3>1, <3>2, <3>3 DEF IInv
  <2>4. CASE NextPacket(t, got[t] + 1)
    <3>1. Moves(t)
      BY <1>1, <1>2, <2>4, NextPacketMoves
    <3>2. \A u \in Threads : pc'[u] = "reading" => pc[u] = "reading"
      BY <1>1, <1>2, <3>1 DEF Moves, TypeOK
    <3> QED BY <1>1, <1>3, <1>4, <1>7, <2>2, <2>4, <3>1, <3>2 DEF ReadPacketForPython, TypeOK
  <2> QED BY <1>7, <2>3, <2>4 DEF ReadPacketForPython
<1>8. CASE ReadPacketIntoBuffer(t)
  <2>1. Moves(t)
    BY <1>1, <1>2, <1>8, NextPacketMoves DEF ReadPacketIntoBuffer
  <2>2. \A u \in Threads : pc'[u] = "reading" => pc[u] = "reading"
    BY <1>1, <1>2, <2>1 DEF Moves, TypeOK
  <2>3. /\ UNCHANGED <<gil, op, on, exc, ret, open, brk, handed, total, raised>>
        /\ left[r] > 0 /\ left' = [left EXCEPT ![r] = @ - 1]
        /\ \/ held' = [held EXCEPT ![r] = @ + 1] /\ UNCHANGED missed
           \/ missed' = [missed EXCEPT ![t] = @ + 1] /\ UNCHANGED held
    BY <1>8 DEF ReadPacketIntoBuffer
  <2>4. /\ left' \in [Readers -> Nat] /\ held' \in [Readers -> Nat]
        /\ handed' \in [Readers -> Nat] /\ missed' \in [Threads -> Nat]
    BY <1>1, <2>3 DEF TypeOK
  <2> QED BY <1>1, <1>3, <1>4, <2>1, <2>2, <2>3, <2>4 DEF TypeOK
<1> QED BY <1>5, <1>6, <1>7, <1>8

\* Into the callback and out of it, and out of the method; a packet arrives.
LEMMA EnterStep ==
  ASSUME IInv, NEW t \in Threads, EnterCallback(t)
  PROVE  IInv'
<1> USE DEF EnterCallback, IInv, readerVars
<1>1. TypeOK'
  BY DEF TypeOK, Places
<1>2. LockOnlyInPython' /\ OneCallPerReader' /\ WithinCount'
  BY ConstantsOK DEF TypeOK, LockOnlyInPython, OneCallPerReader, WithinCount
<1>3. NoCallbackAfterRaise' /\ RaiseIsFlagged' /\ CallbacksAreOurs'
  BY DEF TypeOK, NoCallbackAfterRaise, RaiseIsFlagged, CallbacksAreOurs
<1> QED BY <1>1, <1>2, <1>3

LEMMA LeaveStep ==
  ASSUME IInv, NEW t \in Threads, NEW raises \in BOOLEAN, LeaveCallback(t, raises)
  PROVE  IInv'
<1> DEFINE r == on[t]  b == BreakOnRaise(r, raises)
<1>1. TypeOK /\ r \in Readers /\ brk[r] \in BOOLEAN /\ b \in BOOLEAN
  BY DEF IInv, TypeOK, BreakOnRaise
<1>2. pc[t] = "callback" /\ gil = t /\ (want[t] = 0 \/ got[t] < want[t]) /\ op[t] \in CallbackOps
  BY DEF IInv, WithinCount, CallbacksAreOurs, LeaveCallback
<1>3. gil' = NoThread /\ exc' = [exc EXCEPT ![t] = raises]
      /\ raised' = [raised EXCEPT ![r] = @ \/ raises]
      /\ UNCHANGED <<op, on, ret, missed, open, left, held, handed, total>>
  BY DEF LeaveCallback
<1>4. CASE brk' = [brk EXCEPT ![r] = FALSE] /\ Return(t, BREAK)
  <2>0. BREAK \in Int
    BY DEF BREAK
  <2>1. Moves(t) /\ pc'[t] = "finishing"
    BY <1>1, <1>4, <2>0, ReturnMoves DEF Return, TypeOK
  <2> HIDE DEF b
  <2>2. TypeOK'
    BY <1>1, <1>3, <1>4, <2>1 DEF TypeOK, Moves, Places
  <2>3. LockOnlyInPython' /\ OneCallPerReader' /\ WithinCount'
    <3>1. LockOnlyInPython' /\ OneCallPerReader'
      BY <1>1, <1>2, <1>3, <2>1, ConstantsOK
         DEF IInv, TypeOK, Moves, LockOnlyInPython, OneCallPerReader
    <3>2. WithinCount'
      BY <1>1, <2>1 DEF IInv, TypeOK, Moves, WithinCount
    <3> QED BY <3>1, <3>2
  <2>4. NoCallbackAfterRaise' /\ CallbacksAreOurs'
    BY <1>1, <1>2, <1>3, <2>1 DEF IInv, TypeOK, Moves, NoCallbackAfterRaise, CallbacksAreOurs
  <2>5. RaiseIsFlagged'
    BY <1>1, <1>2, <1>3, <1>4, <2>1 DEF IInv, TypeOK, Moves, RaiseIsFlagged, OneCallPerReader
  <2> QED BY <2>2, <2>3, <2>4, <2>5 DEF IInv
<1>5. CASE brk' = [brk EXCEPT ![r] = b] /\ NextPacket(t, got[t] + 1)
  <2>1. Moves(t)
    BY <1>1, <1>2, <1>5, NextPacketMoves
  <2>2. raises => b
    BY DEF BreakOnRaise
  <2> HIDE DEF b
  <2>3. TypeOK'
    BY <1>1, <1>3, <1>5, <2>1 DEF TypeOK, Moves, Places
  <2>4. LockOnlyInPython' /\ OneCallPerReader' /\ WithinCount'
    <3>1. LockOnlyInPython' /\ OneCallPerReader'
      BY <1>1, <1>2, <1>3, <2>1, ConstantsOK
         DEF IInv, TypeOK, Moves, LockOnlyInPython, OneCallPerReader
    <3>2. WithinCount'
      BY <1>1, <2>1 DEF IInv, TypeOK, Moves, WithinCount
    <3> QED BY <3>1, <3>2
  <2>5. NoCallbackAfterRaise' /\ CallbacksAreOurs'
    BY <1>1, <1>2, <1>3, <2>1 DEF IInv, TypeOK, Moves, NoCallbackAfterRaise, CallbacksAreOurs
  <2>6. RaiseIsFlagged'
    BY <1>1, <1>2, <1>3, <1>5, <2>1, <2>2 DEF IInv, TypeOK, Moves, RaiseIsFlagged, OneCallPerReader
  <2> QED BY <2>3, <2>4, <2>5, <2>6 DEF IInv
<1> QED BY <1>4, <1>5 DEF LeaveCallback

LEMMA FinishStep ==
  ASSUME IInv, NEW t \in Threads, Finish(t)
  PROVE  IInv'
<1> USE DEF Finish, IInv
<1>1. HandsOver(t) \in Nat /\ SetsPcapError(t) \in BOOLEAN /\ on[t] \in Readers
  BY DEF HandsOver, SetsPcapError, TypeOK
<1> HIDE DEF HandsOver, SetsPcapError
<1>2. TypeOK'
  BY <1>1 DEF TypeOK, Places
<1>3. LockOnlyInPython' /\ OneCallPerReader' /\ WithinCount'
  BY ConstantsOK DEF TypeOK, LockOnlyInPython, OneCallPerReader, WithinCount
<1>4. NoCallbackAfterRaise' /\ RaiseIsFlagged' /\ CallbacksAreOurs'
  BY DEF TypeOK, NoCallbackAfterRaise, RaiseIsFlagged, CallbacksAreOurs
<1> QED BY <1>2, <1>3, <1>4

LEMMA ArriveStep ==
  ASSUME IInv, NEW r \in Readers, Arrive(r)
  PROVE  IInv'
BY DEF Arrive, IInv, TypeOK, LockOnlyInPython, OneCallPerReader, WithinCount,
       NoCallbackAfterRaise, RaiseIsFlagged, CallbacksAreOurs, threadVars

LEMMA StepPreserves == IInv /\ [Next]_vars => IInv'
<1> SUFFICES ASSUME IInv, [Next]_vars PROVE IInv'
  OBVIOUS
<1>1. ASSUME NEW t \in Threads, ThreadStep(t) PROVE IInv'
  BY <1>1, PythonSteps, ReadSteps, EnterStep, LeaveStep, FinishStep DEF ThreadStep
<1>2. ASSUME NEW r \in Readers, Arrive(r) PROVE IInv'
  BY <1>2, ArriveStep
<1>3. CASE UNCHANGED vars
  BY <1>3 DEF vars, threadVars, readerVars, IInv, TypeOK, LockOnlyInPython, OneCallPerReader,
              WithinCount, NoCallbackAfterRaise, RaiseIsFlagged, CallbacksAreOurs
<1> QED BY <1>1, <1>2, <1>3 DEF Next

LEMMA Invariance == Spec => []IInv
BY InitEstablishes, StepPreserves, PTL DEF Spec

-----------------------------------------------------------------------------
\* Every variable keeps its type: the counts never go below zero, the break flag
\* and the exception state stay booleans, whatever the threads call.
THEOREM TypeCorrect == Spec => []TypeOK
BY Invariance, PTL DEF IInv

\* A capture call never blocks with the interpreter lock (pcapobj.cc: SaveThread
\* before every libpcap call that reads).
THEOREM CapturesReleaseTheLock == Spec => []LockOnlyInPython
BY Invariance, PTL DEF IInv

\* No callback runs in a call whose callback has already raised (pcap_breakloop in
\* PythonCallBack and FilteredCallBack).
THEOREM RaiseStopsCallbacks == Spec => []NoCallbackAfterRaise
BY Invariance, PTL DEF IInv

\* A call whose callback raised takes no further packet from its Reader: the flag
\* is seen before the next packet is read, filtered ones included.
LEMMA RaisedStep ==
  ASSUME IInv, [Next]_vars, NEW t \in Threads, pc[t] # "python", exc[t]
  PROVE  left'[on[t]] >= left[on[t]]
<1>1. on[t] \in Readers /\ left[on[t]] \in Nat
  BY DEF IInv, TypeOK
<1>2. ASSUME NEW u \in Threads, pc[u] = "reading", ~brk[on[u]],
             left' = [left EXCEPT ![on[u]] = @ - 1]
      PROVE  left'[on[t]] >= left[on[t]]
  <2>1. ~exc[u]
    BY <1>2 DEF IInv, RaiseIsFlagged
  <2>2. on[t] # on[u]
    BY <1>2, <2>1 DEF IInv, OneCallPerReader
  <2> QED BY <1>1, <1>2, <2>2 DEF IInv, TypeOK
<1>3. ASSUME NEW r \in Readers, Arrive(r)
      PROVE  left'[on[t]] >= left[on[t]]
  BY <1>1, <1>3 DEF Arrive, IInv, TypeOK
<1>4. ASSUME UNCHANGED left
      PROVE  left'[on[t]] >= left[on[t]]
  BY <1>1, <1>4
<1>5. ASSUME NEW u \in Threads, ThreadStep(u)
      PROVE  left'[on[t]] >= left[on[t]]
  <2>1. CASE ReadPacketForPython(u) \/ ReadPacketIntoBuffer(u)
    BY <1>2, <2>1 DEF ReadPacketForPython, ReadPacketIntoBuffer
  <2>2. CASE ReadBreaks(u) \/ ReadRunsDry(u)
    BY <1>4, <2>2 DEF ReadBreaks, ReadRunsDry, readerVars
  <2>3. CASE SwitchOut(u) \/ SwitchIn(u) \/ EnterCallback(u) \/ Finish(u)
    BY <1>4, <2>3 DEF SwitchOut, SwitchIn, EnterCallback, Finish, readerVars
  <2>4. CASE \E raises \in BOOLEAN : LeaveCallback(u, raises)
    BY <1>4, <2>4 DEF LeaveCallback
  <2>5. CASE \E r \in Readers, o \in Ops, n \in Counts : Call(u, r, o, n)
    BY <1>4, <2>5 DEF Call, readerVars
  <2>6. CASE \E r \in Readers, o \in Ops : CallClosed(u, r, o)
    BY <1>4, <2>6 DEF CallClosed, readerVars
  <2>7. CASE \E r \in Readers : Close(u, r)
    BY <1>4, <2>7 DEF Close
  <2> QED BY <1>5, <2>1, <2>2, <2>3, <2>4, <2>5, <2>6, <2>7 DEF ThreadStep
<1>6. CASE UNCHANGED vars
  BY <1>4, <1>6 DEF vars, readerVars
<1> QED BY <1>3, <1>5, <1>6 DEF Next

THEOREM RaiseStopsReading == Spec => NoPacketAfterRaise
<1>1. IInv /\ [Next]_vars => [RaisedCallTakesNothing]_vars
  BY RaisedStep DEF RaisedCallTakesNothing
<1> QED BY <1>1, Invariance, PTL DEF Spec, NoPacketAfterRaise

-----------------------------------------------------------------------------
\* On a live capture the break flag never outlives the callback that set it, and
\* the code a method sees tells exactly whether an exception is pending.
FlagIsGone == \A r \in Live : ~brk[r]

CodeTellsException ==
  \A t \in Threads : pc[t] = "finishing" /\ on[t] \in Live
                     => (exc[t] <=> rc[t] = BREAK) /\ (exc[t] => op[t] \in CallbackOps)

LiveResults ==
  \A t \in Threads : Returned(t) /\ on[t] \in Live => (ret[t] = "NULL" <=> exc[t])

LInv == FlagIsGone /\ CodeTellsException /\ LiveResults

\* A read of a live capture that ends without the break flag returns no -2.
LEMMA ReadEndsWithoutBreak ==
  ASSUME TypeOK, NEW t \in Threads, NEW n \in Nat, on[t] \in Live,
         ReadEnds(t, n) \/ NextPacket(t, n)
  PROVE  /\ pc' \in {[pc EXCEPT ![t] = "reading"], [pc EXCEPT ![t] = "finishing"]}
         /\ \A u \in Threads \ {t} : rc'[u] = rc[u]
         /\ pc'[t] = "finishing" => rc'[t] # BREAK
<1>1. n # BREAK /\ 0 # BREAK
  BY DEF BREAK
<1>2. ReadEnds(t, n) =>
         /\ pc' \in {[pc EXCEPT ![t] = "reading"], [pc EXCEPT ![t] = "finishing"]}
         /\ \A u \in Threads \ {t} : rc'[u] = rc[u]
         /\ pc'[t] = "finishing" => rc'[t] # BREAK
  BY <1>1 DEF ReadEnds, Return, ReadAgain, TypeOK
<1>3. CASE NextPacket(t, n)
  BY <1>1, <1>2, <1>3 DEF NextPacket, TypeOK
<1> QED BY <1>2, <1>3

LEMMA LiveReadSteps ==
  ASSUME IInv, LInv, NEW t \in Threads,
         \/ ReadBreaks(t) \/ ReadRunsDry(t)
         \/ ReadPacketForPython(t) \/ ReadPacketIntoBuffer(t)
  PROVE  LInv'
<1> DEFINE r == on[t]
<1>1. /\ TypeOK /\ r \in Readers /\ got[t] \in Nat /\ got[t] + 1 \in Nat
      /\ pc[t] = "reading" /\ UNCHANGED <<op, on, exc, ret>>
  BY DEF IInv, TypeOK, ReadBreaks, ReadRunsDry, ReadPacketForPython, ReadPacketIntoBuffer, readerVars
<1>2. r \in Live => ~brk[r] /\ ~exc[t]
  BY <1>1 DEF LInv, FlagIsGone, IInv, RaiseIsFlagged
<1>3. FlagIsGone'
  <2>1. brk' = brk \/ brk' = [brk EXCEPT ![r] = FALSE]
    BY DEF ReadBreaks, ReadRunsDry, ReadPacketForPython, ReadPacketIntoBuffer, readerVars
  <2> QED BY <1>1, <2>1, ConstantsOK DEF LInv, FlagIsGone, TypeOK
<1>4. ASSUME pc' \in {[pc EXCEPT ![t] = x] : x \in {"reading", "finishing", "entering"}},
             \A u \in Threads \ {t} : rc'[u] = rc[u],
             r \in Live /\ pc'[t] = "finishing" => rc'[t] # BREAK
      PROVE  LInv'
  BY <1>1, <1>2, <1>3, <1>4 DEF LInv, CodeTellsException, LiveResults, Returned, TypeOK
<1>5. ASSUME NEW code \in Int, Return(t, code), r \in Live => code # BREAK
      PROVE  LInv'
  BY <1>1, <1>4, <1>5 DEF Return, TypeOK
<1>6. ASSUME NEW n \in Nat, ReadEnds(t, n) \/ NextPacket(t, n), r \in Live
      PROVE  LInv'
  BY <1>1, <1>4, <1>6, ReadEndsWithoutBreak
<1>7. ASSUME NEW n \in Nat, ReadEnds(t, n) \/ NextPacket(t, n), r \notin Live
      PROVE  LInv'
  BY <1>1, <1>4, <1>7 DEF ReadEnds, NextPacket, Return, ReadAgain, TypeOK
<1>8. BREAK \in Int /\ ERROR \in Int /\ ERROR # BREAK
  BY DEF BREAK, ERROR
<1>9. CASE ReadBreaks(t)
  <2>1. r \notin Live
    BY <1>2, <1>9 DEF ReadBreaks
  <2> QED BY <1>1, <1>5, <1>7, <1>8, <1>9, <2>1 DEF ReadBreaks
<1>10. CASE ReadRunsDry(t)
  <2>1. 0 \in Nat
    OBVIOUS
  <2> QED BY <1>1, <1>5, <1>6, <1>7, <1>8, <1>10, <2>1 DEF ReadRunsDry
<1>11. CASE ReadPacketForPython(t)
  <2>1. CASE pc' = [pc EXCEPT ![t] = "entering"] /\ UNCHANGED <<want, got, rc>>
    BY <1>1, <1>4, <2>1 DEF TypeOK
  <2> QED BY <1>1, <1>6, <1>7, <1>11, <2>1 DEF ReadPacketForPython
<1>12. CASE ReadPacketIntoBuffer(t)
  BY <1>1, <1>6, <1>7, <1>12 DEF ReadPacketIntoBuffer
<1> QED BY <1>9, <1>10, <1>11, <1>12

LEMMA LiveLeaveStep ==
  ASSUME IInv, LInv, NEW t \in Threads, NEW raises \in BOOLEAN, LeaveCallback(t, raises)
  PROVE  LInv'
<1> DEFINE r == on[t]
<1>1. /\ TypeOK /\ r \in Readers /\ got[t] + 1 \in Nat
      /\ pc[t] = "callback" /\ op[t] \in CallbackOps
      /\ UNCHANGED <<op, on, ret>> /\ exc' = [exc EXCEPT ![t] = raises]
  BY DEF IInv, TypeOK, LeaveCallback, CallbacksAreOurs
<1>2. FlagIsGone'
  <2>1. \/ brk' = [brk EXCEPT ![r] = FALSE]
        \/ r \notin Live /\ brk' = [brk EXCEPT ![r] = BreakOnRaise(r, raises)]
        \/ ~BreakOnRaise(r, raises) /\ brk' = [brk EXCEPT ![r] = BreakOnRaise(r, raises)]
    BY DEF LeaveCallback
  <2>2. BreakOnRaise(r, raises) \in BOOLEAN
    BY <1>1 DEF BreakOnRaise, TypeOK
  <2> QED BY <1>1, <2>1, <2>2, ConstantsOK DEF LInv, FlagIsGone, TypeOK
<1>3. ASSUME pc' \in {[pc EXCEPT ![t] = x] : x \in {"reading", "finishing"}},
             \A u \in Threads \ {t} : rc'[u] = rc[u],
             r \in Live /\ pc'[t] = "finishing" => (raises <=> rc'[t] = BREAK)
      PROVE  LInv'
  BY <1>1, <1>2, <1>3 DEF LInv, CodeTellsException, LiveResults, Returned, TypeOK
<1>4. CASE r \in Live /\ raises
  <2>1. Return(t, BREAK)
    BY <1>4 DEF LeaveCallback, BreakOnRaise
  <2> QED BY <1>1, <1>3, <1>4, <2>1 DEF Return, TypeOK
<1>5. CASE r \in Live /\ ~raises
  <2>1. NextPacket(t, got[t] + 1)
    BY <1>1, <1>5 DEF LeaveCallback, BreakOnRaise, LInv, FlagIsGone
  <2> QED BY <1>1, <1>3, <1>5, <2>1, ReadEndsWithoutBreak
<1>6. CASE r \notin Live
  <2>1. NextPacket(t, got[t] + 1)
    BY <1>6 DEF LeaveCallback
  <2> QED BY <1>1, <1>3, <1>6, <2>1 DEF NextPacket, ReadEnds, Return, ReadAgain, TypeOK
<1> QED BY <1>4, <1>5, <1>6

LEMMA LiveFinishStep ==
  ASSUME IInv, LInv, NEW t \in Threads, Finish(t)
  PROVE  LInv'
<1> USE DEF Finish
<1>1. TypeOK /\ pc[t] = "finishing"
  BY DEF IInv
<1>2. on[t] \in Live => (ReturnsNull(t) <=> exc[t] \/ SetsPcapError(t))
  <2>1. BREAK < 0
    BY DEF BREAK
  <2> QED BY <1>1, <2>1 DEF LInv, CodeTellsException, ReturnsNull, SetsPcapError, PendingIsNull,
                           TypeOK, CallbackOps
<1>3. FlagIsGone' /\ CodeTellsException'
  BY <1>1 DEF LInv, FlagIsGone, CodeTellsException, TypeOK
<1> HIDE DEF ReturnsNull, SetsPcapError
<1>4. LiveResults'
  BY <1>1, <1>2 DEF LInv, LiveResults, Returned, TypeOK
<1> QED BY <1>3, <1>4 DEF LInv

LEMMA LiveOtherSteps ==
  ASSUME IInv, LInv, NEW t \in Threads,
         \/ SwitchOut(t) \/ SwitchIn(t) \/ EnterCallback(t)
         \/ \E r \in Readers, o \in Ops, n \in Counts : Call(t, r, o, n)
         \/ \E r \in Readers, o \in Ops : CallClosed(t, r, o)
         \/ \E r \in Readers : Close(t, r)
  PROVE  LInv'
<1> USE DEF IInv, TypeOK, LInv, FlagIsGone, CodeTellsException, LiveResults, Returned,
            threadVars, readerVars
<1>1. CASE SwitchOut(t) \/ SwitchIn(t) \/ EnterCallback(t)
  BY <1>1 DEF SwitchOut, SwitchIn, EnterCallback
<1>2. ASSUME NEW r \in Readers, NEW o \in Ops, NEW n \in Counts, Call(t, r, o, n)
      PROVE  LInv'
  BY <1>2 DEF Call
<1>3. ASSUME NEW r \in Readers, NEW o \in Ops, CallClosed(t, r, o)
      PROVE  LInv'
  BY <1>3 DEF CallClosed
<1>4. ASSUME NEW r \in Readers, Close(t, r)
      PROVE  LInv'
  BY <1>4 DEF Close
<1> QED BY <1>1, <1>2, <1>3, <1>4

LEMMA LiveInvariance == Spec => []LInv
<1>1. Init => LInv
  BY ConstantsOK DEF Init, LInv, FlagIsGone, CodeTellsException, LiveResults, Returned
<1>2. IInv /\ LInv /\ [Next]_vars => LInv'
  <2> SUFFICES ASSUME IInv, LInv, [Next]_vars PROVE LInv'
    OBVIOUS
  <2>1. ASSUME NEW t \in Threads, ThreadStep(t) PROVE LInv'
    BY <2>1, LiveReadSteps, LiveLeaveStep, LiveFinishStep, LiveOtherSteps DEF ThreadStep
  <2>2. CASE \/ \E r \in Readers : Arrive(r)
             \/ UNCHANGED vars
    BY <2>2 DEF Arrive, vars, threadVars, readerVars, LInv, FlagIsGone, CodeTellsException,
                LiveResults, Returned
  <2> QED BY <2>1, <2>2 DEF Next
<1> QED BY <1>1, <1>2, Invariance, PTL DEF Spec

\* When every Reader is a live capture, each method returns NULL exactly when a
\* Python exception is pending: the break flag is consumed by the read that set
\* it, so the bare `return NULL` for -2 always has an exception behind it.
THEOREM LiveResultConvention ==
  ASSUME Live = Readers
  PROVE  Spec => []ResultConvention
<1>1. IInv /\ LInv => ResultConvention
  BY DEF IInv, TypeOK, LInv, LiveResults, ResultConvention
<1> QED BY <1>1, Invariance, LiveInvariance, PTL

-----------------------------------------------------------------------------
\* What a call may have in its C buffer: nothing if it takes a callback, one packet
\* at its end if it is next, and then without an error.
MayHold(t) ==
  /\ op[t] \in CallbackOps => held[on[t]] = 0
  /\ op[t] = "next" /\ pc[t] = "reading" => want[t] = 1 /\ held[on[t]] = 0
  /\ op[t] = "next" /\ held[on[t]] # 0 => rc[t] >= 0

HInv ==
  /\ \A r \in Readers : ~Busy(r) => held[r] = 0
  /\ \A t \in Threads : pc[t] # "python" => MayHold(t)

LEMMA InitHolds == Init => HInv
  BY DEF Init, HInv, Busy

\* A step of a call keeps what the other threads and Readers need.
LEMMA OwnStep ==
  ASSUME IInv, HInv, NEW t \in Threads, pc[t] # "python", UNCHANGED <<op, on>>,
         \A u \in Threads \ {t} : pc'[u] = pc[u] /\ want'[u] = want[u] /\ rc'[u] = rc[u],
         \A q \in Readers \ {on[t]} : held'[q] = held[q],
         \/ pc'[t] = "python" /\ held'[on[t]] = 0
         \/ pc'[t] # "python" /\ MayHold(t)'
  PROVE  HInv'
  <1>1. on[t] \in Readers /\ \A u \in Threads \ {t} : pc[u] # "python" => on[u] \in Readers \ {on[t]}
    BY DEF IInv, TypeOK, OneCallPerReader
  <1>2. ASSUME NEW q \in Readers, ~Busy(q)' PROVE held'[q] = 0
    <2>1. CASE q = on[t]
      BY <1>2, <2>1 DEF Busy
    <2>2. CASE q # on[t]
      BY <1>2, <2>2 DEF Busy, HInv
    <2> QED
      BY <2>1, <2>2
  <1>3. ASSUME NEW u \in Threads, u # t, pc'[u] # "python" PROVE MayHold(u)'
    BY <1>1, <1>3 DEF HInv, MayHold
  <1> QED
    BY <1>2, <1>3 DEF HInv

\* A read of next is over after one packet.
LEMMA NextIsOver ==
  ASSUME IInv, NEW t \in Threads, op[t] = "next", NEW n \in Nat, ReadEnds(t, n)
  PROVE  pc'[t] = "finishing" /\ (n # 0 => rc'[t] >= 0)
  <1>1. op[t] \notin LoopOps /\ op[t] \notin {"dispatch", "next_batch"}
    BY DEF LoopOps
  <1>2. Return(t, IF n = 0 /\ on[t] \notin Live THEN BREAK ELSE n)
    BY <1>1 DEF ReadEnds
  <1> QED
    BY <1>2 DEF IInv, TypeOK, Return

\* A call that has read nothing into its buffer has nothing in it afterwards.
LEMMA NothingRead ==
  ASSUME IInv, HInv, NEW t \in Threads, pc[t] = "reading", Moves(t),
         UNCHANGED <<op, on, held>>, op[t] = "next" => pc'[t] = "finishing"
  PROVE  HInv'
  <1>1. pc'[t] # "python" /\ \A u \in Threads \ {t} : pc'[u] = pc[u]
    BY DEF Moves, IInv, TypeOK
  <1>2. MayHold(t)
    BY DEF HInv
  <1>3. MayHold(t)'
    BY <1>1, <1>2 DEF MayHold
  <1> QED
    BY <1>1, <1>3, OwnStep DEF Moves

LEMMA ReadsHold ==
  ASSUME IInv, HInv, NEW t \in Threads,
         \/ ReadBreaks(t) \/ ReadRunsDry(t)
         \/ ReadPacketForPython(t) \/ ReadPacketIntoBuffer(t)
  PROVE  HInv'
  <1>1. /\ TypeOK /\ on[t] \in Readers /\ got[t] \in Nat /\ held[on[t]] \in Nat
        /\ pc[t] = "reading" /\ (want[t] = 0 \/ got[t] < want[t]) /\ MayHold(t)
        /\ UNCHANGED <<op, on>>
    BY DEF IInv, TypeOK, WithinCount, HInv, ReadBreaks, ReadRunsDry, ReadPacketForPython,
           ReadPacketIntoBuffer
  <1>2. ERROR \in Int /\ BREAK \in Int
    BY DEF ERROR, BREAK
  <1>3. ASSUME NEW n \in Nat, n =< got[t], ReadEnds(t, n)
        PROVE  Moves(t) /\ (op[t] = "next" => pc'[t] = "finishing")
    <2>1. want[t] = 0 \/ n =< want[t]
      BY <1>1, <1>3 DEF TypeOK
    <2>2. Moves(t)
      BY <1>1, <1>3, <2>1, ReadEndsMoves
    <2> QED
      BY <1>3, <2>2, NextIsOver
  <1>4. ASSUME NEW code \in Int, Return(t, code)
        PROVE  Moves(t) /\ (op[t] = "next" => pc'[t] = "finishing")
    BY <1>1, <1>4, ReturnMoves DEF Return, TypeOK
  <1>5. CASE ReadBreaks(t)
    <2>1. Moves(t) /\ (op[t] = "next" => pc'[t] = "finishing")
      BY <1>1, <1>2, <1>3, <1>4, <1>5 DEF ReadBreaks
    <2> QED
      BY <1>1, <1>5, <2>1, NothingRead DEF ReadBreaks
  <1>6. CASE ReadRunsDry(t)
    <2>1. \/ Return(t, ERROR)
          \/ \E n \in {0, got[t]} : ReadEnds(t, n)
      BY <1>6 DEF ReadRunsDry
    <2>2. Moves(t) /\ (op[t] = "next" => pc'[t] = "finishing")
      BY <1>1, <1>2, <1>3, <1>4, <2>1
    <2> QED
      BY <1>1, <1>6, <2>2, NothingRead DEF ReadRunsDry, readerVars
  <1>7. CASE ReadPacketForPython(t)
    <2>1. op[t] \in CallbackOps /\ op[t] # "next" /\ UNCHANGED held
      BY <1>7 DEF ReadPacketForPython, CallbackOps
    <2>2. CASE pc' = [pc EXCEPT ![t] = "entering"] /\ UNCHANGED <<want, got, rc>>
      <3>1. pc'[t] = "entering" /\ \A u \in Threads \ {t} : pc'[u] = pc[u]
        BY <1>1, <2>2 DEF TypeOK
      <3> QED
        BY <1>1, <2>1, <2>2, <3>1, OwnStep DEF MayHold
    <2>3. CASE NextPacket(t, got[t] + 1)
      BY <1>1, <2>1, <2>3, NextPacketMoves, NothingRead
    <2> QED
      BY <1>7, <2>2, <2>3 DEF ReadPacketForPython
  <1>8. CASE ReadPacketIntoBuffer(t)
    <2>1. /\ op[t] \notin CallbackOps /\ NextPacket(t, got[t] + 1)
          /\ \A q \in Readers \ {on[t]} : held'[q] = held[q]
      BY <1>1, <1>8 DEF ReadPacketIntoBuffer, TypeOK
    <2>2. Moves(t)
      BY <1>1, <2>1, NextPacketMoves
    <2>3. pc'[t] # "python" /\ \A u \in Threads \ {t} : pc'[u] = pc[u]
      BY <1>1, <2>2 DEF Moves, TypeOK
    <2>4. op[t] = "next" => pc'[t] = "finishing" /\ rc'[t] >= 0
      <3>1. SUFFICES ASSUME op[t] = "next" PROVE pc'[t] = "finishing" /\ rc'[t] >= 0
        OBVIOUS
      <3>2. want[t] = 1 /\ got[t] + 1 = want[t]
        BY <1>1, <3>1 DEF MayHold
      <3>3. ReadEnds(t, got[t] + 1) /\ got[t] + 1 \in Nat /\ got[t] + 1 # 0
        BY <1>1, <2>1, <3>2 DEF NextPacket
      <3> HIDE DEF ReadEnds
      <3> QED
        BY <3>1, <3>3, NextIsOver
    <2>5. MayHold(t)'
      BY <1>1, <2>1, <2>3, <2>4 DEF MayHold
    <2> QED
      BY <1>1, <2>1, <2>2, <2>3, <2>5, OwnStep DEF Moves
  <1> QED
    BY <1>5, <1>6, <1>7, <1>8

LEMMA PythonHolds ==
  ASSUME IInv, HInv, NEW t \in Threads,
         \/ SwitchOut(t) \/ SwitchIn(t)
         \/ \E r \in Readers, o \in Ops, n \in Counts : Call(t, r, o, n)
         \/ \E r \in Readers, o \in Ops : CallClosed(t, r, o)
         \/ \E r \in Readers : Close(t, r)
  PROVE  HInv'
  <1>1. CASE SwitchOut(t) \/ SwitchIn(t) \/ \E r \in Readers : Close(t, r)
    BY <1>1 DEF SwitchOut, SwitchIn, Close, threadVars, readerVars, HInv, MayHold, Busy
  <1>2. ASSUME NEW r \in Readers, NEW o \in Ops, NEW n \in Counts, Call(t, r, o, n)
        PROVE  HInv'
    <2>1. /\ held[r] = 0 /\ \A u \in Threads \ {t} : pc[u] # "python" => on[u] # r
          /\ pc[t] = "python" /\ UNCHANGED <<held, rc>> /\ (o = "next" => n = 1)
      BY <1>2 DEF Call, HInv, Busy, readerVars
    <2>2. /\ pc'[t] = "reading" /\ op'[t] = o /\ on'[t] = r /\ (o = "next" => want'[t] = n)
          /\ \A u \in Threads \ {t} : /\ pc'[u] = pc[u] /\ op'[u] = op[u] /\ on'[u] = on[u]
                                      /\ want'[u] = want[u]
      BY <1>2 DEF Call, Limit, IInv, TypeOK
    <2>3. MayHold(t)'
      BY <2>1, <2>2 DEF MayHold
    <2>4. ASSUME NEW u \in Threads, u # t, pc'[u] # "python" PROVE MayHold(u)'
      BY <2>1, <2>2, <2>4 DEF MayHold, HInv
    <2>5. ASSUME NEW q \in Readers, ~Busy(q)' PROVE held'[q] = 0
      BY <2>1, <2>2, <2>5 DEF Busy, HInv
    <2> QED
      BY <2>3, <2>4, <2>5 DEF HInv
  <1>3. ASSUME NEW r \in Readers, NEW o \in Ops, CallClosed(t, r, o)
        PROVE  HInv'
    <2>1. /\ pc[t] = "python" /\ UNCHANGED <<pc, want, rc, held>>
          /\ \A u \in Threads \ {t} : op'[u] = op[u] /\ on'[u] = on[u]
      BY <1>3 DEF CallClosed, IInv, TypeOK, readerVars
    <2>2. \A u \in Threads : pc[u] # "python" => u # t
      BY <2>1
    <2> QED
      BY <2>1, <2>2 DEF HInv, MayHold, Busy
  <1> QED
    BY <1>1, <1>2, <1>3

LEMMA CallbacksHold ==
  ASSUME IInv, HInv, NEW t \in Threads,
         EnterCallback(t) \/ \E raises \in BOOLEAN : LeaveCallback(t, raises)
  PROVE  HInv'
  <1>1. /\ TypeOK /\ pc[t] # "python" /\ op[t] \in CallbackOps /\ op[t] # "next"
        /\ held[on[t]] = 0 /\ UNCHANGED <<op, on, held>>
        /\ (want[t] = 0 \/ got[t] < want[t])
    BY DEF EnterCallback, LeaveCallback, IInv, CallbacksAreOurs, WithinCount, CallbackOps, HInv,
           MayHold, readerVars
  <1>2. /\ pc'[t] # "python"
        /\ \A u \in Threads \ {t} : pc'[u] = pc[u] /\ want'[u] = want[u] /\ rc'[u] = rc[u]
    <2>1. CASE EnterCallback(t)
      BY <1>1, <2>1 DEF EnterCallback, TypeOK
    <2>2. CASE \E raises \in BOOLEAN : LeaveCallback(t, raises)
      <3>1. Return(t, BREAK) \/ NextPacket(t, got[t] + 1)
        BY <2>2 DEF LeaveCallback
      <3>2. BREAK \in Int
        BY DEF BREAK
      <3>3. Moves(t)
        BY <1>1, <3>1, <3>2, ReturnMoves, NextPacketMoves
      <3> QED
        BY <1>1, <3>3 DEF Moves, TypeOK
    <2> QED
      BY <2>1, <2>2
  <1> QED
    BY <1>1, <1>2, OwnStep DEF MayHold

LEMMA FinishHolds ==
  ASSUME IInv, HInv, NEW t \in Threads, Finish(t)
  PROVE  HInv'
  <1>1. /\ pc[t] # "python" /\ pc'[t] = "python" /\ held'[on[t]] = 0
        /\ UNCHANGED <<op, on, want, rc>>
        /\ \A u \in Threads \ {t} : pc'[u] = pc[u]
        /\ \A q \in Readers \ {on[t]} : held'[q] = held[q]
    BY DEF Finish, IInv, TypeOK
  <1> QED
    BY <1>1, OwnStep

LEMMA HoldStep == IInv /\ HInv /\ [Next]_vars => HInv'
  <1> SUFFICES ASSUME IInv, HInv, [Next]_vars PROVE HInv'
    OBVIOUS
  <1>1. ASSUME NEW t \in Threads, ThreadStep(t) PROVE HInv'
    BY <1>1, PythonHolds, ReadsHold, CallbacksHold, FinishHolds DEF ThreadStep
  <1>2. CASE (\E r \in Readers : Arrive(r)) \/ UNCHANGED vars
    BY <1>2 DEF Arrive, vars, threadVars, readerVars, HInv, MayHold, Busy
  <1> QED
    BY <1>1, <1>2 DEF Next

LEMMA HoldInvariance == Spec => [](IInv /\ HInv)
  BY InitEstablishes, InitHolds, StepPreserves, HoldStep, PTL DEF Spec

-----------------------------------------------------------------------------
\* Every packet that leaves the handle goes into a callback or into the buffer, but
\* the one that next_batch passes over.
LEMMA ReadsLoseOne ==
  ASSUME TypeOK, NEW t \in Threads, NEW r \in Readers,
         ReadPacketForPython(t) \/ ReadPacketIntoBuffer(t)
  PROVE  Lost(r)' = Lost(r) \/ PassesOver(t, r)
  <1>1. CASE ReadPacketForPython(t)
    BY <1>1 DEF ReadPacketForPython, TypeOK, Lost
  <1>2. CASE ReadPacketIntoBuffer(t)
    <2>1. /\ on[t] \in Readers /\ pc[t] = "reading" /\ left' = [left EXCEPT ![on[t]] = @ - 1]
          /\ UNCHANGED <<handed, total>>
      BY <1>2 DEF ReadPacketIntoBuffer, TypeOK
    <2>2. CASE held' = [held EXCEPT ![on[t]] = @ + 1]
      BY <2>1, <2>2 DEF TypeOK, Lost
    <2>3. CASE /\ op[t] = "next_batch" /\ missed' = [missed EXCEPT ![t] = @ + 1]
               /\ UNCHANGED held
      <3>1. CASE r = on[t]
        <4>1. missed'[t] = missed[t] + 1
          BY <2>3 DEF TypeOK
        <4>2. Lost(r)' = Lost(r) + 1
          BY <2>1, <2>3, <3>1 DEF TypeOK, Lost
        <4> QED
          BY <2>1, <2>3, <3>1, <4>1, <4>2 DEF PassesOver
      <3>2. CASE r # on[t]
        BY <2>1, <2>3, <3>2 DEF TypeOK, Lost
      <3> QED
        BY <3>1, <3>2
    <2> QED
      BY <1>2, <2>2, <2>3 DEF ReadPacketIntoBuffer
  <1> QED
    BY <1>1, <1>2

\* The end of a call hands over what its buffer holds, or has nothing there, but for
\* next_batch.
LEMMA FinishLosesBatches ==
  ASSUME IInv, HInv, NEW t \in Threads, NEW r \in Readers, Finish(t)
  PROVE  Lost(r)' = Lost(r) \/ FreesBatch(t, r)
  <1> DEFINE q == on[t]
  <1>1. /\ q \in Readers /\ held[q] \in Nat /\ handed[q] \in Nat /\ pc[t] = "finishing"
        /\ handed' = [handed EXCEPT ![q] = @ + HandsOver(t)] /\ held' = [held EXCEPT ![q] = 0]
        /\ ret'[t] = (IF ReturnsNull(t) THEN "NULL" ELSE "object")
        /\ UNCHANGED <<left, total>> /\ MayHold(t)
    BY DEF Finish, IInv, TypeOK, HInv
  <1>2. CASE ReturnsNull(t) /\ op[t] = "next_batch" /\ r = q
    BY <1>1, <1>2 DEF FreesBatch
  <1>3. CASE r # q
    BY <1>1, <1>3 DEF Lost, IInv, TypeOK
  <1>4. CASE r = q /\ ~ReturnsNull(t)
    <2>1. HandsOver(t) = held[q]
      BY <1>4 DEF HandsOver
    <2> QED
      BY <1>1, <1>4, <2>1 DEF Lost, IInv, TypeOK
  <1>5. CASE r = q /\ ReturnsNull(t) /\ op[t] # "next_batch"
    <2>1. HandsOver(t) = 0
      BY <1>5 DEF HandsOver
    <2>2. op[t] \in CallbackOps \/ (op[t] = "next" /\ rc[t] < 0)
      BY <1>5 DEF ReturnsNull, SetsPcapError, PendingIsNull, CallbackOps, LoopOps, AllOps, IInv, TypeOK
    <2>3. held[q] = 0
      <3>1. rc[t] \in Int
        BY DEF IInv, TypeOK
      <3> QED
        BY <1>1, <2>2, <3>1 DEF MayHold
    <2> QED
      BY <1>1, <1>5, <2>1, <2>3 DEF Lost, IInv, TypeOK
  <1> QED
    BY <1>2, <1>3, <1>4, <1>5

LEMMA StepLosesBatches == IInv /\ HInv /\ [Next]_vars => [LosesOnlyBatches]_vars
  <1> SUFFICES ASSUME IInv, HInv, Next, NEW r \in Readers
               PROVE  Lost(r)' = Lost(r)
                      \/ \E t \in Threads : FreesBatch(t, r) \/ PassesOver(t, r)
    BY DEF LosesOnlyBatches
  <1>1. ASSUME NEW t \in Threads, ThreadStep(t)
        PROVE  Lost(r)' = Lost(r) \/ FreesBatch(t, r) \/ PassesOver(t, r)
    <2>1. CASE ReadPacketForPython(t) \/ ReadPacketIntoBuffer(t)
      BY <2>1, ReadsLoseOne DEF IInv
    <2>2. CASE Finish(t)
      BY <2>2, FinishLosesBatches
    <2>3. CASE \/ SwitchOut(t) \/ SwitchIn(t) \/ ReadBreaks(t) \/ ReadRunsDry(t) \/ EnterCallback(t)
               \/ \E q \in Readers, o \in Ops, n \in Counts : Call(t, q, o, n)
               \/ \E q \in Readers, o \in Ops : CallClosed(t, q, o)
               \/ \E q \in Readers : Close(t, q)
               \/ \E raises \in BOOLEAN : LeaveCallback(t, raises)
      <3>1. UNCHANGED <<left, held, handed, total>>
        BY <2>3 DEF SwitchOut, SwitchIn, ReadBreaks, ReadRunsDry, EnterCallback, Call, CallClosed,
                    Close, LeaveCallback, readerVars
      <3> QED
        BY <3>1 DEF Lost
    <2> QED
      BY <1>1, <2>1, <2>2, <2>3 DEF ThreadStep
  <1>2. ASSUME NEW q \in Readers, Arrive(q) PROVE Lost(r)' = Lost(r)
    BY <1>2 DEF Arrive, Lost, IInv, TypeOK
  <1> QED
    BY <1>1, <1>2 DEF Next

\* No call, on any path of its end, loses a packet, but next_batch: one that fails
\* frees what it has read, and one without memory passes over single packets.
THEOREM OnlyBatchesLosePackets == Spec => PacketsAccounted
  <1>1. Init => \A r \in Readers : Lost(r) = 0
    BY DEF Init, Lost
  <1> QED
    BY <1>1, HoldInvariance, StepLosesBatches, PTL DEF Spec, PacketsAccounted

-----------------------------------------------------------------------------
(* Savefiles that are not read again after a callback raised on them.      *)

Fresh == Readers \ (Live \cup Reused)

\* Only a callback that raised sets the flag, and its exception is pending until the
\* call is over.
FlagMeansRaised == \A r \in Fresh : brk[r] => raised[r]
RaisedIsPending ==
  \A t \in Threads : pc[t] # "python" /\ on[t] \in Fresh /\ raised[on[t]] => exc[t]
PendingHasCallback ==
  \A t \in Threads : pc[t] # "python" /\ exc[t] => op[t] \in CallbackOps

\* -2 comes from the flag, or is what pcap_next_ex says at the end of the file.
BreakIsPending ==
  \A t \in Threads :
    pc[t] = "finishing" /\ on[t] \in Fresh /\ rc[t] = BREAK /\ op[t] # "next" => exc[t]

\* A read without Python that found no packet has found the end of the file, if it
\* passed over none.
EmptyAtEnd ==
  \A t \in Threads :
    pc[t] = "finishing" /\ on[t] \in Fresh /\ op[t] \notin CallbackOps /\ held[on[t]] = 0
      /\ missed[t] = 0 => left[on[t]] = 0

\* The results: loop alone may return an object with the exception pending.
FreshResults ==
  \A t \in Threads :
    Returned(t) /\ on[t] \in Fresh =>
      /\ ret[t] = "NULL" => exc[t]
      /\ exc[t] /\ op[t] # "loop" => ret[t] = "NULL"
FreshEmpty ==
  \A t \in Threads :
    Returned(t) /\ ret[t] = "object" /\ op[t] \notin CallbackOps /\ got[t] = 0
      /\ missed[t] = 0 /\ on[t] \in Fresh => left[on[t]] = 0
CalledOps == \A t \in Threads : op[t] \in Ops \cup {"next"}

FInv ==
  /\ FlagMeansRaised /\ RaisedIsPending /\ PendingHasCallback /\ BreakIsPending /\ EmptyAtEnd
  /\ FreshResults /\ FreshEmpty /\ CalledOps

LEMMA InitFresh == Init => FInv
BY ConstantsOK
   DEF Init, FInv, FlagMeansRaised, RaisedIsPending, PendingHasCallback, BreakIsPending, EmptyAtEnd,
       FreshResults, FreshEmpty, CalledOps, Returned, Fresh

\* Only a read of pcap_next_ex ends with -2 when the flag is not set.
LEMMA BreakIsNext ==
  ASSUME TypeOK, NEW t \in Threads, NEW n \in Nat, ReadEnds(t, n) \/ NextPacket(t, n),
         pc'[t] = "finishing", rc'[t] = BREAK
  PROVE  op[t] = "next"
<1>1. n # BREAK /\ 0 # BREAK
  BY DEF BREAK
<1>2. ReadEnds(t, n) => op[t] = "next"
  BY <1>1 DEF ReadEnds, Return, ReadAgain, TypeOK
<1> QED BY <1>2 DEF NextPacket, TypeOK

\* What a step of a read has to say about its own call.
LEMMA FreshOwn ==
  ASSUME IInv, FInv, NEW t \in Threads, pc[t] = "reading",
         pc' \in {[pc EXCEPT ![t] = x] : x \in {"reading", "finishing", "entering"}},
         UNCHANGED <<op, on, exc, ret, raised>>,
         \A u \in Threads \ {t} : rc'[u] = rc[u] /\ got'[u] = got[u] /\ missed'[u] = missed[u],
         brk' = brk \/ brk' = [brk EXCEPT ![on[t]] = FALSE],
         \A q \in Readers \ {on[t]} : held'[q] = held[q],
         left' = left \/ (left[on[t]] > 0 /\ left' = [left EXCEPT ![on[t]] = @ - 1]),
         pc'[t] = "finishing" /\ on[t] \in Fresh =>
           /\ rc'[t] = BREAK /\ op[t] # "next" => exc[t]
           /\ op[t] \notin CallbackOps /\ held'[on[t]] = 0 /\ missed'[t] = 0 => left'[on[t]] = 0
  PROVE  FInv'
<1> DEFINE r == on[t]
<1>1. /\ TypeOK /\ r \in Readers /\ pc'[t] # "python"
      /\ \A u \in Threads \ {t} : pc'[u] = pc[u]
      /\ \A u \in Threads \ {t} : pc[u] # "python" => on[u] # r
      /\ \A u \in Threads : on[u] \in Readers
  BY DEF IInv, TypeOK, OneCallPerReader
<1>2. FlagMeansRaised'
  BY <1>1 DEF FInv, FlagMeansRaised, TypeOK, Fresh
<1>3. RaisedIsPending' /\ PendingHasCallback' /\ CalledOps'
  BY <1>1 DEF FInv, RaisedIsPending, PendingHasCallback, CalledOps, Fresh
<1>4. BreakIsPending'
  BY <1>1 DEF FInv, BreakIsPending, Fresh
<1>5. \A q \in Readers \ {r} : left'[q] = left[q]
  BY <1>1 DEF TypeOK
<1>6. EmptyAtEnd'
  BY <1>1, <1>5 DEF FInv, EmptyAtEnd, Fresh
<1>7. FreshResults'
  BY <1>1 DEF FInv, FreshResults, Returned, Fresh
<1>8. FreshEmpty'
  <2>1. left[r] \in Nat /\ (left[r] = 0 => left' = left)
    BY <1>1 DEF TypeOK
  <2>2. \A q \in Readers : left[q] = 0 => left'[q] = 0
    BY <1>5, <2>1
  <2> QED BY <1>1, <2>2 DEF FInv, FreshEmpty, Returned, Fresh
<1> QED BY <1>2, <1>3, <1>4, <1>6, <1>7, <1>8 DEF FInv

LEMMA FreshReads ==
  ASSUME IInv, FInv, NEW t \in Threads,
         \/ ReadBreaks(t) \/ ReadRunsDry(t)
         \/ ReadPacketForPython(t) \/ ReadPacketIntoBuffer(t)
  PROVE  FInv'
<1> DEFINE r == on[t]
<1>1. /\ TypeOK /\ r \in Readers /\ got[t] \in Nat /\ got[t] + 1 \in Nat
      /\ pc[t] = "reading" /\ (want[t] = 0 \/ got[t] < want[t])
      /\ UNCHANGED <<op, on, exc, ret, raised>>
  BY DEF IInv, TypeOK, WithinCount, ReadBreaks, ReadRunsDry, ReadPacketForPython,
         ReadPacketIntoBuffer, readerVars
<1>2. ERROR \in Int /\ BREAK \in Int /\ ERROR # BREAK /\ 0 \in Nat
  BY DEF ERROR, BREAK
<1>3. Moves(t) => /\ pc' \in {[pc EXCEPT ![t] = x] : x \in {"reading", "finishing", "entering"}}
                  /\ \A u \in Threads \ {t} : rc'[u] = rc[u] /\ got'[u] = got[u]
  BY DEF Moves
<1>4. CASE ReadBreaks(t)
  <2>1. r \in Fresh => exc[t] /\ op[t] \in CallbackOps
    BY <1>1, <1>4 DEF ReadBreaks, FInv, FlagMeansRaised, RaisedIsPending, PendingHasCallback
  <2>2. Return(t, BREAK) \/ ReadEnds(t, got[t])
    BY <1>4 DEF ReadBreaks
  <2>3. want[t] = 0 \/ got[t] =< want[t]
    BY <1>1 DEF TypeOK
  <2>4. Moves(t)
    BY <1>1, <1>2, <2>2, <2>3, ReturnMoves, ReadEndsMoves
  <2>5. UNCHANGED <<left, held, missed>> /\ (brk' = brk \/ brk' = [brk EXCEPT ![r] = FALSE])
    BY <1>4 DEF ReadBreaks
  <2> QED BY <1>1, <1>3, <2>1, <2>4, <2>5, FreshOwn
<1>5. CASE ReadRunsDry(t)
  <2>1. PICK n \in {0, got[t]} : Return(t, ERROR) \/ ReadEnds(t, n)
    BY <1>5 DEF ReadRunsDry
  <2>2. n \in Nat /\ (want[t] = 0 \/ n =< want[t])
    BY <1>1 DEF TypeOK
  <2>3. Moves(t)
    BY <1>1, <1>2, <2>1, <2>2, ReturnMoves, ReadEndsMoves
  <2>4. pc'[t] = "finishing" /\ rc'[t] = BREAK => op[t] = "next"
    <3>1. CASE Return(t, ERROR)
      BY <1>1, <1>2, <3>1 DEF Return, TypeOK
    <3>2. CASE ReadEnds(t, n)
      BY <1>1, <2>2, <3>2, BreakIsNext
    <3> QED BY <2>1, <3>1, <3>2
  <2>5. UNCHANGED <<left, held, brk, missed>> /\ left[r] = 0
    BY <1>5 DEF ReadRunsDry, readerVars
  <2> QED BY <1>1, <1>3, <2>3, <2>4, <2>5, FreshOwn
<1>6. CASE ReadPacketForPython(t)
  <2>1. /\ UNCHANGED <<held, brk, missed>> /\ op[t] \in CallbackOps
        /\ left[r] > 0 /\ left' = [left EXCEPT ![r] = @ - 1]
    BY <1>6 DEF ReadPacketForPython
  <2>2. CASE pc' = [pc EXCEPT ![t] = "entering"] /\ UNCHANGED <<want, got, rc>>
    <3>1. pc'[t] = "entering"
      BY <1>1, <2>2 DEF TypeOK
    <3> QED BY <1>1, <2>1, <2>2, <3>1, FreshOwn
  <2>3. CASE NextPacket(t, got[t] + 1)
    <3>1. Moves(t)
      BY <1>1, <2>3, NextPacketMoves
    <3>2. pc'[t] = "finishing" /\ rc'[t] = BREAK => op[t] = "next"
      BY <1>1, <2>3, BreakIsNext
    <3> QED BY <1>1, <1>3, <2>1, <3>1, <3>2, FreshOwn
  <2> QED BY <1>6, <2>2, <2>3 DEF ReadPacketForPython
<1>7. CASE ReadPacketIntoBuffer(t)
  <2>1. /\ UNCHANGED brk /\ NextPacket(t, got[t] + 1)
        /\ \/ held' = [held EXCEPT ![r] = @ + 1] /\ UNCHANGED missed
           \/ missed' = [missed EXCEPT ![t] = @ + 1] /\ UNCHANGED held
        /\ left[r] > 0 /\ left' = [left EXCEPT ![r] = @ - 1]
    BY <1>7 DEF ReadPacketIntoBuffer
  <2>2. Moves(t)
    BY <1>1, <2>1, NextPacketMoves
  <2>3. pc'[t] = "finishing" /\ rc'[t] = BREAK => op[t] = "next"
    BY <1>1, <2>1, BreakIsNext
  <2>4. /\ held'[r] # 0 \/ missed'[t] # 0
        /\ \A q \in Readers \ {r} : held'[q] = held[q]
        /\ \A u \in Threads \ {t} : missed'[u] = missed[u]
    BY <1>1, <2>1 DEF TypeOK
  <2> QED BY <1>1, <1>3, <2>1, <2>2, <2>3, <2>4, FreshOwn
<1> QED BY <1>4, <1>5, <1>6, <1>7

\* A raised exception is noted with the Reader, the flag and the thread at once.
LEMMA FreshLeave ==
  ASSUME IInv, FInv, NEW t \in Threads, NEW raises \in BOOLEAN, LeaveCallback(t, raises)
  PROVE  FInv'
<1> DEFINE r == on[t]
<1>1. /\ TypeOK /\ r \in Readers /\ got[t] + 1 \in Nat
      /\ pc[t] = "callback" /\ op[t] \in CallbackOps /\ op[t] # "next" /\ ~exc[t]
      /\ want[t] = 0 \/ got[t] < want[t]
      /\ UNCHANGED <<op, on, ret, left, held, missed>>
      /\ exc' = [exc EXCEPT ![t] = raises] /\ raised' = [raised EXCEPT ![r] = @ \/ raises]
  BY DEF IInv, TypeOK, LeaveCallback, CallbacksAreOurs, NoCallbackAfterRaise, CallbackOps, WithinCount
<1>2. BREAK \in Int
  BY DEF BREAK
<1>3. Moves(t)
  BY <1>1, <1>2, ReturnMoves, NextPacketMoves DEF LeaveCallback
<1>4. /\ pc'[t] # "python" /\ pc'[t] # "callback"
      /\ \A u \in Threads \ {t} : pc'[u] = pc[u] /\ rc'[u] = rc[u] /\ got'[u] = got[u]
      /\ \A u \in Threads \ {t} : pc[u] # "python" => on[u] # r
      /\ \A u \in Threads : on[u] \in Readers
  BY <1>1, <1>3 DEF Moves, IInv, TypeOK, OneCallPerReader
<1>5. r \in Fresh => ~raised[r] /\ brk' = [brk EXCEPT ![r] = BreakOnRaise(r, raises)]
                     /\ NextPacket(t, got[t] + 1)
  BY <1>1 DEF FInv, RaisedIsPending, LeaveCallback, Fresh
<1>6. r \notin Fresh => \A q \in Fresh : brk'[q] = brk[q]
  <2>1. brk' = [brk EXCEPT ![r] = FALSE] \/ brk' = [brk EXCEPT ![r] = BreakOnRaise(r, raises)]
    BY DEF LeaveCallback
  <2> HIDE DEF BreakOnRaise
  <2> QED BY <1>1, <2>1 DEF TypeOK, Fresh
<1>7. FlagMeansRaised'
  <2> SUFFICES ASSUME NEW q \in Fresh, brk'[q] PROVE raised'[q]
    BY DEF FlagMeansRaised, Fresh
  <2>1. CASE q # r
    <3>1. brk'[q] = brk[q] /\ raised'[q] = raised[q]
      BY <1>1, <1>5, <1>6, <2>1 DEF TypeOK, Fresh
    <3> QED BY <3>1 DEF FInv, FlagMeansRaised
  <2>2. CASE q = r
    <3>1. brk[r] \/ raises
      BY <1>1, <1>5, <2>2 DEF BreakOnRaise, TypeOK
    <3>2. ~brk[r]
      BY <1>5, <2>2 DEF FInv, FlagMeansRaised
    <3> QED BY <1>1, <2>2, <3>1, <3>2 DEF TypeOK
  <2> QED BY <2>1, <2>2
<1>8. RaisedIsPending'
  <2> SUFFICES ASSUME NEW u \in Threads, pc'[u] # "python", on[u] \in Fresh, raised'[on[u]]
               PROVE  exc'[u]
    BY <1>1 DEF RaisedIsPending, Fresh
  <2>1. CASE u = t
    BY <1>1, <1>5, <2>1 DEF TypeOK
  <2>2. CASE u # t
    BY <1>1, <1>4, <2>2 DEF FInv, RaisedIsPending, TypeOK
  <2> QED BY <2>1, <2>2
<1>9. PendingHasCallback' /\ CalledOps'
  BY <1>1, <1>4 DEF FInv, PendingHasCallback, CalledOps, TypeOK
<1>10. BreakIsPending'
  <2>1. r \in Fresh => ~(pc'[t] = "finishing" /\ rc'[t] = BREAK)
    BY <1>1, <1>5, BreakIsNext
  <2> QED BY <1>1, <1>4, <2>1 DEF FInv, BreakIsPending, TypeOK, Fresh
<1>11. EmptyAtEnd'
  BY <1>1, <1>4 DEF FInv, EmptyAtEnd, Fresh
<1>12. FreshResults' /\ FreshEmpty'
  BY <1>1, <1>4 DEF FInv, FreshResults, FreshEmpty, Returned, TypeOK, Fresh
<1> QED BY <1>7, <1>8, <1>9, <1>10, <1>11, <1>12 DEF FInv

\* The end of the method finds the exception, and an empty buffer only at the end of
\* the file.
LEMMA FreshFinish ==
  ASSUME IInv, FInv, NEW t \in Threads, Finish(t)
  PROVE  FInv'
<1> DEFINE r == on[t]
<1>1. /\ TypeOK /\ r \in Readers /\ pc[t] = "finishing" /\ pc'[t] = "python"
      /\ UNCHANGED <<op, on, rc, brk, left, raised, missed>>
      /\ exc' = [exc EXCEPT ![t] = @ \/ SetsPcapError(t)]
      /\ ret' = [ret EXCEPT ![t] = IF ReturnsNull(t) THEN "NULL" ELSE "object"]
      /\ got' = [got EXCEPT ![t] = HandsOver(t)]
      /\ held' = [held EXCEPT ![r] = 0]
      /\ \A u \in Threads \ {t} : pc'[u] = pc[u]
      /\ \A u \in Threads \ {t} : pc[u] # "python" => on[u] # r
      /\ \A u \in Threads : on[u] \in Readers
  BY DEF Finish, IInv, TypeOK, OneCallPerReader
<1>2. BREAK < 0 /\ BREAK \in Int
  BY DEF BREAK
<1>3. r \in Fresh => (ReturnsNull(t) => exc[t] \/ SetsPcapError(t))
  BY <1>1, <1>2 DEF ReturnsNull, SetsPcapError, PendingIsNull, FInv, BreakIsPending, CallbackOps,
                    TypeOK
<1>4. (exc[t] \/ SetsPcapError(t)) /\ op[t] # "loop" => ReturnsNull(t)
  BY <1>1 DEF ReturnsNull, PendingIsNull, FInv, PendingHasCallback, CallbackOps
<1>5. ~ReturnsNull(t) => HandsOver(t) = held[r]
  BY DEF HandsOver
<1> HIDE DEF ReturnsNull, SetsPcapError, HandsOver
<1>6. FlagMeansRaised' /\ RaisedIsPending' /\ PendingHasCallback' /\ BreakIsPending' /\ CalledOps'
  BY <1>1 DEF FInv, FlagMeansRaised, RaisedIsPending, PendingHasCallback, BreakIsPending, CalledOps,
              TypeOK, Fresh
<1>7. EmptyAtEnd'
  BY <1>1 DEF FInv, EmptyAtEnd, TypeOK, Fresh
<1>8. FreshResults'
  <2> SUFFICES ASSUME NEW u \in Threads, Returned(u)', on[u] \in Fresh
               PROVE  /\ ret'[u] = "NULL" => exc'[u]
                      /\ exc'[u] /\ op[u] # "loop" => ret'[u] = "NULL"
    BY <1>1 DEF FreshResults, Fresh
  <2>1. CASE u = t
    BY <1>1, <1>3, <1>4, <2>1 DEF TypeOK
  <2>2. CASE u # t
    BY <1>1, <2>2 DEF FInv, FreshResults, Returned, TypeOK
  <2> QED BY <2>1, <2>2
<1>9. FreshEmpty'
  <2> SUFFICES ASSUME NEW u \in Threads, Returned(u)', ret'[u] = "object", op[u] \notin CallbackOps,
                      got'[u] = 0, missed[u] = 0, on[u] \in Fresh
               PROVE  left[on[u]] = 0
    BY <1>1 DEF FreshEmpty, Fresh
  <2>1. CASE u = t
    <3>1. ~ReturnsNull(t) /\ HandsOver(t) = 0
      BY <1>1, <2>1 DEF TypeOK
    <3>2. held[r] = 0
      BY <1>5, <3>1
    <3> QED BY <1>1, <2>1, <3>2 DEF FInv, EmptyAtEnd
  <2>2. CASE u # t
    BY <1>1, <2>2 DEF FInv, FreshEmpty, Returned, TypeOK
  <2> QED BY <2>1, <2>2
<1> QED BY <1>6, <1>7, <1>8, <1>9 DEF FInv

LEMMA FreshOthers ==
  ASSUME IInv, FInv, NEW t \in Threads,
         \/ SwitchOut(t) \/ SwitchIn(t) \/ EnterCallback(t)
         \/ \E r \in Readers, o \in Ops, n \in Counts : Call(t, r, o, n)
         \/ \E r \in Readers, o \in Ops : CallClosed(t, r, o)
         \/ \E r \in Readers : Close(t, r)
  PROVE  FInv'
<1> USE DEF FInv, FlagMeansRaised, RaisedIsPending, PendingHasCallback, BreakIsPending, EmptyAtEnd,
            FreshResults, FreshEmpty, CalledOps, Returned, Fresh
<1>1. CASE SwitchOut(t) \/ SwitchIn(t) \/ \E r \in Readers : Close(t, r)
  BY <1>1 DEF SwitchOut, SwitchIn, Close, threadVars, readerVars
<1>2. CASE EnterCallback(t)
  BY <1>2 DEF EnterCallback, readerVars, IInv, TypeOK
<1>3. ASSUME NEW r \in Readers, NEW o \in Ops, NEW n \in Counts, Call(t, r, o, n)
      PROVE  FInv'
  <2>1. /\ r \in Fresh => ~raised[r]
        /\ pc[t] = "python" /\ pc'[t] = "reading" /\ on'[t] = r /\ op'[t] = o /\ exc'[t] = FALSE
        /\ ret'[t] = "none"
        /\ \A u \in Threads \ {t} : /\ pc'[u] = pc[u] /\ on'[u] = on[u] /\ op'[u] = op[u]
                                    /\ exc'[u] = exc[u] /\ ret'[u] = ret[u] /\ got'[u] = got[u]
                                    /\ missed'[u] = missed[u]
        /\ UNCHANGED <<rc, readerVars>>
    BY <1>3 DEF Call, IInv, TypeOK
  <2> QED BY <2>1 DEF readerVars
<1>4. ASSUME NEW r \in Readers, NEW o \in Ops, CallClosed(t, r, o)
      PROVE  FInv'
  <2>1. /\ pc[t] = "python" /\ on'[t] = r /\ op'[t] = o /\ exc'[t] = TRUE /\ ret'[t] = "NULL"
        /\ \A u \in Threads \ {t} : /\ on'[u] = on[u] /\ op'[u] = op[u]
                                    /\ exc'[u] = exc[u] /\ ret'[u] = ret[u]
        /\ UNCHANGED <<pc, got, rc, missed, readerVars>>
    BY <1>4 DEF CallClosed, IInv, TypeOK
  <2> QED BY <2>1 DEF readerVars
<1> QED BY <1>1, <1>2, <1>3, <1>4

LEMMA FreshInvariance == Spec => []FInv
<1>1. IInv /\ FInv /\ [Next]_vars => FInv'
  <2> SUFFICES ASSUME IInv, FInv, [Next]_vars PROVE FInv'
    OBVIOUS
  <2>1. ASSUME NEW t \in Threads, ThreadStep(t) PROVE FInv'
    BY <2>1, FreshReads, FreshLeave, FreshFinish, FreshOthers DEF ThreadStep
  <2>2. ASSUME NEW r \in Readers, Arrive(r) PROVE FInv'
    <3>1. /\ r \in Live /\ UNCHANGED <<threadVars, brk, held, raised>>
          /\ \A q \in Readers \ {r} : left'[q] = left[q]
      BY <2>2 DEF Arrive, IInv, TypeOK
    <3> QED BY <3>1 DEF threadVars, FInv, FlagMeansRaised, RaisedIsPending, PendingHasCallback,
                        BreakIsPending, EmptyAtEnd, FreshResults, FreshEmpty, CalledOps, Returned,
                        Fresh
  <2>3. CASE UNCHANGED vars
    BY <2>3 DEF vars, threadVars, readerVars, FInv, FlagMeansRaised, RaisedIsPending,
                PendingHasCallback, BreakIsPending, EmptyAtEnd, FreshResults, FreshEmpty, CalledOps,
                Returned, Fresh
  <2> QED BY <2>1, <2>2, <2>3 DEF Next
<1> QED BY <1>1, InitFresh, Invariance, PTL DEF Spec

\* If no savefile is read again after a callback raised on it, and loop is left out,
\* which does not look at PyErr_Occurred after pcap_loop, every method returns NULL exactly
\* when an exception is pending: on savefiles and live captures, for any calls of any threads.
THEOREM ResultConventionHolds ==
  ASSUME Reused \subseteq Live, "loop" \notin Ops
  PROVE  Spec => []ResultConvention
<1>1. IInv /\ LInv /\ FInv => ResultConvention
  <2> SUFFICES ASSUME IInv, LInv, FInv, NEW t \in Threads, Returned(t)
               PROVE  ret[t] = "NULL" <=> exc[t]
    BY DEF ResultConvention
  <2>1. on[t] \in Live \/ on[t] \in Fresh
    BY DEF IInv, TypeOK, Fresh
  <2>2. op[t] # "loop"
    BY DEF FInv, CalledOps
  <2> QED BY <2>1, <2>2 DEF LInv, LiveResults, FInv, FreshResults
<1> QED BY <1>1, Invariance, LiveInvariance, FreshInvariance, PTL

\* loop included, no method returns NULL without an exception on such Readers: the break
\* flag, once consumed, always has the exception of the callback behind it.
THEOREM NullMeansException ==
  ASSUME Reused \subseteq Live
  PROVE  Spec => []NullHasException
<1>1. IInv /\ LInv /\ FInv => NullHasException
  <2> SUFFICES ASSUME IInv, LInv, FInv, NEW t \in Threads, Returned(t), ret[t] = "NULL"
               PROVE  exc[t]
    BY DEF NullHasException
  <2>1. on[t] \in Live \/ on[t] \in Fresh
    BY DEF IInv, TypeOK, Fresh
  <2> QED BY <2>1 DEF LInv, LiveResults, FInv, FreshResults
<1> QED BY <1>1, Invariance, LiveInvariance, FreshInvariance, PTL

\* On such a savefile an empty result of next or next_batch means that no packet is
\* left, unless next_batch had no memory for a packet it read.
THEOREM EmptyResultIsTheEnd ==
  ASSUME Reused \subseteq Live
  PROVE  Spec => []EmptyMeansEnd
<1>1. IInv /\ FInv => EmptyMeansEnd
  <2> SUFFICES ASSUME IInv, FInv, NEW t \in Threads, Returned(t), ret[t] = "object",
                      op[t] \in {"next", "next_batch"}, got[t] = 0, missed[t] = 0, on[t] \notin Live
               PROVE  left[on[t]] = 0
    BY DEF EmptyMeansEnd
  <2>1. on[t] \in Fresh /\ op[t] \notin CallbackOps
    BY DEF IInv, TypeOK, Fresh, CallbackOps
  <2> QED BY <2>1 DEF FInv, FreshEmpty
<1> QED BY <1>1, Invariance, FreshInvariance, PTL

-----------------------------------------------------------------------------
\* pcap_loop without a count ends at the end of the file, or with -2 and the exception
\* of the callback that broke it off.
LoopEnds ==
  \A t \in Threads :
    pc[t] = "finishing" /\ on[t] \in Fresh /\ op[t] \in LoopOps /\ want[t] = 0
      => left[on[t]] = 0 \/ (exc[t] /\ rc[t] = BREAK)

FreshLoops ==
  \A t \in Threads :
    Returned(t) /\ ret[t] = "object" /\ op[t] \in LoopOps /\ want[t] = 0 /\ on[t] \in Fresh
      => left[on[t]] = 0

UInv == LoopEnds /\ FreshLoops

\* A packet never ends a loop without a count.
LEMMA UnlimitedGoesOn ==
  ASSUME TypeOK, NEW t \in Threads, op[t] \in LoopOps, want[t] = 0, NEW n \in Nat \ {0},
         ReadEnds(t, n) \/ NextPacket(t, n)
  PROVE  pc'[t] = "reading"
<1>1. op[t] \notin {"dispatch", "next_batch", "next"}
  BY DEF LoopOps
<1>2. CASE ReadEnds(t, n)
  BY <1>1, <1>2 DEF ReadEnds, ReadAgain, TypeOK
<1>3. CASE NextPacket(t, n)
  BY <1>3 DEF NextPacket, TypeOK
<1> QED BY <1>2, <1>3

LEMMA NextUnlimited ==
  ASSUME TypeOK, NEW t \in Threads, op[t] \in LoopOps, NextPacket(t, got[t] + 1)
  PROVE  want'[t] = 0 => pc'[t] = "reading"
<1>1. got[t] \in Nat /\ want[t] \in Nat
  BY DEF TypeOK
<1>2. PICK n \in {got[t] + 1} : TRUE
  OBVIOUS
<1>3. n \in Nat \ {0} /\ NextPacket(t, n)
  BY <1>1, <1>2
<1>4. CASE want[t] = 0
  BY <1>3, <1>4, UnlimitedGoesOn
<1>5. CASE want[t] # 0 /\ n # want[t]
  BY <1>3, <1>5 DEF NextPacket, TypeOK
<1>6. CASE want[t] # 0 /\ n = want[t]
  <2>1. op[t] \notin {"dispatch", "next_batch", "next"}
    BY DEF LoopOps
  <2>2. ReadEnds(t, n)
    BY <1>3, <1>6 DEF NextPacket
  <2> QED BY <1>3, <1>6, <2>1, <2>2 DEF ReadEnds, Return, ReadAgain, TypeOK
<1> QED BY <1>1, <1>4, <1>5, <1>6

\* What a step of a read has to say about its own loop.
LEMMA UnlimitedOwn ==
  ASSUME IInv, UInv, NEW t \in Threads, pc[t] \in {"reading", "callback"}, pc'[t] # "python",
         \A u \in Threads \ {t} : pc'[u] = pc[u] /\ want'[u] = want[u] /\ rc'[u] = rc[u]
                                  /\ exc'[u] = exc[u],
         UNCHANGED <<op, on, ret>>,
         left' = left \/ (left[on[t]] > 0 /\ left' = [left EXCEPT ![on[t]] = @ - 1]),
         pc'[t] = "finishing" /\ on[t] \in Fresh /\ op[t] \in LoopOps /\ want'[t] = 0
           => left'[on[t]] = 0 \/ (exc'[t] /\ rc'[t] = BREAK)
  PROVE  UInv'
<1>1. /\ \A u \in Threads \ {t} : pc[u] # "python" => on[u] # on[t]
      /\ \A u \in Threads : on[u] \in Readers
  BY DEF IInv, TypeOK, OneCallPerReader
<1>2. /\ \A q \in Readers \ {on[t]} : left'[q] = left[q]
      /\ \A q \in Readers : left[q] = 0 => left'[q] = 0
  BY <1>1 DEF IInv, TypeOK
<1>3. LoopEnds'
  <2> SUFFICES ASSUME NEW u \in Threads, pc'[u] = "finishing", on[u] \in Fresh, op[u] \in LoopOps,
                      want'[u] = 0
               PROVE  left'[on[u]] = 0 \/ (exc'[u] /\ rc'[u] = BREAK)
    BY DEF LoopEnds, Fresh
  <2>1. CASE u = t
    BY <2>1
  <2>2. CASE u # t
    BY <1>1, <1>2, <2>2 DEF UInv, LoopEnds
  <2> QED BY <2>1, <2>2
<1>4. FreshLoops'
  <2> SUFFICES ASSUME NEW u \in Threads, Returned(u)', ret[u] = "object", op[u] \in LoopOps,
                      want'[u] = 0, on[u] \in Fresh
               PROVE  left'[on[u]] = 0
    BY DEF FreshLoops, Fresh
  <2>1. u # t
    BY DEF Returned
  <2> QED BY <1>1, <1>2, <2>1 DEF UInv, FreshLoops, Returned
<1> QED BY <1>3, <1>4 DEF UInv

LEMMA UnlimitedReads ==
  ASSUME IInv, FInv, UInv, NEW t \in Threads,
         \/ ReadBreaks(t) \/ ReadRunsDry(t)
         \/ ReadPacketForPython(t) \/ ReadPacketIntoBuffer(t)
  PROVE  UInv'
<1> DEFINE r == on[t]
<1>1. /\ TypeOK /\ r \in Readers /\ got[t] \in Nat /\ got[t] + 1 \in Nat \ {0}
      /\ pc[t] = "reading" /\ (want[t] = 0 \/ got[t] < want[t])
      /\ UNCHANGED <<op, on, exc, ret>>
  BY DEF IInv, TypeOK, WithinCount, ReadBreaks, ReadRunsDry, ReadPacketForPython,
         ReadPacketIntoBuffer, readerVars
<1>2. ERROR \in Int /\ BREAK \in Int /\ 0 \in Nat
  BY DEF ERROR, BREAK
<1>3. Moves(t) => /\ pc'[t] \in {"reading", "finishing"}
                  /\ \A u \in Threads \ {t} : pc'[u] = pc[u] /\ want'[u] = want[u] /\ rc'[u] = rc[u]
  BY <1>1 DEF Moves, TypeOK
<1>4. CASE ReadBreaks(t)
  <2>1. PICK n \in {got[t]} : \/ Return(t, BREAK)
                            \/ (got[t] # 0 /\ r \notin Live /\ ReadEnds(t, n))
    BY <1>4 DEF ReadBreaks
  <2>2. Moves(t)
    BY <1>1, <1>2, <2>1, ReturnMoves, ReadEndsMoves DEF TypeOK
  <2>3. r \in Fresh => exc[t]
    BY <1>1, <1>4 DEF ReadBreaks, FInv, FlagMeansRaised, RaisedIsPending
  <2>4. ASSUME pc'[t] = "finishing", r \in Fresh, op[t] \in LoopOps, want'[t] = 0
        PROVE  exc[t] /\ rc'[t] = BREAK
    <3>1. CASE Return(t, BREAK)
      BY <1>1, <2>3, <2>4, <3>1 DEF Return, TypeOK
    <3>2. CASE got[t] # 0 /\ ReadEnds(t, got[t])
      <4>1. want[t] = 0
        BY <1>1, <2>4, <3>2 DEF ReadEnds, Return, ReadAgain, LoopOps, TypeOK
      <4>2. got[t] \in Nat \ {0}
        BY <1>1, <3>2
      <4> QED BY <1>1, <2>4, <3>2, <4>1, <4>2, UnlimitedGoesOn
    <3> QED BY <2>1, <3>1, <3>2
  <2>5. UNCHANGED left
    BY <1>4 DEF ReadBreaks
  <2> QED BY <1>1, <1>3, <2>2, <2>4, <2>5, UnlimitedOwn
<1>5. CASE ReadRunsDry(t)
  <2>1. PICK n \in {0, got[t]} : Return(t, ERROR) \/ ReadEnds(t, n)
    BY <1>5 DEF ReadRunsDry
  <2>2. n \in Nat /\ (want[t] = 0 \/ n =< want[t])
    BY <1>1 DEF TypeOK
  <2>3. Moves(t)
    BY <1>1, <1>2, <2>1, <2>2, ReturnMoves, ReadEndsMoves
  <2>4. UNCHANGED left /\ left[r] = 0
    BY <1>5 DEF ReadRunsDry, readerVars
  <2> QED BY <1>1, <1>3, <2>3, <2>4, UnlimitedOwn
<1>6. CASE ReadPacketForPython(t) \/ ReadPacketIntoBuffer(t)
  <2>1. /\ left[r] > 0 /\ left' = [left EXCEPT ![r] = @ - 1]
        /\ \/ pc' = [pc EXCEPT ![t] = "entering"] /\ UNCHANGED <<want, got, rc>>
           \/ NextPacket(t, got[t] + 1)
    BY <1>6 DEF ReadPacketForPython, ReadPacketIntoBuffer
  <2>2. CASE pc' = [pc EXCEPT ![t] = "entering"] /\ UNCHANGED <<want, got, rc>>
    <3>1. pc'[t] = "entering" /\ \A u \in Threads \ {t} : pc'[u] = pc[u]
      BY <1>1, <2>2 DEF TypeOK
    <3> QED BY <1>1, <2>1, <2>2, <3>1, UnlimitedOwn
  <2>3. CASE NextPacket(t, got[t] + 1)
    BY <1>1, <1>3, <2>1, <2>3, NextPacketMoves, NextUnlimited, UnlimitedOwn
  <2> QED BY <2>1, <2>2, <2>3
<1> QED BY <1>4, <1>5, <1>6

LEMMA UnlimitedLeaves ==
  ASSUME IInv, FInv, UInv, NEW t \in Threads, NEW raises \in BOOLEAN, LeaveCallback(t, raises)
  PROVE  UInv'
<1> DEFINE r == on[t]
<1>1. /\ TypeOK /\ r \in Readers /\ got[t] \in Nat
      /\ pc[t] = "callback" /\ (want[t] = 0 \/ got[t] < want[t])
      /\ UNCHANGED <<op, on, ret, left>> /\ \A u \in Threads \ {t} : exc'[u] = exc[u]
  BY DEF IInv, TypeOK, LeaveCallback, WithinCount
<1>2. BREAK \in Int
  BY DEF BREAK
<1>3. Moves(t)
  BY <1>1, <1>2, ReturnMoves, NextPacketMoves DEF LeaveCallback
<1>4. /\ pc'[t] # "python"
      /\ \A u \in Threads \ {t} : pc'[u] = pc[u] /\ want'[u] = want[u] /\ rc'[u] = rc[u]
  BY <1>1, <1>3 DEF Moves, TypeOK
<1>5. r \in Fresh => NextPacket(t, got[t] + 1)
  BY DEF LeaveCallback, Fresh
<1> QED BY <1>1, <1>4, <1>5, NextUnlimited, UnlimitedOwn

LEMMA UnlimitedFinish ==
  ASSUME IInv, FInv, UInv, NEW t \in Threads, Finish(t)
  PROVE  UInv'
<1>1. /\ TypeOK /\ pc[t] = "finishing" /\ pc'[t] = "python"
      /\ UNCHANGED <<op, on, want, rc, left>>
      /\ ret' = [ret EXCEPT ![t] = IF ReturnsNull(t) THEN "NULL" ELSE "object"]
      /\ \A u \in Threads \ {t} : pc'[u] = pc[u] /\ exc'[u] = exc[u]
      /\ \A u \in Threads : on[u] \in Readers
  BY DEF Finish, IInv, TypeOK
<1>2. exc[t] /\ rc[t] = BREAK => ReturnsNull(t)
  <2>1. BREAK < 0
    BY DEF BREAK
  <2>2. exc[t] => op[t] \in CallbackOps
    BY <1>1 DEF FInv, PendingHasCallback
  <2> QED BY <2>1, <2>2 DEF ReturnsNull
<1> HIDE DEF ReturnsNull
<1>3. LoopEnds'
  BY <1>1 DEF UInv, LoopEnds, Fresh
<1>4. FreshLoops'
  <2> SUFFICES ASSUME NEW u \in Threads, Returned(u)', ret'[u] = "object", op[u] \in LoopOps,
                      want[u] = 0, on[u] \in Fresh
               PROVE  left[on[u]] = 0
    BY <1>1 DEF FreshLoops, Fresh
  <2>1. CASE u = t
    BY <1>1, <1>2, <2>1 DEF UInv, LoopEnds, TypeOK
  <2>2. CASE u # t
    BY <1>1, <2>2 DEF UInv, FreshLoops, Returned, TypeOK
  <2> QED BY <2>1, <2>2
<1> QED BY <1>3, <1>4 DEF UInv

LEMMA UnlimitedOthers ==
  ASSUME IInv, UInv, NEW t \in Threads,
         \/ SwitchOut(t) \/ SwitchIn(t) \/ EnterCallback(t)
         \/ \E r \in Readers, o \in Ops, n \in Counts : Call(t, r, o, n)
         \/ \E r \in Readers, o \in Ops : CallClosed(t, r, o)
         \/ \E r \in Readers : Close(t, r)
  PROVE  UInv'
<1> USE DEF UInv, LoopEnds, FreshLoops, Returned, Fresh
<1>1. CASE SwitchOut(t) \/ SwitchIn(t) \/ \E r \in Readers : Close(t, r)
  BY <1>1 DEF SwitchOut, SwitchIn, Close, threadVars, readerVars
<1>2. CASE EnterCallback(t)
  BY <1>2 DEF EnterCallback, readerVars, IInv, TypeOK
<1>3. ASSUME NEW r \in Readers, NEW o \in Ops, NEW n \in Counts, Call(t, r, o, n)
      PROVE  UInv'
  <2>1. /\ pc'[t] = "reading" /\ UNCHANGED <<rc, left>>
        /\ \A u \in Threads \ {t} : /\ pc'[u] = pc[u] /\ on'[u] = on[u] /\ op'[u] = op[u]
                                    /\ exc'[u] = exc[u] /\ ret'[u] = ret[u] /\ want'[u] = want[u]
    BY <1>3 DEF Call, IInv, TypeOK, readerVars
  <2>2. ret'[t] = "none"
    BY <1>3 DEF Call, IInv, TypeOK
  <2> QED BY <2>1, <2>2
<1>4. ASSUME NEW r \in Readers, NEW o \in Ops, CallClosed(t, r, o)
      PROVE  UInv'
  <2>1. /\ pc[t] = "python" /\ ret'[t] = "NULL" /\ UNCHANGED <<pc, want, rc, left>>
        /\ \A u \in Threads \ {t} : /\ on'[u] = on[u] /\ op'[u] = op[u]
                                    /\ exc'[u] = exc[u] /\ ret'[u] = ret[u]
    BY <1>4 DEF CallClosed, IInv, TypeOK, readerVars
  <2> QED BY <2>1
<1> QED BY <1>1, <1>2, <1>3, <1>4

LEMMA UnlimitedInvariance == Spec => []UInv
<1>1. Init => UInv
  BY DEF Init, UInv, LoopEnds, FreshLoops, Returned
<1>2. IInv /\ FInv /\ UInv /\ [Next]_vars => UInv'
  <2> SUFFICES ASSUME IInv, FInv, UInv, [Next]_vars PROVE UInv'
    OBVIOUS
  <2>1. ASSUME NEW t \in Threads, ThreadStep(t) PROVE UInv'
    BY <2>1, UnlimitedReads, UnlimitedLeaves, UnlimitedFinish, UnlimitedOthers DEF ThreadStep
  <2>2. ASSUME NEW r \in Readers, Arrive(r) PROVE UInv'
    <3>1. r \in Live /\ UNCHANGED threadVars /\ \A q \in Readers \ {r} : left'[q] = left[q]
      BY <2>2 DEF Arrive, IInv, TypeOK
    <3> QED BY <3>1 DEF threadVars, UInv, LoopEnds, FreshLoops, Returned, Fresh
  <2>3. CASE UNCHANGED vars
    BY <2>3 DEF vars, threadVars, readerVars, UInv, LoopEnds, FreshLoops, Returned, Fresh
  <2> QED BY <2>1, <2>2, <2>3 DEF Next
<1> QED BY <1>1, <1>2, Invariance, FreshInvariance, PTL DEF Spec

\* On such a savefile loop, loop_filtered and loop_to_buffer without a count return a
\* result only after the last packet, although loop_to_buffer does not look at what
\* pcap_loop returned and -2 ends a loop at any packet: the break flag never outlives
\* the call whose callback raised without that call failing.
THEOREM UnlimitedLoopsReadAll ==
  ASSUME Reused \subseteq Live
  PROVE  Spec => []LoopsReadAll
<1>1. IInv /\ UInv => LoopsReadAll
  BY DEF IInv, TypeOK, UInv, FreshLoops, LoopsReadAll, Fresh
<1> QED BY <1>1, Invariance, UnlimitedInvariance, PTL

=============================================================================
