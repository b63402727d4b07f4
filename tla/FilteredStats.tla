---------------------------- MODULE FilteredStats ----------------------------
(***************************************************************************)
(* The counters of loop_filtered and the threads that read them            *)
(* (pcapobj.cc: p_loop_filtered, FilteredCallBack, p_filtered_stats).      *)
(*                                                                         *)
(* One thread, LOOPER, runs loop_filtered on a Reader again and again.     *)
(* FilteredCallBack counts a packet in two words of filt_counts while      *)
(* nobody holds the interpreter lock; filtered_stats reads the words, in   *)
(* an order the compiler chooses, while its thread holds the lock.  The    *)
(* lock orders the calls of filtered_stats, so that all the other threads  *)
(* together are one, POLLER.  A word is read and written whole, as on      *)
(* 64-bit builds.                                                          *)
(***************************************************************************)
EXTENDS Integers, FiniteSets, Functions

CONSTANTS
  LOOPER, POLLER, NOBODY,  \* threads, and the holder of a free lock
  Generic, Security,       \* class indexes of the two profiles: 0 .. 2, 0 .. 5
  Masks,                   \* values of admit_mask, as sets of indexes
  Junk,                    \* what the memory of a new Reader may hold
  MaxRuns, MaxPackets      \* bounds: runs, and packets of a run

ASSUME ConstantsOK ==
  /\ LOOPER # POLLER /\ LOOPER # NOBODY /\ POLLER # NOBODY
  /\ Generic \subseteq Security /\ Security \subseteq Nat /\ IsFiniteSet(Security)
  /\ Junk \subseteq Nat /\ MaxRuns \in Nat /\ MaxPackets \in Nat

\* Words of filt_counts.
ADM == 0
DROP == 1
Word(idx) == 2 + idx
Words == {ADM, DROP} \cup {Word(idx) : idx \in Security}
Profiles == {0, 1}
Classes(p) == IF p = 1 THEN Security ELSE Generic
\* The words in the tuple of a profile.
Shown(p) == {ADM, DROP} \cup {Word(idx) : idx \in Classes(p)}

VARIABLES
  gil,      \* the thread that holds the interpreter lock
  pc,       \* where LOOPER is
  counts,   \* filt_counts
  profile,  \* filt_profile
  mask,     \* admit_mask of the run
  todo,     \* words the packet in FilteredCallBack has still to be counted in
  admit,    \* that packet is admitted
  run,      \* runs started
  packets,  \* packets of the run that were classified
  calls,    \* packets of the run that reached the Python callback
  left,     \* words filtered_stats has still to read
  part,     \* the words it has read
  before,   \* the counters when it began
  sample    \* the last tuple of filtered_stats

loopVars == <<pc, counts, profile, mask, todo, admit, run, packets, calls>>
pollVars == <<left, part, before, sample>>
vars == <<gil, loopVars, pollVars>>

Nothing == [w \in {} |-> 0]
Zeroes == [w \in Words |-> 0]

\* new_pcapobject sets neither the counters nor the profile.
Init ==
  /\ gil = NOBODY /\ pc = "python"
  /\ counts \in [Words -> Junk] /\ profile \in Profiles
  /\ mask = {} /\ todo = {} /\ admit = FALSE
  /\ run = 0 /\ packets = 0 /\ calls = 0
  /\ left = {} /\ part = Nothing /\ before = counts
  /\ sample = [run |-> -1, words |-> Nothing, from |-> Nothing, upto |-> Nothing]

-----------------------------------------------------------------------------
(* The interpreter lock.                                                   *)

\* A thread with Python code to run takes the free lock.
Take(t) ==
  /\ gil = NOBODY /\ (t = LOOPER => pc \in {"python", "callback"})
  /\ gil' = t
  /\ UNCHANGED <<loopVars, pollVars>>

\* The interpreter lets another thread run, never inside a method of the Reader.
Drop ==
  /\ gil # NOBODY /\ left = {}
  /\ gil' = NOBODY
  /\ UNCHANGED <<loopVars, pollVars>>

-----------------------------------------------------------------------------
(* p_loop_filtered.                                                        *)

\* Mutant: only the words the new run shows are set to 0.
ResetShown(p) == [w \in Words |-> IF w \in Shown(p) THEN 0 ELSE counts[w]]
\* The words a run starts with: all eight are set to 0.
Reset(p) == Zeroes

\* The run of profile p starts, and PyEval_SaveThread releases the lock.
Begin(p, m) ==
  /\ pc = "python" /\ run < MaxRuns
  /\ counts' = Reset(p) /\ profile' = p /\ mask' = m
  /\ run' = run + 1 /\ packets' = 0 /\ calls' = 0
  /\ pc' = "capture"
  /\ UNCHANGED <<todo, admit, pollVars>>

\* Mutant: the counters are reset after the lock is released.
StartUnlocked(p, m) == Begin(p, m) /\ gil' = IF gil = LOOPER THEN NOBODY ELSE gil

Start(p, m) == gil = LOOPER /\ left = {} /\ Begin(p, m) /\ gil' = NOBODY

\* Mutants of WordsOf: the class count is off by one; a dropped packet is not
\* returned early.
WordsOfNext(idx, admitted) == {Word(idx) + 1, IF admitted THEN ADM ELSE DROP}
WordsOfBoth(idx, admitted) == {Word(idx), ADM} \cup (IF admitted THEN {} ELSE {DROP})

\* The words a packet is counted in; the compiler may swap the two increments.
WordsOf(idx, admitted) == {Word(idx), IF admitted THEN ADM ELSE DROP}

\* FilteredCallBack classifies a packet; its class is any of the profile.
Classify(idx) ==
  /\ pc = "capture" /\ packets < MaxPackets
  /\ packets' = packets + 1
  /\ admit' = (idx \in mask)
  /\ todo' = WordsOf(idx, idx \in mask)
  /\ pc' = "counting"
  /\ UNCHANGED <<gil, counts, profile, mask, run, calls, pollVars>>

\* One of the increments.  A dropped packet is done with after the last one.
Count(w) ==
  /\ pc = "counting" /\ w \in todo
  /\ counts' = [counts EXCEPT ![w] = @ + 1]
  /\ todo' = todo \ {w}
  /\ pc' = IF todo' # {} THEN pc ELSE IF admit THEN "admitted" ELSE "capture"
  /\ UNCHANGED <<gil, profile, mask, admit, run, packets, calls, pollVars>>

\* PyEval_RestoreThread, and the Python callback.
EnterCallback ==
  /\ pc = "admitted" /\ gil = NOBODY
  /\ gil' = LOOPER /\ pc' = "callback" /\ calls' = calls + 1
  /\ UNCHANGED <<counts, profile, mask, todo, admit, run, packets, pollVars>>

\* PyEval_SaveThread; pcap_loop goes on, or stops because the callback raised.
LeaveCallback ==
  /\ pc = "callback" /\ gil = LOOPER /\ left = {}
  /\ gil' = NOBODY /\ pc' \in {"capture", "over"}
  /\ UNCHANGED <<counts, profile, mask, todo, admit, run, packets, calls, pollVars>>

\* The end of the savefile, the last of cnt packets, or an error.
End ==
  /\ pc = "capture" /\ pc' = "over"
  /\ UNCHANGED <<gil, counts, profile, mask, todo, admit, run, packets, calls, pollVars>>

\* The result of the run is read as filtered_stats reads, after the loop.
Return ==
  /\ pc = "over" /\ gil = NOBODY
  /\ gil' = LOOPER /\ pc' = "python"
  /\ UNCHANGED <<counts, profile, mask, todo, admit, run, packets, calls, pollVars>>

-----------------------------------------------------------------------------
(* p_filtered_stats, called by POLLER, or by LOOPER in its callback or      *)
(* between its runs.                                                       *)

StartPoll ==
  /\ gil # NOBODY /\ left = {}
  /\ left' = Shown(profile) /\ part' = Nothing /\ before' = counts
  /\ UNCHANGED <<gil, loopVars, sample>>

ReadWord(w) ==
  /\ w \in left
  /\ left' = left \ {w}
  /\ part' = [v \in DOMAIN part \cup {w} |-> IF v = w THEN counts[w] ELSE part[v]]
  /\ IF left' = {}
     THEN sample' = [run |-> run, words |-> part', from |-> before, upto |-> counts]
     ELSE UNCHANGED sample
  /\ UNCHANGED <<gil, loopVars, before>>

Looping ==
  \/ \E p \in Profiles, m \in Masks : Start(p, m)
  \/ \E idx \in Classes(profile) : Classify(idx)
  \/ \E w \in Words : Count(w)
  \/ EnterCallback \/ LeaveCallback \/ End \/ Return

Polling == StartPoll \/ \E w \in Words : ReadWord(w)

Next == Looping \/ Polling \/ Drop \/ \E t \in {LOOPER, POLLER} : Take(t)
Spec == Init /\ [][Next]_vars

-----------------------------------------------------------------------------
ClassSum(c, idxs) == SumFunctionOnSet(c, {Word(idx) : idx \in idxs})

\* Type invariant.
TypeOK ==
  /\ gil \in {LOOPER, POLLER, NOBODY}
  /\ pc \in {"python", "capture", "counting", "admitted", "callback", "over"}
  /\ counts \in [Words -> Nat] /\ profile \in Profiles /\ admit \in BOOLEAN
  /\ todo \subseteq Words /\ left \subseteq Words
  /\ run \in 0 .. MaxRuns /\ packets \in 0 .. MaxPackets /\ calls \in 0 .. MaxPackets

\* README.md: each packet gets one class and increments one counter, and is
\* admitted or dropped: between packets the two ways of counting agree, also for
\* a callback that calls filtered_stats, and every admitted packet is delivered.
CountsBalance ==
  run > 0 /\ todo = {} =>
    /\ counts[ADM] + counts[DROP] = packets
    /\ ClassSum(counts, Classes(profile)) = packets
    /\ counts[ADM] = calls + (IF pc = "admitted" THEN 1 ELSE 0)

\* No packet was counted in a word that the tuple leaves out, whatever profile
\* the runs before had.
NothingHidden == run > 0 => \A w \in Words \ Shown(profile) : counts[w] = 0

\* What filtered_stats returns mixes no two runs: each word had its value at some
\* moment of the call (a torn tuple is off only by what was counted meanwhile).
SampleIsCurrent ==
  \A w \in DOMAIN sample.words : sample.words[w] \in sample.from[w] .. sample.upto[w]

\* Two calls of filtered_stats in the same run, by whatever threads, never see a
\* counter go down, and return the same number of words.
SamplesMonotone ==
  [][sample.run > 0 /\ sample'.run = sample.run =>
       /\ DOMAIN sample'.words = DOMAIN sample.words
       /\ \A w \in DOMAIN sample.words : sample'.words[w] >= sample.words[w]]_vars

\* tests/test_fast.py: "counters never decreased" for a thread that calls
\* filtered_stats from the start of the looping thread on.
CountersNeverDecrease ==
  [][\A w \in DOMAIN sample.words \cap DOMAIN sample'.words :
       sample'.words[w] >= sample.words[w]]_vars

=============================================================================
