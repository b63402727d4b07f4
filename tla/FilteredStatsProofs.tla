------------------------- MODULE FilteredStatsProofs -------------------------
(***************************************************************************)
(* Theorems about FilteredStats, for all classes, masks and initial memory *)
(* of a Reader, and any number of runs and packets.                        *)
(***************************************************************************)
EXTENDS FilteredStats, DataLemmas

\* The part of the type invariant the arguments need.
Counters ==
  /\ counts \in [Words -> Nat]
  /\ run \in Nat

\* A call of filtered_stats that is under way holds the lock; since it began the
\* counters have only grown, and each word it has read lies in between.
PollUnderWay ==
  left # {} =>
    /\ gil # NOBODY
    /\ before \in [Words -> Nat]
    /\ left \subseteq Shown(profile) /\ DOMAIN part = Shown(profile) \ left
    /\ \A w \in Words : before[w] =< counts[w]
    /\ \A w \in DOMAIN part : part[w] \in before[w] .. counts[w]

\* Of a tuple read in the run that is still going on, the counters have not
\* fallen below a word; nor had they when the call under way began.
SampleBehind ==
  /\ sample.run \in Int
  /\ sample.run = run =>
       /\ DOMAIN sample.words = Shown(profile)
       /\ \A w \in Shown(profile) :
            /\ sample.words[w] =< counts[w]
            /\ left # {} => sample.words[w] =< before[w]

SampleTyped ==
  \A w \in DOMAIN sample.words :
    sample.words[w] \in Nat /\ sample.from[w] \in Nat /\ sample.upto[w] \in Nat

Inv ==
  /\ Counters /\ PollUnderWay /\ SampleBehind /\ SampleTyped /\ SampleIsCurrent
  /\ sample.run =< run

\* The words of a tuple are words of filt_counts.
LEMMA ShownAreWords == \A p : Shown(p) \subseteq Words
  BY ConstantsOK DEF Shown, Words, Classes

\* A new Reader, and no call of filtered_stats yet.
LEMMA InitInv == Init => Inv
  <1> SUFFICES ASSUME Init PROVE Inv
    OBVIOUS
  <1>1. counts \in [Words -> Nat]
    BY ConstantsOK DEF Init
  <1>2. /\ run = 0 /\ left = {}
        /\ sample = [run |-> -1, words |-> Nothing, from |-> Nothing, upto |-> Nothing]
    BY DEF Init
  <1>3. sample.run = -1 /\ sample.words = Nothing
    BY <1>2
  <1>4. DOMAIN Nothing = {}
    BY DEF Nothing
  <1>5. -1 \in Int /\ -1 # 0 /\ -1 =< 0 /\ 0 \in Nat
    OBVIOUS
  <1>6. Counters /\ PollUnderWay
    BY <1>1, <1>2, <1>5 DEF Counters, PollUnderWay
  <1>7. SampleBehind /\ (sample.run =< run)
    BY <1>2, <1>3, <1>5 DEF SampleBehind
  <1>8. SampleTyped /\ SampleIsCurrent
    BY <1>3, <1>4 DEF SampleTyped, SampleIsCurrent
  <1> QED
    BY <1>6, <1>7, <1>8 DEF Inv

-----------------------------------------------------------------------------
\* The steps that leave the counters and the poll alone.
QuietStep == \/ Drop \/ (\E t \in {LOOPER, POLLER} : Take(t))
             \/ (\E idx \in Classes(profile) : Classify(idx))
             \/ EnterCallback \/ LeaveCallback \/ End \/ Return

\* They touch neither; a call under way keeps its lock.
LEMMA QuietSteps == QuietStep => /\ UNCHANGED <<counts, profile, run, pollVars>>
                                 /\ left # {} => gil' = gil \/ gil = NOBODY
  BY DEF QuietStep, Drop, Take, Classify, EnterCallback, LeaveCallback, End, Return, loopVars,
         pollVars

\* Hence they keep the invariant.
LEMMA QuietInv == Inv /\ QuietStep => Inv'
  <1> SUFFICES ASSUME Inv, QuietStep PROVE Inv'
    OBVIOUS
  <1>1. /\ UNCHANGED <<counts, profile, run, pollVars>>
        /\ left # {} => gil' = gil
    BY QuietSteps DEF Inv, PollUnderWay
  <1> QED
    BY <1>1 DEF Inv, Counters, PollUnderWay, SampleBehind, SampleTyped, SampleIsCurrent, pollVars

\* A packet is counted: the counters grow (FilteredCallBack).
LEMMA CountInv == ASSUME Inv, NEW w \in Words, Count(w) PROVE Inv'
  <1>1. /\ counts' = [counts EXCEPT ![w] = @ + 1]
        /\ gil' = gil /\ profile' = profile /\ run' = run
        /\ left' = left /\ part' = part /\ before' = before /\ sample' = sample
    BY DEF Count, pollVars
  <1>2. /\ counts' \in [Words -> Nat]
        /\ \A v \in Words : counts[v] \in Nat /\ counts'[v] \in Nat /\ counts[v] =< counts'[v]
    BY <1>1 DEF Inv, Counters
  <1>3. Counters' /\ SampleTyped' /\ SampleIsCurrent' /\ (sample.run =< run)'
    BY <1>1, <1>2 DEF Inv, Counters, SampleTyped, SampleIsCurrent
  <1>4. PollUnderWay'
    <2> SUFFICES ASSUME left # {}
                 PROVE  /\ \A v \in Words : before[v] =< counts'[v]
                        /\ \A v \in DOMAIN part : part[v] \in before[v] .. counts'[v]
      BY <1>1 DEF Inv, PollUnderWay
    <2>1. /\ before \in [Words -> Nat] /\ DOMAIN part \subseteq Words
          /\ \A v \in Words : before[v] =< counts[v]
          /\ \A v \in DOMAIN part : part[v] \in before[v] .. counts[v]
      BY ShownAreWords DEF Inv, PollUnderWay
    <2> QED
      BY <1>2, <2>1
  <1>5. SampleBehind'
    <2> SUFFICES ASSUME sample.run = run, NEW v \in Shown(profile)
                 PROVE  sample.words[v] =< counts'[v]
      BY <1>1 DEF Inv, SampleBehind
    <2>1. v \in Words /\ v \in DOMAIN sample.words
      BY ShownAreWords DEF Inv, SampleBehind
    <2>2. sample.words[v] \in Nat /\ sample.words[v] =< counts[v]
      BY <2>1 DEF Inv, SampleBehind, SampleTyped
    <2> QED
      BY <1>2, <2>1, <2>2
  <1> QED
    BY <1>3, <1>4, <1>5 DEF Inv

\* A run starts with the lock, so that no poll is under way (p_loop_filtered).
LEMMA StartInv == ASSUME Inv, NEW p \in Profiles, NEW m \in Masks, Start(p, m) PROVE Inv'
  <1>1. /\ left' = {} /\ counts' = Zeroes /\ run' = run + 1 /\ sample' = sample
        /\ part' = part /\ before' = before
    BY DEF Start, Begin, Reset, pollVars
  <1>2. Zeroes \in [Words -> Nat]
    BY DEF Zeroes
  <1>3. sample.run \in Int /\ run \in Nat /\ sample.run =< run
    BY DEF Inv, SampleBehind, Counters
  <1> QED
    BY <1>1, <1>2, <1>3
       DEF Inv, Counters, PollUnderWay, SampleBehind, SampleTyped, SampleIsCurrent

-----------------------------------------------------------------------------
\* filtered_stats begins (p_filtered_stats).
LEMMA StartPollInv == Inv /\ StartPoll => Inv'
  <1> SUFFICES ASSUME Inv, StartPoll PROVE Inv'
    OBVIOUS
  <1>1. /\ gil # NOBODY /\ gil' = gil /\ counts' = counts /\ profile' = profile /\ run' = run
        /\ left' = Shown(profile) /\ part' = Nothing /\ before' = counts /\ sample' = sample
    BY DEF StartPoll, loopVars
  <1>2. counts \in [Words -> Nat]
    BY DEF Inv, Counters
  <1>3. PollUnderWay'
    BY <1>1, <1>2 DEF PollUnderWay, Nothing
  <1>4. SampleBehind'
    BY <1>1 DEF Inv, SampleBehind
  <1> QED
    BY <1>1, <1>3, <1>4 DEF Inv, Counters, SampleTyped, SampleIsCurrent

\* filtered_stats reads a word, and returns its tuple after the last one.
LEMMA ReadWordInv == ASSUME Inv, NEW w \in Words, ReadWord(w) PROVE Inv'
  <1>1. /\ w \in left /\ left' = left \ {w} /\ before' = before
        /\ part' = [v \in DOMAIN part \cup {w} |-> IF v = w THEN counts[w] ELSE part[v]]
        /\ gil' = gil /\ counts' = counts /\ profile' = profile /\ run' = run
    BY DEF ReadWord, loopVars
  <1>2. /\ gil # NOBODY /\ before \in [Words -> Nat] /\ counts \in [Words -> Nat]
        /\ left \subseteq Shown(profile) /\ DOMAIN part = Shown(profile) \ left
        /\ Shown(profile) \subseteq Words
        /\ \A v \in Words : before[v] =< counts[v]
        /\ \A v \in DOMAIN part : part[v] \in before[v] .. counts[v]
    BY <1>1, ShownAreWords DEF Inv, PollUnderWay, Counters
  <1>3. DOMAIN part' = Shown(profile) \ left'
    BY <1>1, <1>2
  <1>4. \A v \in DOMAIN part' : part'[v] \in before[v] .. counts[v]
    <2> SUFFICES ASSUME NEW v \in DOMAIN part' PROVE part'[v] \in before[v] .. counts[v]
      OBVIOUS
    <2>1. CASE v = w
      BY <1>1, <1>2, <2>1
    <2>2. CASE v # w
      BY <1>1, <1>2, <2>2
    <2> QED
      BY <2>1, <2>2
  <1>5. PollUnderWay'
    BY <1>1, <1>2, <1>3, <1>4 DEF PollUnderWay
  <1>6. CASE left' # {}
    <2>1. sample' = sample
      BY <1>6 DEF ReadWord
    <2>2. SampleBehind'
      BY <1>1, <2>1 DEF Inv, SampleBehind
    <2> QED
      BY <1>1, <1>5, <2>1, <2>2 DEF Inv, Counters, SampleTyped, SampleIsCurrent
  <1>7. CASE left' = {}
    <2>1. sample' = [run |-> run, words |-> part', from |-> before, upto |-> counts]
      BY <1>7 DEF ReadWord
    <2>2. /\ sample'.run = run /\ sample'.words = part'
          /\ sample'.from = before /\ sample'.upto = counts
      BY <2>1
    <2>3. DOMAIN part' = Shown(profile)
      BY <1>3, <1>7
    <2>4. \A v \in Shown(profile) :
            /\ before[v] \in Nat /\ counts[v] \in Nat /\ part'[v] \in Nat
            /\ part'[v] \in before[v] .. counts[v] /\ part'[v] =< counts[v]
      BY <1>2, <1>4, <2>3
    <2>5. SampleIsCurrent'
      BY <2>2, <2>3, <2>4 DEF SampleIsCurrent
    <2>6. SampleTyped'
      BY <2>2, <2>3, <2>4 DEF SampleTyped
    <2>7. run \in Nat
      BY DEF Inv, Counters
    <2>8. SampleBehind' /\ (sample.run =< run)'
      BY <1>1, <1>7, <2>2, <2>3, <2>4, <2>7 DEF SampleBehind
    <2> QED
      BY <1>1, <1>5, <2>5, <2>6, <2>8 DEF Inv, Counters
  <1> QED
    BY <1>6, <1>7

\* Every step keeps the invariant: one case per action.
LEMMA InvIsInductive == Inv /\ [Next]_vars => Inv'
  <1> SUFFICES ASSUME Inv, [Next]_vars PROVE Inv'
    OBVIOUS
  <1>1. CASE QuietStep
    BY <1>1, QuietInv
  <1>2. CASE \E w \in Words : Count(w)
    BY <1>2, CountInv
  <1>3. CASE \E p \in Profiles, m \in Masks : Start(p, m)
    BY <1>3, StartInv
  <1>4. CASE StartPoll
    BY <1>4, StartPollInv
  <1>5. CASE \E w \in Words : ReadWord(w)
    BY <1>5, ReadWordInv
  <1>6. CASE UNCHANGED vars
    BY <1>6 DEF vars, loopVars, pollVars, Inv, Counters, PollUnderWay, SampleBehind, SampleTyped,
                SampleIsCurrent
  <1> QED
    BY <1>1, <1>2, <1>3, <1>4, <1>5, <1>6 DEF Next, Looping, Polling, QuietStep

-----------------------------------------------------------------------------
\* Each word of every tuple had its value at some moment of the call that
\* returned it (p_filtered_stats).
THEOREM SamplesAreCurrent == Spec => []SampleIsCurrent
  <1>1. Inv => SampleIsCurrent
    BY DEF Inv
  <1> QED
    BY <1>1, InitInv, InvIsInductive, PTL DEF Spec

\* Within a run, no reader ever sees a counter go down (p_filtered_stats against
\* FilteredCallBack).
THEOREM CountersOnlyGrow == Spec => SamplesMonotone
  <1> DEFINE Step == sample.run > 0 /\ sample'.run = sample.run =>
                       /\ DOMAIN sample'.words = DOMAIN sample.words
                       /\ \A w \in DOMAIN sample.words : sample'.words[w] >= sample.words[w]
  <1>1. Inv /\ Inv' /\ [Next]_vars => [Step]_vars
    <2> SUFFICES ASSUME Inv, Inv', [Next]_vars, sample'.run = sample.run
                 PROVE  /\ DOMAIN sample'.words = DOMAIN sample.words
                        /\ \A w \in DOMAIN sample.words : sample'.words[w] >= sample.words[w]
      OBVIOUS
    <2>1. CASE sample' = sample
      BY <2>1 DEF Inv, SampleTyped
    <2>2. ASSUME NEW w \in Words, ReadWord(w), left' = {}
          PROVE  /\ DOMAIN sample'.words = DOMAIN sample.words
                 /\ \A v \in DOMAIN sample.words : sample'.words[v] >= sample.words[v]
      <3>1. sample' = [run |-> run, words |-> part', from |-> before, upto |-> counts]
        BY <2>2 DEF ReadWord
      <3>2. sample'.run = run /\ sample'.from = before /\ left # {} /\ profile' = profile
            /\ run' = run
        BY <2>2, <3>1 DEF ReadWord, loopVars
      <3>3. DOMAIN sample.words = Shown(profile) /\ DOMAIN sample'.words = Shown(profile)
        BY <3>2 DEF Inv, SampleBehind
      <3>4. ASSUME NEW v \in Shown(profile) PROVE sample'.words[v] >= sample.words[v]
        <4>1. sample.words[v] =< before[v]
          BY <3>2 DEF Inv, SampleBehind
        <4>2. sample'.words[v] \in sample'.from[v] .. sample'.upto[v]
          BY <3>3 DEF Inv, SampleIsCurrent
        <4>3. /\ sample.words[v] \in Nat /\ sample'.words[v] \in Nat
              /\ sample'.from[v] \in Nat /\ sample'.upto[v] \in Nat
          BY <3>3 DEF Inv, SampleTyped
        <4> QED
          BY <3>2, <4>1, <4>2, <4>3
      <3> QED
        BY <3>3, <3>4
    <2>3. \/ sample' = sample
          \/ \E w \in Words : ReadWord(w) /\ left' = {}
      BY DEF Next, Looping, Polling, Start, Begin, Classify, Count, EnterCallback, LeaveCallback,
             End, Return, StartPoll, ReadWord, Drop, Take, vars, pollVars
    <2> QED
      BY <2>1, <2>2, <2>3
  <1> QED
    BY <1>1, InitInv, InvIsInductive, PTL DEF Spec, SamplesMonotone

-----------------------------------------------------------------------------
(* The run that goes on, without its readers.                               *)

\* A packet is counted in words of the profile of its run only, and an admitted
\* packet reaches the callback once.
RunUnderWay ==
  /\ gil \in {LOOPER, POLLER, NOBODY}
  /\ pc \in {"python", "capture", "counting", "admitted", "callback", "over"}
  /\ counts \in [Words -> Nat] /\ profile \in Profiles /\ admit \in BOOLEAN
  /\ run \in 0 .. MaxRuns /\ packets \in 0 .. MaxPackets /\ calls \in Nat
  /\ calls =< packets
  /\ pc \in {"counting", "admitted"} => calls < packets
  /\ todo \subseteq Shown(profile)
  /\ pc # "counting" => todo = {}

RunInv == RunUnderWay /\ NothingHidden

LEMMA InitRun == Init => RunInv
  <1> SUFFICES ASSUME Init PROVE RunInv
    OBVIOUS
  <1>1. counts \in [Words -> Nat]
    BY ConstantsOK DEF Init
  <1>2. /\ gil = NOBODY /\ pc = "python" /\ profile \in Profiles /\ admit = FALSE
        /\ run = 0 /\ packets = 0 /\ calls = 0 /\ todo = {}
    BY DEF Init
  <1>3. /\ run \in 0 .. MaxRuns /\ packets \in 0 .. MaxPackets
        /\ calls \in Nat /\ calls =< packets /\ ~(run > 0)
    BY <1>2, ConstantsOK
  <1>4. admit \in BOOLEAN /\ pc \notin {"counting", "admitted"} /\ todo \subseteq Shown(profile)
    BY <1>2
  <1> QED
    BY <1>1, <1>2, <1>3, <1>4, Zenon DEF RunInv, RunUnderWay, NothingHidden

LEMMA RunIsInductive == RunInv /\ [Next]_vars => RunInv'
  <1> SUFFICES ASSUME RunInv, [Next]_vars PROVE RunInv'
    OBVIOUS
  <1> USE ConstantsOK
  <1>1. ASSUME NEW p \in Profiles, NEW m \in Masks, Start(p, m) PROVE RunInv'
    <2>1. /\ pc' = "capture" /\ todo' = todo /\ counts' = Zeroes /\ profile' = p
          /\ run' = run + 1 /\ run < MaxRuns /\ packets' = 0 /\ calls' = 0
          /\ gil' = NOBODY /\ admit' = admit /\ pc = "python"
      BY <1>1 DEF Start, Begin, Reset
    <2>2. Zeroes \in [Words -> Nat] /\ \A w \in Words : Zeroes[w] = 0
      BY DEF Zeroes
    <2>3. RunUnderWay'
      BY <2>1, <2>2 DEF RunInv, RunUnderWay
    <2> QED BY <2>1, <2>2, <2>3 DEF RunInv, NothingHidden
  <1>2. ASSUME NEW idx \in Classes(profile), Classify(idx) PROVE RunInv'
    <2>1. WordsOf(idx, idx \in mask) \subseteq Shown(profile)
      BY DEF WordsOf, Shown
    <2>2. UNCHANGED <<gil, counts, profile, run, calls>>
      BY <1>2 DEF Classify
    <2>3. RunUnderWay'
      BY <1>2, <2>1, <2>2 DEF RunInv, RunUnderWay, Classify, Shown
    <2> QED BY <2>2, <2>3 DEF RunInv, NothingHidden, Shown, Classes
  <1>3. ASSUME NEW w \in Words, Count(w) PROVE RunInv'
    <2>1. /\ pc = "counting" /\ w \in todo /\ todo' = todo \ {w}
          /\ counts' = [counts EXCEPT ![w] = @ + 1]
          /\ pc' = IF todo' # {} THEN pc ELSE IF admit THEN "admitted" ELSE "capture"
          /\ UNCHANGED <<gil, profile, admit, run, packets, calls>>
      BY <1>3 DEF Count
    <2>2. RunUnderWay'
      BY <2>1 DEF RunInv, RunUnderWay, Shown, Classes
    <2>3. w \in Shown(profile)
      BY <2>1 DEF RunInv, RunUnderWay
    <2>4. NothingHidden'
      BY <2>1, <2>3 DEF RunInv, RunUnderWay, NothingHidden, Shown, Classes
    <2> QED BY <2>2, <2>4 DEF RunInv
  <1>4. ASSUME EnterCallback \/ LeaveCallback \/ End \/ Return PROVE RunInv'
    <2>1. UNCHANGED <<counts, profile, admit, run, packets, todo>>
      BY <1>4 DEF EnterCallback, LeaveCallback, End, Return
    <2>2. RunUnderWay'
      BY <1>4, <2>1
         DEF RunInv, RunUnderWay, EnterCallback, LeaveCallback, End, Return, Shown, Classes
    <2> QED BY <2>1, <2>2 DEF RunInv, NothingHidden, Shown, Classes
  <1>5. ASSUME gil' \in {LOOPER, POLLER, NOBODY}, UNCHANGED loopVars PROVE RunInv'
    BY <1>5 DEF RunInv, RunUnderWay, NothingHidden, loopVars, Shown, Classes
  <1>6. CASE Polling \/ Drop \/ (\E t \in {LOOPER, POLLER} : Take(t))
    BY <1>5, <1>6 DEF RunInv, RunUnderWay, Polling, StartPoll, ReadWord, Drop, Take
  <1>7. CASE UNCHANGED vars
    BY <1>5, <1>7 DEF RunInv, RunUnderWay, vars
  <1> QED
    BY <1>1, <1>2, <1>3, <1>4, <1>6, <1>7 DEF Next, Looping

\* Whatever the profiles of earlier runs, no packet of a run is counted in a word
\* that filtered_stats leaves out of its tuple (p_loop_filtered resets all words).
THEOREM TuplesHideNothing == Spec => []NothingHidden
  <1>1. RunInv => NothingHidden
    BY DEF RunInv
  <1> QED
    BY <1>1, InitRun, RunIsInductive, PTL DEF Spec

\* The variables keep their types; in particular no more packets reach the callback
\* than were classified.
THEOREM StatsTypes == Spec => []TypeOK
  <1>1. RunInv /\ Inv => TypeOK
    <2> SUFFICES ASSUME RunInv, Inv PROVE TypeOK
      OBVIOUS
    <2>1. left \subseteq Words /\ todo \subseteq Words
      BY ShownAreWords DEF RunInv, RunUnderWay, Inv, PollUnderWay
    <2>2. calls \in 0 .. MaxPackets
      BY ConstantsOK DEF RunInv, RunUnderWay
    <2> QED BY <2>1, <2>2 DEF RunInv, RunUnderWay, TypeOK
  <1> QED
    BY <1>1, InitRun, RunIsInductive, InitInv, InvIsInductive, PTL DEF Spec

-----------------------------------------------------------------------------
(* The words add up.                                                       *)

ClassWords == {Word(idx) : idx \in Classes(profile)}

\* Of the packet in FilteredCallBack the words in todo are missing yet.
Balanced ==
  /\ todo # {} <=> pc = "counting"
  /\ todo # {} => \E idx \in Classes(profile) : todo \subseteq WordsOf(idx, admit)
  /\ run > 0 =>
       /\ counts[ADM] + counts[DROP] = packets - (IF todo \cap {ADM, DROP} = {} THEN 0 ELSE 1)
       /\ ClassSum(counts, Classes(profile)) =
            packets - (IF todo \cap ClassWords = {} THEN 0 ELSE 1)
       /\ counts[ADM] =
            calls + (IF pc = "admitted" \/ (pc = "counting" /\ admit /\ ADM \notin todo)
                     THEN 1 ELSE 0)

LEMMA ClassWordsFinite ==
  \A p \in Profiles : LET W == {Word(idx) : idx \in Classes(p)}
                      IN  IsFiniteSet(W) /\ W \subseteq Words \ {ADM, DROP}
<1> SUFFICES ASSUME NEW p \in Profiles
             PROVE  LET W == {Word(idx) : idx \in Classes(p)}
                    IN  IsFiniteSet(W) /\ W \subseteq Words \ {ADM, DROP}
  OBVIOUS
<1>1. Classes(p) \subseteq Security /\ Security \subseteq Nat /\ IsFiniteSet(Security)
  BY ConstantsOK DEF Classes
<1>2. IsFiniteSet(Classes(p))
  BY <1>1, FS_Subset
<1> DEFINE W == {Word(idx) : idx \in Classes(p)}
           f == [idx \in Classes(p) |-> Word(idx)]
<1>3. IsFiniteSet(W)
  <2>1. f \in Surjection(Classes(p), W)
    BY DEF Surjection
  <2> HIDE DEF f, W
  <2> QED BY <1>2, <2>1, FS_Surjection
<1>4. W \subseteq Words \ {ADM, DROP}
  <2>1. W \subseteq Words
    BY <1>1 DEF Words
  <2>2. ASSUME NEW idx \in Classes(p) PROVE Word(idx) \notin {ADM, DROP}
    <3>1. idx \in Nat
      BY <1>1
    <3> QED BY <3>1 DEF Word, ADM, DROP
  <2> QED BY <2>1, <2>2
<1> QED BY <1>3, <1>4

\* One more packet in a word is one more in the sum if the word is one of a class.
LEMMA ClassSumTicks ==
  ASSUME NEW p \in Profiles, NEW c \in [Words -> Nat], NEW w \in Words
  PROVE  /\ ClassSum(c, Classes(p)) \in Int
         /\ ClassSum([c EXCEPT ![w] = @ + 1], Classes(p)) =
              ClassSum(c, Classes(p)) + (IF w \in {Word(idx) : idx \in Classes(p)} THEN 1 ELSE 0)
<1> DEFINE W == {Word(idx) : idx \in Classes(p)}
           d == [c EXCEPT ![w] = @ + 1]
<1>1. IsFiniteSet(W) /\ W \subseteq Words
  BY ClassWordsFinite
<1> HIDE DEF W
<1>2. \A v \in W : c[v] \in Int
  BY <1>1
<1>3. SumFunctionOnSet(c, W) \in Int
  BY <1>1, <1>2, SumType
<1>4. d[w] = c[w] + 1 /\ \A v \in W \ {w} : d[v] = c[v]
  BY <1>1
<1> HIDE DEF d
<1>5. /\ w \in W => SumFunctionOnSet(d, W) = SumFunctionOnSet(c, W) + 1
      /\ w \notin W => SumFunctionOnSet(d, W) = SumFunctionOnSet(c, W)
  BY <1>1, <1>2, <1>4, SumTicks
<1>6. SumFunctionOnSet(d, W) = SumFunctionOnSet(c, W) + (IF w \in W THEN 1 ELSE 0)
  BY <1>3, <1>5
<1> QED BY <1>3, <1>6 DEF ClassSum, W, d

\* A new run counts from 0 in all words.
LEMMA SumStartsAtZero == \A p \in Profiles : ClassSum(Zeroes, Classes(p)) = 0
<1> SUFFICES ASSUME NEW p \in Profiles PROVE ClassSum(Zeroes, Classes(p)) = 0
  OBVIOUS
<1> DEFINE W == {Word(idx) : idx \in Classes(p)}
<1>1. IsFiniteSet(W) /\ W \subseteq Words
  BY ClassWordsFinite
<1> HIDE DEF W
<1>2. \A v \in W : Zeroes[v] = 0
  BY <1>1 DEF Zeroes
<1> HIDE DEF Zeroes
<1>3. SumFunctionOnSet(Zeroes, W) = 0
  BY <1>1, <1>2, SumOfZeroes
<1> QED BY <1>3 DEF W, ClassSum

LEMMA InitBalanced == Init => Balanced
  BY DEF Init, Balanced

LEMMA BalancedIsInductive == RunInv /\ Balanced /\ [Next]_vars => Balanced'
  <1> SUFFICES ASSUME RunInv, Balanced, [Next]_vars PROVE Balanced'
    OBVIOUS
  <1> USE ConstantsOK
  <1>1. ASSUME NEW p \in Profiles, NEW m \in Masks, Start(p, m) PROVE Balanced'
    <2>1. /\ pc' = "capture" /\ todo' = todo /\ counts' = Zeroes /\ profile' = p
          /\ packets' = 0 /\ calls' = 0 /\ pc = "python"
      BY <1>1 DEF Start, Begin, Reset
    <2>2. todo = {}
      BY <2>1 DEF Balanced
    <2>3. Zeroes[ADM] = 0 /\ Zeroes[DROP] = 0
      BY DEF Zeroes, Words
    <2>4. ClassSum(counts', Classes(profile')) = 0
      BY <2>1, SumStartsAtZero
    <2> QED BY <2>1, <2>2, <2>3, <2>4 DEF Balanced
  <1>2. ASSUME NEW idx \in Classes(profile), Classify(idx) PROVE Balanced'
    <2>1. /\ pc = "capture" /\ pc' = "counting" /\ packets' = packets + 1
          /\ todo' = WordsOf(idx, admit') /\ admit' \in BOOLEAN
          /\ UNCHANGED <<counts, profile, run, calls>>
      BY <1>2 DEF Classify
    <2>2. todo = {}
      BY <2>1 DEF Balanced
    <2>3. Word(idx) \in ClassWords' /\ todo' \cap ClassWords' # {} /\ todo' # {}
      BY <2>1 DEF ClassWords, WordsOf
    <2>4. todo' \cap {ADM, DROP} # {} /\ (admit' => ADM \in todo')
      BY <2>1 DEF WordsOf
    <2>5. run > 0 => /\ counts[ADM] + counts[DROP] = packets
                     /\ ClassSum(counts, Classes(profile)) = packets
                     /\ counts[ADM] = calls
      BY <2>1, <2>2 DEF Balanced, RunInv, RunUnderWay
    <2>6. packets = packets' - 1
      BY <2>1 DEF RunInv, RunUnderWay
    <2>7. idx \in Classes(profile') /\ todo' \subseteq WordsOf(idx, admit')
      BY <2>1
    <2>8. calls = calls + 0
      BY DEF RunInv, RunUnderWay
    <2> QED BY <2>1, <2>3, <2>4, <2>5, <2>6, <2>7, <2>8 DEF Balanced
  <1>3. ASSUME NEW w \in Words, Count(w) PROVE Balanced'
    <2>1. /\ pc = "counting" /\ w \in todo /\ todo' = todo \ {w}
          /\ counts' = [counts EXCEPT ![w] = @ + 1]
          /\ pc' = IF todo' # {} THEN pc ELSE IF admit THEN "admitted" ELSE "capture"
          /\ UNCHANGED <<profile, admit, run, packets, calls>>
      BY <1>3 DEF Count
    <2>2. PICK idx \in Classes(profile) : todo \subseteq WordsOf(idx, admit)
      BY <2>1 DEF Balanced
    <2>3. /\ profile \in Profiles /\ counts \in [Words -> Nat]
          /\ packets \in Nat /\ calls \in Nat /\ admit \in BOOLEAN
      BY DEF RunInv, RunUnderWay
    <2>4. ClassWords \cap {ADM, DROP} = {} /\ Word(idx) \in ClassWords
      BY <2>3, ClassWordsFinite DEF ClassWords
    <2>5. ADM \in Words /\ DROP \in Words /\ ADM # DROP
      BY DEF Words, ADM, DROP
    <2>6. todo \subseteq {Word(idx), IF admit THEN ADM ELSE DROP}
      BY <2>2 DEF WordsOf
    <2>7. todo' = {} <=> pc' # "counting"
      BY <2>1
    <2>8. ClassSum(counts', Classes(profile)) =
            ClassSum(counts, Classes(profile)) + (IF w \in ClassWords THEN 1 ELSE 0)
      BY <2>1, <2>3, ClassSumTicks DEF ClassWords
    <2>9. ClassSum(counts, Classes(profile)) \in Int
      BY <2>3, ClassSumTicks
    <2>10. /\ counts[ADM] \in Nat /\ counts[DROP] \in Nat
           /\ counts'[ADM] = counts[ADM] + (IF w = ADM THEN 1 ELSE 0)
           /\ counts'[DROP] = counts[DROP] + (IF w = DROP THEN 1 ELSE 0)
      BY <2>1, <2>3, <2>5
    <2>11. CASE w = Word(idx)
      <3>1. /\ w \in ClassWords /\ w \notin {ADM, DROP}
            /\ todo \cap ClassWords # {} /\ todo' \cap ClassWords = {}
            /\ todo' \cap {ADM, DROP} = todo \cap {ADM, DROP}
            /\ ADM \in todo' <=> ADM \in todo
        BY <2>1, <2>4, <2>6, <2>11
      <3>2. (pc = "counting" /\ admit /\ ADM \notin todo)
              <=> (pc' = "admitted" \/ (pc' = "counting" /\ admit /\ ADM \notin todo'))
        BY <2>1, <2>6, <3>1
      <3>3. run > 0 => /\ counts'[ADM] + counts'[DROP] = counts[ADM] + counts[DROP]
                       /\ ClassSum(counts', Classes(profile)) = packets
                       /\ counts'[ADM] = counts[ADM]
        BY <2>1, <2>3, <2>8, <2>9, <2>10, <3>1 DEF Balanced
      <3>4. ClassWords' = ClassWords
        BY <2>1 DEF ClassWords
      <3>5. run' > 0 => /\ counts'[ADM] + counts'[DROP] =
                             packets - (IF todo' \cap {ADM, DROP} = {} THEN 0 ELSE 1)
                        /\ counts'[ADM] =
                             calls + (IF pc' = "admitted"
                                           \/ (pc' = "counting" /\ admit /\ ADM \notin todo')
                                      THEN 1 ELSE 0)
        BY <2>1, <3>1, <3>2, <3>3 DEF Balanced
      <3>6. packets - 0 = packets
        BY <2>3
      <3> QED BY <2>1, <2>2, <2>7, <3>1, <3>3, <3>4, <3>5, <3>6 DEF Balanced
    <2>12. CASE w = (IF admit THEN ADM ELSE DROP)
      <3>1. /\ w \notin ClassWords /\ w \in {ADM, DROP}
            /\ todo \cap {ADM, DROP} # {} /\ todo' \cap {ADM, DROP} = {}
            /\ todo' \cap ClassWords = todo \cap ClassWords
            /\ ADM \notin todo' /\ (ADM \in todo <=> admit)
        BY <2>1, <2>4, <2>5, <2>6, <2>12
      <3>2. /\ ~(pc = "admitted" \/ (pc = "counting" /\ admit /\ ADM \notin todo))
            /\ (pc' = "admitted" \/ (pc' = "counting" /\ admit /\ ADM \notin todo')) <=> admit
        BY <2>1, <2>3, <3>1
      <3>3. run > 0 => /\ counts'[ADM] + counts'[DROP] = packets
                       /\ ClassSum(counts', Classes(profile)) = ClassSum(counts, Classes(profile))
                       /\ counts'[ADM] = calls + (IF admit THEN 1 ELSE 0)
        <4>1. run > 0 => /\ counts[ADM] + counts[DROP] = packets - 1
                         /\ counts[ADM] = calls
          BY <2>1, <2>3, <3>1, <3>2 DEF Balanced
        <4>2. CASE admit
          <5>1. counts'[ADM] = counts[ADM] + 1 /\ counts'[DROP] = counts[DROP]
            BY <2>5, <2>10, <2>12, <4>2
          <5> QED BY <2>3, <2>8, <2>9, <2>10, <3>1, <4>1, <4>2, <5>1
        <4>3. CASE ~admit
          <5>1. counts'[ADM] = counts[ADM] /\ counts'[DROP] = counts[DROP] + 1
            BY <2>5, <2>10, <2>12, <4>3
          <5> QED BY <2>3, <2>8, <2>9, <2>10, <3>1, <4>1, <4>3, <5>1
        <4> QED BY <4>2, <4>3
      <3> QED BY <2>1, <2>2, <2>3, <2>7, <3>1, <3>2, <3>3 DEF Balanced, ClassWords
    <2> QED BY <2>1, <2>6, <2>11, <2>12
  <1>4. CASE EnterCallback
    <2>1. /\ pc = "admitted" /\ pc' = "callback" /\ calls' = calls + 1
          /\ UNCHANGED <<counts, profile, todo, admit, run, packets>>
      BY <1>4 DEF EnterCallback
    <2>2. calls \in Nat
      BY DEF RunInv, RunUnderWay
    <2>3. calls' = calls' + 0
      BY <2>1, <2>2
    <2> QED BY <2>1, <2>2, <2>3 DEF Balanced, ClassWords
  <1>5. CASE LeaveCallback \/ End \/ Return
    <2>1. /\ pc \notin {"counting", "admitted"} /\ pc' \notin {"counting", "admitted"}
          /\ UNCHANGED <<counts, profile, todo, admit, run, packets, calls>>
      BY <1>5 DEF LeaveCallback, End, Return
    <2> QED BY <2>1 DEF Balanced, ClassWords
  <1>6. ASSUME UNCHANGED loopVars PROVE Balanced'
    BY <1>6 DEF Balanced, ClassWords, loopVars
  <1>7. CASE Polling \/ Drop \/ (\E t \in {LOOPER, POLLER} : Take(t)) \/ UNCHANGED vars
    BY <1>6, <1>7 DEF Polling, StartPoll, ReadWord, Drop, Take, vars
  <1> QED
    BY <1>1, <1>2, <1>3, <1>4, <1>5, <1>7 DEF Next, Looping

\* Between packets the two ways of counting agree with each other, with the packets
\* classified and with the calls of the callback (FilteredCallBack, loop_filtered),
\* for any classes, mask, number of runs and packets.
THEOREM CountersBalance == Spec => []CountsBalance
  <1>1. RunInv /\ Balanced => CountsBalance
    <2> SUFFICES ASSUME RunInv, Balanced, run > 0, todo = {}
                 PROVE  /\ counts[ADM] + counts[DROP] = packets
                        /\ ClassSum(counts, Classes(profile)) = packets
                        /\ counts[ADM] = calls + (IF pc = "admitted" THEN 1 ELSE 0)
      BY DEF CountsBalance
    <2>1. packets \in Nat /\ packets - 0 = packets
      BY ConstantsOK DEF RunInv, RunUnderWay
    <2> QED BY <2>1 DEF Balanced
  <1> QED
    BY <1>1, InitRun, RunIsInductive, InitBalanced, BalancedIsInductive, PTL DEF Spec

=============================================================================
