# TLA+ models of pcapy-ng

pcapy-ng is a C++ extension module that gives Python the packet capture of
libpcap, and, in its fast path, classifies packets in C before Python sees them.
This directory holds TLA+ models of that code, the TLC instances that check them
and TLAPS proofs about them. All line numbers are those of `src/pcapobj.cc`
unless another file is named.

Contents: [parts of the system](#parts-of-the-system),
[modules](#modules), [runs](#runs), [bounds and fairness](#bounds-and-fairness),
[proofs](#proofs), [disagreements found](#disagreements-found),
[what is not modelled](#what-is-not-modelled), [plan](#plan).

## Parts of the system

| part | state | operations | interacts with |
|---|---|---|---|
| **Reader** capture calls | the `pcap_t` handle (its packets and break flag), closed or not; per call: the context, the pending Python exception | `next` 338, `dispatch` 451, `loop` 556, `loop_filtered` 1219, `loop_to_buffer` 1333, `next_batch` 1416, `close` 48; callbacks 415, 1171, 1315, 1396 | the interpreter lock; libpcap, which calls back; other threads |
| **Classifier** | none: a function of the packet, the configuration and two tables | `locate_ipv4` 1081, `mt_classify` 928, `classify_generic` 1101, `classify_refine` 1126 | address set, flow table |
| **Address set** | open-addressing table, filled once per call | `ipset_build` 1007, `ipset_has` 1026 | classifier |
| **Flow table** | one key and one counter per slot | `flow_seen` 1072 | classifier |
| **Filtered calls** | per call: the set, the table, the mask, the counters, the result | `p_loop_filtered` 1219, `FilteredCallBack` 1171 | flow table, address set, Reader |
| **Live counters** | `filt_counts`, `filt_profile` of the Reader 40-41 | `FilteredCallBack` 1171 writes, `filtered_stats` 1292 reads | other Python threads |
| **Record buffer** | the caller's buffer, `used`, seven counters | `BufferCallBack` 1315; readers in `examples/05_shared_memory_ring.py` | worker processes |
| **Batch** | a growing buffer and an array of records, the bytes objects made of them | `BatchCallBack` 1396, `p_next_batch` 1416 | Reader |
| **Handle life cycle** | created, activated, closed; in a capture or not | `create` (pcapy.cc 155), `set_*` 607-779, `activate` 781, `stats` 490, `getfd` 837, `set_fanout` 857, `sendpacket` 797, `close` 48 | Reader |
| **BPF programs** | a compiled program and its owner | `compile` (pcapy.cc 216), `BPFProgram` (bpfobj.cc 151-252), `setfilter` 301 | Reader |
| **Dumper**, **Pkthdr** | an output file; a header value | pcapdumper.cc 125-194, pcap_pkthdr.cc 131-198, `dump_open` 527 | Reader |
| **Module functions** | none | pcapy.cc 34-213 | libpcap |
| Windows device names, build, tests, benchmarks | none of the library's | | |

What is hard here, and what makes each part correct:

- **Reader.** A capture blocks for an unlimited time without the interpreter lock
  and its callbacks need it, while other threads compete for it. A callback that
  raises must stop the read, exactly once, without losing packets; the mechanism
  is a flag in the handle that libpcap looks at only at some points, and
  differently for savefiles and live captures. Each method then has its own order
  of tests that decides between an object and an exception.
- **Live counters** are incremented without the lock and read with it, word by
  word, and reset between runs of different profiles.
- **Flow table and address set** rely on probing, eviction, a reserved zero value
  and unsigned arithmetic; a mistake loses a flow head or a match silently.
- **Classifier** tests interleave the search for the header, length tests and
  priorities between classes.
- **Record buffer** is written in C and parsed by other processes: every byte of
  the layout and the end of the buffer matter.
- **Filtered calls** build the set and the table anew, run on without the one there
  is no memory for, and count a packet in three places before a callback that may
  raise.
- **Batch** grows its buffer in the middle of a read, where an allocation may fail,
  and hands out offsets of 32 bits.
- **Handle life cycle.** Objects are closed twice, collected, or closed while a
  capture uses their handle; constructors fail after libpcap has allocated.

## Modules

| module | models | proofs |
|---|---|---|
| `Reader` | capture calls, callbacks, lock, break flag, close | `ReaderProofs` |
| `FlowTable` | `flow_seen` and the cutoff | `TableProofs` |
| `FilteredLoop` | whole calls of `loop_filtered` over `FlowTable` | `TableProofs` |
| `AddrSet` | `ipset_build`, `ipset_has` | `TableProofs` |
| `Classifier` | both profiles | `ClassifierProofs` |
| `FilteredStats` | counters of `loop_filtered` and their readers | `FilteredStatsProofs` |
| `RecordLog` | what `loop_to_buffer` promises: a bounded log | `RecordBufferProofs` |
| `RecordBuffer` | the bytes `loop_to_buffer` writes and the workers that read them; implements `RecordLog` | `RecordBufferProofs` |
| `Batch` | one call of `next_batch`: the growing buffer, the records and what is cut out with them | `BatchProofs` |
| `Handles` | who owns and frees capture handles, dump files and filter programs | `HandlesProofs` |
| `DataLemmas` | nothing: induction, quotients, powers and sums for the proofs | itself |

Each `MC...` module gives the constants of one of them their values for TLC.
Operators commented as mutants restate a definition with a plausible mistake in
it; they are used only to show that the properties notice the mistake.

**Reader.** A thread is in Python code, inside libpcap (`reading`), waiting for
the lock at the start of a callback (`entering`) or at the end of the method
(`finishing`), or in the Python callback. `gil` is the holder of the lock.
`Call` is the head of every method up to the release of the lock; one read of
libpcap is a sequence of `ReadPacketForPython`, `ReadPacketIntoBuffer`,
`ReadBreaks` and `ReadRunsDry` steps; `EnterCallback` and `LeaveCallback` are
`PythonCallBack` and `FilteredCallBack`; `Finish` is the tail of the method, with
`PendingIsNull`, `SetsPcapError`, `ReturnsNull` and `HandsOver` for its tests.
libpcap is external: the model has what the code relies on, namely where a read
looks at the break flag, whether it clears it, and what it returns. On a savefile
a read that already delivered packets returns their number and leaves the flag
set, and the packets of a Reader of `Failing` may end in a read error. `Limit` is the
count as libpcap gets it: `next_batch` turns every argument below 1 into 256. `Lost` is
what reached the handle and is neither unread, nor in the buffer of the running call, nor
given to Python; `missed` counts the packets a `next_batch` passed over because its
buffer could not be enlarged (1403). `Reader` makes one assumption that the code does
not enforce and no document of the repository states: a Reader is in one capture call
at a time and is not closed during one (`Busy`). `README.md` of the source allows one
thing meanwhile, `filtered_stats` (line 223), which is in `FilteredStats`; a `close`
meanwhile is in `Handles`.

**FlowTable.** One action, a packet with some key reaching `flow_seen`. The table
knows keys, not flows: which slot a key has is arbitrary, the zero key of a fresh table
is a real key, and the counter has a width. `seen`, `heads` and `restarts` are history
variables, kept per key.

**FilteredLoop** extends `FlowTable` by the calls around it. `Call` is
`p_loop_filtered` up to `pcap_loop`: the set and the table are built (`Built`), each
or neither, and nothing is left of the call before. `Take` is one packet in
`classify_generic` and `FilteredCallBack`: the set is looked up before the table
(`Looks`), three counters are written (`Counted`), an admitted packet reaches the
callback, which may raise. `Return` gives the counters, or NULL after a raise or a
read error. `KeyOf` is `flow_key`, of which nothing is assumed: flows may share a key,
and what a property says of a flow it says of one without `Twins`, or of the key. `Junk`
is what the counters of a new Reader hold. A set that was asked for and not allocated is a set that was not asked
for, and so for the table, as the code has no other trace of the two.

**AddrSet.** `Insert` is one turn of the loop at 1017. `StopsAt` says in one
formula where a linear probe ends. The multiplicative hash is an arbitrary
product per address, so everything holds for any hash; its shift, the width of
the integers and the doubling of the table are modelled as they are, and so is the
offset of an entry, `i * 4` on an unsigned int (`Entry`), which from 2^30 entries on
reads the start of the list again.

**Classifier.** A frame is abstracted to its tags (by the upper half of their
first byte), the header fields at the payload, the fields that are read if a tag
is mistaken for a header, and the captured length. Definitions follow the code's
tests one by one; the second half of the module says what README.md promises,
without any search, and the properties compare the two. Where the code departs from
it, the property says so: `later` marks the fragments other than the first, which
README.md 181 says are not flow heads; the code does not look at the fragment offset,
and `GenericMeaning` names them as heads beside the documented ones
(`TakenForConversation`). `counted` records whether
the packet was entered in the flow table, whose answer is the arbitrary `seen`.

**FilteredStats.** The two increments of a packet happen in either order and
without the lock; a call of `filtered_stats` reads the shown words one at a time
in any order while its thread keeps the lock. Because it keeps the lock, calls of
several threads never overlap, and one `POLLER` stands for all of them; the
looping thread itself may also poll, in its callback. A new Reader has arbitrary
counters. Words are read and written whole (64-bit builds).

**RecordBuffer and RecordLog.** A packet is written digit by digit in the
documented layout; `Starts` and `RecordAt` parse the buffer as
`examples/05_shared_memory_ring.py` does, and give the refinement mapping: the
log is what the reader finds. `Split` and `Consume` are the example's division
of the records among workers.

**Batch.** `Call` allocates both arrays or fails; `Store` and `Lose` are
`BatchCallBack` with both outcomes of the `realloc` of the buffer; `Return` copies what
is in use. The array of records is as long as the count given to `pcap_dispatch`, so
that the code that would enlarge it (1405-1409) never runs and is not in the model; that
it need not run is part of `TypeOK`. Sizes of buffers are `size_t` and do not wrap, the
offsets are words (`Word`). `Slice` is the slice of Python by which README.md cuts the
packets out.

**Handles.** A Python object has a type and a pointer (`pcap` of a Reader, `dumper`
of a Dumper, `bpf` of a BPFProgram); a resource of libpcap is unused, created (not
activated), open or freed. There is an action per way to obtain an object (`Open`,
`Compile`, `NewProgram`, `DumpOpen`; `Wraps` is the three `new_...object`, which can
fail after libpcap has allocated), per way to use one (`Ask` for the methods that pass
the handle on and leave all as it is, `Activate`, `SetFilter`, `Dump`, `Match`), and per
way to end one (`Close`, `Collect`). What libpcap answers is left out. Methods
are atomic under the interpreter lock, except that a capture runs between `Start`
and `Return` with the handle it was `given`, and that `loop_filtered` and
`loop_to_buffer` convert sequences of their caller after the test for a closed Reader
(`CallFiltered`, then `PortsFail` or `Start`). Any other method runs in between,
`close` among them. `dispatch` stands for the captures that call libpcap at once.
`misuses`, `dropped` and `closedInUse` are history variables.

The modules meet at narrow interfaces and are checked apart: `Classifier` gets an
arbitrary answer of the flow table and a set of addresses, which `FlowTable` and
`AddrSet` show to be right; `FilteredLoop` composes `flow_seen` with the calls, and takes the bytes of a packet as
given; `FilteredStats` and `RecordBuffer` get an arbitrary class per packet; `Reader`
gets from a filtered packet only whether it needs Python, and leaves to `Handles` the
Reader that is closed while a capture runs.

## Runs

| run | module, cfg | what it shows |
|---|---|---|
| `reader_file` | MCReader, `_file` | two threads, one savefile Reader that may end in a read error, every method that checks for exceptions: lock, exceptions, results, packets, memory for a batch, end of file, loops that read all; not read again after a raise |
| `reader_fair` | MCReader, `_fair` | a savefile Reader and a live one that is read again after raises: calls on a savefile return; Python code runs on next to a live capture that never returns |
| `reader_stale` | MCReader, `_stale` | violation, see below |
| `filtered_loop` | MCFilteredLoop | the first packets of every flow with a key of its own reach the callback in every call, later ones only after an eviction or a wrap; the result tells what came |
| `addr_set` | MCAddrSet | exact membership of the entries before `i * 4` wraps, no duplicates, probes and build end |
| `classifier` | MCClassifier | documented classes, but for later fragments, at every boundary of the length tests, reads inside the capture, the cutoff counts heads only |
| `classifier_vlan` | MCClassifier, `_vlan` | violation |
| `filtered_stats` | MCFilteredStats | counters balance between packets, tuples hide nothing and mix no runs, counters never go down in a run |
| `filtered_stats_junk` | MCFilteredStats, `_junk` | violation |
| `record_buffer` | MCRecordBuffer | the buffer is never overrun and implements the log; each record is read by one worker |
| `batch` | MCBatch | neither the buffer nor the records are overrun, and the records cut out the packets stored, whatever grew or failed to grow |
| `handles` | MCHandles | pointers stay live and exclusive, libpcap gets a closed resource in two known cases only, everything open has an owner but for two known leaks |

Run one with `tlc -config MCReader_file.cfg MCReader`.

## Bounds and fairness

- *Reader*: two threads. `reader_file` has one savefile Reader (calls on different
  Readers share only the lock, which the second thread already contends for), up to
  three packets and counts 0 (no limit), 1 and 2. Three packets give a read that stops at
  its count in the middle of a file, one that ends with it and one that goes on.
  `loop` is left out of it because it does not look at `PyErr_Occurred`: a
  counted `loop` on a savefile whose callback raises at its last packet returns
  None with the exception pending. `reader_fair` has a Reader of each kind, one
  packet per Reader, `loop_filtered` and `dispatch` (one method that runs `pcap_loop`
  and may drop packets without Python, one that runs `pcap_dispatch`), no limit on the
  count and no read errors, which end a read as the end of the file does. What it does
  not repeat of `reader_file` is proved for both kinds. `PacketsAccounted` exempts
  two steps of `next_batch`: the end of one that fails, which frees what it had read,
  and a packet passed over without memory. `EmptyMeansEnd` leaves out the batches that
  passed over a packet. `DefaultBatch` is 2 in place of 256.
- *FilteredLoop*: four flows with three keys over two slots: one with the key that
  empty slots hold shares its slot with one that is watched, two have a key in common;
  one kind of packet without a flow; cutoff 2, a counter modulo 4, up to four packets
  of each kind in a call (`MaxCame`): evictions, returns, hits, a flow cut off by its
  twin and a wrap all happen. Calls follow each other without a bound.
- *Batch*: up to four packets of 0 to 7 bytes, a buffer that starts with two, counts
  of 1 to 4 and the default 3, words of 8 values: the buffer grows more than once, by
  doubling and beyond it, or fails to, and an offset wraps. In the code these are
  65536, 256 or `max_n`, and 2^32.
- *AddrSet*: integers of 4 bits, tables of 2, 4 and 8 slots, three addresses, all
  lists up to seven entries, products that begin a probe at the first or the last slot.
  Seven entries are to 4 bits what 2^31 - 1 are to 32: the longest list for which
  `n * 2 + 1` does not wrap. At the fifth `i * 4` wraps, as it does at 2^30.
- *Classifier*: lengths on both sides of every test for headers of 20 and 24
  bytes, ports for every class and pair of classes, 0 to 3 tags, first and later
  fragments.
- *FilteredStats*: two runs of two packets, one generic and two security
  classes (instead of three and six), one class admitted. Two runs are needed to
  mix them, two packets to have a word move during a poll.
- *RecordBuffer*: bytes of three values, a caplen of two bytes, a buffer of 14,
  five packets, three workers.
- *Handles*: three objects, so that a Reader, its Dumper and a program exist
  together, and four resources, which are never used again: a behaviour ends with
  them, hence `CHECK_DEADLOCK FALSE`. The theorems have no such bound.

Only `Reader` has liveness about scheduling. Its fairness: libpcap makes progress
(weak); a thread that waits for the interpreter lock gets it (strong); and a callback
ends although it may lose the lock meanwhile, as it goes on whenever it has it (strong
fairness of `LeaveCallback`): that callbacks terminate is a matter of the caller's
code, and nothing would return if they did not. CPython justifies the second: a waiter that times out asks for the
lock, and the holder that drops it waits until another thread has taken it. Nothing
is assumed of packets arriving or of live captures returning. `AddrSet` assumes
that the build loop runs (weak fairness of `Insert`).

## Proofs

`tlapm X.tla` checks the theorems of X. All hold for every value of the constants
that satisfies the module's assumptions.

- `ReaderProofs`: `TypeCorrect`; `CapturesReleaseTheLock`; `RaiseStopsCallbacks`
  and `RaiseStopsReading`, from an inductive invariant that ties the pending
  exception of a thread inside a call to the break flag of its Reader, which needs
  that a Reader is in one call at a time; and `LiveResultConvention`, under the
  assumption that all Readers are live (for savefiles it is false, see below).
- `OnlyBatchesLosePackets` of the same module: `PacketsAccounted`. It needs who owns
  the packets that are read and not yet given to Python: a call that takes callbacks
  holds none, `next` at most the one it asked for, and only the call that is under way
  on a Reader can change them. The two exceptions are steps of `next_batch`, named in
  the property.
- `ResultConventionHolds`, `NullMeansException`, `EmptyResultIsTheEnd` and
  `UnlimitedLoopsReadAll` of the same module, for savefiles as well, under `Reused \subseteq Live`: no savefile is read
  again after a callback raised on it. That hypothesis is the one that tells
  `reader_file` from `reader_stale`, whose run shows that it is needed.
  `ResultConventionHolds` also leaves `loop` out, which does not test
  `PyErr_Occurred` (see the bounds). The invariant: the break flag of such a savefile
  is up only if a callback has raised on it, and then the exception is pending in the
  thread of the call until it returns; so a read that ends with the break code has an
  exception to show for it. A read that ends empty-handed left nothing behind, if
  `next_batch` had memory for every packet; and a loop without a count goes on until
  nothing is left, since -2 could end it early only with an exception.
- `TableProofs`, the flow table: `NoHeadIsHidden`, `ExtraHeadsArePaidFor` and
  `AloneMeansExact` for the table alone and its keys, whose invariant
  relates the counter of a resident key to its packets and heads since it took the
  slot; and for whole calls `FirstPacketsAreDelivered`, `OnlyFirstPacketsAreDelivered`,
  `ExtraHeadsArePaidForInCalls` and `LoopTypes`, from the same invariant, which every
  call re-establishes, and one that relates what came and what was delivered to the
  packets and heads of the table. Flows of one key add up there, which is why the first
  of these is about flows without `Twins`; nothing is assumed of `flow_key`.
- `ResultsTellTheTraffic` of the same module: the counters of the result are the
  packets that came, summed over the traffic of each class. The class of a packet depends on
  what came before it, so the invariant is about the running sums: with every packet
  one summand and the counters of one class grow by one. `Traffic` is assumed finite, so
  that it can be summed.
- `TableProofs`, the address set: `LookupsAreExact`, `EntriesAreStoredOnce`. The
  invariant is the one of linear probing: from the home slot of a stored address to its
  place there is neither a free slot nor the address. That a shift by `Width - bits`
  yields a slot of the table is the lemma `HomesInTable`. Of a list of more than 2^30
  entries the members are those of the first 2^30, as `i * 4` wraps then. `ProbesMeetFreeSlots` counts: the
  occupied slots are at most the entries inserted, the table has more slots than the
  list has entries. It holds under `ListsFit`, which says that `n * 2 + 1` does not
  wrap (below 2^31 addresses) and that the largest table has more slots than the list
  has entries. `SetTypesHold` is the type invariant.
- `BatchProofs`: `ArraysAreLargeEnough`, `BatchesCanBeCut`. The invariant says of every
  stored packet that its bytes lie where it was put, below `used`, and of every record
  that it has the offset of its packet modulo `Word`; that the records fit is a count of
  the packets stored and lost against those asked for (`RoomForOneMore`).
- `RecordBufferProofs`: `TypeCorrect`, `RecordsFillTheBuffer`, `EveryPacketIsCounted`,
  `RecordsAreFinal`, `EveryRecordIsReadOnce`, and `BytesImplementTheLog`, the refinement of
  `RecordLog`. They have one invariant, whose core is `Laid`: what the reader
  parses out of the bytes, without knowing what was written, is a list of records laid
  end to end from 0 to `used`. Three lemmas carry it. `ReadsLength`: the digits of a
  number below `Place[LenBytes]`, summed up with their weights, are the number.
  `StoredReads`: there is one way only to read the bytes as records laid end to end, and
  `Starts` and `Records` find it. `WriteAppends`: a write beyond the last record changes
  none and appends one. `Reading` adds where the workers stand: each has read a stretch
  of its share and is where the next record starts.
- `ClassifierProofs`: `ClassesAreIndexes`, `ReadsStayInTheCapture`, `HeadsAndOnlyHeadsUseTheCutoff` for
  all frames; `GenericClassesMeanWhatTheySay` and `SecurityClassesMeanWhatTheySay`
  for all frames that satisfy `PlainFrames`, by the lemma that the search finds
  the header behind the tags and nothing else. Later fragments are heads in the first,
  and left out of the second.
- `FilteredStatsProofs`: `SamplesAreCurrent` and `CountersOnlyGrow`, from an
  invariant that says of a poll under way that its thread holds the lock, that the
  counters have only grown since it began, and that what it has read lies between;
  `TuplesHideNothing` and `StatsTypes`, from one of the run under way: a packet is
  counted in words of the profile of its run only.
- `CountersBalance` of the same module: `CountsBalance`, from the same one and
  `Balanced`, which holds in the middle of a packet too, as it takes the words the
  packet has still to be counted in into account. `Security` is assumed finite (it has six
  classes).
- `HandlesProofs`: `PointersStayLive`, `OnlyKnownMisuses`, `OnlyKnownLeaks`,
  `HandleTypes`. The invariant adds to them that a program object
  always has its program, and that the handle given to a running capture is live and
  that of its Reader unless the Reader was closed meanwhile.
- `DataLemmas`: what the others cite. Induction over numbers and over finite sets is
  stated for sets (a set of numbers that has 0 and, with n, n + 1, has them all), since
  the provers cannot instantiate a predicate; a proof by induction defines the set of
  the numbers its claim holds of. From it follow that the recursive functions of the
  models exist and satisfy their equations (`PowersExist`), division with remainder
  digit by digit, and what happens to a sum when one summand changes. For this the
  models write powers as functions (`Place`, `TwoTo`), in place of `^`, which the
  provers do not know.

Model-checked only: liveness (`SavefileCallsReturn`, `PythonRuns`, `BuildEnds`), which
the proof system cannot treat, and the refutations of the three runs below. Every other
property of a passing run is the conclusion of a theorem, some under the hypotheses
named above.

## Disagreements found

Each is a run that TLC refutes, with the text it refutes quoted in `PROJECT.json`.

| run | where | what |
|---|---|---|
| `reader_stale` | 483 | a savefile Reader read again after a callback raised at the last packet of a read: NULL without an exception |
| `classifier_vlan` | 1086 | a tag of priority 2 is taken for the IPv4 header |
| `filtered_stats_junk` | 246 | `filtered_stats` before the first run reads uninitialized memory |

Seen in the source and not made a run of their own:

- Fragments other than the first, which README.md 181 of the source says are not
  matched as flow heads, have the start of their payload read as ports and are flow
  heads (1112). `GenericMeaning` says so.
- The comment at 1049-1056 and README.md 178-180 put two flows with one key at 2^-64
  per pair. In `flow_key` the ports reach only the upper half of the product at 1065,
  its lower half has the protocol only, and the upper half is combined with the source
  address: two flows of one protocol to one destination have the same key about once in
  2^32 pairs, and the heads of the second are then hidden. `HeadsDelivered` is about the
  flows to which this does not happen.
- The offset `i * 4` of an entry of the packed list is an unsigned int (1018): from 2^30
  entries on the start of the list is read again, and the addresses there never become
  members (`MembershipExact` says so). The size of the table wraps from 2^31 addresses
  on (1010); in such a table the probe at 1021 does not end.
- README.md 271 takes an empty batch for the end of the file or a timeout. It is also
  what remains when no `realloc` succeeds (1403), in a call that succeeds and has lost
  the packets (`PacketsAccounted` and `EmptyMeansEnd` except it); and in the situation of
  `reader_stale`, `next_batch` and `next` return an empty result although packets are
  left (`reader_file` checks `EmptyMeansEnd` for Readers not read again after a raise).
- The default `admit_mask` is 7 in both profiles (1225), where README.md 259 gives 59
  for the security profile.
- `setfilter` never frees the program it compiled (327). `compile` asks a closed handle
  for the error text (pcapy.cc 246) and returns NULL without an exception when it cannot
  open one. A Reader closed by the Python code of a port sequence, by a callback or by
  another thread is used all the same by the capture under way. `Handles` lists these in
  `MisusesAreKnown` and `NothingElseLeaks`, but for the NULL of `compile`.
- `stats`, `setdirection` and `next` test for -1 and take the -3 of a handle that is not
  activated for success or the end of the packets (500); `loop_to_buffer` takes any error
  for the end of the file (1378). No property is about these: each is one test in one
  method.

## What is not modelled

Two capture calls on one Reader at a time: the code permits them and the documents say
nothing of them, but what two reads of one handle do to each other is decided inside
libpcap. In `Reader` also `close` during a call, which `Handles` has. What libpcap
answers to the methods that do not capture. Allocation failures of the
interpreter in the middle of a callback (1182). A port list that the conversion of its
own elements shortens (1210). Which socket of a fanout group the kernel gives a packet
to, and what the sockets receive before they join: the bindings keep no state of it.
`Pkthdr`, a value that is copied in and out and never changes. The text of error
messages, reference counts, Python 2. BPF compilation and matching, which are
libpcap's. The module functions that return no object, and the Windows code, which keep
no state. 32-bit builds, where a counter can be read torn. `PROJECT.json` lists the
hazards no property covers, each with its reason.

## Plan

Done, in this order: `Reader` (the core: everything else runs inside its calls),
`FlowTable`, `AddrSet`, `Classifier`, `FilteredStats`, `RecordLog` and `RecordBuffer`,
`Handles`; then `FilteredLoop`, `Batch`, the life cycle from `create` to `activate` and
`close` during a capture (both in `Handles`), and read errors in `Reader`.

Left:

1. `FilteredLoop` for the security profile, where the heads of a flow are its first
   packets to a TLS port.
2. The round trip of a `Pkthdr` through a Dumper and a savefile.
3. `compile` returning NULL without an exception, which `Handles` leaves out with the
   other results of its methods.

Theorems to add: those of 1., whose table keeps the invariant of `FlowTable`. Of what the
runs check now, only liveness has none.
