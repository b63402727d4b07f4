------------------------------ MODULE MCReader ------------------------------
(* Instances of Reader for TLC.  Threads are interchangeable; so are Readers *)
(* of one kind, but every instance has at most one Reader of each kind.      *)
EXTENDS Reader, TLC

CONSTANTS t1, t2, file, nic

ThreadSymmetry == Permutations(Threads)
Nobody == {}
\* The methods that look at PyErr_Occurred, and those that call no Python.
CheckedMethods == AllOps \ {"loop"}
\* One that runs pcap_loop, with and without Python per packet, one that runs
\* pcap_dispatch.
LivenessMethods == {"loop_filtered", "dispatch"}

=============================================================================
