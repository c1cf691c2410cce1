------------------------------ MODULE MCTopology ------------------------------
(* Two or three CPUs, whose readings are complete, partly missing or constant; *)
(* two groups and two threads at most, so that both limits are passed.         *)
EXTENDS Topology

Span(first, last) == [first |-> first, last |-> last]

Lists ==
  { [present |-> <<Span(2, 2), Span(5, 1), Span(0, 1), Span(7, 12)>>,
     online |-> <<Span(1, 2)>>, affinity_available |-> TRUE, allowed |-> {0, 2},
     configured |-> 3],
    [present |-> <<>>, online |-> <<>>, affinity_available |-> FALSE, allowed |-> {},
     configured |-> 2] }

\* Cluster and package, the CPU's own policy, capacity and frequency.
Clusterings == {<<-1, 0>>, <<Unreadable, 0>>, <<1, Unreadable>>}
OwnPolicies == {{}, {1, 2}}
Speeds == {<<0, 0>>, <<0, 1>>, <<1, 1>>, <<1, 2>>}

Readings ==
  {[cluster_id |-> k[1], package_id |-> k[2], related_cpus |-> p, capacity |-> s[1],
    max_frequency_khz |-> s[2]] : k \in Clusterings, p \in OwnPolicies, s \in Speeds}

Directories == {{[id |-> 0, cpus |-> {0, 1}, max_frequency_khz |-> 1]}}

Asked ==
  [test_id : {"kCpuMulti"}, cpu : {-1}, group : {-1}, requested_threads : {0, 1, 2}]
    \cup [test_id : {"kCpuMulti"}, cpu : {-1}, group : {0, 1, 3}, requested_threads : {1}]
    \cup [test_id : {"kCpuSingle"}, cpu : {-1, 2}, group : {-1}, requested_threads : {1}]
=============================================================================
