------------------------------- MODULE Topology -------------------------------
(***************************************************************************)
(* Topology detection (native/benchmark_core/src/topology.cpp) and the     *)
(* selections that the engines make from it (SelectBenchmarkCpus,          *)
(* SelectPresentCpuBenchmarkCpus, Run of engine.cpp and                    *)
(* SelectCpuApplicationCpus).                                              *)
(*                                                                         *)
(* The files of /sys are readings, any of which may be missing: a CPU list *)
(* is a sequence of its ranges, empty if unreadable, an identifier is      *)
(* Unreadable, which differs from the -1 that a kernel may report, and a   *)
(* number 0.  Detection is one action, a selection another.                *)
(***************************************************************************)
EXTENDS Integers, Sequences, FiniteSets, SequencesExt

CONSTANTS
  CpuReadings,     \* readings of one CPU's own directory
  PolicyReadings,  \* readings of the directory of frequency policies
  ListReadings,    \* readings of the lists of present, online and allowed CPUs
  Requests,        \* what the CPU engine is asked for
  RankUnit,        \* weight of capacity in a rank, 2^32 in the code
  ListSpan,        \* longest range taken from a list, 4096 in the code
  MaxGroups,       \* kMaximumPerformanceGroups, 16 in the code
  MaxThreads,      \* kMaximumBenchmarkThreads, 64 in the code
  MaxWorkers       \* most CPUs of the CPU application engine, 64 in the code

\* A CPU number is not negative, a frequency has fewer bits than its place in a rank,
\* and there is a CPU.
ASSUME TopologyAssumption ==
  /\ RankUnit \in Nat \ {0}
  /\ CpuReadings \subseteq
       [cluster_id : Int, package_id : Int, related_cpus : SUBSET Nat, capacity : Nat,
        max_frequency_khz : 0 .. RankUnit - 1]
  /\ PolicyReadings \subseteq
       SUBSET [id : Nat, cpus : SUBSET Nat, max_frequency_khz : 0 .. RankUnit - 1]
  /\ ListReadings \subseteq
       [present : Seq([first : Nat, last : Nat]), online : Seq([first : Nat, last : Nat]),
        affinity_available : BOOLEAN, allowed : SUBSET Nat, configured : Nat \ {0}]
  /\ Requests \subseteq
       [test_id : {"kCpuSingle", "kCpuMulti"}, cpu : Int, group : Int,
        requested_threads : Nat]
  /\ ListSpan \in Nat
  /\ MaxGroups \in Nat \ {0}
  /\ MaxThreads \in Nat \ {0}
  /\ MaxWorkers \in Nat \ {0}

VARIABLES
  lists,      \* the lists as read: present, online, allowed (and whether the affinity
              \* mask can be read at all), and the number of CPUs configured
  files,      \* what is read of each present CPU
  policies,   \* what is read of the frequency policies
  topology,   \* the result of DetectTopology
  selection   \* what an engine has selected from it

topologyVars == <<lists, files, policies, topology, selection>>

\* std::sort, of a set: its elements in an order, which is the set of the pairs in it.
Sorted(S, order) ==
  CHOOSE seq \in SetToSeqs(S) : \A i, j \in DOMAIN seq : i < j => <<seq[i], seq[j]>> \in order

ByNumber(S) == Sorted(S, {pair \in S \X S : pair[1] < pair[2]})

------------------------------------------------------------------------------
(* Reading *)

Unreadable == -2

\* Ranges that run backward or too far are left out.
ParseCpuList(list) ==
  UNION {list[i].first .. list[i].last : i \in {j \in DOMAIN list :
           list[j].last - list[j].first < ListSpan}}

DetectPresentCpus ==
  LET parsed == ParseCpuList(lists.present)
  IN  IF parsed # {} THEN parsed ELSE 0 .. lists.configured - 1

OnlineCpus ==
  LET parsed == ParseCpuList(lists.online)
  IN  IF parsed # {} THEN parsed ELSE DetectPresentCpus

\* The lowest CPU of the CPU's own policy list, else a policy that lists the CPU.
ReadFrequencyPolicyIdForCpu(c) ==
  LET listing == {p \in policies : c \in p.cpus}
  IN  IF files[c].related_cpus # {} THEN Min(files[c].related_cpus)
      ELSE IF listing # {} THEN (CHOOSE p \in listing : TRUE).id
      ELSE -1

\* The CPU's own reading if it has one, else that of its policy.
ReadFrequencyValue(c, policy_id) ==
  LET fallback == {p \in policies : p.id = policy_id}
  IN  IF files[c].max_frequency_khz > 0 THEN files[c].max_frequency_khz
      ELSE IF fallback # {} THEN (CHOOSE p \in fallback : TRUE).max_frequency_khz
      ELSE 0

CpuInfo(c) ==
  LET policy_id == ReadFrequencyPolicyIdForCpu(c)
  IN  [available           |-> /\ c \in OnlineCpus
                               /\ lists.affinity_available => c \in lists.allowed,
       cluster_id          |->
         IF files[c].cluster_id # Unreadable THEN files[c].cluster_id
         ELSE IF files[c].package_id # Unreadable THEN files[c].package_id ELSE -1,
       frequency_policy_id |-> policy_id,
       max_frequency_khz   |-> ReadFrequencyValue(c, policy_id),
       capacity            |-> files[c].capacity]

------------------------------------------------------------------------------
(* Groups (AssignPerformanceGroups).  cpus maps each present CPU to its CpuInfo. *)

Present(cpus) == DOMAIN cpus

\* Faulty variant: one capacity that can be read is enough.
AnyRankSource(cpus) ==
  IF \E c \in Present(cpus) : cpus[c].capacity > 0 THEN "kCapacity"
  ELSE IF \A c \in Present(cpus) : cpus[c].max_frequency_khz > 0 THEN "kFrequency"
  ELSE "kUnknown"

\* Like is compared with like: a source counts if every CPU has it.
CommonRankSource(cpus) ==
  IF \A c \in Present(cpus) : cpus[c].capacity > 0 THEN "kCapacity"
  ELSE IF \A c \in Present(cpus) : cpus[c].max_frequency_khz > 0 THEN "kFrequency"
  ELSE "kUnknown"

PerformanceRank(cpus, c) ==
  CASE CommonRankSource(cpus) = "kCapacity" ->
         cpus[c].capacity * RankUnit + cpus[c].max_frequency_khz
    [] CommonRankSource(cpus) = "kFrequency" -> cpus[c].max_frequency_khz
    [] OTHER -> 0

DistinctRanks(cpus) ==
  \E c, d \in Present(cpus) : PerformanceRank(cpus, c) # PerformanceRank(cpus, d)

Clusters(cpus) == {cpus[c].cluster_id : c \in Present(cpus)}
FrequencyPolicies(cpus) == {cpus[c].frequency_policy_id : c \in Present(cpus)}
Complete(ids) == ids # {} /\ \A id \in ids : id >= 0
Several(ids) == \E id, other \in ids : id # other

\* Faulty variant: complete clusters are taken as they are.
ClustersFirstSource(cpus) ==
  CASE Complete(Clusters(cpus)) -> "kCluster"
    [] Complete(FrequencyPolicies(cpus)) -> "kFrequencyPolicy"
    [] OTHER -> "kPerformanceRank"

\* Metadata that is complete and tells CPUs apart; constant metadata only if the
\* ranks do not tell them apart either.
GroupSource(cpus) ==
  CASE Complete(Clusters(cpus)) /\ Several(Clusters(cpus)) -> "kCluster"
    [] ~(Complete(Clusters(cpus)) /\ Several(Clusters(cpus)))
         /\ Complete(FrequencyPolicies(cpus)) /\ Several(FrequencyPolicies(cpus)) ->
         "kFrequencyPolicy"
    [] OTHER -> IF DistinctRanks(cpus) THEN "kPerformanceRank"
                ELSE IF Complete(Clusters(cpus)) THEN "kCluster"
                ELSE IF Complete(FrequencyPolicies(cpus)) THEN "kFrequencyPolicy"
                ELSE "kPerformanceRank"

PerformanceGroupIdentity(cpus, c) ==
  CASE GroupSource(cpus) = "kCluster" -> cpus[c].cluster_id
    [] GroupSource(cpus) = "kFrequencyPolicy" -> cpus[c].frequency_policy_id
    [] GroupSource(cpus) = "kPerformanceRank" -> PerformanceRank(cpus, c)

GroupIdentities(cpus) == {PerformanceGroupIdentity(cpus, c) : c \in Present(cpus)}

\* The rank of a group is that of its best CPU.
GroupRank(cpus, id) ==
  Max({PerformanceRank(cpus, c) :
         c \in {d \in Present(cpus) : PerformanceGroupIdentity(cpus, d) = id}})

\* Groups are ordered by rank, then by identity.
GroupOrder(cpus) ==
  {pair \in GroupIdentities(cpus) \X GroupIdentities(cpus) :
     \/ GroupRank(cpus, pair[1]) < GroupRank(cpus, pair[2])
     \/ /\ GroupRank(cpus, pair[1]) = GroupRank(cpus, pair[2])
        /\ pair[1] < pair[2]}

\* The index of a group in that order; the last number takes all that are left over.
AssignedGroup(cpus, id) ==
  Min({Cardinality({other \in GroupIdentities(cpus) : <<other, id>> \in GroupOrder(cpus)}),
       MaxGroups - 1})

AssignedGroups(cpus) ==
  [c \in Present(cpus) |-> AssignedGroup(cpus, PerformanceGroupIdentity(cpus, c))]

PerformanceGroupCount(cpus) == Min({Cardinality(GroupIdentities(cpus)), MaxGroups})

\* A better rank, or among equals the lower number; with nothing known an available
\* CPU before one that is not.
BetterSingleCpu(cpus, c, best) ==
  \/ PerformanceRank(cpus, c) > PerformanceRank(cpus, best)
  \/ /\ PerformanceRank(cpus, c) = PerformanceRank(cpus, best)
     /\ \/ /\ CommonRankSource(cpus) = "kUnknown"
           /\ cpus[c].available
           /\ ~cpus[best].available
        \/ /\ CommonRankSource(cpus) = "kUnknown" => cpus[c].available = cpus[best].available
           /\ c < best

\* The loop over the CPUs, after each of its turns, and after the last.
PreferredOfFirst(cpus, order) ==
  LET choice[i \in 1 .. Len(order)] ==
        IF i = 1 THEN order[1]
        ELSE IF BetterSingleCpu(cpus, order[i], choice[i - 1]) THEN order[i]
                                                               ELSE choice[i - 1]
  IN  choice

PreferredSingleCpu(cpus) ==
  LET order == ByNumber(Present(cpus))
  IN  IF order = <<>> THEN -1 ELSE PreferredOfFirst(cpus, order)[Len(order)]

\* What is missing, inferred or cut off is told with the topology.
QualityFlags(cpus) ==
  LET told ==
    [kQualityAffinityUnavailable       |-> ~lists.affinity_available,
     kQualityCapacityMissing           |-> \E c \in Present(cpus) : cpus[c].capacity = 0,
     kQualityMaxFrequencyMissing       |->
       \E c \in Present(cpus) : cpus[c].max_frequency_khz = 0,
     kQualityClusterIdMissing          |->
       \E c \in Present(cpus) : cpus[c].cluster_id < 0 /\ cpus[c].frequency_policy_id < 0,
     kQualitySingleCpuInferred         |-> CommonRankSource(cpus) = "kFrequency",
     kQualitySingleCpuUnknown          |-> CommonRankSource(cpus) = "kUnknown",
     kQualityPerformanceGroupsInferred |-> GroupSource(cpus) = "kPerformanceRank",
     kQualityTopologyTruncated         |->
       Cardinality(GroupIdentities(cpus)) > MaxGroups]
  IN  {flag \in DOMAIN told : told[flag]}

DetectTopology ==
  LET cpus == [c \in DetectPresentCpus |-> CpuInfo(c)]
  IN  [cpus                    |-> cpus,
       performance_group       |-> AssignedGroups(cpus),
       performance_group_count |-> PerformanceGroupCount(cpus),
       preferred_single_cpu    |-> PreferredSingleCpu(cpus),
       quality_flags           |-> QualityFlags(cpus)]

------------------------------------------------------------------------------
(* Selections *)

Take(seq, n) == IF n # 0 /\ n < Len(seq) THEN SubSeq(seq, 1, n) ELSE seq

\* Faulty variant: the list is cut before it is sorted.
SelectUnsortedCandidates(requested_threads, include_all_present) ==
  Take(ByNumber({c \in DOMAIN topology.cpus :
                   include_all_present \/ topology.cpus[c].available}),
       requested_threads)

\* Best rank first, then lowest number; at most as many as were requested.
BestFirst(cpus) ==
  {pair \in Present(cpus) \X Present(cpus) :
     \/ PerformanceRank(cpus, pair[1]) > PerformanceRank(cpus, pair[2])
     \/ /\ PerformanceRank(cpus, pair[1]) = PerformanceRank(cpus, pair[2])
        /\ pair[1] < pair[2]}

SelectCpuCandidates(requested_threads, include_all_present) ==
  LET cpus == topology.cpus
  IN  Take(Sorted({c \in DOMAIN cpus : include_all_present \/ cpus[c].available},
                  BestFirst(cpus)),
           requested_threads)

SelectBenchmarkCpus(n) == SelectCpuCandidates(n, FALSE)
SelectPresentCpuBenchmarkCpus(n) == SelectCpuCandidates(n, TRUE)

SelectPerformanceGroupCpus(group) ==
  ByNumber({c \in DOMAIN topology.cpus : topology.performance_group[c] = group})

SelectCpuApplicationCpus(multi) ==
  LET cpus == ByNumber(DOMAIN topology.cpus)
  IN  IF ~multi
        THEN IF topology.preferred_single_cpu \in ToSet(cpus)
               THEN <<topology.preferred_single_cpu>> ELSE <<>>
      ELSE IF Len(cpus) > MaxWorkers THEN <<>>
      ELSE cpus

\* The CPUs of a request to the CPU engine, and the flags that tell how they differ
\* from it.  A request names a CPU or a group, or -1 for the engine's own choice.
CpuEngineChoice(r) ==
  LET preferred == IF topology.preferred_single_cpu < 0 THEN <<>>
                   ELSE <<topology.preferred_single_cpu>>
      group     == SelectPerformanceGroupCpus(r.group)
      all       == SelectPresentCpuBenchmarkCpus(r.requested_threads)
  IN  CASE r.test_id = "kCpuMulti" /\ r.group >= 0 ->
             IF group # <<>> THEN [cpus |-> group, flags |-> {}]
             ELSE [cpus |-> all, flags |-> {"kQualitySelectionFallback"}]
        [] r.test_id = "kCpuMulti" /\ r.group < 0 ->
             [cpus |-> all,
              flags |-> IF r.requested_threads # 0 /\ Len(all) < r.requested_threads
                          THEN {"kQualityThreadCountReduced"} ELSE {}]
        [] r.test_id = "kCpuSingle" /\ r.cpu >= 0 ->
             IF r.cpu \in DOMAIN topology.cpus THEN [cpus |-> <<r.cpu>>, flags |-> {}]
             ELSE [cpus |-> preferred, flags |-> {"kQualitySelectionFallback"}]
        [] OTHER -> [cpus |-> preferred, flags |-> {}]

\* Run of the CPU engine: what is beyond its capacity is cut off, with a flag.
SelectForCpuEngine(r) ==
  /\ topology # <<>>
  /\ selection = <<>>
  /\ LET choice == CpuEngineChoice(r)
     IN  selection' = [engine |-> "cpu", request |-> r,
                       cpus |-> Take(choice.cpus, MaxThreads),
                       flags |-> topology.quality_flags \cup choice.flags \cup
                         {flag \in {"kQualityTopologyTruncated"} :
                            Len(choice.cpus) > MaxThreads}]
  /\ UNCHANGED <<lists, files, policies, topology>>

SelectForMemory ==
  /\ topology # <<>>
  /\ selection = <<>>
  /\ selection' = [engine |-> "memory", cpus |-> ByNumber(ToSet(SelectBenchmarkCpus(0)))]
  /\ UNCHANGED <<lists, files, policies, topology>>

SelectForApplication(multi) ==
  /\ topology # <<>>
  /\ selection = <<>>
  /\ selection' = [engine |-> "application", multi |-> multi,
                   cpus |-> SelectCpuApplicationCpus(multi)]
  /\ UNCHANGED <<lists, files, policies, topology>>

Detect ==
  /\ topology = <<>>
  /\ topology' = DetectTopology
  /\ UNCHANGED <<lists, files, policies, selection>>

TopologyInit ==
  /\ lists \in ListReadings
  /\ files \in [DetectPresentCpus -> CpuReadings]
  /\ policies \in PolicyReadings
  /\ topology = <<>>
  /\ selection = <<>>

TopologyNext ==
  \/ Detect
  \/ \E r \in Requests : SelectForCpuEngine(r)
  \/ SelectForMemory
  \/ \E multi \in BOOLEAN : SelectForApplication(multi)

TopologySpec == TopologyInit /\ [][TopologyNext]_topologyVars

------------------------------------------------------------------------------
(* Properties.  They are stated on what was read of the CPUs, not on ranks. *)

cpu == topology.cpus
Group == topology.performance_group

CapacitiesKnown(cpus) == \A c \in DOMAIN cpus : cpus[c].capacity > 0
FrequenciesKnown(cpus) == \A c \in DOMAIN cpus : cpus[c].max_frequency_khz > 0

\* The evidence says that c is faster than d.
Faster(cpus, c, d) ==
  IF CapacitiesKnown(cpus)
    THEN \/ cpus[c].capacity > cpus[d].capacity
         \/ /\ cpus[c].capacity = cpus[d].capacity
            /\ cpus[c].max_frequency_khz > cpus[d].max_frequency_khz
    ELSE FrequenciesKnown(cpus) /\ cpus[c].max_frequency_khz > cpus[d].max_frequency_khz

\* However incomplete or constant the readings, every CPU has a group, no number is
\* skipped, a higher number means that somebody in it is at least as fast, and CPUs
\* that the evidence tells apart are not all in one group ("Constant IDs no longer
\* collapse distinct measured ranks into one performance group",
\* docs/compatibility-beta7.md:31).
GroupsFollowEvidence ==
  topology # <<>> =>
    /\ {Group[c] : c \in DOMAIN cpu} = 0 .. topology.performance_group_count - 1
    /\ topology.performance_group_count <= MaxGroups
    /\ \A c, d \in DOMAIN cpu :
         Group[c] < Group[d] =>
           \E e \in DOMAIN cpu : Group[e] = Group[d] /\ ~Faster(cpu, c, e)
    /\ MaxGroups > 1 /\ (\E c, d \in DOMAIN cpu : Faster(cpu, c, d)) =>
         topology.performance_group_count > 1

\* No CPU is known to be faster than the preferred one, and none of its equals has
\* a lower number; where nothing is known, an available CPU is preferred; and
\* missing evidence is not presented as proof (docs/compatibility-beta7.md:28).
PreferredIsBest ==
  topology # <<>> =>
    LET p == topology.preferred_single_cpu
        known == CapacitiesKnown(cpu) \/ FrequenciesKnown(cpu)
    IN  /\ p \in DOMAIN cpu
        /\ \A c \in DOMAIN cpu \ {p} :
             /\ ~Faster(cpu, c, p)
             /\ ~Faster(cpu, p, c) /\ c < p =>
                  ~known /\ cpu[p].available /\ ~cpu[c].available
             /\ ~known /\ cpu[c].available => cpu[p].available
        /\ "kQualitySingleCpuUnknown" \in topology.quality_flags <=> ~known
        /\ "kQualitySingleCpuInferred" \in topology.quality_flags
             <=> FrequenciesKnown(cpu) /\ ~CapacitiesKnown(cpu)

Deviations == {"kQualitySelectionFallback", "kQualityThreadCountReduced",
               "kQualityTopologyTruncated"}

Available(cpus) == {c \in DOMAIN cpus : cpus[c].available}

\* The CPU engine has chosen CPUs of the topology found, for a request: no CPU that is
\* left out of its own choice is faster than one that is in, and unless a flag says
\* otherwise they are what was requested.
AnswersRequest(found, r, chosen, flags) ==
  LET threads == IF r.requested_threads = 0 THEN Cardinality(DOMAIN found.cpus)
                 ELSE r.requested_threads
  IN  /\ chosen # {}
      /\ r.test_id = "kCpuMulti" /\ r.group < 0 =>
           \A c \in chosen, d \in DOMAIN found.cpus \ chosen : ~Faster(found.cpus, d, c)
      /\ flags \cap Deviations = {} =>
           CASE r.test_id = "kCpuMulti" /\ r.group < 0 -> Cardinality(chosen) = threads
             [] r.test_id = "kCpuMulti" /\ r.group >= 0 ->
                  chosen = {c \in DOMAIN found.cpus : found.performance_group[c] = r.group}
             [] r.test_id = "kCpuSingle" /\ r.cpu >= 0 -> chosen = {r.cpu}
             [] OTHER -> chosen = {found.preferred_single_cpu}

\* An engine that has CPUs to choose from selects distinct ones of them, the memory
\* engine those that are available, the application engine all of them for a multi-core
\* test, none where it does not support their number, and else the preferred one; and the
\* CPU engine says with a flag when it deviates from what was requested.
SelectionIsBestOrFlagged ==
  selection # <<>> =>
    LET chosen == ToSet(selection.cpus)
    IN  /\ chosen \subseteq DOMAIN cpu
        /\ Cardinality(chosen) = Len(selection.cpus)
        /\ selection.engine = "memory" => chosen = Available(cpu)
        /\ selection.engine = "application" =>
             chosen = IF ~selection.multi THEN {topology.preferred_single_cpu}
                      ELSE IF Cardinality(DOMAIN cpu) <= MaxWorkers THEN DOMAIN cpu ELSE {}
        /\ selection.engine = "cpu" =>
             AnswersRequest(topology, selection.request, chosen, selection.flags)
=============================================================================
