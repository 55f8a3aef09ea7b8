------------------------------ MODULE Topology ------------------------------
(***************************************************************************)
(* The one-shot mq-topology job (declare-topology.sh), run again at every   *)
(* deployment, perhaps with another MQ_PARTITION_COUNT.  Every request to   *)
(* the management API is a step, and each may fail or find the job killed.  *)
(* A PUT or POST of something that is there with the same properties        *)
(* changes nothing.                                                        *)
(***************************************************************************)
EXTENDS Naturals, Sequences, SequencesExt

CONSTANTS
    Counts,     \* the values MQ_PARTITION_COUNT is given
    MaxJobs,    \* bound on runs of the job
    MaxFaults,  \* bound on failed requests
    MaxUnlisted \* bound on failed listings of the queues

ASSUME TopologyAssumption ==
    /\ Counts \subseteq Nat \ {0}
    /\ MaxJobs \in Nat /\ MaxFaults \in Nat /\ MaxUnlisted \in Nat

VARIABLES
    broker,     \* the objects declared, each <<kind, index>>
    todo,       \* the requests the running job has left
    n,          \* N of the last job, 0 before the first
    job,        \* "none" | "running" | "ok" | "refused" | "failed"
    ran,        \* the counts of the jobs that passed the guard
    settled,    \* the partitions bound when a job first succeeded
    jobs, faults, unlisted

vars == <<broker, todo, n, job, ran, settled, jobs, faults, unlisted>>

Queue(i) == <<"queue", i>>
Binding(i) == <<"binding", i>>

Partitions == {x[2] : x \in {y \in broker : y[1] = "queue"}}
BoundPartitions == {x[2] : x \in {y \in broker : y[1] = "binding"}}

DeadLetterPath == <<<<"loc.dlx", 0>>, <<"loc.dead", 0>>, <<"loc.dead binding", 0>>>>
Policy == <<"policy", 0>>

\* For each partition in turn, its queue and its binding.
PartitionRequests(count) ==
    [i \in 1..(2 * count) |-> IF i % 2 = 1 THEN Queue(i \div 2) ELSE Binding((i \div 2) - 1)]

\* Mutant of Requests: the policy is put first.
RequestsPolicyFirst(count) ==
    <<Policy, <<"loc.events", 0>>>> \o DeadLetterPath
      \o PartitionRequests(count)

\* The script's requests, in order.
Requests(count) ==
    <<<<"loc.events", 0>>>> \o DeadLetterPath
      \o PartitionRequests(count)
      \o <<Policy>>

Init ==
    /\ broker = {}
    /\ todo = <<>>
    /\ n = 0 /\ job = "none"
    /\ ran = {} /\ settled = {}
    /\ jobs = 0 /\ faults = 0 /\ unlisted = 0

\* The number of partition queues the job finds listed.  The listing is not
\* checked as the other requests are: when it fails, none is found.
Listing(existing) ==
    \/ /\ existing = Cardinality(Partitions)
       /\ UNCHANGED unlisted
    \/ /\ unlisted < MaxUnlisted
       /\ existing = 0
       /\ unlisted' = unlisted + 1

\* Mutant of Guard: missing queues are simply added.
GuardMoreIsFine(existing, count) == existing <= count

\* The immutability guard: no partition queue yet, or as many as asked for.
Guard(existing, count) == existing = 0 \/ existing = count

Begin(count) ==
    /\ job # "running"
    /\ jobs < MaxJobs
    /\ jobs' = jobs + 1
    /\ n' = count
    /\ \E existing \in 0..Cardinality(Partitions) :
         /\ Listing(existing)
         /\ \/ /\ Guard(existing, count)
               /\ job' = "running"
               /\ todo' = Requests(count)
               /\ ran' = ran \union {count}
            \/ /\ ~Guard(existing, count)
               /\ job' = "refused"
               /\ UNCHANGED <<todo, ran>>
    /\ UNCHANGED <<broker, settled, faults>>

\* req answered 2xx; after the last one the job exits 0.
Request ==
    /\ job = "running"
    /\ broker' = broker \union {Head(todo)}
    /\ todo' = Tail(todo)
    /\ job' = IF todo' = <<>> THEN "ok" ELSE job
    /\ settled' = IF job' = "ok" /\ settled = {}
                  THEN BoundPartitions' ELSE settled
    /\ UNCHANGED <<n, ran, jobs, faults, unlisted>>

\* Mutant of RequestFails: the status is not looked at and the script goes on.
RequestFailsUnseen ==
    /\ job = "running"
    /\ faults < MaxFaults
    /\ faults' = faults + 1
    /\ todo' = Tail(todo)
    /\ job' = IF todo' = <<>> THEN "ok" ELSE job
    /\ UNCHANGED <<broker, n, ran, settled, jobs, unlisted>>

\* req got another answer or none, or the job was killed: exit 1, with what was
\* declared so far left in place, perhaps what this request asked for too.
RequestFails ==
    /\ job = "running"
    /\ faults < MaxFaults
    /\ faults' = faults + 1
    /\ job' = "failed"
    /\ todo' = <<>>
    /\ broker' \in {broker, broker \union {Head(todo)}}
    /\ UNCHANGED <<n, ran, settled, jobs, unlisted>>

Next == Request \/ RequestFails \/ \E count \in Counts : Begin(count)

Spec == Init /\ [][Next]_vars

-----------------------------------------------------------------------------
(***************************************************************************)
(* Correctness properties.                                                 *)
(***************************************************************************)

\* "Immutable once real traffic has flowed": after a job has succeeded, no later
\* job, also one that fails halfway or has another count, adds a partition to
\* the hash ring or takes one away, so no user is routed anew, as long as every
\* job could list the queues.
RoutingStable == (settled # {} /\ unlisted = 0) => BoundPartitions = settled

\* A job that exits 0 leaves the partitions 0..N-1 bound and the whole
\* dead-letter path in place, whatever failed before it, and no other partition
\* unless a listing has failed.
SuccessMeansComplete ==
    job = "ok" =>
      /\ 0..(n - 1) \subseteq BoundPartitions
      /\ BoundPartitions \subseteq Partitions
      /\ unlisted = 0 => Partitions = 0..(n - 1)
      /\ ToSet(DeadLetterPath) \union {Policy} \subseteq broker

\* Nothing can be dead-lettered into the void: when the policy is in force, the
\* exchange it names leads to loc.dead.
DeadLettersKept == Policy \in broker => ToSet(DeadLetterPath) \subseteq broker

\* docker-compose.yml and ADR 0014: the job declares the topology idempotently on
\* every start, so the guard stops a changed count and nothing else.
RefusesOnlyAnotherCount == job = "refused" => \E count \in ran : count # n
=============================================================================
