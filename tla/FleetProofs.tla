----------------------------- MODULE FleetProofs -----------------------------
(***************************************************************************)
(* Proofs about the topology job and the deployment: for every number of   *)
(* jobs, counts, failed requests, workers, users and crashes.              *)
(***************************************************************************)
EXTENDS Fleet, SequenceLemmas, FiniteSetTheorems

-----------------------------------------------------------------------------
(***************************************************************************)
(* The topology job.                                                       *)
(***************************************************************************)

\* What the job may declare.
Object == {"loc.events", "loc.dlx", "loc.dead", "loc.dead binding", "policy", "queue",
           "binding"} \X Nat

\* How many requests of the running job were answered.
Answered == Len(Requests(n)) - Len(todo)

\* The requests left are the last ones of the list; the others were carried out.
JobInv ==
    /\ job = "running" =>
         /\ Len(todo) \in 1..Len(Requests(n))
         /\ \A i \in 1..Len(todo) : todo[i] = Requests(n)[Answered + i]
         /\ \A i \in 1..Answered : Requests(n)[i] \in broker
    /\ job = "ok" => \A i \in 1..Len(Requests(n)) : Requests(n)[i] \in broker

TopologyType ==
    /\ broker \in SUBSET Object
    /\ todo \in Seq(Object)
    /\ n \in Counts \union {0}
    /\ job \in {"none", "running", "ok", "refused", "failed"}
    /\ job \in {"running", "ok"} => n \in Counts
    /\ unlisted \in Nat

\* Queues appear from 0 up, each before its binding, and the policy last of all.
OrderInv ==
    /\ \E m \in Nat : Partitions = 0..(m - 1)
    /\ BoundPartitions \subseteq Partitions
    /\ Partitions \subseteq AllPartitions
    /\ DeadLettersKept

\* With every listing seen, a job that runs has a count no smaller than what is
\* there, and the settled partitions are all there will ever be.
ListedInv ==
    unlisted = 0 =>
      /\ job \in {"running", "ok"} => Partitions \subseteq 0..(n - 1)
      /\ settled # {} =>
           /\ BoundPartitions = settled /\ Partitions = settled
           /\ job \in {"running", "ok"} => settled = 0..(n - 1)

TopologyInv == TopologyType /\ JobInv /\ OrderInv /\ ListedInv

\* Requests written out one by one are sequences.
LEMMA Literals ==
    ASSUME NEW S, NEW x \in S, NEW y \in S, NEW z \in S
    PROVE  /\ <<x>> \in Seq(S) /\ Len(<<x>>) = 1 /\ <<x>>[1] = x
           /\ <<x, y, z>> \in Seq(S) /\ Len(<<x, y, z>>) = 3
OBVIOUS

\* The script's requests, position by position.
LEMMA RequestsAre ==
    ASSUME NEW count \in Counts
    PROVE  /\ count \in Nat /\ count >= 1
           /\ Requests(count) \in Seq(Object)
           /\ Len(Requests(count)) = 2 * count + 5
           /\ Requests(count)[1] = <<"loc.events", 0>>
           /\ \A i \in 1..3 : Requests(count)[i + 1] = DeadLetterPath[i]
           /\ \A i \in 0..(count - 1) : /\ Requests(count)[2 * i + 5] = Queue(i)
                                        /\ Requests(count)[2 * i + 6] = Binding(i)
           /\ Requests(count)[2 * count + 5] = Policy
<1> DEFINE a == <<<<"loc.events", 0>>>>
           p == PartitionRequests(count)
           b == a \o DeadLetterPath
           c == b \o p
           d == <<Policy>>
<1>1. count \in Nat /\ count >= 1
  BY TopologyAssumption
<1>2. /\ a \in Seq(Object) /\ Len(a) = 1 /\ a[1] = <<"loc.events", 0>>
      /\ DeadLetterPath \in Seq(Object) /\ Len(DeadLetterPath) = 3
      /\ d \in Seq(Object) /\ Len(d) = 1 /\ d[1] = Policy
  <2>1. /\ <<"loc.events", 0>> \in Object /\ Policy \in Object
        /\ <<"loc.dlx", 0>> \in Object /\ <<"loc.dead", 0>> \in Object
        /\ <<"loc.dead binding", 0>> \in Object
    BY DEF Policy, Object
  <2> HIDE DEF Object
  <2>2. a \in Seq(Object) /\ Len(a) = 1 /\ a[1] = <<"loc.events", 0>>
    BY <2>1, Literals
  <2>3. DeadLetterPath \in Seq(Object) /\ Len(DeadLetterPath) = 3
    BY <2>1, Literals DEF DeadLetterPath
  <2>4. d \in Seq(Object) /\ Len(d) = 1 /\ d[1] = Policy
    BY <2>1, Literals
  <2> QED BY <2>2, <2>3, <2>4
<1>3. p \in Seq(Object) /\ Len(p) = 2 * count
  <2>1. ASSUME NEW i \in 1..(2 * count) PROVE p[i] \in Object
    <3>1. i \div 2 \in Nat /\ (i % 2 # 1 => (i \div 2) - 1 \in Nat)
      BY <1>1
    <3>2. \A k \in Nat : Queue(k) \in Object /\ Binding(k) \in Object
      BY DEF Object, Queue, Binding
    <3>3. p[i] = IF i % 2 = 1 THEN Queue(i \div 2) ELSE Binding((i \div 2) - 1)
      BY DEF PartitionRequests
    <3> QED BY <3>1, <3>2, <3>3
  <2>2. p = [i \in 1..(2 * count) |-> p[i]]
    BY DEF PartitionRequests
  <2>3. p \in [1..(2 * count) -> Object]
    BY <2>1, <2>2
  <2>4. 2 * count \in Nat
    BY <1>1
  <2> QED BY <2>3, <2>4, SeqDef, LenProperties
<1>4. \A i \in 0..(count - 1) : p[2 * i + 1] = Queue(i) /\ p[2 * i + 2] = Binding(i)
  <2> SUFFICES ASSUME NEW i \in 0..(count - 1)
               PROVE  p[2 * i + 1] = Queue(i) /\ p[2 * i + 2] = Binding(i)
    OBVIOUS
  <2>1. /\ 2 * i + 1 \in 1..(2 * count) /\ (2 * i + 1) % 2 = 1 /\ (2 * i + 1) \div 2 = i
        /\ 2 * i + 2 \in 1..(2 * count) /\ (2 * i + 2) % 2 # 1
        /\ ((2 * i + 2) \div 2) - 1 = i
    BY <1>1
  <2> QED BY <2>1 DEF PartitionRequests
<1> HIDE DEF a, p, d
<1>7. b = a \o DeadLetterPath /\ c = b \o p /\ Requests(count) = c \o d
  BY DEF Requests, a, d, p
<1> HIDE DEF b, c
<1>5. /\ b \in Seq(Object) /\ Len(b) = 4
      /\ \A i \in 1..1 : b[i] = a[i]
      /\ \A i \in 1..3 : b[1 + i] = DeadLetterPath[i]
  <2>1. a \in Seq(Object) /\ DeadLetterPath \in Seq(Object)
    BY <1>2
  <2>2. /\ a \o DeadLetterPath \in Seq(Object) /\ Len(a \o DeadLetterPath) = Len(a) + Len(DeadLetterPath)
        /\ \A i \in 1..(Len(a) + Len(DeadLetterPath)) :
             (a \o DeadLetterPath)[i] = IF i <= Len(a) THEN a[i] ELSE DeadLetterPath[i - Len(a)]
    BY <2>1, ConcatProperties
  <2>3. /\ b \in Seq(Object) /\ Len(b) = Len(a) + Len(DeadLetterPath)
        /\ \A i \in 1..(Len(a) + Len(DeadLetterPath)) :
             b[i] = IF i <= Len(a) THEN a[i] ELSE DeadLetterPath[i - Len(a)]
    BY <1>7, <2>2
  <2> QED BY <1>2, <2>3
<1>6. /\ c \in Seq(Object) /\ Len(c) = 4 + 2 * count
      /\ \A i \in 1..4 : c[i] = b[i]
      /\ \A i \in 1..(2 * count) : c[4 + i] = p[i]
  <2>1. b \in Seq(Object) /\ p \in Seq(Object)
    BY <1>3, <1>5
  <2>2. /\ b \o p \in Seq(Object) /\ Len(b \o p) = Len(b) + Len(p)
        /\ \A i \in 1..(Len(b) + Len(p)) :
             (b \o p)[i] = IF i <= Len(b) THEN b[i] ELSE p[i - Len(b)]
    BY <2>1, ConcatProperties
  <2>3. /\ c \in Seq(Object) /\ Len(c) = Len(b) + Len(p)
        /\ \A i \in 1..(Len(b) + Len(p)) : c[i] = IF i <= Len(b) THEN b[i] ELSE p[i - Len(b)]
    BY <1>7, <2>2
  <2> QED BY <1>1, <1>3, <1>5, <2>3
<1>8. /\ Requests(count) \in Seq(Object) /\ Len(Requests(count)) = (4 + 2 * count) + 1
      /\ \A i \in 1..(4 + 2 * count) : Requests(count)[i] = c[i]
      /\ \A i \in 1..1 : Requests(count)[(4 + 2 * count) + i] = d[i]
  <2> DEFINE r == Requests(count)
  <2>1. c \in Seq(Object) /\ d \in Seq(Object)
    BY <1>2, <1>6
  <2>2. /\ c \o d \in Seq(Object) /\ Len(c \o d) = Len(c) + Len(d)
        /\ \A i \in 1..(Len(c) + Len(d)) :
             (c \o d)[i] = IF i <= Len(c) THEN c[i] ELSE d[i - Len(c)]
    BY <2>1, ConcatProperties
  <2>3. /\ r \in Seq(Object) /\ Len(r) = Len(c) + Len(d)
        /\ \A i \in 1..(Len(c) + Len(d)) : r[i] = IF i <= Len(c) THEN c[i] ELSE d[i - Len(c)]
    BY <1>7, <2>2 DEF r
  <2> HIDE DEF r
  <2>4. /\ r \in Seq(Object) /\ Len(r) = (4 + 2 * count) + 1
        /\ \A i \in 1..(4 + 2 * count) : r[i] = c[i]
        /\ \A i \in 1..1 : r[(4 + 2 * count) + i] = d[i]
    BY <1>1, <1>2, <1>6, <2>3
  <2> QED BY <2>4 DEF r
<1>9. Requests(count)[1] = <<"loc.events", 0>>
  BY <1>1, <1>2, <1>5, <1>6, <1>8
<1>10. \A i \in 1..3 : Requests(count)[i + 1] = DeadLetterPath[i]
  <2> SUFFICES ASSUME NEW i \in 1..3 PROVE Requests(count)[i + 1] = DeadLetterPath[i]
    OBVIOUS
  <2>1. Requests(count)[i + 1] = b[i + 1]
    BY <1>1, <1>6, <1>8
  <2>2. b[i + 1] = DeadLetterPath[i]
    BY <1>5
  <2> QED BY <2>1, <2>2
<1>11. ASSUME NEW i \in 0..(count - 1)
       PROVE  Requests(count)[2 * i + 5] = Queue(i) /\ Requests(count)[2 * i + 6] = Binding(i)
  <2>1. /\ 2 * i + 1 \in 1..(2 * count) /\ 2 * i + 5 = 4 + (2 * i + 1)
        /\ 2 * i + 2 \in 1..(2 * count) /\ 2 * i + 6 = 4 + (2 * i + 2)
        /\ 2 * i + 5 \in 1..(4 + 2 * count) /\ 2 * i + 6 \in 1..(4 + 2 * count)
    BY <1>1
  <2>2. /\ Requests(count)[2 * i + 5] = p[2 * i + 1]
        /\ Requests(count)[2 * i + 6] = p[2 * i + 2]
    BY <1>1, <1>6, <1>8, <2>1
  <2> QED BY <1>4, <2>2
<1>12. Requests(count)[2 * count + 5] = Policy
  <2>1. 2 * count + 5 = (4 + 2 * count) + 1
    BY <1>1
  <2> QED BY <1>1, <1>2, <1>8, <2>1
<1> QED BY <1>1, <1>8, <1>9, <1>10, <1>11, <1>12

\* What a request is for: its position tells.
LEMMA Kinds ==
    ASSUME NEW count \in Counts, NEW k \in 1..(2 * count + 5)
    PROVE  \/ /\ Requests(count)[k][1] \notin {"queue", "binding"}
              /\ Requests(count)[k] = Policy => k = 2 * count + 5
           \/ \E i \in 0..(count - 1) : k = 2 * i + 5 /\ Requests(count)[k] = Queue(i)
           \/ \E i \in 0..(count - 1) : k = 2 * i + 6 /\ Requests(count)[k] = Binding(i)
<1>1. /\ count \in Nat /\ count >= 1
      /\ Requests(count)[1] = <<"loc.events", 0>>
      /\ \A i \in 1..3 : Requests(count)[i + 1] = DeadLetterPath[i]
      /\ \A i \in 0..(count - 1) : /\ Requests(count)[2 * i + 5] = Queue(i)
                                   /\ Requests(count)[2 * i + 6] = Binding(i)
      /\ Requests(count)[2 * count + 5] = Policy
  BY RequestsAre
<1>2. CASE k = 1
  BY <1>1, <1>2 DEF Policy
<1>3. CASE k \in 2..4
  <2>1. k - 1 \in 1..3 /\ (k - 1) + 1 = k
    BY <1>3
  <2>2. Requests(count)[k] = DeadLetterPath[k - 1]
    BY <1>1, <2>1
  <2>3. \A i \in 1..3 : DeadLetterPath[i][1] \notin {"queue", "binding", "policy"}
    <3>1. /\ DeadLetterPath[1][1] = "loc.dlx" /\ DeadLetterPath[2][1] = "loc.dead"
          /\ DeadLetterPath[3][1] = "loc.dead binding"
      BY DEF DeadLetterPath
    <3>2. \A i \in 1..3 : i = 1 \/ i = 2 \/ i = 3
      OBVIOUS
    <3> QED BY <3>1, <3>2
  <2>4. Policy[1] = "policy"
    BY DEF Policy
  <2> QED BY <2>1, <2>2, <2>3, <2>4
<1>4. CASE k \in 5..(2 * count + 4)
  <2> DEFINE i == (k - 5) \div 2
  <2>1. i \in 0..(count - 1) /\ (k = 2 * i + 5 \/ k = 2 * i + 6)
    BY <1>1, <1>4
  <2> HIDE DEF i
  <2> QED BY <1>1, <2>1
<1>5. CASE k = 2 * count + 5
  <2>1. Policy[1] = "policy"
    BY DEF Policy
  <2> QED BY <1>1, <1>5, <2>1
<1> QED BY <1>1, <1>2, <1>3, <1>4, <1>5

\* The dead-letter path as a set.
LEMMA DeadLetterSet ==
    ASSUME NEW S
    PROVE  ToSet(DeadLetterPath) \subseteq S <=> \A i \in 1..3 : DeadLetterPath[i] \in S
<1>1. DOMAIN DeadLetterPath = 1..3
  BY DEF DeadLetterPath
<1> QED BY <1>1 DEF ToSet

\* What an object adds to the partitions.
LEMMA AddObject ==
    ASSUME NEW x, broker' = broker \union {x}
    PROVE  /\ x[1] = "queue" => Partitions' = Partitions \union {x[2]}
           /\ x[1] # "queue" => Partitions' = Partitions
           /\ x[1] = "binding" => BoundPartitions' = BoundPartitions \union {x[2]}
           /\ x[1] # "binding" => BoundPartitions' = BoundPartitions
BY DEF Partitions, BoundPartitions

\* The next request of a running job.
LEMMA NextRequest ==
    ASSUME TopologyInv, job = "running"
    PROVE  /\ n \in Counts /\ n \in Nat /\ n >= 1
           /\ Len(Requests(n)) = 2 * n + 5
           /\ Answered \in Nat /\ Answered + 1 \in 1..(2 * n + 5)
           /\ Len(todo) = (2 * n + 5) - Answered
           /\ Head(todo) = Requests(n)[Answered + 1]
           /\ Head(todo) \in Object
           /\ Tail(todo) \in Seq(Object)
           /\ Len(Tail(todo)) = Len(todo) - 1
           /\ \A i \in 1..(Len(todo) - 1) : Tail(todo)[i] = todo[i + 1]
           /\ \A i \in 1..Answered : Requests(n)[i] \in broker
<1>1. n \in Counts
  BY DEF TopologyInv, TopologyType
<1>2. n \in Nat /\ n >= 1 /\ Len(Requests(n)) = 2 * n + 5
  BY <1>1, RequestsAre
<1>3. /\ todo \in Seq(Object) /\ Len(todo) \in 1..(2 * n + 5)
      /\ \A i \in 1..Len(todo) : todo[i] = Requests(n)[Answered + i]
      /\ \A i \in 1..Answered : Requests(n)[i] \in broker
  BY <1>2 DEF TopologyInv, TopologyType, JobInv
<1>4. Answered = (2 * n + 5) - Len(todo)
  BY <1>2 DEF Answered
<1>5. /\ todo # <<>> /\ Head(todo) = todo[1] /\ Head(todo) \in Object
      /\ Tail(todo) \in Seq(Object) /\ Len(Tail(todo)) = Len(todo) - 1
      /\ \A i \in 1..(Len(todo) - 1) : Tail(todo)[i] = todo[i + 1]
  <2>1. todo # <<>>
    BY <1>3
  <2>2. todo[1] \in Object
    BY <1>3, ElementOfSeq
  <2> QED BY <1>3, <2>1, <2>2, HeadTailProperties
<1>6. Head(todo) = Requests(n)[Answered + 1]
  BY <1>3, <1>5
<1>7. Answered \in Nat /\ Answered + 1 \in 1..(2 * n + 5) /\ Len(todo) = (2 * n + 5) - Answered
  BY <1>2, <1>3, <1>4
<1> QED BY <1>1, <1>2, <1>3, <1>5, <1>6, <1>7

\* Whatever the running job declares next keeps the order.
LEMMA Declares ==
    ASSUME TopologyInv, job = "running",
           broker' = broker \/ broker' = broker \union {Head(todo)}
    PROVE  /\ OrderInv'
           /\ Partitions \subseteq Partitions' /\ BoundPartitions \subseteq BoundPartitions'
           /\ Partitions' \subseteq Partitions \union 0..(n - 1)
           /\ BoundPartitions' \subseteq BoundPartitions \union 0..(n - 1)
           /\ broker' \in SUBSET Object
<1> DEFINE k == Answered + 1
           x == Head(todo)
<1>1. /\ n \in Counts /\ n \in Nat /\ n >= 1
      /\ k \in 1..(2 * n + 5)
      /\ x = Requests(n)[k] /\ x \in Object
      /\ \A i \in 1..(k - 1) : Requests(n)[i] \in broker
  <2>1. k - 1 = Answered
    BY NextRequest
  <2> QED BY NextRequest, <2>1
<1>2. /\ OrderInv /\ broker \in SUBSET Object
  BY DEF TopologyInv, TopologyType
<1> HIDE DEF k, x
<1>3. CASE broker' = broker
  <2>1. Partitions' = Partitions /\ BoundPartitions' = BoundPartitions
    BY <1>3 DEF Partitions, BoundPartitions
  <2>2. OrderInv'
    BY <1>2, <1>3, <2>1 DEF OrderInv, DeadLettersKept, AllPartitions
  <2> QED BY <1>2, <1>3, <2>1, <2>2
<1>4. CASE broker' = broker \union {x}
  <2>1. /\ x[1] = "queue" => Partitions' = Partitions \union {x[2]}
        /\ x[1] # "queue" => Partitions' = Partitions
        /\ x[1] = "binding" => BoundPartitions' = BoundPartitions \union {x[2]}
        /\ x[1] # "binding" => BoundPartitions' = BoundPartitions
    BY <1>4, AddObject
  <2>2. broker' \in SUBSET Object
    BY <1>1, <1>2, <1>4
  <2>3. ASSUME NEW i \in Nat PROVE /\ Queue(i)[1] = "queue" /\ Queue(i)[2] = i
                                   /\ Binding(i)[1] = "binding" /\ Binding(i)[2] = i
                                   /\ Queue(i) # Policy /\ Binding(i) # Policy
    <3>1. /\ Queue(i)[1] = "queue" /\ Queue(i)[2] = i
          /\ Binding(i)[1] = "binding" /\ Binding(i)[2] = i
          /\ Policy[1] = "policy"
      BY DEF Queue, Binding, Policy
    <3>2. Queue(i)[1] # Policy[1] /\ Binding(i)[1] # Policy[1]
      BY <3>1
    <3> QED BY <3>1, <3>2
  <2>4. \A i \in Nat : Queue(i) \in broker => i \in Partitions
    BY <2>3 DEF Partitions
  <2>5. \A i \in 0..(n - 1) : Requests(n)[2 * i + 5] = Queue(i)
    BY <1>1, RequestsAre
  <2>6. \A i \in 0..(n - 1) : i \in AllPartitions
    BY <1>1 DEF AllPartitions
  <2>7. CASE x[1] \notin {"queue", "binding"} /\ (x = Policy => k = 2 * n + 5)
    <3>1. Partitions' = Partitions /\ BoundPartitions' = BoundPartitions
      BY <2>1, <2>7
    <3>2. DeadLettersKept'
      <4>1. CASE x = Policy
        <5>1. \A i \in 1..3 : Requests(n)[i + 1] = DeadLetterPath[i]
          BY <1>1, RequestsAre
        <5>2. \A i \in 1..3 : i + 1 \in 1..(k - 1)
          BY <1>1, <2>7, <4>1
        <5>3. \A i \in 1..3 : DeadLetterPath[i] \in broker'
          BY <1>1, <1>4, <5>1, <5>2
        <5>4. ToSet(DeadLetterPath) \subseteq broker'
          BY <5>3, DeadLetterSet
        <5> QED BY <5>4 DEF DeadLettersKept
      <4>2. CASE x # Policy
        BY <1>2, <1>4, <4>2 DEF OrderInv, DeadLettersKept
      <4> QED BY <4>1, <4>2
    <3> QED BY <1>2, <2>2, <3>1, <3>2 DEF OrderInv, AllPartitions
  <2>8. ASSUME NEW i \in 0..(n - 1), k = 2 * i + 5, x = Queue(i)
        PROVE  /\ OrderInv'
               /\ Partitions' \subseteq Partitions \union 0..(n - 1)
               /\ BoundPartitions' = BoundPartitions
    <3>1. Partitions' = Partitions \union {i} /\ BoundPartitions' = BoundPartitions
      BY <2>1, <2>3, <2>8
    <3>2. ASSUME NEW j \in 0..(i - 1) PROVE j \in Partitions
      <4>1. j \in 0..(n - 1) /\ 2 * j + 5 \in 1..(k - 1)
        BY <1>1, <2>8
      <4> QED BY <1>1, <2>4, <2>5, <4>1
    <3>3. PICK m \in Nat : Partitions = 0..(m - 1)
      BY <1>2 DEF OrderInv
    <3>4. \E mm \in Nat : Partitions' = 0..(mm - 1)
      <4>1. CASE i \in Partitions
        BY <3>1, <3>3, <4>1
      <4>2. CASE i \notin Partitions
        <5>1. i = m
          <6>1. i \in Nat /\ i >= m
            BY <1>1, <3>3, <4>2
          <6>2. i > m => m \in 0..(i - 1)
            BY <6>1
          <6> QED BY <3>2, <3>3, <6>1, <6>2
        <5>2. Partitions' = 0..((m + 1) - 1)
          BY <3>1, <3>3, <5>1
        <5> QED BY <5>2
      <4> QED BY <4>1, <4>2
    <3>5. DeadLettersKept'
      BY <1>2, <1>4, <2>3, <2>8 DEF OrderInv, DeadLettersKept
    <3>6. BoundPartitions' \subseteq Partitions' /\ Partitions' \subseteq AllPartitions
      BY <1>2, <2>6, <3>1 DEF OrderInv
    <3> QED BY <3>1, <3>4, <3>5, <3>6 DEF OrderInv, AllPartitions
  <2>9. ASSUME NEW i \in 0..(n - 1), k = 2 * i + 6, x = Binding(i)
        PROVE  /\ OrderInv'
               /\ Partitions' = Partitions
               /\ BoundPartitions' \subseteq BoundPartitions \union 0..(n - 1)
    <3>1. Partitions' = Partitions /\ BoundPartitions' = BoundPartitions \union {i}
      BY <2>1, <2>3, <2>9
    <3>2. i \in Partitions
      <4>1. 2 * i + 5 \in 1..(k - 1)
        BY <1>1, <2>9
      <4> QED BY <1>1, <2>4, <2>5, <4>1
    <3>3. DeadLettersKept'
      BY <1>2, <1>4, <2>3, <2>9 DEF OrderInv, DeadLettersKept
    <3> QED BY <1>2, <3>1, <3>2, <3>3 DEF OrderInv, AllPartitions
  <2> QED BY <1>1, <2>2, <2>7, <2>8, <2>9, <2>1, Kinds
<1> QED BY <1>3, <1>4 DEF x

\* When all requests were carried out, every partition is bound and the
\* dead-letter path is there.
LEMMA Complete ==
    ASSUME NEW count \in Counts, NEW B,
           \A i \in 1..Len(Requests(count)) : Requests(count)[i] \in B
    PROVE  /\ 0..(count - 1) \subseteq {x[2] : x \in {y \in B : y[1] = "binding"}}
           /\ ToSet(DeadLetterPath) \union {Policy} \subseteq B
<1>1. /\ count \in Nat /\ count >= 1 /\ Len(Requests(count)) = 2 * count + 5
      /\ \A i \in 1..3 : Requests(count)[i + 1] = DeadLetterPath[i]
      /\ \A i \in 0..(count - 1) : Requests(count)[2 * i + 6] = Binding(i)
      /\ Requests(count)[2 * count + 5] = Policy
  BY RequestsAre
<1>2. ASSUME NEW i \in 0..(count - 1)
      PROVE  i \in {x[2] : x \in {y \in B : y[1] = "binding"}}
  <2>1. 2 * i + 6 \in 1..(2 * count + 5)
    BY <1>1
  <2>2. Binding(i) \in B
    BY <1>1, <2>1
  <2>3. Binding(i)[1] = "binding" /\ Binding(i)[2] = i
    BY DEF Binding
  <2> QED BY <2>2, <2>3
<1>3. Policy \in B
  <2>1. 2 * count + 5 \in 1..(2 * count + 5)
    BY <1>1
  <2> QED BY <1>1, <2>1
<1>4. \A i \in 1..3 : i + 1 \in 1..(2 * count + 5)
  BY <1>1
<1>5. ToSet(DeadLetterPath) \subseteq B
  BY <1>1, <1>4, DeadLetterSet
<1> QED BY <1>2, <1>3, <1>5

\* An empty broker satisfies the invariant of the job.
LEMMA TopologyInit == Init => TopologyInv
<1> SUFFICES ASSUME Init PROVE TopologyInv
  OBVIOUS
<1>1. Partitions = {} /\ BoundPartitions = {} /\ Policy \notin broker
  BY DEF Init, Partitions, BoundPartitions
<1>2. Partitions = 0..(0 - 1)
  BY <1>1
<1>3. OrderInv
  BY <1>1, <1>2 DEF OrderInv, DeadLettersKept
<1> QED BY <1>3 DEF Init, TopologyInv, TopologyType, JobInv, ListedInv

\* A job begins: the guard lets it pass only with the count that is there, unless
\* the listing failed.
LEMMA BeginKeeps ==
    ASSUME TopologyInv, NEW count \in Counts, Begin(count)
    PROVE  TopologyInv'
<1>1. PICK existing \in 0..Cardinality(Partitions) :
         /\ Listing(existing)
         /\ \/ /\ Guard(existing, count)
               /\ job' = "running"
               /\ todo' = Requests(count)
            \/ /\ job' = "refused"
               /\ todo' = todo
  BY DEF Begin
<1>2. /\ n' = count /\ broker' = broker /\ settled' = settled
      /\ Partitions' = Partitions /\ BoundPartitions' = BoundPartitions
  BY DEF Begin, Partitions, BoundPartitions
<1>3. /\ count \in Nat /\ count >= 1 /\ Requests(count) \in Seq(Object)
      /\ Len(Requests(count)) = 2 * count + 5
  BY RequestsAre
<1>4. unlisted' \in Nat /\ (unlisted' = 0 => unlisted = 0 /\ existing = Cardinality(Partitions))
  BY <1>1 DEF Listing, TopologyInv, TopologyType
<1>5. TopologyType'
  BY <1>1, <1>2, <1>3, <1>4 DEF TopologyInv, TopologyType
<1>6. JobInv'
  <2>1. CASE job' = "refused"
    BY <2>1 DEF JobInv
  <2>2. CASE job' = "running" /\ todo' = Requests(count)
    <3>1. Answered' = 0 /\ Len(Requests(n')) = 2 * count + 5
      BY <1>2, <1>3, <2>2 DEF Answered
    <3> QED BY <1>2, <1>3, <2>2, <3>1 DEF JobInv
  <2> QED BY <1>1, <2>1, <2>2
<1>7. OrderInv'
  BY <1>2 DEF TopologyInv, OrderInv, DeadLettersKept, AllPartitions
<1>8. ListedInv'
  <2>1. CASE job' = "refused"
    BY <1>2, <1>4, <2>1 DEF TopologyInv, ListedInv
  <2>2. CASE job' = "running" /\ Guard(existing, count) /\ unlisted' = 0
    <3>1. PICK m \in Nat : Partitions = 0..(m - 1)
      BY DEF TopologyInv, OrderInv
    <3>2. Cardinality(Partitions) = m
      <4>1. Cardinality(0..(m - 1)) = IF 0 > m - 1 THEN 0 ELSE (m - 1) - 0 + 1
        BY <3>1, FS_Interval
      <4> QED BY <3>1, <4>1
    <3>3. m = 0 \/ m = count
      BY <1>4, <2>2, <3>2 DEF Guard
    <3>4. Partitions \subseteq 0..(count - 1) /\ (Partitions # {} => Partitions = 0..(count - 1))
      BY <1>3, <3>1, <3>3
    <3> QED BY <1>2, <1>4, <2>2, <3>4 DEF TopologyInv, ListedInv
  <2> QED BY <1>1, <2>1, <2>2 DEF ListedInv
<1> QED BY <1>5, <1>6, <1>7, <1>8 DEF TopologyInv

\* A request that is answered.
LEMMA RequestKeeps ==
    ASSUME TopologyInv, Request
    PROVE  TopologyInv'
<1>1. /\ job = "running" /\ broker' = broker \union {Head(todo)} /\ todo' = Tail(todo)
      /\ n' = n /\ unlisted' = unlisted
      /\ job' = IF Tail(todo) = <<>> THEN "ok" ELSE "running"
      /\ settled' = IF job' = "ok" /\ settled = {} THEN BoundPartitions' ELSE settled
  BY DEF Request
<1>2. /\ n \in Counts /\ n \in Nat /\ n >= 1
      /\ Len(Requests(n)) = 2 * n + 5
      /\ Answered \in Nat /\ Answered + 1 \in 1..(2 * n + 5)
      /\ Len(todo) = (2 * n + 5) - Answered
      /\ Head(todo) = Requests(n)[Answered + 1]
      /\ Tail(todo) \in Seq(Object)
      /\ Len(Tail(todo)) = Len(todo) - 1
      /\ \A i \in 1..(Len(todo) - 1) : Tail(todo)[i] = todo[i + 1]
      /\ \A i \in 1..Answered : Requests(n)[i] \in broker
  BY <1>1, NextRequest
<1>3. /\ OrderInv'
      /\ Partitions \subseteq Partitions' /\ BoundPartitions \subseteq BoundPartitions'
      /\ Partitions' \subseteq Partitions \union 0..(n - 1)
      /\ BoundPartitions' \subseteq BoundPartitions \union 0..(n - 1)
      /\ broker' \in SUBSET Object
  BY <1>1, Declares
<1>4. TopologyType'
  BY <1>1, <1>2, <1>3 DEF TopologyInv, TopologyType
<1>5. Answered' = Answered + 1
  BY <1>1, <1>2 DEF Answered
<1>6. \A i \in 1..(Answered + 1) : Requests(n)[i] \in broker'
  BY <1>1, <1>2
<1>7. job' = "ok" => \A i \in 1..Len(Requests(n)) : Requests(n)[i] \in broker'
  <2>1. ASSUME Tail(todo) = <<>> PROVE Answered + 1 = Len(Requests(n))
    <3>1. Len(Tail(todo)) = 0
      BY <2>1
    <3> DEFINE l == Len(Tail(todo))
               k == Len(todo)
    <3>2. l = 0 /\ l = k - 1 /\ k = (2 * n + 5) - Answered
      BY <1>2, <3>1
    <3> HIDE DEF l, k
    <3> QED BY <1>2, <3>2
  <2> QED BY <1>1, <1>6, <2>1
<1>8. JobInv'
  <2>1. CASE job' = "running"
    <3>1. Tail(todo) # <<>> /\ Len(todo') \in 1..(2 * n + 5)
      BY <1>1, <1>2, <2>1, EmptySeq
    <3>2. ASSUME NEW i \in 1..Len(todo') PROVE todo'[i] = Requests(n)[(Answered + 1) + i]
      <4>1. i \in 1..(Len(todo) - 1) /\ i + 1 \in 1..Len(todo)
            /\ Answered + (i + 1) = (Answered + 1) + i
        BY <1>1, <1>2
      <4>2. todo[i + 1] = Requests(n)[Answered + (i + 1)]
        BY <1>1, <4>1 DEF TopologyInv, JobInv
      <4> QED BY <1>1, <1>2, <4>1, <4>2
    <3> QED BY <1>1, <1>2, <1>5, <1>6, <2>1, <3>1, <3>2 DEF JobInv
  <2>2. CASE job' = "ok"
    BY <1>1, <1>7, <2>2 DEF JobInv
  <2> QED BY <1>1, <2>1, <2>2
<1>9. job' = "ok" => 0..(n - 1) \subseteq BoundPartitions'
  BY <1>2, <1>7, Complete DEF BoundPartitions
<1>10. ListedInv'
  <2> SUFFICES ASSUME unlisted = 0
               PROVE  /\ Partitions' \subseteq 0..(n - 1)
                      /\ settled' # {} =>
                           /\ BoundPartitions' = settled' /\ Partitions' = settled'
                           /\ settled' = 0..(n - 1)
    BY <1>1 DEF ListedInv
  <2>1. Partitions' \subseteq 0..(n - 1)
    BY <1>1, <1>3 DEF TopologyInv, ListedInv
  <2>2. BoundPartitions' \subseteq Partitions'
    BY <1>3 DEF OrderInv
  <2>3. CASE settled # {}
    <3>1. BoundPartitions = settled /\ Partitions = settled /\ settled = 0..(n - 1)
      BY <1>1, <2>3 DEF TopologyInv, ListedInv
    <3> QED BY <1>1, <1>3, <2>1, <2>2, <2>3, <3>1
  <2>4. CASE settled = {} /\ job' = "ok"
    BY <1>1, <1>9, <2>1, <2>2, <2>4
  <2>5. CASE settled = {} /\ job' # "ok"
    BY <1>1, <2>1, <2>5
  <2> QED BY <2>3, <2>4, <2>5
<1> QED BY <1>3, <1>4, <1>8, <1>10 DEF TopologyInv

\* A request that fails, or the job killed.
LEMMA RequestFailsKeeps ==
    ASSUME TopologyInv, RequestFails
    PROVE  TopologyInv'
<1>1. /\ job = "running" /\ job' = "failed" /\ todo' = <<>>
      /\ broker' = broker \/ broker' = broker \union {Head(todo)}
      /\ n' = n /\ unlisted' = unlisted /\ settled' = settled
  BY DEF RequestFails
<1>2. /\ OrderInv'
      /\ Partitions \subseteq Partitions' /\ BoundPartitions \subseteq BoundPartitions'
      /\ Partitions' \subseteq Partitions \union 0..(n - 1)
      /\ BoundPartitions' \subseteq BoundPartitions \union 0..(n - 1)
      /\ broker' \in SUBSET Object
  BY <1>1, Declares
<1>3. TopologyType'
  <2>1. <<>> \in Seq(Object)
    OBVIOUS
  <2> QED BY <1>1, <1>2, <2>1 DEF TopologyInv, TopologyType
<1>4. JobInv'
  BY <1>1 DEF JobInv
<1>5. ListedInv'
  BY <1>1, <1>2 DEF TopologyInv, ListedInv
<1> QED BY <1>2, <1>3, <1>4, <1>5 DEF TopologyInv

\* Every step of the job keeps its invariant.
LEMMA TopologyNext == TopologyInv /\ [Next]_vars => TopologyInv'
<1> SUFFICES ASSUME TopologyInv, [Next]_vars PROVE TopologyInv'
  OBVIOUS
<1>1. CASE UNCHANGED vars
  BY <1>1 DEF vars, TopologyInv, TopologyType, JobInv, Answered, OrderInv, ListedInv,
              Partitions, BoundPartitions, AllPartitions, DeadLettersKept
<1> QED BY <1>1, BeginKeeps, RequestKeeps, RequestFailsKeeps DEF Next

-----------------------------------------------------------------------------
(***************************************************************************)
(* The deployment.  For every user routed by one hash ring there is a      *)
(* number a, the event acked last, that all its state agrees on.           *)
(***************************************************************************)

\* Users whose events, if any, all came after the first job that succeeded.
Clean == IF unlisted = 0 THEN User \ early ELSE {}

FleetType ==
    /\ sent \in [User -> Nat]
    /\ early \subseteq User
    /\ queue \in [AllPartitions -> Seq(User \X Nat)]
    /\ DOMAIN spec = WorkerId
    /\ chain \in [WorkerId -> [User -> Seq(Nat)]]
    /\ task \in [WorkerId -> [User -> {"idle", "hinted", "locked", "done"}]]
    /\ \A w \in WorkerId, u \in User : task[w][u] # "idle" => chain[w][u] # <<>>
    /\ DOMAIN memory = WorkerId /\ \A w \in WorkerId : DOMAIN memory[w] = User
    /\ DOMAIN txn = User
    /\ DOMAIN presence = User

\* Ownership is exclusive, and a process that is down knows nothing.
OwnerInv ==
    /\ \A v, w \in WorkerId : v # w => Owns(v) \intersect Owns(w) = {}
    /\ \A w \in WorkerId : ~Up(w) => \A u \in User : /\ chain[w][u] = <<>>
                                                     /\ task[w][u] = "idle"
                                                     /\ memory[w][u] = Unknown

\* The events after a wait in one partition, each once, in order.
QueueInv(u, a) ==
    /\ a <= sent[u]
    /\ sent[u] > 0 => settled # {}
    /\ \A p \in AllPartitions : \A i \in DOMAIN queue[p] :
         queue[p][i][1] = u => p = Route(u) /\ queue[p][i][2] \in (a + 1)..sent[u]
    /\ \A k \in (a + 1)..sent[u] :
         \E i \in DOMAIN queue[Route(u)] : queue[Route(u)][i] = <<u, k>>
    /\ \A p \in AllPartitions : \A i, j \in DOMAIN queue[p] :
         (i < j /\ queue[p][i][1] = u /\ queue[p][j][1] = u)
           => queue[p][i][2] < queue[p][j][2]

\* The owner of that partition holds the first of them.
ChainInv(u, a) ==
    \A w \in WorkerId :
      /\ chain[w][u] # <<>> => Route(u) \in Owns(w)
      /\ a + Len(chain[w][u]) <= sent[u]
      /\ \A i \in 1..Len(chain[w][u]) : chain[w][u][i] = a + i

\* A transaction that could still change what Postgres holds.
Effective(u) == txn[u] # NoTxn /\ Areas[u][txn[u][2]] # presence[u]

\* Postgres has the areas of event a, or those of the next one already; a
\* transaction left open is for the next one, or would change nothing.
PresenceInv(u, a) ==
    /\ \/ presence[u] = IF a = 0 THEN {} ELSE Areas[u][a]
       \/ a < sent[u] /\ presence[u] = Areas[u][a + 1]
    /\ txn[u] # NoTxn => txn[u][2] \in 1..sent[u]
    /\ Effective(u) => txn[u][2] = a + 1

\* The owner's memory is what Postgres holds, unless its task is on the way to
\* the lock; a done task has its event in Postgres.
MemoryInv(u, a) ==
    \A w \in WorkerId :
      /\ memory[w][u] # Unknown =>
           /\ sent[u] > 0 /\ Route(u) \in Owns(w)
           /\ memory[w][u] = presence[u] \/ task[w][u] \in {"hinted", "locked"}
           /\ Effective(u) => task[w][u] \in {"hinted", "locked"}
      /\ task[w][u] = "locked" => txn[u] = <<w, a + 1>>
      /\ task[w][u] = "done" => /\ memory[w][u] = Areas[u][a + 1]
                                /\ presence[u] = Areas[u][a + 1]

UserInv(u, a) == QueueInv(u, a) /\ ChainInv(u, a) /\ PresenceInv(u, a) /\ MemoryInv(u, a)

FleetInv ==
    /\ TopologyInv
    /\ FleetType
    /\ OwnerInv
    /\ \A u \in Clean : \E a \in Nat : UserInv(u, a)

-----------------------------------------------------------------------------
\* The hash ring routes every user to a bound partition.
LEMMA RouteBound ==
    ASSUME NEW u \in User, BoundPartitions # {}, BoundPartitions \subseteq AllPartitions
    PROVE  Route(u) \in BoundPartitions
<1> DEFINE s == Prefer[u]
           T == {i \in DOMAIN s : s[i] \in BoundPartitions}
<1>1. /\ s \in Seq(AllPartitions) /\ Len(s) \in Nat /\ DOMAIN s = 1..Len(s)
      /\ AllPartitions \subseteq ToSet(s)
  BY FleetAssumption, LenProperties
<1>2. T # {} /\ T \subseteq Nat
  <2>1. PICK b \in BoundPartitions : b \in ToSet(s)
    BY <1>1
  <2>2. PICK i \in DOMAIN s : s[i] = b
    BY <2>1 DEF ToSet
  <2> QED BY <1>1, <2>2
<1>3. PICK i \in T : \A j \in T : i <= j
  BY <1>2, LeastNatural
<1>4. \A j \in 1..(i - 1) : s[j] \notin BoundPartitions
  BY <1>1, <1>3
<1>5. \E x \in DOMAIN s : s[x] \in BoundPartitions /\ \A j \in 1..(x - 1) : s[j] \notin BoundPartitions
  BY <1>3, <1>4
<1> QED BY <1>5 DEF Route

\* With every listing seen and a job that succeeded, that is a partition of
\* the settled ones.
LEMMA RouteSettled ==
    ASSUME TopologyInv, NEW u \in User, BoundPartitions # {}
    PROVE  Route(u) \in AllPartitions
<1>1. BoundPartitions \subseteq AllPartitions
  BY DEF TopologyInv, OrderInv
<1> QED BY <1>1, RouteBound

\* After a job that succeeded there is a partition to route to.
LEMMA SettledIsBound ==
    ASSUME TopologyInv, unlisted = 0, settled # {}
    PROVE  BoundPartitions # {}
BY DEF TopologyInv, ListedInv

\* The route depends on the bindings alone.
LEMMA RouteSame ==
    ASSUME NEW u \in User, BoundPartitions' = BoundPartitions
    PROVE  Route(u)' = Route(u)
BY DEF Route

\* The owner of a user's partition is the only one that knows of the user.
LEMMA OneOwner ==
    ASSUME OwnerInv, NEW u \in User, NEW v \in WorkerId, NEW w \in WorkerId,
           Route(u) \in Owns(v), Route(u) \in Owns(w)
    PROVE  v = w
BY DEF OwnerInv

\* The head of a chain is the event after the one acked last, and its worker owns
\* the user's partition.
LEMMA HeadOfChain ==
    ASSUME FleetType, NEW u \in User, NEW a \in Nat, ChainInv(u, a), NEW w \in WorkerId,
           chain[w][u] # <<>>
    PROVE  /\ Head(chain[w][u]) = a + 1 /\ a < sent[u] /\ Len(chain[w][u]) \in Nat \ {0}
           /\ Route(u) \in Owns(w)
<1>1. chain[w][u] \in Seq(Nat) /\ sent[u] \in Nat
  BY DEF FleetType
<1>2. Len(chain[w][u]) \in Nat /\ Len(chain[w][u]) # 0 /\ Head(chain[w][u]) = chain[w][u][1]
  BY <1>1, EmptySeq, LenProperties, HeadTailProperties
<1> QED BY <1>1, <1>2 DEF ChainInv

-----------------------------------------------------------------------------
\* Nothing of u's own state changed, and who knew of u still owns its route.
LEMMA ColumnKeeps ==
    ASSUME NEW u \in User, NEW a \in Nat, FleetType,
           ChainInv(u, a), PresenceInv(u, a), MemoryInv(u, a),
           sent'[u] = sent[u], txn'[u] = txn[u], presence'[u] = presence[u],
           \A w \in WorkerId : /\ chain'[w][u] = chain[w][u]
                               /\ task'[w][u] = task[w][u]
                               /\ memory'[w][u] = memory[w][u],
           \A w \in WorkerId : (chain[w][u] # <<>> \/ memory[w][u] # Unknown)
                                 => (Route(u) \in Owns(w))'
    PROVE  ChainInv(u, a)' /\ PresenceInv(u, a)' /\ MemoryInv(u, a)'
<1>1. ChainInv(u, a)'
  BY DEF ChainInv
<1>2. PresenceInv(u, a)' /\ Effective(u)' = Effective(u)
  BY DEF PresenceInv, Effective
<1>3. MemoryInv(u, a)'
  BY <1>2 DEF MemoryInv
<1> QED BY <1>1, <1>2, <1>3

\* The queues did not change, or only by an event of somebody else that came or
\* went.
LEMMA QueueSame ==
    ASSUME NEW u \in User, NEW a \in Nat, QueueInv(u, a), FleetType,
           queue' = queue, sent'[u] = sent[u], settled # {} => settled' # {},
           sent[u] = 0 \/ Route(u)' = Route(u)
    PROVE  QueueInv(u, a)'
<1>1. sent[u] \in Nat
  BY DEF FleetType
<1>2. CASE sent[u] = 0
  <2>1. a = 0
    BY <1>1, <1>2 DEF QueueInv
  <2>2. \A p \in AllPartitions : \A i \in DOMAIN queue[p] : queue[p][i][1] # u
    BY <1>2, <2>1 DEF QueueInv
  <2>3. (a + 1)..sent[u] = {}
    BY <1>2, <2>1
  <2> QED BY <1>2, <2>1, <2>2, <2>3 DEF QueueInv
<1>3. CASE Route(u)' = Route(u)
  BY <1>3 DEF QueueInv
<1> QED BY <1>2, <1>3

\* Somebody else's event is published behind the others.
LEMMA OtherAppended ==
    ASSUME NEW u \in User, NEW a \in Nat, QueueInv(u, a), FleetType,
           NEW r \in AllPartitions, NEW e \in User \X Nat, e[1] # u,
           queue' = [queue EXCEPT ![r] = Append(@, e)],
           sent'[u] = sent[u], settled' = settled, Route(u)' = Route(u),
           sent[u] > 0 => Route(u) \in AllPartitions
    PROVE  QueueInv(u, a)'
<1> DEFINE s == queue[r]
           t == Append(s, e)
<1>1. s \in Seq(User \X Nat) /\ DOMAIN queue = AllPartitions
  BY DEF FleetType
<1>2. /\ Len(s) \in Nat /\ DOMAIN s = 1..Len(s) /\ DOMAIN t = 1..(Len(s) + 1)
      /\ \A i \in 1..Len(s) : t[i] = s[i]
      /\ t[Len(s) + 1] = e
  BY <1>1, LenProperties, AppendProperties
<1>3. queue'[r] = t /\ \A p \in AllPartitions : p # r => queue'[p] = queue[p]
  BY <1>1
<1> HIDE DEF t
<1>4. \A p \in AllPartitions : \A i \in DOMAIN queue'[p] :
        queue'[p][i][1] = u => i \in DOMAIN queue[p] /\ queue'[p][i] = queue[p][i]
  BY <1>2, <1>3
<1>5. \A p \in AllPartitions : \A i \in DOMAIN queue[p] :
        i \in DOMAIN queue'[p] /\ queue'[p][i] = queue[p][i]
  BY <1>2, <1>3
<1>6. \A k \in (a + 1)..sent[u] : Route(u) \in AllPartitions
  BY DEF FleetType
<1>7. \A k \in (a + 1)..sent'[u] :
        \E i \in DOMAIN queue'[Route(u)] : queue'[Route(u)][i] = <<u, k>>
  <2> SUFFICES ASSUME NEW k \in (a + 1)..sent[u]
               PROVE  \E i \in DOMAIN queue'[Route(u)] : queue'[Route(u)][i] = <<u, k>>
    OBVIOUS
  <2>1. PICK i \in DOMAIN queue[Route(u)] : queue[Route(u)][i] = <<u, k>>
    BY DEF QueueInv
  <2>2. i \in DOMAIN queue'[Route(u)] /\ queue'[Route(u)][i] = <<u, k>>
    BY <1>5, <1>6, <2>1
  <2> QED BY <2>2
<1>8. \A p \in AllPartitions : \A i, j \in DOMAIN queue'[p] :
        (i < j /\ queue'[p][i][1] = u /\ queue'[p][j][1] = u)
          => queue'[p][i][2] < queue'[p][j][2]
  BY <1>4 DEF QueueInv
<1>9. \A p \in AllPartitions : \A i \in DOMAIN queue'[p] :
        queue'[p][i][1] = u => p = Route(u) /\ queue'[p][i][2] \in (a + 1)..sent[u]
  BY <1>4 DEF QueueInv
<1>10. a <= sent'[u] /\ (sent'[u] > 0 => settled' # {})
  BY DEF QueueInv
<1> QED BY <1>7, <1>8, <1>9, <1>10 DEF QueueInv

\* Somebody else's event is acked and leaves its partition.
LEMMA OtherRemoved ==
    ASSUME NEW u \in User, NEW a \in Nat, QueueInv(u, a), FleetType,
           NEW r \in AllPartitions, NEW d \in DOMAIN queue[r], queue[r][d][1] # u,
           queue' = [queue EXCEPT ![r] = RemoveAt(@, d)],
           sent'[u] = sent[u], settled' = settled, Route(u)' = Route(u),
           sent[u] > 0 => Route(u) \in AllPartitions
    PROVE  QueueInv(u, a)'
<1> DEFINE s == queue[r]
           t == RemoveAt(s, d)
<1>1. s \in Seq(User \X Nat) /\ DOMAIN queue = AllPartitions
  BY DEF FleetType
<1>2. /\ \A k \in DOMAIN t : \E x \in DOMAIN s : x # d /\ t[k] = s[x]
      /\ \A k, l \in DOMAIN t : k < l =>
           \E x, y \in DOMAIN s : x < y /\ x # d /\ y # d /\ t[k] = s[x] /\ t[l] = s[y]
      /\ \A x \in DOMAIN s : x # d => \E k \in DOMAIN t : t[k] = s[x]
  BY <1>1, RemoveOrder
<1>3. queue'[r] = t /\ \A p \in AllPartitions : p # r => queue'[p] = queue[p]
  BY <1>1
<1> HIDE DEF t
<1>4. \A k \in (a + 1)..sent[u] : Route(u) \in AllPartitions
  BY DEF FleetType
<1>5. \A p \in AllPartitions : \A i \in DOMAIN queue'[p] :
        queue'[p][i][1] = u => p = Route(u) /\ queue'[p][i][2] \in (a + 1)..sent[u]
  BY <1>2, <1>3 DEF QueueInv
<1>6. \A k \in (a + 1)..sent[u] :
        \E i \in DOMAIN queue'[Route(u)] : queue'[Route(u)][i] = <<u, k>>
  <2> SUFFICES ASSUME NEW k \in (a + 1)..sent[u]
               PROVE  \E i \in DOMAIN queue'[Route(u)] : queue'[Route(u)][i] = <<u, k>>
    OBVIOUS
  <2>1. PICK x \in DOMAIN queue[Route(u)] : queue[Route(u)][x] = <<u, k>>
    BY DEF QueueInv
  <2>2. CASE Route(u) = r
    <3>1. x # d
      BY <2>1, <2>2
    <3>2. PICK i \in DOMAIN t : t[i] = s[x]
      BY <1>2, <2>1, <2>2, <3>1
    <3>3. queue'[Route(u)] = t /\ t[i] = <<u, k>>
      BY <1>3, <2>1, <2>2, <3>2
    <3> QED BY <3>2, <3>3
  <2>3. CASE Route(u) # r
    BY <1>3, <1>4, <2>1, <2>3
  <2> QED BY <2>2, <2>3
<1>7. \A p \in AllPartitions : \A i, j \in DOMAIN queue'[p] :
        (i < j /\ queue'[p][i][1] = u /\ queue'[p][j][1] = u)
          => queue'[p][i][2] < queue'[p][j][2]
  <2> SUFFICES ASSUME NEW p \in AllPartitions, NEW i \in DOMAIN queue'[p],
                      NEW j \in DOMAIN queue'[p], i < j,
                      queue'[p][i][1] = u, queue'[p][j][1] = u
               PROVE  queue'[p][i][2] < queue'[p][j][2]
    OBVIOUS
  <2>1. CASE p = r
    <3>1. PICK x, y \in DOMAIN s : x < y /\ queue'[p][i] = s[x] /\ queue'[p][j] = s[y]
      BY <1>2, <1>3, <2>1
    <3> QED BY <3>1, <2>1 DEF QueueInv
  <2>2. CASE p # r
    BY <1>3, <2>2 DEF QueueInv
  <2> QED BY <2>1, <2>2
<1> QED BY <1>5, <1>6, <1>7 DEF QueueInv

\* A user's own event is published behind its others.
LEMMA OwnAppended ==
    ASSUME NEW u \in User, NEW a \in Nat, QueueInv(u, a), FleetType,
           Route(u) \in AllPartitions, settled # {}, settled' = settled,
           queue' = [queue EXCEPT ![Route(u)] = Append(@, <<u, sent[u] + 1>>)],
           sent'[u] = sent[u] + 1, Route(u)' = Route(u)
    PROVE  QueueInv(u, a)'
<1> DEFINE r == Route(u)
           s == queue[r]
           e == <<u, sent[u] + 1>>
           t == Append(s, e)
<1>1. /\ s \in Seq(User \X Nat) /\ DOMAIN queue = AllPartitions /\ sent[u] \in Nat
      /\ e \in User \X Nat
  BY DEF FleetType
<1>2. /\ Len(s) \in Nat /\ DOMAIN s = 1..Len(s) /\ DOMAIN t = 1..(Len(s) + 1)
      /\ \A i \in 1..Len(s) : t[i] = s[i]
      /\ t[Len(s) + 1] = e
  BY <1>1, LenProperties, AppendProperties
<1>3. queue'[r] = t /\ \A p \in AllPartitions : p # r => queue'[p] = queue[p]
  BY <1>1
<1>4. e[1] = u /\ e[2] = sent[u] + 1
  OBVIOUS
<1>5. Route(u)' = r /\ r \in AllPartitions
  OBVIOUS
<1>6. QueueInv(u, a)
  OBVIOUS
<1> HIDE DEF t, e, r
<1>7. \A p \in AllPartitions : \A i \in DOMAIN queue'[p] :
        queue'[p][i][1] = u => p = r /\ queue'[p][i][2] \in (a + 1)..(sent[u] + 1)
  <2>1. a + 1 <= sent[u] + 1
    BY <1>1, <1>6 DEF QueueInv
  <2> QED BY <1>1, <1>2, <1>3, <1>4, <1>6, <2>1 DEF QueueInv, r
<1>8. \A k \in (a + 1)..(sent[u] + 1) : \E i \in DOMAIN queue'[r] : queue'[r][i] = <<u, k>>
  <2> SUFFICES ASSUME NEW k \in (a + 1)..(sent[u] + 1)
               PROVE  \E i \in DOMAIN t : t[i] = <<u, k>>
    BY <1>3
  <2>1. CASE k = sent[u] + 1
    <3>1. Len(s) + 1 \in DOMAIN t /\ t[Len(s) + 1] = <<u, k>>
      BY <1>2, <2>1 DEF e
    <3> QED BY <3>1
  <2>2. CASE k \in (a + 1)..sent[u]
    <3>1. PICK i \in DOMAIN s : s[i] = <<u, k>>
      BY <1>6, <2>2 DEF QueueInv, r
    <3>2. i \in DOMAIN t /\ t[i] = s[i]
      BY <1>2, <3>1
    <3> QED BY <3>1, <3>2
  <2> QED BY <1>1, <2>1, <2>2
<1>9. \A p \in AllPartitions : \A i, j \in DOMAIN queue'[p] :
        (i < j /\ queue'[p][i][1] = u /\ queue'[p][j][1] = u)
          => queue'[p][i][2] < queue'[p][j][2]
  <2> SUFFICES ASSUME NEW p \in AllPartitions, NEW i \in DOMAIN queue'[p],
                      NEW j \in DOMAIN queue'[p], i < j,
                      queue'[p][i][1] = u, queue'[p][j][1] = u
               PROVE  queue'[p][i][2] < queue'[p][j][2]
    OBVIOUS
  <2>1. CASE p # r
    BY <1>3, <1>6, <2>1 DEF QueueInv
  <2>2. CASE p = r /\ j <= Len(s)
    <3>1. i \in DOMAIN s /\ j \in DOMAIN s /\ t[i] = s[i] /\ t[j] = s[j]
      BY <1>2, <1>3, <2>2
    <3> QED BY <1>3, <1>5, <1>6, <2>2, <3>1 DEF QueueInv
  <2>3. CASE p = r /\ ~(j <= Len(s))
    <3>1. j = Len(s) + 1 /\ i \in DOMAIN s /\ t[i] = s[i] /\ t[j] = e
      BY <1>2, <1>3, <2>3
    <3>2. s[i][2] \in (a + 1)..sent[u]
      BY <1>3, <1>5, <1>6, <2>3, <3>1 DEF QueueInv
    <3> QED BY <1>1, <1>3, <1>4, <2>3, <3>1, <3>2
  <2> QED BY <2>1, <2>2, <2>3
<1>10. a <= sent'[u] /\ settled' # {}
  BY <1>1, <1>6 DEF QueueInv
<1> QED BY <1>5, <1>7, <1>8, <1>9, <1>10 DEF QueueInv

\* The ack takes the user's first event away.
LEMMA OwnRemoved ==
    ASSUME NEW u \in User, NEW a \in Nat, QueueInv(u, a), FleetType, a < sent[u],
           NEW r \in AllPartitions, NEW d \in DOMAIN queue[r], queue[r][d] = <<u, a + 1>>,
           queue' = [queue EXCEPT ![r] = RemoveAt(@, d)],
           sent' = sent, settled' = settled, Route(u)' = Route(u)
    PROVE  QueueInv(u, a + 1)'
<1> DEFINE s == queue[r]
           t == RemoveAt(s, d)
<1>1. s \in Seq(User \X Nat) /\ DOMAIN queue = AllPartitions /\ sent[u] \in Nat
  BY DEF FleetType
<1>2. /\ \A k \in DOMAIN t : \E x \in DOMAIN s : x # d /\ t[k] = s[x]
      /\ \A k, l \in DOMAIN t : k < l =>
           \E x, y \in DOMAIN s : x < y /\ x # d /\ y # d /\ t[k] = s[x] /\ t[l] = s[y]
      /\ \A x \in DOMAIN s : x # d => \E k \in DOMAIN t : t[k] = s[x]
  BY <1>1, RemoveOrder
<1>3. queue'[r] = t /\ \A p \in AllPartitions : p # r => queue'[p] = queue[p]
  BY <1>1
<1>4. r = Route(u)
  BY DEF QueueInv
<1>5. DOMAIN s \subseteq Nat
  BY <1>1, LenProperties
<1> HIDE DEF t
<1>6. \A x \in DOMAIN s : (x # d /\ s[x][1] = u) => s[x][2] \in (a + 2)..sent[u]
  <2> SUFFICES ASSUME NEW x \in DOMAIN s, x # d, s[x][1] = u
               PROVE  s[x][2] \in (a + 2)..sent[u]
    OBVIOUS
  <2>1. s[x][2] \in (a + 1)..sent[u] /\ s[d][1] = u /\ s[d][2] = a + 1
    BY DEF QueueInv
  <2>2. x < d \/ d < x
    BY <1>5
  <2>3. s[x][2] < a + 1 \/ a + 1 < s[x][2]
    BY <2>1, <2>2 DEF QueueInv
  <2> QED BY <1>1, <2>1, <2>3
<1>7. \A p \in AllPartitions : \A i \in DOMAIN queue'[p] :
        queue'[p][i][1] = u => p = Route(u) /\ queue'[p][i][2] \in (a + 2)..sent[u]
  <2> SUFFICES ASSUME NEW p \in AllPartitions, NEW i \in DOMAIN queue'[p],
                      queue'[p][i][1] = u
               PROVE  p = Route(u) /\ queue'[p][i][2] \in (a + 2)..sent[u]
    OBVIOUS
  <2>1. p = r
    BY <1>3, <1>4 DEF QueueInv
  <2>2. PICK x \in DOMAIN s : x # d /\ queue'[p][i] = s[x]
    BY <1>2, <1>3, <2>1
  <2> QED BY <1>4, <1>6, <2>1, <2>2
<1>8. \A k \in (a + 2)..sent[u] :
        \E i \in DOMAIN queue'[Route(u)] : queue'[Route(u)][i] = <<u, k>>
  <2> SUFFICES ASSUME NEW k \in (a + 2)..sent[u]
               PROVE  \E i \in DOMAIN t : t[i] = <<u, k>>
    BY <1>3, <1>4
  <2>1. k \in (a + 1)..sent[u] /\ k # a + 1
    BY <1>1
  <2>2. PICK x \in DOMAIN s : s[x] = <<u, k>>
    BY <1>4, <2>1 DEF QueueInv
  <2>3. x # d
    BY <2>1, <2>2
  <2> QED BY <1>2, <2>2, <2>3
<1>9. \A p \in AllPartitions : \A i, j \in DOMAIN queue'[p] :
        (i < j /\ queue'[p][i][1] = u /\ queue'[p][j][1] = u)
          => queue'[p][i][2] < queue'[p][j][2]
  <2> SUFFICES ASSUME NEW p \in AllPartitions, NEW i \in DOMAIN queue'[p],
                      NEW j \in DOMAIN queue'[p], i < j,
                      queue'[p][i][1] = u, queue'[p][j][1] = u
               PROVE  queue'[p][i][2] < queue'[p][j][2]
    OBVIOUS
  <2>1. CASE p = r
    <3>1. PICK x, y \in DOMAIN s : x < y /\ queue'[p][i] = s[x] /\ queue'[p][j] = s[y]
      BY <1>2, <1>3, <2>1
    <3> QED BY <3>1, <2>1 DEF QueueInv
  <2>2. CASE p # r
    BY <1>3, <2>2 DEF QueueInv
  <2> QED BY <2>1, <2>2
<1>10. (a + 1) + 1 = a + 2 /\ a + 1 <= sent[u]
  BY <1>1
<1> QED BY <1>7, <1>8, <1>9, <1>10 DEF QueueInv

-----------------------------------------------------------------------------
(***************************************************************************)
(* Types and ownership.                                                    *)
(***************************************************************************)
\* A task that moves on keeps the types.
LEMMA TaskType ==
    ASSUME FleetType, NEW w \in WorkerId, NEW u \in User,
           ReadHint(w, u) \/ Lock(w, u) \/ Commit(w, u)
    PROVE  FleetType'
<1> USE DEF FleetType
<1>1. /\ sent' = sent /\ early' = early /\ queue' = queue /\ spec' = spec /\ chain' = chain
      /\ DOMAIN memory' = WorkerId /\ \A v \in WorkerId : DOMAIN memory'[v] = User
      /\ DOMAIN txn' = User /\ DOMAIN presence' = User
  BY DEF ReadHint, Lock, Commit
<1>2. \E x \in {"hinted", "locked", "done"} : task' = [task EXCEPT ![w][u] = x]
  BY DEF ReadHint, Lock, Commit
<1>3. task' \in [WorkerId -> [User -> {"idle", "hinted", "locked", "done"}]]
  BY <1>2
<1>4. chain[w][u] # <<>>
  BY DEF ReadHint, Lock, Commit
<1>5. \A x \in WorkerId, y \in User : task'[x][y] # "idle" => chain'[x][y] # <<>>
  <2> SUFFICES ASSUME NEW x \in WorkerId, NEW y \in User, task'[x][y] # "idle"
               PROVE  chain[x][y] # <<>>
    BY <1>1
  <2>1. CASE x = w /\ y = u
    BY <1>4, <2>1
  <2>2. CASE ~(x = w /\ y = u)
    <3>1. task'[x][y] = task[x][y]
      BY <1>2, <2>2
    <3> QED BY <3>1
  <2> QED BY <2>1, <2>2
<1> QED BY <1>1, <1>3, <1>5

\* An ack keeps the types: its event leaves one queue and one chain.
LEMMA AckType ==
    ASSUME FleetType, NEW w \in WorkerId, NEW u \in User, Ack(w, u)
    PROVE  FleetType'
<1> USE DEF FleetType
<1>1. PICK p \in AllPartitions : \E i \in DOMAIN queue[p] :
        queue' = [queue EXCEPT ![p] = RemoveAt(queue[p], i)]
  BY DEF Ack
<1>2. PICK i \in DOMAIN queue[p] : queue' = [queue EXCEPT ![p] = RemoveAt(queue[p], i)]
  BY <1>1
<1>3. RemoveAt(queue[p], i) \in Seq(User \X Nat)
  BY RemoveOrder
<1>4. queue' \in [AllPartitions -> Seq(User \X Nat)]
  BY <1>2, <1>3
<1>5. Tail(chain[w][u]) \in Seq(Nat)
  <2>1. chain[w][u] # <<>> /\ chain[w][u] \in Seq(Nat)
    BY DEF Ack
  <2> QED BY <2>1, HeadTailProperties
<1>6. chain' \in [WorkerId -> [User -> Seq(Nat)]]
  BY <1>5 DEF Ack
<1>7. task' \in [WorkerId -> [User -> {"idle", "hinted", "locked", "done"}]]
  BY DEF Ack
<1>8. \A x \in WorkerId, y \in User : task'[x][y] # "idle" => chain'[x][y] # <<>>
  BY DEF Ack
<1> QED BY <1>4, <1>6, <1>7, <1>8 DEF Ack

\* A delivery keeps the types: its event joins one chain.
LEMMA DeliverType ==
    ASSUME FleetType, NEW w \in WorkerId, NEW p \in AllPartitions, Deliver(w, p)
    PROVE  FleetType'
<1> USE DEF FleetType
<1>1. PICK i \in DOMAIN queue[p] :
        chain' = [chain EXCEPT ![w][queue[p][i][1]] = Append(@, queue[p][i][2])]
  BY DEF Deliver
<1> DEFINE v == queue[p][i][1]
           k == queue[p][i][2]
<1>2. v \in User /\ k \in Nat
  <2>1. queue[p] \in Seq(User \X Nat)
    OBVIOUS
  <2>2. queue[p][i] \in User \X Nat
    BY <2>1, ElementOfSeq, LenProperties
  <2> QED BY <2>2
<1>3. chain' = [chain EXCEPT ![w][v] = Append(@, k)]
  BY <1>1
<1> HIDE DEF v, k
<1>4. Append(chain[w][v], k) \in Seq(Nat)
  BY <1>2, AppendProperties
<1>5. chain' \in [WorkerId -> [User -> Seq(Nat)]]
  BY <1>2, <1>3, <1>4
<1>6. Append(chain[w][v], k) # <<>>
  <2>1. chain[w][v] \in Seq(Nat)
    BY <1>2
  <2>2. Len(Append(chain[w][v], k)) = Len(chain[w][v]) + 1 /\ Len(chain[w][v]) \in Nat
    BY <1>2, <2>1, AppendProperties, LenProperties
  <2>3. Len(<<>>) = 0
    OBVIOUS
  <2>4. Len(Append(chain[w][v], k)) # Len(<<>>)
    BY <2>2, <2>3
  <2> QED BY <2>4
<1>7. \A x \in WorkerId, y \in User : task'[x][y] # "idle" => chain'[x][y] # <<>>
  BY <1>2, <1>3, <1>6 DEF Deliver
<1> QED BY <1>5, <1>7 DEF Deliver

\* A publish keeps the types: the route it takes is a partition.
LEMMA PublishType ==
    ASSUME FleetType, TopologyInv, NEW u \in User, Publish(u)
    PROVE  FleetType'
<1> USE DEF FleetType
<1>1. sent' \in [User -> Nat] /\ sent'[u] = sent[u] + 1
  BY DEF Publish
<1>2. early' \subseteq User
  BY DEF Publish
<1>3. queue' \in [AllPartitions -> Seq(User \X Nat)]
  <2>1. CASE BoundPartitions = {}
    BY <2>1 DEF Publish
  <2>2. CASE BoundPartitions # {}
    <3> DEFINE r == Route(u)
               e == <<u, sent'[u]>>
    <3>1. r \in AllPartitions /\ queue[r] \in Seq(User \X Nat) /\ e \in User \X Nat
      BY <1>1, <2>2, RouteSettled
    <3>2. queue' = [queue EXCEPT ![r] = Append(@, e)]
      BY <2>2 DEF Publish
    <3> HIDE DEF r, e
    <3>3. Append(queue[r], e) \in Seq(User \X Nat)
      BY <3>1, AppendProperties
    <3> QED BY <3>1, <3>2, <3>3
  <2> QED BY <2>1, <2>2
<1> QED BY <1>1, <1>2, <1>3 DEF Publish

\* A process that ends keeps the types.
LEMMA ForgottenType ==
    ASSUME FleetType, NEW w \in WorkerId, Stop(w) \/ Crash(w)
    PROVE  FleetType'
<1> USE DEF FleetType
<1>1. /\ sent' = sent /\ early' = early /\ queue' = queue
      /\ spec' = [spec EXCEPT ![w] = <<>>]
      /\ txn' = txn /\ presence' = presence
      /\ Forgotten(w)
  BY DEF Stop, Crash
<1>2. chain' \in [WorkerId -> [User -> Seq(Nat)]]
  BY <1>1 DEF Forgotten, NoChains
<1>3. task' \in [WorkerId -> [User -> {"idle", "hinted", "locked", "done"}]]
  BY <1>1 DEF Forgotten, Idle
<1>4. DOMAIN memory' = WorkerId /\ \A v \in WorkerId : DOMAIN memory'[v] = User
  BY <1>1 DEF Forgotten, NoMemory
<1>5. \A x \in WorkerId, y \in User : task'[x][y] # "idle" => chain'[x][y] # <<>>
  BY <1>1 DEF Forgotten, Idle
<1> QED BY <1>1, <1>2, <1>3, <1>4, <1>5

\* No worker owns a partition of a spec it does not have.
LEMMA DownOwnsNothing ==
    ParsePartitionSpec(<<>>) = {}
BY DEF ParsePartitionSpec

\* Workers start and end without a trace in each other.
LEMMA BootOwner ==
    ASSUME FleetType, OwnerInv, NEW w \in WorkerId, NEW s, Boot(w, s)
    PROVE  OwnerInv'
<1>1. /\ ~Up(w) /\ spec' = [spec EXCEPT ![w] = s]
      /\ \A v \in WorkerId : Up(v) => Owns(v) \intersect ParsePartitionSpec(s) = {}
      /\ chain' = chain /\ task' = task /\ memory' = memory
  BY DEF Boot
<1>2. \A v \in WorkerId : ~Up(v) => Owns(v) = {}
  BY DownOwnsNothing DEF Up, Owns
<1>3. /\ spec'[w] = s /\ \A v \in WorkerId : v # w => spec'[v] = spec[v]
  BY <1>1 DEF FleetType
<1>4. /\ Owns(w)' = ParsePartitionSpec(s)
      /\ \A v \in WorkerId : v # w => Owns(v)' = Owns(v) /\ Up(v)' = Up(v)
  BY <1>3 DEF Owns, Up
<1>5. \A v, x \in WorkerId : v # x => (Owns(v) \intersect Owns(x))' = {}
  <2> SUFFICES ASSUME NEW v \in WorkerId, NEW x \in WorkerId, v # x
               PROVE  Owns(v)' \intersect Owns(x)' = {}
    OBVIOUS
  <2>1. CASE v = w
    BY <1>1, <1>2, <1>4, <2>1
  <2>2. CASE x = w
    BY <1>1, <1>2, <1>4, <2>2
  <2>3. CASE v # w /\ x # w
    BY <1>4, <2>3 DEF OwnerInv
  <2> QED BY <2>1, <2>2, <2>3
<1>6. \A v \in WorkerId : ~Up(v)' => ~Up(v)
  BY <1>1, <1>4
<1> QED BY <1>1, <1>5, <1>6 DEF OwnerInv

\* A process that ends owns and remembers nothing.
LEMMA ForgottenOwner ==
    ASSUME FleetType, OwnerInv, NEW w \in WorkerId, Stop(w) \/ Crash(w)
    PROVE  OwnerInv'
<1>1. spec' = [spec EXCEPT ![w] = <<>>] /\ Forgotten(w)
  BY DEF Stop, Crash
<1>2. /\ spec'[w] = <<>> /\ \A v \in WorkerId : v # w => spec'[v] = spec[v]
  BY <1>1 DEF FleetType
<1>3. /\ Owns(w)' = {}
      /\ \A v \in WorkerId : v # w => Owns(v)' = Owns(v) /\ Up(v)' = Up(v)
  BY <1>2, DownOwnsNothing DEF Owns, Up
<1>4. \A v \in WorkerId, u \in User :
        /\ chain'[v][u] = IF v = w THEN <<>> ELSE chain[v][u]
        /\ task'[v][u] = IF v = w THEN "idle" ELSE task[v][u]
        /\ memory'[v][u] = IF v = w THEN Unknown ELSE memory[v][u]
  BY <1>1 DEF Forgotten, NoChains, Idle, NoMemory, FleetType
<1> QED BY <1>3, <1>4 DEF OwnerInv

-----------------------------------------------------------------------------
(***************************************************************************)
(* What each step does to a user.                                          *)
(***************************************************************************)
\* A user with events is routed to a partition.
LEMMA RouteOfClean ==
    ASSUME TopologyInv, unlisted = 0, NEW u \in User, NEW a \in Nat, QueueInv(u, a)
    PROVE  sent[u] > 0 => Route(u) \in AllPartitions
BY SettledIsBound, RouteSettled DEF QueueInv

\* Outside the job, the hash ring stays as it is.
LEMMA RingSame ==
    ASSUME UNCHANGED vars
    PROVE  /\ settled' = settled /\ unlisted' = unlisted
           /\ BoundPartitions' = BoundPartitions
           /\ \A u \in User : Route(u)' = Route(u)
<1>1. settled' = settled /\ unlisted' = unlisted /\ BoundPartitions' = BoundPartitions
  BY DEF vars, BoundPartitions
<1> QED BY <1>1, RouteSame

\* Steps of another user's tasks, and of the API's boot.
LEMMA OtherKeeps ==
    ASSUME NEW u \in User, NEW a \in Nat, FleetType, UserInv(u, a), UNCHANGED vars,
           queue' = queue, sent' = sent, spec' = spec,
           txn'[u] = txn[u], presence'[u] = presence[u],
           \A w \in WorkerId : /\ chain'[w][u] = chain[w][u]
                               /\ task'[w][u] = task[w][u]
                               /\ memory'[w][u] = memory[w][u]
    PROVE  UserInv(u, a)'
<1>1. Route(u)' = Route(u) /\ settled' = settled
  BY RingSame
<1>2. QueueInv(u, a)'
  BY <1>1, QueueSame DEF UserInv
<1>3. \A w \in WorkerId : (Route(u) \in Owns(w))' <=> Route(u) \in Owns(w)
  BY <1>1 DEF Owns
<1>4. ChainInv(u, a)' /\ PresenceInv(u, a)' /\ MemoryInv(u, a)'
  <2>1. \A w \in WorkerId : (chain[w][u] # <<>> \/ memory[w][u] # Unknown)
                              => (Route(u) \in Owns(w))'
    BY <1>3 DEF UserInv, ChainInv, MemoryInv
  <2>2. ChainInv(u, a) /\ PresenceInv(u, a) /\ MemoryInv(u, a) /\ sent'[u] = sent[u]
    BY DEF UserInv
  <2> QED BY <2>1, <2>2, ColumnKeeps
<1> QED BY <1>2, <1>4 DEF UserInv

\* ReadHint: the hint is what Postgres holds, remembered or read.
LEMMA ReadHintUser ==
    ASSUME NEW u \in User, NEW a \in Nat, FleetType, UserInv(u, a),
           NEW w \in WorkerId, ReadHint(w, u)
    PROVE  UserInv(u, a)'
<1>1. /\ chain[w][u] # <<>> /\ task[w][u] = "idle"
      /\ UNCHANGED vars
      /\ sent' = sent /\ queue' = queue /\ spec' = spec /\ chain' = chain
      /\ txn' = txn /\ presence' = presence
  BY DEF ReadHint
<1>2. Head(chain[w][u]) = a + 1 /\ a < sent[u] /\ Route(u) \in Owns(w) /\ sent[u] \in Nat
  BY <1>1, HeadOfChain DEF UserInv, FleetType
<1>3. Route(u)' = Route(u) /\ settled' = settled
  BY <1>1, RingSame
<1>4. memory'[w][u] = presence[u]
  BY <1>1 DEF ReadHint, UserInv, MemoryInv, FleetType
<1>5. task'[w][u] = IF presence[u] = Areas[u][a + 1] THEN "done" ELSE "hinted"
  BY <1>2, <1>4 DEF ReadHint, Current, FleetType
<1>6. \A v \in WorkerId : v # w => task'[v][u] = task[v][u] /\ memory'[v][u] = memory[v][u]
  BY DEF ReadHint, FleetType
<1>7. QueueInv(u, a)'
  BY <1>1, <1>3, QueueSame DEF UserInv
<1>8. \A v \in WorkerId : (Route(u) \in Owns(v))' <=> Route(u) \in Owns(v)
  BY <1>1, <1>3 DEF Owns
<1>9. ChainInv(u, a)'
  BY <1>1, <1>8 DEF UserInv, ChainInv
<1>10. PresenceInv(u, a)' /\ Effective(u)' = Effective(u)
  BY <1>1 DEF UserInv, PresenceInv, Effective
<1>11. MemoryInv(u, a)'
  <2> SUFFICES ASSUME NEW v \in WorkerId
               PROVE  /\ memory'[v][u] # Unknown =>
                           /\ sent[u] > 0 /\ Route(u) \in Owns(v)
                           /\ memory'[v][u] = presence[u] \/ task'[v][u] \in {"hinted", "locked"}
                           /\ Effective(u) => task'[v][u] \in {"hinted", "locked"}
                      /\ task'[v][u] = "locked" => txn[u] = <<v, a + 1>>
                      /\ task'[v][u] = "done" => /\ memory'[v][u] = Areas[u][a + 1]
                                                 /\ presence[u] = Areas[u][a + 1]
    BY <1>1, <1>8, <1>10 DEF MemoryInv
  <2>1. CASE v = w
    <3>1. Effective(u) => presence[u] # Areas[u][a + 1]
      BY DEF UserInv, PresenceInv, Effective
    <3> QED BY <1>1, <1>2, <1>4, <1>5, <2>1, <3>1
  <2>2. CASE v # w
    BY <1>6, <2>2 DEF UserInv, MemoryInv
  <2> QED BY <2>1, <2>2
<1> QED BY <1>7, <1>9, <1>10, <1>11 DEF UserInv

\* Lock: nobody else knows of the user.
LEMMA LockUser ==
    ASSUME NEW u \in User, NEW a \in Nat, FleetType, OwnerInv, UserInv(u, a),
           NEW w \in WorkerId, Lock(w, u)
    PROVE  UserInv(u, a)'
<1>1. /\ task[w][u] = "hinted" /\ txn[u] = NoTxn
      /\ UNCHANGED vars
      /\ sent' = sent /\ queue' = queue /\ spec' = spec /\ chain' = chain
      /\ memory' = memory /\ presence' = presence
  BY DEF Lock
<1>2. chain[w][u] # <<>>
  BY <1>1 DEF FleetType
<1>3. Head(chain[w][u]) = a + 1 /\ a < sent[u] /\ Route(u) \in Owns(w) /\ sent[u] \in Nat
  BY <1>2, HeadOfChain DEF UserInv, FleetType
<1>4. Route(u)' = Route(u) /\ settled' = settled
  BY <1>1, RingSame
<1>5. txn'[u] = <<w, a + 1>> /\ task'[w][u] = "locked"
  BY <1>3 DEF Lock, FleetType
<1>6. \A v \in WorkerId : v # w => task'[v][u] = task[v][u]
  BY DEF Lock, FleetType
<1>7. QueueInv(u, a)'
  BY <1>1, <1>4, QueueSame DEF UserInv
<1>8. \A v \in WorkerId : (Route(u) \in Owns(v))' <=> Route(u) \in Owns(v)
  BY <1>1, <1>4 DEF Owns
<1>9. ChainInv(u, a)'
  BY <1>1, <1>8 DEF UserInv, ChainInv
<1>10. PresenceInv(u, a)'
  <2>1. txn'[u][2] = a + 1 /\ a + 1 \in 1..sent[u]
    BY <1>3, <1>5
  <2> QED BY <1>1, <2>1 DEF UserInv, PresenceInv, Effective
<1>11. MemoryInv(u, a)'
  <2> SUFFICES ASSUME NEW v \in WorkerId
               PROVE  /\ memory[v][u] # Unknown =>
                           /\ sent[u] > 0 /\ Route(u) \in Owns(v)
                           /\ memory[v][u] = presence[u] \/ task'[v][u] \in {"hinted", "locked"}
                           /\ task'[v][u] \in {"hinted", "locked"}
                      /\ task'[v][u] = "locked" => txn'[u] = <<v, a + 1>>
                      /\ task'[v][u] = "done" => /\ memory[v][u] = Areas[u][a + 1]
                                                 /\ presence[u] = Areas[u][a + 1]
    BY <1>1, <1>8 DEF MemoryInv
  <2>1. CASE v = w
    BY <1>2, <1>3, <1>5, <2>1
  <2>2. CASE v # w
    <3>1. Route(u) \notin Owns(v)
      BY <1>3, <2>2, OneOwner
    <3>2. memory[v][u] = Unknown /\ chain[v][u] = <<>> /\ task[v][u] = "idle"
      BY <3>1 DEF UserInv, MemoryInv, ChainInv, FleetType
    <3> QED BY <1>6, <2>2, <3>2
  <2> QED BY <2>1, <2>2
<1> QED BY <1>7, <1>9, <1>10, <1>11 DEF UserInv

\* Commit: the next event is in Postgres and in the owner's memory.
LEMMA CommitUser ==
    ASSUME NEW u \in User, NEW a \in Nat, FleetType, OwnerInv, UserInv(u, a),
           NEW w \in WorkerId, Commit(w, u)
    PROVE  UserInv(u, a)'
<1>1. /\ task[w][u] = "locked"
      /\ UNCHANGED vars
      /\ sent' = sent /\ queue' = queue /\ spec' = spec /\ chain' = chain
  BY DEF Commit
<1>2. chain[w][u] # <<>>
  BY <1>1 DEF FleetType
<1>3. Head(chain[w][u]) = a + 1 /\ a < sent[u] /\ Route(u) \in Owns(w) /\ sent[u] \in Nat
  BY <1>2, HeadOfChain DEF UserInv, FleetType
<1>4. Route(u)' = Route(u) /\ settled' = settled
  BY <1>1, RingSame
<1>5. /\ txn'[u] = NoTxn /\ task'[w][u] = "done"
      /\ presence'[u] = Areas[u][a + 1] /\ memory'[w][u] = Areas[u][a + 1]
  BY <1>3 DEF Commit, Current, FleetType
<1>6. \A v \in WorkerId : v # w => task'[v][u] = task[v][u] /\ memory'[v][u] = memory[v][u]
  BY DEF Commit, FleetType
<1>7. QueueInv(u, a)'
  BY <1>1, <1>4, QueueSame DEF UserInv
<1>8. \A v \in WorkerId : (Route(u) \in Owns(v))' <=> Route(u) \in Owns(v)
  BY <1>1, <1>4 DEF Owns
<1>9. ChainInv(u, a)'
  BY <1>1, <1>8 DEF UserInv, ChainInv
<1>10. PresenceInv(u, a)' /\ ~Effective(u)'
  BY <1>1, <1>3, <1>5 DEF PresenceInv, Effective
<1>11. MemoryInv(u, a)'
  <2> SUFFICES ASSUME NEW v \in WorkerId
               PROVE  /\ memory'[v][u] # Unknown =>
                           /\ sent[u] > 0 /\ Route(u) \in Owns(v)
                           /\ memory'[v][u] = presence'[u]
                      /\ task'[v][u] # "locked"
                      /\ task'[v][u] = "done" => /\ memory'[v][u] = Areas[u][a + 1]
                                                 /\ presence'[u] = Areas[u][a + 1]
    BY <1>1, <1>8, <1>10 DEF MemoryInv
  <2>1. CASE v = w
    BY <1>2, <1>3, <1>5, <2>1
  <2>2. CASE v # w
    <3>1. Route(u) \notin Owns(v)
      BY <1>3, <2>2, OneOwner
    <3>2. memory[v][u] = Unknown /\ chain[v][u] = <<>> /\ task[v][u] = "idle"
      BY <3>1 DEF UserInv, MemoryInv, ChainInv, FleetType
    <3> QED BY <1>6, <2>2, <3>2
  <2> QED BY <2>1, <2>2
<1> QED BY <1>7, <1>9, <1>10, <1>11 DEF UserInv

\* Ack: event a + 1 is the last one acked.  A transaction a dead worker left open
\* can no longer change anything.
LEMMA AckUser ==
    ASSUME NEW u \in User, NEW a \in Nat, FleetType, OwnerInv, UserInv(u, a),
           NEW w \in WorkerId, Ack(w, u)
    PROVE  UserInv(u, a + 1)'
<1>1. /\ task[w][u] = "done"
      /\ UNCHANGED vars
      /\ sent' = sent /\ spec' = spec /\ memory' = memory
      /\ txn' = txn /\ presence' = presence
  BY DEF Ack
<1>2. chain[w][u] # <<>>
  BY <1>1 DEF FleetType
<1>3. /\ Head(chain[w][u]) = a + 1 /\ a < sent[u] /\ Route(u) \in Owns(w) /\ sent[u] \in Nat
      /\ Len(chain[w][u]) \in Nat \ {0}
  BY <1>2, HeadOfChain DEF UserInv, FleetType
<1>4. Route(u)' = Route(u) /\ settled' = settled
  BY <1>1, RingSame
<1>5. QueueInv(u, a + 1)'
  <2>1. PICK r \in AllPartitions : \E d \in DOMAIN queue[r] :
          queue[r][d] = <<u, a + 1>> /\ queue' = [queue EXCEPT ![r] = RemoveAt(@, d)]
    BY <1>3 DEF Ack
  <2>2. PICK d \in DOMAIN queue[r] :
          queue[r][d] = <<u, a + 1>> /\ queue' = [queue EXCEPT ![r] = RemoveAt(@, d)]
    BY <2>1
  <2> QED BY <1>1, <1>3, <1>4, <2>2, OwnRemoved DEF UserInv
<1>6. \A v \in WorkerId : (Route(u) \in Owns(v))' <=> Route(u) \in Owns(v)
  BY <1>1, <1>4 DEF Owns
<1>7. chain'[w][u] = Tail(chain[w][u]) /\ task'[w][u] = "idle"
  BY DEF Ack, FleetType
<1>8. \A v \in WorkerId : v # w => task'[v][u] = task[v][u] /\ chain'[v][u] = chain[v][u]
  BY DEF Ack, FleetType
<1>9. \A v \in WorkerId : v # w =>
        memory[v][u] = Unknown /\ chain[v][u] = <<>> /\ task[v][u] = "idle"
  <2> SUFFICES ASSUME NEW v \in WorkerId, v # w
               PROVE  memory[v][u] = Unknown /\ chain[v][u] = <<>> /\ task[v][u] = "idle"
    OBVIOUS
  <2>1. Route(u) \notin Owns(v)
    BY <1>3, OneOwner
  <2> QED BY <2>1 DEF UserInv, MemoryInv, ChainInv, FleetType
<1>10. ChainInv(u, a + 1)'
  <2> SUFFICES ASSUME NEW v \in WorkerId
               PROVE  /\ chain'[v][u] # <<>> => Route(u) \in Owns(v)
                      /\ (a + 1) + Len(chain'[v][u]) <= sent[u]
                      /\ \A i \in 1..Len(chain'[v][u]) : chain'[v][u][i] = (a + 1) + i
    BY <1>1, <1>6 DEF ChainInv
  <2>1. CASE v = w
    <3> DEFINE c == chain[w][u]
               l == Len(c)
    <3>1. /\ c \in Seq(Nat) /\ c # <<>> /\ l \in Nat \ {0}
          /\ a + l <= sent[u] /\ \A i \in 1..l : c[i] = a + i
      BY <1>2, <1>3 DEF UserInv, ChainInv, FleetType
    <3>2. Len(Tail(c)) = l - 1 /\ \A i \in 1..(l - 1) : Tail(c)[i] = c[i + 1]
      BY <3>1, HeadTailProperties
    <3>3. chain'[v][u] = Tail(c)
      BY <1>7, <2>1
    <3> HIDE DEF c, l
    <3>4. ASSUME NEW i \in 1..(l - 1) PROVE Tail(c)[i] = (a + 1) + i
      <4>1. i + 1 \in 1..l /\ a + (i + 1) = (a + 1) + i
        BY <3>1
      <4>2. Tail(c)[i] = c[i + 1] /\ c[i + 1] = a + (i + 1)
        BY <3>1, <3>2, <4>1
      <4> QED BY <4>1, <4>2
    <3>5. (a + 1) + (l - 1) <= sent[u]
      BY <1>3, <3>1
    <3> QED BY <1>3, <2>1, <3>2, <3>3, <3>4, <3>5
  <2>2. CASE v # w
    <3>1. chain'[v][u] = <<>>
      BY <1>8, <1>9, <2>2
    <3>2. Len(chain'[v][u]) = 0
      BY <3>1
    <3> QED BY <1>3, <3>1, <3>2
  <2> QED BY <2>1, <2>2
<1>11. presence[u] = Areas[u][a + 1] /\ memory[w][u] = presence[u]
  BY <1>1 DEF UserInv, MemoryInv
<1>12. ~Effective(u) /\ ~Effective(u)'
  BY <1>1, <1>11 DEF UserInv, PresenceInv, Effective
<1>13. PresenceInv(u, a + 1)'
  BY <1>1, <1>11, <1>12 DEF UserInv, PresenceInv
<1>14. MemoryInv(u, a + 1)'
  <2> SUFFICES ASSUME NEW v \in WorkerId
               PROVE  /\ memory[v][u] # Unknown =>
                           /\ sent[u] > 0 /\ Route(u) \in Owns(v)
                           /\ memory[v][u] = presence[u]
                      /\ task'[v][u] = "idle"
    BY <1>1, <1>6, <1>12 DEF MemoryInv
  <2>1. CASE v = w
    BY <1>3, <1>7, <1>11, <2>1
  <2>2. CASE v # w
    BY <1>8, <1>9, <2>2
  <2> QED BY <2>1, <2>2
<1> QED BY <1>5, <1>10, <1>13, <1>14 DEF UserInv

\* OrphanEnds: what a dead worker's transaction still writes is the next event's,
\* which every task that matters is about to write again.
LEMMA OrphanUser ==
    ASSUME NEW u \in User, NEW a \in Nat, FleetType, UserInv(u, a), OrphanEnds(u)
    PROVE  UserInv(u, a)'
<1>1. /\ txn[u] # NoTxn /\ task[txn[u][1]][u] # "locked"
      /\ UNCHANGED vars
      /\ sent' = sent /\ queue' = queue /\ spec' = spec /\ chain' = chain
      /\ task' = task /\ memory' = memory
  BY DEF OrphanEnds
<1>2. /\ txn'[u] = NoTxn
      /\ presence'[u] = presence[u] \/ presence'[u] = Areas[u][txn[u][2]]
  BY DEF OrphanEnds, FleetType
<1>3. \/ presence'[u] = presence[u]
      \/ Effective(u) /\ presence'[u] = Areas[u][a + 1] /\ a < sent[u]
  BY <1>1, <1>2 DEF Effective, UserInv, PresenceInv, FleetType
<1>4. Route(u)' = Route(u) /\ settled' = settled
  BY <1>1, RingSame
<1>5. QueueInv(u, a)'
  BY <1>1, <1>4, QueueSame DEF UserInv
<1>6. \A v \in WorkerId : (Route(u) \in Owns(v))' <=> Route(u) \in Owns(v)
  BY <1>1, <1>4 DEF Owns
<1>7. ChainInv(u, a)'
  BY <1>1, <1>6 DEF UserInv, ChainInv
<1>8. PresenceInv(u, a)' /\ ~Effective(u)'
  BY <1>1, <1>2, <1>3 DEF UserInv, PresenceInv, Effective
<1>9. \A v \in WorkerId : task[v][u] # "locked"
  <2> SUFFICES ASSUME NEW v \in WorkerId, task[v][u] = "locked" PROVE FALSE
    OBVIOUS
  <2>1. txn[u] = <<v, a + 1>>
    BY DEF UserInv, MemoryInv
  <2> QED BY <1>1, <2>1
<1>10. MemoryInv(u, a)'
  <2> SUFFICES ASSUME NEW v \in WorkerId
               PROVE  /\ memory[v][u] # Unknown =>
                           /\ sent[u] > 0 /\ Route(u) \in Owns(v)
                           /\ memory[v][u] = presence'[u] \/ task[v][u] \in {"hinted", "locked"}
                      /\ task[v][u] = "done" => /\ memory[v][u] = Areas[u][a + 1]
                                                /\ presence'[u] = Areas[u][a + 1]
    BY <1>1, <1>6, <1>8, <1>9 DEF MemoryInv
  <2> QED BY <1>3 DEF UserInv, MemoryInv
<1> QED BY <1>5, <1>7, <1>8, <1>10 DEF UserInv

\* Stop and Crash: the process forgets, the others do not notice.
LEMMA ForgottenUser ==
    ASSUME NEW u \in User, NEW a \in Nat, FleetType, UserInv(u, a),
           NEW w \in WorkerId, Stop(w) \/ Crash(w)
    PROVE  UserInv(u, a)'
<1>1. /\ UNCHANGED vars
      /\ sent' = sent /\ queue' = queue /\ txn' = txn /\ presence' = presence
      /\ spec' = [spec EXCEPT ![w] = <<>>] /\ Forgotten(w)
  BY DEF Stop, Crash
<1>2. \A v \in WorkerId :
        /\ chain'[v][u] = IF v = w THEN <<>> ELSE chain[v][u]
        /\ task'[v][u] = IF v = w THEN "idle" ELSE task[v][u]
        /\ memory'[v][u] = IF v = w THEN Unknown ELSE memory[v][u]
  BY <1>1 DEF Forgotten, NoChains, Idle, NoMemory, FleetType
<1>3. Route(u)' = Route(u) /\ settled' = settled
  BY <1>1, RingSame
<1>4. QueueInv(u, a)'
  BY <1>1, <1>3, QueueSame DEF UserInv
<1>5. \A v \in WorkerId : v # w => ((Route(u) \in Owns(v))' <=> Route(u) \in Owns(v))
  <2>1. \A v \in WorkerId : v # w => spec'[v] = spec[v]
    BY <1>1 DEF FleetType
  <2> QED BY <1>3, <2>1 DEF Owns
<1>6. ChainInv(u, a)'
  <2> SUFFICES ASSUME NEW v \in WorkerId
               PROVE  /\ chain'[v][u] # <<>> => (Route(u) \in Owns(v))'
                      /\ a + Len(chain'[v][u]) <= sent[u]
                      /\ \A i \in 1..Len(chain'[v][u]) : chain'[v][u][i] = a + i
    BY <1>1 DEF ChainInv
  <2>1. CASE v = w
    <3>1. chain'[v][u] = <<>> /\ Len(chain'[v][u]) = 0
      BY <1>2, <2>1
    <3>2. a <= sent[u]
      BY DEF UserInv, QueueInv
    <3> QED BY <3>1, <3>2
  <2>2. CASE v # w
    BY <1>2, <1>5, <2>2 DEF UserInv, ChainInv
  <2> QED BY <2>1, <2>2
<1>7. PresenceInv(u, a)' /\ Effective(u)' = Effective(u)
  BY <1>1 DEF UserInv, PresenceInv, Effective
<1>8. MemoryInv(u, a)'
  BY <1>1, <1>2, <1>5, <1>7 DEF UserInv, MemoryInv
<1> QED BY <1>4, <1>6, <1>7, <1>8 DEF UserInv

\* Boot: a process starts knowing nothing.
LEMMA BootUser ==
    ASSUME NEW u \in User, NEW a \in Nat, FleetType, OwnerInv, UserInv(u, a),
           NEW w \in WorkerId, NEW s, Boot(w, s)
    PROVE  UserInv(u, a)'
<1>1. /\ ~Up(w) /\ UNCHANGED vars
      /\ sent' = sent /\ queue' = queue /\ txn' = txn /\ presence' = presence
      /\ chain' = chain /\ task' = task /\ memory' = memory
      /\ spec' = [spec EXCEPT ![w] = s]
  BY DEF Boot
<1>2. Route(u)' = Route(u) /\ settled' = settled
  BY <1>1, RingSame
<1>3. QueueInv(u, a)'
  BY <1>1, <1>2, QueueSame DEF UserInv
<1>4. \A v \in WorkerId : v # w => ((Route(u) \in Owns(v))' <=> Route(u) \in Owns(v))
  <2>1. \A v \in WorkerId : v # w => spec'[v] = spec[v]
    BY <1>1 DEF FleetType
  <2> QED BY <1>2, <2>1 DEF Owns
<1>5. \A v \in WorkerId : (chain[v][u] # <<>> \/ memory[v][u] # Unknown)
                            => (Route(u) \in Owns(v))'
  BY <1>1, <1>4 DEF OwnerInv, UserInv, ChainInv, MemoryInv
<1>6. ChainInv(u, a)' /\ PresenceInv(u, a)' /\ MemoryInv(u, a)'
  <2>1. ChainInv(u, a) /\ PresenceInv(u, a) /\ MemoryInv(u, a)
    BY DEF UserInv
  <2> QED BY <1>1, <1>5, <2>1, ColumnKeeps
<1> QED BY <1>3, <1>6 DEF UserInv

\* Deliver: the first event nobody holds is the one behind the chain.
LEMMA DeliverUser ==
    ASSUME NEW u \in User, NEW a \in Nat, FleetType, OwnerInv, UserInv(u, a),
           NEW w \in WorkerId, NEW p \in AllPartitions, Deliver(w, p)
    PROVE  UserInv(u, a)'
<1>1. /\ p \in Owns(w) /\ UNCHANGED vars
      /\ sent' = sent /\ queue' = queue /\ spec' = spec /\ txn' = txn
      /\ presence' = presence /\ task' = task /\ memory' = memory
  BY DEF Deliver
<1>2. PICK i \in DOMAIN queue[p] :
        /\ ~Held(queue[p][i]) /\ \A j \in 1..(i - 1) : Held(queue[p][j])
        /\ chain' = [chain EXCEPT ![w][queue[p][i][1]] = Append(@, queue[p][i][2])]
  BY DEF Deliver
<1> DEFINE v == queue[p][i][1]
           k == queue[p][i][2]
<1>3. /\ v \in User /\ k \in Nat /\ DOMAIN queue[p] = 1..Len(queue[p]) /\ Len(queue[p]) \in Nat
  <2>1. queue[p] \in Seq(User \X Nat)
    BY DEF FleetType
  <2>2. DOMAIN queue[p] = 1..Len(queue[p]) /\ Len(queue[p]) \in Nat
    BY <2>1, LenProperties
  <2>3. queue[p][i] \in User \X Nat
    BY <2>1, <2>2, ElementOfSeq
  <2> QED BY <2>2, <2>3
<1>4. chain' = [chain EXCEPT ![w][v] = Append(@, k)]
  BY <1>2
<1>5. CASE v # u
  <2>1. \A x \in WorkerId : chain'[x][u] = chain[x][u]
    BY <1>3, <1>4, <1>5 DEF FleetType
  <2> QED BY <1>1, <2>1, OtherKeeps
<1>6. CASE v = u
  <2> DEFINE c == chain[w][u]
             l == Len(c)
  <2>1. /\ c \in Seq(Nat) /\ l \in Nat /\ DOMAIN c = 1..l /\ sent[u] \in Nat
    BY LenProperties DEF FleetType
  <2>2. p = Route(u) /\ k \in (a + 1)..sent[u]
    BY <1>6 DEF UserInv, QueueInv
  <2>3. a + l <= sent[u] /\ \A j \in 1..l : c[j] = a + j
    BY DEF UserInv, ChainInv
  <2>4. \A x \in WorkerId : x # w => chain[x][u] = <<>>
    BY <1>1, <2>2, OneOwner DEF UserInv, ChainInv
  <2>5. ASSUME NEW e, e[1] = u, NEW b, e[2] = b PROVE Held(e) <=> b \in ToSet(c)
    <3>1. \A x \in WorkerId : x # w => ToSet(chain[x][u]) = {}
      BY <2>4 DEF ToSet
    <3> QED BY <2>5, <3>1 DEF Held
  <2>6. ToSet(c) = (a + 1)..(a + l)
    <3>1. \A b \in ToSet(c) : b \in (a + 1)..(a + l)
      BY <2>1, <2>3 DEF ToSet
    <3>2. ASSUME NEW b \in (a + 1)..(a + l) PROVE b \in ToSet(c)
      <4>1. b - a \in 1..l /\ a + (b - a) = b
        BY <2>1
      <4>2. c[b - a] = b
        BY <2>3, <4>1
      <4> QED BY <2>1, <4>1, <4>2 DEF ToSet
    <3> QED BY <3>1, <3>2
  <2> HIDE DEF c, l
  <2>7. k = a + l + 1
    <3>1. k \notin (a + 1)..(a + l)
      BY <1>2, <1>6, <2>5, <2>6
    <3>2. k > a + l
      BY <2>1, <2>2, <3>1
    <3>3. ASSUME k > a + l + 1 PROVE FALSE
      <4>1. a + l + 1 \in (a + 1)..sent[u]
        BY <2>1, <2>2, <3>3
      <4>2. PICK j \in DOMAIN queue[p] : queue[p][j] = <<u, a + l + 1>>
        BY <2>2, <4>1 DEF UserInv, QueueInv
      <4>3. queue[p][j][1] = u /\ queue[p][j][2] = a + l + 1
        BY <4>2
      <4>4. ~(i < j) /\ i # j
        <5>1. i < j => k < a + l + 1
          BY <1>6, <4>3 DEF UserInv, QueueInv
        <5>2. k # a + l + 1 /\ ~(k < a + l + 1)
          BY <1>3, <2>1, <3>3
        <5> QED BY <4>3, <5>1, <5>2
      <4>5. j \in 1..(i - 1)
        BY <1>3, <4>4
      <4>6. Held(queue[p][j])
        BY <1>2, <4>5
      <4>7. a + l + 1 \in (a + 1)..(a + l)
        BY <2>5, <2>6, <4>3, <4>6
      <4> QED BY <2>1, <4>7
    <3> QED BY <1>3, <2>1, <3>2, <3>3
  <2>8. chain'[w][u] = Append(c, k) /\ \A x \in WorkerId : x # w => chain'[x][u] = chain[x][u]
    BY <1>3, <1>4, <1>6 DEF FleetType, c
  <2>9. Route(u)' = Route(u) /\ settled' = settled
    BY <1>1, RingSame
  <2>10. QueueInv(u, a)'
    BY <1>1, <2>9, QueueSame DEF UserInv
  <2>11. \A x \in WorkerId : (Route(u) \in Owns(x))' <=> Route(u) \in Owns(x)
    BY <1>1, <2>9 DEF Owns
  <2>12. ChainInv(u, a)'
    <3> SUFFICES ASSUME NEW x \in WorkerId
                 PROVE  /\ chain'[x][u] # <<>> => Route(u) \in Owns(x)
                        /\ a + Len(chain'[x][u]) <= sent[u]
                        /\ \A j \in 1..Len(chain'[x][u]) : chain'[x][u][j] = a + j
      BY <1>1, <2>11 DEF ChainInv
    <3>1. CASE x = w
      <4>1. /\ Len(Append(c, k)) = l + 1 /\ Append(c, k)[l + 1] = k
            /\ \A j \in 1..l : Append(c, k)[j] = c[j]
        BY <1>3, <2>1, AppendProperties DEF l
      <4>2. \A j \in 1..(l + 1) : Append(c, k)[j] = a + j
        <5> SUFFICES ASSUME NEW j \in 1..(l + 1) PROVE Append(c, k)[j] = a + j
          OBVIOUS
        <5>1. CASE j = l + 1
          BY <2>1, <2>7, <4>1, <5>1
        <5>2. CASE j \in 1..l
          BY <2>3, <4>1, <5>2
        <5> QED BY <2>1, <5>1, <5>2
      <4>3. a + (l + 1) <= sent[u]
        BY <2>1, <2>2, <2>7
      <4> QED BY <1>1, <2>2, <2>8, <3>1, <4>1, <4>2, <4>3
    <3>2. CASE x # w
      BY <2>8, <3>2 DEF UserInv, ChainInv
    <3> QED BY <3>1, <3>2
  <2>13. PresenceInv(u, a)' /\ Effective(u)' = Effective(u)
    BY <1>1 DEF UserInv, PresenceInv, Effective
  <2>14. chain'[w][u] # <<>>
    <3>1. Len(Append(c, k)) = l + 1
      BY <1>3, <2>1, AppendProperties DEF l
    <3> QED BY <2>1, <2>8, <3>1
  <2>15. MemoryInv(u, a)'
    BY <1>1, <2>8, <2>11, <2>13, <2>14 DEF UserInv, MemoryInv
  <2> QED BY <2>10, <2>12, <2>13, <2>15 DEF UserInv
<1> QED BY <1>5, <1>6

\* Publish: one more event, for u or for somebody else.
LEMMA PublishUser ==
    ASSUME FleetType, TopologyInv, NEW v \in User, Publish(v),
           NEW u \in User, unlisted = 0, NEW a \in Nat, UserInv(u, a), u \notin early'
    PROVE  UserInv(u, a)'
<1>1. /\ UNCHANGED vars
      /\ spec' = spec /\ chain' = chain /\ task' = task /\ memory' = memory
      /\ txn' = txn /\ presence' = presence
  BY DEF Publish
<1>2. /\ Route(u)' = Route(u) /\ settled' = settled
  BY <1>1, RingSame
<1>3. sent' = [sent EXCEPT ![v] = @ + 1] /\ sent[u] \in Nat /\ sent[v] \in Nat
  BY DEF Publish, FleetType
<1>4. \A x \in WorkerId : (Route(u) \in Owns(x))' <=> Route(u) \in Owns(x)
  BY <1>1, <1>2 DEF Owns
<1>5. \A x \in WorkerId : (chain[x][u] # <<>> \/ memory[x][u] # Unknown)
                            => (Route(u) \in Owns(x))'
  BY <1>4 DEF UserInv, ChainInv, MemoryInv
<1>6. sent[u] > 0 => Route(u) \in AllPartitions
  BY RouteOfClean DEF UserInv
<1>7. CASE v # u
  <2>1. sent'[u] = sent[u]
    BY <1>3, <1>7 DEF FleetType
  <2>2. ChainInv(u, a)' /\ PresenceInv(u, a)' /\ MemoryInv(u, a)'
    BY <1>1, <1>5, <2>1, ColumnKeeps DEF UserInv
  <2>3. CASE BoundPartitions = {}
    <3>1. queue' = queue
      BY <2>3 DEF Publish
    <3>2. QueueInv(u, a)'
      BY <1>2, <2>1, <3>1, QueueSame DEF UserInv
    <3> QED BY <2>2, <3>2 DEF UserInv
  <2>4. CASE BoundPartitions # {}
    <3> DEFINE r == Route(v)
               e == <<v, sent'[v]>>
    <3>1. queue' = [queue EXCEPT ![r] = Append(@, e)]
      BY <2>4 DEF Publish
    <3>2. r \in AllPartitions /\ e \in User \X Nat /\ e[1] # u
      BY <1>3, <1>7, <2>4, RouteSettled DEF FleetType
    <3> HIDE DEF r, e
    <3>3. QueueInv(u, a)'
      BY <1>2, <1>6, <2>1, <3>1, <3>2, OtherAppended DEF UserInv
    <3> QED BY <2>2, <3>3 DEF UserInv
  <2> QED BY <2>3, <2>4
<1>8. CASE v = u
  <2>1. sent'[u] = sent[u] + 1
    BY <1>3, <1>8 DEF FleetType
  <2>2. settled # {}
    BY <1>8 DEF Publish
  <2>3. BoundPartitions # {} /\ Route(u) \in AllPartitions
    BY <2>2, SettledIsBound, RouteSettled
  <2>4. queue' = [queue EXCEPT ![Route(u)] = Append(@, <<u, sent[u] + 1>>)]
    BY <1>8, <2>1, <2>3 DEF Publish
  <2>5. QueueInv(u, a)'
    BY <1>2, <2>1, <2>2, <2>3, <2>4, OwnAppended DEF UserInv
  <2>6. ChainInv(u, a)'
    <3> SUFFICES ASSUME NEW x \in WorkerId
                 PROVE  /\ chain[x][u] # <<>> => (Route(u) \in Owns(x))'
                        /\ a + Len(chain[x][u]) <= sent[u] + 1
                        /\ \A j \in 1..Len(chain[x][u]) : chain[x][u][j] = a + j
      BY <1>1, <2>1 DEF ChainInv
    <3>1. Len(chain[x][u]) \in Nat
      BY LenProperties DEF FleetType
    <3>2. a + Len(chain[x][u]) <= sent[u]
      BY DEF UserInv, ChainInv
    <3> QED BY <1>3, <1>5, <3>1, <3>2 DEF UserInv, ChainInv
  <2>7. PresenceInv(u, a)' /\ Effective(u)' = Effective(u)
    BY <1>1, <1>3, <2>1 DEF UserInv, PresenceInv, Effective
  <2>8. MemoryInv(u, a)'
    BY <1>1, <1>3, <1>4, <2>1, <2>7 DEF UserInv, MemoryInv
  <2> QED BY <2>5, <2>6, <2>7, <2>8 DEF UserInv
<1> QED BY <1>7, <1>8

\* A step of the topology job: users it could route anew have no events yet.
LEMMA JobUser ==
    ASSUME FleetType, TopologyInv, TopologyInv', Next, UNCHANGED fleetVars,
           NEW u \in User, unlisted' = 0, NEW a \in Nat, UserInv(u, a)
    PROVE  UserInv(u, a)'
<1>1. /\ sent' = sent /\ queue' = queue /\ spec' = spec /\ chain' = chain /\ task' = task
      /\ memory' = memory /\ txn' = txn /\ presence' = presence
  BY DEF fleetVars
<1>2. unlisted = 0 /\ (settled # {} => settled' = settled)
  BY DEF Next, Begin, Request, RequestFails, Listing, TopologyInv, TopologyType
<1>3. settled # {} => Route(u)' = Route(u)
  <2> SUFFICES ASSUME settled # {} PROVE BoundPartitions' = BoundPartitions
    BY RouteSame
  <2> QED BY <1>2 DEF TopologyInv, ListedInv
<1>4. sent[u] = 0 \/ Route(u)' = Route(u)
  BY <1>3 DEF UserInv, QueueInv, FleetType
<1>5. QueueInv(u, a)'
  BY <1>1, <1>2, <1>4, QueueSame DEF UserInv
<1>6. \A x \in WorkerId : (chain[x][u] # <<>> \/ memory[x][u] # Unknown)
                            => (Route(u) \in Owns(x))'
  <2> SUFFICES ASSUME NEW x \in WorkerId, chain[x][u] # <<>> \/ memory[x][u] # Unknown
               PROVE  (Route(u) \in Owns(x))'
    OBVIOUS
  <2>1. sent[u] > 0 /\ Route(u) \in Owns(x)
    <3>1. CASE chain[x][u] # <<>>
      BY <3>1, HeadOfChain DEF UserInv, FleetType
    <3>2. CASE memory[x][u] # Unknown
      BY <3>2 DEF UserInv, MemoryInv
    <3> QED BY <3>1, <3>2
  <2>2. Route(u)' = Route(u)
    BY <1>4, <2>1
  <2> QED BY <1>1, <2>1, <2>2 DEF Owns
<1>7. ChainInv(u, a)' /\ PresenceInv(u, a)' /\ MemoryInv(u, a)'
  <2>1. ChainInv(u, a) /\ PresenceInv(u, a) /\ MemoryInv(u, a)
    BY DEF UserInv
  <2> QED BY <1>1, <1>6, <2>1, ColumnKeeps
<1> QED BY <1>5, <1>7 DEF UserInv

\* A step of v's task or of v's transaction leaves the others' state alone.
LEMMA OtherUser ==
    ASSUME NEW u \in User, NEW a \in Nat, FleetType, UserInv(u, a),
           NEW v \in User, v # u, NEW w \in WorkerId,
           ReadHint(w, v) \/ Lock(w, v) \/ Commit(w, v) \/ OrphanEnds(v)
    PROVE  UserInv(u, a)'
<1>1. /\ UNCHANGED vars /\ queue' = queue /\ sent' = sent /\ spec' = spec /\ chain' = chain
  BY DEF ReadHint, Lock, Commit, OrphanEnds
<1>2. txn'[u] = txn[u] /\ presence'[u] = presence[u]
  BY DEF FleetType, ReadHint, Lock, Commit, OrphanEnds
<1>3. \A x \in WorkerId : task'[x][u] = task[x][u] /\ memory'[x][u] = memory[x][u]
  BY DEF FleetType, ReadHint, Lock, Commit, OrphanEnds
<1> QED BY <1>1, <1>2, <1>3, OtherKeeps

\* Another user's ack takes only that user's event out of its partition.
LEMMA AckOther ==
    ASSUME NEW u \in User, NEW a \in Nat, FleetType, TopologyInv, unlisted = 0,
           UserInv(u, a), NEW v \in User, v # u, NEW w \in WorkerId, Ack(w, v)
    PROVE  UserInv(u, a)'
<1>1. /\ UNCHANGED vars /\ sent' = sent /\ spec' = spec /\ memory' = memory
      /\ txn' = txn /\ presence' = presence
  BY DEF Ack
<1>2. PICK p \in AllPartitions : \E i \in DOMAIN queue[p] :
        /\ queue[p][i] = <<v, Head(chain[w][v])>>
        /\ queue' = [queue EXCEPT ![p] = RemoveAt(@, i)]
  BY DEF Ack
<1>3. PICK i \in DOMAIN queue[p] :
        /\ queue[p][i] = <<v, Head(chain[w][v])>>
        /\ queue' = [queue EXCEPT ![p] = RemoveAt(@, i)]
  BY <1>2
<1>4. Route(u)' = Route(u) /\ settled' = settled
  BY <1>1, RingSame
<1>5. sent[u] > 0 => Route(u) \in AllPartitions
  BY RouteOfClean DEF UserInv
<1>6. QueueInv(u, a)'
  <2>1. queue[p][i][1] # u
    BY <1>3
  <2>2. QueueInv(u, a) /\ sent'[u] = sent[u]
    BY <1>1 DEF UserInv
  <2> QED BY <1>3, <1>4, <1>5, <2>1, <2>2, OtherRemoved
<1>7. \A x \in WorkerId : chain'[x][u] = chain[x][u] /\ task'[x][u] = task[x][u]
  BY DEF Ack, FleetType
<1>8. \A x \in WorkerId : (chain[x][u] # <<>> \/ memory[x][u] # Unknown)
                            => (Route(u) \in Owns(x))'
  BY <1>1, <1>4 DEF UserInv, ChainInv, MemoryInv, Owns
<1>9. ChainInv(u, a)' /\ PresenceInv(u, a)' /\ MemoryInv(u, a)'
  <2>1. ChainInv(u, a) /\ PresenceInv(u, a) /\ MemoryInv(u, a)
    BY DEF UserInv
  <2> QED BY <1>1, <1>7, <1>8, <2>1, ColumnKeeps
<1> QED BY <1>6, <1>9 DEF UserInv

-----------------------------------------------------------------------------
(***************************************************************************)
(* The invariant is inductive.                                             *)
(***************************************************************************)

\* A step of a running worker changes nothing in the others.
LEMMA OwnerKeeps ==
    ASSUME OwnerInv, spec' = spec, NEW w \in WorkerId, Up(w),
           \A v \in WorkerId \ {w}, u \in User :
             /\ chain'[v][u] = chain[v][u]
             /\ task'[v][u] = task[v][u]
             /\ memory'[v][u] = memory[v][u]
    PROVE  OwnerInv'
<1>1. \A v \in WorkerId : Owns(v)' = Owns(v) /\ Up(v)' = Up(v)
  BY DEF Owns, Up
<1> QED BY <1>1 DEF OwnerInv

\* Only running workers have tasks.
LEMMA BusyIsUp ==
    ASSUME OwnerInv, NEW w \in WorkerId, NEW u \in User,
           chain[w][u] # <<>> \/ task[w][u] # "idle"
    PROVE  Up(w)
BY DEF OwnerInv

\* What the workers and Postgres do by themselves.
LEMMA ProgressKeeps ==
    ASSUME FleetInv, Progress
    PROVE  FleetInv'
<1>1. TopologyInv /\ FleetType /\ OwnerInv /\ \A u \in Clean : \E a \in Nat : UserInv(u, a)
  BY DEF FleetInv
<1>2. UNCHANGED vars /\ early' = early /\ spec' = spec
  BY DEF Progress, Deliver, ReadHint, Lock, Commit, Ack, OrphanEnds
<1>3. TopologyInv' /\ unlisted' = unlisted /\ Clean' = Clean
  BY <1>1, <1>2, TopologyNext DEF Clean, vars
<1>4. \A u \in Clean : u \in User /\ unlisted = 0
  BY DEF Clean
<1>5. ASSUME NEW w \in WorkerId, NEW p \in AllPartitions, Deliver(w, p)
      PROVE  FleetInv'
  <2>1. FleetType'
    BY <1>1, <1>5, DeliverType
  <2>2. OwnerInv'
    <3>1. Up(w) /\ task' = task /\ memory' = memory
      BY <1>5 DEF Deliver
    <3>2. PICK i \in DOMAIN queue[p] :
            chain' = [chain EXCEPT ![w][queue[p][i][1]] = Append(@, queue[p][i][2])]
      BY <1>5 DEF Deliver
    <3>3. \A v \in WorkerId \ {w} : chain'[v] = chain[v]
      BY <1>1, <3>2 DEF FleetType
    <3> QED BY <1>1, <1>2, <3>1, <3>3, OwnerKeeps
  <2>3. \A u \in Clean : \E a \in Nat : UserInv(u, a)'
    BY <1>1, <1>4, <1>5, DeliverUser
  <2> QED BY <1>3, <2>1, <2>2, <2>3 DEF FleetInv
<1>6. ASSUME NEW w \in WorkerId, NEW v \in User,
             ReadHint(w, v) \/ Lock(w, v) \/ Commit(w, v)
      PROVE  FleetInv'
  <2>1. FleetType'
    BY <1>1, <1>6, TaskType
  <2>2. OwnerInv'
    <3>1. Up(w)
      BY <1>1, <1>6, BusyIsUp DEF ReadHint, Lock, Commit
    <3>2. chain' = chain
      BY <1>6 DEF ReadHint, Lock, Commit
    <3>3. \A x \in WorkerId \ {w} : task'[x] = task[x] /\ memory'[x] = memory[x]
      BY <1>1, <1>6 DEF FleetType, ReadHint, Lock, Commit
    <3> QED BY <1>1, <1>2, <3>1, <3>2, <3>3, OwnerKeeps
  <2>3. ASSUME NEW u \in Clean PROVE \E a \in Nat : UserInv(u, a)'
    <3>1. PICK a \in Nat : UserInv(u, a)
      BY <1>1
    <3>2. CASE u = v
      BY <1>1, <1>6, <3>1, <3>2, ReadHintUser, LockUser, CommitUser
    <3>3. CASE u # v
      BY <1>1, <1>4, <1>6, <3>1, <3>3, OtherUser
    <3> QED BY <3>2, <3>3
  <2> QED BY <1>3, <2>1, <2>2, <2>3 DEF FleetInv
<1>7. ASSUME NEW w \in WorkerId, NEW v \in User, Ack(w, v)
      PROVE  FleetInv'
  <2>1. FleetType'
    BY <1>1, <1>7, AckType
  <2>2. OwnerInv'
    <3>1. Up(w) /\ memory' = memory
      BY <1>1, <1>7, BusyIsUp DEF Ack
    <3>2. \A x \in WorkerId \ {w} : task'[x] = task[x] /\ chain'[x] = chain[x]
      BY <1>1, <1>7 DEF FleetType, Ack
    <3> QED BY <1>1, <1>2, <3>1, <3>2, OwnerKeeps
  <2>3. ASSUME NEW u \in Clean PROVE \E a \in Nat : UserInv(u, a)'
    <3>1. PICK a \in Nat : UserInv(u, a)
      BY <1>1
    <3>2. CASE u = v
      <4>1. UserInv(u, a + 1)' /\ a + 1 \in Nat
        BY <1>1, <1>7, <3>1, <3>2, AckUser
      <4> QED BY <4>1
    <3>3. CASE u # v
      BY <1>1, <1>4, <1>7, <3>1, <3>3, AckOther
    <3> QED BY <3>2, <3>3
  <2> QED BY <1>3, <2>1, <2>2, <2>3 DEF FleetInv
<1>8. ASSUME NEW v \in User, OrphanEnds(v)
      PROVE  FleetInv'
  <2>1. /\ queue' = queue /\ sent' = sent /\ chain' = chain /\ task' = task /\ memory' = memory
        /\ \A u \in User \ {v} : txn'[u] = txn[u] /\ presence'[u] = presence[u]
        /\ DOMAIN txn' = User /\ DOMAIN presence' = User
    BY <1>1, <1>8 DEF OrphanEnds, FleetType
  <2>2. FleetType'
    BY <1>1, <1>2, <2>1 DEF FleetType
  <2>3. OwnerInv'
    BY <1>1, <1>2, <2>1 DEF OwnerInv, Owns, Up
  <2>4. ASSUME NEW u \in Clean PROVE \E a \in Nat : UserInv(u, a)'
    <3>1. PICK a \in Nat : UserInv(u, a)
      BY <1>1
    <3>2. CASE u = v
      BY <1>1, <1>8, <3>1, <3>2, OrphanUser
    <3>3. CASE u # v
      BY <1>1, <1>2, <1>4, <2>1, <3>1, <3>3, OtherKeeps
    <3> QED BY <3>2, <3>3
  <2> QED BY <1>3, <2>2, <2>3, <2>4 DEF FleetInv
<1> QED BY <1>5, <1>6, <1>7, <1>8 DEF Progress

\* Jobs, the API and the life of the worker processes.
LEMMA DeploymentKeeps ==
    ASSUME FleetInv,
           \/ Next /\ UNCHANGED fleetVars
           \/ ApiBoots
           \/ \E u \in User : Publish(u)
           \/ \E w \in WorkerId : Stop(w) \/ Crash(w) \/ \E s \in PartitionSpecs : Boot(w, s)
    PROVE  FleetInv'
<1>1. TopologyInv /\ FleetType /\ OwnerInv /\ \A u \in Clean : \E a \in Nat : UserInv(u, a)
  BY DEF FleetInv
<1>2. \A u \in Clean : u \in User /\ unlisted = 0
  BY DEF Clean
<1>3. CASE Next /\ UNCHANGED fleetVars
  <2>1. TopologyInv'
    BY <1>1, <1>3, TopologyNext
  <2>2. FleetType'
    BY <1>1, <1>3 DEF fleetVars, FleetType, AllPartitions
  <2>3. OwnerInv'
    BY <1>1, <1>3 DEF fleetVars, OwnerInv, Owns, Up
  <2>4. unlisted' = 0 => unlisted = 0
    BY <1>1, <1>3 DEF Next, Begin, Request, RequestFails, Listing, TopologyInv, TopologyType
  <2>5. \A u \in Clean' : u \in Clean /\ u \in User /\ unlisted' = 0
    BY <1>3, <2>4 DEF Clean, fleetVars
  <2>6. ASSUME NEW u \in Clean' PROVE \E a \in Nat : UserInv(u, a)'
    <3>1. PICK a \in Nat : UserInv(u, a)
      BY <1>1, <2>5
    <3>2. UserInv(u, a)'
      BY <1>1, <1>3, <2>1, <2>5, <3>1, JobUser
    <3> QED BY <3>2
  <2> QED BY <2>1, <2>2, <2>3, <2>6 DEF FleetInv
<1>4. ASSUME UNCHANGED vars, early' = early
      PROVE  TopologyInv' /\ Clean' = Clean
  BY <1>1, <1>4, TopologyNext DEF Clean, vars
<1>5. CASE ApiBoots
  <2>1. /\ UNCHANGED vars /\ early' = early /\ spec' = spec /\ queue' = queue /\ sent' = sent
        /\ chain' = chain /\ task' = task /\ memory' = memory /\ txn' = txn
        /\ presence' = presence
    BY <1>5 DEF ApiBoots
  <2>2. FleetType' /\ OwnerInv'
    BY <1>1, <2>1 DEF FleetType, OwnerInv, Owns, Up
  <2>3. ASSUME NEW u \in Clean PROVE \E a \in Nat : UserInv(u, a)'
    <3>1. PICK a \in Nat : UserInv(u, a)
      BY <1>1
    <3>2. UserInv(u, a)'
      BY <1>1, <1>2, <2>1, <3>1, OtherKeeps
    <3> QED BY <3>2
  <2> QED BY <1>4, <2>1, <2>2, <2>3 DEF FleetInv
<1>6. ASSUME NEW v \in User, Publish(v)
      PROVE  FleetInv'
  <2>1. FleetType'
    BY <1>1, <1>6, PublishType
  <2>2. /\ UNCHANGED vars /\ spec' = spec /\ chain' = chain /\ task' = task /\ memory' = memory
        /\ early \subseteq early'
    BY <1>6 DEF Publish
  <2>3. OwnerInv'
    BY <1>1, <2>2 DEF OwnerInv, Owns, Up
  <2>4. TopologyInv' /\ unlisted' = unlisted
    BY <1>1, <2>2, TopologyNext DEF vars
  <2>5. \A u \in Clean' : u \in Clean /\ u \notin early'
    BY <2>2, <2>4 DEF Clean
  <2>6. ASSUME NEW u \in Clean' PROVE \E a \in Nat : UserInv(u, a)'
    <3>1. PICK a \in Nat : UserInv(u, a)
      BY <1>1, <2>5
    <3>2. UserInv(u, a)'
      BY <1>1, <1>2, <1>6, <2>5, <3>1, PublishUser
    <3> QED BY <3>2
  <2> QED BY <2>1, <2>3, <2>4, <2>6 DEF FleetInv
<1>7. ASSUME NEW w \in WorkerId, Stop(w) \/ Crash(w)
      PROVE  FleetInv'
  <2>1. UNCHANGED vars /\ early' = early
    BY <1>7 DEF Stop, Crash
  <2>2. FleetType' /\ OwnerInv'
    BY <1>1, <1>7, ForgottenType, ForgottenOwner
  <2>3. \A u \in Clean : \E a \in Nat : UserInv(u, a)'
    BY <1>1, <1>2, <1>7, ForgottenUser
  <2> QED BY <1>4, <2>1, <2>2, <2>3 DEF FleetInv
<1>8. ASSUME NEW w \in WorkerId, NEW s \in PartitionSpecs, Boot(w, s)
      PROVE  FleetInv'
  <2>1. /\ UNCHANGED vars /\ early' = early /\ queue' = queue /\ sent' = sent /\ chain' = chain
        /\ task' = task /\ memory' = memory /\ txn' = txn /\ presence' = presence
        /\ spec' = [spec EXCEPT ![w] = s]
    BY <1>8 DEF Boot
  <2>2. FleetType'
    BY <1>1, <2>1 DEF FleetType
  <2>3. OwnerInv'
    BY <1>1, <1>8, BootOwner
  <2>4. \A u \in Clean : \E a \in Nat : UserInv(u, a)'
    BY <1>1, <1>2, <1>8, BootUser
  <2> QED BY <1>4, <2>1, <2>2, <2>3, <2>4 DEF FleetInv
<1> QED BY <1>3, <1>5, <1>6, <1>7, <1>8

\* Before the first deployment nobody has sent, holds or remembers anything.
LEMMA FleetInitInv == FleetInit => FleetInv
<1> SUFFICES ASSUME FleetInit PROVE FleetInv
  OBVIOUS
<1>1. TopologyInv /\ settled = {}
  BY TopologyInit DEF FleetInit, Init
<1>2. /\ sent = [u \in User |-> 0] /\ early = {}
      /\ queue = [p \in AllPartitions |-> <<>>]
      /\ spec = [w \in WorkerId |-> <<>>]
      /\ chain = [w \in WorkerId |-> NoChains]
      /\ task = [w \in WorkerId |-> Idle]
      /\ memory = [w \in WorkerId |-> NoMemory]
      /\ txn = [u \in User |-> NoTxn]
      /\ presence = [u \in User |-> {}]
  BY DEF FleetInit
<1>3. \A w \in WorkerId, u \in User :
        chain[w][u] = <<>> /\ task[w][u] = "idle" /\ memory[w][u] = Unknown
  BY <1>2 DEF NoChains, Idle, NoMemory
<1>4. FleetType
  <2>1. queue \in [AllPartitions -> Seq(User \X Nat)]
    BY <1>2
  <2>2. chain \in [WorkerId -> [User -> Seq(Nat)]]
    BY <1>2 DEF NoChains
  <2>3. /\ task \in [WorkerId -> [User -> {"idle", "hinted", "locked", "done"}]]
        /\ DOMAIN memory = WorkerId /\ \A w \in WorkerId : DOMAIN memory[w] = User
    BY <1>2 DEF Idle, NoMemory
  <2> QED BY <1>2, <1>3, <2>1, <2>2, <2>3 DEF FleetType
<1>5. OwnerInv
  <2>1. \A w \in WorkerId : Owns(w) = {}
    BY <1>2, DownOwnsNothing DEF Owns
  <2> QED BY <1>3, <2>1 DEF OwnerInv
<1>6. ASSUME NEW u \in User PROVE UserInv(u, 0)
  <2>1. sent[u] = 0 /\ txn[u] = NoTxn /\ presence[u] = {} /\ (0 + 1)..sent[u] = {}
    BY <1>2
  <2>2. \A p \in AllPartitions : queue[p] = <<>> /\ DOMAIN queue[p] = {}
    BY <1>2
  <2>3. QueueInv(u, 0)
    BY <2>1, <2>2 DEF QueueInv
  <2>4. ChainInv(u, 0)
    BY <1>3, <2>1 DEF ChainInv
  <2>5. PresenceInv(u, 0) /\ MemoryInv(u, 0)
    BY <1>3, <2>1 DEF PresenceInv, MemoryInv, Effective
  <2> QED BY <2>3, <2>4, <2>5 DEF UserInv
<1>7. \A u \in Clean : \E a \in Nat : UserInv(u, a)
  BY <1>6 DEF Clean
<1> QED BY <1>1, <1>4, <1>5, <1>7 DEF FleetInv

\* Every step of the deployment keeps the invariant.
LEMMA FleetNextInv == FleetInv /\ [FleetNext]_allVars => FleetInv'
<1> SUFFICES ASSUME FleetInv, [FleetNext]_allVars PROVE FleetInv'
  OBVIOUS
<1>1. CASE FleetNext
  <2>1. CASE Progress
    BY <2>1, ProgressKeeps
  <2>2. CASE ~Progress
    <3>1. \/ Next /\ UNCHANGED fleetVars
          \/ ApiBoots
          \/ \E u \in User : Publish(u)
          \/ \E w \in WorkerId : Stop(w) \/ Crash(w) \/ \E s \in PartitionSpecs : Boot(w, s)
      BY <1>1, <2>2 DEF FleetNext
    <3> QED BY <3>1, DeploymentKeeps
  <2> QED BY <2>1, <2>2
<1>2. CASE UNCHANGED allVars
  <2>1. UNCHANGED vars /\ UNCHANGED fleetVars
    BY <1>2 DEF allVars
  <2>2. TopologyInv' /\ unlisted' = unlisted /\ Clean' = Clean
    BY <2>1, TopologyNext DEF FleetInv, Clean, fleetVars, vars
  <2>3. FleetType' /\ OwnerInv'
    BY <2>1 DEF FleetInv, fleetVars, FleetType, OwnerInv, Owns, Up, AllPartitions
  <2>4. ASSUME NEW u \in Clean PROVE \E a \in Nat : UserInv(u, a)'
    <3>1. PICK a \in Nat : UserInv(u, a)
      BY DEF FleetInv
    <3>2. UserInv(u, a)'
      BY <2>1, <3>1, OtherKeeps DEF FleetInv, Clean, fleetVars
    <3> QED BY <3>2
  <2> QED BY <2>2, <2>3, <2>4 DEF FleetInv
<1> QED BY <1>1, <1>2

\* In every reachable state of the deployment the invariant holds.
LEMMA FleetAlways == FleetSpec => []FleetInv
BY FleetInitInv, FleetNextInv, PTL DEF FleetSpec

-----------------------------------------------------------------------------
(***************************************************************************)
(* What the deployment promises.                                           *)
(***************************************************************************)

\* With no event of u queued, all of its events are acked.
LEMMA NothingQueued ==
    ASSUME FleetInv, NEW u \in Steady, ~Queued(u), NEW a \in Nat, UserInv(u, a)
    PROVE  u \in User /\ a = sent[u]
<1>1. u \in User /\ unlisted = 0 /\ TopologyInv /\ sent[u] \in Nat /\ QueueInv(u, a)
  BY DEF Steady, FleetInv, FleetType, UserInv
<1>2. ASSUME a < sent[u] PROVE FALSE
  <2>1. Route(u) \in AllPartitions /\ sent[u] \in (a + 1)..sent[u]
    BY <1>1, <1>2, RouteOfClean
  <2>2. PICK i \in DOMAIN queue[Route(u)] : queue[Route(u)][i] = <<u, sent[u]>>
    BY <1>1, <2>1 DEF QueueInv
  <2>3. queue[Route(u)][i][1] = u
    BY <2>2
  <2> QED BY <2>1, <2>3 DEF Queued
<1>3. a <= sent[u]
  BY <1>1 DEF QueueInv
<1> QED BY <1>1, <1>2, <1>3

\* Whatever jobs ran, failed halfway or had another count, the partitions bound
\* when a job first succeeded are the hash ring for good, as long as every
\* listing answered (the guard of declare-topology.sh).
THEOREM RingIsImmutable == FleetSpec => []RoutingStable
<1>1. FleetInv => RoutingStable
  BY DEF FleetInv, TopologyInv, ListedInv, RoutingStable
<1> QED BY <1>1, FleetAlways, PTL

\* A job that exits 0 has left the partitions 0..N-1 bound and the dead-letter
\* path in place, for every count.
THEOREM SuccessIsComplete == FleetSpec => []SuccessMeansComplete
<1>1. FleetInv => SuccessMeansComplete
  <2> SUFFICES ASSUME FleetInv, job = "ok" PROVE SuccessMeansComplete
    BY DEF SuccessMeansComplete
  <2>1. TopologyType /\ JobInv /\ OrderInv /\ ListedInv
    BY DEF FleetInv, TopologyInv
  <2>2. n \in Counts
    BY <2>1 DEF TopologyType
  <2>3. \A i \in 1..Len(Requests(n)) : Requests(n)[i] \in broker
    BY <2>1 DEF JobInv
  <2>4. /\ 0..(n - 1) \subseteq {x[2] : x \in {y \in broker : y[1] = "binding"}}
        /\ ToSet(DeadLetterPath) \union {Policy} \subseteq broker
    BY <2>2, <2>3, Complete
  <2>5. 0..(n - 1) \subseteq BoundPartitions /\ BoundPartitions \subseteq Partitions
    BY <2>1, <2>4 DEF BoundPartitions, OrderInv
  <2>6. unlisted = 0 => Partitions \subseteq 0..(n - 1)
    BY <2>1 DEF ListedInv
  <2> QED BY <2>4, <2>5, <2>6 DEF SuccessMeansComplete
<1> QED BY <1>1, FleetAlways, PTL

\* The policy that dead-letters is never in force without the whole path to
\* loc.dead behind it, also when jobs fail halfway.
THEOREM DeadLettersHaveAPlace == FleetSpec => []DeadLettersKept
<1>1. FleetInv => DeadLettersKept
  BY DEF FleetInv, TopologyInv, OrderInv
<1> QED BY <1>1, FleetAlways, PTL

\* For any number of users, workers, events and crashes: once a user's events are
\* all acked, Postgres has the areas of the last one.
THEOREM LastWins == FleetSpec => []LastEventWins
<1>1. FleetInv => LastEventWins
  <2> SUFFICES ASSUME FleetInv, NEW u \in Steady, sent[u] > 0, ~Queued(u)
               PROVE  presence[u] = Areas[u][sent[u]]
    BY DEF LastEventWins
  <2>1. PICK a \in Nat : UserInv(u, a)
    BY DEF FleetInv, Steady, Clean
  <2>2. a = sent[u]
    BY <2>1, NothingQueued
  <2> QED BY <2>1, <2>2 DEF UserInv, PresenceInv
<1> QED BY <1>1, FleetAlways, PTL

\* A running worker's memory of a user with no event under way is what Postgres
\* holds, whoever owned the partition in between.
THEOREM MemoryStaysCurrent == FleetSpec => []MemoryIsCurrent
<1>1. FleetInv => MemoryIsCurrent
  <2> SUFFICES ASSUME FleetInv, NEW w \in WorkerId, NEW u \in Steady,
                      memory[w][u] # Unknown, ~Queued(u)
               PROVE  memory[w][u] = presence[u]
    BY DEF MemoryIsCurrent
  <2>1. PICK a \in Nat : UserInv(u, a)
    BY DEF FleetInv, Steady, Clean
  <2>2. u \in User /\ a = sent[u]
    BY <2>1, NothingQueued
  <2>3. task[w][u] \notin {"hinted", "locked"}
    <3> SUFFICES ASSUME chain[w][u] # <<>> PROVE FALSE
      BY <2>2 DEF FleetInv, FleetType
    <3>1. a < sent[u] /\ sent[u] \in Nat
      BY <2>1, <2>2, HeadOfChain DEF FleetInv, FleetType, UserInv
    <3> QED BY <2>2, <3>1
  <2> QED BY <2>1, <2>3 DEF UserInv, MemoryInv
<1> QED BY <1>1, FleetAlways, PTL
=============================================================================
