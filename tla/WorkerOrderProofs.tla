------------------------- MODULE WorkerOrderProofs --------------------------
(***************************************************************************)
(* Theorems about what the worker's events add up to: where its users end  *)
(* up and what is logged of their visits.  They rest on the order in which *)
(* a user's events are done, so the invariants build on each other, and on *)
(* SerialInv and MemoryInv of WorkerProofs:                                *)
(*   OrderInv   a message is in one place; at prefetch 1, or with one crash *)
(*              and no nack, a user's events are delivered, settled and    *)
(*              read in the order of arrival.                              *)
(*   CurFits    a report past its gates holds its position's areas.        *)
(*   OutcomesExplained  an event is acked for a reason; if the seqs are in *)
(*              order the map claims only what is done.                    *)
(*   LateDiscarded  where nacks break the order, the map lets no event past *)
(*              the gate behind a later one that is done.                  *)
(*   PlaceInv   the table holds the position of a user's latest event, or  *)
(*              that event was dropped or discarded.                       *)
(*   VisitInv   table and log hold what a user's events up to some arrival *)
(*              make of them, all of them done but perhaps the last.       *)
(***************************************************************************)
EXTENDS WorkerProofs

-----------------------------------------------------------------------------
(***************************************************************************)
(* The order of a user's events.                                           *)
(***************************************************************************)

\* Events the worker can use: readable and accurate enough.
Usable == Msg \ (Malformed \union Inaccurate)

\* The pairs of usable events of one user, in the order of arrival.
Earlier ==
    {p \in Usable \X Usable :
       /\ UserOf[p[1]] = UserOf[p[2]]
       /\ \E i, j \in DOMAIN arrival : i < j /\ arrival[i] = p[1] /\ arrival[j] = p[2]}

\* In the queue, delivered or not, and not settled.
Waiting == ToSet(ready) \union ToSet(returns)
Out == Waiting \union ToSet(unacked)

\* Every message of the partition is in one place.
Placed ==
    /\ IsInjective(arrival)
    /\ ToSet(arrival) = Out \union acked \union dead
    /\ Out \intersect acked = {} /\ Out \intersect dead = {} /\ acked \intersect dead = {}

\* Without an error only unusable events are nacked, and without a crash only
\* they come back.
OnlyUnusableReturn ==
    faults + lost = 0 =>
      /\ \A i \in DOMAIN wire : wire[i].msg \in Usable => wire[i].type = "ack"
      /\ crashes = 0 => ToSet(returns) \intersect Usable = {}

\* At prefetch 1 the message that is out is the only one.
OneOut == Prefetch = 1 => Len(unacked) + Len(returns) <= 1

FramesInOrder ==
    \A i, j \in DOMAIN wire : i < j => <<wire[j].msg, wire[i].msg>> \notin Earlier
\* A user's events are delivered, settled and read in the order of arrival.
InOrder ==
    /\ Sorted(ready, Earlier) /\ Sorted(returns, Earlier) /\ Sorted(unacked, Earlier)
    /\ FramesInOrder
    /\ \A x, y \in Msg : <<x, y>> \in Earlier =>
         /\ y \in ToSet(unacked) => x \notin Waiting
         /\ y \in ToSet(returns) => x \notin ToSet(ready)
         /\ y \in Framed => x \notin Tasks
         /\ y \in acked => x \notin Out

\* What keeps them in order: one message at a time, or one crash and no nack.
OrderKept == Prefetch = 1 \/ (faults + lost = 0 /\ crashes <= 1)

OrderInv == Placed /\ OnlyUnusableReturn /\ OneOut /\ (OrderKept => InOrder)

-----------------------------------------------------------------------------

\* With no repetitions the order of arrival orders a user's usable events strictly
\* and totally.
LEMMA EarlierOrder ==
    ASSUME arrival \in Seq(Msg), IsInjective(arrival)
    PROVE  /\ \A x, y : <<x, y>> \in Earlier =>
                /\ x \in Usable /\ y \in Usable /\ UserOf[x] = UserOf[y]
                /\ x \in ToSet(arrival) /\ y \in ToSet(arrival)
           /\ \A x : <<x, x>> \notin Earlier
           /\ \A x, y : <<x, y>> \in Earlier => <<y, x>> \notin Earlier
           /\ \A x, y, z : <<x, y>> \in Earlier /\ <<y, z>> \in Earlier => <<x, z>> \in Earlier
           /\ \A x, y \in ToSet(arrival) \intersect Usable :
                UserOf[x] = UserOf[y] => x = y \/ <<x, y>> \in Earlier \/ <<y, x>> \in Earlier
<1>1. DOMAIN arrival \subseteq Nat
  BY LenProperties
<1>2. \A x, y : <<x, y>> \in Earlier <=>
        /\ x \in Usable /\ y \in Usable /\ UserOf[x] = UserOf[y]
        /\ \E i, j \in DOMAIN arrival : i < j /\ arrival[i] = x /\ arrival[j] = y
  BY DEF Earlier
<1>3. ASSUME NEW x, NEW y, <<x, y>> \in Earlier
      PROVE  x \in ToSet(arrival) /\ y \in ToSet(arrival) /\ x # y /\ <<y, x>> \notin Earlier
  <2>1. PICK i, j \in DOMAIN arrival : i < j /\ arrival[i] = x /\ arrival[j] = y
    BY <1>2, <1>3
  <2>2. ASSUME NEW k \in DOMAIN arrival, NEW l \in DOMAIN arrival, k < l,
               arrival[k] = y, arrival[l] = x
        PROVE  FALSE
    <3>1. k = j /\ l = i
      BY <2>1, <2>2 DEF IsInjective
    <3> QED BY <1>1, <2>1, <2>2, <3>1
  <2>3. x # y
    BY <1>1, <2>1 DEF IsInjective
  <2> QED BY <1>2, <2>1, <2>2, <2>3 DEF ToSet
<1>4. ASSUME NEW x, NEW y, NEW z, <<x, y>> \in Earlier, <<y, z>> \in Earlier
      PROVE  <<x, z>> \in Earlier
  <2>1. PICK i, j \in DOMAIN arrival : i < j /\ arrival[i] = x /\ arrival[j] = y
    BY <1>2, <1>4
  <2>2. PICK k, l \in DOMAIN arrival : k < l /\ arrival[k] = y /\ arrival[l] = z
    BY <1>2, <1>4
  <2>3. k = j
    BY <2>1, <2>2 DEF IsInjective
  <2>4. i < l
    BY <1>1, <2>1, <2>2, <2>3
  <2>5. x \in Usable /\ z \in Usable /\ UserOf[x] = UserOf[z]
    BY <1>2, <1>4
  <2> QED BY <1>2, <2>1, <2>2, <2>4, <2>5
<1>5. ASSUME NEW x \in ToSet(arrival) \intersect Usable, NEW y \in ToSet(arrival) \intersect Usable,
             UserOf[x] = UserOf[y]
      PROVE  x = y \/ <<x, y>> \in Earlier \/ <<y, x>> \in Earlier
  <2>1. PICK i \in DOMAIN arrival : arrival[i] = x
    BY DEF ToSet
  <2>2. PICK j \in DOMAIN arrival : arrival[j] = y
    BY DEF ToSet
  <2>3. i = j \/ i < j \/ j < i
    BY <1>1
  <2> QED BY <1>2, <1>5, <2>1, <2>2, <2>3
<1> QED BY <1>2, <1>3, <1>4, <1>5

\* Appending a frame to the wire, and reading one off it.
LEMMA FramesAppend ==
    ASSUME wire \in Seq(Frame), NEW f \in Frame, wire' = Append(wire, f)
    PROVE  /\ \A i \in DOMAIN wire' : \/ i \in DOMAIN wire /\ wire'[i] = wire[i]
                                      \/ wire'[i] = f
           /\ (/\ FramesInOrder /\ Earlier' = Earlier
               /\ \A x \in Framed : <<f.msg, x>> \notin Earlier) => FramesInOrder'
<1>1. /\ Len(wire) \in Nat /\ DOMAIN wire = 1..Len(wire)
      /\ DOMAIN wire' = 1..(Len(wire) + 1)
      /\ \A i \in 1..Len(wire) : wire'[i] = wire[i]
      /\ wire'[Len(wire) + 1] = f
  BY LenProperties, AppendProperties
<1>2. \A i \in DOMAIN wire' : \/ i \in DOMAIN wire /\ wire'[i] = wire[i]
                              \/ i = Len(wire) + 1 /\ wire'[i] = f
  BY <1>1
<1>3. ASSUME FramesInOrder, Earlier' = Earlier, \A x \in Framed : <<f.msg, x>> \notin Earlier
      PROVE  FramesInOrder'
  <2> SUFFICES ASSUME NEW i \in DOMAIN wire', NEW j \in DOMAIN wire', i < j
               PROVE  <<wire'[j].msg, wire'[i].msg>> \notin Earlier
    BY <1>3 DEF FramesInOrder
  <2>1. i \in DOMAIN wire /\ wire'[i] = wire[i]
    BY <1>1
  <2>2. wire[i].msg \in Framed
    BY <2>1 DEF Framed
  <2> QED BY <1>2, <1>3, <2>1, <2>2 DEF FramesInOrder
<1> QED BY <1>2, <1>3

\* Reading the first frame leaves the others in order, and none of them precedes it.
LEMMA FramesTail ==
    ASSUME wire \in Seq(Frame), wire # <<>>, wire' = Tail(wire)
    PROVE  /\ 1 \in DOMAIN wire /\ Head(wire) = wire[1]
           /\ \A i \in DOMAIN wire' : i + 1 \in DOMAIN wire /\ wire'[i] = wire[i + 1]
           /\ FramesInOrder /\ Earlier' = Earlier =>
                /\ FramesInOrder'
                /\ \A x \in Framed' : <<x, Head(wire).msg>> \notin Earlier
<1>1. /\ Len(wire) \in Nat /\ Len(wire) >= 1 /\ DOMAIN wire = 1..Len(wire)
      /\ Head(wire) = wire[1]
      /\ DOMAIN wire' = 1..(Len(wire) - 1)
      /\ \A i \in 1..(Len(wire) - 1) : wire'[i] = wire[i + 1]
  BY LenProperties, EmptySeq, HeadTailProperties
<1>2. \A i \in DOMAIN wire' : /\ i \in Nat /\ i + 1 \in DOMAIN wire /\ 1 < i + 1
                              /\ wire'[i] = wire[i + 1]
  BY <1>1
<1>3. 1 \in DOMAIN wire
  BY <1>1
<1>4. ASSUME FramesInOrder, Earlier' = Earlier
      PROVE  /\ FramesInOrder'
             /\ \A x \in Framed' : <<x, Head(wire).msg>> \notin Earlier
  <2>1. \A i, j \in DOMAIN wire' : i < j => i + 1 < j + 1
    BY <1>2
  <2>2. FramesInOrder'
    BY <1>2, <1>4, <2>1 DEF FramesInOrder
  <2>3. \A x \in Framed' : <<x, Head(wire).msg>> \notin Earlier
    BY <1>1, <1>2, <1>3, <1>4 DEF FramesInOrder, Framed
  <2> QED BY <2>2, <2>3
<1> QED BY <1>1, <1>2, <1>3, <1>4

-----------------------------------------------------------------------------
(***************************************************************************)
(* Every action keeps the order.                                           *)
(***************************************************************************)

\* A step that moves no message.
LEMMA NothingMoves ==
    ASSUME Placed, OneOut, UNCHANGED <<arrival, ready, returns, unacked, acked, dead>>
    PROVE  Placed' /\ OneOut' /\ Earlier' = Earlier /\ Waiting' = Waiting /\ Out' = Out
<1>1. Earlier' = Earlier
  BY DEF Earlier
<1>2. Waiting' = Waiting
  BY DEF Waiting
<1>3. Out' = Out
  BY <1>2 DEF Out
<1>4. Placed'
  BY <1>3 DEF Placed, IsInjective
<1>5. OneOut'
  BY DEF OneOut
<1> QED BY <1>1, <1>2, <1>3, <1>4, <1>5

\* Where the messages are.
LEMMA MessagesOut ==
    ASSUME SerialInv
    PROVE  /\ ToSet(ready) \subseteq Msg /\ ToSet(returns) \subseteq Msg /\ ToSet(unacked) \subseteq Msg
           /\ ToSet(arrival) \subseteq Msg
           /\ Framed \subseteq ToSet(unacked) /\ Framed \subseteq Msg
           /\ Tasks \subseteq ToSet(unacked) /\ Tasks \subseteq Msg
<1>1. \A s \in Seq(Msg) : ToSet(s) \subseteq Msg
  BY ElementOfSeq, LenProperties DEF ToSet
<1> QED BY <1>1 DEF SerialInv, TypeOK, QueueTypeOK, EveryDeliveryOwned

\* A running task has no earlier task of its user before it.
LEMMA RunnerIsFirst ==
    ASSUME SerialInv, Placed, InOrder, NEW m \in Tasks, after[m] = None, NEW x \in Tasks
    PROVE  <<x, m>> \notin Earlier
<1>1. x \in ToSet(unacked) /\ m \in ToSet(unacked) /\ x \in Msg /\ m \in Msg
  BY DEF SerialInv, EveryDeliveryOwned, Tasks
<1>2. PICK i, j \in DOMAIN unacked : unacked[i] = x /\ unacked[j] = m
  BY <1>1 DEF ToSet
<1>3. DOMAIN unacked \subseteq Nat
  BY LenProperties DEF SerialInv, TypeOK, QueueTypeOK
<1>4. \A z : <<z, z>> \notin Earlier
  BY EarlierOrder DEF SerialInv, TypeOK, QueueTypeOK, Placed
<1>5. SUFFICES ASSUME <<x, m>> \in Earlier PROVE FALSE
  OBVIOUS
<1>6. i < j
  BY <1>2, <1>3, <1>4, <1>5 DEF InOrder, Sorted
<1>7. Precedes(x, m) /\ UserOf[x] = UserOf[m]
  BY <1>2, <1>5, <1>6 DEF Precedes, Earlier
<1> QED BY <1>7 DEF SerialInv, ChainOrder, LaterWaits

\* A task nacks an event that is not accurate, or for an error.
LEMMA NackShape ==
    ASSUME TypeOK, NEW m \in Msg, TaskStep(m) \/ DbFails(m) \/ LostReply(m)
    PROVE  /\ UNCHANGED <<arrival, ready, returns, unacked, acked, dead, crashes>>
           /\ \/ Continues(m)
              \/ TaskEnds(m, "ack")
              \/ TaskEnds(m, "nack") /\ (m \notin Usable \/ faults' + lost' > faults + lost)
           /\ faults' \in Nat /\ lost' \in Nat
           /\ faults' >= faults /\ lost' >= lost
<1>0. faults \in Nat /\ lost \in Nat
  BY DEF TypeOK, BoundTypeOK
<1> DEFINE Shape == \/ Continues(m)
                    \/ TaskEnds(m, "ack")
                    \/ TaskEnds(m, "nack") /\ m \notin Usable
<1>1. ASSUME NEW c, NEW h, NEW seqs, Fork(m, c, h, seqs) PROVE Shape
  <2>1. CASE Finish(m, seqs)
    BY <2>1 DEF Finish
  <2>2. CASE ~Finish(m, seqs)
    BY <1>1, <2>2 DEF Fork, Continues, Busy
  <2> QED BY <2>1, <2>2
<1>2. ASSUME NEW seqs, Gate(m, seqs) PROVE Shape
  <2>1. CASE Discard(m, seqs)
    BY <2>1 DEF Discard
  <2>2. CASE Report(m, seqs)
    <3>1. CASE m \in Inaccurate /\ Fail(m)
      BY <3>1 DEF Fail, Usable
    <3>2. CASE Fork(m, Cover[m] \intersect snapshot, memory[UserOf[m]], seqs)
      BY <1>1, <3>2
    <3>3. CASE pc' = [pc EXCEPT ![m] = "hint"] /\ UNCHANGED <<wire, after, userChains>>
      BY <3>3 DEF Continues, Busy
    <3> QED BY <2>2, <3>1, <3>2, <3>3 DEF Report
  <2> QED BY <1>2, <2>1, <2>2 DEF Gate
<1>3. CASE Start(m)
  <2>1. CASE Gate(m, lastSeqByDevice)
    BY <1>0, <1>2, <1>3, <2>1 DEF Start, taskFrame, boundVars
  <2>2. CASE ~Gate(m, lastSeqByDevice)
    BY <1>0, <1>3, <2>2 DEF Start, taskFrame, boundVars, Continues, Busy
  <2> QED BY <2>1, <2>2
<1>4. CASE SeqLoaded(m)
  BY <1>0, <1>2, <1>4 DEF SeqLoaded, taskFrame, boundVars
<1>5. CASE HintLoaded(m)
  BY <1>0, <1>1, <1>5 DEF HintLoaded, taskFrame, boundVars
<1>6. CASE Commit(m) \/ Reply(m)
  BY <1>0, <1>6 DEF Commit, Reply, queueVars, boundVars, Continues, Busy
<1>7. CASE FkViolation(m) \/ Invalidated(m)
  BY <1>0, <1>7 DEF FkViolation, Invalidated, DropStale, Finish, taskFrame, boundVars
<1>8. CASE DbFails(m)
  BY <1>0, <1>8 DEF DbFails, Fail, taskFrame
<1>9. CASE LostReply(m)
  BY <1>0, <1>9 DEF LostReply, Fail, taskFrame
<1> QED BY <1>3, <1>4, <1>5, <1>6, <1>7, <1>8, <1>9 DEF TaskStep

\* A task that goes on or ends.
LEMMA TaskInOrder ==
    ASSUME SerialInv, OrderInv, NEW m \in Msg, TaskStep(m) \/ DbFails(m) \/ LostReply(m)
    PROVE  OrderInv'
<1>1. m \in Tasks /\ after[m] = None
  BY TaskShape, RunnerWaitsForNone
<1>2. /\ UNCHANGED <<arrival, ready, returns, unacked, acked, dead, crashes>>
      /\ \/ Continues(m)
         \/ TaskEnds(m, "ack")
         \/ TaskEnds(m, "nack") /\ (m \notin Usable \/ faults' + lost' > faults + lost)
      /\ faults' \in Nat /\ lost' \in Nat
      /\ faults' >= faults /\ lost' >= lost
  BY NackShape DEF SerialInv
<1>3. /\ wire \in Seq(Frame) /\ pc \in [Msg -> {"idle", "queued"} \union Busy]
      /\ faults \in Nat /\ lost \in Nat /\ crashes \in Nat
  BY DEF SerialInv, TypeOK, QueueTypeOK, TaskTypeOK, BoundTypeOK
<1>4. Placed' /\ OneOut' /\ Earlier' = Earlier /\ Waiting' = Waiting /\ Out' = Out
  BY <1>2, NothingMoves DEF OrderInv
<1>b. /\ faults' \in Nat /\ lost' \in Nat /\ faults' >= faults /\ lost' >= lost
      /\ faults \in Nat /\ lost \in Nat
  BY <1>2, <1>3
<1>n. \A a, b, c, d \in Nat : (c >= a /\ d >= b /\ c + d = 0) => a + b = 0 /\ ~(c + d > a + b)
  OBVIOUS
<1>5. faults' + lost' = 0 => faults + lost = 0 /\ ~(faults' + lost' > faults + lost)
  BY <1>b, <1>n
<1>6. OrderKept' => OrderKept
  BY <1>2, <1>5 DEF OrderKept
<1>7. CASE Continues(m)
  <2>1. wire' = wire /\ Framed' = Framed
    BY <1>7 DEF Continues, Framed
  <2>2. Tasks' = Tasks
    BY <1>1, <1>3, <1>7 DEF Continues, Tasks, Busy
  <2>3. OnlyUnusableReturn'
    BY <1>2, <1>5, <2>1 DEF OrderInv, OnlyUnusableReturn
  <2>4. ASSUME OrderKept' PROVE InOrder'
    BY <1>2, <1>4, <1>6, <2>1, <2>2, <2>4 DEF OrderInv, InOrder, FramesInOrder
  <2> QED BY <1>4, <2>3, <2>4 DEF OrderInv
<1>8. ASSUME NEW t \in {"ack", "nack"}, TaskEnds(m, t),
             t = "nack" => m \notin Usable \/ faults' + lost' > faults + lost
      PROVE  OrderInv'
  <2> DEFINE f == [type |-> t, msg |-> m]
  <2>1. f \in Frame /\ f.msg = m /\ f.type = t /\ wire' = Append(wire, f)
    BY <1>8 DEF Frame, TaskEnds
  <2> HIDE DEF f
  <2>2. Tasks' = Tasks \ {m}
    BY <1>3, <1>8 DEF TaskEnds, Tasks
  <2>3. Framed' = Framed \union {m}
    <3>1. m \notin Framed
      BY <1>1 DEF SerialInv, EveryDeliveryOwned
    <3> QED BY <1>3, <1>8, <3>1, FramedAppend DEF TaskEnds, SerialInv, EveryDeliveryOwned, FramesDistinct
  <2>4. OnlyUnusableReturn'
    <3> SUFFICES ASSUME faults' + lost' = 0
                 PROVE  /\ \A i \in DOMAIN wire' : wire'[i].msg \in Usable => wire'[i].type = "ack"
                        /\ crashes' = 0 => ToSet(returns') \intersect Usable = {}
      BY DEF OnlyUnusableReturn
    <3>1. faults + lost = 0 /\ (t = "ack" \/ m \notin Usable)
      <4>1. faults + lost = 0 /\ ~(faults' + lost' > faults + lost)
        BY <1>5
      <4> QED BY <1>8, <4>1
    <3>2. \A i \in DOMAIN wire' : (i \in DOMAIN wire /\ wire'[i] = wire[i]) \/ wire'[i] = f
      BY <1>3, <2>1, FramesAppend
    <3> QED BY <1>2, <2>1, <3>1, <3>2 DEF OrderInv, OnlyUnusableReturn
  <2>5. ASSUME OrderKept' PROVE InOrder'
    <3>0. InOrder /\ Placed
      BY <1>6, <2>5 DEF OrderInv
    <3>1. \A x \in Framed : x \in Msg /\ <<m, x>> \notin Earlier
      <4>1. \A x \in Framed : x \in Msg
        BY MessagesOut
      <4> QED BY <1>1, <3>0, <4>1 DEF InOrder
    <3>2. FramesInOrder'
      BY <1>3, <1>4, <2>1, <3>0, <3>1, FramesAppend DEF InOrder
    <3>3. \A x \in Tasks : <<x, m>> \notin Earlier
      BY <1>1, <3>0, RunnerIsFirst
    <3> QED BY <1>2, <1>4, <2>2, <2>3, <3>0, <3>2, <3>3 DEF InOrder
  <2> QED BY <1>4, <2>4, <2>5 DEF OrderInv
<1> QED BY <1>2, <1>7, <1>8

\* What a delivery moves.
LEMMA PushMoves ==
    ASSUME SerialInv, NEW m \in Msg, Push(m)
    PROVE  /\ m \in Waiting /\ m \notin ToSet(unacked)
           /\ Waiting' \subseteq Waiting
           /\ ToSet(unacked') = ToSet(unacked) \union {m} /\ Out' = Out
           /\ ToSet(ready') \subseteq ToSet(ready) /\ ToSet(returns') \subseteq ToSet(returns)
           /\ Len(unacked) + Len(returns) <= 1 /\ Prefetch = 1
                => Len(unacked') + Len(returns') <= 1
           /\ (Sorted(ready, Earlier) /\ Sorted(returns, Earlier)) =>
                /\ Sorted(ready', Earlier) /\ Sorted(returns', Earlier)
                /\ m \in ToSet(ready) =>
                     returns' = <<>> /\ \A x \in ToSet(ready') : <<x, m>> \notin Earlier
                /\ m \in ToSet(returns) => \A x \in ToSet(returns') : <<x, m>> \notin Earlier
<1>1. /\ ready \in Seq(Msg) /\ returns \in Seq(Msg) /\ unacked \in Seq(Msg) /\ InOnePlace
  BY DEF SerialInv, TypeOK, QueueTypeOK
<1>2. m \notin ToSet(unacked)
  BY DequeueSerial
<1>3. ToSet(unacked') = ToSet(unacked) \union {m}
  BY <1>1, AppendSet DEF Push
<1>4. /\ Len(unacked) \in Nat /\ Len(returns) \in Nat /\ Len(unacked') = Len(unacked) + 1
      /\ Len(unacked) < Prefetch
  BY <1>1, LenProperties, AppendProperties DEF Push
<1>5. CASE returns # <<>> /\ m = Head(returns) /\ returns' = Tail(returns) /\ ready' = ready
  <2>1. /\ m \in ToSet(returns) /\ ToSet(returns') = ToSet(returns) \ {m}
    BY <1>1, <1>5, TailSet DEF InOnePlace
  <2>2. Len(returns') = Len(returns) - 1 /\ Len(returns) >= 1
    BY <1>1, <1>5, LenProperties, EmptySeq, HeadTailProperties
  <2>3. m \notin ToSet(ready)
    BY <1>1, <2>1 DEF InOnePlace
  <2>4. Sorted(returns, Earlier) =>
          /\ Sorted(returns', Earlier)
          /\ \A x \in ToSet(returns') : <<x, m>> \notin Earlier
    BY <1>1, <1>5, TailSorted
  <2>5. Out' = Out /\ Waiting' \subseteq Waiting /\ m \in Waiting
    BY <1>3, <1>5, <2>1 DEF Out, Waiting
  <2>6. Len(unacked) + Len(returns) <= 1 => Len(unacked') + Len(returns') <= 1
    BY <1>4, <2>2
  <2> QED BY <1>2, <1>3, <1>5, <2>1, <2>3, <2>4, <2>5, <2>6
<1>6. CASE returns = <<>> /\ ready # <<>> /\ m = Head(ready) /\ ready' = Tail(ready) /\ returns' = returns
  <2>1. /\ m \in ToSet(ready) /\ ToSet(ready') = ToSet(ready) \ {m}
    BY <1>1, <1>6, TailSet DEF InOnePlace
  <2>2. Len(returns') = 0 /\ ToSet(returns) = {}
    BY <1>6 DEF ToSet
  <2>4. Sorted(ready, Earlier) =>
          /\ Sorted(ready', Earlier)
          /\ \A x \in ToSet(ready') : <<x, m>> \notin Earlier
    BY <1>1, <1>6, TailSorted
  <2>5. Out' = Out /\ Waiting' \subseteq Waiting /\ m \in Waiting
    BY <1>3, <1>6, <2>1 DEF Out, Waiting
  <2>6. Prefetch = 1 => Len(unacked') + Len(returns') <= 1
    BY <1>4, <2>2
  <2> QED BY <1>2, <1>3, <1>6, <2>1, <2>2, <2>4, <2>5, <2>6
<1> QED BY <1>5, <1>6 DEF Push, Dequeue

\* A delivery: the oldest message that waits comes after all that are out.
LEMMA DeliverInOrder ==
    ASSUME SerialInv, OrderInv, NEW m \in Msg, Deliver(m)
    PROVE  OrderInv'
<1>0. /\ Push(m) /\ UNCHANGED <<arrival, acked, dead, crashes, faults, lost>>
      /\ unacked' = Append(unacked, m)
  BY DEF Deliver, Push, boundVars
<1>1. /\ m \in Waiting /\ m \notin ToSet(unacked)
      /\ Waiting' \subseteq Waiting
      /\ ToSet(unacked') = ToSet(unacked) \union {m} /\ Out' = Out
      /\ ToSet(ready') \subseteq ToSet(ready) /\ ToSet(returns') \subseteq ToSet(returns)
  BY <1>0, PushMoves
<1>2. OneOut'
  BY <1>0, PushMoves DEF OrderInv, OneOut
<1>3. Earlier' = Earlier /\ Placed'
  BY <1>0, <1>1 DEF OrderInv, Placed, Earlier, IsInjective
<1>4. /\ wire \in Seq(Frame) /\ pc \in [Msg -> {"idle", "queued"} \union Busy]
      /\ unacked \in Seq(Msg)
  BY DEF SerialInv, TypeOK, QueueTypeOK, TaskTypeOK
<1>5. m \notin Framed /\ m \notin Tasks
  BY <1>1, MessagesOut
<1> DEFINE f == [type |-> "nack", msg |-> m]
<1>6. /\ f \in Frame /\ f.msg = m
      /\ \/ wire' = wire /\ Framed' = Framed /\ Tasks' = Tasks \union {m} /\ m \notin Malformed
         \/ /\ wire' = Append(wire, f) /\ Framed' = Framed \union {m}
            /\ Tasks' = Tasks /\ m \in Malformed
  <2>1. f \in Frame /\ f.msg = m
    BY DEF Frame
  <2>2. CASE m \in Malformed
    <3>1. wire' = Append(wire, f) /\ pc' = pc
      BY <2>2 DEF Deliver
    <3>2. Framed' = Framed \union {m}
      BY <1>4, <1>5, <3>1, FramedAppend DEF SerialInv, EveryDeliveryOwned, FramesDistinct
    <3> QED BY <2>1, <2>2, <3>1, <3>2 DEF Tasks
  <2>3. CASE m \notin Malformed
    <3>1. wire' = wire /\ pc' = [pc EXCEPT ![m] = "queued"]
      BY <2>3 DEF Deliver
    <3> QED BY <1>4, <2>1, <2>3, <3>1 DEF Tasks, Framed
  <2> QED BY <2>2, <2>3
<1> HIDE DEF f
<1>7. m \in Malformed => m \notin Usable /\ \A x : <<x, m>> \notin Earlier /\ <<m, x>> \notin Earlier
  BY DEF Usable, Earlier
<1>8. OnlyUnusableReturn'
  <2> SUFFICES ASSUME faults + lost = 0
               PROVE  /\ \A i \in DOMAIN wire' : wire'[i].msg \in Usable => wire'[i].type = "ack"
                      /\ crashes = 0 => ToSet(returns') \intersect Usable = {}
    BY <1>0 DEF OnlyUnusableReturn
  <2>1. \A i \in DOMAIN wire' : \/ i \in DOMAIN wire /\ wire'[i] = wire[i]
                                \/ wire'[i] = f /\ m \notin Usable
    BY <1>4, <1>6, <1>7, FramesAppend
  <2> QED BY <1>1, <1>6, <2>1 DEF OrderInv, OnlyUnusableReturn
<1>9. ASSUME OrderKept' PROVE InOrder'
  <2>0. InOrder
    BY <1>0, <1>9 DEF OrderInv, OrderKept
  <2>1. \A x \in ToSet(unacked) : <<m, x>> \notin Earlier
    BY <1>1, <2>0, MessagesOut DEF InOrder
  <2>2. Sorted(unacked', Earlier)
    BY <1>0, <1>4, <2>0, <2>1, AppendSorted DEF InOrder
  <2>3. /\ Sorted(ready', Earlier) /\ Sorted(returns', Earlier)
        /\ m \in ToSet(ready) =>
             returns' = <<>> /\ \A x \in ToSet(ready') : <<x, m>> \notin Earlier
        /\ m \in ToSet(returns) => \A x \in ToSet(returns') : <<x, m>> \notin Earlier
    BY <1>0, <2>0, PushMoves DEF InOrder
  <2>4. FramesInOrder'
    <3>1. CASE wire' = wire
      BY <1>3, <2>0, <3>1 DEF InOrder, FramesInOrder
    <3>2. CASE m \in Malformed /\ wire' = Append(wire, f)
      BY <1>3, <1>4, <1>6, <1>7, <2>0, <3>2, FramesAppend DEF InOrder
    <3> QED BY <1>6, <3>1, <3>2
  <2>5. \A x : <<x, m>> \in Earlier => x \notin Waiting'
    <3> SUFFICES ASSUME NEW x, <<x, m>> \in Earlier, x \in Waiting' PROVE FALSE
      OBVIOUS
    <3>0. x \in Msg
      BY DEF Earlier, Usable
    <3>1. CASE m \in ToSet(ready)
      <4>1. ToSet(returns') = {}
        BY <2>3, <3>1 DEF ToSet
      <4> QED BY <2>3, <3>1, <4>1 DEF Waiting
    <3>2. CASE m \in ToSet(returns)
      BY <1>1, <2>0, <2>3, <3>0, <3>2 DEF InOrder, Waiting
    <3> QED BY <1>1, <3>1, <3>2 DEF Waiting
  <2>6. ASSUME NEW x \in Msg, NEW y \in Msg, <<x, y>> \in Earlier
        PROVE  /\ y \in ToSet(unacked') => x \notin Waiting'
               /\ y \in ToSet(returns') => x \notin ToSet(ready')
               /\ y \in Framed' => x \notin Tasks'
               /\ y \in acked' => x \notin Out'
    <3>1. /\ y \in ToSet(unacked) => x \notin Waiting
          /\ y \in ToSet(returns) => x \notin ToSet(ready)
          /\ y \in Framed => x \notin Tasks
          /\ y \in acked => x \notin Out
      BY <2>0, <2>6 DEF InOrder
    <3>2. y \in Framed' => x \notin Tasks'
      <4>1. y \in Framed => y \in ToSet(unacked)
        BY MessagesOut
      <4> QED BY <1>1, <1>6, <1>7, <2>6, <3>1, <4>1
    <3> QED BY <1>0, <1>1, <2>5, <2>6, <3>1, <3>2
  <2> QED BY <1>3, <2>2, <2>3, <2>4, <2>6 DEF InOrder
<1> QED BY <1>2, <1>3, <1>8, <1>9 DEF OrderInv

\* The broker settles the delivery of the oldest frame.
LEMMA SettleMoves ==
    ASSUME SerialInv, Settle, NEW d, d = Head(wire).msg
    PROVE  /\ d \in Msg /\ d \in ToSet(unacked) /\ d \in Framed /\ d \notin Tasks
           /\ wire # <<>> /\ wire' = Tail(wire) /\ Framed' = Framed \ {d} /\ Tasks' = Tasks
           /\ ToSet(unacked') = ToSet(unacked) \ {d} /\ Len(unacked') = Len(unacked) - 1
           /\ \E i \in DOMAIN unacked : unacked' = RemoveAt(unacked, i)
           /\ \/ /\ Head(wire).type = "ack"
                 /\ acked' = acked \union {d} /\ returns' = returns
              \/ /\ Head(wire).type = "nack"
                 /\ acked' = acked /\ returns' = Append(returns, d)
           /\ UNCHANGED <<arrival, ready, dead, boundVars, pc, tableVars, processVars, cacheVars, cur, outcomes>>
<1>1. /\ wire # <<>> /\ wire' = Tail(wire)
      /\ UNCHANGED <<arrival, ready, dead, pc, boundVars, tableVars, processVars, cacheVars, cur, outcomes>>
  BY DEF Settle, ReadFrame, chainVars
<1>2. /\ returns \in Seq(Msg) /\ unacked \in Seq(Msg) /\ wire \in Seq(Frame) /\ InOnePlace
  BY DEF SerialInv, TypeOK, QueueTypeOK
<1>3. d \in Framed /\ Framed' = Framed \ {d}
  BY <1>1, <1>2, FramedTail DEF SerialInv, EveryDeliveryOwned, FramesDistinct
<1>4. PICK k \in DOMAIN unacked :
         /\ unacked[k] = d
         /\ unacked' = RemoveAt(unacked, k)
         /\ \/ /\ Head(wire).type = "ack"
               /\ acked' = acked \union {d} /\ returns' = returns
            \/ /\ Head(wire).type = "nack"
               /\ acked' = acked /\ returns' = Append(returns, d)
  BY DEF Settle, ReadFrame
<1>5. d \in ToSet(unacked) /\ d \in Msg
  BY <1>4, MessagesOut DEF ToSet
<1>6. ToSet(unacked') = ToSet(unacked) \ {d}
  BY <1>2, <1>4, RemoveSet DEF InOnePlace
<1>7. Len(unacked') = Len(unacked) - 1
  <2>1. k \in 1..Len(unacked)
    BY <1>2, LenProperties
  <2> QED BY <1>2, <1>4, <2>1, RemoveAtProperties
<1>8. Tasks' = Tasks /\ d \notin Tasks
  BY <1>1, <1>3 DEF Tasks, SerialInv, EveryDeliveryOwned
<1> QED BY <1>1, <1>3, <1>4, <1>5, <1>6, <1>7, <1>8

\* What is settled was the first of its user.
LEMMA SettleInOrder ==
    ASSUME SerialInv, OrderInv, Settle
    PROVE  OrderInv'
<1>0. PICK d : d = Head(wire).msg
  OBVIOUS
<1>1. /\ d \in Msg /\ d \in ToSet(unacked) /\ d \in Framed /\ d \notin Tasks
      /\ wire # <<>> /\ wire' = Tail(wire) /\ Framed' = Framed \ {d} /\ Tasks' = Tasks
      /\ ToSet(unacked') = ToSet(unacked) \ {d} /\ Len(unacked') = Len(unacked) - 1
      /\ \E i \in DOMAIN unacked : unacked' = RemoveAt(unacked, i)
      /\ UNCHANGED <<arrival, ready, dead>>
  BY <1>0, SettleMoves
<1>2. crashes' = crashes /\ faults' = faults /\ lost' = lost
  BY <1>0, SettleMoves DEF boundVars
<1>3. \/ /\ Head(wire).type = "ack"
         /\ acked' = acked \union {d} /\ returns' = returns
      \/ /\ Head(wire).type = "nack"
         /\ acked' = acked /\ returns' = Append(returns, d)
  BY <1>0, SettleMoves
<1>4. /\ wire \in Seq(Frame) /\ unacked \in Seq(Msg) /\ returns \in Seq(Msg) /\ InOnePlace
      /\ arrival \in Seq(Msg)
  BY DEF SerialInv, TypeOK, QueueTypeOK
<1>5. returns' = Append(returns, d) =>
         ToSet(returns') = ToSet(returns) \union {d} /\ Len(returns') = Len(returns) + 1
  BY <1>1, <1>4, AppendSet, AppendProperties
<1>6. Earlier' = Earlier
  BY <1>1 DEF Earlier
<1>7. Placed'
  <2>1. IsInjective(arrival')
    BY <1>1 DEF OrderInv, Placed, IsInjective
  <2>2. /\ ToSet(arrival) = Out \union acked \union dead
        /\ Out \intersect acked = {} /\ Out \intersect dead = {} /\ acked \intersect dead = {}
    BY DEF OrderInv, Placed
  <2>3. CASE acked' = acked \union {d} /\ returns' = returns
    <3>1. Out' = Out \ {d}
      BY <1>1, <1>4, <2>3 DEF Out, Waiting, InOnePlace
    <3>2. d \in Out
      BY <1>1 DEF Out
    <3> QED BY <1>1, <2>1, <2>2, <2>3, <3>1, <3>2 DEF Placed
  <2>4. CASE acked' = acked /\ returns' = Append(returns, d)
    <3>1. Out' = Out
      BY <1>1, <1>5, <2>4 DEF Out, Waiting
    <3> QED BY <1>1, <2>1, <2>2, <2>4, <3>1 DEF Placed
  <2> QED BY <1>3, <2>3, <2>4
<1>8. OneOut'
  <2>1. Len(unacked) \in Nat /\ Len(returns) \in Nat
    BY <1>4, LenProperties
  <2>2. Len(unacked) + Len(returns) <= 1 => Len(unacked') + Len(returns') <= 1
    <3>1. CASE returns' = returns
      BY <1>1, <2>1, <3>1
    <3>2. CASE returns' = Append(returns, d)
      BY <1>1, <1>5, <2>1, <3>2
    <3> QED BY <1>3, <3>1, <3>2
  <2> QED BY <2>2 DEF OrderInv, OneOut
<1>9. /\ 1 \in DOMAIN wire /\ Head(wire) = wire[1]
      /\ \A i \in DOMAIN wire' : i + 1 \in DOMAIN wire /\ wire'[i] = wire[i + 1]
      /\ FramesInOrder =>
           /\ FramesInOrder'
           /\ \A x \in Framed' : <<x, d>> \notin Earlier
  BY <1>0, <1>1, <1>4, <1>6, FramesTail
<1>10. faults + lost = 0 =>
         /\ \A i \in DOMAIN wire : wire[i].msg \in Usable => wire[i].type = "ack"
         /\ crashes = 0 => ToSet(returns) \intersect Usable = {}
  BY DEF OrderInv, OnlyUnusableReturn
<1>11. (faults + lost = 0 /\ returns' = Append(returns, d)) => d \notin Usable \/ returns' = returns
  <2>1. CASE Head(wire).type = "ack"
    BY <1>3, <2>1
  <2>2. CASE Head(wire).type = "nack"
    BY <1>0, <1>9, <1>10, <2>2
  <2> QED BY <1>3, <2>1, <2>2
<1>12. OnlyUnusableReturn'
  BY <1>2, <1>3, <1>5, <1>9, <1>10, <1>11 DEF OnlyUnusableReturn
<1>13. ASSUME OrderKept' PROVE InOrder'
  <2>0. OrderKept /\ InOrder
    BY <1>2, <1>13 DEF OrderInv, OrderKept
  <2>1. FramesInOrder'
    BY <1>9, <2>0 DEF InOrder
  <2>2. Sorted(unacked', Earlier)
    BY <1>1, <1>4, <2>0, RemoveSorted DEF InOrder
  <2>3. /\ Sorted(returns', Earlier)
        /\ \A x \in ToSet(ready) : returns' = Append(returns, d) => <<x, d>> \notin Earlier
    <3>1. \A x \in ToSet(ready) : <<x, d>> \notin Earlier
      BY <1>1, <2>0, MessagesOut DEF InOrder, Waiting
    <3>2. CASE returns' = returns
      BY <2>0, <3>1, <3>2 DEF InOrder
    <3>3. CASE returns' = Append(returns, d) /\ returns' # returns
      <4>1. CASE Prefetch = 1
        <5>1. Len(unacked) \in Nat /\ Len(returns) \in Nat /\ Len(unacked) + Len(returns) <= 1
          BY <1>4, <4>1, LenProperties DEF OrderInv, OneOut
        <5>2. Len(unacked) >= 1
          BY <1>1, <1>4, EmptySeq, <5>1 DEF ToSet
        <5>3. returns' \in Seq(Msg) /\ Len(returns') <= 1
          BY <1>1, <1>4, <1>5, <3>3, <5>1, <5>2, AppendProperties
        <5> QED BY <3>1, <5>3, ShortSorted
      <4>2. CASE faults + lost = 0
        <5>1. \A x : <<d, x>> \notin Earlier
          BY <1>11, <3>3, <4>2 DEF Earlier
        <5>2. Sorted(returns', Earlier)
          BY <1>1, <1>4, <2>0, <3>3, <5>1, AppendSorted DEF InOrder
        <5> QED BY <3>1, <5>2
      <4> QED BY <2>0, <4>1, <4>2 DEF OrderKept
    <3> QED BY <1>3, <3>2, <3>3
  <2>4. ASSUME NEW x \in Msg, NEW y \in Msg, <<x, y>> \in Earlier
        PROVE  /\ y \in ToSet(unacked') => x \notin Waiting'
               /\ y \in ToSet(returns') => x \notin ToSet(ready')
               /\ y \in Framed' => x \notin Tasks'
               /\ y \in acked' => x \notin Out'
    <3>1. /\ y \in ToSet(unacked) => x \notin Waiting
          /\ y \in ToSet(returns) => x \notin ToSet(ready)
          /\ y \in Framed => x \notin Tasks
          /\ y \in acked => x \notin Out
      BY <2>0, <2>4 DEF InOrder
    <3>2. y \in ToSet(unacked') => x \notin Waiting'
      <4> SUFFICES ASSUME y \in ToSet(unacked'), x \in Waiting' PROVE FALSE
        OBVIOUS
      <4>1. x = d /\ returns' = Append(returns, d) /\ returns' # returns
        BY <1>1, <1>3, <1>5, <3>1 DEF Waiting
      <4>2. CASE Prefetch = 1
        <5>1. /\ Len(unacked) \in Nat /\ Len(returns) \in Nat /\ Len(unacked) + Len(returns) <= 1
              /\ unacked' \in Seq(Msg)
          BY <1>1, <1>4, <4>2, LenProperties, RemoveAtProperties DEF OrderInv, OneOut
        <5>2. Len(unacked') <= 0 /\ Len(unacked') \in Nat
          BY <1>1, <5>1, LenProperties
        <5>3. unacked' = <<>>
          BY <5>1, <5>2, EmptySeq
        <5> QED BY <5>3 DEF ToSet
      <4>3. CASE faults + lost = 0
        BY <1>11, <2>4, <4>1, <4>3 DEF Earlier
      <4> QED BY <2>0, <4>2, <4>3 DEF OrderKept
    <3>3. y \in ToSet(returns') => x \notin ToSet(ready')
      BY <1>1, <1>3, <1>5, <2>3, <2>4, <3>1
    <3>4. y \in acked' => x \notin Out'
      <4>1. CASE acked' = acked \union {d} /\ returns' = returns
        <5>1. Out' = Out \ {d} /\ Waiting' = Waiting
          BY <1>1, <1>4, <4>1 DEF Out, Waiting, InOnePlace
        <5>2. CASE y \in acked
          BY <3>1, <5>1, <5>2
        <5>3. CASE y = d
          <6>1. x \notin Waiting /\ x \notin Tasks
            BY <1>1, <3>1, <5>3
          <6>2. x \notin Framed'
            BY <1>9, <2>0, <2>4, <5>3 DEF InOrder
          <6>3. x \notin Framed \/ x = d
            BY <1>1, <6>2
          <6>4. x \notin ToSet(unacked) \/ x = d
            BY <6>1, <6>3 DEF SerialInv, EveryDeliveryOwned
          <6> QED BY <5>1, <6>1, <6>4 DEF Out
        <5> QED BY <4>1, <5>2, <5>3
      <4>2. CASE acked' = acked /\ returns' = Append(returns, d)
        <5>1. Out' = Out
          BY <1>1, <1>5, <4>2 DEF Out, Waiting
        <5> QED BY <3>1, <4>2, <5>1
      <4> QED BY <1>3, <4>1, <4>2
    <3> QED BY <1>1, <3>1, <3>2, <3>3, <3>4
  <2> QED BY <1>1, <1>6, <2>0, <2>1, <2>2, <2>3, <2>4 DEF InOrder
<1> QED BY <1>7, <1>8, <1>12, <1>13 DEF OrderInv

\* A dead-lettered message leaves the queue.
LEMMA DeadLetterInOrder ==
    ASSUME SerialInv, OrderInv, DeadLettered
    PROVE  OrderInv'
<1> DEFINE d == Head(returns)
<1>1. /\ returns # <<>> /\ returns' = Tail(returns) /\ dead' = dead \union {d}
      /\ UNCHANGED <<arrival, ready, unacked, wire, acked, pc, crashes, faults, lost>>
  BY DEF DeadLettered, DeadLetter, chainVars, boundVars
<1>2. /\ returns \in Seq(Msg) /\ unacked \in Seq(Msg) /\ InOnePlace
  BY DEF SerialInv, TypeOK, QueueTypeOK
<1>3. d \in ToSet(returns) /\ ToSet(returns') = ToSet(returns) \ {d}
  BY <1>1, <1>2, TailSet DEF InOnePlace
<1>4. Len(returns') = Len(returns) - 1 /\ Len(returns) \in Nat /\ Len(unacked) \in Nat
  BY <1>1, <1>2, LenProperties, EmptySeq, HeadTailProperties
<1>5. Sorted(returns, Earlier) => Sorted(returns', Earlier)
  BY <1>1, <1>2, TailSorted
<1> HIDE DEF d
<1>6. Earlier' = Earlier /\ Tasks' = Tasks /\ Framed' = Framed
  BY <1>1 DEF Earlier, Tasks, Framed
<1>7. Waiting' = Waiting \ {d} /\ Out' = Out \ {d} /\ d \in Out
  BY <1>1, <1>2, <1>3 DEF Waiting, Out, InOnePlace
<1>8. Placed'
  <2>1. IsInjective(arrival')
    BY <1>1 DEF OrderInv, Placed, IsInjective
  <2>2. /\ ToSet(arrival) = Out \union acked \union dead
        /\ Out \intersect acked = {} /\ Out \intersect dead = {} /\ acked \intersect dead = {}
    BY DEF OrderInv, Placed
  <2> QED BY <1>1, <1>7, <2>1, <2>2 DEF Placed
<1>9. OneOut'
  BY <1>1, <1>4 DEF OrderInv, OneOut
<1>10. OnlyUnusableReturn'
  BY <1>1, <1>3 DEF OrderInv, OnlyUnusableReturn
<1>11. ASSUME OrderKept' PROVE InOrder'
  <2>0. InOrder
    BY <1>1, <1>11 DEF OrderInv, OrderKept
  <2>1. FramesInOrder'
    BY <1>1, <1>6, <2>0 DEF InOrder, FramesInOrder
  <2> QED BY <1>1, <1>3, <1>5, <1>6, <1>7, <2>0, <2>1 DEF InOrder
<1> QED BY <1>8, <1>9, <1>10, <1>11 DEF OrderInv

\* The connection goes: what was out comes back behind what had come back before,
\* none of which is usable if this is the first crash and nothing else returned it.
LEMMA CrashInOrder ==
    ASSUME SerialInv, OrderInv, Crash
    PROVE  OrderInv'
<1>1. /\ returns' = returns \o unacked /\ unacked' = <<>> /\ wire' = <<>>
      /\ UNCHANGED <<arrival, ready, acked, dead, faults, lost>>
      /\ crashes' = crashes + 1
  BY DEF Crash, ConnectionLost
<1>2. /\ returns \in Seq(Msg) /\ unacked \in Seq(Msg) /\ crashes \in Nat
  BY DEF SerialInv, TypeOK, QueueTypeOK, BoundTypeOK
<1>3. ToSet(returns') = ToSet(returns) \union ToSet(unacked) /\ ToSet(unacked') = {}
  <2>1. ToSet(unacked') = {}
    BY <1>1 DEF ToSet
  <2> QED BY <1>1, <1>2, <2>1, ConcatSet
<1>4. Framed' = {} /\ Earlier' = Earlier
  BY <1>1 DEF Framed, Earlier
<1>5. Out' = Out /\ Waiting' = Out
  BY <1>1, <1>3 DEF Out, Waiting
<1>6. Placed'
  BY <1>1, <1>5 DEF OrderInv, Placed, IsInjective
<1>7. OneOut'
  <2>1. Len(returns') = Len(returns) + Len(unacked) /\ Len(unacked') = 0
    BY <1>1, <1>2, ConcatProperties
  <2>2. Len(returns) \in Nat /\ Len(unacked) \in Nat
    BY <1>2, LenProperties
  <2> QED BY <2>1, <2>2 DEF OrderInv, OneOut
<1>8. OnlyUnusableReturn'
  BY <1>1, <1>2 DEF OnlyUnusableReturn
<1>9. ASSUME OrderKept' PROVE InOrder'
  <2>0. Prefetch = 1 \/ (faults + lost = 0 /\ crashes = 0)
    BY <1>1, <1>2, <1>9 DEF OrderKept
  <2>1. InOrder
    BY <1>2, <2>0 DEF OrderInv, OrderKept
  <2>2. Sorted(returns', Earlier)
    <3>1. CASE Prefetch = 1
      <4>1. returns' \in Seq(Msg) /\ Len(returns') = Len(returns) + Len(unacked)
        BY <1>1, <1>2, ConcatProperties
      <4>2. Len(returns') <= 1
        BY <1>2, <3>1, <4>1, LenProperties DEF OrderInv, OneOut
      <4> QED BY <4>1, <4>2, ShortSorted
    <3>2. CASE faults + lost = 0 /\ crashes = 0
      <4>1. ToSet(returns) \intersect Usable = {}
        BY <3>2 DEF OrderInv, OnlyUnusableReturn
      <4>2. \A x \in ToSet(returns), y \in ToSet(unacked) : <<y, x>> \notin Earlier
        BY <4>1 DEF Earlier
      <4> QED BY <1>1, <1>2, <2>1, <4>2, ConcatSorted DEF InOrder
    <3> QED BY <2>0, <3>1, <3>2
  <2>3. FramesInOrder'
    BY <1>1 DEF FramesInOrder
  <2>4. Sorted(unacked', Earlier)
    BY <1>1 DEF Sorted
  <2>5. ASSUME NEW x \in Msg, NEW y \in Msg, <<x, y>> \in Earlier
        PROVE  /\ y \in ToSet(returns') => x \notin ToSet(ready')
               /\ y \in acked' => x \notin Out'
    BY <1>1, <1>3, <1>5, <2>1, <2>5 DEF InOrder, Waiting
  <2> QED BY <1>1, <1>3, <1>4, <2>1, <2>2, <2>3, <2>4, <2>5 DEF InOrder
<1> QED BY <1>6, <1>7, <1>8, <1>9 DEF OrderInv

\* A step that leaves the messages and their tasks where they are.
LEMMA ElsewhereInOrder ==
    ASSUME OrderInv, UNCHANGED <<arrival, ready, returns, unacked, acked, dead, wire>>,
           Tasks' = Tasks, UNCHANGED <<crashes, faults, lost>>
    PROVE  OrderInv'
<1>1. Placed' /\ OneOut' /\ Earlier' = Earlier /\ Waiting' = Waiting /\ Out' = Out
  BY NothingMoves DEF OrderInv
<1>2. Framed' = Framed
  BY DEF Framed
<1>3. OnlyUnusableReturn'
  BY DEF OrderInv, OnlyUnusableReturn
<1>4. ASSUME OrderKept' PROVE InOrder'
  <2>0. InOrder
    BY <1>4 DEF OrderInv, OrderKept
  <2>1. FramesInOrder'
    BY <1>1, <2>0 DEF InOrder, FramesInOrder
  <2> QED BY <1>1, <1>2, <2>0, <2>1 DEF InOrder
<1> QED BY <1>1, <1>3, <1>4 DEF OrderInv

\* At the start everything is ready, in the order of arrival.
LEMMA InitOrder == Init => OrderInv
<1> SUFFICES ASSUME Init PROVE OrderInv
  OBVIOUS
<1>1. /\ arrival \in Seq(Msg) /\ IsInjective(arrival) /\ ready = arrival
      /\ returns = <<>> /\ unacked = <<>> /\ wire = <<>> /\ acked = {} /\ dead = {}
  BY QueueAssumption DEF QueueAssumption, Init, QueueInit, IsInjective
<1>2. ToSet(returns) = {} /\ ToSet(unacked) = {} /\ Framed = {} /\ Len(returns) = 0 /\ Len(unacked) = 0
  BY <1>1 DEF ToSet, Framed
<1>3. Placed
  BY <1>1, <1>2 DEF Placed, Out, Waiting
<1>4. OnlyUnusableReturn /\ OneOut
  BY <1>1, <1>2 DEF OnlyUnusableReturn, OneOut
<1>5. Sorted(arrival, Earlier)
  <2> SUFFICES ASSUME NEW i \in DOMAIN arrival, NEW j \in DOMAIN arrival, i < j,
                      <<arrival[j], arrival[i]>> \in Earlier
               PROVE  FALSE
    BY DEF Sorted
  <2>1. PICK k, l \in DOMAIN arrival : k < l /\ arrival[k] = arrival[j] /\ arrival[l] = arrival[i]
    BY DEF Earlier
  <2>2. k = j /\ l = i
    BY <1>1, <2>1 DEF IsInjective
  <2>3. DOMAIN arrival \subseteq Nat
    BY <1>1, LenProperties
  <2> QED BY <2>1, <2>2, <2>3
<1>6. InOrder
  BY <1>1, <1>2, <1>5 DEF InOrder, Sorted, FramesInOrder
<1> QED BY <1>3, <1>4, <1>6 DEF OrderInv

\* Every step keeps the order.
LEMMA NextOrder == SerialInv /\ DrainInv /\ OrderInv /\ [Next]_vars => OrderInv'
<1> SUFFICES ASSUME SerialInv, DrainInv, OrderInv, [Next]_vars PROVE OrderInv'
  OBVIOUS
<1> USE DEF queueVars, chainVars, boundVars
<1>1. ASSUME NEW m \in Msg, Deliver(m) PROVE OrderInv'
  BY <1>1, DeliverInOrder
<1>2. ASSUME NEW m \in Msg, TaskStep(m) \/ DbFails(m) \/ LostReply(m) PROVE OrderInv'
  BY <1>2, TaskInOrder
<1>3. CASE Settle
  BY <1>3, SettleInOrder
<1>4. CASE DeadLettered
  BY <1>4, DeadLetterInOrder
<1>5. CASE Crash
  BY <1>5, CrashInOrder
<1>6. CASE Close
  <2>1. (\A m \in Msg : pc[m] = "idle") /\ unacked = <<>>
    BY <1>6, CloseIdle
  <2>2. /\ wire = <<>> /\ wire' = <<>> /\ unacked' = <<>> /\ returns' = returns \o unacked
        /\ UNCHANGED <<arrival, ready, acked, dead, crashes, faults, lost>>
    BY <1>6 DEF Close, ConnectionLost
  <2>3. returns' = returns
    BY <2>1, <2>2 DEF SerialInv, TypeOK, QueueTypeOK
  <2>4. Tasks' = {} /\ Tasks = {}
    BY <1>6, <2>1 DEF Close, ProcessEnds, Tasks
  <2> QED BY <2>1, <2>2, <2>3, <2>4, ElsewhereInOrder
<1>7. CASE Boot \/ Shutdown \/ Cancelled \/ SnapshotRebuilt
  BY <1>7, ElsewhereInOrder DEF Boot, Shutdown, Cancelled, SnapshotRebuilt, Tasks
<1>8. ASSUME NEW a \in Area, AreaCreated(a) \/ AreaDeleted(a) PROVE OrderInv'
  BY <1>8, ElsewhereInOrder DEF AreaCreated, AreaDeleted, Tasks
<1>9. CASE UNCHANGED vars
  BY <1>9, ElsewhereInOrder DEF vars, Tasks
<1> QED BY <1>1, <1>2, <1>3, <1>4, <1>5, <1>6, <1>7, <1>8, <1>9 DEF Next

\* The order holds in every reachable state.
LEMMA Ordered == Spec => [](SerialInv /\ DrainInv /\ OrderInv)
<1>1. Init => SerialInv /\ DrainInv /\ OrderInv
  BY InitSerial, InitOrder DEF Init, DrainInv
<1>2. SerialInv /\ DrainInv /\ OrderInv /\ [Next]_vars => SerialInv' /\ DrainInv' /\ OrderInv'
  BY NextSerial, NextDrain, NextOrder
<1> QED BY <1>1, <1>2, PTL DEF Spec

-----------------------------------------------------------------------------
(***************************************************************************)
(* What is done.                                                           *)
(***************************************************************************)

\* The worker has acked m: the broker has read the frame or will, unless the
\* connection goes first.
AckSent == {wire[i].msg : i \in {k \in DOMAIN wire : wire[k].type = "ack"}}
Done == acked \union AckSent

\* A done event has arrived and has no task.
LEMMA DoneFacts ==
    ASSUME SerialInv, OrderInv
    PROVE  /\ AckSent \subseteq Framed
           /\ Done \subseteq Msg /\ Done \subseteq ToSet(arrival) /\ Done \intersect Tasks = {}
           /\ Tasks \subseteq ToSet(arrival)
<1>1. AckSent \subseteq Framed
  BY DEF AckSent, Framed
<1>2. Framed \subseteq Out /\ Tasks \subseteq Out
  BY MessagesOut DEF Out
<1>3. ToSet(arrival) = Out \union acked \union dead /\ Out \intersect acked = {}
  BY DEF OrderInv, Placed
<1>4. Framed \intersect Tasks = {} /\ acked \subseteq Msg /\ Framed \subseteq Msg
  BY MessagesOut DEF SerialInv, EveryDeliveryOwned, TypeOK, QueueTypeOK
<1> QED BY <1>1, <1>2, <1>3, <1>4 DEF Done

\* A frame more.
LEMMA DoneGrows ==
    ASSUME wire \in Seq(Frame), NEW m \in Msg, NEW t \in {"ack", "nack"},
           wire' = Append(wire, [type |-> t, msg |-> m]), acked' = acked
    PROVE  Done' = IF t = "ack" THEN Done \union {m} ELSE Done
<1> DEFINE f == [type |-> t, msg |-> m]
<1>1. /\ Len(wire) \in Nat /\ DOMAIN wire = 1..Len(wire)
      /\ DOMAIN wire' = 1..(Len(wire) + 1)
      /\ \A i \in 1..Len(wire) : wire'[i] = wire[i]
      /\ wire'[Len(wire) + 1] = f
  BY LenProperties, AppendProperties DEF Frame
<1>2. f.type = t /\ f.msg = m
  OBVIOUS
<1> HIDE DEF f
<1>3. /\ \A i \in DOMAIN wire : i \in DOMAIN wire' /\ wire'[i] = wire[i]
      /\ Len(wire) + 1 \in DOMAIN wire'
      /\ \A i \in DOMAIN wire' : i = Len(wire) + 1 \/ i \in DOMAIN wire
  BY <1>1
<1>4. \A x : x \in AckSent' <=> x \in AckSent \/ (t = "ack" /\ x = m)
  BY <1>1, <1>2, <1>3 DEF AckSent
<1> QED BY <1>4 DEF Done

\* Reading a frame changes nothing about what is done.
LEMMA SettleDone ==
    ASSUME SerialInv, Settle
    PROVE  Done' = Done
<1>1. /\ wire \in Seq(Frame) /\ wire # <<>> /\ wire' = Tail(wire)
      /\ \/ Head(wire).type = "ack" /\ acked' = acked \union {Head(wire).msg}
         \/ Head(wire).type = "nack" /\ acked' = acked
  BY SettleMoves DEF SerialInv, TypeOK, QueueTypeOK
<1>2. /\ Len(wire) \in Nat /\ Len(wire) >= 1 /\ DOMAIN wire = 1..Len(wire)
      /\ Head(wire) = wire[1]
      /\ DOMAIN wire' = 1..(Len(wire) - 1)
      /\ \A i \in 1..(Len(wire) - 1) : wire'[i] = wire[i + 1]
  BY <1>1, LenProperties, EmptySeq, HeadTailProperties
<1>3. \A i \in DOMAIN wire' : i + 1 \in DOMAIN wire /\ wire'[i] = wire[i + 1]
  BY <1>2
<1>4. \A j \in DOMAIN wire : j = 1 \/ (j - 1 \in DOMAIN wire' /\ wire'[j - 1] = wire[j])
  BY <1>2
<1>5. 1 \in DOMAIN wire
  BY <1>2
<1>6. AckSent' \subseteq AckSent
  BY <1>3 DEF AckSent
<1>7. AckSent \subseteq AckSent' \union {x \in {wire[1].msg} : wire[1].type = "ack"}
  BY <1>4 DEF AckSent
<1>8. wire[1].type = "ack" => wire[1].msg \in AckSent
  BY <1>5 DEF AckSent
<1> QED BY <1>1, <1>2, <1>6, <1>7, <1>8 DEF Done

-----------------------------------------------------------------------------
(***************************************************************************)
(* What a step of a task does, by the await it starts from and the one it  *)
(* ends at.                                                                *)
(***************************************************************************)

\* The map the gate compares with.
Loaded(m, seqs) ==
    \/ /\ pc[m] = "queued" /\ seqs = lastSeqByDevice
       /\ HasSeq(m) => KeyFor(m) \in DOMAIN lastSeqByDevice
    \/ /\ pc[m] = "dedup" /\ HasSeq(m)
       /\ LET row == StoredSeq[Identity(m)]
          IN seqs = Put(lastSeqByDevice, KeyFor(m), IF row = None THEN 0 ELSE row)
\* The event goes through both gates.
Passed(m, seqs) == Loaded(m, seqs) /\ ~IsDuplicate(m, seqs) /\ m \notin Inaccurate

Asked(m) ==
    /\ pc[m] = "queued" /\ HasSeq(m) /\ KeyFor(m) \notin DOMAIN lastSeqByDevice
    /\ pc' = [pc EXCEPT ![m] = "dedup"]
    /\ UNCHANGED <<wire, cur, lastSeqByDevice, memory, outcomes, presence, logs>>
WentOn(m, seqs) ==
    /\ Passed(m, seqs)
    /\ \E b \in {"hint", "txn"} : pc' = [pc EXCEPT ![m] = b]
    /\ cur' = [cur EXCEPT ![m] = Cover[m] \intersect snapshot]
    /\ lastSeqByDevice' = seqs
    /\ UNCHANGED <<wire, memory, outcomes, presence, logs>>
Hinted(m) ==
    /\ pc[m] = "hint" /\ pc' = [pc EXCEPT ![m] = "txn"]
    /\ cur' = [cur EXCEPT ![m] = cur[m]]
    /\ memory' = Put(memory, UserOf[m], presence[UserOf[m]])
    /\ UNCHANGED <<wire, lastSeqByDevice, outcomes, presence, logs>>
Finished(m, seqs) ==
    /\ Finish(m, seqs)
    /\ \/ /\ Passed(m, seqs) /\ memory' = memory
          /\ UserOf[m] \in DOMAIN memory /\ memory[UserOf[m]] = Cover[m] \intersect snapshot
       \/ /\ pc[m] = "hint" /\ seqs = lastSeqByDevice /\ cur[m] = presence[UserOf[m]]
          /\ memory' = Put(memory, UserOf[m], presence[UserOf[m]])
       \/ pc[m] = "del" /\ seqs = lastSeqByDevice /\ memory' = memory
    /\ UNCHANGED <<presence, logs>>
Discarded(m, seqs) ==
    /\ Loaded(m, seqs) /\ IsDuplicate(m, seqs) /\ Discard(m, seqs)
    /\ UNCHANGED <<memory, presence, logs>>
Failed(m) ==
    /\ Fail(m)
    /\ \/ lastSeqByDevice' = lastSeqByDevice
       \/ \E seqs : Loaded(m, seqs) /\ ~IsDuplicate(m, seqs) /\ lastSeqByDevice' = seqs
    /\ UNCHANGED <<memory, presence, logs>>

\* The cases of a step.
LEMMA TaskCases ==
    ASSUME SerialInv, NEW m \in Msg, TaskStep(m) \/ DbFails(m) \/ LostReply(m)
    PROVE  /\ \/ Asked(m)
              \/ \E seqs : WentOn(m, seqs) \/ Finished(m, seqs) \/ Discarded(m, seqs)
              \/ Hinted(m) \/ Commit(m) \/ Reply(m) \/ FkViolation(m) \/ Failed(m)
           /\ m \in Tasks /\ after[m] = None
           /\ UNCHANGED <<arrival, ready, returns, unacked, returned, acked, dead, areaState,
                          phase, awaited, snapshot, crashes, shutdowns>>
           /\ faults' \in Nat /\ lost' \in Nat /\ faults' >= faults /\ lost' >= lost
           /\ blind' = blind \/ lost' > lost
<1>1. m \in Tasks /\ after[m] = None
  BY TaskShape, RunnerWaitsForNone
<1>2. /\ faults' \in Nat /\ lost' \in Nat /\ faults' >= faults /\ lost' >= lost
      /\ faults \in Nat /\ lost \in Nat
  BY NackShape DEF SerialInv, TypeOK, BoundTypeOK
<1>3. /\ UNCHANGED <<arrival, ready, returns, unacked, returned, acked, dead, areaState,
                     phase, awaited, snapshot, crashes, shutdowns>>
      /\ blind' = blind \/ lost' > lost
  BY <1>2 DEF TaskStep, Start, SeqLoaded, HintLoaded, Commit, Transition, FkViolation, Reply,
     Invalidated, DbFails, LostReply, taskFrame, queueVars, tableVars, processVars, boundVars, cacheVars
<1>4. /\ UserOf[m] \in User /\ presence[UserOf[m]] \in SUBSET Area /\ cur[m] \in SUBSET Area
      /\ Cover[m] \intersect snapshot \in SUBSET Area
      /\ UserOf[m] \in DOMAIN memory => memory[UserOf[m]] \in SUBSET Area
  BY WorkerAssumption
  DEF WorkerAssumption, SerialInv, TypeOK, TableTypeOK, TaskTypeOK, ProcessTypeOK, CacheTypeOK, IsMap
<1>5. ASSUME NEW seqs, Loaded(m, seqs), Gate(m, seqs), UNCHANGED <<memory, presence, logs>>
      PROVE  WentOn(m, seqs) \/ Finished(m, seqs) \/ Discarded(m, seqs) \/ Failed(m)
  <2>1. CASE IsDuplicate(m, seqs)
    BY <1>5, <2>1 DEF Gate, Discarded
  <2>2. CASE ~IsDuplicate(m, seqs)
    <3>0. Report(m, seqs)
      BY <1>5, <2>2 DEF Gate
    <3>1. CASE m \in Inaccurate
      BY <1>5, <2>2, <3>0, <3>1 DEF Report, Failed
    <3>2. CASE m \notin Inaccurate /\ UserOf[m] \notin DOMAIN memory
      <4>1. Passed(m, seqs)
        BY <1>5, <2>2, <3>2 DEF Passed
      <4> QED BY <1>5, <3>0, <3>2, <4>1 DEF Report, WentOn
    <3>3. CASE m \notin Inaccurate /\ UserOf[m] \in DOMAIN memory
      <4>1. Passed(m, seqs)
        BY <1>5, <2>2, <3>3 DEF Passed
      <4>2. Fork(m, Cover[m] \intersect snapshot, memory[UserOf[m]], seqs)
        BY <3>0, <3>3 DEF Report
      <4>3. Differs(Cover[m] \intersect snapshot, memory[UserOf[m]])
              <=> Cover[m] \intersect snapshot # memory[UserOf[m]]
        BY <1>4, <3>3, DiffersIsInequality
      <4>4. CASE Finish(m, seqs) /\ ~Differs(Cover[m] \intersect snapshot, memory[UserOf[m]])
        BY <1>5, <3>3, <4>1, <4>3, <4>4 DEF Finished
      <4>5. CASE /\ pc' = [pc EXCEPT ![m] = "txn"]
                 /\ cur' = [cur EXCEPT ![m] = Cover[m] \intersect snapshot]
                 /\ lastSeqByDevice' = seqs
                 /\ UNCHANGED <<wire, after, userChains, outcomes>>
        BY <1>5, <4>1, <4>5 DEF WentOn
      <4> QED BY <4>2, <4>4, <4>5 DEF Fork
    <3> QED BY <3>1, <3>2, <3>3
  <2> QED BY <2>1, <2>2
<1>6. CASE Start(m)
  <2>1. CASE (HasSeq(m) => KeyFor(m) \in DOMAIN lastSeqByDevice) /\ Gate(m, lastSeqByDevice)
    <3>1. Loaded(m, lastSeqByDevice)
      BY <1>6, <2>1 DEF Start, Loaded
    <3>2. UNCHANGED <<memory, presence, logs>>
      BY <1>6 DEF Start
    <3> QED BY <1>1, <1>2, <1>3, <1>5, <2>1, <3>1, <3>2
  <2>2. CASE HasSeq(m) /\ KeyFor(m) \notin DOMAIN lastSeqByDevice
    <3>1. Asked(m)
      BY <1>6, <2>2 DEF Start, Asked
    <3> QED BY <1>1, <1>2, <1>3, <3>1
  <2> QED BY <1>6, <2>1, <2>2 DEF Start
<1>7. CASE SeqLoaded(m)
  <2>1. PICK seqs : /\ seqs = LET row == StoredSeq[Identity(m)]
                              IN Put(lastSeqByDevice, KeyFor(m), IF row = None THEN 0 ELSE row)
                    /\ Gate(m, seqs)
    BY <1>7 DEF SeqLoaded
  <2>2. Loaded(m, seqs)
    BY <1>7, <2>1 DEF SeqLoaded, Loaded, SerialInv, TypeOK, TaskTypeOK
  <2>3. UNCHANGED <<memory, presence, logs>>
    BY <1>7 DEF SeqLoaded
  <2> QED BY <1>1, <1>2, <1>3, <1>5, <2>1, <2>2, <2>3
<1>8. CASE HintLoaded(m)
  <2>1. /\ pc[m] = "hint" /\ memory' = Put(memory, UserOf[m], presence[UserOf[m]])
        /\ UNCHANGED <<presence, logs>>
        /\ Fork(m, cur[m], presence[UserOf[m]], lastSeqByDevice)
    BY <1>8 DEF HintLoaded
  <2>2. Differs(cur[m], presence[UserOf[m]]) <=> cur[m] # presence[UserOf[m]]
    BY <1>4, DiffersIsInequality
  <2>3. CASE Finish(m, lastSeqByDevice) /\ ~Differs(cur[m], presence[UserOf[m]])
    <3>1. Finished(m, lastSeqByDevice)
      BY <2>1, <2>2, <2>3 DEF Finished
    <3> QED BY <1>1, <1>2, <1>3, <3>1
  <2>4. CASE /\ pc' = [pc EXCEPT ![m] = "txn"]
             /\ cur' = [cur EXCEPT ![m] = cur[m]]
             /\ lastSeqByDevice' = lastSeqByDevice
             /\ UNCHANGED <<wire, after, userChains, outcomes>>
    <3>1. Hinted(m)
      BY <2>1, <2>4 DEF Hinted
    <3> QED BY <1>1, <1>2, <1>3, <3>1
  <2> QED BY <2>1, <2>3, <2>4 DEF Fork
<1>9. CASE Invalidated(m)
  <2>1. Finished(m, lastSeqByDevice)
    BY <1>9 DEF Invalidated, Finished
  <2> QED BY <1>1, <1>2, <1>3, <2>1
<1>10. CASE DbFails(m) \/ LostReply(m)
  <2>1. Failed(m)
    BY <1>10 DEF DbFails, LostReply, Failed, cacheVars
  <2> QED BY <1>1, <1>2, <1>3, <2>1
<1>11. CASE Commit(m) \/ Reply(m) \/ FkViolation(m)
  BY <1>1, <1>2, <1>3, <1>11
<1> QED BY <1>6, <1>7, <1>8, <1>9, <1>10, <1>11 DEF TaskStep

\* What the cases do to the task, to what is done and to the outcomes.
LEMMA TaskEffects ==
    ASSUME SerialInv, NEW m \in Msg, acked' = acked
    PROVE  /\ \A b : pc' = [pc EXCEPT ![m] = b] =>
                pc'[m] = b /\ \A x \in Msg : x # m => pc'[x] = pc[x]
           /\ \A c : cur' = [cur EXCEPT ![m] = c] =>
                cur'[m] = c /\ \A x \in Msg : x # m => cur'[x] = cur[x]
           /\ \A o : outcomes' = [outcomes EXCEPT ![m] = @ \union {o}] =>
                /\ outcomes'[m] = outcomes[m] \union {o}
                /\ \A x \in Msg : x # m => outcomes'[x] = outcomes[x]
           /\ wire' = wire => Done' = Done
           /\ \A t \in {"ack", "nack"} : TaskEnds(m, t) =>
                /\ pc'[m] = "idle" /\ cur'[m] = {}
                /\ \A x \in Msg : x # m => pc'[x] = pc[x] /\ cur'[x] = cur[x]
                /\ Done' = IF t = "ack" THEN Done \union {m} ELSE Done
<1>1. /\ wire \in Seq(Frame) /\ pc \in [Msg -> {"idle", "queued"} \union Busy]
      /\ cur \in [Msg -> SUBSET Area] /\ outcomes \in [Msg -> SUBSET Outcome]
  BY DEF SerialInv, TypeOK, QueueTypeOK, TaskTypeOK
<1>2. ASSUME NEW b, pc' = [pc EXCEPT ![m] = b]
      PROVE  pc'[m] = b /\ \A x \in Msg : x # m => pc'[x] = pc[x]
  BY <1>1, <1>2
<1>3. ASSUME NEW c, cur' = [cur EXCEPT ![m] = c]
      PROVE  cur'[m] = c /\ \A x \in Msg : x # m => cur'[x] = cur[x]
  BY <1>1, <1>3
<1>4. ASSUME NEW o, outcomes' = [outcomes EXCEPT ![m] = @ \union {o}]
      PROVE  /\ outcomes'[m] = outcomes[m] \union {o}
             /\ \A x \in Msg : x # m => outcomes'[x] = outcomes[x]
  BY <1>1, <1>4
<1>5. wire' = wire => Done' = Done
  BY DEF Done, AckSent
<1>6. ASSUME NEW t \in {"ack", "nack"}, TaskEnds(m, t)
      PROVE  /\ pc'[m] = "idle" /\ cur'[m] = {}
             /\ \A x \in Msg : x # m => pc'[x] = pc[x] /\ cur'[x] = cur[x]
             /\ Done' = IF t = "ack" THEN Done \union {m} ELSE Done
  <2>1. Done' = IF t = "ack" THEN Done \union {m} ELSE Done
    BY <1>1, <1>6, DoneGrows DEF TaskEnds
  <2> QED BY <1>2, <1>3, <1>6, <2>1 DEF TaskEnds
<1> QED BY <1>2, <1>3, <1>4, <1>5, <1>6

-----------------------------------------------------------------------------
(***************************************************************************)
(* Where a task puts its user.                                             *)
(***************************************************************************)

\* The area set does not change.
SteadyAreas == InitialAreas = Area /\ Doomed = {}

\* A process that runs knows every initial area that is left.
AreasKnown ==
    /\ \A a \in InitialAreas : areaState[a] # "future"
    /\ SteadyAreas => Live = Area
    /\ phase # "down" => InitialAreas \intersect Live \subseteq snapshot
    /\ \A m \in Msg : pc[m] # "idle" => phase # "down"

\* Past the gates: report has computed its areas.
Located == {"hint", "txn", "reply", "del"}
CurCovers ==
    \A m \in Msg : pc[m] \in Located =>
      /\ Cover[m] \intersect InitialAreas \intersect Live \subseteq cur[m]
      /\ cur[m] \subseteq Cover[m]
CurCommitted ==
    \A m \in Msg : pc[m] \in {"reply", "del"} => presence[UserOf[m]] = cur[m] \intersect Live
CurFits == AreasKnown /\ CurCovers /\ CurCommitted /\ (lost = 0 => blind = {})

\* Of a user's tasks only one can move.
LEMMA OnlyRunner ==
    ASSUME SerialInv, NEW x \in Tasks, NEW y \in Tasks, UserOf[x] = UserOf[y],
           after[x] = None, after[y] = None
    PROVE  x = y
<1>1. x \in ToSet(unacked) /\ y \in ToSet(unacked)
  BY MessagesOut
<1>2. PICK i, j \in DOMAIN unacked : unacked[i] = x /\ unacked[j] = y
  BY <1>1 DEF ToSet
<1>3. DOMAIN unacked \subseteq Nat
  BY LenProperties DEF SerialInv, TypeOK, QueueTypeOK
<1>4. x = y \/ Precedes(x, y) \/ Precedes(y, x)
  BY <1>2, <1>3 DEF Precedes
<1> QED BY <1>4 DEF SerialInv, ChainOrder, LaterWaits

\* While a task can move no other task of its user is past "queued".
LEMMA NoOtherRuns ==
    ASSUME SerialInv, NEW m \in Tasks, after[m] = None,
           NEW x \in Msg, x # m, UserOf[x] = UserOf[m]
    PROVE  pc[x] \notin Busy
<1> SUFFICES ASSUME pc[x] \in Busy PROVE FALSE
  OBVIOUS
<1>1. x \in Tasks /\ after[x] = None
  BY RunnerWaitsForNone
<1> QED BY <1>1, OnlyRunner

\* A step of a task: the areas it computes cover its position, and committing
\* them is what the table then holds.
LEMMA TaskCurFits ==
    ASSUME SerialInv, MemoryInv, CurFits, NEW m \in Msg,
           TaskStep(m) \/ DbFails(m) \/ LostReply(m)
    PROVE  CurFits'
<1>1. /\ \/ Asked(m)
         \/ \E seqs : WentOn(m, seqs) \/ Finished(m, seqs) \/ Discarded(m, seqs)
         \/ Hinted(m) \/ Commit(m) \/ Reply(m) \/ FkViolation(m) \/ Failed(m)
      /\ m \in Tasks /\ after[m] = None
      /\ UNCHANGED <<acked, areaState, phase, snapshot>>
      /\ lost' \in Nat /\ lost' >= lost
      /\ blind' = blind \/ lost' > lost
      /\ lost \in Nat
  BY TaskCases DEF SerialInv, TypeOK, BoundTypeOK
<1>2. Live' = Live /\ phase # "down" /\ UserOf[m] \in User
  BY <1>1, WorkerAssumption DEF Live, CurFits, AreasKnown, Tasks, WorkerAssumption
<1>3. lost' = 0 => blind' = {}
  BY <1>1 DEF CurFits
<1>4. ASSUME NEW b, pc'[m] = b, \A x \in Msg : x # m => pc'[x] = pc[x] /\ cur'[x] = cur[x],
             b \in Located => /\ Cover[m] \intersect InitialAreas \intersect Live \subseteq cur'[m]
                              /\ cur'[m] \subseteq Cover[m],
             b \in {"reply", "del"} => presence'[UserOf[m]] = cur'[m] \intersect Live,
             \A x \in Msg : x # m /\ pc[x] \in {"reply", "del"} => presence'[UserOf[x]] = presence[UserOf[x]]
      PROVE  CurFits'
  <2>1. AreasKnown'
    BY <1>1, <1>2 DEF CurFits, AreasKnown
  <2>2. CurCovers'
    BY <1>2, <1>4 DEF CurFits, CurCovers
  <2>3. CurCommitted'
    BY <1>2, <1>4 DEF CurFits, CurCommitted
  <2> QED BY <1>3, <2>1, <2>2, <2>3 DEF CurFits
<1>5. CASE Asked(m)
  <2>1. pc'[m] = "dedup" /\ \A x \in Msg : x # m => pc'[x] = pc[x]
    BY <1>1, <1>5, TaskEffects DEF Asked
  <2> QED BY <1>4, <1>5, <2>1 DEF Asked, Located
<1>6. ASSUME NEW seqs, WentOn(m, seqs) PROVE CurFits'
  <2>1. PICK b \in {"hint", "txn"} : pc' = [pc EXCEPT ![m] = b]
    BY <1>6 DEF WentOn
  <2>2. pc'[m] = b /\ \A x \in Msg : x # m => pc'[x] = pc[x]
    BY <1>1, <2>1, TaskEffects
  <2>3. cur'[m] = Cover[m] \intersect snapshot /\ \A x \in Msg : x # m => cur'[x] = cur[x]
    BY <1>1, <1>6, TaskEffects DEF WentOn
  <2>4. InitialAreas \intersect Live \subseteq snapshot
    BY <1>2 DEF CurFits, AreasKnown
  <2>5. Cover[m] \intersect InitialAreas \intersect Live \subseteq cur'[m] /\ cur'[m] \subseteq Cover[m]
    BY <2>3, <2>4
  <2>6. presence' = presence
    BY <1>6 DEF WentOn
  <2> QED BY <1>4, <2>2, <2>3, <2>5, <2>6
<1>7. CASE Hinted(m)
  <2>1. pc'[m] = "txn" /\ \A x \in Msg : x # m => pc'[x] = pc[x]
    BY <1>1, <1>7, TaskEffects DEF Hinted
  <2>2. cur'[m] = cur[m] /\ \A x \in Msg : x # m => cur'[x] = cur[x]
    BY <1>1, <1>7, TaskEffects DEF Hinted
  <2>3. pc[m] \in Located /\ presence' = presence
    BY <1>7 DEF Hinted, Located
  <2> QED BY <1>4, <2>1, <2>2, <2>3 DEF CurFits, CurCovers
<1>8. CASE Commit(m)
  <2>1. pc'[m] = "reply" /\ \A x \in Msg : x # m => pc'[x] = pc[x]
    BY <1>1, <1>8, TaskEffects DEF Commit
  <2>2. cur' = cur /\ pc[m] \in Located
    BY <1>8 DEF Commit, Located
  <2>3. presence' = [presence EXCEPT ![UserOf[m]] = cur[m]] /\ cur[m] \subseteq Live
    BY <1>2, <1>8, TransitionResult DEF Commit, SerialInv, TypeOK, TaskTypeOK, MemoryInv
  <2>4. presence \in [User -> SUBSET Area] /\ \A x \in Msg : UserOf[x] \in User
    BY WorkerAssumption DEF WorkerAssumption, SerialInv, TypeOK, TableTypeOK
  <2>5. \A x \in Msg : x # m /\ pc[x] \in {"reply", "del"} => UserOf[x] # UserOf[m]
    BY <1>1, NoOtherRuns DEF Busy
  <2>6. presence'[UserOf[m]] = cur[m] \intersect Live
    BY <1>2, <2>3, <2>4
  <2>7. \A x \in Msg : x # m /\ pc[x] \in {"reply", "del"} => presence'[UserOf[x]] = presence[UserOf[x]]
    BY <2>3, <2>4, <2>5
  <2> QED BY <1>4, <2>1, <2>2, <2>6, <2>7 DEF CurFits, CurCovers
<1>9. CASE Reply(m)
  <2>1. pc'[m] = "del" /\ \A x \in Msg : x # m => pc'[x] = pc[x]
    BY <1>1, <1>9, TaskEffects DEF Reply
  <2>2. cur' = cur /\ presence' = presence /\ pc[m] = "reply"
    BY <1>9 DEF Reply, tableVars
  <2> QED BY <1>4, <2>1, <2>2 DEF CurFits, CurCovers, CurCommitted, Located
<1>10. ASSUME NEW t \in {"ack", "nack"}, TaskEnds(m, t), presence' = presence PROVE CurFits'
  <2>1. pc'[m] = "idle" /\ \A x \in Msg : x # m => pc'[x] = pc[x] /\ cur'[x] = cur[x]
    BY <1>1, <1>10, TaskEffects
  <2> QED BY <1>4, <1>10, <2>1 DEF Located
<1> QED BY <1>1, <1>5, <1>6, <1>7, <1>8, <1>9, <1>10
        DEF Finished, Finish, Discarded, Discard, FkViolation, DropStale, Failed, Fail

\* Areas that come were not there all along; an area that goes takes its rows.
LEMMA AreaCurFits ==
    ASSUME TypeOK, MemoryInv, CurFits, NEW a \in Area, AreaCreated(a) \/ AreaDeleted(a)
    PROVE  CurFits'
<1>1. /\ areaState \in [Area -> {"future", "live", "gone"}] /\ presence \in [User -> SUBSET Area]
      /\ \A x \in Msg : UserOf[x] \in User
  BY WorkerAssumption DEF WorkerAssumption, TypeOK, TableTypeOK
<1>2. UNCHANGED <<phase, snapshot, pc, cur, blind, lost>>
  BY DEF AreaCreated, AreaDeleted, processVars, chainVars, cacheVars, boundVars
<1>3. CASE AreaCreated(a)
  <2>1. /\ Live' = Live \union {a} /\ a \in Unborn /\ a \notin InitialAreas
        /\ presence' = presence
    BY <1>1, <1>3 DEF AreaCreated, CreateArea, Live, Unborn, CurFits, AreasKnown
  <2>2. \A x \in InitialAreas : areaState'[x] # "future"
    BY <1>1, <1>3, <2>1 DEF AreaCreated, CreateArea, CurFits, AreasKnown
  <2>3. AreasKnown'
    BY <1>2, <2>1, <2>2 DEF CurFits, AreasKnown, SteadyAreas
  <2>4. CurCovers'
    BY <1>2, <2>1 DEF CurFits, CurCovers
  <2>5. CurCommitted'
    BY <1>2, <2>1 DEF CurFits, CurCommitted, MemoryInv, NothingUnborn
  <2> QED BY <1>2, <2>3, <2>4, <2>5 DEF CurFits
<1>4. CASE AreaDeleted(a)
  <2>1. /\ Live' = Live \ {a} /\ a \in Doomed
        /\ \A u \in User : presence'[u] = presence[u] \ {a}
    BY <1>1, <1>4 DEF AreaDeleted, DeleteArea, Live
  <2>2. \A x \in InitialAreas : areaState'[x] # "future"
    <3>1. areaState' = [areaState EXCEPT ![a] = "gone"]
      BY <1>4 DEF AreaDeleted, DeleteArea
    <3>2. \A x \in Area : areaState'[x] = areaState[x] \/ areaState'[x] = "gone"
      BY <1>1, <3>1
    <3> QED BY <3>2, AreaAssumption DEF CurFits, AreasKnown, AreaAssumption
  <2>3. AreasKnown'
    BY <1>2, <2>1, <2>2 DEF CurFits, AreasKnown, SteadyAreas
  <2>4. CurCovers'
    BY <1>2, <2>1 DEF CurFits, CurCovers
  <2>5. CurCommitted'
    <3> SUFFICES ASSUME NEW m \in Msg, pc[m] \in {"reply", "del"}
                 PROVE  presence'[UserOf[m]] = cur[m] \intersect Live'
      BY <1>2 DEF CurCommitted
    <3>1. presence[UserOf[m]] = cur[m] \intersect Live
      BY DEF CurFits, CurCommitted
    <3> QED BY <1>1, <2>1, <3>1
  <2> QED BY <1>2, <2>3, <2>4, <2>5 DEF CurFits
<1> QED BY <1>3, <1>4

\* Every step keeps what the tasks hold in line with their positions.
LEMMA NextCurFits == SerialInv /\ MemoryInv /\ CurFits /\ [Next]_vars => CurFits'
<1> SUFFICES ASSUME SerialInv, MemoryInv, CurFits, [Next]_vars PROVE CurFits'
  OBVIOUS
<1> USE DEF tableVars, processVars, chainVars, cacheVars, boundVars
<1>1. ASSUME NEW m \in Msg, Deliver(m) PROVE CurFits'
  <2>1. UNCHANGED <<cur, tableVars, processVars, blind, lost>> /\ phase # "down"
    BY <1>1 DEF Deliver
  <2>2. pc'[m] \in {"idle", "queued"} /\ \A x \in Msg : x # m => pc'[x] = pc[x]
    <3>1. pc[m] = "idle" /\ pc \in [Msg -> {"idle", "queued"} \union Busy]
      BY <1>1, DequeueSerial, MessagesOut DEF Deliver, Tasks, SerialInv, TypeOK, TaskTypeOK
    <3>2. pc' = pc \/ pc' = [pc EXCEPT ![m] = "queued"]
      BY <1>1 DEF Deliver
    <3> QED BY <3>1, <3>2
  <2>3. Live' = Live
    BY <2>1 DEF Live
  <2>4. AreasKnown'
    BY <2>1, <2>2, <2>3 DEF CurFits, AreasKnown
  <2>5. CurCovers'
    BY <2>1, <2>2, <2>3 DEF CurFits, CurCovers, Located
  <2>6. CurCommitted'
    BY <2>1, <2>2, <2>3 DEF CurFits, CurCommitted
  <2> QED BY <2>1, <2>4, <2>5, <2>6 DEF CurFits
<1>2. ASSUME NEW m \in Msg, TaskStep(m) \/ DbFails(m) \/ LostReply(m) PROVE CurFits'
  BY <1>2, TaskCurFits
<1>3. ASSUME UNCHANGED <<tableVars, pc, cur, blind, lost>>,
             phase' = "down" <=> phase = "down",
             snapshot' = snapshot \/ snapshot' = Live
      PROVE  CurFits'
  <2>1. Live' = Live
    BY <1>3 DEF Live
  <2>2. AreasKnown'
    BY <1>3, <2>1 DEF CurFits, AreasKnown
  <2>3. CurCovers' /\ CurCommitted'
    BY <1>3, <2>1 DEF CurFits, CurCovers, CurCommitted
  <2> QED BY <1>3, <2>2, <2>3 DEF CurFits
<1>4. CASE Settle \/ DeadLettered \/ Shutdown \/ Cancelled \/ SnapshotRebuilt
  BY <1>3, <1>4 DEF Settle, DeadLettered, Shutdown, Cancelled, SnapshotRebuilt
<1>5. CASE Boot
  <2>1. Live' = Live /\ snapshot' = Live /\ phase' = "up" /\ UNCHANGED <<tableVars, pc, cur, blind, lost>>
    BY <1>5 DEF Boot, Live
  <2>2. AreasKnown'
    BY <2>1 DEF CurFits, AreasKnown
  <2>3. CurCovers' /\ CurCommitted'
    BY <2>1 DEF CurFits, CurCovers, CurCommitted
  <2> QED BY <2>1, <2>2, <2>3 DEF CurFits
<1>6. CASE Crash \/ Close
  <2>1. /\ Live' = Live /\ phase' = "down" /\ blind' = {} /\ areaState' = areaState
        /\ \A m \in Msg : pc'[m] = "idle"
    BY <1>6 DEF Crash, Close, ProcessEnds, Live
  <2>2. AreasKnown'
    BY <2>1 DEF CurFits, AreasKnown
  <2>3. CurCovers' /\ CurCommitted'
    BY <2>1 DEF CurCovers, CurCommitted, Located
  <2> QED BY <2>1, <2>2, <2>3 DEF CurFits
<1>7. ASSUME NEW a \in Area, AreaCreated(a) \/ AreaDeleted(a) PROVE CurFits'
  BY <1>7, AreaCurFits DEF SerialInv
<1>8. CASE UNCHANGED vars
  BY <1>3, <1>8 DEF vars
<1> QED BY <1>1, <1>2, <1>4, <1>5, <1>6, <1>7, <1>8 DEF Next

\* At the start no task runs and the initial areas are live.
LEMMA InitCurFits == Init => CurFits
<1> SUFFICES ASSUME Init PROVE CurFits
  OBVIOUS
<1>1. AreasKnown
  BY AreaAssumption DEF Init, TablesInit, AreasKnown, AreaAssumption, SteadyAreas, Live
<1>2. CurCovers /\ CurCommitted /\ blind = {}
  BY DEF Init, CurCovers, CurCommitted, Located
<1> QED BY <1>1, <1>2 DEF CurFits

-----------------------------------------------------------------------------
(***************************************************************************)
(* How an event came to be acked.                                          *)
(***************************************************************************)

\* The seqs of a device go up in the order of arrival, from 1 and from what is
\* stored, and different devices have different keys.
SeqsInOrder ==
    /\ KeysDistinct /\ SeqsFromOne
    /\ \A m \in Msg : HasSeq(m) /\ StoredSeq[Identity(m)] # None
                        => StoredSeq[Identity(m)] < SeqNoOf[m]
    /\ \A s \in Arrivals : \A i, j \in DOMAIN s :
         (i < j /\ HasSeq(s[i]) /\ Identity(s[i]) = Identity(s[j]))
           => SeqNoOf[s[i]] < SeqNoOf[s[j]]

\* The map claims a seq only if its event, or a later one of its device, is in D.
MapIsDone(seqs, D) ==
    \A m \in Msg : (HasSeq(m) /\ KeyFor(m) \in DOMAIN seqs /\ SeqNoOf[m] <= seqs[KeyFor(m)])
                   => \E y \in D : Identity(y) = Identity(m) /\ SeqNoOf[y] >= SeqNoOf[m]
\* A duplicate has a successor.
DuplicatesSucceeded ==
    \A m \in Msg : "duplicate" \in outcomes[m] =>
      \E i, j \in DOMAIN arrival : i < j /\ arrival[i] = m /\ UserOf[arrival[j]] = UserOf[m]

\* An event is acked for a reason.
AckedForAReason ==
    /\ arrival \in Arrivals
    /\ \A m \in Done : outcomes[m] # {}
    /\ \A m \in Msg : m \in Done \/ pc[m] # "idle" => m \notin Malformed
    /\ \A m \in Msg : "processed" \in outcomes[m] \/ pc[m] \in Located => m \in Usable
    /\ SteadyAreas => \A m \in Msg : "dropped" \notin outcomes[m]

OutcomesExplained ==
    /\ AckedForAReason
    /\ SeqsInOrder => MapIsDone(lastSeqByDevice, Done) /\ DuplicatesSucceeded

\* Types of the parameters of an event with a seq.
LEMMA SeqTypes ==
    ASSUME NEW m \in Msg
    PROVE  /\ SeqNoOf[m] \in Nat
           /\ HasSeq(m) => Identity(m) \in User \X Device /\ KeyFor(m) \in Key
           /\ HasSeq(m) /\ StoredSeq[Identity(m)] # None => StoredSeq[Identity(m)] \in Nat
           /\ \A x \in Msg : HasSeq(m) /\ Identity(x) = Identity(m) =>
                /\ HasSeq(x) /\ UserOf[x] = UserOf[m] /\ KeyFor(x) = KeyFor(m)
           /\ KeysDistinct => \A x \in Msg : HasSeq(m) /\ HasSeq(x) /\ KeyFor(x) = KeyFor(m)
                                             => Identity(x) = Identity(m)
<1>1. /\ SeqNoOf[m] \in Nat
      /\ \A x \in Msg : UserOf[x] \in User /\ (HasSeq(x) => DeviceOf[x] \in Device)
  BY WorkerAssumption DEF WorkerAssumption, HasSeq
<1>2. \A x \in Msg : HasSeq(x) => Identity(x) \in User \X Device
  BY <1>1 DEF Identity
<1>3. HasSeq(m) => KeyFor(m) \in Key
  BY <1>2, WorkerAssumption DEF WorkerAssumption, KeyFor
<1>4. HasSeq(m) /\ StoredSeq[Identity(m)] # None => StoredSeq[Identity(m)] \in Nat
  BY <1>2, WorkerAssumption DEF WorkerAssumption
<1>5. \A x \in Msg : HasSeq(m) /\ Identity(x) = Identity(m) =>
        /\ HasSeq(x) /\ UserOf[x] = UserOf[m] /\ KeyFor(x) = KeyFor(m)
  BY DEF HasSeq, Identity, KeyFor
<1>6. KeysDistinct => \A x \in Msg : HasSeq(m) /\ HasSeq(x) /\ KeyFor(x) = KeyFor(m)
                                     => Identity(x) = Identity(m)
  BY <1>2 DEF KeysDistinct, KeyFor
<1> QED BY <1>1, <1>2, <1>3, <1>4, <1>5, <1>6

\* Loading the stored seq claims nothing, and makes nothing a duplicate.
LEMMA LoadedClaims ==
    ASSUME SeqsInOrder, NEW m \in Msg, NEW seqs, Loaded(m, seqs)
    PROVE  /\ \A D : MapIsDone(lastSeqByDevice, D) => MapIsDone(seqs, D)
           /\ IsDuplicate(m, seqs) =>
                KeyFor(m) \in DOMAIN lastSeqByDevice /\ SeqNoOf[m] <= lastSeqByDevice[KeyFor(m)]
<1>1. CASE seqs = lastSeqByDevice /\ (HasSeq(m) => KeyFor(m) \in DOMAIN lastSeqByDevice)
  BY <1>1 DEF IsDuplicate
<1>2. CASE /\ pc[m] = "dedup" /\ HasSeq(m)
           /\ LET row == StoredSeq[Identity(m)]
              IN seqs = Put(lastSeqByDevice, KeyFor(m), IF row = None THEN 0 ELSE row)
  <2> DEFINE v == IF StoredSeq[Identity(m)] = None THEN 0 ELSE StoredSeq[Identity(m)]
  <2>1. seqs = Put(lastSeqByDevice, KeyFor(m), v)
    BY <1>2
  <2>2. ASSUME NEW x \in Msg, HasSeq(x), KeyFor(x) = KeyFor(m) PROVE v < SeqNoOf[x] /\ v \in Nat
    <3>1. Identity(x) = Identity(m) /\ SeqNoOf[x] \in Nat
      BY <1>2, <2>2, SeqTypes DEF SeqsInOrder
    <3>2. CASE StoredSeq[Identity(m)] = None
      BY <2>2, <3>1, <3>2 DEF SeqsInOrder, SeqsFromOne
    <3>3. CASE StoredSeq[Identity(m)] # None
      BY <1>2, <2>2, <3>1, <3>3, SeqTypes DEF SeqsInOrder
    <3> QED BY <3>2, <3>3
  <2> HIDE DEF v
  <2>3. /\ DOMAIN seqs = DOMAIN lastSeqByDevice \union {KeyFor(m)}
        /\ seqs[KeyFor(m)] = v
        /\ \A k \in DOMAIN lastSeqByDevice : k # KeyFor(m) => seqs[k] = lastSeqByDevice[k]
    BY <2>1 DEF Put
  <2>4. ASSUME NEW x \in Msg, HasSeq(x), KeyFor(x) \in DOMAIN seqs, SeqNoOf[x] <= seqs[KeyFor(x)]
        PROVE  KeyFor(x) \in DOMAIN lastSeqByDevice /\ SeqNoOf[x] <= lastSeqByDevice[KeyFor(x)]
    <3>1. CASE KeyFor(x) = KeyFor(m)
      <4>1. v < SeqNoOf[x] /\ v \in Nat /\ SeqNoOf[x] \in Nat /\ SeqNoOf[x] <= v
        BY <2>2, <2>3, <2>4, <3>1, SeqTypes
      <4> QED BY <4>1
    <3>2. CASE KeyFor(x) # KeyFor(m)
      BY <2>3, <2>4, <3>2
    <3> QED BY <3>1, <3>2
  <2>5. IsDuplicate(m, seqs) =>
          KeyFor(m) \in DOMAIN lastSeqByDevice /\ SeqNoOf[m] <= lastSeqByDevice[KeyFor(m)]
    BY <2>3, <2>4 DEF IsDuplicate
  <2> QED BY <2>4, <2>5 DEF MapIsDone
<1> QED BY <1>1, <1>2 DEF Loaded

\* Remembering an event that is done.
LEMMA RememberClaims ==
    ASSUME KeysDistinct, NEW m \in Msg, NEW seqs, IsMap(seqs, Key, Nat),
           NEW D, NEW E, MapIsDone(seqs, D), E = D \union {m}
    PROVE  MapIsDone(Remember(m, seqs), E)
<1>1. MapIsDone(seqs, E)
  BY DEF MapIsDone
<1>2. CASE Remember(m, seqs) = seqs
  BY <1>1, <1>2
<1>3. CASE HasSeq(m) /\ Remember(m, seqs) = Put(seqs, KeyFor(m), SeqNoOf[m])
  <2> DEFINE r == Put(seqs, KeyFor(m), SeqNoOf[m])
  <2>1. /\ DOMAIN r = DOMAIN seqs \union {KeyFor(m)}
        /\ r[KeyFor(m)] = SeqNoOf[m]
        /\ \A k \in DOMAIN seqs : k # KeyFor(m) => r[k] = seqs[k]
    BY DEF Put
  <2> HIDE DEF r
  <2>2. ASSUME NEW x \in Msg, HasSeq(x), KeyFor(x) \in DOMAIN r, SeqNoOf[x] <= r[KeyFor(x)]
        PROVE  \E y \in E : Identity(y) = Identity(x) /\ SeqNoOf[y] >= SeqNoOf[x]
    <3>1. CASE KeyFor(x) = KeyFor(m)
      <4>1. Identity(m) = Identity(x)
        BY <1>3, <2>2, <3>1, SeqTypes
      <4>2. SeqNoOf[m] >= SeqNoOf[x]
        BY <2>1, <2>2, <3>1, SeqTypes
      <4> QED BY <4>1, <4>2
    <3>2. CASE KeyFor(x) # KeyFor(m)
      BY <1>1, <2>1, <2>2, <3>2 DEF MapIsDone
    <3> QED BY <3>1, <3>2
  <2> QED BY <1>3, <2>2 DEF MapIsDone, r
<1> QED BY <1>2, <1>3 DEF Remember

\* The map the gate compares with is a map.
LEMMA LoadedType ==
    ASSUME TypeOK, NEW m \in Msg, NEW seqs, Loaded(m, seqs)
    PROVE  IsMap(seqs, Key, Nat)
<1>1. IsMap(lastSeqByDevice, Key, Nat)
  BY DEF TypeOK, CacheTypeOK
<1>2. CASE pc[m] = "dedup" /\ HasSeq(m)
  <2> DEFINE v == IF StoredSeq[Identity(m)] = None THEN 0 ELSE StoredSeq[Identity(m)]
  <2>1. v \in Nat /\ KeyFor(m) \in Key
    BY <1>2, SeqTypes
  <2>2. IsMap(Put(lastSeqByDevice, KeyFor(m), v), Key, Nat)
    BY <1>1, <2>1, PutType
  <2> QED BY <1>1, <2>2 DEF Loaded
<1> QED BY <1>1, <1>2 DEF Loaded

\* A step of a task that leaves the dedup map's claims justified.
LEMMA TaskOutcomes ==
    ASSUME SerialInv, OrderInv, CurFits, OutcomesExplained, NEW m \in Msg,
           TaskStep(m) \/ DbFails(m) \/ LostReply(m)
    PROVE  OutcomesExplained'
<1>1. /\ \/ Asked(m)
         \/ \E seqs : WentOn(m, seqs) \/ Finished(m, seqs) \/ Discarded(m, seqs)
         \/ Hinted(m) \/ Commit(m) \/ Reply(m) \/ FkViolation(m) \/ Failed(m)
      /\ m \in Tasks /\ m \in Msg /\ pc[m] # "idle"
      /\ UNCHANGED <<acked, arrival>>
  BY TaskCases DEF Tasks
<1>2. /\ m \notin Malformed /\ TypeOK /\ m \notin Done
      /\ IsMap(lastSeqByDevice, Key, Nat)
  BY <1>1, DoneFacts DEF OutcomesExplained, AckedForAReason, SerialInv, TypeOK, CacheTypeOK
<1>3. AckedForAReason
  BY DEF OutcomesExplained
<1>4. ASSUME NEW b, pc'[m] = b, b # "idle", \A x \in Msg : x # m => pc'[x] = pc[x],
             b \in Located => m \in Usable, wire' = wire, outcomes' = outcomes,
             SeqsInOrder => MapIsDone(lastSeqByDevice', Done)
      PROVE  OutcomesExplained'
  <2>1. Done' = Done
    BY <1>1, <1>4, TaskEffects
  <2>2. AckedForAReason'
    BY <1>1, <1>2, <1>3, <1>4, <2>1 DEF AckedForAReason
  <2>3. SeqsInOrder => DuplicatesSucceeded'
    BY <1>1, <1>4 DEF OutcomesExplained, DuplicatesSucceeded
  <2> QED BY <1>4, <2>1, <2>2, <2>3 DEF OutcomesExplained
<1>5. CASE Asked(m)
  <2>1. pc'[m] = "dedup" /\ \A x \in Msg : x # m => pc'[x] = pc[x]
    BY <1>1, <1>5, TaskEffects DEF Asked
  <2> QED BY <1>4, <1>5, <2>1 DEF Asked, Located, OutcomesExplained
<1>6. ASSUME NEW seqs, WentOn(m, seqs) PROVE OutcomesExplained'
  <2>1. PICK b \in {"hint", "txn"} : pc' = [pc EXCEPT ![m] = b]
    BY <1>6 DEF WentOn
  <2>2. pc'[m] = b /\ \A x \in Msg : x # m => pc'[x] = pc[x]
    BY <1>1, <2>1, TaskEffects
  <2>3. m \in Usable
    BY <1>2, <1>6 DEF WentOn, Passed, Usable
  <2>4. SeqsInOrder => MapIsDone(seqs, Done)
    BY <1>6, LoadedClaims DEF WentOn, Passed, OutcomesExplained
  <2> QED BY <1>4, <1>6, <2>2, <2>3, <2>4 DEF WentOn
<1>7. CASE Hinted(m)
  <2>1. pc'[m] = "txn" /\ (\A x \in Msg : x # m => pc'[x] = pc[x]) /\ m \in Usable
    BY <1>1, <1>3, <1>7, TaskEffects DEF Hinted, AckedForAReason, Located
  <2> QED BY <1>4, <1>7, <2>1 DEF Hinted, OutcomesExplained
<1>8. CASE Commit(m)
  <2>1. pc'[m] = "reply" /\ (\A x \in Msg : x # m => pc'[x] = pc[x]) /\ m \in Usable
    BY <1>1, <1>3, <1>8, TaskEffects DEF Commit, AckedForAReason, Located
  <2>2. wire' = wire /\ outcomes' = outcomes /\ lastSeqByDevice' = lastSeqByDevice
    BY <1>8 DEF Commit, queueVars, cacheVars
  <2> QED BY <1>4, <2>1, <2>2 DEF OutcomesExplained
<1>9. CASE Reply(m)
  <2>1. pc'[m] = "del" /\ (\A x \in Msg : x # m => pc'[x] = pc[x]) /\ m \in Usable
    BY <1>1, <1>3, <1>9, TaskEffects DEF Reply, AckedForAReason, Located
  <2>2. wire' = wire /\ outcomes' = outcomes /\ lastSeqByDevice' = lastSeqByDevice
    BY <1>9 DEF Reply, queueVars
  <2> QED BY <1>4, <2>1, <2>2 DEF OutcomesExplained
<1>10. CASE Failed(m)
  <2>1. TaskEnds(m, "nack") /\ outcomes' = outcomes
    BY <1>10 DEF Failed, Fail
  <2>2. pc'[m] = "idle" /\ Done' = Done /\ \A x \in Msg : x # m => pc'[x] = pc[x]
    BY <1>1, <2>1, TaskEffects
  <2>3. AckedForAReason'
    BY <1>1, <1>2, <1>3, <2>1, <2>2 DEF AckedForAReason, Located
  <2>4. SeqsInOrder => DuplicatesSucceeded'
    BY <1>1, <2>1 DEF OutcomesExplained, DuplicatesSucceeded
  <2>5. SeqsInOrder => MapIsDone(lastSeqByDevice', Done)
    BY <1>10, LoadedClaims DEF Failed, OutcomesExplained
  <2> QED BY <2>2, <2>3, <2>4, <2>5 DEF OutcomesExplained
<1>11. ASSUME NEW o \in Outcome, TaskEnds(m, "ack"),
              outcomes' = [outcomes EXCEPT ![m] = @ \union {o}],
              o = "processed" => m \in Usable,
              o = "dropped" => ~SteadyAreas,
              SeqsInOrder => MapIsDone(lastSeqByDevice', Done \union {m}),
              (SeqsInOrder /\ o = "duplicate") =>
                \E i, j \in DOMAIN arrival :
                  i < j /\ arrival[i] = m /\ UserOf[arrival[j]] = UserOf[m]
       PROVE  OutcomesExplained'
  <2>1. pc'[m] = "idle" /\ Done' = Done \union {m} /\ \A x \in Msg : x # m => pc'[x] = pc[x]
    BY <1>1, <1>11, TaskEffects
  <2>2. outcomes'[m] = outcomes[m] \union {o} /\ \A x \in Msg : x # m => outcomes'[x] = outcomes[x]
    BY <1>1, <1>11, TaskEffects
  <2>3. AckedForAReason'
    <3>1. \A x \in Done' : outcomes'[x] # {}
      BY <1>3, <2>1, <2>2, DoneFacts DEF AckedForAReason
    <3>2. \A x \in Msg : x \in Done' \/ pc'[x] # "idle" => x \notin Malformed
      BY <1>2, <1>3, <2>1 DEF AckedForAReason
    <3>3. \A x \in Msg : "processed" \in outcomes'[x] \/ pc'[x] \in Located => x \in Usable
      BY <1>3, <1>11, <2>1, <2>2 DEF AckedForAReason, Located
    <3>4. SteadyAreas => \A x \in Msg : "dropped" \notin outcomes'[x]
      BY <1>3, <1>11, <2>2 DEF AckedForAReason
    <3> QED BY <1>1, <1>3, <3>1, <3>2, <3>3, <3>4 DEF AckedForAReason
  <2>4. SeqsInOrder => DuplicatesSucceeded'
    BY <1>1, <1>11, <2>2 DEF OutcomesExplained, DuplicatesSucceeded
  <2> QED BY <1>11, <2>1, <2>3, <2>4 DEF OutcomesExplained
<1>12. ASSUME NEW seqs, Finished(m, seqs) PROVE OutcomesExplained'
  <2>1. /\ TaskEnds(m, "ack") /\ outcomes' = [outcomes EXCEPT ![m] = @ \union {"processed"}]
        /\ lastSeqByDevice' = Remember(m, seqs)
    BY <1>12 DEF Finished, Finish
  <2>2. m \in Usable
    BY <1>2, <1>3, <1>12 DEF Finished, Passed, Usable, AckedForAReason, Located
  <2>3. /\ IsMap(seqs, Key, Nat)
        /\ SeqsInOrder => MapIsDone(seqs, Done)
    BY <1>2, <1>12, LoadedClaims, LoadedType DEF Finished, Passed, OutcomesExplained
  <2>4. SeqsInOrder => MapIsDone(lastSeqByDevice', Done \union {m})
    BY <2>1, <2>3, RememberClaims DEF SeqsInOrder
  <2> QED BY <1>11, <2>1, <2>2, <2>4 DEF Outcome
<1>13. ASSUME NEW seqs, Discarded(m, seqs) PROVE OutcomesExplained'
  <2>1. /\ TaskEnds(m, "ack") /\ outcomes' = [outcomes EXCEPT ![m] = @ \union {"duplicate"}]
        /\ lastSeqByDevice' = seqs /\ Loaded(m, seqs) /\ IsDuplicate(m, seqs)
    BY <1>13 DEF Discarded, Discard
  <2>2. SeqsInOrder => MapIsDone(seqs, Done \union {m})
    <3>1. SeqsInOrder => MapIsDone(seqs, Done)
      BY <2>1, LoadedClaims DEF OutcomesExplained
    <3> QED BY <3>1 DEF MapIsDone
  <2>3. ASSUME SeqsInOrder
        PROVE  \E i, j \in DOMAIN arrival :
                 i < j /\ arrival[i] = m /\ UserOf[arrival[j]] = UserOf[m]
    <3>1. /\ HasSeq(m) /\ KeyFor(m) \in DOMAIN lastSeqByDevice
          /\ SeqNoOf[m] <= lastSeqByDevice[KeyFor(m)]
      BY <2>1, <2>3, LoadedClaims DEF IsDuplicate
    <3>2. PICK y \in Done : Identity(y) = Identity(m) /\ SeqNoOf[y] >= SeqNoOf[m]
      BY <2>3, <3>1 DEF OutcomesExplained, MapIsDone
    <3>3. y # m /\ y \in ToSet(arrival) /\ m \in ToSet(arrival) /\ y \in Msg
      BY <1>1, <1>2, DoneFacts
    <3>4. PICK i \in DOMAIN arrival : arrival[i] = m
      BY <3>3 DEF ToSet
    <3>5. PICK j \in DOMAIN arrival : arrival[j] = y
      BY <3>3 DEF ToSet
    <3>6. HasSeq(y) /\ UserOf[y] = UserOf[m] /\ SeqNoOf[y] \in Nat /\ SeqNoOf[m] \in Nat
      BY <3>1, <3>2, <3>3, SeqTypes
    <3>7. DOMAIN arrival \subseteq Nat
      BY LenProperties DEF SerialInv, TypeOK, QueueTypeOK
    <3>8. ~(j < i)
      <4> SUFFICES ASSUME j < i PROVE FALSE
        OBVIOUS
      <4>1. SeqNoOf[y] < SeqNoOf[m]
        BY <1>3, <2>3, <3>2, <3>4, <3>5, <3>6 DEF SeqsInOrder, AckedForAReason
      <4> QED BY <3>2, <3>6, <4>1
    <3>9. i < j
      BY <3>3, <3>4, <3>5, <3>7, <3>8
    <3> QED BY <3>4, <3>5, <3>6, <3>9
  <2> QED BY <1>11, <2>1, <2>2, <2>3 DEF Outcome
<1>14. CASE FkViolation(m)
  <2>1. /\ TaskEnds(m, "ack") /\ outcomes' = [outcomes EXCEPT ![m] = @ \union {"dropped"}]
        /\ lastSeqByDevice' = lastSeqByDevice /\ ~ForeignKeysHold(UserOf[m], cur[m])
    BY <1>14 DEF FkViolation, DropStale, cacheVars
  <2>2. SeqsInOrder => MapIsDone(lastSeqByDevice, Done \union {m})
    BY DEF OutcomesExplained, MapIsDone
  <2>3. ~SteadyAreas
    <3>1. cur[m] \subseteq Area
      BY <1>2 DEF TypeOK, TaskTypeOK
    <3> QED BY <2>1, <3>1 DEF ForeignKeysHold, Entered, CurFits, AreasKnown
  <2> QED BY <1>11, <2>1, <2>2, <2>3 DEF Outcome
<1> QED BY <1>1, <1>5, <1>6, <1>7, <1>8, <1>9, <1>10, <1>12, <1>13, <1>14

\* A step that acks nothing and ends no task.
LEMMA ElsewhereOutcomes ==
    ASSUME OutcomesExplained, Done' \subseteq Done, UNCHANGED <<arrival, outcomes>>,
           \A m \in Msg : pc'[m] # "idle" => \/ pc'[m] = pc[m]
                                             \/ m \notin Malformed /\ pc'[m] = "queued",
           \/ lastSeqByDevice' = lastSeqByDevice /\ Done' = Done
           \/ lastSeqByDevice' = EmptyMap
    PROVE  OutcomesExplained'
<1>1. AckedForAReason
  BY DEF OutcomesExplained
<1>2. AckedForAReason'
  <2>1. \A x \in Msg : x \in Done' \/ pc'[x] # "idle" => x \notin Malformed
    BY <1>1 DEF AckedForAReason
  <2>2. \A x \in Msg : "processed" \in outcomes'[x] \/ pc'[x] \in Located => x \in Usable
    BY <1>1 DEF AckedForAReason, Located
  <2> QED BY <1>1, <2>1, <2>2 DEF AckedForAReason
<1>3. SeqsInOrder => DuplicatesSucceeded'
  BY DEF OutcomesExplained, DuplicatesSucceeded
<1>4. SeqsInOrder => MapIsDone(lastSeqByDevice', Done')
  <2>1. CASE lastSeqByDevice' = EmptyMap
    BY <2>1 DEF MapIsDone, EmptyMap
  <2> QED BY <2>1 DEF OutcomesExplained
<1> QED BY <1>2, <1>3, <1>4 DEF OutcomesExplained

\* Every step acks for a reason.
LEMMA NextOutcomes ==
    SerialInv /\ OrderInv /\ CurFits /\ OutcomesExplained /\ [Next]_vars => OutcomesExplained'
<1> SUFFICES ASSUME SerialInv, OrderInv, CurFits, OutcomesExplained, [Next]_vars
             PROVE  OutcomesExplained'
  OBVIOUS
<1> USE DEF queueVars, chainVars, cacheVars
<1>0. /\ wire \in Seq(Frame) /\ pc \in [Msg -> {"idle", "queued"} \union Busy]
      /\ (wire' = wire /\ acked' = acked => Done' = Done)
  BY DEF SerialInv, TypeOK, QueueTypeOK, TaskTypeOK, Done, AckSent
<1>1. ASSUME NEW m \in Msg, Deliver(m) PROVE OutcomesExplained'
  <2>1. acked' = acked /\ UNCHANGED <<arrival, outcomes, lastSeqByDevice>>
    BY <1>1 DEF Deliver, Push
  <2>2. Done' = Done
    <3>1. CASE wire' = Append(wire, [type |-> "nack", msg |-> m])
      BY <1>0, <2>1, <3>1, DoneGrows
    <3> QED BY <1>0, <1>1, <2>1, <3>1 DEF Deliver
  <2>3. \A x \in Msg : pc'[x] = pc[x] \/ (x \notin Malformed /\ pc'[x] = "queued")
    BY <1>0, <1>1 DEF Deliver
  <2> QED BY <2>1, <2>2, <2>3, ElsewhereOutcomes
<1>2. ASSUME NEW m \in Msg, TaskStep(m) \/ DbFails(m) \/ LostReply(m) PROVE OutcomesExplained'
  BY <1>2, TaskOutcomes
<1>3. CASE Settle
  <2>1. Done' = Done
    BY <1>3, SettleDone
  <2>2. UNCHANGED <<arrival, outcomes, lastSeqByDevice, pc>>
    BY <1>3 DEF Settle, ReadFrame
  <2> QED BY <2>1, <2>2, ElsewhereOutcomes
<1>4. CASE DeadLettered
  BY <1>0, <1>4, ElsewhereOutcomes DEF DeadLettered, DeadLetter
<1>5. CASE Crash \/ Close
  <2>1. /\ wire' = <<>> /\ acked' = acked /\ lastSeqByDevice' = EmptyMap
        /\ UNCHANGED <<arrival, outcomes>> /\ \A m \in Msg : pc'[m] = "idle"
    BY <1>5 DEF Crash, Close, ConnectionLost, ProcessEnds
  <2>2. Done' \subseteq Done
    BY <2>1 DEF Done, AckSent
  <2> QED BY <2>1, <2>2, ElsewhereOutcomes
<1>6. CASE Boot \/ Shutdown \/ Cancelled \/ SnapshotRebuilt
  BY <1>0, <1>6, ElsewhereOutcomes DEF Boot, Shutdown, Cancelled, SnapshotRebuilt
<1>7. ASSUME NEW a \in Area, AreaCreated(a) \/ AreaDeleted(a) PROVE OutcomesExplained'
  BY <1>0, <1>7, ElsewhereOutcomes DEF AreaCreated, AreaDeleted
<1>8. CASE UNCHANGED vars
  BY <1>0, <1>8, ElsewhereOutcomes DEF vars
<1> QED BY <1>1, <1>2, <1>3, <1>4, <1>5, <1>6, <1>7, <1>8 DEF Next

\* At the start nothing is acked.
LEMMA InitOutcomes == Init => OutcomesExplained
<1> SUFFICES ASSUME Init PROVE OutcomesExplained
  OBVIOUS
<1>1. Done = {} /\ arrival \in Arrivals
  BY DEF Init, QueueInit, Done, AckSent
<1>2. AckedForAReason
  BY <1>1 DEF Init, AckedForAReason, Located
<1>3. MapIsDone(lastSeqByDevice, Done) /\ DuplicatesSucceeded
  BY DEF Init, MapIsDone, EmptyMap, DuplicatesSucceeded
<1> QED BY <1>2, <1>3 DEF OutcomesExplained

-----------------------------------------------------------------------------
(***************************************************************************)
(* When deliveries lose their order: the dedup map discards what is late.  *)
(***************************************************************************)

\* One life of the process, with one counter for each user's events.
SeqKept ==
    SteadyAreas /\ SeqsInOrder /\ OneCounterPerUser /\ crashes + shutdowns + lost = 0

\* The map covers what is done, so a task past the gate is ahead of it.
MapCovers ==
    \A y \in Done : KeyFor(y) \in DOMAIN lastSeqByDevice /\ SeqNoOf[y] <= lastSeqByDevice[KeyFor(y)]
AheadOfDone(m) == \A y \in Done \intersect Usable : UserOf[y] = UserOf[m] => <<y, m>> \in Earlier
LateDiscarded ==
    SeqKept =>
      /\ phase # "cancelling" /\ phase # "draining"
      /\ MapCovers
      /\ \A m \in Msg : pc[m] = "dedup" => KeyFor(m) \notin DOMAIN lastSeqByDevice
      /\ \A m \in Msg : pc[m] \in Located => AheadOfDone(m)

\* Loading a key and remembering a seq lose nothing of the map.
LEMMA LoadedKeeps ==
    ASSUME NEW m \in Msg, NEW seqs, Loaded(m, seqs),
           pc[m] = "dedup" => KeyFor(m) \notin DOMAIN lastSeqByDevice
    PROVE  /\ \A k \in DOMAIN lastSeqByDevice : k \in DOMAIN seqs /\ seqs[k] = lastSeqByDevice[k]
           /\ DOMAIN seqs \subseteq DOMAIN lastSeqByDevice \union {KeyFor(m)}
           /\ HasSeq(m) => KeyFor(m) \in DOMAIN seqs
BY DEF Loaded, Put

\* Remembering a seq lowers no other, and covers the event.
LEMMA RememberKeeps ==
    ASSUME SeqsFromOne, NEW m \in Msg, HasSeq(m), NEW seqs, IsMap(seqs, Key, Nat)
    PROVE  /\ \A k \in DOMAIN seqs : k \in DOMAIN Remember(m, seqs) /\ seqs[k] <= Remember(m, seqs)[k]
           /\ DOMAIN Remember(m, seqs) \subseteq DOMAIN seqs \union {KeyFor(m)}
           /\ KeyFor(m) \in DOMAIN Remember(m, seqs) /\ SeqNoOf[m] <= Remember(m, seqs)[KeyFor(m)]
<1>1. /\ \A k \in DOMAIN seqs : seqs[k] \in Nat
      /\ SeqNoOf[m] \in Nat /\ SeqNoOf[m] # 0
  BY SeqTypes DEF IsMap, SeqsFromOne
<1> DEFINE known == IF KeyFor(m) \in DOMAIN seqs THEN seqs[KeyFor(m)] ELSE 0
<1>2. Remember(m, seqs) = IF SeqNoOf[m] > known THEN Put(seqs, KeyFor(m), SeqNoOf[m]) ELSE seqs
  BY DEF Remember
<1>3. CASE SeqNoOf[m] > known
  <2> DEFINE r == Put(seqs, KeyFor(m), SeqNoOf[m])
  <2>1. /\ DOMAIN r = DOMAIN seqs \union {KeyFor(m)}
        /\ r[KeyFor(m)] = SeqNoOf[m]
        /\ \A k \in DOMAIN seqs : k # KeyFor(m) => r[k] = seqs[k]
    BY DEF Put
  <2> HIDE DEF r
  <2>2. \A k \in DOMAIN seqs : seqs[k] <= r[k]
    BY <1>1, <1>3, <2>1
  <2>3. Remember(m, seqs) = r
    BY <1>2, <1>3 DEF r
  <2> QED BY <1>1, <2>1, <2>2, <2>3
<1>4. CASE ~(SeqNoOf[m] > known)
  <2>1. KeyFor(m) \in DOMAIN seqs /\ SeqNoOf[m] <= seqs[KeyFor(m)]
    BY <1>1, <1>4
  <2> QED BY <1>1, <1>2, <1>4, <2>1
<1> QED BY <1>3, <1>4

\* An event that goes through the gate is ahead of its user's events that are done.
LEMMA GateAhead ==
    ASSUME SerialInv, OrderInv, OutcomesExplained, SeqKept, LateDiscarded,
           NEW m \in Tasks, NEW seqs, Passed(m, seqs)
    PROVE  AheadOfDone(m)
<1> SUFFICES ASSUME NEW y \in Done \intersect Usable, UserOf[y] = UserOf[m]
             PROVE  <<y, m>> \in Earlier
  BY DEF AheadOfDone
<1>1. /\ m \in Msg /\ y \in Msg /\ y # m /\ y \in ToSet(arrival) /\ m \in ToSet(arrival)
  BY DoneFacts DEF Tasks
<1>2. Identity(y) = Identity(m) /\ HasSeq(m) /\ HasSeq(y) /\ KeyFor(y) = KeyFor(m)
  BY <1>1 DEF SeqKept, OneCounterPerUser, Identity, KeyFor
<1>3. KeyFor(m) \in DOMAIN lastSeqByDevice /\ SeqNoOf[y] <= lastSeqByDevice[KeyFor(m)]
  BY <1>2 DEF LateDiscarded, MapCovers
<1>4. seqs[KeyFor(m)] = lastSeqByDevice[KeyFor(m)]
  BY <1>1, <1>3, LoadedKeeps DEF Passed, LateDiscarded
<1>5. ~(SeqNoOf[m] <= lastSeqByDevice[KeyFor(m)])
  BY <1>2, <1>4 DEF Passed, IsDuplicate
<1>6. lastSeqByDevice[KeyFor(m)] \in Nat /\ SeqNoOf[m] \in Nat /\ SeqNoOf[y] \in Nat
  BY <1>1, <1>3, SeqTypes DEF SerialInv, TypeOK, CacheTypeOK, IsMap
<1>7. SeqNoOf[y] < SeqNoOf[m]
  BY <1>3, <1>5, <1>6
<1>8. m \in Usable /\ arrival \in Arrivals
  BY <1>1 DEF OutcomesExplained, AckedForAReason, Tasks, Passed, Usable
<1>9. <<m, y>> \notin Earlier
  <2> SUFFICES ASSUME <<m, y>> \in Earlier PROVE FALSE
    OBVIOUS
  <2>1. PICK i, j \in DOMAIN arrival : i < j /\ arrival[i] = m /\ arrival[j] = y
    BY DEF Earlier
  <2>2. SeqNoOf[m] < SeqNoOf[y]
    BY <1>2, <1>8, <2>1 DEF SeqKept, SeqsInOrder
  <2> QED BY <1>6, <1>7, <2>2
<1>10. m = y \/ <<m, y>> \in Earlier \/ <<y, m>> \in Earlier
  BY <1>1, <1>8, EarlierOrder DEF SerialInv, TypeOK, QueueTypeOK, OrderInv, Placed
<1> QED BY <1>1, <1>9, <1>10

\* A step of a task: what it lets past the gate is ahead of what is done, and
\* what it acks goes into the map.
LEMMA TaskLate ==
    ASSUME SerialInv, OrderInv, CurFits, OutcomesExplained, LateDiscarded, NEW m \in Msg,
           TaskStep(m) \/ DbFails(m) \/ LostReply(m)
    PROVE  LateDiscarded'
<1>1. /\ \/ Asked(m)
         \/ \E seqs : WentOn(m, seqs) \/ Finished(m, seqs) \/ Discarded(m, seqs)
         \/ Hinted(m) \/ Commit(m) \/ Reply(m) \/ FkViolation(m) \/ Failed(m)
      /\ m \in Tasks /\ after[m] = None
      /\ UNCHANGED <<acked, arrival, phase, crashes, shutdowns>>
      /\ lost' \in Nat /\ lost' >= lost
  BY TaskCases
<1>2. crashes \in Nat /\ shutdowns \in Nat /\ lost \in Nat /\ TypeOK
      /\ IsMap(lastSeqByDevice, Key, Nat)
  BY DEF SerialInv, TypeOK, BoundTypeOK, CacheTypeOK
<1> SUFFICES ASSUME SeqKept'
             PROVE  /\ MapCovers'
                    /\ \A x \in Msg : pc'[x] = "dedup" => KeyFor(x) \notin DOMAIN lastSeqByDevice'
                    /\ \A x \in Msg : pc'[x] \in Located => AheadOfDone(x)'
                    /\ phase' # "cancelling" /\ phase' # "draining"
  BY DEF LateDiscarded
<1>3. SeqKept
  <2>1. \A a, b, c, d \in Nat : a + b + c = 0 /\ c >= d => a + b + d = 0
    OBVIOUS
  <2>2. crashes + shutdowns + lost' = 0
    BY <1>1 DEF SeqKept
  <2>3. crashes + shutdowns + lost = 0
    BY <1>1, <1>2, <2>1, <2>2
  <2> QED BY <2>3 DEF SeqKept
<1>4. /\ phase # "cancelling" /\ phase # "draining" /\ MapCovers
      /\ \A x \in Msg : pc[x] = "dedup" => KeyFor(x) \notin DOMAIN lastSeqByDevice
      /\ \A x \in Msg : pc[x] \in Located => AheadOfDone(x)
  BY <1>3 DEF LateDiscarded
<1>5. Earlier' = Earlier /\ SeqsFromOne /\ KeysDistinct /\ HasSeq(m) /\ \A x \in Msg : HasSeq(x)
  BY <1>1, <1>3 DEF Earlier, SeqKept, SeqsInOrder, OneCounterPerUser
<1>6. \A x \in Msg : x # m /\ UserOf[x] = UserOf[m] => pc[x] \notin Busy
  BY <1>1, NoOtherRuns
<1>7. \A x \in Msg : KeyFor(x) = KeyFor(m) => UserOf[x] = UserOf[m]
  BY <1>5, SeqTypes DEF Identity
<1>8. ASSUME NEW b, pc'[m] = b, \A x \in Msg : x # m => pc'[x] = pc[x],
             \A k \in DOMAIN lastSeqByDevice :
               k \in DOMAIN lastSeqByDevice' /\ lastSeqByDevice[k] <= lastSeqByDevice'[k],
             DOMAIN lastSeqByDevice' \subseteq DOMAIN lastSeqByDevice \union {KeyFor(m)},
             IsMap(lastSeqByDevice', Key, Nat),
             b = "dedup" => KeyFor(m) \notin DOMAIN lastSeqByDevice',
             \/ Done' = Done /\ (b \in Located => AheadOfDone(m))
             \/ /\ Done' = Done \union {m} /\ b = "idle" /\ KeyFor(m) \in DOMAIN lastSeqByDevice'
                /\ SeqNoOf[m] <= lastSeqByDevice'[KeyFor(m)]
      PROVE  /\ MapCovers'
             /\ \A x \in Msg : pc'[x] = "dedup" => KeyFor(x) \notin DOMAIN lastSeqByDevice'
             /\ \A x \in Msg : pc'[x] \in Located => AheadOfDone(x)'
  <2>1. MapCovers'
    <3>1. ASSUME NEW y \in Done
          PROVE  KeyFor(y) \in DOMAIN lastSeqByDevice' /\ SeqNoOf[y] <= lastSeqByDevice'[KeyFor(y)]
      <4>1. /\ KeyFor(y) \in DOMAIN lastSeqByDevice /\ SeqNoOf[y] <= lastSeqByDevice[KeyFor(y)]
            /\ y \in Msg
        BY <1>4, DoneFacts DEF MapCovers
      <4>2. /\ lastSeqByDevice[KeyFor(y)] \in Nat /\ SeqNoOf[y] \in Nat
            /\ KeyFor(y) \in DOMAIN lastSeqByDevice' /\ lastSeqByDevice'[KeyFor(y)] \in Nat
            /\ lastSeqByDevice[KeyFor(y)] <= lastSeqByDevice'[KeyFor(y)]
        BY <1>2, <1>8, <4>1, SeqTypes DEF IsMap
      <4> QED BY <4>1, <4>2
    <3> QED BY <1>8, <3>1 DEF MapCovers
  <2>2. ASSUME NEW x \in Msg, pc'[x] = "dedup" PROVE KeyFor(x) \notin DOMAIN lastSeqByDevice'
    <3>1. CASE x = m
      BY <1>8, <2>2, <3>1
    <3>2. CASE x # m
      <4>1. pc[x] = "dedup" /\ KeyFor(x) # KeyFor(m)
        BY <1>6, <1>7, <1>8, <2>2, <3>2 DEF Busy
      <4> QED BY <1>4, <1>8, <4>1
    <3> QED BY <3>1, <3>2
  <2>3. ASSUME NEW x \in Msg, pc'[x] \in Located PROVE AheadOfDone(x)'
    <3>1. CASE x = m
      BY <1>5, <1>8, <2>3, <3>1 DEF AheadOfDone, Located
    <3>2. CASE x # m
      <4>1. pc[x] \in Located /\ UserOf[x] # UserOf[m] /\ AheadOfDone(x)
        BY <1>4, <1>6, <1>8, <2>3, <3>2 DEF Located, Busy
      <4> QED BY <1>5, <1>8, <4>1 DEF AheadOfDone
    <3> QED BY <3>1, <3>2
  <2> QED BY <2>1, <2>2, <2>3
<1>9. /\ \A k \in DOMAIN lastSeqByDevice : lastSeqByDevice[k] <= lastSeqByDevice[k]
      /\ \A seqs : Loaded(m, seqs) =>
           /\ \A k \in DOMAIN lastSeqByDevice : k \in DOMAIN seqs /\ lastSeqByDevice[k] <= seqs[k]
           /\ DOMAIN seqs \subseteq DOMAIN lastSeqByDevice \union {KeyFor(m)}
           /\ IsMap(seqs, Key, Nat)
           /\ KeyFor(m) \in DOMAIN seqs
  <2>1. \A k \in DOMAIN lastSeqByDevice : lastSeqByDevice[k] <= lastSeqByDevice[k]
    BY <1>2 DEF IsMap
  <2>2. ASSUME NEW seqs, Loaded(m, seqs)
        PROVE  /\ \A k \in DOMAIN lastSeqByDevice : k \in DOMAIN seqs /\ lastSeqByDevice[k] <= seqs[k]
               /\ DOMAIN seqs \subseteq DOMAIN lastSeqByDevice \union {KeyFor(m)}
               /\ IsMap(seqs, Key, Nat)
               /\ KeyFor(m) \in DOMAIN seqs
    BY <1>2, <1>4, <1>5, <2>1, <2>2, LoadedKeeps, LoadedType
  <2> QED BY <2>1, <2>2
<1>10. CASE Asked(m)
  <2>1. /\ pc'[m] = "dedup" /\ \A x \in Msg : x # m => pc'[x] = pc[x]
        /\ Done' = Done
    BY <1>1, <1>10, TaskEffects DEF Asked
  <2> QED BY <1>1, <1>2, <1>4, <1>8, <1>9, <1>10, <2>1 DEF Asked, Located
<1>11. ASSUME NEW seqs, WentOn(m, seqs)
       PROVE  /\ MapCovers'
              /\ \A x \in Msg : pc'[x] = "dedup" => KeyFor(x) \notin DOMAIN lastSeqByDevice'
              /\ \A x \in Msg : pc'[x] \in Located => AheadOfDone(x)'
  <2>1. PICK b \in {"hint", "txn"} : pc' = [pc EXCEPT ![m] = b]
    BY <1>11 DEF WentOn
  <2>2. pc'[m] = b /\ (\A x \in Msg : x # m => pc'[x] = pc[x]) /\ Done' = Done
    BY <1>1, <1>11, <2>1, TaskEffects DEF WentOn
  <2>3. AheadOfDone(m) /\ Loaded(m, seqs) /\ lastSeqByDevice' = seqs
    BY <1>1, <1>3, <1>11, GateAhead DEF WentOn, Passed
  <2> QED BY <1>8, <1>9, <2>2, <2>3
<1>12. CASE Hinted(m) \/ Commit(m) \/ Reply(m)
  <2>1. PICK b \in {"txn", "reply", "del"} : pc' = [pc EXCEPT ![m] = b]
    BY <1>12 DEF Hinted, Commit, Reply
  <2>2. wire' = wire /\ lastSeqByDevice' = lastSeqByDevice /\ pc[m] \in Located
    BY <1>12 DEF Hinted, Commit, Reply, queueVars, cacheVars, Located
  <2>3. pc'[m] = b /\ (\A x \in Msg : x # m => pc'[x] = pc[x]) /\ Done' = Done
    BY <1>1, <2>1, <2>2, TaskEffects
  <2> QED BY <1>1, <1>2, <1>4, <1>8, <1>9, <2>2, <2>3
<1>13. CASE Failed(m)
  <2>1. pc'[m] = "idle" /\ (\A x \in Msg : x # m => pc'[x] = pc[x]) /\ Done' = Done
    BY <1>1, <1>13, TaskEffects DEF Failed, Fail
  <2>2. lastSeqByDevice' = lastSeqByDevice \/ \E seqs : Loaded(m, seqs) /\ lastSeqByDevice' = seqs
    BY <1>13 DEF Failed
  <2>3. CASE lastSeqByDevice' = lastSeqByDevice
    BY <1>1, <1>2, <1>4, <1>8, <1>9, <2>1, <2>3 DEF Located
  <2>4. ASSUME NEW seqs, Loaded(m, seqs), lastSeqByDevice' = seqs
        PROVE  /\ MapCovers'
               /\ \A x \in Msg : pc'[x] = "dedup" => KeyFor(x) \notin DOMAIN lastSeqByDevice'
               /\ \A x \in Msg : pc'[x] \in Located => AheadOfDone(x)'
    BY <1>8, <1>9, <2>1, <2>4 DEF Located
  <2> QED BY <1>1, <1>4, <2>2, <2>3, <2>4
<1>14. ASSUME NEW seqs, Finished(m, seqs)
       PROVE  /\ MapCovers'
              /\ \A x \in Msg : pc'[x] = "dedup" => KeyFor(x) \notin DOMAIN lastSeqByDevice'
              /\ \A x \in Msg : pc'[x] \in Located => AheadOfDone(x)'
  <2>1. pc'[m] = "idle" /\ (\A x \in Msg : x # m => pc'[x] = pc[x]) /\ Done' = Done \union {m}
    BY <1>1, <1>14, TaskEffects DEF Finished, Finish
  <2>2. /\ \A k \in DOMAIN lastSeqByDevice : k \in DOMAIN seqs /\ lastSeqByDevice[k] <= seqs[k]
        /\ DOMAIN seqs \subseteq DOMAIN lastSeqByDevice \union {KeyFor(m)}
        /\ IsMap(seqs, Key, Nat)
    BY <1>2, <1>9, <1>14 DEF Finished, Passed
  <2> DEFINE r == Remember(m, seqs)
  <2>3. /\ \A k \in DOMAIN seqs : k \in DOMAIN r /\ seqs[k] <= r[k]
        /\ DOMAIN r \subseteq DOMAIN seqs \union {KeyFor(m)}
        /\ KeyFor(m) \in DOMAIN r /\ SeqNoOf[m] <= r[KeyFor(m)]
        /\ IsMap(r, Key, Nat)
    BY <1>5, <2>2, RememberKeeps, RememberType
  <2>4. lastSeqByDevice' = r
    BY <1>14 DEF Finished, Finish
  <2> HIDE DEF r
  <2>5. \A k \in DOMAIN lastSeqByDevice : k \in DOMAIN r /\ lastSeqByDevice[k] <= r[k]
    <3> SUFFICES ASSUME NEW k \in DOMAIN lastSeqByDevice PROVE k \in DOMAIN r /\ lastSeqByDevice[k] <= r[k]
      OBVIOUS
    <3>1. /\ k \in DOMAIN seqs /\ lastSeqByDevice[k] <= seqs[k] /\ k \in DOMAIN r /\ seqs[k] <= r[k]
          /\ lastSeqByDevice[k] \in Nat /\ seqs[k] \in Nat /\ r[k] \in Nat
      BY <1>2, <2>2, <2>3 DEF IsMap
    <3> QED BY <3>1
  <2>6. DOMAIN r \subseteq DOMAIN lastSeqByDevice \union {KeyFor(m)}
    BY <2>2, <2>3
  <2> QED BY <1>8, <2>1, <2>3, <2>4, <2>5, <2>6
<1>15. ASSUME NEW seqs, Discarded(m, seqs)
       PROVE  /\ MapCovers'
              /\ \A x \in Msg : pc'[x] = "dedup" => KeyFor(x) \notin DOMAIN lastSeqByDevice'
              /\ \A x \in Msg : pc'[x] \in Located => AheadOfDone(x)'
  <2>1. pc'[m] = "idle" /\ (\A x \in Msg : x # m => pc'[x] = pc[x]) /\ Done' = Done \union {m}
    BY <1>1, <1>15, TaskEffects DEF Discarded, Discard
  <2>2. lastSeqByDevice' = seqs /\ Loaded(m, seqs) /\ SeqNoOf[m] <= seqs[KeyFor(m)]
    BY <1>15 DEF Discarded, Discard, IsDuplicate
  <2> QED BY <1>8, <1>9, <2>1, <2>2
<1>16. ~FkViolation(m)
  <2>1. cur[m] \subseteq Area
    BY <1>2 DEF TypeOK, TaskTypeOK
  <2> QED BY <1>3, <2>1 DEF FkViolation, ForeignKeysHold, Entered, CurFits, AreasKnown, SeqKept
<1> QED BY <1>1, <1>4, <1>10, <1>11, <1>12, <1>13, <1>14, <1>15, <1>16

\* A step that acks nothing, moves no task past the gate and leaves the map alone.
LEMMA ElsewhereLate ==
    ASSUME LateDiscarded, SeqKept' => SeqKept, Done' = Done,
           UNCHANGED <<arrival, lastSeqByDevice>>,
           \A m \in Msg : pc'[m] = pc[m] \/ pc'[m] = "queued" \/ pc'[m] = "idle",
           phase' = phase \/ phase' = "up"
    PROVE  LateDiscarded'
<1> SUFFICES ASSUME SeqKept'
             PROVE  /\ phase' # "cancelling" /\ phase' # "draining"
                    /\ MapCovers'
                    /\ \A m \in Msg : pc'[m] = "dedup" => KeyFor(m) \notin DOMAIN lastSeqByDevice'
                    /\ \A m \in Msg : pc'[m] \in Located => AheadOfDone(m)'
  BY DEF LateDiscarded
<1>1. /\ phase # "cancelling" /\ phase # "draining" /\ MapCovers
      /\ \A m \in Msg : pc[m] = "dedup" => KeyFor(m) \notin DOMAIN lastSeqByDevice
      /\ \A m \in Msg : pc[m] \in Located => AheadOfDone(m)
  BY DEF LateDiscarded
<1>2. Earlier' = Earlier
  BY DEF Earlier
<1>3. MapCovers'
  BY <1>1 DEF MapCovers
<1>4. \A m \in Msg : pc'[m] = "dedup" => KeyFor(m) \notin DOMAIN lastSeqByDevice'
  BY <1>1
<1>5. ASSUME NEW m \in Msg, pc'[m] \in Located PROVE AheadOfDone(m)'
  <2>1. pc[m] \in Located
    BY <1>5 DEF Located
  <2>2. AheadOfDone(m)
    BY <1>1, <2>1
  <2> QED BY <1>2, <2>2 DEF AheadOfDone
<1> QED BY <1>1, <1>3, <1>4, <1>5

\* Every step keeps late deliveries behind the map.
LEMMA NextLate ==
    SerialInv /\ OrderInv /\ CurFits /\ OutcomesExplained /\ LateDiscarded /\ [Next]_vars
      => LateDiscarded'
<1> SUFFICES ASSUME SerialInv, OrderInv, CurFits, OutcomesExplained, LateDiscarded, [Next]_vars
             PROVE  LateDiscarded'
  OBVIOUS
<1> USE DEF queueVars, processVars, chainVars, cacheVars, boundVars
<1>0. /\ wire \in Seq(Frame) /\ pc \in [Msg -> {"idle", "queued"} \union Busy]
      /\ crashes \in Nat /\ shutdowns \in Nat /\ lost \in Nat
      /\ (wire' = wire /\ acked' = acked => Done' = Done)
      /\ (UNCHANGED <<crashes, shutdowns, lost>> => (SeqKept' => SeqKept))
  BY DEF SerialInv, TypeOK, QueueTypeOK, TaskTypeOK, BoundTypeOK, Done, AckSent, SeqKept
<1>1. ASSUME NEW m \in Msg, Deliver(m) PROVE LateDiscarded'
  <2>1. /\ acked' = acked /\ UNCHANGED <<arrival, lastSeqByDevice, phase>>
        /\ UNCHANGED <<crashes, shutdowns, lost>>
    BY <1>1 DEF Deliver, Push
  <2>2. Done' = Done
    <3>1. CASE wire' = Append(wire, [type |-> "nack", msg |-> m])
      BY <1>0, <2>1, <3>1, DoneGrows
    <3> QED BY <1>0, <1>1, <2>1, <3>1 DEF Deliver
  <2>3. \A x \in Msg : pc'[x] = pc[x] \/ pc'[x] = "queued"
    BY <1>0, <1>1 DEF Deliver
  <2> QED BY <1>0, <2>1, <2>2, <2>3, ElsewhereLate
<1>2. ASSUME NEW m \in Msg, TaskStep(m) \/ DbFails(m) \/ LostReply(m) PROVE LateDiscarded'
  BY <1>2, TaskLate
<1>3. CASE Settle
  <2>1. Done' = Done
    BY <1>3, SettleDone
  <2>2. UNCHANGED <<arrival, phase, lastSeqByDevice, pc, crashes, shutdowns, lost>>
    BY <1>3 DEF Settle, ReadFrame
  <2> QED BY <1>0, <2>1, <2>2, ElsewhereLate
<1>4. CASE DeadLettered
  BY <1>0, <1>4, ElsewhereLate DEF DeadLettered, DeadLetter
<1>5. CASE Crash \/ Shutdown
  <2>1. /\ crashes' \in Nat /\ shutdowns' \in Nat /\ lost' \in Nat
        /\ crashes' > 0 \/ shutdowns' > 0
    BY <1>0, <1>5 DEF Crash, Shutdown
  <2>2. \A a, b, c \in Nat : a > 0 \/ b > 0 => a + b + c # 0
    OBVIOUS
  <2>3. ~SeqKept'
    BY <2>1, <2>2 DEF SeqKept
  <2> QED BY <2>3 DEF LateDiscarded
<1>6. CASE Cancelled \/ Close
  <2>1. ~SeqKept
    BY <1>6 DEF Cancelled, Close, LateDiscarded
  <2>2. UNCHANGED <<crashes, shutdowns, lost>>
    BY <1>6 DEF Cancelled, Close
  <2>3. ~SeqKept'
    BY <1>0, <2>1, <2>2
  <2> QED BY <2>3 DEF LateDiscarded
<1>7. CASE Boot \/ SnapshotRebuilt
  BY <1>0, <1>7, ElsewhereLate DEF Boot, SnapshotRebuilt
<1>8. ASSUME NEW a \in Area, AreaCreated(a) \/ AreaDeleted(a) PROVE LateDiscarded'
  BY <1>0, <1>8, ElsewhereLate DEF AreaCreated, AreaDeleted
<1>9. CASE UNCHANGED vars
  BY <1>0, <1>9, ElsewhereLate DEF vars
<1> QED BY <1>1, <1>2, <1>3, <1>4, <1>5, <1>6, <1>7, <1>8, <1>9 DEF Next

\* At the start nothing is done and nothing runs.
LEMMA InitLate == Init => LateDiscarded
<1> SUFFICES ASSUME Init PROVE LateDiscarded
  OBVIOUS
<1>1. Done = {}
  BY DEF Init, QueueInit, Done, AckSent
<1> QED BY <1>1 DEF Init, LateDiscarded, MapCovers, Located

-----------------------------------------------------------------------------
(***************************************************************************)
(* Where a user's latest event leaves it.                                  *)
(***************************************************************************)

\* The user is where event x says, as far as the areas that were there all
\* along go, and nowhere else.
Fits(u, x) ==
    /\ Cover[x] \intersect InitialAreas \intersect Live \subseteq presence[u]
    /\ presence[u] \subseteq Cover[x]

\* Every usable event of the user that is done arrived before x, or is x.
Latest(x) ==
    /\ x \in ToSet(arrival) \intersect Usable
    /\ \A y \in Done \intersect Usable : (UserOf[y] = UserOf[x] /\ y # x) => <<y, x>> \in Earlier

\* What keeps the latest position in place: the order, or the map.
PlaceKept == (faults + lost = 0 /\ crashes <= 1) \/ SeqKept

\* Once an event of a user is done, the table holds the position of an event no
\* done one is later than, unless that event was dropped or discarded.
PlacedBy(y, x) ==
    UserOf[x] = UserOf[y] /\ Latest(x) /\ (Fits(UserOf[y], x) \/ outcomes[x] # {"processed"})
PlaceInv == PlaceKept => \A y \in Done \intersect Usable : \E x \in Msg : PlacedBy(y, x)

\* A report that finds nothing to do, or has done it, leaves its user in place.
LEMMA FinishFits ==
    ASSUME SerialInv, MemoryInv, CurFits, lost = 0, NEW m \in Tasks, after[m] = None,
           NEW seqs, Finished(m, seqs)
    PROVE  Fits(UserOf[m], m)
<1> DEFINE u == UserOf[m]
<1>1. /\ m \in Msg /\ u \in User /\ presence[u] \subseteq Live /\ Live \subseteq Area
      /\ pc[m] # "idle" /\ phase # "down" /\ InitialAreas \intersect Live \subseteq snapshot
      /\ blind = {}
  BY WorkerAssumption
  DEF WorkerAssumption, Tasks, MemoryInv, RowsRefer, Live, CurFits, AreasKnown
<1>2. CASE Passed(m, seqs) /\ u \in DOMAIN memory /\ memory[u] = Cover[m] \intersect snapshot
  <2>1. \A x \in Msg : UserOf[x] = u => pc[x] # "reply"
    <3>1. pc[m] # "reply"
      BY <1>2 DEF Passed, Loaded
    <3>2. \A x \in Msg : x # m /\ UserOf[x] = u => pc[x] \notin Busy
      BY NoOtherRuns
    <3> QED BY <3>1, <3>2 DEF Busy
  <2>2. memory[u] \intersect Live = presence[u]
    BY <1>1, <1>2, <2>1 DEF MemoryInv, MemoryTracksPresence
  <2> QED BY <1>1, <1>2, <2>2 DEF Fits
<1>3. CASE pc[m] = "hint" /\ cur[m] = presence[u]
  BY <1>1, <1>3 DEF CurFits, CurCovers, Located, Fits
<1>4. CASE pc[m] = "del"
  BY <1>1, <1>4 DEF CurFits, CurCovers, CurCommitted, Located, Fits
<1> QED BY <1>2, <1>3, <1>4 DEF Finished

\* A transaction puts its user where its event says.
LEMMA CommitFits ==
    ASSUME SerialInv, CurFits, NEW m \in Msg, Commit(m)
    PROVE  /\ Fits(UserOf[m], m)'
           /\ \A u \in User : u # UserOf[m] => presence'[u] = presence[u]
<1>1. /\ pc[m] = "txn" /\ Transition(UserOf[m], cur[m], <<m, returned[m]>>)
      /\ UserOf[m] \in User /\ presence \in [User -> SUBSET Area]
  BY WorkerAssumption DEF Commit, WorkerAssumption, SerialInv, TypeOK, TableTypeOK
<1>2. presence'[UserOf[m]] = cur[m] /\ \A u \in User : u # UserOf[m] => presence'[u] = presence[u]
  BY <1>1 DEF Transition, Entered, Departed
<1>3. Live' = Live
  BY <1>1 DEF Transition, Live
<1>4. Cover[m] \intersect InitialAreas \intersect Live \subseteq cur[m] /\ cur[m] \subseteq Cover[m]
  BY <1>1 DEF CurFits, CurCovers, Located
<1> QED BY <1>2, <1>3, <1>4 DEF Fits

\* A task past the gates is ahead of what is done, because deliveries keep the
\* order or because the gate discards what is late.
LEMMA RunnerAhead ==
    ASSUME SerialInv, OrderInv, OutcomesExplained, LateDiscarded, PlaceKept,
           NEW m \in Tasks, pc[m] \in Located \/ \E seqs : Passed(m, seqs)
    PROVE  AheadOfDone(m) /\ m \in Usable /\ m \in ToSet(arrival)
<1>1. m \in Msg /\ m \in ToSet(arrival) /\ Done \intersect Tasks = {} /\ Tasks \subseteq Out
  BY DoneFacts, MessagesOut DEF Tasks, Out
<1>2. m \in Usable
  <2>1. m \notin Malformed /\ (pc[m] \in Located => m \in Usable)
    BY <1>1 DEF OutcomesExplained, AckedForAReason, Tasks
  <2> QED BY <1>1, <2>1 DEF Passed, Usable
<1>3. CASE SeqKept
  <2>1. CASE pc[m] \in Located
    BY <1>1, <1>2, <1>3, <2>1 DEF LateDiscarded
  <2>2. ASSUME NEW seqs, Passed(m, seqs) PROVE AheadOfDone(m)
    BY <1>3, <2>2, GateAhead
  <2> QED BY <1>1, <1>2, <2>1, <2>2
<1>4. CASE ~SeqKept
  <2>0. InOrder
    BY <1>4 DEF PlaceKept, OrderInv, OrderKept
  <2> SUFFICES ASSUME NEW y \in Done \intersect Usable, UserOf[y] = UserOf[m]
               PROVE  <<y, m>> \in Earlier
    BY <1>1, <1>2 DEF AheadOfDone
  <2>1. y \in Msg /\ y \in ToSet(arrival) /\ y # m
    BY <1>1, DoneFacts
  <2>2. <<m, y>> \notin Earlier
    <3>1. y \in acked \/ y \in Framed
      BY DoneFacts DEF Done
    <3> QED BY <1>1, <2>0, <2>1, <3>1 DEF InOrder
  <2>3. m = y \/ <<m, y>> \in Earlier \/ <<y, m>> \in Earlier
    BY <1>1, <1>2, <2>1, EarlierOrder DEF SerialInv, TypeOK, QueueTypeOK, OrderInv, Placed
  <2> QED BY <2>1, <2>2, <2>3
<1> QED BY <1>3, <1>4

\* A step that acks nothing and moves nobody, but for the areas that come and go.
LEMMA ElsewherePlace ==
    ASSUME PlaceInv, PlaceKept' => PlaceKept, Done' \subseteq Done, UNCHANGED <<arrival, outcomes>>,
           \A x \in Msg : \A u \in User : Fits(u, x) => Fits(u, x)'
    PROVE  PlaceInv'
<1> SUFFICES ASSUME PlaceKept', NEW y \in Done' \intersect Usable PROVE \E x \in Msg : PlacedBy(y, x)'
  BY DEF PlaceInv
<1>1. PICK x \in Msg : PlacedBy(y, x)
  BY DEF PlaceInv
<1>2. Earlier' = Earlier
  BY DEF Earlier
<1>3. Latest(x)'
  BY <1>1, <1>2 DEF PlacedBy, Latest
<1>4. UserOf[y] \in User
  BY WorkerAssumption DEF WorkerAssumption, Usable
<1> QED BY <1>1, <1>3, <1>4 DEF PlacedBy

\* A task acks its event: the table has its position, or it was not processed.
LEMMA AckPlaces ==
    ASSUME SerialInv, OrderInv, PlaceInv, PlaceKept' => PlaceKept, NEW m \in Tasks,
           Done' = Done \union {m}, UNCHANGED <<arrival, presence, areaState>>,
           \A x \in Msg : x # m => outcomes'[x] = outcomes[x],
           \/ outcomes'[m] # {"processed"}
           \/ PlaceKept => AheadOfDone(m) /\ m \in Usable /\ Fits(UserOf[m], m)
    PROVE  PlaceInv'
<1> SUFFICES ASSUME PlaceKept', NEW y \in Done' \intersect Usable PROVE \E x \in Msg : PlacedBy(y, x)'
  BY DEF PlaceInv
<1>1. /\ m \in Msg /\ m \in ToSet(arrival) /\ m \notin Done /\ Done \subseteq ToSet(arrival)
      /\ Done \subseteq Msg
  BY DoneFacts DEF Tasks
<1>2. Earlier' = Earlier /\ (\A x \in Msg : \A u \in User : Fits(u, x)' = Fits(u, x))
  BY DEF Earlier, Fits, Live
<1>3. /\ \A x, z, t : <<x, z>> \in Earlier /\ <<z, t>> \in Earlier => <<x, t>> \in Earlier
      /\ \A x : <<x, x>> \notin Earlier
      /\ \A x, z \in ToSet(arrival) \intersect Usable :
           UserOf[x] = UserOf[z] => x = z \/ <<x, z>> \in Earlier \/ <<z, x>> \in Earlier
  BY EarlierOrder DEF SerialInv, TypeOK, QueueTypeOK, OrderInv, Placed
<1>4. ASSUME NEW x \in Msg, PlacedBy(y, x),
             (m \in Usable /\ UserOf[m] = UserOf[y]) => <<m, x>> \in Earlier,
             x # m
      PROVE  PlacedBy(y, x)'
  <2>1. Latest(x)'
    BY <1>2, <1>4 DEF PlacedBy, Latest
  <2>2. UserOf[y] \in User
    BY WorkerAssumption DEF WorkerAssumption, Usable
  <2> QED BY <1>2, <1>4, <2>1, <2>2 DEF PlacedBy
<1>5. CASE ~(m \in Usable /\ UserOf[m] = UserOf[y])
  <2>1. y \in Done
    BY <1>5
  <2>2. PICK x \in Msg : PlacedBy(y, x)
    BY <2>1 DEF PlaceInv
  <2>3. x # m
    BY <1>5, <2>2 DEF PlacedBy, Latest
  <2> QED BY <1>4, <1>5, <2>2, <2>3
<1>6. CASE m \in Usable /\ UserOf[m] = UserOf[y] /\ AheadOfDone(m)
  <2>1. Latest(m)'
    BY <1>1, <1>2, <1>6 DEF Latest, AheadOfDone
  <2>2. UserOf[m] \in User
    BY <1>1, WorkerAssumption DEF WorkerAssumption
  <2>3. Fits(UserOf[y], m)' \/ outcomes'[m] # {"processed"}
    BY <1>1, <1>2, <1>6, <2>2
  <2> QED BY <1>1, <1>6, <2>1, <2>3 DEF PlacedBy
<1>7. CASE m \in Usable /\ UserOf[m] = UserOf[y] /\ ~AheadOfDone(m)
  <2>1. PICK z \in Done \intersect Usable : UserOf[z] = UserOf[m] /\ <<z, m>> \notin Earlier
    BY <1>7 DEF AheadOfDone
  <2>2. <<m, z>> \in Earlier
    BY <1>1, <1>3, <1>7, <2>1
  <2>3. PICK x \in Msg : PlacedBy(z, x)
    BY <2>1 DEF PlaceInv
  <2>4. <<m, x>> \in Earlier
    BY <1>3, <2>1, <2>2, <2>3 DEF PlacedBy, Latest
  <2>5. x # m
    BY <1>3, <2>4
  <2>6. PlacedBy(y, x)
    BY <1>7, <2>1, <2>3 DEF PlacedBy
  <2> QED BY <1>4, <2>4, <2>5, <2>6
<1> QED BY <1>5, <1>6, <1>7

\* A step of a task keeps the latest position in place.
LEMMA TaskPlace ==
    ASSUME SerialInv, OrderInv, MemoryInv, CurFits, OutcomesExplained, LateDiscarded, PlaceInv,
           NEW m \in Msg, TaskStep(m) \/ DbFails(m) \/ LostReply(m)
    PROVE  PlaceInv'
<1>1. /\ \/ Asked(m)
         \/ \E seqs : WentOn(m, seqs) \/ Finished(m, seqs) \/ Discarded(m, seqs)
         \/ Hinted(m) \/ Commit(m) \/ Reply(m) \/ FkViolation(m) \/ Failed(m)
      /\ m \in Tasks /\ after[m] = None
      /\ UNCHANGED <<acked, arrival, areaState, crashes, shutdowns>>
      /\ faults' \in Nat /\ lost' \in Nat /\ faults' >= faults /\ lost' >= lost
  BY TaskCases
<1>2. crashes \in Nat /\ shutdowns \in Nat /\ faults \in Nat /\ lost \in Nat
  BY DEF SerialInv, TypeOK, BoundTypeOK
<1>3. PlaceKept' => PlaceKept
  <2>1. \A a, b, c, d \in Nat : a + b = 0 /\ a >= c /\ b >= d => c + d = 0
    OBVIOUS
  <2>2. \A a, b, c, d \in Nat : a + b + c = 0 /\ c >= d => a + b + d = 0
    OBVIOUS
  <2>3. faults' + lost' = 0 => faults + lost = 0
    BY <1>1, <1>2, <2>1
  <2>4. ASSUME crashes + shutdowns + lost' = 0 PROVE crashes + shutdowns + lost = 0
    <3>1. lost' \in Nat /\ lost' >= lost
      BY <1>1
    <3> QED BY <1>2, <2>2, <2>4, <3>1
  <2> QED BY <1>1, <2>3, <2>4 DEF PlaceKept, SeqKept
<1>4. PlaceKept => lost = 0
  <2>1. \A a, b, c \in Nat : (a + b = 0 => b = 0) /\ (c + a + b = 0 => b = 0)
    OBVIOUS
  <2>2. CASE faults + lost = 0
    BY <1>2, <2>1, <2>2
  <2>3. CASE crashes + shutdowns + lost = 0
    BY <1>2, <2>1, <2>3
  <2> QED BY <2>2, <2>3 DEF PlaceKept, SeqKept
<1>5. ASSUME Done' = Done, UNCHANGED <<outcomes, presence>> PROVE PlaceInv'
  <2>1. \A x \in Msg : \A u \in User : Fits(u, x)' = Fits(u, x)
    BY <1>1, <1>5 DEF Fits, Live
  <2> QED BY <1>1, <1>3, <1>5, <2>1, ElsewherePlace
<1>6. CASE Asked(m) \/ Hinted(m) \/ Reply(m) \/ \E seqs : WentOn(m, seqs)
  <2>1. wire' = wire /\ UNCHANGED <<outcomes, presence>>
    BY <1>6 DEF Asked, Hinted, Reply, WentOn, queueVars, tableVars
  <2>2. Done' = Done
    BY <1>1, <2>1, TaskEffects
  <2> QED BY <1>5, <2>1, <2>2
<1>7. CASE Failed(m)
  <2>1. Done' = Done /\ UNCHANGED <<outcomes, presence>>
    BY <1>1, <1>7, TaskEffects DEF Failed, Fail
  <2> QED BY <1>5, <2>1
<1>8. CASE Commit(m)
  <2>1. wire' = wire /\ outcomes' = outcomes /\ pc[m] = "txn"
    BY <1>8 DEF Commit, queueVars
  <2>2. Done' = Done
    BY <1>1, <2>1, TaskEffects
  <2>3. Fits(UserOf[m], m)' /\ \A u \in User : u # UserOf[m] => presence'[u] = presence[u]
    BY <1>8, CommitFits
  <2>4. Earlier' = Earlier /\ Live' = Live
    BY <1>1 DEF Earlier, Live
  <2> SUFFICES ASSUME PlaceKept', NEW y \in Done \intersect Usable PROVE \E x \in Msg : PlacedBy(y, x)'
    BY <2>2 DEF PlaceInv
  <2>5. CASE UserOf[y] = UserOf[m]
    <3>1. AheadOfDone(m) /\ m \in Usable /\ m \in ToSet(arrival)
      BY <1>1, <1>3, <2>1, RunnerAhead DEF Located
    <3>2. Latest(m)'
      BY <1>1, <2>2, <2>4, <3>1 DEF Latest, AheadOfDone
    <3> QED BY <2>3, <2>5, <3>2 DEF PlacedBy
  <2>6. CASE UserOf[y] # UserOf[m]
    <3>1. PICK x \in Msg : PlacedBy(y, x)
      BY <1>3 DEF PlaceInv
    <3>2. Latest(x)'
      BY <1>1, <2>2, <2>4, <3>1 DEF Latest, PlacedBy
    <3>3. UserOf[y] \in User
      BY WorkerAssumption DEF WorkerAssumption, Usable
    <3>4. Fits(UserOf[y], x)' = Fits(UserOf[y], x)
      BY <2>3, <2>4, <2>6, <3>3 DEF Fits
    <3> QED BY <2>1, <3>1, <3>2, <3>4 DEF PlacedBy
  <2> QED BY <2>5, <2>6
<1>9. ASSUME NEW seqs, Finished(m, seqs) PROVE PlaceInv'
  <2>1. Done' = Done \union {m} /\ presence' = presence
    BY <1>1, <1>9, TaskEffects DEF Finished, Finish
  <2>2. \A x \in Msg : x # m => outcomes'[x] = outcomes[x]
    BY <1>1, <1>9, TaskEffects DEF Finished, Finish
  <2>3. pc[m] \in Located \/ Passed(m, seqs)
    BY <1>9 DEF Finished, Located
  <2>4. PlaceKept => AheadOfDone(m) /\ m \in Usable /\ Fits(UserOf[m], m)
    BY <1>1, <1>4, <1>9, <2>3, RunnerAhead, FinishFits
  <2> QED BY <1>1, <1>3, <2>1, <2>2, <2>4, AckPlaces
<1>10. ASSUME NEW o \in {"duplicate", "dropped"}, TaskEnds(m, "ack"),
              outcomes' = [outcomes EXCEPT ![m] = @ \union {o}], presence' = presence
       PROVE  PlaceInv'
  <2>1. Done' = Done \union {m}
    <3>1. \A t \in {"ack", "nack"} : TaskEnds(m, t) => Done' = IF t = "ack" THEN Done \union {m} ELSE Done
      BY <1>1, TaskEffects
    <3> QED BY <1>10, <3>1
  <2>2. o \in outcomes'[m] /\ \A x \in Msg : x # m => outcomes'[x] = outcomes[x]
    <3>1. outcomes \in [Msg -> SUBSET Outcome]
      BY DEF SerialInv, TypeOK, TaskTypeOK
    <3> QED BY <1>10, <3>1
  <2>3. outcomes'[m] # {"processed"}
    BY <1>10, <2>2
  <2> QED BY <1>1, <1>3, <1>10, <2>1, <2>2, <2>3, AckPlaces
<1>11. ASSUME NEW seqs, Discarded(m, seqs) PROVE PlaceInv'
  BY <1>10, <1>11 DEF Discarded, Discard
<1>12. CASE FkViolation(m)
  BY <1>10, <1>12 DEF FkViolation, DropStale
<1> QED BY <1>1, <1>6, <1>7, <1>8, <1>9, <1>11, <1>12

\* Areas that come were not there all along; an area that goes takes its rows.
LEMMA AreaPlace ==
    ASSUME SerialInv, CurFits, PlaceInv, NEW a \in Area, AreaCreated(a) \/ AreaDeleted(a)
    PROVE  PlaceInv'
<1>1. UNCHANGED <<arrival, wire, acked, outcomes, crashes, shutdowns, faults, lost>>
  BY DEF AreaCreated, AreaDeleted, queueVars, boundVars
<1>2. Done' = Done /\ (PlaceKept' => PlaceKept)
  BY <1>1 DEF Done, AckSent, PlaceKept, SeqKept
<1>3. presence \in [User -> SUBSET Area] /\ areaState \in [Area -> {"future", "live", "gone"}]
  BY DEF SerialInv, TypeOK, TableTypeOK
<1>4. CASE AreaCreated(a)
  <2>1. presence' = presence /\ a \notin InitialAreas /\ Live' = Live \union {a}
    BY <1>3, <1>4 DEF AreaCreated, CreateArea, CurFits, AreasKnown, Live
  <2> QED BY <1>1, <1>2, <2>1, ElsewherePlace DEF Fits
<1>5. CASE AreaDeleted(a)
  <2>1. Live' = Live \ {a} /\ \A u \in User : presence'[u] = presence[u] \ {a}
    BY <1>3, <1>5 DEF AreaDeleted, DeleteArea, Live
  <2> QED BY <1>1, <1>2, <2>1, ElsewherePlace DEF Fits
<1> QED BY <1>4, <1>5

\* Every step keeps the latest position in place.
LEMMA NextPlace ==
    /\ SerialInv /\ OrderInv /\ MemoryInv /\ CurFits /\ OutcomesExplained /\ LateDiscarded
    /\ PlaceInv /\ [Next]_vars
    => PlaceInv'
<1> SUFFICES ASSUME SerialInv, OrderInv, MemoryInv, CurFits, OutcomesExplained, LateDiscarded,
                    PlaceInv, [Next]_vars
             PROVE  PlaceInv'
  OBVIOUS
<1> USE DEF queueVars, tableVars, boundVars
<1>0. /\ wire \in Seq(Frame) /\ crashes \in Nat /\ shutdowns \in Nat /\ lost \in Nat /\ faults \in Nat
      /\ (wire' = wire /\ acked' = acked => Done' = Done)
      /\ (UNCHANGED tableVars => \A x \in Msg : \A u \in User : Fits(u, x)' = Fits(u, x))
      /\ (UNCHANGED <<crashes, shutdowns, lost, faults>> => (PlaceKept' => PlaceKept))
  BY DEF SerialInv, TypeOK, QueueTypeOK, BoundTypeOK, Done, AckSent, SeqKept, PlaceKept, Fits, Live
<1>1. ASSUME NEW m \in Msg, Deliver(m) PROVE PlaceInv'
  <2>1. /\ acked' = acked /\ UNCHANGED <<arrival, outcomes, tableVars>>
        /\ UNCHANGED <<crashes, shutdowns, lost, faults>>
    BY <1>1 DEF Deliver, Push
  <2>2. Done' = Done
    <3>1. CASE wire' = Append(wire, [type |-> "nack", msg |-> m])
      BY <1>0, <2>1, <3>1, DoneGrows
    <3> QED BY <1>0, <1>1, <2>1, <3>1 DEF Deliver
  <2> QED BY <1>0, <2>1, <2>2, ElsewherePlace
<1>2. ASSUME NEW m \in Msg, TaskStep(m) \/ DbFails(m) \/ LostReply(m) PROVE PlaceInv'
  BY <1>2, TaskPlace
<1>3. CASE Settle
  <2>1. Done' = Done
    BY <1>3, SettleDone
  <2>2. UNCHANGED <<arrival, outcomes, tableVars, crashes, shutdowns, lost, faults>>
    BY <1>3 DEF Settle, ReadFrame
  <2> QED BY <1>0, <2>1, <2>2, ElsewherePlace
<1>4. CASE DeadLettered
  BY <1>0, <1>4, ElsewherePlace DEF DeadLettered, DeadLetter
<1>5. CASE Crash \/ Close
  <2>1. /\ wire' = <<>> /\ acked' = acked /\ UNCHANGED <<arrival, outcomes, tableVars>>
    BY <1>5 DEF Crash, Close, ConnectionLost
  <2>2. Done' \subseteq Done
    BY <2>1 DEF Done, AckSent
  <2>3. PlaceKept' => PlaceKept
    <3>1. \A c, s, l \in Nat : c <= 1 => c # 1 + 1
      OBVIOUS
    <3>2. UNCHANGED <<shutdowns, lost, faults>> /\ (crashes' = crashes \/ crashes' = crashes + 1)
      BY <1>5 DEF Crash, Close
    <3>3. \A c, s, l \in Nat : c + 1 <= 1 => c <= 1
      OBVIOUS
    <3>4. \A c, s, l \in Nat : (c + 1) + s + l # 0
      OBVIOUS
    <3> QED BY <1>0, <3>2, <3>3, <3>4 DEF PlaceKept, SeqKept
  <2> QED BY <1>0, <2>1, <2>2, <2>3, ElsewherePlace
<1>6. CASE Boot \/ Cancelled \/ SnapshotRebuilt
  BY <1>0, <1>6, ElsewherePlace DEF Boot, Cancelled, SnapshotRebuilt
<1>7. CASE Shutdown
  <2>1. UNCHANGED <<arrival, outcomes, tableVars, crashes, lost, faults, wire, acked>>
        /\ shutdowns' = shutdowns + 1
    BY <1>7 DEF Shutdown
  <2>2. \A c, s, l \in Nat : c + (s + 1) + l # 0
    OBVIOUS
  <2>3. PlaceKept' => PlaceKept
    BY <1>0, <2>1, <2>2 DEF PlaceKept, SeqKept
  <2> QED BY <1>0, <2>1, <2>3, ElsewherePlace
<1>8. ASSUME NEW a \in Area, AreaCreated(a) \/ AreaDeleted(a) PROVE PlaceInv'
  BY <1>8, AreaPlace
<1>9. CASE UNCHANGED vars
  BY <1>0, <1>9, ElsewherePlace DEF vars
<1> QED BY <1>1, <1>2, <1>3, <1>4, <1>5, <1>6, <1>7, <1>8, <1>9 DEF Next

\* At the start nothing is done.
LEMMA InitPlace == Init => PlaceInv
BY DEF Init, QueueInit, PlaceInv, Done, AckSent

\* Everything the position of a user rests on.
PositionInv ==
    /\ SerialInv /\ DrainInv /\ OrderInv /\ MemoryInv /\ CurFits
    /\ OutcomesExplained /\ LateDiscarded /\ PlaceInv

\* It holds in every reachable state.
LEMMA PositionsHold == Spec => []PositionInv
<1>1. Init => PositionInv
  BY InitSerial, InitOrder, InitMemory, InitCurFits, InitOutcomes, InitLate, InitPlace
  DEF Init, DrainInv, PositionInv
<1>2. PositionInv /\ [Next]_vars => PositionInv'
  <2> SUFFICES ASSUME PositionInv, [Next]_vars PROVE PositionInv'
    OBVIOUS
  <2>1. SerialInv' /\ DrainInv' /\ OrderInv' /\ MemoryInv' /\ CurFits'
    BY NextSerial, NextDrain, NextOrder, NextMemory, NextCurFits DEF PositionInv
  <2>2. OutcomesExplained' /\ LateDiscarded' /\ PlaceInv'
    BY NextOutcomes, NextLate, NextPlace DEF PositionInv
  <2> QED BY <2>1, <2>2 DEF PositionInv
<1> QED BY <1>1, <1>2, PTL DEF Spec

\* The last usable event of a user, if it is done and was processed only, is
\* where the user is.
LEMMA LastFits ==
    ASSUME PositionInv, PlaceKept, NEW k \in DOMAIN arrival, arrival[k] \in Done,
           outcomes[arrival[k]] = {"processed"},
           \A i \in DOMAIN arrival :
             (UserOf[arrival[i]] = UserOf[arrival[k]] /\ arrival[i] \notin Malformed) => i <= k
    PROVE  Fits(UserOf[arrival[k]], arrival[k])
<1> DEFINE last == arrival[k]
<1>1. arrival \in Seq(Msg) /\ IsInjective(arrival) /\ DOMAIN arrival \subseteq Nat
  BY LenProperties DEF PositionInv, SerialInv, TypeOK, QueueTypeOK, OrderInv, Placed
<1>2. last \in Msg /\ last \in Usable
  BY <1>1, ElementOfSeq, LenProperties DEF PositionInv, OutcomesExplained, AckedForAReason
<1>3. PICK x \in Msg : PlacedBy(last, x)
  BY <1>2 DEF PositionInv, PlaceInv
<1>4. PICK i \in DOMAIN arrival : arrival[i] = x
  BY <1>3 DEF PlacedBy, Latest, ToSet
<1>5. i <= k
  BY <1>3, <1>4 DEF PlacedBy, Latest, Usable
<1>6. x = last
  <2> SUFFICES ASSUME x # last PROVE FALSE
    OBVIOUS
  <2>1. <<last, x>> \in Earlier
    BY <1>2, <1>3 DEF PlacedBy, Latest
  <2>2. PICK p, q \in DOMAIN arrival : p < q /\ arrival[p] = last /\ arrival[q] = x
    BY <2>1 DEF Earlier
  <2>3. p = k /\ q = i
    BY <1>1, <1>4, <2>2 DEF IsInjective
  <2> QED BY <1>1, <1>5, <2>2, <2>3
<1> QED BY <1>3, <1>6 DEF PlacedBy

\* The stale-area branch of processEvent loses an event, never a position: in
\* every reachable state, whatever areas come and go, however often the process
\* is shut down and through one crash, a user whose last event was processed is
\* in the lasting areas of that event and in no area outside it.
THEOREM DropsHeal == Spec => []DropHeals
<1>1. ASSUME PositionInv PROVE DropHeals
  <2> SUFFICES ASSUME NEW u \in User
               PROVE LET mine == {i \in DOMAIN arrival : UserOf[arrival[i]] = u /\ arrival[i] \notin Malformed}
                         last == arrival[CHOOSE i \in mine : \A k \in mine : k <= i] IN
                     (/\ \A i \in mine : arrival[i] \in acked
                      /\ mine # {} /\ outcomes[last] = {"processed"}
                      /\ faults + lost = 0 /\ crashes <= 1)
                     => /\ Cover[last] \intersect InitialAreas \intersect Live \subseteq presence[u]
                        /\ presence[u] \subseteq Cover[last]
    BY DEF DropHeals
  <2> DEFINE mine == {i \in DOMAIN arrival : UserOf[arrival[i]] = u /\ arrival[i] \notin Malformed}
             top == CHOOSE i \in mine : \A k \in mine : k <= i
  <2> SUFFICES ASSUME \A i \in mine : arrival[i] \in acked, mine # {},
                      outcomes[arrival[top]] = {"processed"}, faults + lost = 0, crashes <= 1
               PROVE  Fits(u, arrival[top])
    BY DEF Fits
  <2>1. Len(arrival) \in Nat /\ DOMAIN arrival = 1..Len(arrival)
    BY <1>1, LenProperties DEF PositionInv, SerialInv, TypeOK, QueueTypeOK
  <2>2. \E i \in mine : \A k \in mine : k <= i
    <3>1. mine \subseteq 1..Len(arrival)
      BY <2>1
    <3> HIDE DEF mine
    <3> QED BY <2>1, <3>1, GreatestIndex
  <2>3. top \in mine /\ \A k \in mine : k <= top
    <3> HIDE DEF mine
    <3> QED BY <2>2
  <2> HIDE DEF top
  <2>4. arrival[top] \in Done /\ PlaceKept /\ UserOf[arrival[top]] = u /\ top \in DOMAIN arrival
    BY <2>3 DEF Done, PlaceKept
  <2> QED BY <1>1, <2>3, <2>4, LastFits
<1> QED BY <1>1, PositionsHold, PTL

\* The last position wins at any prefetch: as long as nothing is nacked, through
\* one crash; and with one counter per user, within one life of the process,
\* through any number of nacks.  The hypotheses: no area comes or goes, and a
\* device numbers its events upwards.
THEOREM LastWins ==
    ASSUME SteadyAreas, SeqsInOrder
    PROVE  Spec => []LastPositionWins
<1>1. ASSUME PositionInv PROVE LastPositionWins
  <2> SUFFICES ASSUME \/ faults + lost = 0 /\ crashes <= 1
                      \/ OneCounterPerUser /\ crashes + shutdowns + lost = 0,
                      Quiescent, NEW k \in DOMAIN arrival,
                      \A i \in DOMAIN arrival : UserOf[arrival[i]] = UserOf[arrival[k]] => i <= k
               PROVE  presence[UserOf[arrival[k]]] = Cover[arrival[k]] \intersect Live
    BY DEF LastPositionWins, FinalPresence
  <2> DEFINE last == arrival[k]
  <2>1. /\ arrival \in Seq(Msg) /\ IsInjective(arrival) /\ DOMAIN arrival \subseteq Nat
        /\ outcomes \in [Msg -> SUBSET Outcome]
    BY <1>1, LenProperties DEF PositionInv, SerialInv, TypeOK, QueueTypeOK, TaskTypeOK, OrderInv, Placed
  <2>2. last \in Msg /\ last \in Done
    BY <2>1, ElementOfSeq, LenProperties DEF Quiescent, Done
  <2>3. outcomes[last] # {} /\ outcomes[last] \subseteq Outcome /\ "dropped" \notin outcomes[last]
    BY <1>1, <2>1, <2>2 DEF PositionInv, OutcomesExplained, AckedForAReason
  <2>4. "duplicate" \notin outcomes[last]
    <3> SUFFICES ASSUME "duplicate" \in outcomes[last] PROVE FALSE
      OBVIOUS
    <3>1. PICK i, j \in DOMAIN arrival : i < j /\ arrival[i] = last /\ UserOf[arrival[j]] = UserOf[last]
      BY <1>1, <2>2 DEF PositionInv, OutcomesExplained, DuplicatesSucceeded
    <3>2. i = k
      BY <2>1, <3>1 DEF IsInjective
    <3>3. j <= k
      BY <3>1
    <3> QED BY <2>1, <3>1, <3>2, <3>3
  <2>5. outcomes[last] = {"processed"}
    BY <2>3, <2>4 DEF Outcome
  <2>6. PlaceKept
    BY DEF PlaceKept, SeqKept
  <2>7. Fits(UserOf[last], last)
    BY <1>1, <2>2, <2>5, <2>6, LastFits
  <2>8. InitialAreas = Area /\ Live = Area /\ Cover[last] \subseteq Area
    BY <1>1, <2>2, WorkerAssumption DEF PositionInv, CurFits, AreasKnown, SteadyAreas, WorkerAssumption
  <2> QED BY <2>7, <2>8 DEF Fits
<1> QED BY <1>1, PositionsHold, PTL

-----------------------------------------------------------------------------
(***************************************************************************)
(* One row per visit.                                                      *)
(***************************************************************************)

\* Every event can be read and is accurate enough.
AllUsable == Malformed = {} /\ Inaccurate = {}

\* Nothing is dead-lettered; one message at a time, or nothing is delivered twice.
RowsKept == dead = {} /\ (Prefetch = 1 \/ crashes + faults + lost = 0)
VisitsKept == AllUsable /\ SteadyAreas /\ SeqsInOrder /\ RowsKept

\* The table holds what user u's events up to arrival number k make of it (none
\* for 0).  The ones that are done are among them; all of them are, but for the
\* last, which may still have to be acked; and the memory lags behind only then.
UpTo(u, k) ==
    /\ k > 0 => UserOf[arrival[k]] = u /\ arrival[k] \notin ToSet(ready)
    /\ presence[u] = IF k = 0 THEN {} ELSE Cover[arrival[k]]
    /\ \A i \in DOMAIN arrival : UserOf[arrival[i]] = u =>
         /\ arrival[i] \in Done => i <= k
         /\ arrival[i] \notin Done => k <= i
    /\ \A m \in Msg : UserOf[m] = u /\ pc[m] \in {"reply", "del"} => k > 0 /\ arrival[k] = m
    /\ \A m \in Msg : UserOf[m] = u /\ pc[m] = "del" => u \in DOMAIN memory /\ memory[u] = presence[u]
    /\ (u \in DOMAIN memory /\ memory[u] # presence[u]) => k > 0 /\ arrival[k] \notin Done
\* So does the entry log, with one row for each of their visits.
RowsUpTo(u, k) ==
    /\ \A r \in logs : r.user = u =>
         \E i \in 1..k : i \in Visits(u, r.area) /\ r.stamp[1] = arrival[i]
    /\ \A a \in Area : \A i \in Visits(u, a) : i <= k =>
         \E r \in logs : r.user = u /\ r.area = a /\ r.stamp[1] = arrival[i]
    /\ \A r, s \in logs : (r.user = u /\ s.user = u /\ r.area = s.area /\ r.stamp[1] = s.stamp[1])
                          => r = s
VisitInv ==
    VisitsKept => \A u \in User : \E k \in 0..Len(arrival) : UpTo(u, k) /\ RowsUpTo(u, k)

\* The reference looks back to the last event of the user before arrival p.
LEMMA BeforeIs ==
    ASSUME arrival \in Seq(Msg), NEW p \in DOMAIN arrival, NEW k \in 0..Len(arrival), k < p,
           k > 0 => UserOf[arrival[k]] = UserOf[arrival[p]],
           \A i \in DOMAIN arrival : i < p /\ UserOf[arrival[i]] = UserOf[arrival[p]] => i <= k
    PROVE  Before(p) = IF k = 0 THEN {} ELSE Cover[arrival[k]]
<1> DEFINE earlier == {i \in 1..(p - 1) : UserOf[arrival[i]] = UserOf[arrival[p]]}
<1>1. Len(arrival) \in Nat /\ DOMAIN arrival = 1..Len(arrival)
  BY LenProperties
<1>2. 1..(p - 1) \subseteq DOMAIN arrival /\ \A i \in 1..(p - 1) : i < p /\ i > 0
  BY <1>1
<1>3. \A i \in earlier : i <= k /\ i > 0
  BY <1>2
<1>4. CASE k = 0
  <2>1. \A i \in earlier : i \in 1..(p - 1)
    OBVIOUS
  <2>2. \A i \in 1..(p - 1) : ~(i <= 0)
    BY <1>1
  <2>3. earlier = {}
    BY <1>3, <1>4, <2>1, <2>2
  <2> QED BY <1>4, <2>3 DEF Before
<1>5. CASE k # 0
  <2>1. k > 0 /\ k \in 1..(p - 1)
    BY <1>1, <1>5
  <2>2. k \in earlier
    BY <2>1
  <2>3. \A x, y \in earlier : x <= y /\ y <= x => x = y
    OBVIOUS
  <2> DEFINE top == CHOOSE i \in earlier : \A x \in earlier : x <= i
  <2>4. Before(p) = IF earlier = {} THEN {} ELSE Cover[arrival[top]]
    BY DEF Before
  <2> HIDE DEF earlier
  <2>5. top \in earlier /\ \A x \in earlier : x <= top
    BY <1>3, <2>2
  <2>6. top = k
    BY <1>3, <2>2, <2>3, <2>5
  <2> HIDE DEF top
  <2> QED BY <1>5, <2>2, <2>4, <2>6
<1> QED BY <1>4, <1>5

\* Fewer deaths, crashes and errors: the conditions held before the step.
LEMMA VisitsKeptBack ==
    ASSUME TypeOK, VisitsKept', dead \subseteq dead', crashes' \in Nat, faults' \in Nat, lost' \in Nat,
           crashes' >= crashes, faults' >= faults, lost' >= lost
    PROVE  VisitsKept
<1>1. crashes \in Nat /\ faults \in Nat /\ lost \in Nat
  BY DEF TypeOK, BoundTypeOK
<1>2. \A a, b, c \in Nat : a + b + c = 0 => a = 0 /\ b = 0 /\ c = 0
  OBVIOUS
<1>3. ASSUME crashes' + faults' + lost' = 0 PROVE crashes + faults + lost = 0
  <2>1. crashes' = 0 /\ faults' = 0 /\ lost' = 0
    BY <1>2, <1>3
  <2>2. \A a \in Nat : 0 >= a => a = 0
    OBVIOUS
  <2>3. crashes = 0 /\ faults = 0 /\ lost = 0
    BY <1>1, <2>1, <2>2
  <2> QED BY <2>3
<1>4. RowsKept
  BY <1>3 DEF VisitsKept, RowsKept
<1> QED BY <1>4 DEF VisitsKept

\* Under them deliveries keep the order, and every event is usable.
LEMMA VisitsInOrder ==
    ASSUME SerialInv, OrderInv, CurFits, VisitsKept
    PROVE  /\ InOrder /\ Usable = Msg /\ Live = Area /\ dead = {}
           /\ Prefetch = 1 \/ (faults + lost = 0 /\ crashes = 0)
<1>1. \A a, b, c \in Nat : a + b + c = 0 => b + c = 0 /\ a = 0 /\ a <= 1
  OBVIOUS
<1>2. crashes \in Nat /\ faults \in Nat /\ lost \in Nat
  BY DEF SerialInv, TypeOK, BoundTypeOK
<1>3. Prefetch = 1 \/ (faults + lost = 0 /\ crashes = 0 /\ crashes <= 1)
  BY <1>1, <1>2 DEF VisitsKept, RowsKept
<1>4. OrderKept
  BY <1>3 DEF OrderKept
<1> QED BY <1>3, <1>4
    DEF OrderInv, VisitsKept, RowsKept, AllUsable, Usable, CurFits, AreasKnown

\* Under them a task that can run is its user's first event that is not done.
LEMMA FirstPending ==
    ASSUME SerialInv, OrderInv, CurFits, VisitsKept, NEW m \in Tasks, after[m] = None,
           NEW p \in DOMAIN arrival, arrival[p] = m,
           NEW i \in DOMAIN arrival, i < p, UserOf[arrival[i]] = UserOf[m]
    PROVE  arrival[i] \in Done
<1> DEFINE x == arrival[i]
<1>1. /\ InOrder /\ Usable = Msg /\ dead = {}
      /\ Prefetch = 1 \/ (faults + lost = 0 /\ crashes = 0)
  BY VisitsInOrder
<1>2. /\ m \in Msg /\ m \in ToSet(unacked) /\ x \in ToSet(arrival) /\ x \in Msg /\ x # m
      /\ DOMAIN arrival \subseteq Nat
  BY MessagesOut, LenProperties
  DEF Tasks, ToSet, SerialInv, TypeOK, QueueTypeOK, OrderInv, Placed, IsInjective
<1>3. <<x, m>> \in Earlier
  BY <1>1, <1>2 DEF Earlier
<1>4. x \notin Waiting /\ x \notin Tasks
  BY <1>1, <1>2, <1>3, RunnerIsFirst DEF InOrder, OrderInv
<1>5. x \in acked \/ x \in Framed
  BY <1>1, <1>2, <1>4 DEF OrderInv, Placed, Out, SerialInv, EveryDeliveryOwned
<1>6. CASE x \in Framed
  <2>1. PICK j \in DOMAIN wire : wire[j].msg = x
    BY <1>6 DEF Framed
  <2>2. wire[j].type = "ack"
    <3>1. CASE Prefetch = 1
      <4>1. x \in ToSet(unacked)
        BY <1>6, MessagesOut
      <4>2. /\ Len(unacked) \in Nat /\ Len(returns) \in Nat /\ Len(unacked) + Len(returns) <= 1
            /\ DOMAIN unacked = 1..Len(unacked)
        BY <3>1, LenProperties DEF SerialInv, TypeOK, QueueTypeOK, OrderInv, OneOut
      <4>3. \A a, b \in 1..Len(unacked) : a = b
        BY <4>2
      <4>4. x = m
        BY <1>2, <4>1, <4>2, <4>3 DEF ToSet
      <4> QED BY <1>2, <4>4
    <3>2. CASE faults + lost = 0
      BY <1>1, <1>2, <2>1, <3>2 DEF OrderInv, OnlyUnusableReturn
    <3> QED BY <1>1, <3>1, <3>2
  <2> QED BY <2>1, <2>2 DEF Done, AckSent
<1> QED BY <1>5, <1>6 DEF Done

\* A step that acks nothing and writes nothing.
LEMMA ElsewhereVisits ==
    ASSUME VisitInv, VisitsKept' => VisitsKept, UNCHANGED <<arrival, presence, logs>>, Done' = Done,
           ToSet(ready') \subseteq ToSet(ready),
           \A m \in Msg : pc'[m] \in {"reply", "del"} => pc'[m] = pc[m],
           memory' = memory \/ (memory' = EmptyMap /\ \A m \in Msg : pc'[m] = "idle")
    PROVE  VisitInv'
<1> SUFFICES ASSUME VisitsKept', NEW u \in User
             PROVE  \E k \in 0..Len(arrival) : UpTo(u, k)' /\ RowsUpTo(u, k)'
  BY DEF VisitInv
<1>1. PICK k \in 0..Len(arrival) : UpTo(u, k) /\ RowsUpTo(u, k)
  BY DEF VisitInv
<1>2. \A a : Visits(u, a)' = Visits(u, a)
  BY DEF Visits, Before
<1>3. RowsUpTo(u, k)'
  BY <1>1, <1>2 DEF RowsUpTo
<1>4. UpTo(u, k)'
  <2>1. k > 0 => UserOf[arrival[k]] = u /\ arrival[k] \notin ToSet(ready')
    BY <1>1 DEF UpTo
  <2>2. presence'[u] = IF k = 0 THEN {} ELSE Cover[arrival[k]]
    BY <1>1 DEF UpTo
  <2>3. \A i \in DOMAIN arrival : UserOf[arrival[i]] = u =>
          /\ arrival[i] \in Done => i <= k
          /\ arrival[i] \notin Done => k <= i
    BY <1>1 DEF UpTo
  <2>4. \A m \in Msg : UserOf[m] = u /\ pc'[m] \in {"reply", "del"} => k > 0 /\ arrival[k] = m
    BY <1>1 DEF UpTo
  <2>5. \A m \in Msg : UserOf[m] = u /\ pc'[m] = "del" => u \in DOMAIN memory' /\ memory'[u] = presence[u]
    BY <1>1 DEF UpTo
  <2>6. (u \in DOMAIN memory' /\ memory'[u] # presence[u]) => k > 0 /\ arrival[k] \notin Done
    BY <1>1 DEF UpTo, EmptyMap
  <2> QED BY <2>1, <2>2, <2>3, <2>4, <2>5, <2>6 DEF UpTo
<1> QED BY <1>1, <1>3, <1>4

\* A step of m's task does not touch another user's table, log or memory.
LEMMA OthersVisits ==
    ASSUME NEW m \in Msg, NEW u \in User, u # UserOf[m], NEW k \in 0..Len(arrival),
           UpTo(u, k), RowsUpTo(u, k),
           UNCHANGED <<arrival, ready>>, presence'[u] = presence[u],
           Done' = Done \/ Done' = Done \union {m},
           \A r : r.user = u => (r \in logs' <=> r \in logs),
           \A x \in Msg : x # m => pc'[x] = pc[x],
           u \in DOMAIN memory' <=> u \in DOMAIN memory,
           u \in DOMAIN memory => memory'[u] = memory[u]
    PROVE  UpTo(u, k)' /\ RowsUpTo(u, k)'
<1>1. \A a : Visits(u, a)' = Visits(u, a)
  BY DEF Visits, Before
<1>2. RowsUpTo(u, k)'
  BY <1>1 DEF RowsUpTo
<1>3. \A i \in DOMAIN arrival : UserOf[arrival[i]] = u => (arrival[i] \in Done' <=> arrival[i] \in Done)
  OBVIOUS
<1>4. \A x \in Msg : UserOf[x] = u => pc'[x] = pc[x]
  OBVIOUS
<1>5. k > 0 => UserOf[arrival[k]] = u
  BY DEF UpTo
<1>6. k > 0 => (arrival[k] \in Done' <=> arrival[k] \in Done)
  BY <1>5
<1>7. \A i \in DOMAIN arrival : UserOf[arrival[i]] = u =>
        /\ arrival[i] \in Done' => i <= k
        /\ arrival[i] \notin Done' => k <= i
  BY <1>3 DEF UpTo
<1>8. /\ \A x \in Msg : UserOf[x] = u /\ pc'[x] \in {"reply", "del"} => k > 0 /\ arrival[k] = x
      /\ \A x \in Msg : UserOf[x] = u /\ pc'[x] = "del" => u \in DOMAIN memory' /\ memory'[u] = presence'[u]
  BY <1>4 DEF UpTo
<1>9. (u \in DOMAIN memory' /\ memory'[u] # presence'[u]) => k > 0 /\ arrival[k] \notin Done'
  BY <1>6 DEF UpTo
<1> QED BY <1>2, <1>7, <1>8, <1>9 DEF UpTo

\* Where m stands to what its user's table holds: it is the event the table was
\* left at, or the next one.
LEMMA NextUp ==
    ASSUME SerialInv, OrderInv, CurFits, VisitsKept, NEW m \in Tasks, after[m] = None,
           NEW k \in 0..Len(arrival), UpTo(UserOf[m], k)
    PROVE  \E p \in DOMAIN arrival :
             /\ p \in 0..Len(arrival) /\ p > 0 /\ arrival[p] = m /\ m \notin Done /\ k <= p
             /\ m \notin ToSet(ready)
             /\ \A i \in DOMAIN arrival : UserOf[arrival[i]] = UserOf[m] =>
                  /\ i < p => arrival[i] \in Done /\ i <= k
                  /\ arrival[i] \in Done => i <= k
             /\ k < p => Before(p) = presence[UserOf[m]] /\ (k > 0 => arrival[k] \in Done)
<1>1. /\ m \in Msg /\ m \in ToSet(arrival) /\ m \notin Done /\ m \in ToSet(unacked)
      /\ m \notin ToSet(ready)
  BY DoneFacts, MessagesOut DEF Tasks, SerialInv, InOnePlace
<1>2. PICK p \in DOMAIN arrival : arrival[p] = m
  BY <1>1 DEF ToSet
<1>3. /\ arrival \in Seq(Msg) /\ Len(arrival) \in Nat /\ DOMAIN arrival = 1..Len(arrival)
  BY LenProperties DEF SerialInv, TypeOK, QueueTypeOK
<1>4. p \in 0..Len(arrival) /\ p > 0 /\ (k > 0 => k \in DOMAIN arrival)
  BY <1>3
<1>5. k <= p
  BY <1>1, <1>2 DEF UpTo
<1>6. \A i \in DOMAIN arrival : UserOf[arrival[i]] = UserOf[m] =>
        /\ i < p => arrival[i] \in Done
        /\ arrival[i] \in Done => i <= k
  BY <1>2, FirstPending DEF UpTo
<1>7. ASSUME k < p PROVE Before(p) = presence[UserOf[m]] /\ (k > 0 => arrival[k] \in Done)
  <2>1. k > 0 => UserOf[arrival[k]] = UserOf[m]
    BY DEF UpTo
  <2>2. Before(p) = IF k = 0 THEN {} ELSE Cover[arrival[k]]
    BY <1>2, <1>3, <1>6, <1>7, <2>1, BeforeIs
  <2>3. k > 0 => arrival[k] \in Done
    BY <1>4, <1>6, <1>7, <2>1
  <2> QED BY <2>2, <2>3 DEF UpTo
<1> QED BY <1>1, <1>2, <1>4, <1>5, <1>6, <1>7

\* A step of m's task that writes nothing and acks nothing; what it may put into
\* the memory is what the table holds.
LEMMA OwnStays ==
    ASSUME NEW m \in Msg, NEW k \in 0..Len(arrival), UpTo(UserOf[m], k), RowsUpTo(UserOf[m], k),
           UNCHANGED <<arrival, ready, presence, logs>>, Done' = Done,
           \A x \in Msg : x # m => pc'[x] = pc[x],
           memory' = memory \/ memory' = Put(memory, UserOf[m], presence[UserOf[m]]),
           \/ pc'[m] \notin {"reply", "del"}
           \/ pc[m] = "reply" /\ memory' = Put(memory, UserOf[m], presence[UserOf[m]])
    PROVE  UpTo(UserOf[m], k)' /\ RowsUpTo(UserOf[m], k)'
<1> DEFINE u == UserOf[m]
<1>1. \A a : Visits(u, a)' = Visits(u, a)
  BY DEF Visits, Before
<1>2. RowsUpTo(u, k)'
  BY <1>1 DEF RowsUpTo
<1>3. \A f, v : u \in DOMAIN Put(f, u, v) /\ Put(f, u, v)[u] = v
  BY DEF Put
<1>4. \A x \in Msg : UserOf[x] = u /\ pc'[x] \in {"reply", "del"} => k > 0 /\ arrival[k] = x
  BY DEF UpTo
<1>5. ASSUME NEW x \in Msg, UserOf[x] = u, pc'[x] = "del"
      PROVE  u \in DOMAIN memory' /\ memory'[u] = presence[u]
  <2>1. CASE memory' = Put(memory, u, presence[u])
    BY <1>3, <2>1
  <2>2. CASE memory' = memory /\ memory # Put(memory, u, presence[u])
    <3>1. pc[x] = "del"
      BY <1>5, <2>2
    <3> QED BY <1>5, <2>2, <3>1 DEF UpTo
  <2> QED BY <2>1, <2>2
<1>6. (u \in DOMAIN memory' /\ memory'[u] # presence[u]) => k > 0 /\ arrival[k] \notin Done
  <2>1. CASE memory' = Put(memory, u, presence[u])
    BY <1>3, <2>1
  <2>2. CASE memory' = memory
    BY <2>2 DEF UpTo
  <2> QED BY <2>1, <2>2
<1>7. \A i \in DOMAIN arrival : UserOf[arrival[i]] = u =>
        /\ arrival[i] \in Done => i <= k
        /\ arrival[i] \notin Done => k <= i
  BY DEF UpTo
<1>8. /\ k > 0 => UserOf[arrival[k]] = u /\ arrival[k] \notin ToSet(ready)
      /\ presence[u] = IF k = 0 THEN {} ELSE Cover[arrival[k]]
  BY DEF UpTo
<1> QED BY <1>2, <1>4, <1>5, <1>6, <1>7, <1>8 DEF UpTo

\* m's report is over and the table holds its position: either it did before, or
\* the event before m left the user in the same areas and m visits none.
LEMMA OwnFinishes ==
    ASSUME SerialInv, OrderInv, CurFits, VisitsKept, NEW m \in Tasks, after[m] = None,
           NEW k \in 0..Len(arrival), UpTo(UserOf[m], k), RowsUpTo(UserOf[m], k),
           UNCHANGED <<arrival, ready, presence, logs>>, Done' = Done \union {m},
           \A x \in Msg : x # m => pc'[x] = pc[x], pc'[m] = "idle",
           presence[UserOf[m]] = Cover[m],
           UserOf[m] \in DOMAIN memory' /\ memory'[UserOf[m]] = presence[UserOf[m]]
    PROVE  \E p \in 0..Len(arrival) : UpTo(UserOf[m], p)' /\ RowsUpTo(UserOf[m], p)'
<1> DEFINE u == UserOf[m]
<1>1. PICK p \in DOMAIN arrival :
        /\ p \in 0..Len(arrival) /\ p > 0 /\ arrival[p] = m /\ m \notin Done /\ k <= p
        /\ m \notin ToSet(ready)
        /\ \A i \in DOMAIN arrival : UserOf[arrival[i]] = u =>
             /\ i < p => arrival[i] \in Done /\ i <= k
             /\ arrival[i] \in Done => i <= k
        /\ k < p => Before(p) = presence[u] /\ (k > 0 => arrival[k] \in Done)
  BY NextUp
<1>2. \A a : Visits(u, a)' = Visits(u, a)
  BY DEF Visits, Before
<1>3. DOMAIN arrival \subseteq Nat /\ p \in Nat /\ k \in Nat /\ m \in Msg
  BY <1>1, LenProperties DEF SerialInv, TypeOK, QueueTypeOK, Tasks
<1>4. ASSUME NEW a \in Area, NEW i \in Visits(u, a), i <= p PROVE i <= k
  <2>1. i \in DOMAIN arrival /\ UserOf[arrival[i]] = u /\ a \in Cover[arrival[i]] /\ a \notin Before(i)
    BY DEF Visits
  <2>2. CASE i < p
    BY <1>1, <2>1, <2>2
  <2>3. CASE i = p
    <3>1. ~(k < p)
      BY <1>1, <2>1, <2>3
    <3> QED BY <1>1, <1>3, <2>3, <3>1
  <2>4. i < p \/ i = p
    BY <1>3, <1>4, <2>1
  <2> QED BY <2>2, <2>3, <2>4
<1>5. 1..k \subseteq 1..p
  BY <1>1, <1>3
<1>6. RowsUpTo(u, p)'
  <2>1. \A r \in logs : r.user = u => \E i \in 1..p : i \in Visits(u, r.area) /\ r.stamp[1] = arrival[i]
    BY <1>5 DEF RowsUpTo
  <2>2. \A a \in Area : \A i \in Visits(u, a) : i <= p =>
          \E r \in logs : r.user = u /\ r.area = a /\ r.stamp[1] = arrival[i]
    BY <1>4 DEF RowsUpTo
  <2>3. \A r, s \in logs : (r.user = u /\ s.user = u /\ r.area = s.area /\ r.stamp[1] = s.stamp[1])
                           => r = s
    BY DEF RowsUpTo
  <2> QED BY <1>2, <2>1, <2>2, <2>3 DEF RowsUpTo
<1>7. UpTo(u, p)'
  <2>1. \A x \in Msg : UserOf[x] = u => pc'[x] \notin {"reply", "del"}
    BY NoOtherRuns DEF Busy
  <2>2. ASSUME NEW i \in DOMAIN arrival, UserOf[arrival[i]] = u
        PROVE  /\ arrival[i] \in Done' => i <= p
               /\ arrival[i] \notin Done' => p <= i
    <3>1. arrival[i] \in Done => i <= p
      BY <1>1, <1>3, <2>2
    <3>2. arrival[i] = m => i = p
      BY <1>1 DEF OrderInv, Placed, IsInjective
    <3>3. arrival[i] \notin Done => p <= i
      BY <1>1, <1>3, <2>2
    <3> QED BY <1>3, <3>1, <3>2, <3>3
  <2>3. p # 0
    BY <1>1
  <2> QED BY <1>1, <2>1, <2>2, <2>3 DEF UpTo
<1> QED BY <1>1, <1>6, <1>7

\* m's transaction: one row for each area m visits, none if it ran before.
LEMMA OwnCommits ==
    ASSUME SerialInv, OrderInv, CurFits, VisitsKept, NEW m \in Tasks, after[m] = None,
           NEW k \in 0..Len(arrival), UpTo(UserOf[m], k), RowsUpTo(UserOf[m], k),
           UNCHANGED <<arrival, ready, memory>>, Done' = Done,
           \A x \in Msg : x # m => pc'[x] = pc[x], pc'[m] = "reply",
           presence'[UserOf[m]] = Cover[m],
           NEW n \in Nat,
           logs' = logs \union {[user |-> UserOf[m], area |-> a, stamp |-> <<m, n>>] :
                                  a \in Cover[m] \ presence[UserOf[m]]}
    PROVE  \E p \in 0..Len(arrival) : UpTo(UserOf[m], p)' /\ RowsUpTo(UserOf[m], p)'
<1> DEFINE u == UserOf[m]
           entry(a) == [user |-> u, area |-> a, stamp |-> <<m, n>>]
<1>1. PICK p \in DOMAIN arrival :
        /\ p \in 0..Len(arrival) /\ p > 0 /\ arrival[p] = m /\ m \notin Done /\ k <= p
        /\ m \notin ToSet(ready)
        /\ \A i \in DOMAIN arrival : UserOf[arrival[i]] = u =>
             /\ i < p => arrival[i] \in Done /\ i <= k
             /\ arrival[i] \in Done => i <= k
        /\ k < p => Before(p) = presence[u] /\ (k > 0 => arrival[k] \in Done)
  BY NextUp
<1>2. \A a : Visits(u, a)' = Visits(u, a)
  BY DEF Visits, Before
<1>3. DOMAIN arrival \subseteq Nat /\ p \in Nat /\ k \in Nat /\ m \in Msg /\ 1..k \subseteq 1..p
      /\ p \in 1..p /\ p # 0
  BY <1>1, LenProperties DEF SerialInv, TypeOK, QueueTypeOK, Tasks
<1>4. UpTo(u, p)'
  <2>1. \A x \in Msg : UserOf[x] = u /\ pc'[x] \in {"reply", "del"} => x = m /\ pc'[x] # "del"
    BY NoOtherRuns DEF Busy
  <2>2. ASSUME NEW i \in DOMAIN arrival, UserOf[arrival[i]] = u
        PROVE  /\ arrival[i] \in Done' => i <= p
               /\ arrival[i] \notin Done' => p <= i
    BY <1>1, <1>3, <2>2
  <2> QED BY <1>1, <1>3, <2>1, <2>2 DEF UpTo
<1>5. \A a : entry(a).user = u /\ entry(a).area = a /\ entry(a).stamp = <<m, n>> /\ <<m, n>>[1] = m
  OBVIOUS
<1>6. /\ \A r \in logs' : r \in logs \/ \E a \in Cover[m] \ presence[u] : r = entry(a)
      /\ \A a \in Cover[m] \ presence[u] : entry(a) \in logs'
      /\ \A r \in logs : r \in logs'
  OBVIOUS
<1> HIDE DEF entry
<1>7. CASE p = k
  <2>1. presence[u] = Cover[m]
    BY <1>1, <1>3, <1>7 DEF UpTo
  <2>2. logs' = logs
    BY <1>6, <2>1
  <2>3. RowsUpTo(u, p)'
    BY <1>2, <1>7, <2>2 DEF RowsUpTo
  <2> QED BY <1>1, <1>4, <2>3
<1>8. CASE p # k
  <2>1. k < p /\ Before(p) = presence[u]
    BY <1>1, <1>3, <1>8
  <2>2. \A a \in Cover[m] \ presence[u] : p \in Visits(u, a)
    BY <1>1, <2>1 DEF Visits
  <2>3. ASSUME NEW a \in Area, NEW i \in Visits(u, a), i <= p
        PROVE  i <= k \/ (i = p /\ a \in Cover[m] \ presence[u])
    <3>1. i \in DOMAIN arrival /\ UserOf[arrival[i]] = u /\ a \in Cover[arrival[i]] /\ a \notin Before(i)
      BY DEF Visits
    <3>2. i < p \/ i = p
      BY <1>3, <2>3, <3>1
    <3> QED BY <1>1, <2>1, <3>1, <3>2
  <2>4. ASSUME NEW r \in logs', r.user = u
        PROVE  \E i \in 1..p : i \in Visits(u, r.area) /\ r.stamp[1] = arrival[i]
    <3>1. CASE r \in logs
      BY <1>3, <2>4, <3>1 DEF RowsUpTo
    <3>2. ASSUME NEW a \in Cover[m] \ presence[u], r = entry(a)
          PROVE  \E i \in 1..p : i \in Visits(u, r.area) /\ r.stamp[1] = arrival[i]
      BY <1>1, <1>3, <1>5, <2>2, <3>2
    <3> QED BY <1>6, <3>1, <3>2
  <2>5. ASSUME NEW a \in Area, NEW i \in Visits(u, a), i <= p
        PROVE  \E r \in logs' : r.user = u /\ r.area = a /\ r.stamp[1] = arrival[i]
    <3>1. CASE i <= k
      BY <1>6, <3>1 DEF RowsUpTo
    <3>2. CASE i = p /\ a \in Cover[m] \ presence[u]
      <4>1. entry(a) \in logs' /\ entry(a).user = u /\ entry(a).area = a /\ entry(a).stamp[1] = arrival[i]
        BY <1>1, <1>5, <1>6, <3>2
      <4> QED BY <4>1
    <3> QED BY <2>3, <2>5, <3>1, <3>2
  <2>6. \A r \in logs : r.user = u => r.stamp[1] # m
    <3> SUFFICES ASSUME NEW r \in logs, r.user = u, r.stamp[1] = m PROVE FALSE
      OBVIOUS
    <3>1. PICK i \in 1..k : i \in Visits(u, r.area) /\ r.stamp[1] = arrival[i]
      BY DEF RowsUpTo
    <3>2. i \in DOMAIN arrival /\ i <= k
      BY <3>1 DEF Visits
    <3>3. i = p
      BY <1>1, <3>1, <3>2 DEF OrderInv, Placed, IsInjective
    <3> QED BY <1>3, <2>1, <3>2, <3>3
  <2>7. ASSUME NEW r \in logs', NEW s \in logs', r.user = u, s.user = u, r.area = s.area,
               r.stamp[1] = s.stamp[1]
        PROVE  r = s
    <3>1. CASE r \in logs /\ s \in logs
      BY <2>7, <3>1 DEF RowsUpTo
    <3>2. ASSUME NEW a \in Cover[m] \ presence[u], r = entry(a) PROVE r = s
      <4>1. s \notin logs
        BY <1>5, <2>6, <2>7, <3>2
      <4>2. PICK b \in Cover[m] \ presence[u] : s = entry(b)
        BY <1>6, <4>1
      <4> QED BY <1>5, <2>7, <3>2, <4>2
    <3>3. ASSUME NEW a \in Cover[m] \ presence[u], s = entry(a) PROVE r = s
      <4>1. r \notin logs
        BY <1>5, <2>6, <2>7, <3>3
      <4>2. PICK b \in Cover[m] \ presence[u] : r = entry(b)
        BY <1>6, <4>1
      <4> QED BY <1>5, <2>7, <3>3, <4>2
    <3> QED BY <1>6, <3>1, <3>2, <3>3
  <2>8. RowsUpTo(u, p)'
    BY <1>2, <2>4, <2>5, <2>7 DEF RowsUpTo
  <2> QED BY <1>1, <1>4, <2>8
<1> QED BY <1>7, <1>8

\* In the order of arrival no event is taken for a duplicate.
LEMMA NoneDiscarded ==
    ASSUME SerialInv, OrderInv, OutcomesExplained, SeqsInOrder, NEW m \in Tasks,
           NEW k \in 0..Len(arrival), UpTo(UserOf[m], k), NEW seqs, Discarded(m, seqs)
    PROVE  FALSE
<1>1. /\ Loaded(m, seqs) /\ HasSeq(m) /\ IsDuplicate(m, seqs) /\ m \in Msg
      /\ m \notin Done /\ m \in ToSet(arrival) /\ Done \subseteq Msg /\ Done \subseteq ToSet(arrival)
  BY DoneFacts DEF Discarded, IsDuplicate, Tasks
<1>2. KeyFor(m) \in DOMAIN lastSeqByDevice /\ SeqNoOf[m] <= lastSeqByDevice[KeyFor(m)]
  BY <1>1, LoadedClaims
<1>3. PICK y \in Done : Identity(y) = Identity(m) /\ SeqNoOf[y] >= SeqNoOf[m]
  BY <1>1, <1>2 DEF OutcomesExplained, MapIsDone
<1>4. UserOf[y] = UserOf[m] /\ HasSeq(y) /\ SeqNoOf[y] \in Nat /\ SeqNoOf[m] \in Nat
  BY <1>1, <1>3, SeqTypes
<1>5. PICK i, j \in DOMAIN arrival : arrival[i] = m /\ arrival[j] = y
  BY <1>1, <1>3 DEF ToSet
<1>6. DOMAIN arrival \subseteq Nat /\ arrival \in Arrivals
  BY LenProperties DEF SerialInv, TypeOK, QueueTypeOK, OutcomesExplained, AckedForAReason
<1>7. ~(j < i)
  <2> SUFFICES ASSUME j < i PROVE FALSE
    OBVIOUS
  <2>1. SeqNoOf[y] < SeqNoOf[m]
    BY <1>3, <1>4, <1>5, <1>6 DEF SeqsInOrder
  <2> QED BY <1>3, <1>4, <2>1
<1>8. j <= k /\ k <= i
  BY <1>1, <1>3, <1>4, <1>5 DEF UpTo
<1>9. i = j
  BY <1>6, <1>7, <1>8
<1> QED BY <1>1, <1>3, <1>5, <1>9

\* A step of a task keeps one row per visit.
LEMMA TaskVisits ==
    ASSUME SerialInv, OrderInv, MemoryInv, CurFits, OutcomesExplained, VisitInv,
           NEW m \in Msg, TaskStep(m) \/ DbFails(m) \/ LostReply(m)
    PROVE  VisitInv'
<1> DEFINE u == UserOf[m]
<1>1. /\ \/ Asked(m)
         \/ \E seqs : WentOn(m, seqs) \/ Finished(m, seqs) \/ Discarded(m, seqs)
         \/ Hinted(m) \/ Commit(m) \/ Reply(m) \/ FkViolation(m) \/ Failed(m)
      /\ m \in Tasks /\ after[m] = None
      /\ UNCHANGED <<acked, arrival, ready, areaState, dead, crashes>>
      /\ faults' \in Nat /\ lost' \in Nat /\ faults' >= faults /\ lost' >= lost
      /\ crashes \in Nat /\ crashes >= crashes
  BY TaskCases DEF SerialInv, TypeOK, BoundTypeOK
<1> SUFFICES ASSUME VisitsKept'
             PROVE  \A v \in User : \E k \in 0..Len(arrival) : UpTo(v, k)' /\ RowsUpTo(v, k)'
  BY <1>1 DEF VisitInv
<1>2. VisitsKept /\ SteadyAreas /\ SeqsInOrder
  BY <1>1, VisitsKeptBack DEF SerialInv, VisitsKept
<1>3. /\ u \in User /\ InitialAreas = Area /\ Live = Area /\ Cover[m] \subseteq Area
      /\ presence \in [User -> SUBSET Area] /\ returned[m] \in Nat /\ cur[m] \subseteq Area
      /\ phase # "down" /\ Area \subseteq snapshot /\ snapshot \subseteq Area
  BY <1>1, <1>2, WorkerAssumption
  DEF WorkerAssumption, SerialInv, TypeOK, TableTypeOK, QueueTypeOK, ProcessTypeOK, TaskTypeOK,
      CurFits, AreasKnown, SteadyAreas, Tasks
<1>4. pc[m] \in Located => cur[m] = Cover[m]
  BY <1>3 DEF CurFits, CurCovers
<1>5. PICK k \in 0..Len(arrival) : UpTo(u, k) /\ RowsUpTo(u, k)
  BY <1>2, <1>3 DEF VisitInv
<1>6. ASSUME NEW p \in 0..Len(arrival), UpTo(u, p)', RowsUpTo(u, p)',
             Done' = Done \/ Done' = Done \union {m},
             \A x \in Msg : x # m => pc'[x] = pc[x],
             \A v \in User : v # u => presence'[v] = presence[v],
             \A r : r.user # u => (r \in logs' <=> r \in logs),
             memory' = memory \/ \E s : memory' = Put(memory, u, s)
      PROVE  \A v \in User : \E q \in 0..Len(arrival) : UpTo(v, q)' /\ RowsUpTo(v, q)'
  <2> SUFFICES ASSUME NEW v \in User, v # u
               PROVE  \E q \in 0..Len(arrival) : UpTo(v, q)' /\ RowsUpTo(v, q)'
    BY <1>6
  <2>1. PICK q \in 0..Len(arrival) : UpTo(v, q) /\ RowsUpTo(v, q)
    BY <1>2 DEF VisitInv
  <2>2. /\ v \in DOMAIN memory' <=> v \in DOMAIN memory
        /\ v \in DOMAIN memory => memory'[v] = memory[v]
    BY <1>6 DEF Put
  <2>3. \A r : r.user = v => (r \in logs' <=> r \in logs)
    BY <1>6
  <2> QED BY <1>1, <1>6, <2>1, <2>2, <2>3, OthersVisits
<1>7. ASSUME Done' = Done, \A x \in Msg : x # m => pc'[x] = pc[x], UNCHANGED <<presence, logs>>,
             memory' = memory \/ memory' = Put(memory, u, presence[u]),
             \/ pc'[m] \notin {"reply", "del"}
             \/ pc[m] = "reply" /\ memory' = Put(memory, u, presence[u])
      PROVE  \A v \in User : \E q \in 0..Len(arrival) : UpTo(v, q)' /\ RowsUpTo(v, q)'
  <2>1. UpTo(u, k)' /\ RowsUpTo(u, k)'
    BY <1>1, <1>5, <1>7, OwnStays
  <2> QED BY <1>6, <1>7, <2>1
<1>8. CASE Asked(m) \/ Hinted(m) \/ \E seqs : WentOn(m, seqs)
  <2>1. PICK b \in {"dedup", "hint", "txn"} : pc' = [pc EXCEPT ![m] = b]
    BY <1>8 DEF Asked, Hinted, WentOn
  <2>2. /\ wire' = wire /\ UNCHANGED <<presence, logs>>
        /\ memory' = memory \/ memory' = Put(memory, u, presence[u])
    BY <1>8 DEF Asked, Hinted, WentOn
  <2>3. pc'[m] = b /\ (\A x \in Msg : x # m => pc'[x] = pc[x]) /\ Done' = Done
    BY <1>1, <2>1, <2>2, TaskEffects
  <2> QED BY <1>7, <2>2, <2>3
<1>9. CASE Failed(m)
  <2>1. pc'[m] = "idle" /\ (\A x \in Msg : x # m => pc'[x] = pc[x]) /\ Done' = Done
    BY <1>1, <1>9, TaskEffects DEF Failed, Fail
  <2> QED BY <1>7, <1>9, <2>1 DEF Failed
<1>10. CASE Reply(m)
  <2>1. /\ pc[m] = "reply" /\ memory' = Put(memory, u, cur[m]) /\ wire' = wire
        /\ UNCHANGED <<presence, logs>> /\ pc' = [pc EXCEPT ![m] = "del"]
    BY <1>10 DEF Reply, queueVars, tableVars
  <2>2. (\A x \in Msg : x # m => pc'[x] = pc[x]) /\ Done' = Done
    BY <1>1, <2>1, TaskEffects
  <2>3. k > 0 /\ arrival[k] = m
    BY <1>5, <2>1 DEF UpTo
  <2>4. k # 0 /\ cur[m] = presence[u]
    BY <1>4, <1>5, <2>1, <2>3 DEF UpTo, Located
  <2> QED BY <1>7, <2>1, <2>2, <2>4
<1>11. CASE Commit(m)
  <2>1. /\ pc[m] = "txn" /\ Transition(u, cur[m], <<m, returned[m]>>) /\ wire' = wire
        /\ memory' = memory /\ pc' = [pc EXCEPT ![m] = "reply"] /\ cur[m] = Cover[m]
    BY <1>4, <1>11 DEF Commit, queueVars, cacheVars, Located
  <2>2. pc'[m] = "reply" /\ (\A x \in Msg : x # m => pc'[x] = pc[x]) /\ Done' = Done
    BY <1>1, <2>1, TaskEffects
  <2>3. presence'[u] = Cover[m] /\ \A v \in User : v # u => presence'[v] = presence[v]
    BY <1>3, <2>1 DEF Transition, Entered, Departed
  <2>4. logs' = logs \union {[user |-> u, area |-> a, stamp |-> <<m, returned[m]>>] :
                               a \in Cover[m] \ presence[u]}
    BY <2>1 DEF Transition, Entered
  <2>5. PICK p \in 0..Len(arrival) : UpTo(u, p)' /\ RowsUpTo(u, p)'
    BY <1>1, <1>2, <1>3, <1>5, <2>1, <2>2, <2>3, <2>4, OwnCommits
  <2>6. \A r : r.user # u => (r \in logs' <=> r \in logs)
    BY <2>4
  <2> QED BY <1>6, <2>1, <2>2, <2>3, <2>5, <2>6
<1>12. ASSUME NEW seqs, Finished(m, seqs)
       PROVE  \A v \in User : \E q \in 0..Len(arrival) : UpTo(v, q)' /\ RowsUpTo(v, q)'
  <2>1. /\ pc'[m] = "idle" /\ (\A x \in Msg : x # m => pc'[x] = pc[x]) /\ Done' = Done \union {m}
        /\ UNCHANGED <<presence, logs>>
    BY <1>1, <1>12, TaskEffects DEF Finished, Finish
  <2>2. /\ presence[u] = Cover[m] /\ u \in DOMAIN memory' /\ memory'[u] = presence[u]
        /\ memory' = memory \/ \E s : memory' = Put(memory, u, s)
    <3>1. CASE Passed(m, seqs) /\ memory' = memory /\ u \in DOMAIN memory
               /\ memory[u] = Cover[m] \intersect snapshot
      <4>1. memory[u] = Cover[m]
        BY <1>3, <3>1
      <4>2. PICK p \in DOMAIN arrival :
              /\ arrival[p] = m /\ k <= p /\ p > 0
              /\ k < p => (k > 0 => arrival[k] \in Done)
        BY <1>1, <1>2, <1>5, NextUp
      <4>3. p \in Nat /\ k \in Nat
        BY LenProperties DEF SerialInv, TypeOK, QueueTypeOK
      <4>4. CASE k = p
        <5>1. k # 0 /\ presence[u] = Cover[m]
          BY <1>5, <4>2, <4>3, <4>4 DEF UpTo
        <5> QED BY <3>1, <4>1, <5>1
      <4>5. CASE k # p
        <5>1. memory[u] = presence[u]
          BY <1>5, <3>1, <4>2, <4>3, <4>5 DEF UpTo
        <5> QED BY <3>1, <4>1, <5>1
      <4> QED BY <4>4, <4>5
    <3>2. CASE pc[m] = "hint" /\ cur[m] = presence[u] /\ memory' = Put(memory, u, presence[u])
      BY <1>4, <3>2 DEF Located, Put
    <3>3. CASE pc[m] = "del" /\ memory' = memory
      <4>1. k > 0 /\ arrival[k] = m /\ u \in DOMAIN memory /\ memory[u] = presence[u]
        BY <1>5, <3>3 DEF UpTo
      <4>2. k # 0 /\ presence[u] = Cover[m]
        BY <1>5, <4>1 DEF UpTo
      <4> QED BY <3>3, <4>1, <4>2
    <3> QED BY <1>12, <3>1, <3>2, <3>3 DEF Finished
  <2>3. PICK p \in 0..Len(arrival) : UpTo(u, p)' /\ RowsUpTo(u, p)'
    BY <1>1, <1>2, <1>5, <2>1, <2>2, OwnFinishes
  <2> QED BY <1>6, <2>1, <2>2, <2>3
<1>13. \A seqs : ~Discarded(m, seqs)
  BY <1>1, <1>2, <1>5, NoneDiscarded
<1>14. ~FkViolation(m)
  BY <1>3 DEF FkViolation, ForeignKeysHold, Entered
<1> QED BY <1>1, <1>8, <1>9, <1>10, <1>11, <1>12, <1>13, <1>14

\* A crash loses at most the ack of the event the table was left at.
LEMMA CrashVisits ==
    ASSUME SerialInv, OrderInv, CurFits, VisitInv, Crash
    PROVE  VisitInv'
<1>1. /\ wire' = <<>> /\ UNCHANGED <<arrival, ready, acked, dead, presence, logs, faults, lost>>
      /\ crashes' = crashes + 1 /\ memory' = EmptyMap /\ \A m \in Msg : pc'[m] = "idle"
  BY DEF Crash, ConnectionLost, ProcessEnds, tableVars
<1>2. crashes \in Nat /\ faults \in Nat /\ lost \in Nat /\ TypeOK
  BY DEF SerialInv, TypeOK, BoundTypeOK
<1> SUFFICES ASSUME VisitsKept', NEW u \in User
             PROVE  \E k \in 0..Len(arrival) : UpTo(u, k)' /\ RowsUpTo(u, k)'
  BY <1>1 DEF VisitInv
<1>3. VisitsKept
  <2>1. crashes' \in Nat /\ crashes' >= crashes /\ faults >= faults /\ lost >= lost
    BY <1>1, <1>2
  <2> QED BY <1>1, <1>2, <2>1, VisitsKeptBack
<1>4. Prefetch = 1
  <2>1. \A a, b, c \in Nat : a + 1 + b + c # 0
    OBVIOUS
  <2>2. crashes' + faults' + lost' # 0
    BY <1>1, <1>2, <2>1
  <2> QED BY <2>2 DEF VisitsKept, RowsKept
<1>5. InOrder /\ Usable = Msg /\ dead = {}
  BY <1>3, VisitsInOrder
<1>6. PICK k \in 0..Len(arrival) : UpTo(u, k) /\ RowsUpTo(u, k)
  BY <1>3 DEF VisitInv
<1>7. Done' = acked /\ Done' \subseteq Done
  BY <1>1 DEF Done, AckSent
<1>8. /\ arrival \in Seq(Msg) /\ DOMAIN arrival = 1..Len(arrival) /\ Len(arrival) \in Nat
      /\ DOMAIN unacked = 1..Len(unacked) /\ Len(unacked) \in Nat
      /\ DOMAIN returns = 1..Len(returns) /\ Len(returns) \in Nat
      /\ Len(unacked) + Len(returns) <= 1
  BY <1>4, LenProperties DEF SerialInv, TypeOK, QueueTypeOK, OrderInv, OneOut
<1>9. ASSUME NEW i \in DOMAIN arrival, UserOf[arrival[i]] = u, arrival[i] \in Done, arrival[i] \notin acked,
             i < k
      PROVE  FALSE
  <2> DEFINE x == arrival[i]
             y == arrival[k]
  <2>1. k \in DOMAIN arrival /\ k > 0
    BY <1>8, <1>9
  <2>2. x \in Msg /\ y \in Msg /\ x # y /\ UserOf[y] = u /\ y \notin ToSet(ready)
    BY <1>6, <1>8, <1>9, <2>1, ElementOfSeq DEF UpTo, OrderInv, Placed, IsInjective
  <2>3. <<x, y>> \in Earlier
    BY <1>5, <1>9, <2>1, <2>2 DEF Earlier
  <2>4. x \in ToSet(unacked)
    BY <1>9, DoneFacts, MessagesOut DEF Done
  <2>5. PICK j \in DOMAIN unacked : unacked[j] = x
    BY <2>4 DEF ToSet
  <2>6. DOMAIN returns = {} /\ \A l \in DOMAIN unacked : l = j
    BY <1>8, <2>5
  <2>7. y \notin ToSet(returns) /\ y \notin ToSet(unacked)
    BY <2>2, <2>5, <2>6 DEF ToSet
  <2>8. y \in ToSet(arrival)
    BY <2>1 DEF ToSet
  <2>9. y \in acked
    BY <1>5, <2>2, <2>7, <2>8 DEF OrderInv, Placed, Out, Waiting
  <2> QED BY <1>5, <2>2, <2>3, <2>4, <2>9 DEF InOrder, Out
<1>10. \A i \in DOMAIN arrival : UserOf[arrival[i]] = u =>
         /\ arrival[i] \in Done' => i <= k
         /\ arrival[i] \notin Done' => k <= i
  <2> SUFFICES ASSUME NEW i \in DOMAIN arrival, UserOf[arrival[i]] = u
               PROVE  /\ arrival[i] \in Done' => i <= k
                      /\ arrival[i] \notin Done' => k <= i
    OBVIOUS
  <2>1. /\ arrival[i] \in Done => i <= k
        /\ arrival[i] \notin Done => k <= i
    BY <1>6 DEF UpTo
  <2>2. k <= i \/ i < k
    BY <1>8
  <2> QED BY <1>7, <1>9, <2>1, <2>2
<1>11. \A a : Visits(u, a)' = Visits(u, a)
  BY <1>1 DEF Visits, Before
<1>12. RowsUpTo(u, k)'
  BY <1>1, <1>6, <1>11 DEF RowsUpTo
<1>13. UpTo(u, k)'
  BY <1>1, <1>6, <1>10 DEF UpTo, EmptyMap
<1> QED BY <1>6, <1>12, <1>13

\* Every step keeps one row per visit.
LEMMA NextVisits ==
    /\ SerialInv /\ DrainInv /\ OrderInv /\ MemoryInv /\ CurFits /\ OutcomesExplained
    /\ VisitInv /\ [Next]_vars
    => VisitInv'
<1> SUFFICES ASSUME SerialInv, DrainInv, OrderInv, MemoryInv, CurFits, OutcomesExplained,
                    VisitInv, [Next]_vars
             PROVE  VisitInv'
  OBVIOUS
<1> USE DEF queueVars, tableVars, chainVars, cacheVars, boundVars
<1>0. /\ wire \in Seq(Frame) /\ pc \in [Msg -> {"idle", "queued"} \union Busy] /\ TypeOK
      /\ (wire' = wire /\ acked' = acked => Done' = Done)
      /\ (UNCHANGED <<dead, crashes, lost, faults>> => (VisitsKept' => VisitsKept))
  BY DEF SerialInv, TypeOK, QueueTypeOK, TaskTypeOK, Done, AckSent, VisitsKept, RowsKept
<1>1. ASSUME NEW m \in Msg, Deliver(m) PROVE VisitInv'
  <2>1. /\ acked' = acked /\ UNCHANGED <<arrival, presence, logs, memory, dead>>
        /\ UNCHANGED <<crashes, lost, faults>>
    BY <1>1 DEF Deliver, Push
  <2>2. Done' = Done
    <3>1. CASE wire' = Append(wire, [type |-> "nack", msg |-> m])
      BY <1>0, <2>1, <3>1, DoneGrows
    <3> QED BY <1>0, <1>1, <2>1, <3>1 DEF Deliver
  <2>3. \A x \in Msg : pc'[x] = pc[x] \/ pc'[x] = "queued"
    BY <1>0, <1>1 DEF Deliver
  <2>4. ToSet(ready') \subseteq ToSet(ready)
    <3>1. CASE ready' = ready
      BY <3>1
    <3>2. CASE ready # <<>> /\ ready' = Tail(ready)
      BY <3>2, TailSet DEF SerialInv, TypeOK, QueueTypeOK, InOnePlace
    <3> QED BY <1>1, <3>1, <3>2 DEF Deliver, Push, Dequeue
  <2> QED BY <1>0, <2>1, <2>2, <2>3, <2>4, ElsewhereVisits
<1>2. ASSUME NEW m \in Msg, TaskStep(m) \/ DbFails(m) \/ LostReply(m) PROVE VisitInv'
  BY <1>2, TaskVisits
<1>3. CASE Settle
  <2>1. Done' = Done
    BY <1>3, SettleDone
  <2>2. UNCHANGED <<arrival, presence, logs, ready, memory, pc, dead, crashes, lost, faults>>
    BY <1>3 DEF Settle, ReadFrame
  <2> QED BY <1>0, <2>1, <2>2, ElsewhereVisits
<1>4. CASE DeadLettered
  <2>1. dead' # {}
    BY <1>4 DEF DeadLettered, DeadLetter
  <2> QED BY <2>1 DEF VisitInv, VisitsKept, RowsKept
<1>5. CASE Crash
  BY <1>5, CrashVisits
<1>6. CASE Close
  <2>1. /\ wire = <<>> /\ wire' = <<>> /\ acked' = acked /\ memory' = EmptyMap
        /\ UNCHANGED <<arrival, presence, logs, ready, dead, crashes, lost, faults>>
        /\ \A m \in Msg : pc'[m] = "idle"
    BY <1>6 DEF Close, ConnectionLost, ProcessEnds
  <2>2. Done' = Done
    BY <1>0, <2>1
  <2> QED BY <1>0, <2>1, <2>2, ElsewhereVisits
<1>7. CASE Boot \/ Shutdown \/ Cancelled \/ SnapshotRebuilt
  BY <1>0, <1>7, ElsewhereVisits DEF Boot, Shutdown, Cancelled, SnapshotRebuilt
<1>8. ASSUME NEW a \in Area, AreaCreated(a) \/ AreaDeleted(a) PROVE VisitInv'
  <2>1. ~SteadyAreas
    <3> SUFFICES ASSUME SteadyAreas PROVE FALSE
      OBVIOUS
    <3>1. areaState[a] = "live" /\ Doomed = {}
      BY <1>8 DEF CurFits, AreasKnown, Live, SteadyAreas
    <3> QED BY <1>8, <3>1 DEF AreaCreated, AreaDeleted, CreateArea, DeleteArea
  <2> QED BY <2>1 DEF VisitInv, VisitsKept
<1>9. CASE UNCHANGED vars
  BY <1>0, <1>9, ElsewhereVisits DEF vars
<1> QED BY <1>1, <1>2, <1>3, <1>4, <1>5, <1>6, <1>7, <1>8, <1>9 DEF Next

\* At the start nothing is done, nothing is written and nobody is anywhere.
LEMMA InitVisits == Init => VisitInv
<1> SUFFICES ASSUME Init, NEW u \in User PROVE UpTo(u, 0) /\ RowsUpTo(u, 0) /\ 0 \in 0..Len(arrival)
  BY DEF VisitInv
<1>1. /\ Done = {} /\ logs = {} /\ presence[u] = {} /\ DOMAIN memory = {} /\ arrival \in Seq(Msg)
      /\ \A m \in Msg : pc[m] = "idle"
  BY QueueAssumption DEF QueueAssumption, Init, QueueInit, TablesInit, Done, AckSent, EmptyMap
<1>2. Len(arrival) \in Nat /\ DOMAIN arrival = 1..Len(arrival)
  BY <1>1, LenProperties
<1>3. \A i \in DOMAIN arrival : 0 <= i /\ ~(i <= 0)
  BY <1>2
<1>4. UpTo(u, 0)
  BY <1>1, <1>3 DEF UpTo
<1>5. RowsUpTo(u, 0)
  BY <1>1, <1>3 DEF RowsUpTo, Visits
<1> QED BY <1>2, <1>4, <1>5

\* Everything one row per visit rests on.
RowsInv ==
    /\ SerialInv /\ DrainInv /\ OrderInv /\ MemoryInv /\ CurFits /\ OutcomesExplained /\ VisitInv

\* It holds in every reachable state.
LEMMA RowsHold == Spec => []RowsInv
<1>1. Init => RowsInv
  BY InitSerial, InitOrder, InitMemory, InitCurFits, InitOutcomes, InitVisits DEF Init, DrainInv, RowsInv
<1>2. RowsInv /\ [Next]_vars => RowsInv'
  <2> SUFFICES ASSUME RowsInv, [Next]_vars PROVE RowsInv'
    OBVIOUS
  <2>1. SerialInv' /\ DrainInv' /\ OrderInv' /\ MemoryInv' /\ CurFits'
    BY NextSerial, NextDrain, NextOrder, NextMemory, NextCurFits DEF RowsInv
  <2>2. OutcomesExplained' /\ VisitInv'
    BY NextOutcomes, NextVisits DEF RowsInv
  <2> QED BY <2>1, <2>2 DEF RowsInv
<1> QED BY <1>1, <1>2, PTL DEF Spec

\* Once everything is acked the events up to some k are all there are.
LEMMA AllVisited ==
    ASSUME RowsInv, Quiescent, AllUsable, SteadyAreas, SeqsInOrder,
           Prefetch = 1 \/ crashes + faults + lost = 0, NEW u \in User
    PROVE  \E k \in 0..Len(arrival) :
             UpTo(u, k) /\ RowsUpTo(u, k) /\ \A i \in DOMAIN arrival : UserOf[arrival[i]] = u => i <= k
<1>1. ToSet(arrival) \subseteq acked
  BY DEF Quiescent, ToSet
<1>2. dead = {}
  BY <1>1 DEF RowsInv, OrderInv, Placed
<1>3. VisitsKept
  BY <1>2 DEF VisitsKept, RowsKept
<1>4. PICK k \in 0..Len(arrival) : UpTo(u, k) /\ RowsUpTo(u, k)
  BY <1>3 DEF RowsInv, VisitInv
<1>5. \A i \in DOMAIN arrival : UserOf[arrival[i]] = u => i <= k
  BY <1>4 DEF UpTo, Quiescent, Done
<1> QED BY <1>4, <1>5

\* Rows and visits match one to one.
LEMMA RowsMatchVisits ==
    ASSUME RowsInv, Quiescent, AllUsable, SteadyAreas, SeqsInOrder,
           Prefetch = 1 \/ crashes + faults + lost = 0
    PROVE  OneRowPerVisit
<1> SUFFICES ASSUME NEW u \in User, NEW a \in Area
             PROVE  Cardinality(Rows(u, a)) = Cardinality(Visits(u, a))
  BY DEF OneRowPerVisit
<1>1. PICK k \in 0..Len(arrival) :
        RowsUpTo(u, k) /\ \A i \in DOMAIN arrival : UserOf[arrival[i]] = u => i <= k
  BY AllVisited
<1>2. /\ Len(arrival) \in Nat /\ DOMAIN arrival = 1..Len(arrival) /\ IsInjective(arrival)
  BY LenProperties DEF RowsInv, SerialInv, TypeOK, QueueTypeOK, OrderInv, Placed
<1>3. Visits(u, a) \subseteq DOMAIN arrival /\ \A i \in Visits(u, a) : i <= k
  BY <1>1 DEF Visits
<1>4. IsFiniteSet(Visits(u, a))
  <2>1. IsFiniteSet(1..Len(arrival))
    BY <1>2, FS_Interval
  <2>2. Visits(u, a) \in SUBSET (1..Len(arrival))
    BY <1>2, <1>3
  <2> QED BY <2>1, <2>2, FS_Subset
<1> DEFINE V == Visits(u, a)
           R == Rows(u, a)
           row(i) == CHOOSE r \in R : r.stamp[1] = arrival[i]
           f == [i \in V |-> row(i)]
<1>5. \A r : r \in R <=> r \in logs /\ r.user = u /\ r.area = a
  BY DEF Rows
<1>6. \A i \in V : \E r \in R : r.stamp[1] = arrival[i]
  BY <1>1, <1>3, <1>5 DEF RowsUpTo
<1>7. \A r \in R : \E i \in V : r.stamp[1] = arrival[i]
  BY <1>1, <1>5 DEF RowsUpTo
<1>8. \A r, s \in R : r.stamp[1] = s.stamp[1] => r = s
  BY <1>1, <1>5 DEF RowsUpTo
<1> HIDE DEF V, R
<1>9. \A i \in V : row(i) \in R /\ row(i).stamp[1] = arrival[i]
  BY <1>6
<1> HIDE DEF row
<1>10. f \in [V -> R] /\ \A i \in V : f[i] = row(i)
  BY <1>9
<1> HIDE DEF f
<1>11. \A i, j \in V : f[i] = f[j] => i = j
  <2> SUFFICES ASSUME NEW i \in V, NEW j \in V, f[i] = f[j] PROVE i = j
    OBVIOUS
  <2>1. arrival[i] = arrival[j]
    BY <1>9, <1>10
  <2> QED BY <1>2, <1>3, <2>1 DEF V, IsInjective
<1>12. \A r \in R : \E i \in V : f[i] = r
  <2> SUFFICES ASSUME NEW r \in R PROVE \E i \in V : f[i] = r
    OBVIOUS
  <2>1. PICK i \in V : r.stamp[1] = arrival[i]
    BY <1>7
  <2>2. row(i) = r
    BY <1>8, <1>9, <2>1
  <2> QED BY <1>10, <2>1, <2>2
<1>13. DOMAIN f = V
  BY <1>10
<1>14. ExistsBijection(V, R)
  BY <1>10, <1>11, <1>12, <1>13 DEF ExistsBijection, Bijection, Injection, Surjection, IsInjective
<1>15. Cardinality(R) = Cardinality(V)
  BY <1>4, <1>14, FS_Bijection DEF V
<1> QED BY <1>15 DEF V, R

\* A worker that takes one message at a time logs every visit exactly once,
\* through any number of crashes, restarts, database errors and lost replies.
\* The hypotheses: prefetch 1, every event readable and accurate (what ingest
\* lets through), no area comes or goes, a device numbers its events upwards.
THEOREM OneRowEach ==
    ASSUME Prefetch = 1, AllUsable, SteadyAreas, SeqsInOrder
    PROVE  Spec => []OneRowPerVisit
<1>1. ASSUME RowsInv PROVE OneRowPerVisit
  BY <1>1, RowsMatchVisits DEF OneRowPerVisit
<1> QED BY <1>1, RowsHold, PTL

\* At any prefetch it does as long as nothing is delivered twice: graceful
\* restarts, which lose the memory and the dedup map, do not show in the log.
THEOREM OneRowEachDelivery ==
    ASSUME AllUsable, SteadyAreas, SeqsInOrder
    PROVE  Spec => []OneRowUnlessRedelivered
<1>1. ASSUME RowsInv PROVE OneRowUnlessRedelivered
  BY <1>1, RowsMatchVisits DEF OneRowUnlessRedelivered, OneRowPerVisit
<1> QED BY <1>1, RowsHold, PTL

\* A worker that takes one message at a time leaves every user where its last
\* event put it, through any number of crashes, restarts, errors and lost replies.
THEOREM LastPositionStays ==
    ASSUME Prefetch = 1, AllUsable, SteadyAreas, SeqsInOrder
    PROVE  Spec => []FinalPresence
<1>1. ASSUME RowsInv PROVE FinalPresence
  <2> SUFFICES ASSUME Quiescent, NEW i \in DOMAIN arrival,
                      \A j \in DOMAIN arrival : UserOf[arrival[j]] = UserOf[arrival[i]] => j <= i
               PROVE  presence[UserOf[arrival[i]]] = Cover[arrival[i]] \intersect Live
    BY DEF FinalPresence
  <2> DEFINE u == UserOf[arrival[i]]
  <2>1. /\ arrival \in Seq(Msg) /\ Len(arrival) \in Nat /\ DOMAIN arrival = 1..Len(arrival)
    BY <1>1, LenProperties DEF RowsInv, SerialInv, TypeOK, QueueTypeOK
  <2>2. arrival[i] \in Msg /\ u \in User /\ Cover[arrival[i]] \subseteq Area
    BY <2>1, ElementOfSeq, WorkerAssumption DEF WorkerAssumption
  <2>3. PICK k \in 0..Len(arrival) :
          UpTo(u, k) /\ \A j \in DOMAIN arrival : UserOf[arrival[j]] = u => j <= k
    BY <1>1, <2>2, AllVisited
  <2>4. i <= k
    BY <2>3
  <2>5. k > 0 /\ k # 0 /\ k \in DOMAIN arrival
    BY <2>1, <2>4
  <2>6. UserOf[arrival[k]] = u
    BY <2>3, <2>5 DEF UpTo
  <2>7. k <= i
    BY <2>5, <2>6
  <2>8. k = i
    BY <2>1, <2>4, <2>7
  <2>9. presence[u] = Cover[arrival[i]]
    BY <2>3, <2>5, <2>8 DEF UpTo
  <2>10. Live = Area
    BY <1>1 DEF RowsInv, CurFits, AreasKnown
  <2> QED BY <2>2, <2>9, <2>10
<1> QED BY <1>1, RowsHold, PTL

=============================================================================
