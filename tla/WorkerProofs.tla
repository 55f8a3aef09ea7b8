---------------------------- MODULE WorkerProofs ----------------------------
(***************************************************************************)
(* Theorems about Worker, for every set of users, areas and messages, every *)
(* prefetch and delivery limit, and any number of crashes, shutdowns,      *)
(* database errors and lost replies.  Each group has an inductive invariant *)
(* of its own:                                                             *)
(*   SerialInv  a user's deliveries are processed one after the other in   *)
(*              delivery order and each is settled exactly once.  The      *)
(*              chains are total orders on the user's tasks (ChainOrder),  *)
(*              and the outstanding deliveries are the tasks and the frames *)
(*              on the wire (EveryDeliveryOwned), so that a delivery that  *)
(*              leaves the channel is never part of a chain.               *)
(*   DrainInv   a draining worker waits for every chain's tail.            *)
(*   MemoryInv  the memory agrees with the presence rows.  It is only safe *)
(*              because a user's tasks never overlap: without SerialInv    *)
(*              another task of the user could commit between a COMMIT and *)
(*              the set that follows its reply.                            *)
(*   LoggedInv  whatever claims that a user is in a lasting area has an    *)
(*              entry row behind it.                                       *)
(*   StampInv   an attempt that may still commit has written no row; with  *)
(*              it the worker implements EntryLog.                         *)
(*   DedupInv   the dedup map claims no seq that was not processed.        *)
(***************************************************************************)
EXTENDS Worker, SequenceLemmas, FiniteSetTheorems

-----------------------------------------------------------------------------
(***************************************************************************)
(* Facts about the operators the model is built from.                      *)
(***************************************************************************)

\* Map.set keeps a map a map.
LEMMA PutType ==
    ASSUME NEW D, NEW S, NEW f, IsMap(f, D, S), NEW k \in D, NEW v \in S
    PROVE  IsMap(Put(f, k, v), D, S)
BY DEF IsMap, Put

\* The empty map is one, whatever its keys and values.
LEMMA EmptyMapType ==
    ASSUME NEW D, NEW S
    PROVE  IsMap(EmptyMap, D, S)
BY DEF IsMap, EmptyMap

\* differs() compares two lists as the sets they stand for.
LEMMA DiffersIsInequality ==
    ASSUME NEW x \in SUBSET Area, NEW y \in SUBSET Area
    PROVE  Differs(x, y) <=> x # y
<1>1. IsFiniteSet(x) /\ IsFiniteSet(y)
  BY AreaAssumption, FS_Subset DEF AreaAssumption
<1>2. ASSUME ~Differs(x, y) PROVE x = y
  BY <1>1, <1>2, FS_Subset, FS_CardinalityType DEF Differs
<1> QED
  BY <1>2 DEF Differs

-----------------------------------------------------------------------------
(***************************************************************************)
(* Type correctness.                                                       *)
(***************************************************************************)

\* The broker's halves of the steps.
LEMMA PushType ==
    ASSUME QueueTypeOK, NEW m \in Msg, Push(m), wire' \in Seq(Frame)
    PROVE  QueueTypeOK'
<1>1. ready' \in Seq(Msg) /\ returns' \in Seq(Msg)
  BY HeadTailProperties DEF Push, Dequeue, QueueTypeOK
<1>2. unacked' \in Seq(Msg)
  BY AppendProperties DEF Push, QueueTypeOK
<1> QED BY <1>1, <1>2 DEF Push, QueueTypeOK

\* The broker reads an ack or a nack off the wire.
LEMMA ReadFrameType ==
    ASSUME QueueTypeOK, ReadFrame
    PROVE  QueueTypeOK'
<1> DEFINE f == Head(wire)
<1>1. f \in Frame /\ wire' \in Seq(Frame)
  BY HeadTailProperties DEF ReadFrame, QueueTypeOK
<1>2. f.msg \in Msg
  BY <1>1 DEF Frame
<1> HIDE DEF f
<1>3. PICK i \in DOMAIN unacked :
         /\ unacked' = RemoveAt(unacked, i)
         /\ \/ acked' = acked \union {f.msg} /\ UNCHANGED <<returns, returned>>
            \/ /\ returns' = Append(returns, f.msg)
               /\ returned' = [returned EXCEPT ![f.msg] = @ + 1]
               /\ acked' = acked
  BY DEF ReadFrame, f
<1>4. i \in 1..Len(unacked)
  BY <1>3, LenProperties DEF QueueTypeOK
<1>5. unacked' \in Seq(Msg)
  BY <1>3, <1>4, RemoveAtProperties DEF QueueTypeOK
<1>6. returns' \in Seq(Msg) /\ returned' \in [Msg -> Nat] /\ acked' \subseteq Msg
  <2>1. returns \in Seq(Msg) /\ returned \in [Msg -> Nat] /\ acked \subseteq Msg
    BY DEF QueueTypeOK
  <2>2. Append(returns, f.msg) \in Seq(Msg)
    BY <1>2, <2>1, AppendProperties
  <2>3. CASE acked' = acked \union {f.msg} /\ UNCHANGED <<returns, returned>>
    BY <1>2, <2>1, <2>3
  <2>4. CASE /\ returns' = Append(returns, f.msg)
             /\ returned' = [returned EXCEPT ![f.msg] = @ + 1]
             /\ acked' = acked
    <3> DEFINE x == f.msg
    <3>1. x \in Msg /\ returned' = [returned EXCEPT ![x] = @ + 1]
      BY <1>2, <2>4
    <3> HIDE DEF x
    <3>2. returned' \in [Msg -> Nat]
      BY <3>1, <2>1
    <3> QED BY <2>1, <2>2, <2>4, <3>2
  <2> QED BY <1>3, <2>3, <2>4
<1> QED BY <1>1, <1>5, <1>6 DEF ReadFrame, QueueTypeOK

\* A lost connection returns what was not acked.
LEMMA ConnectionLostType ==
    ASSUME QueueTypeOK, ConnectionLost
    PROVE  QueueTypeOK'
<1>1. returns' \in Seq(Msg)
  BY ConcatProperties DEF ConnectionLost, QueueTypeOK
<1>2. returned' \in [Msg -> Nat]
  BY DEF ConnectionLost, QueueTypeOK
<1> QED BY <1>1, <1>2 DEF ConnectionLost, QueueTypeOK

\* A returned message is dead-lettered.
LEMMA DeadLetterType ==
    ASSUME QueueTypeOK, DeadLetter
    PROVE  QueueTypeOK'
<1>1. Head(returns) \in Msg /\ Tail(returns) \in Seq(Msg)
  BY TailSet DEF DeadLetter, QueueTypeOK
<1> QED BY <1>1 DEF DeadLetter, QueueTypeOK


\* Settling a delivery keeps the chains well typed.
LEMMA TaskEndsType ==
    ASSUME QueueTypeOK, TaskTypeOK, NEW m \in Msg, NEW t \in {"ack", "nack"}, TaskEnds(m, t)
    PROVE  /\ wire' \in Seq(Frame)
           /\ pc' \in [Msg -> {"idle", "queued"} \union Busy]
           /\ \A x \in Msg : pc'[x] = "dedup" => HasSeq(x)
           /\ cur' \in [Msg -> SUBSET Area]
           /\ after' \in [Msg -> Msg \union {None}]
           /\ userChains' \in [User -> Msg \union {None}]
<1>1. [type |-> t, msg |-> m] \in Frame
  BY DEF Frame
<1>2. wire' \in Seq(Frame)
  BY <1>1, AppendProperties DEF QueueTypeOK, TaskEnds
<1>3. UserOf[m] \in User
  BY WorkerAssumption DEF WorkerAssumption
<1>4. userChains' \in [User -> Msg \union {None}]
  BY <1>3 DEF TaskTypeOK, TaskEnds
<1>5. after' \in [Msg -> Msg \union {None}]
  BY DEF TaskTypeOK, TaskEnds
<1> QED
  BY <1>2, <1>4, <1>5 DEF TaskTypeOK, TaskEnds

\* rememberSeq keeps the dedup map a map.
LEMMA RememberType ==
    ASSUME NEW m \in Msg, NEW seqs, IsMap(seqs, Key, Nat)
    PROVE  IsMap(Remember(m, seqs), Key, Nat)
<1>1. CASE ~HasSeq(m)
  BY <1>1 DEF Remember
<1>2. CASE HasSeq(m)
  <2>1. KeyFor(m) \in Key /\ SeqNoOf[m] \in Nat
    BY <1>2, WorkerAssumption DEF WorkerAssumption, HasSeq, KeyFor, Identity
  <2>2. IsMap(Put(seqs, KeyFor(m), SeqNoOf[m]), Key, Nat)
    BY <2>1, PutType
  <2> QED BY <1>2, <2>2 DEF Remember
<1> QED BY <1>1, <1>2

\* The code from the dedup gate to the next await keeps its variables typed.
LEMMA ForkType ==
    ASSUME QueueTypeOK, TaskTypeOK, NEW m \in Msg, NEW seqs, IsMap(seqs, Key, Nat),
           NEW current \in SUBSET Area, NEW hint, Fork(m, current, hint, seqs)
    PROVE  wire' \in Seq(Frame) /\ TaskTypeOK' /\ IsMap(lastSeqByDevice', Key, Nat)
<1>1. CASE Finish(m, seqs)
  <2>1. TaskEnds(m, "ack")
    BY <1>1 DEF Finish
  <2>2. IsMap(lastSeqByDevice', Key, Nat)
    BY <1>1, RememberType DEF Finish
  <2>3. outcomes' \in [Msg -> SUBSET Outcome]
    BY <1>1 DEF Finish, TaskTypeOK, Outcome
  <2> QED BY <2>1, <2>2, <2>3, TaskEndsType DEF TaskTypeOK
<1>2. CASE pc' = [pc EXCEPT ![m] = "txn"] /\ ~Finish(m, seqs)
  BY <1>2 DEF Fork, QueueTypeOK, TaskTypeOK, Busy
<1> QED BY <1>1, <1>2 DEF Fork

\* The dedup gate keeps the types.
LEMMA GateType ==
    ASSUME QueueTypeOK, TaskTypeOK, ProcessTypeOK, NEW m \in Msg,
           NEW seqs, IsMap(seqs, Key, Nat), Gate(m, seqs)
    PROVE  wire' \in Seq(Frame) /\ TaskTypeOK' /\ IsMap(lastSeqByDevice', Key, Nat)
<1>1. CASE Discard(m, seqs)
  <2>1. TaskEnds(m, "ack") /\ lastSeqByDevice' = seqs
    BY <1>1 DEF Discard
  <2>2. outcomes' \in [Msg -> SUBSET Outcome]
    BY <1>1 DEF Discard, TaskTypeOK, Outcome
  <2> QED BY <2>1, <2>2, TaskEndsType DEF TaskTypeOK
<1>2. CASE Report(m, seqs)
  <2>0. Cover[m] \intersect snapshot \in SUBSET Area
    BY DEF ProcessTypeOK
  <2>1. CASE Fail(m) /\ lastSeqByDevice' = seqs
    <3>1. TaskEnds(m, "nack") /\ outcomes' = outcomes
      BY <2>1 DEF Fail
    <3> QED BY <2>1, <3>1, TaskEndsType DEF TaskTypeOK
  <2>2. CASE /\ pc' = [pc EXCEPT ![m] = "hint"]
             /\ cur' = [cur EXCEPT ![m] = Cover[m] \intersect snapshot]
             /\ lastSeqByDevice' = seqs
             /\ UNCHANGED <<wire, after, userChains, outcomes>>
    BY <2>0, <2>2 DEF QueueTypeOK, TaskTypeOK, Busy
  <2>3. CASE Fork(m, Cover[m] \intersect snapshot, memory[UserOf[m]], seqs)
    BY <2>0, <2>3, ForkType
  <2> QED BY <1>2, <2>1, <2>2, <2>3 DEF Report
<1> QED BY <1>1, <1>2 DEF Gate

\* Initially every variable has its type.
LEMMA InitType == Init => TypeOK
<1> SUFFICES ASSUME Init PROVE TypeOK
  OBVIOUS
<1>1. QueueTypeOK
  BY QueueAssumption DEF QueueAssumption, Init, QueueInit, QueueTypeOK
<1>2. TableTypeOK
  BY DEF Init, TablesInit, TableTypeOK
<1>3. IsMap(lastSeqByDevice, Key, Nat) /\ IsMap(memory, User, SUBSET Area)
  BY EmptyMapType DEF Init
<1> QED
  BY <1>1, <1>2, <1>3
  DEF Init, TypeOK, ProcessTypeOK, TaskTypeOK, CacheTypeOK, BoundTypeOK

\* A step of a task that writes to no table and reads no frame.
LEMMA TaskFrameType ==
    ASSUME TypeOK, UNCHANGED <<taskFrame, presence, logs>>, wire' \in Seq(Frame)
    PROVE  QueueTypeOK' /\ TableTypeOK' /\ ProcessTypeOK'
BY DEF TypeOK, QueueTypeOK, TableTypeOK, ProcessTypeOK, taskFrame, processVars

\* A failing attempt keeps the types.
LEMMA FailType ==
    ASSUME TypeOK, NEW m \in Msg, Fail(m) \/ DropStale(m)
    PROVE  wire' \in Seq(Frame) /\ TaskTypeOK'
<1>1. PICK t \in {"ack", "nack"} : TaskEnds(m, t)
  BY DEF Fail, DropStale
<1>2. outcomes' \in [Msg -> SUBSET Outcome]
  BY DEF Fail, DropStale, TypeOK, TaskTypeOK, Outcome
<1> QED BY <1>1, <1>2, TaskEndsType DEF TypeOK, TaskTypeOK

\* The steps of a task.
LEMMA TaskType ==
    ASSUME TypeOK, NEW m \in Msg,
           TaskStep(m) \/ DbFails(m) \/ LostReply(m)
    PROVE  TypeOK'
<1>0. /\ UserOf[m] \in User
      /\ presence[UserOf[m]] \in SUBSET Area
      /\ cur[m] \in SUBSET Area
      /\ IsMap(lastSeqByDevice, Key, Nat) /\ IsMap(memory, User, SUBSET Area)
  BY WorkerAssumption DEF WorkerAssumption, TypeOK, TableTypeOK, TaskTypeOK, CacheTypeOK
<1>1. CASE Start(m)
  <2>1. CASE Gate(m, lastSeqByDevice)
    BY <1>0, <1>1, <2>1, GateType, TaskFrameType
    DEF Start, TypeOK, CacheTypeOK, BoundTypeOK, boundVars
  <2>2. CASE /\ HasSeq(m)
             /\ pc' = [pc EXCEPT ![m] = "dedup"]
             /\ UNCHANGED <<wire, after, userChains, cur, lastSeqByDevice, outcomes>>
    <3>1. wire' \in Seq(Frame) /\ TaskTypeOK'
      BY <2>2 DEF TypeOK, QueueTypeOK, TaskTypeOK, Busy
    <3> QED BY <1>1, <2>2, <3>1, TaskFrameType
        DEF Start, TypeOK, CacheTypeOK, BoundTypeOK, boundVars
  <2> QED BY <1>1, <2>1, <2>2 DEF Start
<1>2. CASE SeqLoaded(m)
  <2>1. pc[m] = "dedup"
    BY <1>2 DEF SeqLoaded
  <2> DEFINE row == StoredSeq[Identity(m)]
             v == IF row = None THEN 0 ELSE row
             seqs == Put(lastSeqByDevice, KeyFor(m), v)
  <2>2. Gate(m, seqs) /\ UNCHANGED <<taskFrame, presence, logs, memory, blind, boundVars>>
    BY <1>2 DEF SeqLoaded
  <2>3. CASE HasSeq(m)
    <3>1. KeyFor(m) \in Key /\ v \in Nat
      BY <2>3, WorkerAssumption DEF WorkerAssumption, HasSeq, KeyFor, Identity
    <3>2. IsMap(seqs, Key, Nat)
      BY <1>0, <3>1, PutType
    <3> HIDE DEF seqs
    <3> QED BY <1>0, <2>2, <3>2, GateType, TaskFrameType
        DEF TypeOK, CacheTypeOK, BoundTypeOK, boundVars
  <2> QED BY <2>1, <2>3 DEF TypeOK, TaskTypeOK
<1>3. CASE HintLoaded(m)
  <2>1. Fork(m, cur[m], presence[UserOf[m]], lastSeqByDevice)
    BY <1>3 DEF HintLoaded
  <2>2. IsMap(memory', User, SUBSET Area)
    BY <1>0, <1>3, PutType DEF HintLoaded
  <2>3. wire' \in Seq(Frame) /\ TaskTypeOK' /\ IsMap(lastSeqByDevice', Key, Nat)
    BY <1>0, <2>1, ForkType DEF TypeOK
  <2> QED BY <1>3, <2>2, <2>3, TaskFrameType
      DEF HintLoaded, TypeOK, CacheTypeOK, BoundTypeOK, boundVars
<1>4. CASE Commit(m)
  <2>1. presence' \in [User -> SUBSET Area]
    BY <1>0, <1>4 DEF Commit, Transition, Entered, Departed, TypeOK, TableTypeOK
  <2>2. <<m, returned[m]>> \in Stamp
    BY DEF Stamp, TypeOK, QueueTypeOK
  <2>3. logs' \subseteq Row
    BY <1>0, <1>4, <2>2 DEF Commit, Transition, Entered, TypeOK, TableTypeOK, Row
  <2>4. pc' \in [Msg -> {"idle", "queued"} \union Busy]
    BY <1>4 DEF Commit, TypeOK, TaskTypeOK, Busy
  <2>5. \A x \in Msg : pc'[x] = "dedup" => HasSeq(x)
    BY <1>4 DEF Commit, TypeOK, TaskTypeOK
  <2> QED BY <1>4, <2>1, <2>3, <2>4, <2>5
      DEF Commit, Transition, TypeOK, QueueTypeOK, TableTypeOK, ProcessTypeOK, TaskTypeOK,
          CacheTypeOK, BoundTypeOK, queueVars, processVars, cacheVars, boundVars
<1>5. CASE FkViolation(m)
  BY <1>5, FailType, TaskFrameType
  DEF FkViolation, TypeOK, CacheTypeOK, BoundTypeOK, cacheVars, boundVars
<1>6. CASE Reply(m)
  <2>1. IsMap(memory', User, SUBSET Area)
    BY <1>0, <1>6, PutType DEF Reply
  <2>2. TaskTypeOK'
    BY <1>6 DEF Reply, TypeOK, TaskTypeOK, Busy
  <2> QED BY <1>6, <2>1, <2>2
      DEF Reply, TypeOK, QueueTypeOK, TableTypeOK, ProcessTypeOK, CacheTypeOK, BoundTypeOK,
          queueVars, tableVars, processVars, boundVars
<1>7. CASE Invalidated(m)
  <2>1. Finish(m, lastSeqByDevice)
    BY <1>7 DEF Invalidated
  <2>2. IsMap(lastSeqByDevice', Key, Nat)
    BY <1>0, <2>1, RememberType DEF Finish
  <2>3. wire' \in Seq(Frame) /\ TaskTypeOK'
    <3>1. TaskEnds(m, "ack") /\ outcomes' \in [Msg -> SUBSET Outcome]
      BY <2>1 DEF Finish, TypeOK, TaskTypeOK, Outcome
    <3> QED BY <3>1, TaskEndsType DEF TypeOK, TaskTypeOK
  <2> QED BY <1>7, <2>2, <2>3, TaskFrameType
      DEF Invalidated, TypeOK, CacheTypeOK, BoundTypeOK, boundVars
<1>8. CASE DbFails(m)
  BY <1>8, FailType, TaskFrameType
  DEF DbFails, TypeOK, CacheTypeOK, BoundTypeOK, cacheVars
<1>9. CASE LostReply(m)
  BY <1>0, <1>9, FailType, TaskFrameType
  DEF LostReply, TypeOK, CacheTypeOK, BoundTypeOK
<1> QED
  BY <1>1, <1>2, <1>3, <1>4, <1>5, <1>6, <1>7, <1>8, <1>9 DEF TaskStep

\* A delivery.
LEMMA DeliverType ==
    ASSUME TypeOK, NEW m \in Msg, Deliver(m)
    PROVE  TypeOK'
<1>1. UserOf[m] \in User
  BY WorkerAssumption DEF WorkerAssumption
<1>2. wire' \in Seq(Frame)
  <2>1. [type |-> "nack", msg |-> m] \in Frame
    BY DEF Frame
  <2>2. wire \in Seq(Frame)
    BY DEF TypeOK, QueueTypeOK
  <2>3. wire' = wire \/ wire' = Append(wire, [type |-> "nack", msg |-> m])
    BY DEF Deliver
  <2> QED BY <2>1, <2>2, <2>3, AppendProperties
<1>3. QueueTypeOK'
  BY <1>2, PushType DEF Deliver, TypeOK
<1>4. TaskTypeOK'
  <2>1. CASE UNCHANGED <<pc, after, userChains>>
    BY <2>1 DEF Deliver, TypeOK, TaskTypeOK
  <2>2. CASE m \notin Malformed
    BY <1>1, <2>2 DEF Deliver, TypeOK, TaskTypeOK
  <2> QED BY <2>1, <2>2 DEF Deliver
<1> QED
  BY <1>3, <1>4
  DEF Deliver, TypeOK, TableTypeOK, ProcessTypeOK, CacheTypeOK, BoundTypeOK,
      tableVars, processVars, cacheVars, boundVars

\* The end of the process.
LEMMA ProcessEndsType ==
    ASSUME TypeOK, ConnectionLost, ProcessEnds, UNCHANGED <<tableVars, outcomes>>
    PROVE  QueueTypeOK' /\ TableTypeOK' /\ ProcessTypeOK' /\ TaskTypeOK' /\ CacheTypeOK'
<1>1. QueueTypeOK'
  BY ConnectionLostType DEF TypeOK
<1>2. CacheTypeOK'
  BY EmptyMapType DEF ProcessEnds, CacheTypeOK
<1> QED
  BY <1>1, <1>2
  DEF ProcessEnds, TypeOK, TableTypeOK, ProcessTypeOK, TaskTypeOK, tableVars

\* Every step keeps every variable within its type.
LEMMA NextType == TypeOK /\ [Next]_vars => TypeOK'
<1> SUFFICES ASSUME TypeOK, [Next]_vars PROVE TypeOK'
  OBVIOUS
<1> USE DEF TypeOK, ProcessTypeOK, TaskTypeOK, CacheTypeOK, BoundTypeOK, TableTypeOK,
            tableVars, processVars, chainVars, cacheVars, boundVars
<1>1. ASSUME NEW m \in Msg, Deliver(m) PROVE TypeOK'
  BY <1>1, DeliverType
<1>2. ASSUME NEW m \in Msg, TaskStep(m) \/ DbFails(m) \/ LostReply(m) PROVE TypeOK'
  BY <1>2, TaskType
<1>3. CASE Settle
  BY <1>3, ReadFrameType DEF Settle
<1>4. CASE DeadLettered
  BY <1>4, DeadLetterType DEF DeadLettered
<1>5. CASE Boot
  BY <1>5 DEF Boot, Live, queueVars, QueueTypeOK
<1>6. CASE Crash
  <2>1. crashes' \in Nat /\ UNCHANGED <<shutdowns, faults, lost>>
    BY <1>6 DEF Crash
  <2>2. QueueTypeOK' /\ TableTypeOK' /\ ProcessTypeOK' /\ TaskTypeOK' /\ CacheTypeOK'
    BY <1>6, ProcessEndsType DEF Crash
  <2> QED BY <2>1, <2>2
<1>7. CASE Shutdown
  BY <1>7 DEF Shutdown, queueVars, QueueTypeOK
<1>8. CASE Cancelled
  BY <1>8 DEF Cancelled, queueVars, QueueTypeOK
<1>9. CASE Close
  <2>1. QueueTypeOK' /\ TableTypeOK' /\ ProcessTypeOK' /\ TaskTypeOK' /\ CacheTypeOK'
    BY <1>9, ProcessEndsType DEF Close
  <2> QED BY <1>9, <2>1 DEF Close
<1>10. ASSUME NEW a \in Area, AreaCreated(a) PROVE TypeOK'
  BY <1>10 DEF AreaCreated, CreateArea, queueVars, QueueTypeOK
<1>11. ASSUME NEW a \in Area, AreaDeleted(a) PROVE TypeOK'
  BY <1>11 DEF AreaDeleted, DeleteArea, queueVars, QueueTypeOK
<1>12. CASE SnapshotRebuilt
  BY <1>12 DEF SnapshotRebuilt, Live, queueVars, QueueTypeOK
<1>13. CASE UNCHANGED vars
  BY <1>13 DEF vars, queueVars, QueueTypeOK
<1> QED
  BY <1>1, <1>2, <1>3, <1>4, <1>5, <1>6, <1>7, <1>8, <1>9, <1>10, <1>11, <1>12, <1>13
  DEF Next

\* The worker, the queue and the tables keep their types in every behaviour: the
\* dedup map and the memory are maps on their keys, frames name messages, and
\* only a task that has a device waits for its stored seq.
THEOREM TypeCorrect == Spec => []TypeOK
<1>1. Init => TypeOK
  BY InitType
<1>2. TypeOK /\ [Next]_vars => TypeOK'
  BY NextType
<1> QED
  BY <1>1, <1>2, PTL DEF Spec

-----------------------------------------------------------------------------
(***************************************************************************)
(* Per-user serialization.                                                 *)
(***************************************************************************)
SerialInv == TypeOK /\ InOnePlace /\ EveryDeliveryOwned /\ ChainOrder

-----------------------------------------------------------------------------
(***************************************************************************)
(* The delivery order.                                                     *)
(***************************************************************************)

\* With no repetitions, Precedes is a strict total order on the outstanding
\* deliveries.
LEMMA PrecedesOrder ==
    ASSUME unacked \in Seq(Msg), IsInjective(unacked)
    PROVE  /\ \A x, y : Precedes(x, y) => x \in ToSet(unacked) /\ y \in ToSet(unacked)
           /\ \A x : ~Precedes(x, x)
<1>1. DOMAIN unacked \subseteq Nat
  BY LenProperties
<1> QED BY <1>1 DEF Precedes, ToSet, IsInjective

\* A new delivery comes after all the others and leaves their order alone.
LEMMA PrecedesAppend ==
    ASSUME unacked \in Seq(Msg), NEW m \in Msg, m \notin ToSet(unacked),
           unacked' = Append(unacked, m)
    PROVE  \A x, y : Precedes(x, y)' <=>
             Precedes(x, y) \/ (y = m /\ x \in ToSet(unacked))
<1>1. /\ Len(unacked) \in Nat /\ DOMAIN unacked = 1..Len(unacked)
      /\ DOMAIN unacked' = 1..(Len(unacked) + 1)
      /\ \A i \in 1..Len(unacked) : unacked'[i] = unacked[i]
      /\ unacked'[Len(unacked) + 1] = m
  BY LenProperties, AppendProperties
<1> SUFFICES ASSUME NEW x, NEW y
             PROVE  Precedes(x, y)' <=> Precedes(x, y) \/ (y = m /\ x \in ToSet(unacked))
  OBVIOUS
<1>2. ASSUME Precedes(x, y)' PROVE Precedes(x, y) \/ (y = m /\ x \in ToSet(unacked))
  <2>1. PICK i, j \in DOMAIN unacked' : i < j /\ unacked'[i] = x /\ unacked'[j] = y
    BY <1>2 DEF Precedes
  <2>2. i \in DOMAIN unacked /\ unacked[i] = x
    BY <1>1, <2>1
  <2>3. CASE j = Len(unacked) + 1
    BY <1>1, <2>1, <2>2, <2>3 DEF ToSet
  <2>4. CASE j # Len(unacked) + 1
    <3>1. j \in DOMAIN unacked /\ unacked[j] = y
      BY <1>1, <2>1, <2>4
    <3> QED BY <2>1, <2>2, <3>1 DEF Precedes
  <2> QED BY <2>3, <2>4
<1>3. ASSUME Precedes(x, y) PROVE Precedes(x, y)'
  <2>1. PICK i, j \in DOMAIN unacked : i < j /\ unacked[i] = x /\ unacked[j] = y
    BY <1>3 DEF Precedes
  <2>2. i \in DOMAIN unacked' /\ j \in DOMAIN unacked' /\ unacked'[i] = x /\ unacked'[j] = y
    BY <1>1, <2>1
  <2> QED BY <2>1, <2>2 DEF Precedes
<1>4. ASSUME y = m, x \in ToSet(unacked) PROVE Precedes(x, y)'
  <2>1. PICK i \in DOMAIN unacked : unacked[i] = x
    BY <1>4 DEF ToSet
  <2>2. /\ i \in DOMAIN unacked' /\ Len(unacked) + 1 \in DOMAIN unacked'
        /\ i < Len(unacked) + 1
        /\ unacked'[i] = x /\ unacked'[Len(unacked) + 1] = y
    BY <1>1, <1>4, <2>1
  <2> QED BY <2>2 DEF Precedes
<1> QED BY <1>2, <1>3, <1>4

\* A delivery that is settled leaves the order of the others alone.
LEMMA PrecedesRemove ==
    ASSUME unacked \in Seq(Msg), IsInjective(unacked), NEW k \in DOMAIN unacked,
           unacked' = RemoveAt(unacked, k)
    PROVE  \A x, y : (x # unacked[k] /\ y # unacked[k])
                     => (Precedes(x, y)' <=> Precedes(x, y))
<1>1. /\ Len(unacked) \in Nat /\ DOMAIN unacked = 1..Len(unacked)
      /\ DOMAIN unacked' = 1..(Len(unacked) - 1)
      /\ \A i \in 1..(Len(unacked) - 1) :
           unacked'[i] = IF i < k THEN unacked[i] ELSE unacked[i + 1]
  BY LenProperties, RemoveAtProperties
<1> SUFFICES ASSUME NEW x, NEW y, x # unacked[k], y # unacked[k]
             PROVE  Precedes(x, y)' <=> Precedes(x, y)
  OBVIOUS
<1>2. ASSUME Precedes(x, y)' PROVE Precedes(x, y)
  <2>1. PICK i, j \in DOMAIN unacked' : i < j /\ unacked'[i] = x /\ unacked'[j] = y
    BY <1>2 DEF Precedes
  <2> DEFINE p == IF i < k THEN i ELSE i + 1
             q == IF j < k THEN j ELSE j + 1
  <2>2. p \in DOMAIN unacked /\ q \in DOMAIN unacked /\ p < q
    BY <1>1, <2>1
  <2>3. unacked[p] = x /\ unacked[q] = y
    BY <1>1, <2>1
  <2> HIDE DEF p, q
  <2> QED BY <2>2, <2>3 DEF Precedes
<1>3. ASSUME Precedes(x, y) PROVE Precedes(x, y)'
  <2>1. PICK i, j \in DOMAIN unacked : i < j /\ unacked[i] = x /\ unacked[j] = y
    BY <1>3 DEF Precedes
  <2>2. i # k /\ j # k
    BY <2>1
  <2> DEFINE p == IF i < k THEN i ELSE i - 1
             q == IF j < k THEN j ELSE j - 1
  <2>3. p \in DOMAIN unacked' /\ q \in DOMAIN unacked' /\ p < q
    BY <1>1, <2>1, <2>2
  <2>4. unacked'[p] = x /\ unacked'[q] = y
    BY <1>1, <2>1, <2>2, <2>3
  <2> HIDE DEF p, q
  <2> QED BY <2>3, <2>4 DEF Precedes
<1> QED BY <1>2, <1>3

-----------------------------------------------------------------------------
(***************************************************************************)
(* The frames on the wire.                                                 *)
(***************************************************************************)
FramesDistinct == \A i, j \in DOMAIN wire : wire[i].msg = wire[j].msg => i = j

\* A frame joins the wire.
LEMMA FramedAppend ==
    ASSUME wire \in Seq(Frame), NEW t \in {"ack", "nack"}, NEW m \in Msg,
           wire' = Append(wire, [type |-> t, msg |-> m])
    PROVE  /\ Framed' = Framed \union {m}
           /\ (FramesDistinct /\ m \notin Framed) => FramesDistinct'
<1> DEFINE f == [type |-> t, msg |-> m]
<1>0. f \in Frame /\ f.msg = m
  BY DEF Frame
<1> HIDE DEF f
<1>1. /\ Len(wire) \in Nat /\ DOMAIN wire = 1..Len(wire)
      /\ DOMAIN wire' = 1..(Len(wire) + 1)
      /\ \A i \in 1..Len(wire) : wire'[i] = wire[i]
      /\ wire'[Len(wire) + 1] = f
  BY <1>0, LenProperties, AppendProperties DEF f
<1>2. \A i \in DOMAIN wire' : \/ i \in DOMAIN wire /\ wire'[i].msg = wire[i].msg
                              \/ i = Len(wire) + 1 /\ wire'[i].msg = m
  BY <1>0, <1>1
<1>3. \A i \in DOMAIN wire : i \in DOMAIN wire' /\ wire'[i].msg = wire[i].msg
  BY <1>1
<1>4. Len(wire) + 1 \in DOMAIN wire' /\ wire'[Len(wire) + 1].msg = m
  BY <1>0, <1>1
<1>5. Framed' = Framed \union {m}
  BY <1>2, <1>3, <1>4 DEF Framed
<1>6. ASSUME FramesDistinct, m \notin Framed PROVE FramesDistinct'
  BY <1>2, <1>6 DEF FramesDistinct, Framed
<1> QED BY <1>5, <1>6

\* A frame leaves the wire.
LEMMA FramedTail ==
    ASSUME wire \in Seq(Frame), wire # <<>>, wire' = Tail(wire), FramesDistinct
    PROVE  /\ Head(wire).msg \in Framed
           /\ Framed' = Framed \ {Head(wire).msg}
           /\ FramesDistinct'
<1>1. /\ Len(wire) \in Nat /\ Len(wire) >= 1 /\ DOMAIN wire = 1..Len(wire)
      /\ Head(wire) = wire[1]
      /\ DOMAIN wire' = 1..(Len(wire) - 1)
      /\ \A i \in 1..(Len(wire) - 1) : wire'[i] = wire[i + 1]
  BY LenProperties, EmptySeq, HeadTailProperties
<1>2. 1 \in DOMAIN wire /\ Head(wire).msg = wire[1].msg
  BY <1>1
<1>3. \A i \in DOMAIN wire' : i + 1 \in DOMAIN wire /\ i + 1 # 1 /\ wire'[i].msg = wire[i + 1].msg
  BY <1>1
<1>4. \A j \in DOMAIN wire : j # 1 => j - 1 \in DOMAIN wire' /\ wire'[j - 1].msg = wire[j].msg
  BY <1>1
<1>5. FramesDistinct'
  <2> SUFFICES ASSUME NEW i \in DOMAIN wire', NEW j \in DOMAIN wire', wire'[i].msg = wire'[j].msg
               PROVE  i = j
    BY DEF FramesDistinct
  <2>1. i + 1 = j + 1
    BY <1>3 DEF FramesDistinct
  <2> QED BY <1>1, <2>1
<1>6. Framed' \subseteq Framed \ {Head(wire).msg}
  BY <1>2, <1>3 DEF Framed, FramesDistinct
<1>7. Framed \ {Head(wire).msg} \subseteq Framed'
  BY <1>2, <1>4 DEF Framed
<1> QED BY <1>2, <1>5, <1>6, <1>7 DEF Framed

-----------------------------------------------------------------------------
(***************************************************************************)
(* The steps of a task.                                                    *)
(***************************************************************************)

\* A task that goes on.
Continues(m) ==
    /\ \E b \in Busy : pc' = [pc EXCEPT ![m] = b]
    /\ UNCHANGED <<wire, after, userChains>>

\* A task that ends.
Ends(m) == \E t \in {"ack", "nack"} : TaskEnds(m, t)

\* The gate lets the task go on or ends it.
LEMMA GateShape ==
    ASSUME NEW m \in Msg, NEW seqs, Gate(m, seqs)
    PROVE  Continues(m) \/ Ends(m)
<1>1. ASSUME NEW c, NEW h, Fork(m, c, h, seqs) PROVE Continues(m) \/ Ends(m)
  <2>1. CASE Finish(m, seqs)
    BY <2>1 DEF Finish, Ends
  <2>2. CASE ~Finish(m, seqs)
    BY <1>1, <2>2 DEF Fork, Continues, Busy
  <2> QED BY <2>1, <2>2
<1>2. CASE Discard(m, seqs)
  BY <1>2 DEF Discard, Ends
<1>3. CASE Report(m, seqs)
  <2>1. CASE Fail(m)
    BY <2>1 DEF Fail, Ends
  <2>2. CASE Fork(m, Cover[m] \intersect snapshot, memory[UserOf[m]], seqs)
    BY <1>1, <2>2
  <2>3. CASE ~Fail(m) /\ ~Fork(m, Cover[m] \intersect snapshot, memory[UserOf[m]], seqs)
    BY <1>3, <2>3 DEF Report, Continues, Busy
  <2> QED BY <2>1, <2>2, <2>3
<1> QED BY <1>2, <1>3 DEF Gate

\* Any step of a task lets it go on or ends it.
LEMMA TaskShape ==
    ASSUME NEW m \in Msg, TaskStep(m) \/ DbFails(m) \/ LostReply(m)
    PROVE  /\ pc[m] \in Busy \/ (pc[m] = "queued" /\ after[m] = None)
           /\ Continues(m) \/ Ends(m)
           /\ UNCHANGED <<ready, returns, unacked>>
<1>1. CASE Start(m)
  <2>1. CASE Gate(m, lastSeqByDevice)
    BY <1>1, <2>1, GateShape DEF Start, taskFrame
  <2>2. CASE ~Gate(m, lastSeqByDevice)
    BY <1>1, <2>2 DEF Start, taskFrame, Continues, Busy
  <2> QED BY <2>1, <2>2
<1>2. CASE SeqLoaded(m)
  BY <1>2, GateShape DEF SeqLoaded, taskFrame, Busy
<1>3. CASE HintLoaded(m)
  <2>1. Fork(m, cur[m], presence[UserOf[m]], lastSeqByDevice)
    BY <1>3 DEF HintLoaded
  <2>2. CASE Finish(m, lastSeqByDevice)
    BY <1>3, <2>2 DEF HintLoaded, taskFrame, Busy, Finish, Ends
  <2>3. CASE ~Finish(m, lastSeqByDevice)
    BY <1>3, <2>1, <2>3 DEF HintLoaded, taskFrame, Busy, Fork, Continues
  <2> QED BY <2>2, <2>3
<1>4. CASE Commit(m)
  BY <1>4 DEF Commit, queueVars, Busy, Continues
<1>5. CASE FkViolation(m)
  BY <1>5 DEF FkViolation, DropStale, taskFrame, Busy, Ends
<1>6. CASE Reply(m)
  BY <1>6 DEF Reply, queueVars, Busy, Continues
<1>7. CASE Invalidated(m)
  BY <1>7 DEF Invalidated, Finish, taskFrame, Busy, Ends
<1>8. CASE DbFails(m)
  BY <1>8 DEF DbFails, Fail, taskFrame, Busy, Ends
<1>9. CASE LostReply(m)
  BY <1>9 DEF LostReply, Fail, taskFrame, Busy, Ends
<1> QED
  BY <1>1, <1>2, <1>3, <1>4, <1>5, <1>6, <1>7, <1>8, <1>9 DEF TaskStep

-----------------------------------------------------------------------------
(***************************************************************************)
(* Every action keeps the invariant.                                       *)
(***************************************************************************)

\* A task never waits for anything once it runs.
LEMMA RunnerWaitsForNone ==
    ASSUME SerialInv, NEW m \in Msg,
           pc[m] \in Busy \/ (pc[m] = "queued" /\ after[m] = None)
    PROVE  m \in Tasks /\ after[m] = None
BY DEF SerialInv, ChainOrder, WaitsForPrevious, Tasks, Busy

\* A task that goes on leaves the chains as they are.
LEMMA ContinuesSerial ==
    ASSUME SerialInv, NEW m \in Msg, m \in Tasks, after[m] = None,
           Continues(m), UNCHANGED <<ready, returns, unacked>>
    PROVE  InOnePlace' /\ EveryDeliveryOwned' /\ ChainOrder'
<1>1. PICK b \in Busy : pc' = [pc EXCEPT ![m] = b]
  BY DEF Continues
<1>2. pc \in [Msg -> {"idle", "queued"} \union Busy]
  BY DEF SerialInv, TypeOK, TaskTypeOK
<1>3. Tasks' = Tasks
  BY <1>1, <1>2 DEF Tasks, Busy
<1>4. Framed' = Framed
  BY DEF Continues, Framed
<1>5. \A x, y : Precedes(x, y)' <=> Precedes(x, y)
  BY DEF Precedes
<1>6. InOnePlace'
  BY DEF SerialInv, InOnePlace, IsInjective, ToSet
<1>7. EveryDeliveryOwned'
  BY <1>3, <1>4 DEF SerialInv, EveryDeliveryOwned, Continues, ToSet
<1>8. \A y \in Msg : after[y] # None => pc'[y] = pc[y]
  BY <1>1, <1>2
<1>9. ChainOrder'
  BY <1>3, <1>5, <1>8
  DEF SerialInv, ChainOrder, LaterWaits, WaitsForPrevious, TailIsLast, Continues
<1> QED BY <1>6, <1>7, <1>9

\* A task that ends hands its user's chain to the next one.
LEMMA EndsSerial ==
    ASSUME SerialInv, NEW m \in Msg, m \in Tasks, after[m] = None,
           Ends(m), UNCHANGED <<ready, returns, unacked>>
    PROVE  InOnePlace' /\ EveryDeliveryOwned' /\ ChainOrder'
<1>1. PICK t \in {"ack", "nack"} : TaskEnds(m, t)
  BY DEF Ends
<1>2. /\ pc \in [Msg -> {"idle", "queued"} \union Busy]
      /\ after \in [Msg -> Msg \union {None}]
      /\ userChains \in [User -> Msg \union {None}]
      /\ wire \in Seq(Frame)
  BY DEF SerialInv, TypeOK, TaskTypeOK, QueueTypeOK
<1>3. /\ \A x \in Msg : UserOf[x] \in User
      /\ None \notin Msg
  BY WorkerAssumption DEF WorkerAssumption
<1>4. Tasks' = Tasks \ {m}
  BY <1>1, <1>2 DEF TaskEnds, Tasks
<1>5. m \notin Framed
  BY DEF SerialInv, EveryDeliveryOwned
<1>6. Framed' = Framed \union {m} /\ FramesDistinct'
  BY <1>1, <1>2, <1>5, FramedAppend DEF TaskEnds, SerialInv, EveryDeliveryOwned, FramesDistinct
<1>7. \A x, y : Precedes(x, y)' <=> Precedes(x, y)
  BY DEF Precedes
<1>8. InOnePlace'
  BY DEF SerialInv, InOnePlace, IsInjective, ToSet
<1>9. EveryDeliveryOwned'
  BY <1>4, <1>6 DEF SerialInv, EveryDeliveryOwned, FramesDistinct, ToSet
<1>10. \A y \in Msg : /\ after'[y] = IF after[y] = m THEN None ELSE after[y]
                      /\ y # m => pc'[y] = pc[y]
  BY <1>1, <1>2 DEF TaskEnds
<1>11. \A x \in Tasks : UserOf[x] = UserOf[m] => ~Precedes(x, m)
  BY DEF SerialInv, ChainOrder, LaterWaits
<1>12. LaterWaits'
  <2> SUFFICES ASSUME NEW x \in Tasks', NEW y \in Tasks',
                      UserOf[x] = UserOf[y], Precedes(x, y)
               PROVE  after'[y] # None
    BY <1>7 DEF LaterWaits
  <2>1. x \in Tasks /\ y \in Tasks /\ x # m /\ y \in Msg
    BY <1>4 DEF Tasks
  <2>2. after[y] # None
    BY <2>1 DEF SerialInv, ChainOrder, LaterWaits
  <2>3. after[y] # m
    BY <1>11, <2>1, <2>2 DEF SerialInv, ChainOrder, WaitsForPrevious
  <2> QED BY <1>10, <2>1, <2>2, <2>3
<1>13. WaitsForPrevious'
  <2> SUFFICES ASSUME NEW y \in Msg, after'[y] # None
               PROVE  /\ pc'[y] = "queued"
                      /\ after'[y] \in Tasks'
                      /\ UserOf[after'[y]] = UserOf[y]
                      /\ Precedes(after'[y], y)
                      /\ \A x \in Tasks' :
                           (UserOf[x] = UserOf[y] /\ Precedes(x, y) /\ x # after'[y])
                           => Precedes(x, after'[y])
    BY <1>7 DEF WaitsForPrevious
  <2>1. after'[y] = after[y] /\ after[y] # m /\ after[y] # None /\ y # m /\ pc'[y] = pc[y]
    BY <1>10
  <2> QED BY <1>4, <2>1 DEF SerialInv, ChainOrder, WaitsForPrevious
<1>14. TailIsLast'
  <2>1. \A u \in User : userChains'[u] =
          IF u = UserOf[m] /\ userChains[u] = m THEN None ELSE userChains[u]
    BY <1>1, <1>2, <1>3 DEF TaskEnds
  <2>2. ASSUME NEW u \in User, userChains'[u] # None
        PROVE  /\ userChains'[u] \in Tasks'
               /\ UserOf[userChains'[u]] = u
               /\ \A x \in Tasks' : (UserOf[x] = u /\ x # userChains'[u])
                                    => Precedes(x, userChains'[u])
    <3>1. userChains'[u] = userChains[u] /\ (u = UserOf[m] => userChains[u] # m)
      BY <2>1, <2>2
    <3> QED BY <1>4, <2>2, <3>1 DEF SerialInv, ChainOrder, TailIsLast
  <2>3. ASSUME NEW x \in Tasks' PROVE userChains'[UserOf[x]] # None
    <3>1. x \in Tasks /\ x # m /\ x \in Msg /\ UserOf[x] \in User
      BY <1>3, <1>4 DEF Tasks
    <3>2. userChains[UserOf[x]] # None
      BY <3>1 DEF SerialInv, ChainOrder, TailIsLast
    <3>3. ~(UserOf[x] = UserOf[m] /\ userChains[UserOf[x]] = m)
      BY <1>11, <3>1, <3>2 DEF SerialInv, ChainOrder, TailIsLast
    <3> QED BY <2>1, <3>1, <3>2, <3>3
  <2> QED BY <1>7, <2>2, <2>3 DEF TailIsLast
<1> QED BY <1>8, <1>9, <1>12, <1>13, <1>14 DEF ChainOrder

\* A message in the queue is not outstanding.
LEMMA DequeueSerial ==
    ASSUME SerialInv, NEW m \in Msg, Push(m)
    PROVE  m \notin ToSet(unacked) /\ InOnePlace'
<1>1. /\ ready \in Seq(Msg) /\ returns \in Seq(Msg) /\ unacked \in Seq(Msg)
      /\ InOnePlace
  BY DEF SerialInv, TypeOK, QueueTypeOK
<1>2. /\ \/ /\ m \in ToSet(ready)
            /\ IsInjective(ready') /\ ToSet(ready') = ToSet(ready) \ {m}
            /\ returns' = returns
         \/ /\ m \in ToSet(returns)
            /\ IsInjective(returns') /\ ToSet(returns') = ToSet(returns) \ {m}
            /\ ready' = ready
  <2>1. CASE returns # <<>> /\ m = Head(returns) /\ returns' = Tail(returns) /\ ready' = ready
    BY <1>1, <2>1, TailSet DEF InOnePlace
  <2>2. CASE ready # <<>> /\ m = Head(ready) /\ ready' = Tail(ready) /\ returns' = returns
    BY <1>1, <2>2, TailSet DEF InOnePlace
  <2> QED BY <2>1, <2>2 DEF Push, Dequeue
<1>3. m \notin ToSet(unacked)
  BY <1>1, <1>2 DEF InOnePlace
<1>4. IsInjective(unacked') /\ ToSet(unacked') = ToSet(unacked) \union {m}
  BY <1>1, <1>3, AppendSet DEF Push, InOnePlace
<1>5. /\ IsInjective(ready') /\ IsInjective(returns') /\ IsInjective(unacked')
      /\ ToSet(ready') \intersect ToSet(returns') = {}
      /\ ToSet(ready') \intersect ToSet(unacked') = {}
      /\ ToSet(returns') \intersect ToSet(unacked') = {}
  BY <1>1, <1>2, <1>4 DEF InOnePlace
<1> QED BY <1>3, <1>5 DEF InOnePlace, IsInjective, ToSet

\* A delivery is the last of the outstanding ones; its task goes to the end of
\* its user's chain.
LEMMA DeliverSerial ==
    ASSUME SerialInv, NEW m \in Msg, Deliver(m)
    PROVE  InOnePlace' /\ EveryDeliveryOwned' /\ ChainOrder'
<1>1. m \notin ToSet(unacked) /\ InOnePlace'
  BY DequeueSerial DEF Deliver
<1>2. /\ pc \in [Msg -> {"idle", "queued"} \union Busy]
      /\ after \in [Msg -> Msg \union {None}]
      /\ userChains \in [User -> Msg \union {None}]
      /\ wire \in Seq(Frame)
      /\ unacked \in Seq(Msg)
  BY DEF SerialInv, TypeOK, TaskTypeOK, QueueTypeOK
<1>3. \A x \in Msg : UserOf[x] \in User
  BY WorkerAssumption DEF WorkerAssumption
<1>4. unacked' = Append(unacked, m)
  BY DEF Deliver, Push
<1>5. ToSet(unacked') = ToSet(unacked) \union {m}
  BY <1>2, <1>4, AppendSet
<1>6. \A x, y : Precedes(x, y)' <=> Precedes(x, y) \/ (y = m /\ x \in ToSet(unacked))
  BY <1>1, <1>2, <1>4, PrecedesAppend
<1>7. \A x, y : Precedes(x, y) => x \in ToSet(unacked) /\ y \in ToSet(unacked)
  BY <1>2, PrecedesOrder DEF SerialInv, InOnePlace
<1>8. m \notin Tasks /\ m \notin Framed /\ Tasks \subseteq ToSet(unacked)
  BY <1>1 DEF SerialInv, EveryDeliveryOwned
<1>9. CASE m \in Malformed
  <2>1. wire' = Append(wire, [type |-> "nack", msg |-> m]) /\ UNCHANGED <<pc, after, userChains>>
    BY <1>9 DEF Deliver
  <2>2. Tasks' = Tasks
    BY <2>1 DEF Tasks
  <2>3. Framed' = Framed \union {m} /\ FramesDistinct'
    BY <1>2, <1>8, <2>1, FramedAppend DEF SerialInv, EveryDeliveryOwned, FramesDistinct
  <2>4. EveryDeliveryOwned'
    BY <1>5, <1>8, <2>2, <2>3 DEF SerialInv, EveryDeliveryOwned, FramesDistinct, ToSet
  <2>5. \A x, y \in Tasks : Precedes(x, y)' <=> Precedes(x, y)
    BY <1>6, <1>8
  <2>6. \A y \in Msg : after[y] # None => y \in Tasks /\ after[y] \in Tasks
    BY DEF SerialInv, ChainOrder, WaitsForPrevious, Tasks
  <2>7. ChainOrder'
    BY <2>1, <2>2, <2>5, <2>6
    DEF SerialInv, ChainOrder, LaterWaits, WaitsForPrevious, TailIsLast
  <2> QED BY <1>1, <2>4, <2>7
<1>10. CASE m \notin Malformed
  <2>1. /\ pc' = [pc EXCEPT ![m] = "queued"]
        /\ after' = [after EXCEPT ![m] = userChains[UserOf[m]]]
        /\ userChains' = [userChains EXCEPT ![UserOf[m]] = m]
        /\ wire' = wire
    BY <1>10 DEF Deliver
  <2>2. Tasks' = Tasks \union {m}
    BY <1>2, <2>1 DEF Tasks
  <2>3. Framed' = Framed
    BY <2>1 DEF Framed
  <2>4. EveryDeliveryOwned'
    BY <1>5, <1>8, <2>1, <2>2, <2>3 DEF SerialInv, EveryDeliveryOwned, ToSet
  <2>t. PICK tail : tail = userChains[UserOf[m]]
    OBVIOUS
  <2>5. /\ \A y \in Msg : y # m => after'[y] = after[y] /\ pc'[y] = pc[y]
        /\ after'[m] = tail /\ pc'[m] = "queued"
    BY <1>2, <2>1, <2>t
  <2>6. /\ \A u \in User : u # UserOf[m] => userChains'[u] = userChains[u]
        /\ userChains'[UserOf[m]] = m
    BY <1>2, <1>3, <2>1
  <2>7. /\ tail # None => /\ tail \in Tasks /\ UserOf[tail] = UserOf[m]
                          /\ \A x \in Tasks : (UserOf[x] = UserOf[m] /\ x # tail)
                                              => Precedes(x, tail)
        /\ \A x \in Tasks : UserOf[x] = UserOf[m] => tail # None
    BY <1>3, <2>t DEF SerialInv, ChainOrder, TailIsLast
  <2>8. \A x \in Tasks' : Precedes(x, m)' => x \in Tasks
    BY <1>1, <1>6, <1>7, <2>2
  <2>9. \A x \in Tasks', y \in Msg : (y # m /\ Precedes(x, y)') => x \in Tasks /\ Precedes(x, y)
    BY <1>1, <1>6, <1>7, <2>2
  <2>10. LaterWaits'
    <3> SUFFICES ASSUME NEW x \in Tasks', NEW y \in Tasks',
                        UserOf[x] = UserOf[y], Precedes(x, y)'
                 PROVE  after'[y] # None
      BY DEF LaterWaits
    <3>1. CASE y = m
      BY <2>5, <2>7, <2>8, <3>1
    <3>2. CASE y # m
      <4>1. y \in Tasks /\ y \in Msg
        BY <2>2, <3>2 DEF Tasks
      <4> QED BY <2>5, <2>9, <3>2, <4>1 DEF SerialInv, ChainOrder, LaterWaits
    <3> QED BY <3>1, <3>2
  <2>11. WaitsForPrevious'
    <3> SUFFICES ASSUME NEW y \in Msg, NEW z, z = after'[y], z # None
                 PROVE  /\ pc'[y] = "queued"
                        /\ z \in Tasks'
                        /\ UserOf[z] = UserOf[y]
                        /\ Precedes(z, y)'
                        /\ \A x \in Tasks' :
                             (UserOf[x] = UserOf[y] /\ Precedes(x, y)' /\ x # z)
                             => Precedes(x, z)'
      BY DEF WaitsForPrevious
    <3>1. CASE y = m
      <4>1. tail # None /\ tail \in Tasks /\ UserOf[tail] = UserOf[m]
        BY <2>5, <2>7, <3>1
      <4>2. Precedes(tail, m)'
        BY <1>6, <1>8, <4>1
      <4>3. \A x \in Tasks' : (UserOf[x] = UserOf[m] /\ Precedes(x, m)' /\ x # tail)
                              => Precedes(x, tail)'
        BY <1>6, <2>7, <2>8, <4>1
      <4> QED BY <2>2, <2>5, <3>1, <4>1, <4>2, <4>3
    <3>2. CASE y # m
      <4>1. z = after[y] /\ pc'[y] = pc[y]
        BY <2>5, <3>2
      <4>2. /\ pc[y] = "queued"
            /\ z \in Tasks
            /\ UserOf[z] = UserOf[y]
            /\ Precedes(z, y)
            /\ \A x \in Tasks : (UserOf[x] = UserOf[y] /\ Precedes(x, y) /\ x # z)
                                => Precedes(x, z)
        BY <4>1 DEF SerialInv, ChainOrder, WaitsForPrevious
      <4> QED BY <1>6, <2>2, <2>9, <3>2, <4>1, <4>2
    <3> QED BY <3>1, <3>2
  <2>12. TailIsLast'
    <3>1. ASSUME NEW u \in User, NEW z, z = userChains'[u], z # None
          PROVE  /\ z \in Tasks'
                 /\ UserOf[z] = u
                 /\ \A x \in Tasks' : (UserOf[x] = u /\ x # z) => Precedes(x, z)'
      <4>1. CASE u = UserOf[m]
        BY <1>6, <1>8, <2>2, <2>6, <3>1, <4>1
      <4>2. CASE u # UserOf[m]
        <5>1. z = userChains[u]
          BY <2>6, <3>1, <4>2
        <5> QED BY <1>6, <2>2, <3>1, <4>2, <5>1 DEF SerialInv, ChainOrder, TailIsLast
      <4> QED BY <4>1, <4>2
    <3>2. ASSUME NEW x \in Tasks' PROVE userChains'[UserOf[x]] # None
      <4>1. x \in Msg /\ UserOf[x] \in User /\ m # None
        BY <1>3, <2>2, WorkerAssumption DEF Tasks, WorkerAssumption
      <4>2. CASE UserOf[x] = UserOf[m]
        BY <2>6, <4>1, <4>2
      <4>3. CASE UserOf[x] # UserOf[m]
        BY <2>2, <2>6, <4>1, <4>3 DEF SerialInv, ChainOrder, TailIsLast
      <4> QED BY <4>2, <4>3
    <3> QED BY <3>1, <3>2 DEF TailIsLast
  <2> QED BY <1>1, <2>4, <2>10, <2>11, <2>12 DEF ChainOrder
<1> QED BY <1>9, <1>10

\* The broker reads a frame: the delivery it settles has no task any more.
LEMMA SettleSerial ==
    ASSUME SerialInv, Settle
    PROVE  InOnePlace' /\ EveryDeliveryOwned' /\ ChainOrder'
<1> DEFINE d == Head(wire).msg
<1>1. /\ wire # <<>> /\ wire' = Tail(wire) /\ ready' = ready
      /\ UNCHANGED <<pc, after, userChains>>
  BY DEF Settle, ReadFrame, chainVars
<1>2. /\ ready \in Seq(Msg) /\ returns \in Seq(Msg) /\ unacked \in Seq(Msg)
      /\ wire \in Seq(Frame) /\ InOnePlace
  BY DEF SerialInv, TypeOK, QueueTypeOK
<1>3. d \in Framed /\ Framed' = Framed \ {d} /\ FramesDistinct'
  BY <1>1, <1>2, FramedTail DEF SerialInv, EveryDeliveryOwned, FramesDistinct
<1>4. PICK k \in DOMAIN unacked :
         /\ unacked[k] = d
         /\ unacked' = RemoveAt(unacked, k)
         /\ returns' = returns \/ returns' = Append(returns, d)
  BY DEF Settle, ReadFrame
<1> HIDE DEF d
<1>5. d \in Msg
  BY <1>2, <1>4, ElementOfSeq, LenProperties
<1>6. IsInjective(unacked') /\ ToSet(unacked') = ToSet(unacked) \ {d}
  BY <1>2, <1>4, RemoveSet DEF InOnePlace
<1>7. \A x, y : (x # d /\ y # d) => (Precedes(x, y)' <=> Precedes(x, y))
  BY <1>2, <1>4, PrecedesRemove DEF InOnePlace
<1>8. Tasks' = Tasks /\ d \notin Tasks
  BY <1>1, <1>3 DEF Tasks, SerialInv, EveryDeliveryOwned
<1>9. d \in ToSet(unacked)
  BY <1>4 DEF ToSet
<1>10. IsInjective(returns') /\ ToSet(returns') \subseteq ToSet(returns) \union {d}
  <2>1. d \notin ToSet(returns) /\ IsInjective(returns)
    BY <1>2, <1>9 DEF InOnePlace
  <2>2. CASE returns' = returns
    BY <2>1, <2>2 DEF IsInjective, ToSet
  <2>3. CASE returns' = Append(returns, d)
    BY <1>2, <1>5, <2>1, <2>3, AppendSet
  <2> QED BY <1>4, <2>2, <2>3
<1>11. InOnePlace'
  <2>1. /\ IsInjective(ready) /\ IsInjective(returns') /\ IsInjective(unacked')
        /\ ToSet(ready) \intersect ToSet(returns') = {}
        /\ ToSet(ready) \intersect ToSet(unacked') = {}
        /\ ToSet(returns') \intersect ToSet(unacked') = {}
    BY <1>2, <1>6, <1>9, <1>10 DEF InOnePlace
  <2> QED BY <1>1, <2>1 DEF InOnePlace, IsInjective, ToSet
<1>12. EveryDeliveryOwned'
  BY <1>3, <1>6, <1>8 DEF SerialInv, EveryDeliveryOwned, FramesDistinct, ToSet
<1>13. \A y \in Msg : after[y] # None => y \in Tasks /\ after[y] \in Tasks
  BY DEF SerialInv, ChainOrder, WaitsForPrevious, Tasks
<1>14. \A x, y \in Tasks : Precedes(x, y)' <=> Precedes(x, y)
  BY <1>7, <1>8
<1>15. ChainOrder'
  BY <1>1, <1>8, <1>13, <1>14
  DEF SerialInv, ChainOrder, LaterWaits, WaitsForPrevious, TailIsLast
<1> QED BY <1>11, <1>12, <1>15

\* A step that leaves the outstanding deliveries, the wire and the chains alone.
LEMMA SameDeliveriesSerial ==
    ASSUME SerialInv, UNCHANGED <<unacked, wire, pc, after, userChains>>
    PROVE  EveryDeliveryOwned' /\ ChainOrder'
<1>1. Tasks' = Tasks /\ Framed' = Framed /\ ToSet(unacked') = ToSet(unacked)
  BY DEF Tasks, Framed, ToSet
<1>2. \A x, y : Precedes(x, y)' <=> Precedes(x, y)
  BY DEF Precedes
<1>3. EveryDeliveryOwned'
  BY <1>1 DEF SerialInv, EveryDeliveryOwned, ToSet
<1>4. ChainOrder'
  BY <1>1, <1>2 DEF SerialInv, ChainOrder, LaterWaits, WaitsForPrevious, TailIsLast
<1> QED BY <1>3, <1>4

\* Dead-lettering leaves the chains as they are.
LEMMA DeadLetterSerial ==
    ASSUME SerialInv, DeadLettered
    PROVE  InOnePlace' /\ EveryDeliveryOwned' /\ ChainOrder'
<1>1. returns \in Seq(Msg) /\ IsInjective(returns)
  BY DEF SerialInv, TypeOK, QueueTypeOK, InOnePlace
<1>2. IsInjective(returns') /\ ToSet(returns') \subseteq ToSet(returns)
  BY <1>1, TailSet DEF DeadLettered, DeadLetter
<1>3. UNCHANGED <<ready, unacked, wire, pc, after, userChains>>
  BY DEF DeadLettered, DeadLetter, chainVars
<1>4. InOnePlace'
  <2>1. /\ IsInjective(ready) /\ IsInjective(returns') /\ IsInjective(unacked)
        /\ ToSet(ready) \intersect ToSet(returns') = {}
        /\ ToSet(ready) \intersect ToSet(unacked) = {}
        /\ ToSet(returns') \intersect ToSet(unacked) = {}
    BY <1>2 DEF SerialInv, InOnePlace
  <2> QED BY <1>3, <2>1 DEF InOnePlace, IsInjective, ToSet
<1> QED BY <1>3, <1>4, SameDeliveriesSerial

\* When the process ends, what was outstanding is back in the queue and there are
\* no tasks and no frames.
LEMMA ProcessEndsSerial ==
    ASSUME SerialInv, ConnectionLost, ProcessEnds
    PROVE  InOnePlace' /\ EveryDeliveryOwned' /\ ChainOrder'
<1>1. /\ returns \in Seq(Msg) /\ unacked \in Seq(Msg) /\ InOnePlace
  BY DEF SerialInv, TypeOK, QueueTypeOK
<1>2. IsInjective(returns') /\ ToSet(returns') = ToSet(returns) \union ToSet(unacked)
  BY <1>1, ConcatSet DEF ConnectionLost, InOnePlace
<1>3. unacked' = <<>> /\ wire' = <<>> /\ ready' = ready
  BY DEF ConnectionLost
<1>4. InOnePlace'
  <2>1. IsInjective(unacked') /\ ToSet(unacked') = {}
    BY <1>3 DEF IsInjective, ToSet
  <2>2. /\ IsInjective(ready) /\ IsInjective(returns') /\ IsInjective(unacked')
        /\ ToSet(ready) \intersect ToSet(returns') = {}
        /\ ToSet(ready) \intersect ToSet(unacked') = {}
        /\ ToSet(returns') \intersect ToSet(unacked') = {}
    BY <1>1, <1>2, <2>1 DEF InOnePlace
  <2> QED BY <1>3, <2>2 DEF InOnePlace, IsInjective, ToSet
<1>5. Tasks' = {} /\ Framed' = {}
  BY <1>3 DEF ProcessEnds, Tasks, Framed
<1>6. EveryDeliveryOwned'
  BY <1>3, <1>5 DEF EveryDeliveryOwned, ToSet
<1>7. ChainOrder'
  BY <1>5 DEF ProcessEnds, ChainOrder, LaterWaits, WaitsForPrevious, TailIsLast
<1> QED BY <1>4, <1>6, <1>7

\* A step that leaves the queue, the wire and the chains alone.
LEMMA ElsewhereSerial ==
    ASSUME SerialInv, UNCHANGED <<ready, returns, unacked, wire, pc, after, userChains>>
    PROVE  InOnePlace' /\ EveryDeliveryOwned' /\ ChainOrder'
<1>1. InOnePlace'
  BY DEF SerialInv, InOnePlace, IsInjective, ToSet
<1> QED BY <1>1, SameDeliveriesSerial

\* At the start there are no chains.
LEMMA InitSerial == Init => SerialInv
<1> SUFFICES ASSUME Init PROVE SerialInv
  OBVIOUS
<1>1. TypeOK
  BY InitType
<1>2. InOnePlace
  BY QueueAssumption DEF QueueAssumption, Init, QueueInit, InOnePlace, IsInjective, ToSet
<1>3. Tasks = {} /\ Framed = {} /\ ToSet(unacked) = {}
  BY DEF Init, QueueInit, Tasks, Framed, ToSet
<1>4. EveryDeliveryOwned
  BY <1>3 DEF EveryDeliveryOwned, Init, QueueInit
<1>5. ChainOrder
  BY <1>3 DEF Init, ChainOrder, LaterWaits, WaitsForPrevious, TailIsLast
<1> QED BY <1>1, <1>2, <1>4, <1>5 DEF SerialInv

\* Every step keeps the tasks of a user serial.
LEMMA NextSerial == SerialInv /\ [Next]_vars => SerialInv'
<1> SUFFICES ASSUME SerialInv, [Next]_vars
             PROVE  InOnePlace' /\ EveryDeliveryOwned' /\ ChainOrder'
  BY NextType DEF SerialInv
<1> USE DEF queueVars, chainVars
<1>1. ASSUME NEW m \in Msg, Deliver(m)
      PROVE  InOnePlace' /\ EveryDeliveryOwned' /\ ChainOrder'
  BY <1>1, DeliverSerial
<1>2. ASSUME NEW m \in Msg, TaskStep(m) \/ DbFails(m) \/ LostReply(m)
      PROVE  InOnePlace' /\ EveryDeliveryOwned' /\ ChainOrder'
  <2>1. m \in Tasks /\ after[m] = None
    BY <1>2, TaskShape, RunnerWaitsForNone
  <2>2. (Continues(m) \/ Ends(m)) /\ UNCHANGED <<ready, returns, unacked>>
    BY <1>2, TaskShape
  <2> QED BY <2>1, <2>2, ContinuesSerial, EndsSerial
<1>3. CASE Settle
  BY <1>3, SettleSerial
<1>4. CASE DeadLettered
  BY <1>4, DeadLetterSerial
<1>5. CASE Crash \/ Close
  BY <1>5, ProcessEndsSerial DEF Crash, Close
<1>6. CASE Boot \/ Shutdown \/ Cancelled \/ SnapshotRebuilt
  BY <1>6, ElsewhereSerial DEF Boot, Shutdown, Cancelled, SnapshotRebuilt
<1>7. ASSUME NEW a \in Area, AreaCreated(a) \/ AreaDeleted(a)
      PROVE  InOnePlace' /\ EveryDeliveryOwned' /\ ChainOrder'
  BY <1>7, ElsewhereSerial DEF AreaCreated, AreaDeleted
<1>8. CASE UNCHANGED vars
  BY <1>8, ElsewhereSerial DEF vars
<1> QED
  BY <1>1, <1>2, <1>3, <1>4, <1>5, <1>6, <1>7, <1>8 DEF Next

-----------------------------------------------------------------------------
(***************************************************************************)
(* The theorems.                                                           *)
(***************************************************************************)

\* The invariant holds in every reachable state.
LEMMA Serialized == Spec => []SerialInv
<1>1. Init => SerialInv
  BY InitSerial
<1>2. SerialInv /\ [Next]_vars => SerialInv'
  BY NextSerial
<1> QED BY <1>1, <1>2, PTL DEF Spec

\* enqueue: whatever the interleaving of deliveries, completions, errors, crashes
\* and restarts, a user's deliveries are processed one after the other in the
\* order they were delivered.
THEOREM SerialPerUser == Spec => []SameUserSerial
<1>1. SerialInv => SameUserSerial
  BY DEF SerialInv, ChainOrder, LaterWaits, WaitsForPrevious, SameUserSerial, Tasks, Busy,
         TypeOK, TaskTypeOK
<1> QED BY <1>1, Serialized, PTL

\* processEvent: an outstanding delivery always has exactly one owner, its task
\* or the one frame that settles it; no delivery is forgotten or settled twice.
THEOREM SettledOnce == Spec => []EveryDeliveryOwned
<1>1. SerialInv => EveryDeliveryOwned
  BY DEF SerialInv
<1> QED BY <1>1, Serialized, PTL

\* enqueue: the chains are the delivery order of each user's tasks.
THEOREM ChainsInOrder == Spec => []ChainOrder
<1>1. SerialInv => ChainOrder
  BY DEF SerialInv
<1> QED BY <1>1, Serialized, PTL

\* While the process drains, every chain that is left is one it waits for.
DrainInv ==
    phase = "draining" => \A u \in User : userChains[u] # None => userChains[u] \in awaited

\* Chains only get shorter once deliveries have stopped.
LEMMA NextDrain == SerialInv /\ DrainInv /\ [Next]_vars => DrainInv'
<1> SUFFICES ASSUME SerialInv, DrainInv, [Next]_vars PROVE DrainInv'
  OBVIOUS
<1>1. userChains \in [User -> Msg \union {None}] /\ \A m \in Msg : UserOf[m] \in User
  BY WorkerAssumption DEF WorkerAssumption, SerialInv, TypeOK, TaskTypeOK
<1>2. ASSUME NEW m \in Msg, Deliver(m) PROVE DrainInv'
  BY <1>2 DEF Deliver, DrainInv, processVars
<1>3. ASSUME NEW m \in Msg, TaskStep(m) \/ DbFails(m) \/ LostReply(m) PROVE DrainInv'
  <2>1. phase' = phase /\ awaited' = awaited
    BY <1>3 DEF TaskStep, Start, SeqLoaded, HintLoaded, Commit, FkViolation, Reply,
                Invalidated, DbFails, LostReply, taskFrame, processVars
  <2>2. CASE Continues(m)
    BY <2>1, <2>2 DEF Continues, DrainInv
  <2>3. CASE Ends(m)
    <3>1. \A u \in User : userChains'[u] # None => userChains'[u] = userChains[u]
      BY <1>1, <2>3 DEF Ends, TaskEnds
    <3> QED BY <2>1, <3>1 DEF DrainInv
  <2> QED BY <1>3, <2>2, <2>3, TaskShape
<1>4. CASE Settle \/ DeadLettered
  BY <1>4 DEF Settle, DeadLettered, processVars, chainVars, DrainInv
<1>5. CASE Crash \/ Close \/ Boot \/ Shutdown
  BY <1>5 DEF Crash, Close, ProcessEnds, Boot, Shutdown, DrainInv
<1>6. CASE Cancelled
  BY <1>6 DEF Cancelled, chainVars, DrainInv
<1>7. CASE SnapshotRebuilt
  BY <1>7 DEF SnapshotRebuilt, chainVars, DrainInv
<1>8. ASSUME NEW a \in Area, AreaCreated(a) \/ AreaDeleted(a) PROVE DrainInv'
  BY <1>8 DEF AreaCreated, AreaDeleted, processVars, chainVars, DrainInv
<1>9. CASE UNCHANGED vars
  BY <1>9 DEF vars, processVars, chainVars, DrainInv
<1> QED BY <1>2, <1>3, <1>4, <1>5, <1>6, <1>7, <1>8, <1>9 DEF Next

\* When the channel is closed nothing is running and nothing is outstanding.
LEMMA CloseIdle ==
    ASSUME SerialInv, DrainInv, Close
    PROVE  (\A m \in Msg : pc[m] = "idle") /\ unacked = <<>>
<1>1. /\ phase = "draining" /\ wire = <<>> /\ \A m \in awaited : pc[m] = "idle"
  BY DEF Close
<1>2. \A u \in User : userChains[u] = None
  BY <1>1 DEF DrainInv, SerialInv, ChainOrder, TailIsLast, Tasks
<1>3. Tasks = {}
  <2>1. \A m \in Msg : UserOf[m] \in User
    BY WorkerAssumption DEF WorkerAssumption
  <2> QED BY <1>2, <2>1 DEF SerialInv, ChainOrder, TailIsLast, Tasks
<1>4. Framed = {}
  BY <1>1 DEF Framed
<1>5. ToSet(unacked) = {} /\ unacked \in Seq(Msg)
  BY <1>3, <1>4 DEF SerialInv, EveryDeliveryOwned, TypeOK, QueueTypeOK
<1>6. unacked = <<>>
  <2> SUFFICES ASSUME unacked # <<>> PROVE FALSE
    OBVIOUS
  <2>1. Len(unacked) \in Nat \ {0} /\ DOMAIN unacked = 1..Len(unacked)
    BY <1>5, EmptySeq, LenProperties
  <2>2. 1 \in DOMAIN unacked
    BY <2>1
  <2> QED BY <1>5, <2>2 DEF ToSet
<1> QED BY <1>3, <1>6 DEF Tasks

\* onApplicationShutdown: the drain waits for every task, whatever was delivered
\* between basic.cancel and its answer, so closing the channel returns nothing.
THEOREM DrainIsComplete == Spec => CleanClose
<1>1. Init => DrainInv
  BY DEF Init, DrainInv
<1>2. SerialInv /\ DrainInv => [Close => (\A m \in Msg : pc[m] = "idle") /\ unacked = <<>>]_vars
  BY CloseIdle
<1> QED BY <1>1, <1>2, NextDrain, Serialized, PTL DEF Spec, CleanClose

-----------------------------------------------------------------------------
(***************************************************************************)
(* What the tasks leave in the tables and in the memory.                   *)
(***************************************************************************)

\* The areas that have not been created yet.
Unborn == {a \in Area : areaState[a] = "future"}

\* Presence rows refer to areas that exist (the foreign key).
RowsRefer == \A u \in User : presence[u] \subseteq Live
\* Between a COMMIT and its reply the table holds what the task computed.
CommittedState ==
    \A m \in Msg : pc[m] = "reply" => presence[UserOf[m]] = cur[m] \intersect Live
\* Nothing computed or remembered mentions an area before it exists.
NothingUnborn ==
    /\ snapshot \intersect Unborn = {}
    /\ \A m \in Msg : cur[m] \intersect Unborn = {}
    /\ \A u \in DOMAIN memory : memory[u] \intersect Unborn = {}

MemoryInv == RowsRefer /\ CommittedState /\ NothingUnborn /\ MemoryTracksPresence

-----------------------------------------------------------------------------
(***************************************************************************)
(* Mutual exclusion.                                                       *)
(***************************************************************************)

\* At most one task of a user is running.
LEMMA OneRunner ==
    ASSUME SerialInv, NEW x \in Msg, NEW y \in Msg, UserOf[x] = UserOf[y],
           pc[x] \in Busy, pc[y] \in Busy
    PROVE  x = y
<1>1. x \in Tasks /\ y \in Tasks
  BY DEF Tasks, Busy
<1>2. x \in ToSet(unacked) /\ y \in ToSet(unacked)
  BY <1>1 DEF SerialInv, EveryDeliveryOwned
<1>3. PICK i, j \in DOMAIN unacked : unacked[i] = x /\ unacked[j] = y
  BY <1>2 DEF ToSet
<1>4. DOMAIN unacked \subseteq Nat
  BY LenProperties DEF SerialInv, TypeOK, QueueTypeOK
<1>5. x = y \/ Precedes(x, y) \/ Precedes(y, x)
  BY <1>3, <1>4 DEF Precedes
<1>6. after[x] = None /\ after[y] = None
  BY RunnerWaitsForNone
<1> QED BY <1>1, <1>5, <1>6 DEF SerialInv, ChainOrder, LaterWaits

-----------------------------------------------------------------------------
(***************************************************************************)
(* What a step of a task does to what it computed.                         *)
(***************************************************************************)

\* m's step neither enters nor leaves the gap between COMMIT and reply, and
\* computes with areas of the snapshot only.
Quiet(m) ==
    /\ pc[m] # "reply" /\ pc'[m] # "reply"
    /\ \A x \in Msg : x # m => pc'[x] = pc[x] /\ cur'[x] = cur[x]
    /\ cur'[m] \subseteq cur[m] \union snapshot

\* A task that ends before its transaction touches neither memory nor presence.
LEMMA EndsQuiet ==
    ASSUME TypeOK, NEW m \in Msg, NEW t, TaskEnds(m, t), pc[m] # "reply"
    PROVE  Quiet(m)
BY DEF TypeOK, TaskTypeOK, TaskEnds, Quiet

\* The fork after the hint touches neither memory nor presence.
LEMMA ForkQuiet ==
    ASSUME TypeOK, NEW m \in Msg, NEW c, NEW h, NEW seqs, Fork(m, c, h, seqs),
           pc[m] # "reply", c \subseteq cur[m] \union snapshot
    PROVE  Quiet(m)
<1>1. CASE Finish(m, seqs)
  BY <1>1, EndsQuiet DEF Finish
<1>2. CASE ~Finish(m, seqs)
  BY <1>2 DEF Fork, TypeOK, TaskTypeOK, Quiet
<1> QED BY <1>1, <1>2

\* The dedup gate touches neither memory nor presence.
LEMMA GateQuiet ==
    ASSUME TypeOK, NEW m \in Msg, NEW seqs, Gate(m, seqs), pc[m] # "reply"
    PROVE  Quiet(m)
<1>1. CASE Discard(m, seqs)
  BY <1>1, EndsQuiet DEF Discard
<1>2. CASE Report(m, seqs)
  <2>1. CASE Fail(m)
    BY <2>1, EndsQuiet DEF Fail
  <2>2. CASE Fork(m, Cover[m] \intersect snapshot, memory[UserOf[m]], seqs)
    BY <2>2, ForkQuiet
  <2>3. CASE ~Fail(m) /\ ~Fork(m, Cover[m] \intersect snapshot, memory[UserOf[m]], seqs)
    BY <1>2, <2>3 DEF Report, TypeOK, TaskTypeOK, Quiet
  <2> QED BY <2>1, <2>2, <2>3
<1> QED BY <1>1, <1>2 DEF Gate

\* A quiet step that leaves the tables alone, and at most seeds the memory with
\* the user's rows, keeps the invariant.
LEMMA QuietKeeps ==
    ASSUME TypeOK, MemoryInv, NEW m \in Msg, Quiet(m),
           UNCHANGED <<areaState, presence, snapshot, blind>>,
           \/ memory' = memory
           \/ memory' = Put(memory, UserOf[m], presence[UserOf[m]])
    PROVE  MemoryInv'
<1>1. UserOf[m] \in User
  BY WorkerAssumption DEF WorkerAssumption
<1>2. Live' = Live /\ Unborn' = Unborn
  BY DEF Live, Unborn
<1>3. RowsRefer'
  BY <1>2 DEF MemoryInv, RowsRefer
<1>4. CommittedState'
  BY <1>2 DEF MemoryInv, CommittedState, Quiet
<1>5. \A u \in DOMAIN memory' :
        \/ u \in DOMAIN memory /\ memory'[u] = memory[u]
        \/ u = UserOf[m] /\ memory'[u] = presence[u]
  BY DEF Put
<1>6. \A u \in User : presence[u] \intersect Unborn = {} /\ presence[u] \intersect Live = presence[u]
  BY DEF MemoryInv, RowsRefer, Live, Unborn
<1>7. NothingUnborn'
  <2>1. \A x \in Msg : cur'[x] \intersect Unborn = {}
    BY DEF MemoryInv, NothingUnborn, Quiet
  <2>2. \A u \in DOMAIN memory' : memory'[u] \intersect Unborn = {}
    BY <1>1, <1>5, <1>6 DEF MemoryInv, NothingUnborn
  <2> QED BY <1>2, <2>1, <2>2 DEF MemoryInv, NothingUnborn
<1>8. MemoryTracksPresence'
  <2>1. \A x \in Msg : pc'[x] # "reply" => pc[x] # "reply"
    BY DEF Quiet
  <2>2. \A u \in DOMAIN memory' :
          (u \notin blind /\ \A x \in Msg : UserOf[x] = u => pc'[x] # "reply")
          => memory'[u] \intersect Live = presence[u]
    BY <1>1, <1>5, <1>6, <2>1 DEF MemoryInv, MemoryTracksPresence
  <2> QED BY <1>2, <2>2 DEF MemoryTracksPresence
<1> QED BY <1>3, <1>4, <1>7, <1>8 DEF MemoryInv

-----------------------------------------------------------------------------
(***************************************************************************)
(* Every action keeps the invariant.                                       *)
(***************************************************************************)

\* The transaction makes the user's rows exactly the areas computed, all of which
\* exist when the foreign keys hold.
LEMMA TransitionResult ==
    ASSUME TypeOK, RowsRefer, NEW u \in User, NEW c \in SUBSET Area, NEW stamp,
           ForeignKeysHold(u, c), Transition(u, c, stamp)
    PROVE  /\ presence' = [presence EXCEPT ![u] = c]
           /\ c \subseteq Live
<1>1. (presence[u] \union Entered(u, c)) \ Departed(u, c) = c
  BY DEF Entered, Departed
<1>2. c \subseteq Live
  BY DEF ForeignKeysHold, Entered, RowsRefer
<1> QED BY <1>1, <1>2 DEF Transition

\* The commit: presence moves, the memory follows with the reply.
LEMMA CommitKeeps ==
    ASSUME SerialInv, MemoryInv, NEW m \in Msg, Commit(m)
    PROVE  MemoryInv'
<1>1. UserOf[m] \in User
  BY WorkerAssumption DEF WorkerAssumption
<1>2. /\ cur \in [Msg -> SUBSET Area] /\ pc \in [Msg -> {"idle", "queued"} \union Busy]
      /\ presence \in [User -> SUBSET Area]
      /\ TypeOK /\ RowsRefer
  BY DEF SerialInv, TypeOK, TaskTypeOK, TableTypeOK, MemoryInv
<1>3. presence' = [presence EXCEPT ![UserOf[m]] = cur[m]] /\ cur[m] \subseteq Live
  BY <1>1, <1>2, TransitionResult DEF Commit
<1>4. UNCHANGED <<areaState, snapshot, cur, memory, blind>>
  BY DEF Commit, Transition, processVars, cacheVars
<1>5. /\ pc'[m] = "reply"
      /\ \A x \in Msg : x # m => pc'[x] = pc[x]
  BY <1>2 DEF Commit
<1>6. Live' = Live /\ Unborn' = Unborn
  BY <1>4 DEF Live, Unborn
<1>7. RowsRefer'
  BY <1>2, <1>3, <1>6 DEF RowsRefer
<1>8. \A x \in Msg : (x # m /\ pc[x] = "reply") => UserOf[x] # UserOf[m]
  BY OneRunner DEF Commit, Busy
<1>9. CommittedState'
  <2> SUFFICES ASSUME NEW x \in Msg, pc'[x] = "reply"
               PROVE  presence'[UserOf[x]] = cur[x] \intersect Live
    BY <1>4, <1>6 DEF CommittedState
  <2>1. CASE x = m
    BY <1>1, <1>2, <1>3, <2>1
  <2>2. CASE x # m
    BY <1>2, <1>3, <1>5, <1>8, <2>2 DEF MemoryInv, CommittedState
  <2> QED BY <2>1, <2>2
<1>10. NothingUnborn'
  BY <1>4, <1>6 DEF MemoryInv, NothingUnborn
<1>11. MemoryTracksPresence'
  <2> SUFFICES ASSUME NEW u \in DOMAIN memory, u \notin blind,
                      \A x \in Msg : UserOf[x] = u => pc'[x] # "reply"
               PROVE  memory[u] \intersect Live = presence'[u]
    BY <1>4, <1>6 DEF MemoryTracksPresence
  <2>1. u # UserOf[m]
    BY <1>5
  <2>2. presence'[u] = presence[u]
    BY <1>2, <1>3, <2>1
  <2>3. \A x \in Msg : UserOf[x] = u => pc[x] # "reply"
    BY <1>5, <2>1
  <2> QED BY <2>2, <2>3 DEF MemoryInv, MemoryTracksPresence
<1> QED BY <1>7, <1>9, <1>10, <1>11 DEF MemoryInv

\* The reply: memory becomes what was committed.
LEMMA ReplyKeeps ==
    ASSUME SerialInv, MemoryInv, NEW m \in Msg, Reply(m)
    PROVE  MemoryInv'
<1>1. UserOf[m] \in User
  BY WorkerAssumption DEF WorkerAssumption
<1>2. pc \in [Msg -> {"idle", "queued"} \union Busy]
  BY DEF SerialInv, TypeOK, TaskTypeOK
<1>3. UNCHANGED <<areaState, presence, snapshot, cur, blind>> /\ pc[m] = "reply"
  BY DEF Reply, tableVars, processVars
<1>4. pc'[m] # "reply" /\ \A x \in Msg : x # m => pc'[x] = pc[x]
  BY <1>2 DEF Reply
<1>5. Live' = Live /\ Unborn' = Unborn
  BY <1>3 DEF Live, Unborn
<1>6. presence[UserOf[m]] = cur[m] \intersect Live
  BY <1>3 DEF MemoryInv, CommittedState
<1>7. \A u \in DOMAIN memory' :
        \/ u # UserOf[m] /\ u \in DOMAIN memory /\ memory'[u] = memory[u]
        \/ u = UserOf[m] /\ memory'[u] = cur[m]
  BY DEF Reply, Put
<1>8. RowsRefer' /\ CommittedState'
  BY <1>3, <1>4, <1>5 DEF MemoryInv, RowsRefer, CommittedState
<1>9. NothingUnborn'
  BY <1>3, <1>5, <1>7 DEF MemoryInv, NothingUnborn
<1>10. MemoryTracksPresence'
  <2> SUFFICES ASSUME NEW u \in DOMAIN memory', u \notin blind,
                      \A x \in Msg : UserOf[x] = u => pc'[x] # "reply"
               PROVE  memory'[u] \intersect Live = presence[u]
    BY <1>3, <1>5 DEF MemoryTracksPresence
  <2>1. CASE u = UserOf[m]
    BY <1>6, <1>7, <2>1
  <2>2. CASE u # UserOf[m]
    BY <1>4, <1>7, <2>2 DEF MemoryInv, MemoryTracksPresence
  <2> QED BY <2>1, <2>2
<1> QED BY <1>8, <1>9, <1>10 DEF MemoryInv

\* A lost reply leaves the memory behind, and the user is marked.
LEMMA LostReplyKeeps ==
    ASSUME SerialInv, MemoryInv, NEW m \in Msg, LostReply(m)
    PROVE  MemoryInv'
<1>1. /\ pc \in [Msg -> {"idle", "queued"} \union Busy] /\ cur \in [Msg -> SUBSET Area]
  BY DEF SerialInv, TypeOK, TaskTypeOK
<1>2. UNCHANGED <<areaState, presence, snapshot, memory>> /\ blind' = blind \union {UserOf[m]}
  BY DEF LostReply, taskFrame, processVars
<1>3. /\ pc'[m] # "reply" /\ cur'[m] = {}
      /\ \A x \in Msg : x # m => pc'[x] = pc[x] /\ cur'[x] = cur[x]
  BY <1>1 DEF LostReply, Fail, TaskEnds
<1>4. Live' = Live /\ Unborn' = Unborn
  BY <1>2 DEF Live, Unborn
<1>5. RowsRefer' /\ CommittedState'
  BY <1>2, <1>3, <1>4 DEF MemoryInv, RowsRefer, CommittedState
<1>6. NothingUnborn'
  BY <1>2, <1>3, <1>4 DEF MemoryInv, NothingUnborn
<1>7. MemoryTracksPresence'
  BY <1>2, <1>3, <1>4 DEF MemoryInv, MemoryTracksPresence
<1> QED BY <1>5, <1>6, <1>7 DEF MemoryInv

\* A step of any task keeps memory and presence in agreement.
LEMMA TaskKeeps ==
    ASSUME SerialInv, MemoryInv, NEW m \in Msg,
           TaskStep(m) \/ DbFails(m) \/ LostReply(m)
    PROVE  MemoryInv'
<1>0. TypeOK
  BY DEF SerialInv
<1>1. CASE Start(m)
  <2>1. pc[m] # "reply" /\ UNCHANGED <<areaState, presence, snapshot, blind, memory>>
    BY <1>1 DEF Start, taskFrame, processVars
  <2>2. Quiet(m)
    <3>1. CASE Gate(m, lastSeqByDevice)
      BY <1>0, <2>1, <3>1, GateQuiet
    <3>2. CASE ~Gate(m, lastSeqByDevice)
      BY <1>0, <1>1, <2>1, <3>2 DEF Start, TypeOK, TaskTypeOK, Quiet
    <3> QED BY <3>1, <3>2
  <2> QED BY <1>0, <2>1, <2>2, QuietKeeps
<1>2. CASE SeqLoaded(m)
  <2>1. pc[m] # "reply" /\ UNCHANGED <<areaState, presence, snapshot, blind, memory>>
    BY <1>2 DEF SeqLoaded, taskFrame, processVars
  <2>2. Quiet(m)
    BY <1>0, <1>2, <2>1, GateQuiet DEF SeqLoaded
  <2> QED BY <1>0, <2>1, <2>2, QuietKeeps
<1>3. CASE HintLoaded(m)
  <2>1. /\ pc[m] # "reply" /\ UNCHANGED <<areaState, presence, snapshot, blind>>
        /\ memory' = Put(memory, UserOf[m], presence[UserOf[m]])
    BY <1>3 DEF HintLoaded, taskFrame, processVars
  <2>2. Quiet(m)
    BY <1>0, <1>3, <2>1, ForkQuiet DEF HintLoaded
  <2> QED BY <1>0, <2>1, <2>2, QuietKeeps
<1>4. CASE Commit(m)
  BY <1>4, CommitKeeps
<1>5. CASE FkViolation(m) \/ Invalidated(m) \/ DbFails(m)
  <2>1. pc[m] # "reply" /\ UNCHANGED <<areaState, presence, snapshot, blind, memory>>
    BY <1>5 DEF FkViolation, Invalidated, DbFails, taskFrame, processVars, cacheVars
  <2>2. Quiet(m)
    BY <1>0, <1>5, <2>1, EndsQuiet DEF FkViolation, Invalidated, DbFails, DropStale, Finish, Fail
  <2> QED BY <1>0, <2>1, <2>2, QuietKeeps
<1>6. CASE Reply(m)
  BY <1>6, ReplyKeeps
<1>7. CASE LostReply(m)
  BY <1>7, LostReplyKeeps
<1> QED BY <1>1, <1>2, <1>3, <1>4, <1>5, <1>6, <1>7 DEF TaskStep

\* A delivery keeps them in agreement.
LEMMA DeliverKeeps ==
    ASSUME SerialInv, MemoryInv, NEW m \in Msg, Deliver(m)
    PROVE  MemoryInv'
<1>1. m \notin Tasks
  BY DequeueSerial DEF Deliver, SerialInv, EveryDeliveryOwned
<1>2. TypeOK /\ UNCHANGED <<areaState, presence, snapshot, blind, memory, cur>>
  BY DEF SerialInv, Deliver, tableVars, processVars, cacheVars
<1>3. pc[m] # "reply"
  BY <1>1 DEF Tasks
<1>4. pc'[m] # "reply" /\ \A x \in Msg : x # m => pc'[x] = pc[x]
  <2>1. CASE pc' = pc
    BY <1>3, <2>1
  <2>2. CASE pc' = [pc EXCEPT ![m] = "queued"]
    BY <1>2, <2>2 DEF TypeOK, TaskTypeOK
  <2> QED BY <2>1, <2>2 DEF Deliver
<1>5. Quiet(m)
  BY <1>2, <1>3, <1>4 DEF Quiet
<1> QED BY <1>2, <1>5, QuietKeeps

\* An area that appears is in nobody's memory; one that goes takes its rows along.
LEMMA AreaKeeps ==
    ASSUME TypeOK, MemoryInv, NEW a \in Area, AreaCreated(a) \/ AreaDeleted(a)
    PROVE  MemoryInv'
<1>1. /\ areaState \in [Area -> {"future", "live", "gone"}]
      /\ presence \in [User -> SUBSET Area]
      /\ \A x \in Msg : UserOf[x] \in User
      /\ DOMAIN memory \subseteq User
  BY WorkerAssumption DEF WorkerAssumption, TypeOK, TableTypeOK, CacheTypeOK, IsMap
<1>2. UNCHANGED <<snapshot, cur, pc, memory, blind>>
  BY DEF AreaCreated, AreaDeleted, processVars, chainVars, cacheVars
<1>3. CASE AreaCreated(a)
  <2>1. /\ Live' = Live \union {a} /\ Unborn' = Unborn \ {a} /\ a \in Unborn
        /\ presence' = presence
    BY <1>1, <1>3 DEF AreaCreated, CreateArea, Live, Unborn
  <2>2. RowsRefer' /\ NothingUnborn'
    BY <1>2, <2>1 DEF MemoryInv, RowsRefer, NothingUnborn
  <2>3. CommittedState'
    BY <1>2, <2>1 DEF MemoryInv, CommittedState, NothingUnborn
  <2>4. MemoryTracksPresence'
    <3> SUFFICES ASSUME NEW u \in DOMAIN memory, u \notin blind,
                        \A x \in Msg : UserOf[x] = u => pc[x] # "reply"
                 PROVE  memory[u] \intersect (Live \union {a}) = presence[u]
      BY <1>2, <2>1 DEF MemoryTracksPresence
    <3>1. memory[u] \intersect Live = presence[u] /\ a \notin memory[u]
      BY <2>1 DEF MemoryInv, MemoryTracksPresence, NothingUnborn
    <3> QED BY <3>1
  <2> QED BY <2>2, <2>3, <2>4 DEF MemoryInv
<1>4. CASE AreaDeleted(a)
  <2>1. /\ Live' = Live \ {a} /\ Unborn' = Unborn
        /\ \A u \in User : presence'[u] = presence[u] \ {a}
    BY <1>1, <1>4 DEF AreaDeleted, DeleteArea, Live, Unborn
  <2>2. RowsRefer' /\ NothingUnborn'
    BY <1>2, <2>1 DEF MemoryInv, RowsRefer, NothingUnborn
  <2>3. CommittedState'
    BY <1>1, <1>2, <2>1 DEF MemoryInv, CommittedState
  <2>4. MemoryTracksPresence'
    <3> SUFFICES ASSUME NEW u \in DOMAIN memory, u \notin blind,
                        \A x \in Msg : UserOf[x] = u => pc[x] # "reply"
                 PROVE  memory[u] \intersect (Live \ {a}) = presence'[u]
      <4>1. memory' = memory /\ blind' = blind /\ pc' = pc /\ Live' = Live \ {a}
        BY <1>2, <2>1
      <4> QED BY <4>1 DEF MemoryTracksPresence
    <3>1. presence'[u] = presence[u] \ {a}
      BY <1>1, <2>1
    <3>2. memory[u] \intersect Live = presence[u]
      BY DEF MemoryInv, MemoryTracksPresence
    <3> QED BY <3>1, <3>2
  <2> QED BY <2>2, <2>3, <2>4 DEF MemoryInv
<1> QED BY <1>3, <1>4

\* A process that ends takes its memory with it.
LEMMA ProcessEndsKeeps ==
    ASSUME MemoryInv, ProcessEnds, UNCHANGED tableVars
    PROVE  MemoryInv'
<1>1. Live' = Live /\ Unborn' = Unborn
  BY DEF tableVars, Live, Unborn
<1>2. DOMAIN memory' = {}
  BY EmptyMapType DEF ProcessEnds, EmptyMap
<1>3. RowsRefer'
  BY <1>1 DEF MemoryInv, RowsRefer, tableVars
<1>4. CommittedState' /\ NothingUnborn' /\ MemoryTracksPresence'
  BY <1>2 DEF ProcessEnds, CommittedState, NothingUnborn, MemoryTracksPresence
<1> QED BY <1>3, <1>4 DEF MemoryInv

\* A step that at most replaces the snapshot by the areas of the moment.
LEMMA ElsewhereKeeps ==
    ASSUME MemoryInv, UNCHANGED <<areaState, presence, pc, cur, memory, blind>>,
           snapshot' = snapshot \/ snapshot' = Live
    PROVE  MemoryInv'
<1>1. Live' = Live /\ Unborn' = Unborn /\ Live \intersect Unborn = {}
  BY DEF Live, Unborn
<1>2. RowsRefer' /\ CommittedState'
  BY <1>1 DEF MemoryInv, RowsRefer, CommittedState
<1>3. NothingUnborn'
  BY <1>1 DEF MemoryInv, NothingUnborn
<1>4. MemoryTracksPresence'
  BY <1>1 DEF MemoryInv, MemoryTracksPresence
<1> QED BY <1>2, <1>3, <1>4 DEF MemoryInv

\* At the start nothing is remembered.
LEMMA InitMemory == Init => MemoryInv
<1> SUFFICES ASSUME Init PROVE MemoryInv
  OBVIOUS
<1>1. DOMAIN memory = {}
  BY DEF Init, EmptyMap
<1>2. RowsRefer /\ CommittedState
  BY DEF Init, TablesInit, RowsRefer, CommittedState
<1>3. NothingUnborn /\ MemoryTracksPresence
  BY <1>1 DEF Init, NothingUnborn, MemoryTracksPresence
<1> QED BY <1>2, <1>3 DEF MemoryInv

\* Every step keeps memory and presence in agreement.
LEMMA NextMemory == SerialInv /\ MemoryInv /\ [Next]_vars => MemoryInv'
<1> SUFFICES ASSUME SerialInv, MemoryInv, [Next]_vars PROVE MemoryInv'
  OBVIOUS
<1>0. TypeOK
  BY DEF SerialInv
<1> USE DEF tableVars, processVars, chainVars, cacheVars
<1>1. ASSUME NEW m \in Msg, Deliver(m) PROVE MemoryInv'
  BY <1>1, DeliverKeeps
<1>2. ASSUME NEW m \in Msg, TaskStep(m) \/ DbFails(m) \/ LostReply(m) PROVE MemoryInv'
  BY <1>2, TaskKeeps
<1>3. CASE Settle \/ DeadLettered
  BY <1>3, ElsewhereKeeps DEF Settle, DeadLettered
<1>4. CASE Crash \/ Close
  BY <1>4, ProcessEndsKeeps DEF Crash, Close
<1>5. CASE Boot \/ Shutdown \/ Cancelled \/ SnapshotRebuilt
  BY <1>5, ElsewhereKeeps DEF Boot, Shutdown, Cancelled, SnapshotRebuilt
<1>6. ASSUME NEW a \in Area, AreaCreated(a) \/ AreaDeleted(a) PROVE MemoryInv'
  BY <1>0, <1>6, AreaKeeps
<1>7. CASE UNCHANGED vars
  BY <1>7, ElsewhereKeeps DEF vars
<1> QED BY <1>1, <1>2, <1>3, <1>4, <1>5, <1>6, <1>7 DEF Next

\* PresenceMemoryService: what the worker remembers of a user is what Postgres
\* holds, for any number of users, areas, messages and failures, except between
\* a COMMIT and its reply and once a reply has been lost.
THEOREM MemoryAgrees == Spec => []MemoryTracksPresence
<1>1. Init => MemoryInv
  BY InitMemory
<1>2. SerialInv /\ MemoryInv /\ [Next]_vars => MemoryInv'
  BY NextMemory
<1>3. MemoryInv => MemoryTracksPresence
  BY DEF MemoryInv
<1> QED BY <1>1, <1>2, <1>3, Serialized, PTL DEF Spec

-----------------------------------------------------------------------------
(***************************************************************************)
(* Ack after commit.                                                       *)
(***************************************************************************)

\* Areas that are there from the start and never deleted.
Lasting == InitialAreas \ Doomed
Logged(u, a) == \E r \in logs : r.user = u /\ r.area = a

\* Whatever says that a user is in a lasting area has an entry row behind it:
\* the presence rows, the memory, a task that has committed, and an event that
\* was processed.  A task never leaves a lasting area of its position out.
LoggedInv ==
    /\ Lasting \subseteq Live
    /\ phase # "down" => Lasting \subseteq snapshot
    /\ \A m \in Msg : pc[m] # "idle" => phase # "down"
    /\ \A u \in User : \A a \in presence[u] \intersect Lasting : Logged(u, a)
    /\ \A u \in DOMAIN memory : \A a \in memory[u] \intersect Lasting : Logged(u, a)
    /\ \A m \in Msg : pc[m] \in {"hint", "txn", "reply", "del"}
                        => Cover[m] \intersect Lasting \subseteq cur[m]
    /\ \A m \in Msg : pc[m] \in {"reply", "del"}
                        => \A a \in cur[m] \intersect Lasting : Logged(UserOf[m], a)
    /\ \A m \in Msg : "processed" \in outcomes[m]
                        => \A a \in Cover[m] \intersect Lasting : Logged(UserOf[m], a)

\* A step of m's task with no transaction: it ends processed only when the hint
\* had all lasting areas of its position.
Careful(m) ==
    /\ \A x \in Msg : x # m => pc'[x] = pc[x] /\ cur'[x] = cur[x] /\ outcomes'[x] = outcomes[x]
    /\ pc'[m] \notin {"reply", "del"}
    /\ pc'[m] \in {"hint", "txn"} => Cover[m] \intersect Lasting \subseteq cur'[m]
    /\ "processed" \in outcomes'[m] => \/ "processed" \in outcomes[m]
                                       \/ \A a \in Cover[m] \intersect Lasting : Logged(UserOf[m], a)

\* A task that ends without being counted as processed.
LEMMA EndsCareful ==
    ASSUME TypeOK, NEW m \in Msg, NEW t, TaskEnds(m, t), NEW o \in {"duplicate", "dropped"},
           outcomes' = outcomes \/ outcomes' = [outcomes EXCEPT ![m] = @ \union {o}]
    PROVE  Careful(m)
BY DEF TypeOK, TaskTypeOK, TaskEnds, Careful

\* report() returned, with every lasting area of the position logged.
LEMMA FinishCareful ==
    ASSUME TypeOK, NEW m \in Msg, NEW seqs, Finish(m, seqs),
           \A a \in Cover[m] \intersect Lasting : Logged(UserOf[m], a)
    PROVE  Careful(m)
BY DEF TypeOK, TaskTypeOK, Finish, TaskEnds, Careful

\* The fork: no change against a hint that is logged.
LEMMA ForkCareful ==
    ASSUME TypeOK, NEW m \in Msg, NEW c, NEW h, NEW seqs, Fork(m, c, h, seqs),
           Cover[m] \intersect Lasting \subseteq c,
           \A a \in h \intersect Lasting : Logged(UserOf[m], a)
    PROVE  Careful(m)
<1>1. CASE ~Differs(c, h) /\ Finish(m, seqs)
  <2>1. \A a \in Cover[m] \intersect Lasting : Logged(UserOf[m], a)
    BY <1>1 DEF Differs
  <2> QED BY <1>1, <2>1, FinishCareful
<1>2. CASE ~(~Differs(c, h) /\ Finish(m, seqs))
  BY <1>2 DEF Fork, TypeOK, TaskTypeOK, Careful
<1> QED BY <1>1, <1>2

\* The gate and report's first part.
LEMMA GateCareful ==
    ASSUME TypeOK, LoggedInv, NEW m \in Msg, NEW seqs, Gate(m, seqs), pc[m] # "idle"
    PROVE  Careful(m)
<1>1. Cover[m] \intersect Lasting \subseteq Cover[m] \intersect snapshot
  BY DEF LoggedInv
<1>2. CASE Discard(m, seqs)
  BY <1>2, EndsCareful DEF Discard
<1>3. CASE Report(m, seqs)
  <2>1. CASE Fail(m)
    BY <2>1, EndsCareful DEF Fail
  <2>2. CASE /\ UserOf[m] \in DOMAIN memory
             /\ Fork(m, Cover[m] \intersect snapshot, memory[UserOf[m]], seqs)
    BY <1>1, <2>2, ForkCareful DEF LoggedInv
  <2>3. CASE ~Fail(m) /\ ~(/\ UserOf[m] \in DOMAIN memory
                           /\ Fork(m, Cover[m] \intersect snapshot, memory[UserOf[m]], seqs))
    BY <1>1, <1>3, <2>3 DEF Report, TypeOK, TaskTypeOK, Careful
  <2> QED BY <2>1, <2>2, <2>3
<1> QED BY <1>2, <1>3 DEF Gate

\* A careful step that leaves the tables alone keeps the invariant.
LEMMA CarefulKeeps ==
    ASSUME TypeOK, LoggedInv, NEW m \in Msg, pc[m] # "idle" \/ phase # "down", Careful(m),
           UNCHANGED <<areaState, presence, logs, phase, snapshot>>,
           memory' = memory \/ memory' = Put(memory, UserOf[m], presence[UserOf[m]])
    PROVE  LoggedInv'
<1>1. Live' = Live /\ \A u, a : Logged(u, a)' <=> Logged(u, a)
  BY DEF Live, Logged
<1>2. UserOf[m] \in User /\ phase # "down"
  BY WorkerAssumption DEF WorkerAssumption, LoggedInv
<1>3. \A u \in DOMAIN memory' :
        \/ u \in DOMAIN memory /\ memory'[u] = memory[u]
        \/ u = UserOf[m] /\ memory'[u] = presence[u]
  BY DEF Put
<1>4. \A u \in DOMAIN memory' : \A a \in memory'[u] \intersect Lasting : Logged(u, a)
  BY <1>2, <1>3 DEF LoggedInv
<1>5. \A x \in Msg : pc'[x] \in {"hint", "txn", "reply", "del"}
                       => Cover[x] \intersect Lasting \subseteq cur'[x]
  <2> SUFFICES ASSUME NEW x \in Msg, pc'[x] \in {"hint", "txn", "reply", "del"}
               PROVE  Cover[x] \intersect Lasting \subseteq cur'[x]
    OBVIOUS
  <2>1. CASE x = m
    BY <2>1 DEF Careful
  <2>2. CASE x # m
    BY <2>2 DEF Careful, LoggedInv
  <2> QED BY <2>1, <2>2
<1>6. \A x \in Msg : pc'[x] \in {"reply", "del"}
                       => \A a \in cur'[x] \intersect Lasting : Logged(UserOf[x], a)
  <2> SUFFICES ASSUME NEW x \in Msg, pc'[x] \in {"reply", "del"}
               PROVE  \A a \in cur'[x] \intersect Lasting : Logged(UserOf[x], a)
    OBVIOUS
  <2>1. x # m /\ pc'[x] = pc[x] /\ cur'[x] = cur[x]
    BY DEF Careful
  <2> QED BY <2>1 DEF LoggedInv
<1>7. \A x \in Msg : "processed" \in outcomes'[x]
                       => \A a \in Cover[x] \intersect Lasting : Logged(UserOf[x], a)
  BY DEF Careful, LoggedInv
<1>8. /\ Lasting \subseteq Live /\ Lasting \subseteq snapshot
      /\ \A u \in User : \A a \in presence[u] \intersect Lasting : Logged(u, a)
  BY <1>2 DEF LoggedInv
<1> QED BY <1>1, <1>2, <1>4, <1>5, <1>6, <1>7, <1>8 DEF LoggedInv

\* The commit writes the entry row of every area the user was not in.
LEMMA CommitLogs ==
    ASSUME TypeOK, LoggedInv, RowsRefer, NEW m \in Msg, Commit(m)
    PROVE  LoggedInv'
<1>1. UserOf[m] \in User
  BY WorkerAssumption DEF WorkerAssumption
<1>2. /\ cur \in [Msg -> SUBSET Area] /\ pc \in [Msg -> {"idle", "queued"} \union Busy]
      /\ presence \in [User -> SUBSET Area]
  BY DEF TypeOK, TaskTypeOK, TableTypeOK
<1>3. presence' = [presence EXCEPT ![UserOf[m]] = cur[m]]
  BY <1>1, <1>2, TransitionResult DEF Commit
<1>4. UNCHANGED <<areaState, phase, snapshot, cur, memory, outcomes>> /\ pc[m] = "txn"
  BY DEF Commit, Transition, processVars, cacheVars
<1>5. pc'[m] = "reply" /\ \A x \in Msg : x # m => pc'[x] = pc[x]
  BY <1>2 DEF Commit
<1>6. logs' = logs \union {[user |-> UserOf[m], area |-> a, stamp |-> <<m, returned[m]>>] :
                              a \in Entered(UserOf[m], cur[m])}
  BY DEF Commit, Transition
<1>7. \A u, a : Logged(u, a) => Logged(u, a)'
  BY <1>6 DEF Logged
<1>8. \A a \in cur[m] \intersect Lasting : Logged(UserOf[m], a)'
  <2> SUFFICES ASSUME NEW a \in cur[m] \intersect Lasting
               PROVE  Logged(UserOf[m], a)'
    OBVIOUS
  <2>1. CASE a \in presence[UserOf[m]]
    BY <1>1, <1>7, <2>1 DEF LoggedInv
  <2>2. CASE a \notin presence[UserOf[m]]
    <3>1. [user |-> UserOf[m], area |-> a, stamp |-> <<m, returned[m]>>] \in logs'
      BY <1>6, <2>2 DEF Entered
    <3> QED BY <3>1 DEF Logged
  <2> QED BY <2>1, <2>2
<1>9. \A u \in User : \A a \in presence'[u] \intersect Lasting : Logged(u, a)'
  <2> SUFFICES ASSUME NEW u \in User, NEW a \in presence'[u] \intersect Lasting
               PROVE  Logged(u, a)'
    OBVIOUS
  <2>1. CASE u = UserOf[m]
    BY <1>1, <1>2, <1>3, <1>8, <2>1
  <2>2. CASE u # UserOf[m]
    BY <1>2, <1>3, <1>7, <2>2 DEF LoggedInv
  <2> QED BY <2>1, <2>2
<1>10. \A x \in Msg : pc'[x] \in {"reply", "del"}
                        => \A a \in cur'[x] \intersect Lasting : Logged(UserOf[x], a)'
  <2> SUFFICES ASSUME NEW x \in Msg, pc'[x] \in {"reply", "del"},
                      NEW a \in cur'[x] \intersect Lasting
               PROVE  Logged(UserOf[x], a)'
    OBVIOUS
  <2>1. CASE x = m
    BY <1>4, <1>8, <2>1
  <2>2. CASE x # m
    BY <1>4, <1>5, <1>7, <2>2 DEF LoggedInv
  <2> QED BY <2>1, <2>2
<1>11. \A x \in Msg : pc'[x] \in {"hint", "txn", "reply", "del"}
                        => Cover[x] \intersect Lasting \subseteq cur'[x]
  <2> SUFFICES ASSUME NEW x \in Msg, pc'[x] \in {"hint", "txn", "reply", "del"}
               PROVE  Cover[x] \intersect Lasting \subseteq cur'[x]
    OBVIOUS
  <2>1. pc[x] \in {"hint", "txn", "reply", "del"}
    BY <1>4, <1>5
  <2> QED BY <1>4, <2>1 DEF LoggedInv
<1>12. \A x \in Msg : pc'[x] # "idle" => phase' # "down"
  <2> SUFFICES ASSUME NEW x \in Msg, pc'[x] # "idle" PROVE phase # "down"
    BY <1>4
  <2>1. pc[x] # "idle"
    BY <1>4, <1>5
  <2> QED BY <2>1 DEF LoggedInv
<1>13. Live' = Live
  BY <1>4 DEF Live
<1>14. \A u \in DOMAIN memory' : \A a \in memory'[u] \intersect Lasting : Logged(u, a)'
  BY <1>4, <1>7 DEF LoggedInv
<1>15. \A x \in Msg : "processed" \in outcomes'[x]
                        => \A a \in Cover[x] \intersect Lasting : Logged(UserOf[x], a)'
  BY <1>4, <1>7 DEF LoggedInv
<1>16. Lasting \subseteq Live' /\ (phase' # "down" => Lasting \subseteq snapshot')
  BY <1>4, <1>13 DEF LoggedInv
<1> QED BY <1>9, <1>10, <1>11, <1>12, <1>14, <1>15, <1>16 DEF LoggedInv

\* The reply: the memory takes areas whose rows are written.
LEMMA ReplyLogs ==
    ASSUME TypeOK, LoggedInv, NEW m \in Msg, Reply(m)
    PROVE  LoggedInv'
<1>1. UNCHANGED <<areaState, presence, logs, phase, snapshot, cur, outcomes>> /\ pc[m] = "reply"
  BY DEF Reply, tableVars, processVars
<1>2. pc'[m] = "del" /\ \A x \in Msg : x # m => pc'[x] = pc[x]
  BY DEF Reply, TypeOK, TaskTypeOK
<1>3. \A u \in DOMAIN memory' :
        \/ u \in DOMAIN memory /\ memory'[u] = memory[u]
        \/ u = UserOf[m] /\ memory'[u] = cur[m]
  BY DEF Reply, Put
<1>4. Live' = Live /\ \A u, a : Logged(u, a)' <=> Logged(u, a)
  BY <1>1 DEF Live, Logged
<1>5. \A u \in DOMAIN memory' : \A a \in memory'[u] \intersect Lasting : Logged(u, a)
  BY <1>1, <1>3 DEF LoggedInv
<1>6. \A x \in Msg : pc'[x] \in {"reply", "del"} => pc[x] \in {"reply", "del"}
  BY <1>1, <1>2
<1>7. \A x \in Msg : pc'[x] \in {"hint", "txn", "reply", "del"}
                       => pc[x] \in {"hint", "txn", "reply", "del"}
  BY <1>1, <1>2
<1>8. \A x \in Msg : pc'[x] # "idle" => pc[x] # "idle"
  BY <1>1, <1>2
<1> QED BY <1>1, <1>4, <1>5, <1>6, <1>7, <1>8 DEF LoggedInv

\* A step of any task keeps the rows behind every claim.
LEMMA TaskLogs ==
    ASSUME TypeOK, RowsRefer, LoggedInv, NEW m \in Msg,
           TaskStep(m) \/ DbFails(m) \/ LostReply(m)
    PROVE  LoggedInv'
<1>1. CASE Start(m)
  <2>1. pc[m] # "idle" /\ UNCHANGED <<areaState, presence, logs, phase, snapshot, memory>>
    BY <1>1 DEF Start, taskFrame, processVars
  <2>2. Careful(m)
    <3>1. CASE Gate(m, lastSeqByDevice)
      BY <2>1, <3>1, GateCareful
    <3>2. CASE ~Gate(m, lastSeqByDevice)
      BY <1>1, <3>2 DEF Start, TypeOK, TaskTypeOK, Careful
    <3> QED BY <3>1, <3>2
  <2> QED BY <2>1, <2>2, CarefulKeeps
<1>2. CASE SeqLoaded(m)
  <2>1. pc[m] # "idle" /\ UNCHANGED <<areaState, presence, logs, phase, snapshot, memory>>
    BY <1>2 DEF SeqLoaded, taskFrame, processVars
  <2>2. Careful(m)
    BY <1>2, <2>1, GateCareful DEF SeqLoaded
  <2> QED BY <2>1, <2>2, CarefulKeeps
<1>3. CASE HintLoaded(m)
  <2>1. /\ pc[m] = "hint" /\ UNCHANGED <<areaState, presence, logs, phase, snapshot>>
        /\ memory' = Put(memory, UserOf[m], presence[UserOf[m]])
    BY <1>3 DEF HintLoaded, taskFrame, processVars
  <2>2. Cover[m] \intersect Lasting \subseteq cur[m]
    BY <2>1 DEF LoggedInv
  <2>3. \A a \in presence[UserOf[m]] \intersect Lasting : Logged(UserOf[m], a)
    BY WorkerAssumption DEF WorkerAssumption, LoggedInv
  <2>4. Careful(m)
    BY <1>3, <2>2, <2>3, ForkCareful DEF HintLoaded
  <2> QED BY <2>1, <2>4, CarefulKeeps
<1>4. CASE Commit(m)
  BY <1>4, CommitLogs
<1>5. CASE FkViolation(m) \/ DbFails(m) \/ LostReply(m)
  <2>1. pc[m] # "idle" /\ UNCHANGED <<areaState, presence, logs, phase, snapshot, memory>>
    BY <1>5 DEF FkViolation, DbFails, LostReply, taskFrame, processVars, cacheVars
  <2>2. Careful(m)
    BY <1>5, EndsCareful DEF FkViolation, DbFails, LostReply, DropStale, Fail
  <2> QED BY <2>1, <2>2, CarefulKeeps
<1>6. CASE Reply(m)
  BY <1>6, ReplyLogs
<1>7. CASE Invalidated(m)
  <2>1. pc[m] = "del" /\ UNCHANGED <<areaState, presence, logs, phase, snapshot, memory>>
    BY <1>7 DEF Invalidated, taskFrame, processVars
  <2>2. \A a \in Cover[m] \intersect Lasting : Logged(UserOf[m], a)
    BY <2>1 DEF LoggedInv
  <2>3. Careful(m)
    BY <1>7, <2>2, FinishCareful DEF Invalidated
  <2> QED BY <2>1, <2>3, CarefulKeeps
<1> QED BY <1>1, <1>2, <1>3, <1>4, <1>5, <1>6, <1>7 DEF TaskStep

\* A delivery claims nothing.
LEMMA DeliverLogs ==
    ASSUME TypeOK, LoggedInv, NEW m \in Msg, Deliver(m), pc[m] = "idle"
    PROVE  LoggedInv'
<1>1. /\ phase # "down"
      /\ UNCHANGED <<areaState, presence, logs, phase, snapshot, memory, cur, outcomes>>
  BY DEF Deliver, tableVars, processVars, cacheVars
<1>2. pc' = pc \/ pc' = [pc EXCEPT ![m] = "queued"]
  BY DEF Deliver
<1>3. Careful(m)
  BY <1>1, <1>2 DEF TypeOK, TaskTypeOK, Careful
<1> QED BY <1>1, <1>3, CarefulKeeps

\* Only areas that are not lasting lose their rows.
LEMMA AreaLogs ==
    ASSUME TypeOK, LoggedInv, NEW a \in Area, AreaCreated(a) \/ AreaDeleted(a)
    PROVE  LoggedInv'
<1>1. /\ areaState \in [Area -> {"future", "live", "gone"}]
      /\ presence \in [User -> SUBSET Area]
  BY DEF TypeOK, TableTypeOK
<1>2. UNCHANGED <<phase, snapshot, cur, pc, memory, outcomes>>
  BY DEF AreaCreated, AreaDeleted, processVars, chainVars, cacheVars
<1>3. Lasting \subseteq Live'
  <2>1. CASE AreaCreated(a)
    BY <1>1, <2>1 DEF AreaCreated, CreateArea, Live, LoggedInv
  <2>2. CASE AreaDeleted(a)
    BY <1>1, <2>2 DEF AreaDeleted, DeleteArea, Live, LoggedInv, Lasting
  <2> QED BY <2>1, <2>2
<1>4. \A u, x : (x \in Lasting /\ Logged(u, x)) => Logged(u, x)'
  <2>1. CASE AreaCreated(a)
    BY <2>1 DEF AreaCreated, CreateArea, Logged
  <2>2. CASE AreaDeleted(a)
    BY <2>2 DEF AreaDeleted, DeleteArea, Logged, Lasting
  <2> QED BY <2>1, <2>2
<1>5. \A u \in User : presence'[u] \subseteq presence[u]
  <2>1. CASE AreaCreated(a)
    BY <2>1 DEF AreaCreated, CreateArea
  <2>2. CASE AreaDeleted(a)
    BY <2>2 DEF AreaDeleted, DeleteArea
  <2> QED BY <2>1, <2>2
<1>6. \A u \in User : \A x \in presence'[u] \intersect Lasting : Logged(u, x)'
  BY <1>4, <1>5 DEF LoggedInv
<1>7. \A u \in DOMAIN memory' : \A x \in memory'[u] \intersect Lasting : Logged(u, x)'
  BY <1>2, <1>4 DEF LoggedInv
<1>8. \A m \in Msg : pc'[m] \in {"reply", "del"}
                       => \A x \in cur'[m] \intersect Lasting : Logged(UserOf[m], x)'
  BY <1>2, <1>4 DEF LoggedInv
<1>9. \A m \in Msg : "processed" \in outcomes'[m]
                       => \A x \in Cover[m] \intersect Lasting : Logged(UserOf[m], x)'
  BY <1>2, <1>4 DEF LoggedInv
<1>10. /\ phase' # "down" => Lasting \subseteq snapshot'
       /\ \A m \in Msg : pc'[m] # "idle" => phase' # "down"
       /\ \A m \in Msg : pc'[m] \in {"hint", "txn", "reply", "del"}
                           => Cover[m] \intersect Lasting \subseteq cur'[m]
  BY <1>2 DEF LoggedInv
<1> QED BY <1>3, <1>6, <1>7, <1>8, <1>9, <1>10 DEF LoggedInv

\* A process that ends forgets its claims; the rows and the outcomes stay.
LEMMA ProcessEndsLogs ==
    ASSUME LoggedInv, ProcessEnds, UNCHANGED <<tableVars, outcomes>>
    PROVE  LoggedInv'
<1>1. Live' = Live /\ \A u, a : Logged(u, a)' <=> Logged(u, a)
  BY DEF tableVars, Live, Logged
<1>2. DOMAIN memory' = {}
  BY EmptyMapType DEF ProcessEnds, EmptyMap
<1>3. \A u \in User : \A a \in presence'[u] \intersect Lasting : Logged(u, a)'
  BY <1>1 DEF LoggedInv, tableVars
<1> QED BY <1>1, <1>2, <1>3 DEF ProcessEnds, LoggedInv

\* A step that moves the phase, and the snapshot to the live areas, only.
LEMMA ElsewhereLogs ==
    ASSUME LoggedInv, UNCHANGED <<areaState, presence, logs, pc, cur, memory, outcomes>>,
           \/ phase' = phase /\ snapshot' = snapshot
           \/ phase # "down" /\ phase' # "down" /\ snapshot' = snapshot
           \/ phase' # "down" /\ snapshot' = Live
    PROVE  LoggedInv'
<1>1. Live' = Live /\ \A u, a : Logged(u, a)' <=> Logged(u, a)
  BY DEF Live, Logged
<1>2. phase' # "down" => Lasting \subseteq snapshot'
  BY DEF LoggedInv
<1>3. \A m \in Msg : pc'[m] # "idle" => phase' # "down"
  BY DEF LoggedInv
<1> QED BY <1>1, <1>2, <1>3 DEF LoggedInv

\* At the start nothing is claimed.
LEMMA InitLogged == Init => LoggedInv
<1> SUFFICES ASSUME Init PROVE LoggedInv
  OBVIOUS
<1>1. DOMAIN memory = {}
  BY DEF Init, EmptyMap
<1>2. Lasting \subseteq Live
  BY AreaAssumption DEF AreaAssumption, Init, TablesInit, Lasting, Live
<1> QED BY <1>1, <1>2 DEF Init, TablesInit, LoggedInv

\* Every step keeps the rows behind every claim.
LEMMA NextLogged == SerialInv /\ MemoryInv /\ LoggedInv /\ [Next]_vars => LoggedInv'
<1> SUFFICES ASSUME SerialInv, MemoryInv, LoggedInv, [Next]_vars PROVE LoggedInv'
  OBVIOUS
<1>0. TypeOK /\ RowsRefer
  BY DEF SerialInv, MemoryInv
<1> USE DEF tableVars, processVars, chainVars, cacheVars
<1>1. ASSUME NEW m \in Msg, Deliver(m) PROVE LoggedInv'
  <2>1. pc[m] = "idle"
    BY <1>1, DequeueSerial DEF Deliver, SerialInv, EveryDeliveryOwned, Tasks
  <2> QED BY <1>0, <1>1, <2>1, DeliverLogs
<1>2. ASSUME NEW m \in Msg, TaskStep(m) \/ DbFails(m) \/ LostReply(m) PROVE LoggedInv'
  BY <1>0, <1>2, TaskLogs
<1>3. CASE Settle \/ DeadLettered
  BY <1>3, ElsewhereLogs DEF Settle, DeadLettered
<1>4. CASE Crash \/ Close
  BY <1>4, ProcessEndsLogs DEF Crash, Close
<1>5. CASE Boot \/ Shutdown \/ Cancelled \/ SnapshotRebuilt
  BY <1>5, ElsewhereLogs DEF Boot, Shutdown, Cancelled, SnapshotRebuilt
<1>6. ASSUME NEW a \in Area, AreaCreated(a) \/ AreaDeleted(a) PROVE LoggedInv'
  BY <1>0, <1>6, AreaLogs
<1>7. CASE UNCHANGED vars
  BY <1>7, ElsewhereLogs DEF vars
<1> QED BY <1>1, <1>2, <1>3, <1>4, <1>5, <1>6, <1>7 DEF Next

\* Ack after commit: when an event is gone from the queue as processed, every
\* lasting area it lies in has an entry row of its user, whatever crashed,
\* failed or was redelivered before, for any number of users, areas, messages.
THEOREM NothingAckedUnlogged == Spec => []LoggedBeforeAcked
<1>1. Init => MemoryInv /\ LoggedInv
  BY InitMemory, InitLogged
<1>2. SerialInv /\ MemoryInv /\ [Next]_vars => MemoryInv'
  BY NextMemory
<1>3. SerialInv /\ MemoryInv /\ LoggedInv /\ [Next]_vars => LoggedInv'
  BY NextLogged
<1>4. SerialInv /\ LoggedInv => LoggedBeforeAcked
  <2> SUFFICES ASSUME SerialInv, LoggedInv,
                      NEW m \in acked, "processed" \in outcomes[m],
                      NEW a \in (Cover[m] \intersect InitialAreas) \ Doomed
               PROVE  \E r \in logs : r.user = UserOf[m] /\ r.area = a
    BY DEF LoggedBeforeAcked
  <2>1. m \in Msg
    BY DEF SerialInv, TypeOK, QueueTypeOK
  <2>2. Logged(UserOf[m], a)
    BY <2>1 DEF LoggedInv, Lasting
  <2> QED BY <2>2 DEF Logged
<1> QED BY <1>1, <1>2, <1>3, <1>4, Serialized, PTL DEF Spec

-----------------------------------------------------------------------------
(***************************************************************************)
(* The rows are an entry log: an attempt writes at most once.              *)
(***************************************************************************)

\* Nothing more can come of m's current attempt: it has committed, or has been
\* settled and is not in the queue.
Spent(m) ==
    /\ m \notin ToSet(ready) /\ m \notin ToSet(returns)
    /\ pc[m] = "idle" \/ pc[m] = "reply" \/ pc[m] = "del"

\* Rows carry the number of an attempt that has begun, and the rows of the
\* current attempt mean that it is spent.
StampsAreOld ==
    /\ \A r \in logs : r.stamp[2] <= returned[r.stamp[1]]
    /\ \A m \in Msg : (\E r \in logs : r.stamp = <<m, returned[m]>>) => Spent(m)
\* A delivery is within the limit; a fresh message has never come back.
AttemptsBounded ==
    /\ \A m \in ToSet(ready) : returned[m] = 0
    /\ \A m \in ToSet(unacked) : returned[m] <= DeliveryLimit
StampInv == StampsAreOld /\ AttemptsBounded

\* Steps that write no row.
LEMMA StampsKeep ==
    ASSUME TypeOK, StampsAreOld, logs' \subseteq logs,
           \A m \in Msg : returned'[m] \in Nat /\ returned[m] <= returned'[m],
           \A m \in Msg : (returned'[m] = returned[m] /\ Spent(m)) => Spent(m)'
    PROVE  StampsAreOld'
<1>1. \A r \in logs : r.stamp = <<r.stamp[1], r.stamp[2]>> /\ r.stamp[1] \in Msg /\ r.stamp[2] \in Nat
  BY DEF TypeOK, TableTypeOK, Row, Stamp
<1>2. returned \in [Msg -> Nat]
  BY DEF TypeOK, QueueTypeOK
<1>3. ASSUME NEW r \in logs' PROVE r.stamp[2] <= returned'[r.stamp[1]]
  <2>1. r.stamp[1] \in Msg /\ r.stamp[2] \in Nat /\ r.stamp[2] <= returned[r.stamp[1]]
    BY <1>1, <1>3 DEF StampsAreOld
  <2> QED BY <1>2, <2>1
<1>4. ASSUME NEW m \in Msg, NEW r \in logs', r.stamp = <<m, returned'[m]>> PROVE Spent(m)'
  <2>1. r.stamp[1] = m /\ r.stamp[2] = returned'[m] /\ r \in logs
    BY <1>4
  <2>2. returned'[m] <= returned[m]
    BY <2>1 DEF StampsAreOld
  <2>3. returned'[m] = returned[m]
    BY <1>2, <2>2
  <2> QED BY <1>4, <2>1, <2>3 DEF StampsAreOld
<1> QED BY <1>3, <1>4 DEF StampsAreOld

\* A step of a task other than the commit: an attempt that is spent stays so.
LEMMA TaskStamps ==
    ASSUME SerialInv, StampInv, NEW m \in Msg,
           TaskStep(m) \/ DbFails(m) \/ LostReply(m), ~Commit(m)
    PROVE  StampInv'
<1>1. /\ UNCHANGED <<ready, returns, unacked, returned, logs>>
      /\ TypeOK /\ StampsAreOld /\ AttemptsBounded
  BY DEF TaskStep, Start, SeqLoaded, HintLoaded, FkViolation, Reply, Invalidated, DbFails,
         LostReply, taskFrame, queueVars, tableVars, SerialInv, StampInv
<1>2. pc \in [Msg -> {"idle", "queued"} \union Busy]
  BY <1>1 DEF TypeOK, TaskTypeOK
<1>3. ASSUME NEW x \in Msg, Spent(x) PROVE Spent(x)'
  <2>1. CASE x = m
    <3>1. Reply(m) \/ LostReply(m) \/ Invalidated(m)
      BY <1>3, <2>1 DEF Spent, TaskStep, Start, SeqLoaded, HintLoaded, FkViolation, DbFails
    <3>2. pc'[m] = "idle" \/ pc'[m] = "del"
      BY <1>2, <3>1 DEF Reply, LostReply, Invalidated, Fail, Finish, TaskEnds
    <3> QED BY <1>1, <1>3, <2>1, <3>2 DEF Spent, ToSet
  <2>2. CASE x # m
    <3>1. pc'[x] = pc[x]
      <4>1. Continues(m) \/ Ends(m)
        BY TaskShape
      <4>2. CASE Continues(m)
        BY <1>2, <2>2, <4>2 DEF Continues
      <4>3. CASE Ends(m)
        BY <1>2, <2>2, <4>3 DEF Ends, TaskEnds
      <4> QED BY <4>1, <4>2, <4>3
    <3> QED BY <1>1, <1>3, <3>1 DEF Spent, ToSet
  <2> QED BY <2>1, <2>2
<1>4. StampsAreOld'
  BY <1>1, <1>3, StampsKeep DEF TypeOK, QueueTypeOK
<1>5. AttemptsBounded'
  BY <1>1 DEF AttemptsBounded, ToSet
<1> QED BY <1>4, <1>5 DEF StampInv

\* The commit of an attempt that has written nothing yet.
LEMMA CommitStamps ==
    ASSUME SerialInv, StampInv, NEW m \in Msg, Commit(m)
    PROVE  /\ StampInv'
           /\ \A r \in logs : r.stamp # <<m, returned[m]>>
           /\ returned[m] \in 0..DeliveryLimit
<1>1. /\ UNCHANGED <<ready, returns, unacked, returned>> /\ pc[m] = "txn"
      /\ TypeOK /\ StampsAreOld /\ AttemptsBounded /\ InOnePlace
  BY DEF Commit, queueVars, SerialInv, StampInv
<1>2. returned \in [Msg -> Nat] /\ pc \in [Msg -> {"idle", "queued"} \union Busy]
  BY <1>1 DEF TypeOK, QueueTypeOK, TaskTypeOK
<1>3. m \in ToSet(unacked)
  BY <1>1 DEF SerialInv, EveryDeliveryOwned, Tasks
<1>4. \A r \in logs : r.stamp # <<m, returned[m]>>
  BY <1>1 DEF StampsAreOld, Spent
<1>5. returned[m] \in 0..DeliveryLimit
  BY <1>1, <1>2, <1>3, QueueAssumption DEF AttemptsBounded, QueueAssumption
<1>6. pc'[m] = "reply" /\ \A x \in Msg : x # m => pc'[x] = pc[x]
  BY <1>2 DEF Commit
<1>7. \A r \in logs' : r \in logs \/ r.stamp = <<m, returned[m]>>
  BY DEF Commit, Transition
<1>8. ASSUME NEW r \in logs' PROVE r.stamp[2] <= returned[r.stamp[1]]
  <2>1. CASE r \in logs
    BY <1>1, <2>1 DEF StampsAreOld
  <2>2. CASE r.stamp = <<m, returned[m]>>
    BY <1>2, <2>2
  <2> QED BY <1>7, <1>8, <2>1, <2>2
<1>9. m \notin ToSet(ready) /\ m \notin ToSet(returns)
  BY <1>1, <1>3 DEF InOnePlace
<1>10. ASSUME NEW x \in Msg, NEW r \in logs', r.stamp = <<x, returned[x]>> PROVE Spent(x)'
  <2>1. CASE x = m
    BY <1>1, <1>6, <1>9, <2>1 DEF Spent, ToSet
  <2>2. CASE x # m
    <3>1. r \in logs
      BY <1>7, <1>10, <2>2
    <3>2. Spent(x)
      BY <1>1, <1>10, <3>1 DEF StampsAreOld
    <3> QED BY <1>1, <1>6, <2>2, <3>2 DEF Spent, ToSet
  <2> QED BY <2>1, <2>2
<1>11. StampsAreOld'
  BY <1>1, <1>8, <1>10 DEF StampsAreOld
<1>12. AttemptsBounded'
  BY <1>1 DEF AttemptsBounded, ToSet
<1> QED BY <1>4, <1>5, <1>11, <1>12 DEF StampInv

\* A delivery opens the attempt of a message that was in the queue.
LEMMA DeliverStamps ==
    ASSUME SerialInv, StampInv, NEW m \in Msg, Deliver(m)
    PROVE  StampInv'
<1>1. /\ UNCHANGED <<returned, logs>> /\ unacked' = Append(unacked, m)
      /\ TypeOK /\ StampsAreOld /\ AttemptsBounded /\ InOnePlace
  BY DEF Deliver, Push, tableVars, SerialInv, StampInv
<1>2. /\ ready \in Seq(Msg) /\ returns \in Seq(Msg) /\ unacked \in Seq(Msg)
      /\ returned \in [Msg -> Nat] /\ pc \in [Msg -> {"idle", "queued"} \union Busy]
  BY <1>1 DEF TypeOK, QueueTypeOK, TaskTypeOK
<1>3. \/ /\ m \in ToSet(ready) /\ ToSet(ready') = ToSet(ready) \ {m}
         /\ returns' = returns
      \/ /\ m \in ToSet(returns) /\ ToSet(returns') = ToSet(returns) \ {m}
         /\ ready' = ready /\ returned[m] <= DeliveryLimit
  <2>1. CASE /\ returns # <<>> /\ m = Head(returns) /\ returns' = Tail(returns) /\ ready' = ready
             /\ returned[m] <= DeliveryLimit
    BY <1>1, <1>2, <2>1, TailSet DEF InOnePlace
  <2>2. CASE ready # <<>> /\ m = Head(ready) /\ ready' = Tail(ready) /\ returns' = returns
    BY <1>1, <1>2, <2>2, TailSet DEF InOnePlace
  <2> QED BY <2>1, <2>2 DEF Deliver, Push, Dequeue
<1>4. ToSet(ready') \subseteq ToSet(ready) /\ ToSet(returns') \subseteq ToSet(returns)
  BY <1>3
<1>5. \A x \in Msg : x # m => pc'[x] = pc[x]
  BY <1>2 DEF Deliver
<1>6. ASSUME NEW x \in Msg, Spent(x) PROVE Spent(x)'
  <2>1. x # m
    BY <1>3, <1>6 DEF Spent
  <2>2. x \notin ToSet(ready') /\ x \notin ToSet(returns')
    BY <1>4, <1>6 DEF Spent
  <2> QED BY <1>5, <1>6, <2>1, <2>2 DEF Spent, ToSet
<1>7. StampsAreOld'
  BY <1>1, <1>2, <1>6, StampsKeep
<1>8. returned[m] <= DeliveryLimit
  BY <1>1, <1>3, QueueAssumption DEF AttemptsBounded, QueueAssumption
<1>9. ToSet(unacked') = ToSet(unacked) \union {m}
  BY <1>1, <1>2, AppendSet
<1>10. /\ \A x \in ToSet(ready') : returned[x] = 0
       /\ \A x \in ToSet(unacked') : returned[x] <= DeliveryLimit
  BY <1>1, <1>4, <1>8, <1>9 DEF AttemptsBounded
<1>11. AttemptsBounded'
  BY <1>1, <1>10 DEF AttemptsBounded, ToSet
<1> QED BY <1>7, <1>11 DEF StampInv

\* A nack opens a new attempt, an ack closes the last one.
LEMMA SettleStamps ==
    ASSUME SerialInv, StampInv, Settle
    PROVE  StampInv'
<1> DEFINE d == Head(wire).msg
<1>1. /\ UNCHANGED <<ready, logs, pc>>
      /\ TypeOK /\ StampsAreOld /\ AttemptsBounded /\ InOnePlace
  BY DEF Settle, ReadFrame, tableVars, chainVars, SerialInv, StampInv
<1>2. /\ ready \in Seq(Msg) /\ returns \in Seq(Msg) /\ unacked \in Seq(Msg)
      /\ returned \in [Msg -> Nat]
  BY <1>1 DEF TypeOK, QueueTypeOK
<1>3. PICK k \in DOMAIN unacked :
         /\ unacked[k] = d
         /\ unacked' = RemoveAt(unacked, k)
         /\ \/ UNCHANGED <<returns, returned>>
            \/ /\ returns' = Append(returns, d)
               /\ returned' = [returned EXCEPT ![d] = @ + 1]
  BY DEF Settle, ReadFrame
<1> HIDE DEF d
<1>4. d \in Msg
  BY <1>2, <1>3, ElementOfSeq, LenProperties
<1>5. ToSet(unacked') = ToSet(unacked) \ {d} /\ d \in ToSet(unacked)
  <2>1. d \in ToSet(unacked)
    BY <1>3 DEF ToSet
  <2> QED BY <1>1, <1>2, <1>3, <2>1, RemoveSet DEF InOnePlace
<1>6. \A x \in Msg : x # d => returned'[x] = returned[x]
  BY <1>2, <1>3, <1>4
<1>7. \/ returned' = returned /\ ToSet(returns') = ToSet(returns)
      \/ returned'[d] = returned[d] + 1 /\ ToSet(returns') = ToSet(returns) \union {d}
  <2>1. CASE UNCHANGED <<returns, returned>>
    BY <2>1
  <2>2. CASE /\ returns' = Append(returns, d)
             /\ returned' = [returned EXCEPT ![d] = @ + 1]
    <3>1. ToSet(returns') = ToSet(returns) \union {d}
      BY <1>2, <1>4, <2>2, AppendSet
    <3> QED BY <1>2, <1>4, <2>2, <3>1
  <2> QED BY <1>3, <2>1, <2>2
<1>8. ASSUME NEW x \in Msg PROVE returned'[x] \in Nat /\ returned[x] <= returned'[x]
  BY <1>2, <1>4, <1>6, <1>7
<1>9. ASSUME NEW x \in Msg, returned'[x] = returned[x], Spent(x) PROVE Spent(x)'
  <2>1. x \notin ToSet(returns')
    BY <1>2, <1>4, <1>7, <1>9 DEF Spent
  <2> QED BY <1>1, <1>9, <2>1 DEF Spent, ToSet
<1>10. StampsAreOld'
  BY <1>1, <1>8, <1>9, StampsKeep
<1>11. ToSet(ready) \subseteq Msg /\ ToSet(unacked) \subseteq Msg /\ d \notin ToSet(ready)
  <2>1. ToSet(ready) \subseteq Msg /\ ToSet(unacked) \subseteq Msg
    BY <1>2, ElementOfSeq, LenProperties DEF ToSet
  <2> QED BY <1>1, <1>5, <2>1 DEF InOnePlace
<1>12. /\ \A x \in ToSet(ready) : returned'[x] = 0
       /\ \A x \in ToSet(unacked') : returned'[x] <= DeliveryLimit
  BY <1>1, <1>5, <1>6, <1>11 DEF AttemptsBounded
<1>13. AttemptsBounded'
  BY <1>1, <1>12 DEF AttemptsBounded, ToSet
<1> QED BY <1>10, <1>13 DEF StampInv

\* The end of the process opens a new attempt of everything outstanding.
LEMMA ProcessEndsStamps ==
    ASSUME SerialInv, StampInv, ConnectionLost, ProcessEnds, logs' = logs
    PROVE  StampInv'
<1>1. /\ ready' = ready /\ unacked' = <<>> /\ returns' = returns \o unacked
      /\ TypeOK /\ StampsAreOld /\ AttemptsBounded /\ InOnePlace
  BY DEF ConnectionLost, SerialInv, StampInv
<1>2. /\ ready \in Seq(Msg) /\ returns \in Seq(Msg) /\ unacked \in Seq(Msg)
      /\ returned \in [Msg -> Nat]
  BY <1>1 DEF TypeOK, QueueTypeOK
<1>3. ToSet(returns') = ToSet(returns) \union ToSet(unacked)
  BY <1>1, <1>2, ConcatSet
<1>4. \A x \in Msg : returned'[x] = IF x \in ToSet(unacked) THEN returned[x] + 1 ELSE returned[x]
  BY DEF ConnectionLost
<1>5. \A x \in Msg : returned'[x] \in Nat /\ returned[x] <= returned'[x]
  BY <1>2, <1>4
<1>6. ASSUME NEW x \in Msg, returned'[x] = returned[x], Spent(x) PROVE Spent(x)'
  <2>1. x \notin ToSet(unacked)
    BY <1>2, <1>4, <1>6
  <2>2. x \notin ToSet(returns') /\ pc'[x] = "idle"
    BY <1>3, <1>6, <2>1 DEF Spent, ProcessEnds
  <2> QED BY <1>1, <1>6, <2>2 DEF Spent, ToSet
<1>7. StampsAreOld'
  BY <1>1, <1>5, <1>6, StampsKeep
<1>8. ToSet(ready) \subseteq Msg /\ ToSet(unacked') = {}
  BY <1>1, <1>2, ElementOfSeq, LenProperties DEF ToSet
<1>9. \A x \in ToSet(ready) : returned'[x] = 0
  BY <1>1, <1>4, <1>8 DEF AttemptsBounded, InOnePlace
<1>10. AttemptsBounded'
  BY <1>1, <1>8, <1>9 DEF AttemptsBounded, ToSet
<1> QED BY <1>7, <1>10 DEF StampInv

\* A step that writes no row, starts no attempt and moves no task.
LEMMA ElsewhereStamps ==
    ASSUME SerialInv, StampInv, UNCHANGED <<ready, unacked, returned, pc>>,
           logs' \subseteq logs, ToSet(returns') \subseteq ToSet(returns)
    PROVE  StampInv'
<1>1. TypeOK /\ StampsAreOld /\ AttemptsBounded /\ returned \in [Msg -> Nat]
  BY DEF SerialInv, StampInv, TypeOK, QueueTypeOK
<1>2. \A x \in Msg : Spent(x) => Spent(x)'
  BY DEF Spent, ToSet
<1>3. StampsAreOld'
  BY <1>1, <1>2, StampsKeep
<1>4. AttemptsBounded'
  BY <1>1 DEF AttemptsBounded, ToSet
<1> QED BY <1>3, <1>4 DEF StampInv

\* At the start no row is written and nothing has come back.
LEMMA InitStamps == Init => StampInv
<1> SUFFICES ASSUME Init PROVE StampInv
  OBVIOUS
<1>1. StampsAreOld
  BY DEF Init, TablesInit, StampsAreOld
<1>2. ready \in Seq(Msg) /\ unacked = <<>> /\ returned = [m \in Msg |-> 0]
  BY QueueAssumption DEF QueueAssumption, Init, QueueInit
<1>3. ToSet(ready) \subseteq Msg /\ ToSet(unacked) = {}
  BY <1>2, ElementOfSeq, LenProperties DEF ToSet
<1>4. AttemptsBounded
  BY <1>2, <1>3 DEF AttemptsBounded
<1> QED BY <1>1, <1>4 DEF StampInv

\* Every step keeps the stamps of an open attempt unused.
LEMMA NextStamps == SerialInv /\ StampInv /\ [Next]_vars => StampInv'
<1> SUFFICES ASSUME SerialInv, StampInv, [Next]_vars PROVE StampInv'
  OBVIOUS
<1> USE DEF queueVars, tableVars, processVars, chainVars, cacheVars
<1>1. ASSUME NEW m \in Msg, Deliver(m) PROVE StampInv'
  BY <1>1, DeliverStamps
<1>2. ASSUME NEW m \in Msg, TaskStep(m) \/ DbFails(m) \/ LostReply(m) PROVE StampInv'
  BY <1>2, TaskStamps, CommitStamps
<1>3. CASE Settle
  BY <1>3, SettleStamps
<1>4. CASE DeadLettered
  <2>1. returns \in Seq(Msg) /\ IsInjective(returns)
    BY DEF SerialInv, TypeOK, QueueTypeOK, InOnePlace
  <2>2. ToSet(returns') \subseteq ToSet(returns)
    BY <1>4, <2>1, TailSet DEF DeadLettered, DeadLetter
  <2> QED BY <1>4, <2>2, ElsewhereStamps DEF DeadLettered, DeadLetter
<1>5. CASE Crash \/ Close
  BY <1>5, ProcessEndsStamps DEF Crash, Close
<1>6. CASE Boot \/ Shutdown \/ Cancelled \/ SnapshotRebuilt
  BY <1>6, ElsewhereStamps DEF Boot, Shutdown, Cancelled, SnapshotRebuilt
<1>7. ASSUME NEW a \in Area, AreaCreated(a) \/ AreaDeleted(a) PROVE StampInv'
  BY <1>7, ElsewhereStamps DEF AreaCreated, AreaDeleted, CreateArea, DeleteArea
<1>8. CASE UNCHANGED vars
  BY <1>8, ElsewhereStamps DEF vars
<1> QED BY <1>1, <1>2, <1>3, <1>4, <1>5, <1>6, <1>7, <1>8 DEF Next

\* The worker's writes, seen as the abstract entry log: rows appear only with
\* the presence transition they record, and each delivery attempt of a message
\* writes at most once, for any number of crashes, errors and redeliveries.
THEOREM WorkerImplementsEntryLog == Spec => ImplementsEntryLog
<1>1. Init => Log!Init
  BY DEF Init, TablesInit, Log!Init
<1>2. SerialInv /\ MemoryInv /\ StampInv /\ [Next]_vars => [Log!Next]_(Log!vars)
  <2> SUFFICES ASSUME SerialInv, MemoryInv, StampInv, [Next]_vars PROVE [Log!Next]_(Log!vars)
    OBVIOUS
  <2>1. CASE presence' = presence /\ logs' = logs
    BY <2>1 DEF Log!vars
  <2>2. ASSUME NEW m \in Msg, Commit(m) PROVE Log!Next
    <3> DEFINE u == UserOf[m]
               c == cur[m]
               s == <<m, returned[m]>>
    <3>1. u \in User /\ c \in SUBSET Area /\ TypeOK /\ RowsRefer
      BY WorkerAssumption DEF WorkerAssumption, SerialInv, TypeOK, TaskTypeOK, MemoryInv
    <3>2. presence' = [presence EXCEPT ![u] = c]
      BY <2>2, <3>1, TransitionResult DEF Commit
    <3>3. logs' = logs \union {[user |-> u, area |-> a, stamp |-> s] : a \in c \ presence[u]}
      BY <2>2 DEF Commit, Transition, Entered
    <3>4. s \in Msg \X (0..DeliveryLimit) /\ \A r \in logs : r.stamp # s
      BY <2>2, CommitStamps
    <3> HIDE DEF u, c, s
    <3>5. Log!Move(u, c, s)
      BY <3>2, <3>3, <3>4 DEF Log!Move
    <3> QED BY <3>1, <3>4, <3>5 DEF Log!Next
  <2>3. ASSUME NEW a \in Area, AreaDeleted(a) PROVE Log!Next
    BY <2>3 DEF AreaDeleted, DeleteArea, Log!Next, Log!Drop
  <2>4. \/ presence' = presence /\ logs' = logs
        \/ \E m \in Msg : Commit(m)
        \/ \E a \in Area : AreaDeleted(a)
    BY DEF Next, TaskStep, Start, SeqLoaded, HintLoaded, FkViolation, Reply, Invalidated,
           DbFails, LostReply, Deliver, Settle, DeadLettered, Boot, Crash, Shutdown, Cancelled,
           Close, AreaCreated, CreateArea, SnapshotRebuilt, tableVars, vars
  <2> QED BY <2>1, <2>2, <2>3, <2>4
<1>3. Init => MemoryInv /\ StampInv
  BY InitMemory, InitStamps
<1>4. SerialInv /\ MemoryInv /\ [Next]_vars => MemoryInv'
  BY NextMemory
<1>5. SerialInv /\ StampInv /\ [Next]_vars => StampInv'
  BY NextStamps
<1> QED BY <1>1, <1>2, <1>3, <1>4, <1>5, Serialized, PTL DEF Spec, ImplementsEntryLog, Log!Spec

-----------------------------------------------------------------------------
(***************************************************************************)
(* The dedup gate.                                                         *)
(***************************************************************************)

\* No two identities render to one key: no id contains the separator ':'.
KeysDistinct == \A p, q \in User \X Device : KeyOf[p] = KeyOf[q] => p = q
\* Clients number from 1: 0 is what a missing row reads as.
SeqsFromOne == \A m \in Msg : HasSeq(m) => SeqNoOf[m] # 0

\* Why an event of identity `id` with a seq up to v need not be processed.
Superseded(id, v) ==
    \/ v = 0
    \/ StoredSeq[id] # None /\ StoredSeq[id] >= v
    \/ \E x \in Msg : "processed" \in outcomes[x] /\ Identity(x) = id /\ SeqNoOf[x] >= v

\* The map claims nothing that was not processed or stored.
MapExplained(seqs) ==
    \A id \in User \X Device : KeyOf[id] \in DOMAIN seqs => Superseded(id, seqs[KeyOf[id]])
DiscardsExplained ==
    \A m \in Msg : "duplicate" \in outcomes[m] => HasSeq(m) /\ Superseded(Identity(m), SeqNoOf[m])
DedupInv == MapExplained(lastSeqByDevice) /\ DiscardsExplained

\* An explanation is never taken back.
LEMMA ExplanationStays ==
    ASSUME NEW id, NEW v, Superseded(id, v), \A x \in Msg : outcomes[x] \subseteq outcomes'[x]
    PROVE  Superseded(id, v)'
BY DEF Superseded, Identity

\* A step that adds no duplicate and keeps or empties the map.
LEMMA QuietDedup ==
    ASSUME DiscardsExplained, NEW seqs, MapExplained(seqs),
           \A x \in Msg : outcomes[x] \subseteq outcomes'[x],
           \A x \in Msg : "duplicate" \in outcomes'[x] => "duplicate" \in outcomes[x],
           lastSeqByDevice' = seqs
    PROVE  DedupInv'
<1>1. ASSUME NEW id \in User \X Device, KeyOf[id] \in DOMAIN seqs
      PROVE  Superseded(id, seqs[KeyOf[id]])'
  BY <1>1, ExplanationStays DEF MapExplained, Superseded
<1>2. MapExplained(lastSeqByDevice)'
  BY <1>1 DEF MapExplained, Superseded
<1>3. ASSUME NEW m \in Msg, "duplicate" \in outcomes'[m]
      PROVE  HasSeq(m) /\ Superseded(Identity(m), SeqNoOf[m])'
  BY <1>3, ExplanationStays DEF DiscardsExplained
<1>4. DiscardsExplained'
  BY <1>3 DEF DiscardsExplained, Superseded, HasSeq, Identity
<1> QED BY <1>2, <1>4 DEF DedupInv

\* report() returned: the key takes the seq of an event that was processed.
LEMMA FinishDedup ==
    ASSUME TypeOK, KeysDistinct, DiscardsExplained, NEW m \in Msg, NEW seqs, IsMap(seqs, Key, Nat),
           MapExplained(seqs), Finish(m, seqs)
    PROVE  DedupInv'
<1>1. outcomes' = [outcomes EXCEPT ![m] = @ \union {"processed"}] /\ lastSeqByDevice' = Remember(m, seqs)
  BY DEF Finish
<1>2. outcomes \in [Msg -> SUBSET Outcome]
  BY DEF TypeOK, TaskTypeOK
<1>3. /\ \A x \in Msg : outcomes[x] \subseteq outcomes'[x]
      /\ \A x \in Msg : "duplicate" \in outcomes'[x] => "duplicate" \in outcomes[x]
      /\ "processed" \in outcomes'[m]
  BY <1>1, <1>2
<1>4. CASE lastSeqByDevice' = seqs
  BY <1>3, <1>4, QuietDedup
<1>5. CASE lastSeqByDevice' # seqs
  <2>1. HasSeq(m) /\ lastSeqByDevice' = Put(seqs, KeyFor(m), SeqNoOf[m])
    BY <1>1, <1>5 DEF Remember
  <2>2. Identity(m) \in User \X Device /\ SeqNoOf[m] \in Nat
    BY <2>1, WorkerAssumption DEF WorkerAssumption, HasSeq, Identity
  <2>3. ASSUME NEW id \in User \X Device, KeyOf[id] \in DOMAIN lastSeqByDevice'
        PROVE  Superseded(id, lastSeqByDevice[KeyOf[id]])'
    <3>1. CASE KeyOf[id] = KeyFor(m)
      <4>1. id = Identity(m)
        BY <2>2, <3>1 DEF KeysDistinct, KeyFor
      <4>2. lastSeqByDevice'[KeyOf[id]] = SeqNoOf[m]
        BY <2>1, <3>1 DEF Put
      <4>3. Superseded(Identity(m), SeqNoOf[m])'
        BY <1>3, <2>2 DEF Superseded, Identity
      <4> QED BY <4>1, <4>2, <4>3 DEF Superseded
    <3>2. CASE KeyOf[id] # KeyFor(m)
      <4>1. KeyOf[id] \in DOMAIN seqs /\ lastSeqByDevice'[KeyOf[id]] = seqs[KeyOf[id]]
        BY <2>1, <2>3, <3>2 DEF Put
      <4>2. Superseded(id, seqs[KeyOf[id]])'
        BY <1>3, <4>1, ExplanationStays DEF MapExplained, Superseded
      <4> QED BY <4>1, <4>2 DEF Superseded
    <3> QED BY <3>1, <3>2
  <2>4. MapExplained(lastSeqByDevice)'
    BY <2>3 DEF MapExplained, Superseded
  <2>5. ASSUME NEW x \in Msg, "duplicate" \in outcomes'[x]
        PROVE  HasSeq(x) /\ Superseded(Identity(x), SeqNoOf[x])'
    BY <1>3, <2>5, ExplanationStays DEF DiscardsExplained
  <2>6. DiscardsExplained'
    BY <2>5 DEF DiscardsExplained, Superseded, HasSeq, Identity
  <2> QED BY <2>4, <2>6 DEF DedupInv
<1> QED BY <1>4, <1>5

\* The gate discards only what the map explains.
LEMMA DiscardDedup ==
    ASSUME TypeOK, SeqsFromOne, DiscardsExplained, NEW m \in Msg, NEW seqs,
           IsMap(seqs, Key, Nat), MapExplained(seqs), HasSeq(m) => KeyFor(m) \in DOMAIN seqs,
           IsDuplicate(m, seqs), Discard(m, seqs)
    PROVE  DedupInv'
<1>1. outcomes' = [outcomes EXCEPT ![m] = @ \union {"duplicate"}] /\ lastSeqByDevice' = seqs
  BY DEF Discard
<1>2. outcomes \in [Msg -> SUBSET Outcome]
  BY DEF TypeOK, TaskTypeOK
<1>3. /\ \A x \in Msg : outcomes[x] \subseteq outcomes'[x]
      /\ \A x \in Msg : (x # m /\ "duplicate" \in outcomes'[x]) => "duplicate" \in outcomes[x]
  BY <1>1, <1>2
<1>4. HasSeq(m) /\ SeqNoOf[m] <= seqs[KeyFor(m)] /\ KeyFor(m) \in DOMAIN seqs
  BY DEF IsDuplicate
<1>5. /\ Identity(m) \in User \X Device /\ SeqNoOf[m] \in Nat /\ SeqNoOf[m] # 0
      /\ \A x \in Msg : SeqNoOf[x] \in Nat
      /\ StoredSeq[Identity(m)] \in Nat \union {None}
  BY <1>4, WorkerAssumption DEF WorkerAssumption, HasSeq, Identity, SeqsFromOne
<1>6. seqs[KeyFor(m)] \in Nat
  BY <1>4 DEF IsMap
<1>7. Superseded(Identity(m), seqs[KeyFor(m)])
  BY <1>4, <1>5 DEF MapExplained, KeyFor
<1>8. Superseded(Identity(m), SeqNoOf[m])
  BY <1>4, <1>5, <1>6, <1>7 DEF Superseded
<1>9. ASSUME NEW id \in User \X Device, KeyOf[id] \in DOMAIN seqs
      PROVE  Superseded(id, seqs[KeyOf[id]])'
  BY <1>3, <1>9, ExplanationStays DEF MapExplained, Superseded
<1>10. MapExplained(lastSeqByDevice)'
  BY <1>1, <1>9 DEF MapExplained, Superseded
<1>11. ASSUME NEW x \in Msg, "duplicate" \in outcomes'[x]
       PROVE  HasSeq(x) /\ Superseded(Identity(x), SeqNoOf[x])'
  <2>1. HasSeq(x) /\ Superseded(Identity(x), SeqNoOf[x])
    BY <1>3, <1>4, <1>8, <1>11 DEF DiscardsExplained
  <2> QED BY <1>3, <2>1, ExplanationStays
<1>12. DiscardsExplained'
  BY <1>11 DEF DiscardsExplained, Superseded, HasSeq, Identity
<1> QED BY <1>10, <1>12 DEF DedupInv

\* The gate and report's first part.
LEMMA GateDedup ==
    ASSUME TypeOK, KeysDistinct, SeqsFromOne, DiscardsExplained, NEW m \in Msg, NEW seqs,
           IsMap(seqs, Key, Nat), MapExplained(seqs), HasSeq(m) => KeyFor(m) \in DOMAIN seqs,
           Gate(m, seqs)
    PROVE  DedupInv'
<1>1. CASE IsDuplicate(m, seqs) /\ Discard(m, seqs)
  BY <1>1, DiscardDedup
<1>2. CASE Finish(m, seqs)
  BY <1>2, FinishDedup
<1>3. CASE outcomes' = outcomes /\ lastSeqByDevice' = seqs
  BY <1>3, QuietDedup
<1> QED BY <1>1, <1>2, <1>3 DEF Gate, Report, Fork, Fail

\* Every step keeps the map and the discards explained.
LEMMA NextDedup ==
    ASSUME KeysDistinct, SeqsFromOne, TypeOK, DedupInv, [Next]_vars
    PROVE  DedupInv'
<1>1. DiscardsExplained /\ MapExplained(lastSeqByDevice) /\ IsMap(lastSeqByDevice, Key, Nat)
  BY DEF DedupInv, TypeOK, CacheTypeOK
<1>2. outcomes \in [Msg -> SUBSET Outcome]
  BY DEF TypeOK, TaskTypeOK
<1>3. CASE outcomes' = outcomes /\ lastSeqByDevice' = lastSeqByDevice
  BY <1>1, <1>3, QuietDedup
<1>4. ASSUME NEW m \in Msg, Start(m) PROVE DedupInv'
  BY <1>1, <1>3, <1>4, GateDedup DEF Start
<1>5. ASSUME NEW m \in Msg, SeqLoaded(m) PROVE DedupInv'
  <2> DEFINE row == StoredSeq[Identity(m)]
             v == IF row = None THEN 0 ELSE row
             seqs == Put(lastSeqByDevice, KeyFor(m), v)
  <2>1. HasSeq(m)
    BY <1>5 DEF SeqLoaded, TypeOK, TaskTypeOK
  <2>2. Identity(m) \in User \X Device /\ row \in Nat \union {None} /\ KeyFor(m) \in Key
    BY <2>1, WorkerAssumption DEF WorkerAssumption, HasSeq, Identity, KeyFor
  <2>3. v \in Nat /\ Superseded(Identity(m), v)
    BY <2>2 DEF Superseded
  <2> HIDE DEF v
  <2>4. IsMap(seqs, Key, Nat)
    BY <1>1, <2>2, <2>3, PutType
  <2>5. ASSUME NEW id \in User \X Device, KeyOf[id] \in DOMAIN seqs
        PROVE  Superseded(id, seqs[KeyOf[id]])
    <3>1. CASE KeyOf[id] = KeyFor(m)
      <4>1. id = Identity(m)
        BY <2>2, <3>1 DEF KeysDistinct, KeyFor
      <4>2. seqs[KeyOf[id]] = v
        BY <3>1 DEF Put
      <4> QED BY <2>3, <4>1, <4>2
    <3>2. CASE KeyOf[id] # KeyFor(m)
      <4>1. KeyOf[id] \in DOMAIN lastSeqByDevice /\ seqs[KeyOf[id]] = lastSeqByDevice[KeyOf[id]]
        BY <2>5, <3>2 DEF Put
      <4> QED BY <1>1, <4>1 DEF MapExplained
    <3> QED BY <3>1, <3>2
  <2>6. MapExplained(seqs)
    BY <2>5 DEF MapExplained
  <2>7. KeyFor(m) \in DOMAIN seqs
    BY DEF Put
  <2>8. Gate(m, seqs)
    BY <1>5 DEF SeqLoaded, v
  <2> HIDE DEF seqs
  <2> QED BY <1>1, <2>4, <2>6, <2>7, <2>8, GateDedup
<1>6. ASSUME NEW m \in Msg, HintLoaded(m) PROVE DedupInv'
  BY <1>1, <1>3, <1>6, FinishDedup DEF HintLoaded, Fork
<1>7. ASSUME NEW m \in Msg, Invalidated(m) PROVE DedupInv'
  BY <1>1, <1>7, FinishDedup DEF Invalidated
<1>8. ASSUME NEW m \in Msg, FkViolation(m) PROVE DedupInv'
  <2>1. /\ outcomes' = [outcomes EXCEPT ![m] = @ \union {"dropped"}]
        /\ lastSeqByDevice' = lastSeqByDevice
    BY <1>8 DEF FkViolation, DropStale, cacheVars
  <2>2. /\ \A x \in Msg : outcomes[x] \subseteq outcomes'[x]
        /\ \A x \in Msg : "duplicate" \in outcomes'[x] => "duplicate" \in outcomes[x]
    BY <1>2, <2>1
  <2> QED BY <1>1, <2>1, <2>2, QuietDedup
<1>9. CASE Crash \/ Close
  <2>1. outcomes' = outcomes /\ lastSeqByDevice' = EmptyMap
    BY <1>9 DEF Crash, Close, ProcessEnds
  <2>2. MapExplained(EmptyMap)
    BY DEF MapExplained, EmptyMap
  <2> QED BY <1>1, <2>1, <2>2, QuietDedup
<1>10. \/ outcomes' = outcomes /\ lastSeqByDevice' = lastSeqByDevice
       \/ \E m \in Msg : \/ Start(m) \/ SeqLoaded(m) \/ HintLoaded(m)
                         \/ Invalidated(m) \/ FkViolation(m)
       \/ Crash \/ Close
  BY DEF Next, TaskStep, Commit, Reply, DbFails, LostReply, Fail, Deliver, Settle, DeadLettered,
         Boot, Shutdown, Cancelled, AreaCreated, AreaDeleted, SnapshotRebuilt, vars, cacheVars
<1> QED BY <1>3, <1>4, <1>5, <1>6, <1>7, <1>8, <1>9, <1>10

\* isDuplicate: an event acked as a duplicate was superseded, in every run over
\* identities with distinct keys and numbers from 1; the DTO enforces neither.
THEOREM DiscardsAreJustified ==
    ASSUME KeysDistinct, SeqsFromOne
    PROVE  Spec => []DuplicateMeansSuperseded
<1>1. Init => DedupInv
  BY DEF Init, DedupInv, MapExplained, DiscardsExplained, EmptyMap
<1>2. TypeOK /\ DedupInv /\ [Next]_vars => DedupInv'
  BY NextDedup
<1>3. DedupInv => DuplicateMeansSuperseded
  BY DEF DedupInv, DiscardsExplained, Superseded, DuplicateMeansSuperseded, SeqsFromOne
<1> QED BY <1>1, <1>2, <1>3, TypeCorrect, PTL DEF Spec
=============================================================================
