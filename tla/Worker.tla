------------------------------- MODULE Worker -------------------------------
(***************************************************************************)
(* The worker process that owns one partition: WorkerConsumerService with  *)
(* the LocationsService.report it mounts and its PresenceMemoryService,    *)
(* between the partition queue (PartitionQueue) and Postgres (PresenceTable).*)
(*                                                                         *)
(* A message's task runs from one await to the next without interruption   *)
(* (Node's event loop), so an action is the code between two awaits:       *)
(*   queued  waiting for its predecessor in the user's chain               *)
(*   dedup   awaiting SELECT last_seq       (isDuplicate)                  *)
(*   hint    awaiting readPresenceUnlocked  (report, cold user)            *)
(*   txn     awaiting the transaction, nothing committed yet               *)
(*   reply   committed, COMMIT's reply on its way                          *)
(*   del     awaiting the DEL of the presence cache key                    *)
(* Counters and log lines have no reader in the worker and are left out;   *)
(* how a message was settled is kept in `outcomes` for the properties.     *)
(***************************************************************************)
EXTENDS PartitionQueue, PresenceTable

CONSTANTS
    None,
    UserOf,             \* message -> userId
    DeviceOf,           \* message -> deviceId, or None for a legacy event
    SeqNoOf,            \* message -> seq
    Device,
    Key,                \* the strings `${userId}:${deviceId}`
    KeyOf,              \* <<userId, deviceId>> -> that string
    StoredSeq,          \* <<userId, deviceId>> -> user_event_state.last_seq, or None
    Cover,              \* message -> areas whose polygon covers its position
    Malformed,          \* messages JSON.parse or the version check refuses
    Inaccurate,         \* messages over MAX_ACCURACY_METERS
    MaxCrashes,         \* bound on abrupt ends of the process
    MaxShutdowns,       \* bound on SIGTERMs
    MaxFaults,          \* bound on database errors before anything committed
    MaxLostReplies      \* bound on COMMITs whose reply is lost

ASSUME WorkerAssumption ==
    /\ None \notin Msg /\ None \notin Device /\ None \notin Nat
    /\ UserOf \in [Msg -> User]
    /\ DeviceOf \in [Msg -> Device \union {None}]
    /\ SeqNoOf \in [Msg -> Nat]
    /\ KeyOf \in [User \X Device -> Key]
    /\ StoredSeq \in [User \X Device -> Nat \union {None}]
    /\ Cover \in [Msg -> SUBSET Area]
    /\ Malformed \subseteq Msg /\ Inaccurate \subseteq Msg
    /\ MaxCrashes \in Nat /\ MaxShutdowns \in Nat
    /\ MaxFaults \in Nat /\ MaxLostReplies \in Nat

VARIABLES
    phase,          \* "down" | "up" | "cancelling" | "draining"
    awaited,        \* the chain tails onApplicationShutdown waits for
    pc,             \* message -> where its task is, "idle" if it has none
    after,          \* message -> the task it is chained behind, or None
    userChains,     \* user -> the task at the tail of its chain, or None
    cur,            \* message -> currentAreaIds of its report call
    lastSeqByDevice,\* the dedup Map, a partial function on Key
    memory,         \* PresenceMemoryService, a partial function on User
    snapshot,       \* the areas of the polygon index
    outcomes,       \* message -> the ways its tasks have been acked so far
    blind,          \* users with a lost COMMIT reply since the last boot
    crashes, shutdowns, faults, lost    \* what the bounds count

chainVars == <<pc, after, userChains, cur>>
cacheVars == <<lastSeqByDevice, memory, blind>>
processVars == <<phase, awaited, snapshot>>
boundVars == <<crashes, shutdowns, faults, lost>>
vars == <<queueVars, tableVars, processVars, chainVars, cacheVars, outcomes, boundVars>>

Busy == {"dedup", "hint", "txn", "reply", "del"}
Outcome == {"processed", "duplicate", "dropped"}
Stamp == Msg \X Nat
Row == [user : User, area : Area, stamp : Stamp]

\* The map f with key k set to v, as Map.set leaves it.
Put(f, k, v) == [x \in DOMAIN f \union {k} |-> IF x = k THEN v ELSE f[x]]
EmptyMap == [x \in {} |-> {}]

Init ==
    /\ QueueInit
    /\ TablesInit
    /\ phase = "down"
    /\ awaited = {}
    /\ pc = [m \in Msg |-> "idle"]
    /\ after = [m \in Msg |-> None]
    /\ userChains = [u \in User |-> None]
    /\ cur = [m \in Msg |-> {}]
    /\ lastSeqByDevice = EmptyMap
    /\ memory = EmptyMap
    /\ snapshot = {}
    /\ outcomes = [m \in Msg |-> {}]
    /\ blind = {}
    /\ crashes = 0 /\ shutdowns = 0 /\ faults = 0 /\ lost = 0

-----------------------------------------------------------------------------
(***************************************************************************)
(* The end of a task.                                                      *)
(***************************************************************************)

\* Mutant of TaskEnds: the cleanup deletes the chain's entry without comparing.
TaskEndsAnyTail(m, type) ==
    /\ wire' = Append(wire, [type |-> type, msg |-> m])
    /\ pc' = [pc EXCEPT ![m] = "idle"]
    /\ cur' = [cur EXCEPT ![m] = {}]
    /\ after' = [x \in Msg |-> IF after[x] = m THEN None ELSE after[x]]
    /\ userChains' = [userChains EXCEPT ![UserOf[m]] = None]

\* The task settles its own delivery and its promise resolves: the task
\* chained behind it may run, and the chain's map entry goes if it is still
\* this tail.
TaskEnds(m, type) ==
    /\ wire' = Append(wire, [type |-> type, msg |-> m])
    /\ pc' = [pc EXCEPT ![m] = "idle"]
    /\ cur' = [cur EXCEPT ![m] = {}]
    /\ after' = [x \in Msg |-> IF after[x] = m THEN None ELSE after[x]]
    /\ userChains' = [userChains EXCEPT ![UserOf[m]] = IF @ = m THEN None ELSE @]

HasSeq(m) == DeviceOf[m] # None
Identity(m) == <<UserOf[m], DeviceOf[m]>>
KeyFor(m) == KeyOf[Identity(m)]

\* Mutants of Remember: the parts of the key are swapped; it is never updated.
RememberSwapped(m, seqs) ==
    IF HasSeq(m) THEN Put(seqs, <<DeviceOf[m], UserOf[m]>>, SeqNoOf[m]) ELSE seqs
RememberNothing(m, seqs) == seqs

\* rememberSeq on the dedup map `seqs`.
Remember(m, seqs) ==
    IF ~HasSeq(m) THEN seqs
    ELSE LET known == IF KeyFor(m) \in DOMAIN seqs THEN seqs[KeyFor(m)] ELSE 0
         IN IF SeqNoOf[m] > known THEN Put(seqs, KeyFor(m), SeqNoOf[m]) ELSE seqs

\* report() returned: remember the seq, count, ack.
Finish(m, seqs) ==
    /\ lastSeqByDevice' = Remember(m, seqs)
    /\ outcomes' = [outcomes EXCEPT ![m] = @ \union {"processed"}]
    /\ TaskEnds(m, "ack")

\* Mutant of Discard: the early return forgets the ack.
DiscardUnsettled(m, seqs) ==
    /\ lastSeqByDevice' = seqs
    /\ outcomes' = [outcomes EXCEPT ![m] = @ \union {"duplicate"}]
    /\ pc' = [pc EXCEPT ![m] = "idle"]
    /\ cur' = [cur EXCEPT ![m] = {}]
    /\ after' = [x \in Msg |-> IF after[x] = m THEN None ELSE after[x]]
    /\ userChains' = [userChains EXCEPT ![UserOf[m]] = IF @ = m THEN None ELSE @]
    /\ wire' = wire

\* The gate found a duplicate: ack and nothing else.
Discard(m, seqs) ==
    /\ lastSeqByDevice' = seqs
    /\ outcomes' = [outcomes EXCEPT ![m] = @ \union {"duplicate"}]
    /\ TaskEnds(m, "ack")

\* An exception that is not the stale-area one: nack with requeue.
Fail(m) ==
    /\ outcomes' = outcomes
    /\ TaskEnds(m, "nack")

\* The stale-area exception: count and ack, the seq is not remembered.
DropStale(m) ==
    /\ outcomes' = [outcomes EXCEPT ![m] = @ \union {"dropped"}]
    /\ TaskEnds(m, "ack")

-----------------------------------------------------------------------------
(***************************************************************************)
(* processEvent and report, from await to await.                           *)
(***************************************************************************)

\* The fork of report: no apparent change ends the call without a
\* transaction, anything else opens one.
Fork(m, current, hint, seqs) ==
    \/ /\ ~Differs(current, hint)
       /\ Finish(m, seqs)
    \/ /\ Differs(current, hint)
       /\ pc' = [pc EXCEPT ![m] = "txn"]
       /\ cur' = [cur EXCEPT ![m] = current]
       /\ lastSeqByDevice' = seqs
       /\ UNCHANGED <<wire, after, userChains, outcomes>>

\* report up to its first await: the accuracy gate, the areas of the snapshot
\* that cover the position, and the hint if the user is in memory.
Report(m, seqs) ==
    LET current == Cover[m] \intersect snapshot IN
    \/ /\ m \in Inaccurate
       /\ Fail(m)
       /\ lastSeqByDevice' = seqs
    \/ /\ m \notin Inaccurate
       /\ UserOf[m] \notin DOMAIN memory
       /\ pc' = [pc EXCEPT ![m] = "hint"]
       /\ cur' = [cur EXCEPT ![m] = current]
       /\ lastSeqByDevice' = seqs
       /\ UNCHANGED <<wire, after, userChains, outcomes>>
    \/ /\ m \notin Inaccurate
       /\ UserOf[m] \in DOMAIN memory
       /\ Fork(m, current, memory[UserOf[m]], seqs)

\* isDuplicate's comparison, once the map holds the key.
IsDuplicate(m, seqs) == HasSeq(m) /\ SeqNoOf[m] <= seqs[KeyFor(m)]

\* Mutant of Gate: the seq is remembered before the work succeeds.
GateRemembersFirst(m, seqs) ==
    \/ IsDuplicate(m, seqs) /\ Discard(m, seqs)
    \/ ~IsDuplicate(m, seqs) /\ Report(m, Remember(m, seqs))

Gate(m, seqs) ==
    \/ IsDuplicate(m, seqs) /\ Discard(m, seqs)
    \/ ~IsDuplicate(m, seqs) /\ Report(m, seqs)

\* What a step of one task leaves alone on the other side of its connections.
taskFrame == <<arrival, ready, returns, unacked, returned, acked, dead,
               areaState, processVars>>

\* The task's turn has come.  A seq-bearing event whose key is not in the map
\* has to ask the database first.
Start(m) ==
    /\ pc[m] = "queued"
    /\ after[m] = None
    /\ \/ /\ HasSeq(m) /\ KeyFor(m) \notin DOMAIN lastSeqByDevice
          /\ pc' = [pc EXCEPT ![m] = "dedup"]
          /\ UNCHANGED <<wire, after, userChains, cur, lastSeqByDevice, outcomes>>
       \/ /\ HasSeq(m) => KeyFor(m) \in DOMAIN lastSeqByDevice
          /\ Gate(m, lastSeqByDevice)
    /\ UNCHANGED <<taskFrame, presence, logs, memory, blind, boundVars>>

\* The row of user_event_state arrives; no row reads as 0.
SeqLoaded(m) ==
    /\ pc[m] = "dedup"
    /\ LET row == StoredSeq[Identity(m)]
       IN Gate(m, Put(lastSeqByDevice, KeyFor(m), IF row = None THEN 0 ELSE row))
    /\ UNCHANGED <<taskFrame, presence, logs, memory, blind, boundVars>>

\* The presence rows of a cold user arrive and seed the memory.
HintLoaded(m) ==
    /\ pc[m] = "hint"
    /\ memory' = Put(memory, UserOf[m], presence[UserOf[m]])
    /\ Fork(m, cur[m], presence[UserOf[m]], lastSeqByDevice)
    /\ UNCHANGED <<taskFrame, presence, logs, blind, boundVars>>

\* Postgres commits the transaction.
Commit(m) ==
    /\ pc[m] = "txn"
    /\ ForeignKeysHold(UserOf[m], cur[m])
    /\ Transition(UserOf[m], cur[m], <<m, returned[m]>>)
    /\ pc' = [pc EXCEPT ![m] = "reply"]
    /\ UNCHANGED <<queueVars, processVars, after, userChains, cur, cacheVars,
                   outcomes, boundVars>>

\* Mutant of FkViolation: memory takes the areas that are left.
FkViolationRemembers(m) ==
    /\ pc[m] = "txn"
    /\ ~ForeignKeysHold(UserOf[m], cur[m])
    /\ DropStale(m)
    /\ memory' = Put(memory, UserOf[m], cur[m] \intersect Live)
    /\ UNCHANGED <<taskFrame, presence, logs, lastSeqByDevice, blind, boundVars>>

\* An entered area is gone: the insert violates its foreign key, the
\* transaction rolls back and the event is dropped.
FkViolation(m) ==
    /\ pc[m] = "txn"
    /\ ~ForeignKeysHold(UserOf[m], cur[m])
    /\ DropStale(m)
    /\ UNCHANGED <<taskFrame, presence, logs, cacheVars, boundVars>>

\* Mutant of DbFails: the error is swallowed and the event acked as processed.
DbFailsSwallowed(m) ==
    /\ pc[m] \in {"dedup", "hint", "txn"}
    /\ faults < MaxFaults
    /\ faults' = faults + 1
    /\ Finish(m, lastSeqByDevice)
    /\ UNCHANGED <<taskFrame, presence, logs, memory, blind, crashes, shutdowns, lost>>

\* A database error (timeout, pool exhausted, connection refused) before
\* anything committed.
DbFails(m) ==
    /\ pc[m] \in {"dedup", "hint", "txn"}
    /\ faults < MaxFaults
    /\ faults' = faults + 1
    /\ Fail(m)
    /\ UNCHANGED <<taskFrame, presence, logs, cacheVars, crashes, shutdowns, lost>>

\* Mutant of Reply: the post-commit set is missing.
ReplyNotRemembered(m) ==
    /\ pc[m] = "reply"
    /\ pc' = [pc EXCEPT ![m] = "del"]
    /\ UNCHANGED <<queueVars, tableVars, processVars, after, userChains, cur,
                   cacheVars, outcomes, boundVars>>

\* COMMIT's reply: the memory takes the post-commit state at once.
Reply(m) ==
    /\ pc[m] = "reply"
    /\ memory' = Put(memory, UserOf[m], cur[m])
    /\ pc' = [pc EXCEPT ![m] = "del"]
    /\ UNCHANGED <<queueVars, tableVars, processVars, after, userChains, cur,
                   lastSeqByDevice, blind, outcomes, boundVars>>

\* The connection breaks between COMMIT and its reply: the driver throws.
LostReply(m) ==
    /\ pc[m] = "reply"
    /\ lost < MaxLostReplies
    /\ lost' = lost + 1
    /\ blind' = blind \union {UserOf[m]}
    /\ Fail(m)
    /\ UNCHANGED <<taskFrame, presence, logs, lastSeqByDevice, memory,
                   crashes, shutdowns, faults>>

\* The DEL answered or failed; invalidate() never throws.
Invalidated(m) ==
    /\ pc[m] = "del"
    /\ Finish(m, lastSeqByDevice)
    /\ UNCHANGED <<taskFrame, presence, logs, memory, blind, boundVars>>

-----------------------------------------------------------------------------
(***************************************************************************)
(* Deliveries and the life of the process.                                 *)
(***************************************************************************)

\* Mutants of Deliver: every task starts at once; a malformed message is
\* logged and never settled.
DeliverUnchained(m) ==
    /\ phase \in {"up", "cancelling"}
    /\ Push(m)
    /\ pc' = [pc EXCEPT ![m] = "queued"]
    /\ userChains' = [userChains EXCEPT ![UserOf[m]] = m]
    /\ UNCHANGED <<wire, after, cur, tableVars, processVars, cacheVars, outcomes, boundVars>>

DeliverForgetsMalformed(m) ==
    /\ phase \in {"up", "cancelling"}
    /\ Push(m)
    /\ IF m \in Malformed
       THEN UNCHANGED <<pc, after, userChains>>
       ELSE /\ pc' = [pc EXCEPT ![m] = "queued"]
            /\ after' = [after EXCEPT ![m] = userChains[UserOf[m]]]
            /\ userChains' = [userChains EXCEPT ![UserOf[m]] = m]
    /\ UNCHANGED <<wire, cur, tableVars, processVars, cacheVars, outcomes, boundVars>>

\* handle: refuse what cannot be parsed, chain the rest behind the user's tail.
Deliver(m) ==
    /\ phase \in {"up", "cancelling"}
    /\ Push(m)
    /\ \/ /\ m \in Malformed
          /\ wire' = Append(wire, [type |-> "nack", msg |-> m])
          /\ UNCHANGED <<pc, after, userChains>>
       \/ /\ m \notin Malformed
          /\ pc' = [pc EXCEPT ![m] = "queued"]
          /\ after' = [after EXCEPT ![m] = userChains[UserOf[m]]]
          /\ userChains' = [userChains EXCEPT ![UserOf[m]] = m]
          /\ wire' = wire
    /\ UNCHANGED <<cur, tableVars, processVars, cacheVars, outcomes, boundVars>>

\* onApplicationBootstrap: the first snapshot build, then connect and consume.
Boot ==
    /\ phase = "down"
    /\ phase' = "up"
    /\ snapshot' = Live
    /\ UNCHANGED <<queueVars, tableVars, awaited, chainVars, cacheVars, outcomes, boundVars>>

\* Everything the process holds in memory is gone.
ProcessEnds ==
    /\ phase' = "down"
    /\ awaited' = {}
    /\ snapshot' = {}
    /\ pc' = [m \in Msg |-> "idle"]
    /\ after' = [m \in Msg |-> None]
    /\ userChains' = [u \in User |-> None]
    /\ cur' = [m \in Msg |-> {}]
    /\ lastSeqByDevice' = EmptyMap
    /\ memory' = EmptyMap
    /\ blind' = {}

\* The process dies, or exits because the AMQP connection closed under it.
Crash ==
    /\ phase # "down"
    /\ crashes < MaxCrashes
    /\ crashes' = crashes + 1
    /\ ConnectionLost
    /\ ProcessEnds
    /\ UNCHANGED <<tableVars, outcomes, shutdowns, faults, lost>>

\* onApplicationShutdown begins: basic.cancel is sent, deliveries go on until
\* the broker answers.
Shutdown ==
    /\ phase = "up"
    /\ shutdowns < MaxShutdowns
    /\ shutdowns' = shutdowns + 1
    /\ phase' = "cancelling"
    /\ UNCHANGED <<queueVars, tableVars, awaited, snapshot, chainVars, cacheVars,
                   outcomes, crashes, faults, lost>>

\* Mutant of Cancelled: the chains are not awaited.
CancelledUndrained ==
    /\ phase = "cancelling"
    /\ phase' = "draining"
    /\ UNCHANGED <<queueVars, tableVars, awaited, snapshot, chainVars, cacheVars,
                   outcomes, boundVars>>

\* cancel-ok: no more deliveries; allSettled takes the tails of the moment.
Cancelled ==
    /\ phase = "cancelling"
    /\ phase' = "draining"
    /\ awaited' = {userChains[u] : u \in User} \ {None}
    /\ UNCHANGED <<queueVars, tableVars, snapshot, chainVars, cacheVars,
                   outcomes, boundVars>>

\* Every awaited tail has settled: channel.close, whose close frame follows
\* the acks, then connection.close and the end of the process.
Close ==
    /\ phase = "draining"
    /\ \A m \in awaited : pc[m] = "idle"
    /\ wire = <<>>
    /\ ConnectionLost
    /\ ProcessEnds
    /\ UNCHANGED <<tableVars, outcomes, boundVars>>

\* The broker's own steps.
Settle ==
    /\ ReadFrame
    /\ UNCHANGED <<tableVars, processVars, chainVars, cacheVars, outcomes, boundVars>>

DeadLettered ==
    /\ DeadLetter
    /\ UNCHANGED <<tableVars, processVars, chainVars, cacheVars, outcomes, boundVars>>

\* The area set changes under the worker; its snapshot follows by polling.
AreaCreated(a) ==
    /\ CreateArea(a)
    /\ UNCHANGED <<queueVars, processVars, chainVars, cacheVars, outcomes, boundVars>>

AreaDeleted(a) ==
    /\ DeleteArea(a)
    /\ UNCHANGED <<queueVars, processVars, chainVars, cacheVars, outcomes, boundVars>>

SnapshotRebuilt ==
    /\ phase # "down"
    /\ snapshot # Live
    /\ snapshot' = Live
    /\ UNCHANGED <<queueVars, tableVars, phase, awaited, chainVars, cacheVars,
                   outcomes, boundVars>>

TaskStep(m) ==
    \/ Start(m) \/ SeqLoaded(m) \/ HintLoaded(m) \/ Commit(m) \/ FkViolation(m)
    \/ Reply(m) \/ Invalidated(m)

Next ==
    \/ \E m \in Msg : Deliver(m) \/ TaskStep(m) \/ DbFails(m) \/ LostReply(m)
    \/ Settle \/ DeadLettered
    \/ Boot \/ Crash \/ Shutdown \/ Cancelled \/ Close
    \/ \E a \in Area : AreaCreated(a) \/ AreaDeleted(a)
    \/ SnapshotRebuilt

Spec == Init /\ [][Next]_vars

\* The broker and the database answer, the event loop runs every task that
\* can run and the supervisor restarts the process; errors, crashes and
\* changes of the area set need never happen.
Fairness ==
    /\ WF_vars(\E m \in Msg : Deliver(m))
    /\ \A m \in Msg : WF_vars(TaskStep(m))
    /\ WF_vars(Settle) /\ WF_vars(DeadLettered)
    /\ WF_vars(Boot) /\ WF_vars(Cancelled) /\ WF_vars(Close)

FairSpec == Spec /\ Fairness

-----------------------------------------------------------------------------
(***************************************************************************)
(* Correctness properties.                                                 *)
(***************************************************************************)

\* f is a partial function from D to S.
IsMap(f, D, S) == DOMAIN f \subseteq D /\ f \in [DOMAIN f -> S]

TableTypeOK ==
    /\ areaState \in [Area -> {"future", "live", "gone"}]
    /\ presence \in [User -> SUBSET Area]
    /\ logs \subseteq Row
ProcessTypeOK ==
    /\ phase \in {"down", "up", "cancelling", "draining"}
    /\ awaited \subseteq Msg
    /\ snapshot \subseteq Area
TaskTypeOK ==
    /\ pc \in [Msg -> {"idle", "queued"} \union Busy]
    /\ \A m \in Msg : pc[m] = "dedup" => HasSeq(m)
    /\ after \in [Msg -> Msg \union {None}]
    /\ userChains \in [User -> Msg \union {None}]
    /\ cur \in [Msg -> SUBSET Area]
    /\ outcomes \in [Msg -> SUBSET Outcome]
CacheTypeOK ==
    /\ IsMap(lastSeqByDevice, Key, Nat)
    /\ IsMap(memory, User, SUBSET Area)
    /\ blind \subseteq User
BoundTypeOK ==
    crashes \in Nat /\ shutdowns \in Nat /\ faults \in Nat /\ lost \in Nat

\* Every variable stays within its type; in particular the dedup map is keyed
\* by the rendered (user, device) keys and the memory by users.
TypeOK ==
    QueueTypeOK /\ TableTypeOK /\ ProcessTypeOK /\ TaskTypeOK /\ CacheTypeOK /\ BoundTypeOK

Tasks == {m \in Msg : pc[m] # "idle"}
Framed == {wire[i].msg : i \in DOMAIN wire}

\* enqueue: a user's messages are processed strictly one after the other, in
\* delivery order.  While a delivery is being processed, every earlier
\* outstanding delivery of its user has finished.
SameUserSerial ==
    \A x, y \in Msg :
      (UserOf[x] = UserOf[y] /\ Precedes(x, y) /\ pc[y] \in Busy) => pc[x] = "idle"

\* processEvent: a delivery is settled once, by its own task.  The outstanding
\* deliveries are the ones that still have a task and the ones with a frame on
\* the wire, never both and never two frames: acking a tag twice, or one the
\* channel does not know, would close the channel.
EveryDeliveryOwned ==
    /\ ToSet(unacked) = Tasks \union Framed
    /\ Tasks \intersect Framed = {}
    /\ \A i, j \in DOMAIN wire : wire[i].msg = wire[j].msg => i = j

\* Of two tasks of a user the later one waits.
LaterWaits ==
    \A x, y \in Tasks : (UserOf[x] = UserOf[y] /\ Precedes(x, y)) => after[y] # None
\* A task waits only for the task of its user right before it.
WaitsForPrevious ==
    \A y \in Msg : after[y] # None =>
      /\ pc[y] = "queued"
      /\ after[y] \in Tasks
      /\ UserOf[after[y]] = UserOf[y]
      /\ Precedes(after[y], y)
      /\ \A x \in Tasks : (UserOf[x] = UserOf[y] /\ Precedes(x, y) /\ x # after[y])
                          => Precedes(x, after[y])
\* userChains holds the last task of a user that has one, and nothing else.
TailIsLast ==
    /\ \A u \in User : userChains[u] # None =>
         /\ userChains[u] \in Tasks
         /\ UserOf[userChains[u]] = u
         /\ \A x \in Tasks : (UserOf[x] = u /\ x # userChains[u]) => Precedes(x, userChains[u])
    /\ \A x \in Tasks : userChains[UserOf[x]] # None

\* enqueue: the shape of the per-user chains, from which SameUserSerial follows.
\* However deliveries and completions interleave, a user's tasks form one chain
\* in delivery order and userChains knows its end.
ChainOrder == LaterWaits /\ WaitsForPrevious /\ TailIsLast

\* PresenceMemoryService: what the worker remembers of a user is what Postgres
\* holds, whatever is committed, rolled back, dropped or deleted meanwhile,
\* except between a COMMIT and its reply and once a reply has been lost.
MemoryTracksPresence ==
    \A u \in DOMAIN memory :
      (/\ u \notin blind
       /\ \A m \in Msg : UserOf[m] = u => pc[m] # "reply")
      => memory[u] \intersect Live = presence[u]

\* isDuplicate: an event acked as a duplicate was superseded.  An event of the
\* same user and device with at least its seq was processed, or the table
\* already held such a seq.
DuplicateMeansSuperseded ==
    \A m \in Msg : "duplicate" \in outcomes[m] =>
      \/ /\ StoredSeq[Identity(m)] # None
         /\ StoredSeq[Identity(m)] >= SeqNoOf[m]
      \/ \E x \in Msg : /\ "processed" \in outcomes[x]
                        /\ Identity(x) = Identity(m)
                        /\ SeqNoOf[x] >= SeqNoOf[m]

\* Ack after commit: when an event is gone from the queue as processed, every
\* lasting area it lies in has an entry row of its user, whatever crashed.
LoggedBeforeAcked ==
    \A m \in acked : "processed" \in outcomes[m] =>
      \A a \in (Cover[m] \intersect InitialAreas) \ Doomed :
        \E r \in logs : r.user = UserOf[m] /\ r.area = a

\* onApplicationShutdown: when the process closes the channel by itself, no
\* task is cut short and nothing delivered goes back to the queue.
CleanClose ==
    [][Close => (\A m \in Msg : pc[m] = "idle") /\ unacked = <<>>]_vars

\* The reference: the position of arrival number i in its user's stream.
Before(i) ==
    LET earlier == {k \in 1..(i - 1) : UserOf[arrival[k]] = UserOf[arrival[i]]}
    IN IF earlier = {} THEN {}
       ELSE Cover[arrival[CHOOSE k \in earlier : \A x \in earlier : x <= k]]

Visits(u, a) ==
    {i \in DOMAIN arrival : UserOf[arrival[i]] = u /\ a \in Cover[arrival[i]] \ Before(i)}

Rows(u, a) == {r \in logs : r.user = u /\ r.area = a}

Quiescent == \A i \in DOMAIN arrival : arrival[i] \in acked

\* The transition model over the whole pipeline: once everything is acked, a
\* user has one entry row per visit, a visit being an arrival inside an area
\* whose predecessor in the user's stream was outside.
OneRowPerVisit ==
    Quiescent => \A u \in User, a \in Area : Cardinality(Rows(u, a)) = Cardinality(Visits(u, a))

\* Once everything is acked, a user is where its last event put it.
FinalPresence ==
    Quiescent =>
      \A i \in DOMAIN arrival :
        (\A k \in DOMAIN arrival : UserOf[arrival[k]] = UserOf[arrival[i]] => k <= i)
        => presence[UserOf[arrival[i]]] = Cover[arrival[i]] \intersect Live

\* The stale-area branch loses an event, never a position: an event that enters
\* a live and a deleted area is rolled back and acked as a whole, and the user's
\* next event that is processed, and never dropped or discarded, puts it into
\* every lasting area it is in and no other, as long as deliveries keep their
\* order (no nack of a database error, one crash).
DropHeals ==
    \A u \in User :
      LET mine == {i \in DOMAIN arrival : UserOf[arrival[i]] = u /\ arrival[i] \notin Malformed}
          last == arrival[CHOOSE i \in mine : \A k \in mine : k <= i] IN
      (/\ \A i \in mine : arrival[i] \in acked
       /\ mine # {} /\ outcomes[last] = {"processed"}
       /\ faults + lost = 0 /\ crashes <= 1)
      => /\ Cover[last] \intersect InitialAreas \intersect Live \subseteq presence[u]
         /\ presence[u] \subseteq Cover[last]

\* Without a nack or a crash nothing is delivered twice and graceful restarts do
\* not show: one row per visit at any prefetch.
OneRowUnlessRedelivered == (crashes + faults + lost = 0) => OneRowPerVisit

\* Every event carries a seq, and a user reports from one device.
OneCounterPerUser ==
    \A m, x \in Msg : HasSeq(m) /\ (UserOf[m] = UserOf[x] => DeviceOf[m] = DeviceOf[x])

\* The last position wins at any prefetch through one crash, as long as nothing
\* is nacked; and when something is, as long as one counter numbers the user's
\* events and the dedup map that discards the late redelivery survives.  (A second
\* crash during the redelivery after the first may put an older event behind a
\* newer one, and the seq of one device says nothing of another's.)
LastPositionWins ==
    (\/ faults + lost = 0 /\ crashes <= 1
     \/ OneCounterPerUser /\ crashes + shutdowns + lost = 0) => FinalPresence

\* Every message of the partition is eventually acked or dead-lettered.
EverythingSettles ==
    \A m \in Msg : (m \in ToSet(arrival)) ~> (m \in acked \union dead)

\* The worker's writes, seen as the abstract entry log: rows appear only with
\* the presence transition they record, and each attempt writes at most once.
Log == INSTANCE EntryLog WITH Stamp <- Msg \X (0..DeliveryLimit)
ImplementsEntryLog == Log!Spec
=============================================================================
