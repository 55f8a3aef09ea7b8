-------------------------------- MODULE Fleet --------------------------------
(***************************************************************************)
(* The deployed system: the topology job, the API that publishes into the   *)
(* hash ring, and several workers, each with its own WORKER_PARTITIONS, on  *)
(* one database.  A worker process may die at any step; the transaction it  *)
(* leaves open is committed or rolled back by Postgres alone.  A partition  *)
(* may come back in another worker, which starts with empty memory.         *)
(*                                                                         *)
(* Module Worker has one process in full (dedup, retries, deleted areas,    *)
(* shutdown); here an event is <<user, number>> and moves its user to one   *)
(* set of areas.                                                           *)
(***************************************************************************)
EXTENDS Topology

CONSTANTS
    User,
    Areas,      \* user -> the areas each of its events is in, in order
    Prefer,     \* user -> all partitions, in the order its hash prefers them
    WorkerId,
    PartitionSpecs,      \* the WORKER_PARTITIONS values in use
    MaxCrashes, \* bound on worker processes that die
    Unknown     \* no entry in a memory

NoTxn == <<"none", 0>>

VARIABLES
    api,        \* whether the API has booted
    sent,       \* user -> events accepted so far
    early,      \* users with an event accepted before a job first succeeded
    queue,      \* partition -> its events, the delivered ones until their ack
    spec,       \* worker -> its WORKER_PARTITIONS, <<>> while it is down
    chain,      \* worker -> user -> the event numbers delivered and not acked
    task,       \* worker -> user -> where the head of the chain is
    memory,     \* worker -> user -> the areas it remembers
    txn,        \* user -> <<worker, event number>> of the lock's holder
    presence,   \* user -> its areas in Postgres
    crashes

fleetVars == <<api, sent, early, queue, spec, chain, task, memory, txn, presence, crashes>>
allVars == <<vars, fleetVars>>

-----------------------------------------------------------------------------
(***************************************************************************)
(* Configuration and routing.                                              *)
(***************************************************************************)

\* Mutant of ParsePartitionSpec: the end of a range is left out.
ParsePartitionSpecOpenEnd(s) ==
    UNION {IF Len(s[i]) = 1 THEN {s[i][1]} ELSE s[i][1]..(s[i][2] - 1) : i \in DOMAIN s}

\* A spec is a list of segments, <<p>> or <<from, to>>, both ends included.
ParsePartitionSpec(s) == UNION {s[i][1]..s[i][Len(s[i])] : i \in DOMAIN s}

\* A segment that ends before it starts, or is no number, aborts the boot.
SpecError(s) == \E i \in DOMAIN s : s[i] = <<>> \/ s[i][Len(s[i])] < s[i][1]

Owns(w) == ParsePartitionSpec(spec[w])
Up(w) == spec[w] # <<>>

\* x-consistent-hash: a partition added to the ring only takes users over.
Route(u) ==
    Prefer[u][CHOOSE i \in DOMAIN Prefer[u] :
        /\ Prefer[u][i] \in BoundPartitions
        /\ \A j \in 1..(i - 1) : Prefer[u][j] \notin BoundPartitions]

AllPartitions == UNION {0..(c - 1) : c \in Counts}

\* A hash ring has a place for every user, whichever partitions are bound.
ASSUME FleetAssumption ==
    \A u \in User : /\ Prefer[u] \in Seq(AllPartitions)
                     /\ AllPartitions \subseteq ToSet(Prefer[u])

Idle == [u \in User |-> "idle"]
NoChains == [u \in User |-> <<>>]
NoMemory == [u \in User |-> Unknown]
Held(e) == \E w \in WorkerId : e[2] \in ToSet(chain[w][e[1]])

FleetInit ==
    /\ Init
    /\ api = FALSE
    /\ sent = [u \in User |-> 0] /\ early = {}
    /\ queue = [p \in AllPartitions |-> <<>>]
    /\ spec = [w \in WorkerId |-> <<>>]
    /\ chain = [w \in WorkerId |-> NoChains]
    /\ task = [w \in WorkerId |-> Idle]
    /\ memory = [w \in WorkerId |-> NoMemory]
    /\ txn = [u \in User |-> NoTxn]
    /\ presence = [u \in User |-> {}]
    /\ crashes = 0

-----------------------------------------------------------------------------
(***************************************************************************)
(* The API.                                                                *)
(***************************************************************************)

\* connect checks the exchange, and nothing behind it.
ApiBoots ==
    /\ ~api
    /\ <<"loc.events", 0>> \in broker
    /\ api' = TRUE
    /\ UNCHANGED <<vars, sent, early, queue, spec, chain, task, memory, txn, presence, crashes>>

\* A publish: an event no queue is bound for is returned, then confirmed.
Publish(u) ==
    /\ api
    /\ sent[u] < Len(Areas[u])
    /\ sent' = [sent EXCEPT ![u] = @ + 1]
    /\ early' = IF settled = {} THEN early \union {u} ELSE early
    /\ queue' = IF BoundPartitions = {} THEN queue
                ELSE [queue EXCEPT ![Route(u)] = Append(@, <<u, sent'[u]>>)]
    /\ UNCHANGED <<vars, api, spec, chain, task, memory, txn, presence, crashes>>

-----------------------------------------------------------------------------
(***************************************************************************)
(* The workers.                                                            *)
(***************************************************************************)

\* Every partition of the spec has its queue, otherwise the boot aborts.  That no
\* two running workers share one is the deployment's promise (ADR 0016).
Boot(w, s) ==
    /\ ~Up(w)
    /\ ~SpecError(s) /\ ParsePartitionSpec(s) \subseteq Partitions
    /\ \A v \in WorkerId : Up(v) => Owns(v) \intersect ParsePartitionSpec(s) = {}
    /\ spec' = [spec EXCEPT ![w] = s]
    /\ UNCHANGED <<vars, api, sent, early, queue, chain, task, memory, txn, presence, crashes>>

\* The broker delivers the first event of a partition nobody holds; it joins its
\* user's chain.
Deliver(w, p) ==
    /\ Up(w) /\ p \in Owns(w)
    /\ \E i \in DOMAIN queue[p] :
         LET e == queue[p][i] IN
         /\ ~Held(e) /\ \A j \in 1..(i - 1) : Held(queue[p][j])
         /\ chain' = [chain EXCEPT ![w][e[1]] = Append(@, e[2])]
    /\ UNCHANGED <<vars, api, sent, early, queue, spec, task, memory, txn, presence, crashes>>

Current(w, u) == Areas[u][Head(chain[w][u])]

\* The hint comes from memory, or from Postgres without a lock and is remembered;
\* when it equals the areas of the event there is nothing to write.
ReadHint(w, u) ==
    /\ chain[w][u] # <<>> /\ task[w][u] = "idle"
    /\ memory' = [memory EXCEPT ![w][u] = IF @ = Unknown THEN presence[u] ELSE @]
    /\ task' = [task EXCEPT ![w][u] = IF memory'[w][u] = Current(w, u) THEN "done" ELSE "hinted"]
    /\ UNCHANGED <<vars, api, sent, early, queue, spec, chain, txn, presence, crashes>>

\* The transaction waits for the user's advisory lock.
Lock(w, u) ==
    /\ task[w][u] = "hinted"
    /\ txn[u] = NoTxn
    /\ txn' = [txn EXCEPT ![u] = <<w, Head(chain[w][u])>>]
    /\ task' = [task EXCEPT ![w][u] = "locked"]
    /\ UNCHANGED <<vars, api, sent, early, queue, spec, chain, memory, presence, crashes>>

\* It writes the difference to what it read under the lock and commits; memory
\* follows.
Commit(w, u) ==
    /\ task[w][u] = "locked"
    /\ presence' = [presence EXCEPT ![u] = Current(w, u)]
    /\ memory' = [memory EXCEPT ![w][u] = Current(w, u)]
    /\ txn' = [txn EXCEPT ![u] = NoTxn]
    /\ task' = [task EXCEPT ![w][u] = "done"]
    /\ UNCHANGED <<vars, api, sent, early, queue, spec, chain, crashes>>

\* The ack takes the event out of its partition; the chain goes on.
Ack(w, u) ==
    /\ task[w][u] = "done"
    /\ \E p \in AllPartitions : \E i \in DOMAIN queue[p] :
         /\ queue[p][i] = <<u, Head(chain[w][u])>>
         /\ queue' = [queue EXCEPT ![p] = RemoveAt(@, i)]
    /\ chain' = [chain EXCEPT ![w][u] = Tail(@)]
    /\ task' = [task EXCEPT ![w][u] = "idle"]
    /\ UNCHANGED <<vars, api, sent, early, spec, memory, txn, presence, crashes>>

\* Mutant of Forgotten: what a worker remembers survives its process.
ForgottenChains(w) ==
    /\ chain' = [chain EXCEPT ![w] = NoChains]
    /\ task' = [task EXCEPT ![w] = Idle]
    /\ memory' = memory

\* Chains and memory are fields of services of the process.
Forgotten(w) ==
    /\ chain' = [chain EXCEPT ![w] = NoChains]
    /\ task' = [task EXCEPT ![w] = Idle]
    /\ memory' = [memory EXCEPT ![w] = NoMemory]

\* A redeployment: the worker stops once its chains are drained.
Stop(w) ==
    /\ Up(w) /\ chain[w] = NoChains
    /\ spec' = [spec EXCEPT ![w] = <<>>]
    /\ Forgotten(w)
    /\ UNCHANGED <<vars, api, sent, early, queue, txn, presence, crashes>>

\* The process dies: what it held is delivered again, its transactions are left
\* to Postgres.
Crash(w) ==
    /\ Up(w)
    /\ crashes < MaxCrashes
    /\ crashes' = crashes + 1
    /\ spec' = [spec EXCEPT ![w] = <<>>]
    /\ Forgotten(w)
    /\ UNCHANGED <<vars, api, sent, early, queue, txn, presence>>

\* A COMMIT a dead worker had sent is carried out, or its transaction is rolled
\* back; either releases the lock.
OrphanEnds(u) ==
    /\ txn[u] # NoTxn
    /\ task[txn[u][1]][u] # "locked"
    /\ presence' \in {presence, [presence EXCEPT ![u] = Areas[u][txn[u][2]]]}
    /\ txn' = [txn EXCEPT ![u] = NoTxn]
    /\ UNCHANGED <<vars, api, sent, early, queue, spec, chain, task, memory, crashes>>

\* What the workers and Postgres do by themselves.
Progress ==
    \/ \E w \in WorkerId :
         \/ \E p \in AllPartitions : Deliver(w, p)
         \/ \E u \in User : ReadHint(w, u) \/ Lock(w, u) \/ Commit(w, u) \/ Ack(w, u)
    \/ \E u \in User : OrphanEnds(u)

FleetNext ==
    \/ Next /\ UNCHANGED fleetVars
    \/ ApiBoots
    \/ \E u \in User : Publish(u)
    \/ Progress
    \/ \E w \in WorkerId : Stop(w) \/ Crash(w) \/ \E s \in PartitionSpecs : Boot(w, s)

\* Event loops and Postgres go on; nobody has to deploy, publish, boot, stop or crash.
FleetSpec == FleetInit /\ [][FleetNext]_allVars /\ WF_allVars(Progress)

-----------------------------------------------------------------------------
(***************************************************************************)
(* Correctness properties.                                                 *)
(***************************************************************************)

\* Users routed by one hash ring only: all their events came after the first job
\* that succeeded, and every job could list the queues.
Steady == IF unlisted = 0 /\ settled # {} THEN User \ early ELSE {}

Queued(u) == \E p \in AllPartitions : \E i \in DOMAIN queue[p] : queue[p][i][1] = u

\* "same user, same partition, per-user order preserved" (README): once every
\* event of a user is acked, Postgres has the areas of the last one, whatever
\* jobs ran, whichever workers died halfway and took over.
LastEventWins ==
    \A u \in Steady : (sent[u] > 0 /\ ~Queued(u)) => presence[u] = Areas[u][sent[u]]

\* ADR 0018, memory trusts exclusive ownership: a running worker's memory of a
\* user with no event under way is what Postgres holds, also after the user's
\* partition went to another worker and came back.
MemoryIsCurrent ==
    \A w \in WorkerId, u \in Steady :
      (Up(w) /\ memory[w][u] # Unknown /\ ~Queued(u)) => memory[w][u] = presence[u]

\* "0-3" is an inclusive range: the events of every partition a running worker
\* was given are all acked in the end.
EveryPartitionDrained ==
    \A p \in AllPartitions :
      <>[](\E w \in WorkerId : \E i \in DOMAIN spec[w] :
             spec[w][i][1] <= p /\ p <= spec[w][i][Len(spec[w][i])])
      => <>[](queue[p] = <<>>)
=============================================================================
