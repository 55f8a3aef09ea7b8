# Geofence location: TLA+ models and proofs

The service logs when a user enters an area. A phone posts positions to an API,
which publishes them to RabbitMQ partitions by user; one worker per partition
compares each position with an in-memory index of areas and with the user's
last presence, and writes presence and entry rows to Postgres. This directory
holds the models of that pipeline, the TLC configurations that check them and
the theorems TLAPS proves about all of its parts.

## 1. Inventory

| Part (source under `src/src`) | State it keeps | Operations | Meets |
| --- | --- | --- | --- |
| Ingest, publisher (`locations/location-ingest.service.ts`, `mq/mq-publisher.service.ts`) | connection, confirm channel, reconnect timer and attempt count, pending confirms | accept, publish, confirm / timeout, close event, reconnect, shutdown | HTTP clients, the broker |
| Queue topology (`infra/rabbitmq/declare-topology.sh`) | exchanges, queues, bindings, policy in the broker; per partition the messages and their delivery counts | list, guard, declare; deliver under prefetch, ack, nack, redeliver, dead-letter | publisher, worker |
| Exception filter (`common/filters/all-exceptions.filter.ts`) | none | catch: from an exception to a status, words, Retry-After | every HTTP handler |
| Worker consumer (`worker/worker-consumer.service.ts`) | `userChains`, `lastSeqByDevice`, in-flight tasks | handle, enqueue, processEvent, isDuplicate, rememberSeq, drain on shutdown, exit on connection loss | queue, transition path |
| Transition path (`locations/locations.service.ts`) | tables `user_area_presence`, `logs`, `user_event_state` | report: gate, cover, hint, fork, transaction, invalidate | Postgres, Redis, area snapshot |
| Presence memory / cache / metrics (`presence/`) | user -> areas map; Redis keys with TTL; three counters | get, set; get, populate, invalidate; record | transition path |
| Area snapshot, area creation (`areas/`) | index and its version label, `rebuildChain`, tables `areas`, `area_version` | boot build, poll, rebuild, create + refreshNow | Postgres, transition path |
| Spatial index, GeoJSON validation (`areas/spatial-index.ts`, `areas/dto/`) | a box and a polygon per area | validate, load, findCoveringAreaIds | area snapshot, PostGIS |
| Entry log pages (`logs/`) | keyset cursor held by the client | list | `logs` while workers insert |
| Configuration (`config/`) | constants read at boot | parsePartitionSpec, defaults and checks | every process |
| Health, bootstrap, load harness | none or wiring | - | - |

What is hard here: promise chains per user inside one process (interleaving at
every `await`), at-least-once delivery with prefetch above 1 (redelivery out of
order), a crash between COMMIT and ack, three caches of presence with three
staleness rules, rebuilds that overlap with the inserts they read, confirms that
race their timeout, partitions that change owner while a dead process still
holds a transaction. `PROJECT.json` lists the hazards with their lines and the
properties that would catch each.

## 2. Modules

| Module | Models |
| --- | --- |
| `PartitionQueue` | the broker's side of one partition: arrival, prefetch, returns, delivery limit, dead-lettering, connection loss |
| `PresenceTable` | areas, presence, logs; `differs`; the body of the transition transaction |
| `EntryLog` | the abstract specification: a row appears exactly with the outside-to-inside step it records |
| `Worker` | the worker process between the two modules above (it EXTENDS both) |
| `ParkedReport` | `report` as an API process runs it: any number of overlapping calls, Redis cache, in-transaction dedup, metrics |
| `SpatialIndex` | boundaries: what the DTO refuses, the box and the exact test of the index, ST_Covers |
| `AreaSnapshot` | snapshot, polls, serialized rebuilds, area creation, other processes (EXTENDS `SpatialIndex`) |
| `ErrorContract` | the exception filter as an operator |
| `Publisher` | the DTO of POST /locations, ingest and publisher with the broker's confirms (EXTENDS `ErrorContract`) |
| `Topology` | the declaration job, run again and again with other counts, failing anywhere |
| `Fleet` | the deployed system: the job (EXTENDS `Topology`), the API, several workers with their partition lists, one database |
| `LogsPage` | the keyset walk with concurrent inserts, filters and page sizes changing |
| `MC...` | small instances; the constants are in the `.cfg` files |
| `SequenceLemmas` | facts about sequences (removal, concatenation, positions), and that a set of naturals has a least element |
| `WorkerProofs` | theorems on the worker: types, seriality, ownership, chains, drain; memory, ack after commit, entry log, dedup |
| `WorkerOrderProofs` | theorems on what a user's events add up to (it EXTENDS `WorkerProofs`): order of deliveries, last position, one row per visit |
| `SnapshotProofs`, `PublisherProofs`, `FleetProofs`, `ParkedProofs`, `LogsPageProofs` | the theorems of those components (`FleetProofs` also those of `Topology`) |

**Worker.** A task runs without interruption from one `await` to the next, so an
action is the code between two awaits and `pc[m]` names the await task `m` is in
(the module's header lists them). `Deliver` is `handle` with `enqueue`; `Start`,
`SeqLoaded`, `HintLoaded`, `Commit`, `Reply`, `Invalidated` are `processEvent` with
`report`; `TaskEnds` is the settling of the promise, with the chain's cleanup.
`Shutdown`, `Cancelled`, `Close` are the three stages of `onApplicationShutdown`.
Messages are model values; what is told apart is their user, device, seq, the
areas that cover them, and whether they are unreadable or too inaccurate.

**ParkedReport.** The calls share Redis and Postgres and nothing else, so it does
not matter in which process each runs. The advisory lock is explicit: `Locks`
takes it and reads, `CommitChange` writes from what was read. A resent event is
a call of its own with the same identity and seq. A Redis command that fails has
only timed out for its caller (`commandTimeout`): a SET stays in `late` and `LateSet`
may carry it out at any later time, also behind another process's DEL. A DEL that
is carried out late does what `Expire` does, a GET nothing.

**AreaSnapshot.** A rebuild is three steps (`ReadVersion`, `ReadRows`, `Swap`), a
poll three (`PollFires`, `PollReads`, `PollCompares`), a create four. Jobs wait in
`chain`, the code's `rebuildChain`. `Boundary` gives every area the body of its
request. Coordinates are integers on a small grid: one unit is the finest step a
client can write, `Grain` units the ninth decimal, to which ST_AsGeoJSON rounds
what the index is built from. turf and ST_Covers are one operator, `Covers`
(boundary inside, holes by parity); what `AnswersLikePostgis` tests is everything
the code puts around it: the box, the outer ring, the rounding, the label.

**Publisher.** `socket`, `channel`, `timers` and `dialing` are the connection as the
process and the broker see it; a request is `Accept` of one of the bodies (body
limit, the DTO's rules, accuracy gate, the event that is stamped and published), then a race between `ConfirmArrives` and `TimesOut`. The
answer is `Accepted` or `Catch` of the exception the code throws.

**Topology.** `Begin` is the guard on what `Listing` found, then each `req` of the
script is a `Request` or a `RequestFails`. The script looks at the status of its
declarations and not at that of the listing, so a failed listing counts no queue.

**Fleet.** `Boot` takes one of the `PartitionSpecs` (a list of segments, as
`parsePartitionSpec` reads them), `Publish` routes by the ring as it is at that
moment, and an event passes `Deliver`, `ReadHint`, `Lock`, `Commit`, `Ack`. `Crash`
forgets chains and memory but leaves the open transaction to `OrphanEnds`, which
commits or rolls it back at any later time. The worker of `Fleet` is the one of
`Worker` reduced to that path: dedup by seq, nacks and deleted areas stay there.
Prefetch is not bounded in it, which admits every order a bound would.

**LogsPage.** Rows carry recorded_at, id, user and area; every request of a walk has
a query of its own; `Encoded` is the cursor's round trip.

## 3. Runs

| Run | Properties | Instance |
| --- | --- | --- |
| `worker_faults` | TypeOK, SameUserSerial, EveryDeliveryOwned, ChainOrder, DuplicateMeansSuperseded, LoggedBeforeAcked, OneRowUnlessRedelivered, LastPositionWins, ImplementsEntryLog | four messages of two users, prefetch 3; one crash, one database error, one graceful restart |
| `worker_areas` | MemoryTracksPresence, DropHeals, CleanClose, EverythingSettles (fair) | unreadable and inaccurate messages, three areas, one created and one deleted on the way, a crash, a shutdown, delivery limit 1 |
| `worker_prefetch1` | OneRowPerVisit, FinalPresence | prefetch 1, a client without seq, two crashes, a database error, a lost COMMIT reply |
| `snapshot` | TypeOK, IndexMatchesLabel, ErrorMeansFault, CreatedIsInForce, AnswersLikePostgis, SnapshotNeverOlder, CatchesUp (fair) | two overlapping polls; a local area with a hole that touches its edge, an invalid one and eight malformed bodies, a remote one with a boundary finer than nine decimals; 20 points, a delete, one failed query |
| `publisher` | AnswerMatchesQueue, QueuedIsUsable, OneReconnect, EveryPublishAnswered, PublishableAgain (fair) | two requests with any of 13 bodies; two lost connections, two refusals, one channel error |
| `logs_walk` | NoRowTwice, NothingMissed | eight rows, five queries, pages of one and two |
| `parked` | OneRowPerEvent, SuppressionExplained, SeqNeverBack, CommitIsExact, ImplementsEntryLog | five calls of one user in any order, two failures (Redis commands, database errors, lost replies) |
| `fleet` | RoutingStable, SuccessMeansComplete, DeadLettersKept, LastEventWins, MemoryIsCurrent, EveryPartitionDrained (fair) | three jobs with count 1 or 2, a failed request, a failed listing; two workers, each with a partition or one with both, one of which may die; a user who enters and leaves |
| `worker_seq_zero` | DuplicateMeansSuperseded is violated | a device that counts from 0 |
| `worker_crash_rows` | OneRowPerVisit is violated | prefetch 3, one crash |
| `publisher_channel` | AlwaysPublishableAgain is violated | the broker closes the channel alone |
| `topology_rerun` | RefusesOnlyAnotherCount is violated | one count, a job that fails after its first partition queue |

The violated properties state what a comment or a document of the repository
says; `PROJECT.json` quotes each line under "findings".

**Bounds.** Crashes, shutdowns, errors, lost replies, Redis failures, dropped
connections and refusals are counted and capped by the `Max...` constants. One of
each suffices for the interleavings the properties are about: a fault at any
await of a task, with the other tasks at any of theirs. (`LastPositionWins` and
`DropHeals` speak of at most one crash: section 5.) An in-out-in walk is the
shortest stream in which a replay can add or lose a visit; four calls are the
fewest in which a stale key hides an entry (enter, populate, leave, enter), and
the fifth is refused by the gate. Two failures let the GET and the DEL of
one call fail. `reconnectAttempt` is capped where only the
backoff's own cap would show. Counts 1 and 2 let a job meet fewer, as many and
more queues than it asks for; two workers and one crash are what a takeover
during a transaction takes, a third process adds another owner and no other
step. The polygon grid has points on, inside and outside every edge, vertex and
hole of its areas.

**Fairness.** Weak fairness on what the event loop, the broker, Postgres and the
process supervisor do by themselves: a task that can run, a delivery, a frame
being read, a reply, a timer, the restart. Nobody has to crash, fail, post,
delete or shut down. Reconnects are fair in `Connected`: once the bounded
refusals are used up, the broker answers. In `Fleet` one weak fairness condition
covers all of `Progress` (workers and Postgres): in these bounds a step of it is
enabled until everything is drained, so none can be put off for ever, and an
orphaned transaction ends as Postgres' idle and statement timeouts make it.

## 4. Proofs

TLAPS proves, for any values of the constants that satisfy the modules' ASSUMEs
(any messages, users, devices, areas, workers, partitions, calls, rows and
request bodies; any prefetch, delivery limit and fault bounds):

| Theorem | States |
| --- | --- |
| `WorkerProofs!TypeCorrect` | `Spec => []TypeOK` |
| `WorkerProofs!SerialPerUser` | `Spec => []SameUserSerial` |
| `WorkerProofs!SettledOnce` | `Spec => []EveryDeliveryOwned` |
| `WorkerProofs!ChainsInOrder` | `Spec => []ChainOrder` |
| `WorkerProofs!DrainIsComplete` | `Spec => CleanClose`, an action property |
| `WorkerProofs!MemoryAgrees` | `Spec => []MemoryTracksPresence` |
| `WorkerProofs!NothingAckedUnlogged` | `Spec => []LoggedBeforeAcked` |
| `WorkerProofs!WorkerImplementsEntryLog` | `Spec => ImplementsEntryLog`, the refinement |
| `WorkerProofs!DiscardsAreJustified` | `Spec => []DuplicateMeansSuperseded`, given `KeysDistinct` and `SeqsFromOne` |
| `WorkerOrderProofs!DropsHeal` | `Spec => []DropHeals` |
| `WorkerOrderProofs!LastWins` | `Spec => []LastPositionWins`, given `SteadyAreas` and `SeqsInOrder` |
| `WorkerOrderProofs!OneRowEachDelivery` | `Spec => []OneRowUnlessRedelivered`, given `AllUsable`, `SteadyAreas` and `SeqsInOrder` |
| `WorkerOrderProofs!OneRowEach` | `Spec => []OneRowPerVisit`, given the same and `Prefetch = 1` |
| `WorkerOrderProofs!LastPositionStays` | `Spec => []FinalPresence`, given the same and `Prefetch = 1` |
| `SnapshotProofs!TypeCorrect` | `Spec => []TypeOK` |
| `SnapshotProofs!LabelIsTrue` | `Spec => []IndexMatchesLabel` |
| `SnapshotProofs!CreatedStaysInForce` | `Spec => []CreatedIsInForce` |
| `SnapshotProofs!NeverOlder` | `Spec => SnapshotNeverOlder`, an action property |
| `SnapshotProofs!BodiesCauseNoError` | `Spec => []ErrorMeansFault` |
| `SnapshotProofs!AgreesWithPostgis` | `Spec => []AnswersLikePostgis`, given `BoundariesAgree` |
| `PublisherProofs!AnswerIsTrue` | `Spec => []AnswerMatchesQueue` |
| `PublisherProofs!QueueIsUsable` | `Spec => []QueuedIsUsable` |
| `PublisherProofs!OneWayBack` | `Spec => []OneReconnect` |
| `FleetProofs!RingIsImmutable` | `FleetSpec => []RoutingStable` |
| `FleetProofs!SuccessIsComplete` | `FleetSpec => []SuccessMeansComplete` |
| `FleetProofs!DeadLettersHaveAPlace` | `FleetSpec => []DeadLettersKept` |
| `FleetProofs!LastWins` | `FleetSpec => []LastEventWins` |
| `FleetProofs!MemoryStaysCurrent` | `FleetSpec => []MemoryIsCurrent` |
| `ParkedProofs!EventLoggedOnce` | `Spec => []OneRowPerEvent` |
| `ParkedProofs!CacheIsExplained` | `Spec => []SuppressionExplained` |
| `ParkedProofs!SeqOnlyGrows` | `Spec => SeqNeverBack`, an action property |
| `ParkedProofs!CommitsAreExact` | `Spec => CommitIsExact`, an action property |
| `ParkedProofs!ReportImplementsEntryLog` | `Spec => ImplementsEntryLog`, the refinement |
| `LogsPageProofs!WalkNeverRepeats` | `Spec => []NoRowTwice` |
| `LogsPageProofs!WalkMissesNothing` | `Spec => []NothingMissed` |

**The worker.** *Seriality.* `SameUserSerial` is not inductive: whether a task may
run depends on `after`, and what `after` holds depends on `userChains`. `SerialInv`
therefore adds that a message is in one place of the queue (`InOnePlace`, so that
`Precedes` is an order on deliveries), that outstanding deliveries are exactly
the ones with a task or a frame (`EveryDeliveryOwned`), and the shape of the
chains (`ChainOrder`: of two tasks of a user the later one waits, for the one
right before it, and `userChains` holds the last). *Drain.* `DrainInv`: every chain
that is left is one of the tails collected at cancel-ok; with `ChainOrder`, all
tails done means all tasks done. *Memory.* `MemoryInv` adds what a commit
leaves: between COMMIT and its reply the presence rows are the task's `cur` less
deleted areas (`CommittedState`), rows refer to live areas (`RowsRefer`), and no
area is in a row, a snapshot or a task before it exists (`NothingUnborn`). That no
second task of the user commits meanwhile follows from `ChainOrder` (`OneRunner`).
*Ack after commit.* `LoggedInv`: everything that claims a user is in a lasting area
(presence row, memory, committed task, processed event) has a row behind it.
*Entry log.* A step of `EntryLog` writes rows with a stamp that no row has yet.
The stamp is the message with its delivery attempt, so `StampInv` says that an
attempt with rows is spent: it has committed or it is settled, and is not in
the queue. *Dedup.* `DedupInv`: each value of the map has a processed event or a
stored row behind it.

**The worker, over time.** The properties of a whole history need to know in
which order a user's events are done. *Order.* `OrderInv`: every message of the
partition is in one place (ready, returned, out, acked, dead), and at prefetch 1,
or with one crash and no nack, the lists of the broker and the frames on the wire hold a user's
events in the order of arrival. The single crash matters: what it returns is
delivered before what is ready, and a second one during the redelivery would put
earlier events behind later ones that still wait to come back.
*Positions.* `CurFits`: a report past its gates holds the areas of its own position.
`OutcomesExplained`: an acked event was processed, dropped or discarded, and with
`SeqsInOrder` the dedup map claims nothing that is not done. Where nacks break the
order, `LateDiscarded` takes its place: the map covers every numbered event that is
done, so that no report gets past the gate behind a later one. `PlaceInv` then says
that the table holds the position of the user's latest event that is done, or of a
later one under way, or that this event was dropped or discarded; `DropsHeal` and
`LastWins` read it off when all is acked. *Visits.* `VisitInv`: for each user there is
an arrival `k` such that table (`UpTo`) and log (`RowsUpTo`) hold what the events up to
`k` make of them, all of these being done except perhaps `k` itself. That one
exception is what a crash, an error or a lost reply at prefetch 1 leaves behind: the
transaction of event `k` committed and its ack lost. The event comes back as the first
one pending, finds itself in the table and adds nothing. Rows and visits are
then matched one to one, which gives the equality of the two cardinalities.

**Snapshot.** `SnapshotInv` says what the rebuild at the head of `rebuildChain`
holds between its steps: it has read a version no older than the label in force,
its rows have every area up to that version, every area of the index it will
replace and, if a POST asked for it, the area of that POST. This is where the
order in the code matters: version before rows, and one rebuild at a time.

**Publisher.** `PublisherInv`: what the broker has of an event is the message `accept`
made of an admitted body, an ack means stored (given bindings), and a request
not yet answered has no answer. `OneReconnect` is inductive given the types.

**Fleet.** `TopologyInv`: the requests a job has left are the tail of its list and the
answered ones are in force (`JobInv`), partitions appear from 0 up and each queue
before its binding (`OrderInv`), and with every listing seen no job can go beyond
the settled ones (`ListedInv`). On it rests, for each user whose events all went to
a settled ring, `UserInv(u, a)` with `a` the number of events acked: events
`a+1..sent` wait in one partition in order (`QueueInv`), its owner holds the first of
them (`ChainInv`), Postgres has event `a` or already `a+1` (`PresenceInv`: an open
transaction, orphaned or not, is for `a+1` or changes nothing), and the owner's
memory agrees with Postgres unless its task is on the way to the lock (`MemoryInv`).
`OwnerInv` is the exclusive ownership that makes "its owner" one process.

**Parked path.** `LockInv`: under the advisory lock, what was read is what the table
holds, less deleted areas. `LogInv`: a row's event is covered by the dedup row, so a
resent one is refused. `CacheInv`: while the calls of a user follow one another,
every DEL arrives and no change overtakes a late SET, neither the cached value nor
one on its way there (the populate of a miss, still awaited or late) hides an area.

**Pages.** `PageInv`: returned rows lie at or above the cursor (`ReturnedAbove`), and
what the cursor has passed was returned (`PassedReturned`). That a page is a prefix of
the rows past the cursor is shown by counting, for each row, the rows above it:
the library's induction theorems are not available to the provers.

**Hypotheses.** What the code does not enforce for every value of the constants is
stated in the theorems that need it and not assumed by the modules. The
instances of the passing runs satisfy the hypotheses of every theorem about a property they check.

- `KeysDistinct` (no id with a colon) and `SeqsFromOne`: the DTO admits `seq` 0
  (`@Min(0)`), and the run `worker_seq_zero` shows that without the second
  `DuplicateMeansSuperseded` fails.
- `SeqsInOrder` adds that the numbers of one device go up in the order of arrival and
  start above the stored one. A device that counts back has its events discarded by
  design, and a discarded event moves nobody. Events without a number are allowed.
- `SteadyAreas`: no area is created or deleted. Otherwise the reference itself moves: an
  area that appears between two events is a visit or not depending on when the
  process learns of it, and the event that meets a deleted one is dropped. What holds
  then is `DropsHeal`, which has no hypothesis.
- `AllUsable`: every event is readable and accurate enough. Ingest lets nothing else into
  a queue (`PublisherProofs!QueueIsUsable`, and the accuracy gate of `Accept`); an
  event refused by the worker counts as an arrival in `Visits` and moves nobody.
- `Prefetch = 1`: the run `worker_crash_rows` shows that at a larger prefetch one crash adds
  rows. The deployment's value is a setting, so the theorems say which one gives which promise.
- `BoundariesAgree`: for each single boundary the box and the exact test of the index
  answer as ST_Covers up to the rounding. This is plane geometry with divisions,
  out of the provers' reach; the run `snapshot`, which assumes nothing of the kind,
  checks it on its areas, and the theorem carries it from single boundaries to
  the process at every moment.

**Only model-checked.** Liveness, for fairness is out of the prover's reach:
`EverythingSettles`, `EveryPartitionDrained`, `CatchesUp`, `EveryPublishAnswered`,
`PublishableAgain`. And the geometry of a single boundary. Every other property
of the passing runs is the subject of a theorem.

## 5. Assumptions and what is left out

- The broker notices a closed socket and requeues before the next boot consumes;
  a transaction of a dead process is resolved by then. Quorum queues return
  requeued messages in delivery order, behind what is already out.
- A connection lost during the drain is a crash at that moment.
- The database pool stays open during the worker's drain (the order of Nest's
  shutdown hooks).
- In the worker, counters and the DEL of the cache key have no reader and appear only as an await.
- The worker never writes `user_event_state` (its `report` call passes no device),
  so `StoredSeq` is a constant there.
- Ids contain no colon in the runs, so that `KeyOf` is injective. With one, two
  identities share a dedup key and one user's event can discard another's.
- One topology job runs at a time, and nobody deletes queues.
- No two running workers own one partition: ADR 0016 leaves that to the
  deployment, and nothing in the code checks it.
- In `Worker`, `Cover` is given. In `SpatialIndex`, arithmetic is exact: the
  floating-point error of turf and of PostGIS is below the model. Boundaries that
  are no arrays at all are refused by the code before anything else and left out.
- `DateString` stands for dates Postgres takes. @IsDateString also admits ones no
  calendar has, which Postgres refuses: the event is then retried and
  dead-lettered, and GET /logs answers 500.
- Of the body of POST /areas the boundary is modelled. A name with a NUL character
  passes the DTO and Postgres refuses it, which is a 500.
- A `connect()` that fails after its socket is open leaves the socket behind;
  `Publisher` counts only the connection the service holds.
- Not modelled: log lines, Swagger, the response envelope (layout), health and
  metrics endpoints (they only read), the wiring of Nest modules, the settings
  other than the partition list (constants checked once at boot, among them the
  order of the three Postgres timeouts), `GET /areas` (one query, offset paging),
  and `scripts/measure-presence.mjs`, a measuring client. The rest of the
  repository is configuration, types and documentation.

A comment in `logs.service.ts` (lines 25-27) says that new rows land ahead of a walk.
They need not, for recorded_at is the time of acceptance: rows of a backlog appear
in the part still to be walked. The walk is right all the same, which is what
`NoRowTwice` and `NothingMissed` show with rows inserted anywhere.

The comment of `PresenceCacheService` (lines 22-23) names a failed DEL and the read-aside race as
the origins of a stale key. There are two more, a lost COMMIT reply and a late SET,
which need neither; `SuppressionExplained` lists all four and shows that there is no fifth.

Limits the properties state as exceptions, in the code's own terms: a lost COMMIT
reply leaves the memory behind the table (`blind` in `MemoryTracksPresence`); a
nacked event that comes back behind its successor is applied when it has no seq
or when a restart emptied the map, or when the user reports from two devices, for
the seq of one says nothing of the other's (`OneCounterPerUser` in `LastPositionWins`);
an event that meets a deleted area, or is discarded as a duplicate, leaves the user
where it was until the next one (`DropHeals` speaks of a last event that was processed
and never dropped or discarded); a second crash during the
redelivery after a first one puts messages behind others that still wait to come
back, so that an older event may be applied last (`LastPositionWins` and
`DropHeals`, which speak of at most one crash); a publish answered 503
by the timeout may be stored (`AnswerMatchesQueue` speaks of 202 and 4xx only); a
DEL that fails hides later entries until the TTL, also when the GET of its call
failed and the code counts it as harmless, and so does a SET that timed out for its
caller and is carried out behind a later DEL (`SuppressionExplained`); a topology job
that could not list the queues may add partitions to the ring (`RoutingStable`);
a boundary with more than nine decimals is indexed rounded, so that points within
half a unit of the ninth decimal may be answered differently (`AnswersLikePostgis`);
an event published between the declaration of the exchange and the end of the
first job is confirmed and may be dropped, or overtaken (`early` in `LastEventWins`).

## 6. Plan

1. Done: queue, worker, tables, entry log, parked path, snapshot with validation and
   spatial index, publisher with its DTO, pages with filters, topology job, exception
   filter, and the composition of job, API and workers; the theorems of section 4.
2. Done: the theorems of the worker that relate arrival to effect (`WorkerOrderProofs`).
3. Left: `FinalPresence` with areas that come and go, which needs a reference that
   knows what each snapshot knew; the worker's dedup and nacks in `Fleet`, so that the
   theorems of `WorkerOrderProofs` speak of several workers; liveness, once a prover for it
   is at hand.
