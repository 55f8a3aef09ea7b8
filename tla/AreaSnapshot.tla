---------------------------- MODULE AreaSnapshot ----------------------------
(***************************************************************************)
(* AreaSnapshotService of one process and AreasService.create: the polygon  *)
(* index built from Postgres at boot, rebuilt when a poll sees another     *)
(* area_version or a create asks for it, one rebuild at a time.            *)
(*                                                                         *)
(* A rebuild job belongs to whoever enqueued it: the boot, a poll, or the  *)
(* create of an area.  Its queries are two steps with the database free to *)
(* change between them, and the swap of the reference is a third.          *)
(***************************************************************************)
EXTENDS SpatialIndex

CONSTANTS
    Local,      \* areas posted to this process
    Remote,     \* areas posted to other processes
    Boundary,   \* area -> the boundary in its request body
    Point,      \* the positions asked for
    Invalid,    \* the local ones ST_IsValid refuses
    Doomed,     \* areas an operator may delete from the table
    Poll,       \* polls that may overlap (setInterval does not wait)
    BootJob,    \* the rebuild of onApplicationBootstrap
    MaxFaults   \* bound on failed queries

ASSUME SnapshotAssumption ==
    /\ Local \intersect Remote = {}
    /\ Invalid \subseteq Local
    /\ (Local \union Remote) \intersect Poll = {}
    /\ BootJob \notin Local \union Remote \union Poll
    /\ MaxFaults \in Nat

VARIABLES
    born,       \* area -> the version its insert moved to, 0 if not inserted
    died,       \* area -> the version at its deletion, 0 if not deleted
    version,    \* area_version.version
    phase,      \* "boot" | "up" | "aborted" | "stopped"
    built,      \* whether there is a snapshot
    label,      \* snapshot.version
    index,      \* the areas of snapshot.index
    chain,      \* rebuildChain: the jobs enqueued, the head running
    step,       \* what the running job has done: "start" | "version" | "rows"
    jobLabel,   \* the version it read
    jobRows,    \* the rows it read
    poll,       \* poll -> "idle" | "asking" | "answered" | "rebuilding"
    seen,       \* poll -> the version it read
    create,     \* local area -> where its POST is
    faults

vars == <<born, died, version, phase, built, label, index, chain, step,
          jobLabel, jobRows, poll, seen, create, faults>>

Area == Local \union Remote
Job == Area \union Poll \union {BootJob}
gone == {a \in Area : died[a] # 0}
Stored == {a \in Area : born[a] # 0} \ gone

(***************************************************************************)
(* What the table and the index answer for the boundary of an area.        *)
(***************************************************************************)
Plane == {<<lng, lat>> : lng \in -LngRange..LngRange, lat \in -LatRange..LatRange}
Rings(a) == Boundary[a].coordinates
Storable == {a \in Area : ~GeoJsonPolygonFailure(Boundary[a])}
Asked == {<<a, p>> : a \in Storable, p \in Plane}
CoveredBy == {ap \in Asked : Covers(Rings(ap[1]), ap[2])}
IndexedBy == {ap \in Asked : Found(ToIndexedArea(AsGeoJson(Rings(ap[1]))), ap[2])}

FindCoveringAreaIds(p) == {a \in index : <<a, p>> \in IndexedBy}
FindCoveringAreaIdsViaPostgis(p) == {a \in Stored : <<a, p>> \in CoveredBy}

Init ==
    /\ born = [a \in Area |-> 0]
    /\ died = [a \in Area |-> 0]
    /\ version = 1
    /\ phase = "boot"
    /\ built = FALSE /\ label = 0 /\ index = {}
    /\ chain = <<BootJob>> /\ step = "start" /\ jobLabel = 0 /\ jobRows = {}
    /\ poll = [p \in Poll |-> "idle"]
    /\ seen = [p \in Poll |-> 0]
    /\ create = [a \in Local |-> "new"]
    /\ faults = 0

dbVars == <<born, died, version>>
snapVars == <<built, label, index>>
jobVars == <<chain, step, jobLabel, jobRows>>
pollVars == <<poll, seen>>

\* Mutant of Insert: the version is counted down.
InsertCountsDown(a) ==
    /\ version' = version - 1
    /\ born' = [born EXCEPT ![a] = version]
    /\ died' = died

\* The insert and the version bump commit together.
Insert(a) ==
    /\ version' = version + 1
    /\ born' = [born EXCEPT ![a] = version']
    /\ died' = died

\* enqueueRebuild: the job goes behind whatever is in the chain.
Enqueue(j) ==
    /\ chain' = Append(chain, j)
    /\ UNCHANGED <<step, jobLabel, jobRows>>

-----------------------------------------------------------------------------
(***************************************************************************)
(* rebuild, run by the job at the head of the chain.                       *)
(***************************************************************************)

ReadVersion ==
    /\ chain # <<>> /\ step = "start"
    /\ step' = "version"
    /\ jobLabel' = version
    /\ UNCHANGED <<dbVars, phase, snapVars, chain, jobRows, pollVars, create, faults>>

ReadRows ==
    /\ chain # <<>> /\ step = "version"
    /\ step' = "rows"
    /\ jobRows' = Stored
    /\ UNCHANGED <<dbVars, phase, snapVars, chain, jobLabel, pollVars, create, faults>>

\* The job leaves the chain and its owner goes on: a created area is answered,
\* a poll is over, the boot starts the timer or aborts.
JobEnds(ok) ==
    LET j == Head(chain) IN
    /\ chain' = Tail(chain)
    /\ step' = "start" /\ jobLabel' = 0 /\ jobRows' = {}
    /\ phase' = IF j # BootJob THEN phase ELSE IF ok THEN "up" ELSE "aborted"
    /\ poll' = [p \in Poll |-> IF p = j THEN "idle" ELSE poll[p]]
    /\ create' = [a \in Local |-> IF a # j THEN create[a]
                                  ELSE IF ok THEN "created" ELSE "error"]
    /\ UNCHANGED <<dbVars, seen>>

\* Mutant of Swap: the rows are added to the index in force.
SwapMerges ==
    /\ chain # <<>> /\ step = "rows"
    /\ built' = TRUE
    /\ label' = jobLabel
    /\ index' = index \union jobRows
    /\ JobEnds(TRUE)
    /\ faults' = faults

\* Mutant of Swap: the label is read last, after the rows.
SwapLabelsLast ==
    /\ chain # <<>> /\ step = "rows"
    /\ built' = TRUE
    /\ label' = version
    /\ index' = jobRows
    /\ JobEnds(TRUE)
    /\ faults' = faults

\* The single reference assignment.
Swap ==
    /\ chain # <<>> /\ step = "rows"
    /\ built' = TRUE
    /\ label' = jobLabel
    /\ index' = jobRows
    /\ JobEnds(TRUE)
    /\ faults' = faults

\* Mutant of RebuildFails: a failed rebuild discards the last good index.
RebuildFailsEmpty ==
    /\ chain # <<>> /\ step \in {"start", "version"}
    /\ faults < MaxFaults
    /\ faults' = faults + 1
    /\ JobEnds(FALSE)
    /\ index' = {}
    /\ UNCHANGED <<built, label>>

\* One of its queries fails; the snapshot stays as it was.
RebuildFails ==
    /\ chain # <<>> /\ step \in {"start", "version"}
    /\ faults < MaxFaults
    /\ faults' = faults + 1
    /\ JobEnds(FALSE)
    /\ UNCHANGED snapVars

-----------------------------------------------------------------------------
(***************************************************************************)
(* poll, fired by the interval timer.                                      *)
(***************************************************************************)
PollFires(p) ==
    /\ phase = "up"
    /\ poll[p] = "idle"
    /\ poll' = [poll EXCEPT ![p] = "asking"]
    /\ UNCHANGED <<dbVars, phase, snapVars, jobVars, seen, create, faults>>

PollReads(p) ==
    /\ poll[p] = "asking"
    /\ poll' = [poll EXCEPT ![p] = "answered"]
    /\ seen' = [seen EXCEPT ![p] = version]
    /\ UNCHANGED <<dbVars, phase, snapVars, jobVars, create, faults>>

\* Mutant of PollCompares: only the first snapshot is ever built.
PollComparesOnce(p) ==
    /\ poll[p] = "answered"
    /\ poll' = [poll EXCEPT ![p] = IF built THEN "idle" ELSE "rebuilding"]
    /\ IF built THEN UNCHANGED jobVars ELSE Enqueue(p)
    /\ UNCHANGED <<dbVars, phase, snapVars, seen, create, faults>>

\* The answer is compared with the snapshot of the moment it arrives.
PollCompares(p) ==
    /\ poll[p] = "answered"
    /\ \/ /\ built /\ seen[p] = label
          /\ poll' = [poll EXCEPT ![p] = "idle"]
          /\ UNCHANGED jobVars
       \/ /\ ~built \/ seen[p] # label
          /\ poll' = [poll EXCEPT ![p] = "rebuilding"]
          /\ Enqueue(p)
    /\ UNCHANGED <<dbVars, phase, snapVars, seen, create, faults>>

PollFails(p) ==
    /\ poll[p] = "asking"
    /\ faults < MaxFaults
    /\ faults' = faults + 1
    /\ poll' = [poll EXCEPT ![p] = "idle"]
    /\ UNCHANGED <<dbVars, phase, snapVars, jobVars, seen, create>>

-----------------------------------------------------------------------------
(***************************************************************************)
(* AreasService.create.                                                    *)
(***************************************************************************)
\* The validation pipe answers 400 to a boundary it refuses, and leaves no trace.
Post(a) ==
    /\ phase = "up"
    /\ create[a] = "new"
    /\ create' = [create EXCEPT ![a] = IF a \in Storable THEN "checking" ELSE @]
    /\ UNCHANGED <<dbVars, phase, snapVars, jobVars, pollVars, faults>>

\* ST_IsValid answers, or the geometry cannot be read at all: 500.
Checked(a) ==
    /\ create[a] = "checking"
    /\ create' = [create EXCEPT ![a] = IF GeomFromGeoJsonThrows(Boundary[a]) THEN "error"
                                       ELSE IF a \in Invalid THEN "refused" ELSE "saving"]
    /\ UNCHANGED <<dbVars, phase, snapVars, jobVars, pollVars, faults>>

\* The transaction commits.
Saved(a) ==
    /\ create[a] = "saving"
    /\ Insert(a)
    /\ create' = [create EXCEPT ![a] = "saved"]
    /\ UNCHANGED <<phase, snapVars, jobVars, pollVars, faults>>

\* Mutant of Refreshes: the response does not wait for the rebuild.
RefreshesLater(a) ==
    /\ create[a] = "saved"
    /\ create' = [create EXCEPT ![a] = "created"]
    /\ UNCHANGED <<dbVars, phase, snapVars, jobVars, pollVars, faults>>

\* The reply is here: refreshNow enqueues a rebuild and create awaits it.
Refreshes(a) ==
    /\ create[a] = "saved"
    /\ create' = [create EXCEPT ![a] = "refreshing"]
    /\ Enqueue(a)
    /\ UNCHANGED <<dbVars, phase, snapVars, pollVars, faults>>

\* The validity query or the transaction fails, nothing is stored.
CreateFails(a) ==
    /\ create[a] \in {"checking", "saving"}
    /\ faults < MaxFaults
    /\ faults' = faults + 1
    /\ create' = [create EXCEPT ![a] = "error"]
    /\ UNCHANGED <<dbVars, phase, snapVars, jobVars, pollVars>>

-----------------------------------------------------------------------------
\* Another process stores an area.
RemoteSaved(a) ==
    /\ born[a] = 0
    /\ Insert(a)
    /\ UNCHANGED <<phase, snapVars, jobVars, pollVars, create, faults>>

\* An operator deletes an area; nothing moves the version.
Deleted(a) ==
    /\ a \in Stored
    /\ died' = [died EXCEPT ![a] = version]
    /\ UNCHANGED <<born, version, phase, snapVars, jobVars, pollVars, create, faults>>

\* onModuleDestroy clears the timer; what is in flight goes on.
Destroyed ==
    /\ phase = "up"
    /\ phase' = "stopped"
    /\ UNCHANGED <<dbVars, snapVars, jobVars, pollVars, create, faults>>

Rebuild == ReadVersion \/ ReadRows \/ Swap
PollStep(p) == PollReads(p) \/ PollCompares(p)
CreateStep(a) == Checked(a) \/ Saved(a) \/ Refreshes(a)

Next ==
    \/ Rebuild \/ RebuildFails
    \/ \E p \in Poll : PollFires(p) \/ PollStep(p) \/ PollFails(p)
    \/ \E a \in Local : Post(a) \/ CreateStep(a) \/ CreateFails(a)
    \/ \E a \in Remote : RemoteSaved(a)
    \/ \E a \in Doomed : Deleted(a)
    \/ Destroyed

Spec == Init /\ [][Next]_vars

\* The database answers, the timer fires and the event loop runs; nobody has
\* to post, delete, fail or stop.
Fairness ==
    /\ WF_vars(Rebuild)
    /\ \A p \in Poll : WF_vars(PollFires(p)) /\ WF_vars(PollStep(p))
    /\ \A a \in Local : WF_vars(CreateStep(a))

FairSpec == Spec /\ Fairness

-----------------------------------------------------------------------------
(***************************************************************************)
(* Correctness properties.                                                 *)
(***************************************************************************)

\* Every variable stays within its type.
TypeOK ==
    /\ born \in [Area -> Nat]
    /\ died \in [Area -> Nat]
    /\ version \in Nat \ {0}
    /\ phase \in {"boot", "up", "aborted", "stopped"}
    /\ built \in BOOLEAN
    /\ label \in Nat
    /\ index \subseteq Area
    /\ chain \in Seq(Job)
    /\ step \in {"start", "version", "rows"}
    /\ jobLabel \in Nat
    /\ jobRows \subseteq Area
    /\ poll \in [Poll -> {"idle", "asking", "answered", "rebuilding"}]
    /\ seen \in [Poll -> Nat]
    /\ create \in [Local -> {"new", "checking", "refused", "saving", "saved",
                             "refreshing", "created", "error"}]
    /\ faults \in Nat

\* Version first, then rows: a snapshot labelled v holds every area inserted up
\* to v that has not been deleted, so a poll that sees the label misses nothing.
\* Deleting moves no version; a deleted area stays in the index only until the
\* next swap, so one that was deleted before v was reached is never in it.
IndexMatchesLabel ==
    built =>
      /\ \A a \in Area \ gone : (born[a] # 0 /\ born[a] <= label) => a \in index
      /\ \A a \in index \intersect gone : died[a] >= label

\* "areas the DTO has already guaranteed" (areas.service.ts): only a failing
\* database turns a POST /areas into an error, never its boundary.
ErrorMeansFault ==
    (\E a \in Local : create[a] = "error") => faults > 0

\* refreshNow: a POST /areas answered with success is in force in this process,
\* and no rebuild that started earlier takes it out again.
CreatedIsInForce ==
    \A a \in Local \ gone : create[a] = "created" => a \in index

\* A boundary without a tenth decimal comes back from ST_AsGeoJSON as it is,
\* any other one moves by no more than the rounding of a coordinate.
Exact == {a \in Storable : AsGeoJson(Rings(a)) = Rings(a)}

Near(a, p) ==
    LET reach == IF a \in Exact THEN 0 ELSE Grain \div 2 IN
    {<<a, q>> : q \in {q \in Plane : \A i \in 1..2 : q[i] - p[i] \in -reach..reach}}

Blurred ==
    {ap \in Asked : LET near == Near(ap[1], ap[2]) IN
        ~(near \subseteq CoveredBy) /\ near \intersect CoveredBy # {}}

\* The index's test of a boundary and ST_Covers differ by that rounding only.
BoundariesAgree ==
    \A a \in Storable, p \in Point :
      (<<a, p>> \in IndexedBy <=> <<a, p>> \in CoveredBy) \/ <<a, p>> \in Blurred

\* The in-memory answer is the one ST_Covers gives, edges, vertices and holes
\* included, up to that rounding: it holds every stored area the label promises
\* and, deleted ones apart, no other.
AnswersLikePostgis ==
    built => \A p \in Point :
        LET memory == FindCoveringAreaIds(p)
            postgis == FindCoveringAreaIdsViaPostgis(p) IN
        /\ \A a \in memory \ gone : a \in postgis \/ <<a, p>> \in Blurred
        /\ \A a \in postgis : born[a] > label \/ a \in memory \/ <<a, p>> \in Blurred

\* Serialized rebuilds: a slow older rebuild never replaces a newer snapshot.
SnapshotNeverOlder ==
    [][label' >= label /\ (index \ gone') \subseteq index']_vars

\* Polling: as long as the process runs, every stored area ends up in the index
\* and stays there, also one stored by another process and one whose create
\* failed after its commit.
CatchesUp ==
    <>[](phase = "up" => label = version /\ Stored \subseteq index)
=============================================================================
