--------------------------- MODULE SnapshotProofs ---------------------------
(***************************************************************************)
(* Theorems about AreaSnapshot, for any areas, boundaries, polls and bound *)
(* on failures.  What makes the label of a snapshot trustworthy is what    *)
(* the running rebuild has read so far against what Postgres did in        *)
(* between: JobInv.  The rest ties a POST to the row it has stored.        *)
(***************************************************************************)
EXTENDS AreaSnapshot, SequenceTheorems, TLAPS

-----------------------------------------------------------------------------
(***************************************************************************)
(* The inductive invariant.                                                *)
(***************************************************************************)

\* Versions seen anywhere have been reached, and a deletion follows its insert.
VersionsReached ==
    /\ label <= version
    /\ \A a \in Area : born[a] <= version
    /\ \A a \in Area : died[a] # 0 => born[a] # 0

\* Whatever was read from the table has been inserted.
RowsWereStored ==
    /\ \A a \in index : born[a] # 0
    /\ \A a \in jobRows : born[a] # 0

\* A POST that has not reached its transaction has stored nothing; one that
\* waits for its rebuild has.
CreateInv ==
    /\ \A a \in Local : create[a] \in {"new", "checking", "refused", "saving"} => born[a] = 0
    /\ \A a \in Local : create[a] \in {"saved", "refreshing"} => born[a] # 0
    /\ \A a \in Local : create[a] = "checking" => a \in Storable
    /\ \A i \in DOMAIN chain : chain[i] \in Local => born[chain[i]] # 0

\* Only the head of the chain runs.  The running rebuild is at least as new as the
\* snapshot in force; its rows hold every area up to the version it read,
\* every area of the index it replaces, and the area whose POST asked for it.
JobInv ==
    /\ chain = <<>> => step = "start"
    /\ step # "start" => label <= jobLabel /\ jobLabel <= version
    /\ step = "rows" =>
         /\ \A a \in Area \ gone : (born[a] # 0 /\ born[a] <= jobLabel) => a \in jobRows
         /\ \A a \in jobRows \intersect gone : died[a] >= jobLabel
         /\ index \ gone \subseteq jobRows
         /\ Head(chain) \in Local => Head(chain) \in jobRows \union gone

SnapshotInv ==
    /\ VersionsReached /\ RowsWereStored /\ CreateInv /\ JobInv
    /\ IndexMatchesLabel /\ CreatedIsInForce

-----------------------------------------------------------------------------
(***************************************************************************)
(* Types.                                                                  *)
(***************************************************************************)

\* The jobs: areas created here, polls and the boot.
LEMMA LocalsAreAreas == Local \subseteq Area /\ Area \subseteq Job /\ Poll \subseteq Job /\ BootJob \in Job
BY DEF Area, Job

\* The first state is well typed.
LEMMA InitType == Init => TypeOK
<1> SUFFICES ASSUME Init PROVE TypeOK
  OBVIOUS
<1>1. chain \in Seq(Job)
  BY LocalsAreAreas DEF Init
<1>2. built \in BOOLEAN
  BY DEF Init
<1>3. /\ poll \in [Poll -> {"idle", "asking", "answered", "rebuilding"}]
      /\ create \in [Local -> {"new", "checking", "refused", "saving", "saved",
                               "refreshing", "created", "error"}]
  BY DEF Init
<1>4. /\ born \in [Area -> Nat] /\ died \in [Area -> Nat] /\ seen \in [Poll -> Nat]
      /\ version \in Nat \ {0} /\ label \in Nat /\ jobLabel \in Nat /\ faults \in Nat
      /\ index \subseteq Area /\ jobRows \subseteq Area
      /\ phase \in {"boot", "up", "aborted", "stopped"}
      /\ step \in {"start", "version", "rows"}
  BY DEF Init
<1> QED BY <1>1, <1>2, <1>3, <1>4 DEF TypeOK

\* What the end of a job leaves well typed.
LEMMA JobEndsType ==
    ASSUME TypeOK, chain # <<>>, JobEnds(TRUE) \/ JobEnds(FALSE)
    PROVE  /\ chain' \in Seq(Job) /\ step' = "start" /\ jobLabel' = 0 /\ jobRows' = {}
           /\ phase' \in {"boot", "up", "aborted", "stopped"}
           /\ poll' \in [Poll -> {"idle", "asking", "answered", "rebuilding"}]
           /\ create' \in [Local -> {"new", "checking", "refused", "saving", "saved",
                                     "refreshing", "created", "error"}]
           /\ born' = born /\ died' = died /\ version' = version /\ seen' = seen
<1>1. CASE JobEnds(TRUE)
  BY <1>1, HeadTailProperties DEF TypeOK, JobEnds, dbVars
<1>2. CASE JobEnds(FALSE)
  BY <1>2, HeadTailProperties DEF TypeOK, JobEnds, dbVars
<1> QED BY <1>1, <1>2

\* The insert of a new area is well typed.
LEMMA InsertType ==
    ASSUME TypeOK, NEW a \in Area, Insert(a)
    PROVE  /\ born' \in [Area -> Nat] /\ died' = died
           /\ version' \in Nat \ {0} /\ version' = version + 1
           /\ born'[a] = version + 1
           /\ \A b \in Area : b # a => born'[b] = born[b]
BY DEF TypeOK, Insert

\* Queueing a rebuild is well typed.
LEMMA EnqueueType ==
    ASSUME TypeOK, NEW j \in Job, Enqueue(j)
    PROVE  chain' \in Seq(Job) /\ UNCHANGED <<step, jobLabel, jobRows>>
BY AppendProperties DEF TypeOK, Enqueue

\* Every step keeps the types.
LEMMA NextType == TypeOK /\ [Next]_vars => TypeOK'
<1> SUFFICES ASSUME TypeOK, [Next]_vars PROVE TypeOK'
  OBVIOUS
<1> USE LocalsAreAreas, SnapshotAssumption DEF SnapshotAssumption
<1>1. CASE ReadVersion
  BY <1>1 DEF ReadVersion, TypeOK, dbVars, snapVars, pollVars
<1>2. CASE ReadRows
  BY <1>2 DEF ReadRows, TypeOK, dbVars, snapVars, pollVars, Stored, gone
<1>3. CASE Swap
  <2>1. JobEnds(TRUE) /\ chain # <<>>
    BY <1>3 DEF Swap
  <2>2. built' = TRUE /\ label' = jobLabel /\ index' = jobRows /\ faults' = faults
    BY <1>3 DEF Swap
  <2>3. built' \in BOOLEAN /\ label' \in Nat /\ index' \subseteq Area /\ faults' \in Nat
    BY <2>2 DEF TypeOK
  <2> QED BY <2>1, <2>3, JobEndsType DEF TypeOK
<1>4. CASE RebuildFails
  <2>1. JobEnds(FALSE) /\ chain # <<>>
    BY <1>4 DEF RebuildFails
  <2>2. faults' = faults + 1 /\ UNCHANGED <<built, label, index>>
    BY <1>4 DEF RebuildFails, snapVars
  <2>3. built' \in BOOLEAN /\ label' \in Nat /\ index' \subseteq Area /\ faults' \in Nat
    BY <2>2 DEF TypeOK
  <2> QED BY <2>1, <2>3, JobEndsType DEF TypeOK
<1>5. ASSUME NEW p \in Poll, PollFires(p) PROVE TypeOK'
  BY <1>5 DEF PollFires, TypeOK, dbVars, snapVars, jobVars
<1>6. ASSUME NEW p \in Poll, PollReads(p) PROVE TypeOK'
  BY <1>6 DEF PollReads, TypeOK, dbVars, snapVars, jobVars
<1>7. ASSUME NEW p \in Poll, PollCompares(p) PROVE TypeOK'
  <2>1. CASE Enqueue(p)
    BY <1>7, <2>1, EnqueueType DEF PollCompares, TypeOK, dbVars, snapVars
  <2>2. CASE UNCHANGED jobVars
    BY <1>7, <2>2 DEF PollCompares, TypeOK, dbVars, snapVars, jobVars
  <2> QED BY <1>7, <2>1, <2>2 DEF PollCompares
<1>8. ASSUME NEW p \in Poll, PollFails(p) PROVE TypeOK'
  BY <1>8 DEF PollFails, TypeOK, dbVars, snapVars, jobVars
<1>9. ASSUME NEW a \in Local, Post(a) PROVE TypeOK'
  BY <1>9 DEF Post, TypeOK, dbVars, snapVars, jobVars, pollVars
<1>10. ASSUME NEW a \in Local, Checked(a) PROVE TypeOK'
  BY <1>10 DEF Checked, TypeOK, dbVars, snapVars, jobVars, pollVars
<1>11. ASSUME NEW a \in Local, Saved(a) PROVE TypeOK'
  <2>1. Insert(a)
    BY <1>11 DEF Saved
  <2> QED BY <1>11, <2>1, InsertType DEF Saved, TypeOK, snapVars, jobVars, pollVars
<1>12. ASSUME NEW a \in Local, Refreshes(a) PROVE TypeOK'
  <2>1. Enqueue(a)
    BY <1>12 DEF Refreshes
  <2> QED BY <1>12, <2>1, EnqueueType DEF Refreshes, TypeOK, dbVars, snapVars, pollVars
<1>13. ASSUME NEW a \in Local, CreateFails(a) PROVE TypeOK'
  BY <1>13 DEF CreateFails, TypeOK, dbVars, snapVars, jobVars, pollVars
<1>14. ASSUME NEW a \in Remote, RemoteSaved(a) PROVE TypeOK'
  <2>1. Insert(a) /\ a \in Area
    BY <1>14 DEF RemoteSaved, Area
  <2> QED BY <1>14, <2>1, InsertType DEF RemoteSaved, TypeOK, snapVars, jobVars, pollVars
<1>15. ASSUME NEW a \in Doomed, Deleted(a) PROVE TypeOK'
  BY <1>15 DEF Deleted, TypeOK, snapVars, jobVars, pollVars
<1>16. CASE Destroyed
  BY <1>16 DEF Destroyed, TypeOK, dbVars, snapVars, jobVars, pollVars
<1>17. CASE UNCHANGED vars
  BY <1>17 DEF vars, TypeOK
<1> QED BY <1>1, <1>2, <1>3, <1>4, <1>5, <1>6, <1>7, <1>8, <1>9, <1>10, <1>11, <1>12,
           <1>13, <1>14, <1>15, <1>16, <1>17
        DEF Next, Rebuild, PollStep, CreateStep

\* Every reachable state of the snapshot service is well typed, for any areas,
\* polls and failures; rebuild jobs are only ever the boot's, a poll's or an area's.
THEOREM TypeCorrect == Spec => []TypeOK
BY InitType, NextType, PTL DEF Spec

-----------------------------------------------------------------------------
(***************************************************************************)
(* Every action keeps the invariant.                                       *)
(***************************************************************************)

\* The first state satisfies the invariant.
LEMMA InitInv == Init => SnapshotInv
<1> SUFFICES ASSUME Init PROVE SnapshotInv
  OBVIOUS
<1>1. /\ \A a \in Area : born[a] = 0 /\ died[a] = 0
      /\ gone = {}
  BY DEF Init, gone
<1>2. VersionsReached /\ RowsWereStored /\ JobInv
  BY <1>1 DEF Init, VersionsReached, RowsWereStored, JobInv
<1>3. CreateInv
  BY <1>1, SnapshotAssumption DEF Init, CreateInv, SnapshotAssumption, Area
<1>4. IndexMatchesLabel /\ CreatedIsInForce
  BY <1>1 DEF Init, IndexMatchesLabel, CreatedIsInForce
<1> QED BY <1>2, <1>3, <1>4 DEF SnapshotInv

\* Steps of a poll, of the timer and of a POST that write nothing.
LEMMA QuietKeeps ==
    ASSUME TypeOK, SnapshotInv, UNCHANGED <<dbVars, snapVars, jobVars>>,
           \A a \in Local :
             \/ create'[a] = create[a]
             \/ /\ create[a] \in {"new", "checking", "saving"}
                /\ create'[a] \in {"checking", "refused", "saving", "error"}
                /\ create'[a] = "checking" => a \in Storable
    PROVE  SnapshotInv'
<1> USE DEF dbVars, snapVars, jobVars
<1>1. gone' = gone
  BY DEF gone
<1>2. (VersionsReached /\ RowsWereStored /\ JobInv /\ IndexMatchesLabel)'
  BY <1>1 DEF SnapshotInv, VersionsReached, RowsWereStored, JobInv, IndexMatchesLabel
<1>3. CreateInv'
  BY DEF SnapshotInv, CreateInv
<1>4. CreatedIsInForce'
  BY <1>1 DEF SnapshotInv, CreatedIsInForce
<1> QED BY <1>2, <1>3, <1>4 DEF SnapshotInv

\* A rebuild is asked for, by a poll or by the POST of an area that is stored.
LEMMA EnqueueKeeps ==
    ASSUME TypeOK, SnapshotInv, NEW j \in Job, Enqueue(j),
           UNCHANGED <<dbVars, snapVars>>,
           j \in Local => create[j] = "saved",
           \A a \in Local : create'[a] = create[a] \/ (a = j /\ create'[a] = "refreshing")
    PROVE  SnapshotInv'
<1> USE DEF dbVars, snapVars
<1>1. gone' = gone
  BY DEF gone
<1>2. (VersionsReached /\ RowsWereStored /\ IndexMatchesLabel)'
  BY <1>1 DEF SnapshotInv, VersionsReached, RowsWereStored, IndexMatchesLabel, Enqueue
<1>3. /\ chain \in Seq(Job) /\ chain' = Append(chain, j)
      /\ DOMAIN chain' = 1..(Len(chain) + 1) /\ DOMAIN chain = 1..Len(chain)
      /\ chain'[Len(chain) + 1] = j
      /\ \A i \in DOMAIN chain : chain'[i] = chain[i]
  BY AppendProperties, LenProperties DEF Enqueue, TypeOK
<1>4. chain # <<>> => chain' # <<>> /\ Head(chain') = Head(chain)
  BY <1>3, LenProperties, EmptySeq
<1>5. JobInv'
  BY <1>1, <1>3, <1>4 DEF SnapshotInv, JobInv, Enqueue
<1>6. CreateInv'
  BY <1>3 DEF SnapshotInv, CreateInv
<1>7. CreatedIsInForce'
  BY <1>1 DEF SnapshotInv, CreatedIsInForce
<1> QED BY <1>2, <1>5, <1>6, <1>7 DEF SnapshotInv

\* rebuild reads the version: none is newer, and none older is in force.
LEMMA ReadVersionKeeps ==
    ASSUME TypeOK, SnapshotInv, ReadVersion
    PROVE  SnapshotInv'
<1> USE DEF dbVars, snapVars
<1>1. gone' = gone
  BY DEF gone, ReadVersion
<1>2. (VersionsReached /\ RowsWereStored /\ IndexMatchesLabel)'
  BY <1>1 DEF SnapshotInv, VersionsReached, RowsWereStored, IndexMatchesLabel, ReadVersion
<1>3. JobInv'
  BY DEF SnapshotInv, VersionsReached, JobInv, ReadVersion, TypeOK
<1>4. (CreateInv /\ CreatedIsInForce)'
  BY <1>1 DEF SnapshotInv, CreateInv, CreatedIsInForce, ReadVersion
<1> QED BY <1>2, <1>3, <1>4 DEF SnapshotInv

\* It reads the rows: all that is stored now, more than the version promised.
LEMMA ReadRowsKeeps ==
    ASSUME TypeOK, SnapshotInv, ReadRows
    PROVE  SnapshotInv'
<1> USE DEF dbVars, snapVars
<1>1. gone' = gone /\ jobRows' = Stored /\ index' = index /\ chain' = chain /\ jobLabel' = jobLabel
  BY DEF gone, ReadRows
<1>2. (VersionsReached /\ RowsWereStored /\ IndexMatchesLabel)'
  BY <1>1 DEF SnapshotInv, VersionsReached, RowsWereStored, IndexMatchesLabel, ReadRows, Stored
<1>3. JobInv'
  <2>1. index \ gone \subseteq Stored
    BY DEF SnapshotInv, RowsWereStored, Stored, TypeOK
  <2>2. Head(chain) \in Local => Head(chain) \in Stored \union gone
    BY LocalsAreAreas, LenProperties, EmptySeq DEF SnapshotInv, CreateInv, Stored, TypeOK, ReadRows
  <2>3. \A a \in Area \ gone : born[a] # 0 => a \in Stored
    BY DEF Stored
  <2>4. Stored \intersect gone = {}
    BY DEF Stored
  <2>5. step = "version" /\ step' = "rows" /\ UNCHANGED <<born, died, version, label>>
    BY DEF ReadRows
  <2> QED BY <1>1, <2>1, <2>2, <2>3, <2>4, <2>5 DEF SnapshotInv, JobInv
<1>4. (CreateInv /\ CreatedIsInForce)'
  BY <1>1 DEF SnapshotInv, CreateInv, CreatedIsInForce, ReadRows
<1> QED BY <1>2, <1>3, <1>4 DEF SnapshotInv

\* The end of a job: the next one starts, and its owner's POST is answered.
LEMMA JobEndsKeeps ==
    ASSUME TypeOK, CreateInv, chain # <<>>, JobEnds(TRUE) \/ JobEnds(FALSE)
    PROVE  /\ CreateInv'
           /\ gone' = gone
           /\ \A a \in Local : create'[a] # create[a] => a = Head(chain)
           /\ JobEnds(FALSE) => \A a \in Local : create'[a] = "created" => create[a] = "created"
<1>1. /\ \A a \in Local : create'[a] = create[a]
                            \/ (a = Head(chain) /\ create'[a] \in {"created", "error"})
      /\ chain' = Tail(chain) /\ born' = born /\ died' = died
  BY DEF JobEnds, dbVars
<1>2. \A i \in DOMAIN chain' : i + 1 \in DOMAIN chain /\ chain'[i] = chain[i + 1]
  BY <1>1, HeadTailProperties, LenProperties DEF TypeOK
<1>3. CreateInv'
  BY <1>1, <1>2 DEF CreateInv
<1>4. gone' = gone
  BY <1>1 DEF gone
<1>5. JobEnds(FALSE) => \A a \in Local : create'[a] = "created" => create[a] = "created"
  BY DEF JobEnds
<1> QED BY <1>1, <1>3, <1>4, <1>5

\* The swap puts in force what the rebuild has read.
LEMMA SwapKeeps ==
    ASSUME TypeOK, SnapshotInv, Swap
    PROVE  SnapshotInv'
<1>1. /\ chain # <<>> /\ step = "rows" /\ JobEnds(TRUE)
      /\ label' = jobLabel /\ index' = jobRows
  BY DEF Swap
<1>2. /\ CreateInv' /\ gone' = gone
      /\ \A a \in Local : create'[a] # create[a] => a = Head(chain)
  BY <1>1, JobEndsKeeps DEF SnapshotInv
<1>3. step' = "start" /\ jobRows' = {} /\ born' = born /\ died' = died /\ version' = version
  BY <1>1 DEF JobEnds, dbVars
<1>4. (VersionsReached /\ RowsWereStored /\ JobInv)'
  BY <1>1, <1>2, <1>3 DEF SnapshotInv, VersionsReached, RowsWereStored, JobInv
<1>5. IndexMatchesLabel'
  BY <1>1, <1>2, <1>3 DEF SnapshotInv, JobInv, IndexMatchesLabel
<1>6. CreatedIsInForce'
  BY <1>1, <1>2 DEF SnapshotInv, JobInv, CreatedIsInForce
<1> QED BY <1>2, <1>4, <1>5, <1>6 DEF SnapshotInv

\* A rebuild that fails leaves the snapshot in force.
LEMMA RebuildFailsKeeps ==
    ASSUME TypeOK, SnapshotInv, RebuildFails
    PROVE  SnapshotInv'
<1>1. chain # <<>> /\ JobEnds(FALSE) /\ UNCHANGED <<built, label, index>>
  BY DEF RebuildFails, snapVars
<1>2. /\ CreateInv' /\ gone' = gone
      /\ \A a \in Local : create'[a] = "created" => create[a] = "created"
  BY <1>1, JobEndsKeeps DEF SnapshotInv
<1>3. step' = "start" /\ jobRows' = {} /\ born' = born /\ died' = died /\ version' = version
  BY <1>1 DEF JobEnds, dbVars
<1>4. (VersionsReached /\ RowsWereStored /\ JobInv)'
  BY <1>1, <1>2, <1>3 DEF SnapshotInv, VersionsReached, RowsWereStored, JobInv
<1>5. (IndexMatchesLabel /\ CreatedIsInForce)'
  BY <1>1, <1>2, <1>3 DEF SnapshotInv, IndexMatchesLabel, CreatedIsInForce
<1> QED BY <1>2, <1>4, <1>5 DEF SnapshotInv

\* An insert is newer than every label.
LEMMA InsertKeeps ==
    ASSUME TypeOK, SnapshotInv, NEW a \in Area, Insert(a), born[a] = 0,
           UNCHANGED <<snapVars, jobVars>>,
           \A b \in Local : \/ b # a /\ create'[b] = create[b]
                            \/ b = a /\ create'[b] = "saved"
    PROVE  SnapshotInv'
<1> USE DEF snapVars, jobVars
<1>1. /\ died' = died /\ version' = version + 1 /\ born'[a] = version + 1
      /\ \A b \in Area : b # a => born'[b] = born[b]
      /\ version \in Nat /\ label \in Nat /\ jobLabel \in Nat
      /\ \A b \in Area : born[b] \in Nat /\ born'[b] \in Nat
  BY InsertType DEF TypeOK
<1>2. gone' = gone
  BY <1>1 DEF gone
<1>3. VersionsReached'
  BY <1>1 DEF SnapshotInv, VersionsReached
<1>4. RowsWereStored'
  BY <1>1 DEF SnapshotInv, RowsWereStored, TypeOK
<1>5. JobInv'
  <2>1. step # "start" => label <= jobLabel /\ jobLabel <= version + 1
    BY <1>1 DEF SnapshotInv, JobInv
  <2>2. step = "rows" => \A b \in Area \ gone : (born'[b] # 0 /\ born'[b] <= jobLabel) => b \in jobRows
    BY <1>1 DEF SnapshotInv, JobInv
  <2> QED BY <1>1, <1>2, <2>1, <2>2 DEF SnapshotInv, JobInv
<1>6. CreateInv'
  BY <1>1, LocalsAreAreas DEF SnapshotInv, CreateInv
<1>7. IndexMatchesLabel'
  BY <1>1, <1>2 DEF SnapshotInv, VersionsReached, IndexMatchesLabel
<1>8. CreatedIsInForce'
  BY <1>1, <1>2 DEF SnapshotInv, CreatedIsInForce
<1> QED BY <1>3, <1>4, <1>5, <1>6, <1>7, <1>8 DEF SnapshotInv

\* A deletion happens at the version of the moment, no older than any label.
LEMMA DeletedKeeps ==
    ASSUME TypeOK, SnapshotInv, NEW a, Deleted(a)
    PROVE  SnapshotInv'
<1> USE DEF snapVars, jobVars
<1>1. /\ a \in Area /\ born[a] # 0 /\ a \notin gone
      /\ died'[a] = version
      /\ \A b \in Area : b # a => died'[b] = died[b]
      /\ born' = born /\ version' = version /\ create' = create
      /\ UNCHANGED <<built, label, index, chain, step, jobLabel, jobRows>>
  BY DEF Deleted, Stored, TypeOK
<1>2. gone' = gone \union {a}
  BY <1>1 DEF gone, TypeOK
<1>3. (VersionsReached /\ RowsWereStored /\ CreateInv)'
  BY <1>1 DEF SnapshotInv, VersionsReached, RowsWereStored, CreateInv
<1>4. gone \subseteq Area
  BY DEF gone
<1>5. JobInv'
  BY <1>1, <1>2, <1>4 DEF SnapshotInv, JobInv
<1>6. IndexMatchesLabel'
  BY <1>1, <1>2, <1>4 DEF SnapshotInv, VersionsReached, IndexMatchesLabel
<1>7. CreatedIsInForce'
  BY <1>1, <1>2 DEF SnapshotInv, CreatedIsInForce
<1> QED BY <1>3, <1>5, <1>6, <1>7 DEF SnapshotInv
LEMMA NextInv ==
    ASSUME TypeOK, SnapshotInv, [Next]_vars
    PROVE  SnapshotInv'
<1> USE DEF dbVars, snapVars, jobVars
<1>1. ASSUME NEW p \in Poll, PollFires(p) \/ PollStep(p) \/ PollFails(p) PROVE SnapshotInv'
  <2>1. /\ create' = create /\ UNCHANGED <<dbVars, snapVars>>
        /\ Enqueue(p) \/ UNCHANGED jobVars
    BY <1>1 DEF PollFires, PollStep, PollReads, PollCompares, PollFails
  <2>2. p \in Job /\ p \notin Local
    BY SnapshotAssumption DEF SnapshotAssumption, Job
  <2> QED BY <2>1, <2>2, QuietKeeps, EnqueueKeeps
<1>2. ASSUME NEW a \in Local, Post(a) \/ Checked(a) \/ CreateFails(a) PROVE SnapshotInv'
  <2>1. create \in [Local -> {"new", "checking", "refused", "saving", "saved",
                              "refreshing", "created", "error"}]
    BY DEF TypeOK
  <2>2. CASE Post(a)
    BY <2>1, <2>2, QuietKeeps DEF Post
  <2>3. CASE Checked(a)
    BY <2>1, <2>3, QuietKeeps DEF Checked
  <2>4. CASE CreateFails(a)
    BY <2>1, <2>4, QuietKeeps DEF CreateFails
  <2> QED BY <1>2, <2>2, <2>3, <2>4
<1>3. ASSUME NEW a \in Local, Saved(a) PROVE SnapshotInv'
  <2>1. a \in Area /\ born[a] = 0
    BY <1>3, LocalsAreAreas DEF Saved, SnapshotInv, CreateInv
  <2>2. \A b \in Local : \/ b # a /\ create'[b] = create[b]
                         \/ b = a /\ create'[b] = "saved"
    BY <1>3 DEF Saved, TypeOK
  <2> QED BY <1>3, <2>1, <2>2, InsertKeeps DEF Saved
<1>4. ASSUME NEW a \in Local, Refreshes(a) PROVE SnapshotInv'
  <2>1. \A b \in Local : create'[b] = create[b] \/ (b = a /\ create'[b] = "refreshing")
    BY <1>4 DEF Refreshes, TypeOK
  <2> QED BY <1>4, <2>1, LocalsAreAreas, EnqueueKeeps DEF Refreshes
<1>5. ASSUME NEW a \in Remote, RemoteSaved(a) PROVE SnapshotInv'
  <2>1. a \in Area /\ a \notin Local
    BY SnapshotAssumption DEF SnapshotAssumption, Area
  <2> QED BY <1>5, <2>1, InsertKeeps DEF RemoteSaved
<1>6. ASSUME NEW a \in Doomed, Deleted(a) PROVE SnapshotInv'
  BY <1>6, DeletedKeeps
<1>7. CASE Rebuild \/ RebuildFails
  BY <1>7, ReadVersionKeeps, ReadRowsKeeps, SwapKeeps, RebuildFailsKeeps DEF Rebuild
<1>8. CASE Destroyed \/ UNCHANGED vars
  BY <1>8, QuietKeeps DEF Destroyed, vars
<1> QED BY <1>1, <1>2, <1>3, <1>4, <1>5, <1>6, <1>7, <1>8 DEF Next, CreateStep

\* The invariant holds in every reachable state.
LEMMA InvHolds == Spec => [](TypeOK /\ SnapshotInv)
<1>1. TypeOK /\ SnapshotInv /\ [Next]_vars => (TypeOK /\ SnapshotInv)'
  BY NextType, NextInv
<1> QED BY <1>1, InitType, InitInv, PTL DEF Spec

-----------------------------------------------------------------------------
(***************************************************************************)
(* The theorems.                                                           *)
(***************************************************************************)

\* "Version FIRST, then rows" in rebuild: whatever is inserted and deleted between
\* its queries, a snapshot has every area its label promises and none that was
\* deleted before the label's version.
THEOREM LabelIsTrue == Spec => []IndexMatchesLabel
<1>1. SnapshotInv => IndexMatchesLabel
  BY DEF SnapshotInv
<1> QED BY <1>1, InvHolds, PTL

\* create awaits refreshNow: an area whose POST was answered is in the index of
\* this process, and later rebuilds keep it there until it is deleted.
THEOREM CreatedStaysInForce == Spec => []CreatedIsInForce
<1>1. SnapshotInv => CreatedIsInForce
  BY DEF SnapshotInv
<1> QED BY <1>1, InvHolds, PTL

\* rebuildChain serializes rebuilds: a swap never takes the process back to an
\* older version or loses an area that still exists.
THEOREM NeverOlder == Spec => SnapshotNeverOlder
<1>1. ASSUME TypeOK, SnapshotInv, [Next]_vars
      PROVE  [label' >= label /\ (index \ gone') \subseteq index']_vars
  <2>1. CASE Swap
    <3>1. gone' = gone /\ label' = jobLabel /\ index' = jobRows /\ step = "rows"
      BY <2>1 DEF Swap, JobEnds, dbVars, gone
    <3> QED BY <1>1, <3>1 DEF SnapshotInv, JobInv, TypeOK
  <2>2. CASE UNCHANGED snapVars
    BY <1>1, <2>2 DEF snapVars, TypeOK
  <2>3. Swap \/ UNCHANGED snapVars
    BY <1>1 DEF Next, Rebuild, ReadVersion, ReadRows, RebuildFails, PollFires, PollStep,
                PollReads, PollCompares, PollFails, Post, CreateStep, Checked, Saved,
                Refreshes, CreateFails, RemoteSaved, Deleted, Destroyed, vars, snapVars
  <2> QED BY <2>1, <2>2, <2>3
<1> QED BY <1>1, InvHolds, PTL DEF Spec, SnapshotNeverOlder

\* Wherever the index's test of single boundaries agrees with ST_Covers, the
\* process answers like Postgis at all times, whatever rebuilds, creates, polls
\* and deletions interleave: what the label promises, and nothing but what the
\* table held.
THEOREM AgreesWithPostgis ==
    ASSUME BoundariesAgree
    PROVE  Spec => []AnswersLikePostgis
<1>1. TypeOK /\ SnapshotInv => AnswersLikePostgis
  <2> SUFFICES ASSUME TypeOK, SnapshotInv, built, NEW p \in Point
               PROVE  /\ \A a \in FindCoveringAreaIds(p) \ gone :
                           a \in FindCoveringAreaIdsViaPostgis(p) \/ <<a, p>> \in Blurred
                      /\ \A a \in FindCoveringAreaIdsViaPostgis(p) :
                           \/ born[a] > label
                           \/ a \in FindCoveringAreaIds(p)
                           \/ <<a, p>> \in Blurred
    BY DEF AnswersLikePostgis
  <2>1. ASSUME NEW a \in FindCoveringAreaIds(p) \ gone
        PROVE  a \in FindCoveringAreaIdsViaPostgis(p) \/ <<a, p>> \in Blurred
    <3>1. a \in index /\ a \notin gone /\ <<a, p>> \in IndexedBy
      BY <2>1 DEF FindCoveringAreaIds
    <3>2. a \in Stored
      BY <3>1 DEF SnapshotInv, RowsWereStored, Stored, TypeOK
    <3>3. a \in Storable
      BY <3>1 DEF IndexedBy, Asked
    <3>4. <<a, p>> \in CoveredBy \/ <<a, p>> \in Blurred
      BY <3>1, <3>3 DEF BoundariesAgree
    <3> QED BY <3>2, <3>4 DEF FindCoveringAreaIdsViaPostgis
  <2>2. ASSUME NEW a \in FindCoveringAreaIdsViaPostgis(p)
        PROVE  born[a] > label \/ a \in FindCoveringAreaIds(p) \/ <<a, p>> \in Blurred
    <3>1. a \in Stored /\ <<a, p>> \in CoveredBy
      BY <2>2 DEF FindCoveringAreaIdsViaPostgis
    <3>2. a \in Storable
      BY <3>1 DEF CoveredBy, Asked
    <3>3. born[a] > label \/ a \in index
      BY <3>1 DEF Stored, SnapshotInv, IndexMatchesLabel, TypeOK
    <3>4. <<a, p>> \in IndexedBy \/ <<a, p>> \in Blurred
      BY <3>1, <3>2 DEF BoundariesAgree
    <3> QED BY <3>3, <3>4 DEF FindCoveringAreaIds
  <2> QED BY <2>1, <2>2
<1> QED BY <1>1, InvHolds, PTL

-----------------------------------------------------------------------------
(***************************************************************************)
(* What the DTO admits, ST_GeomFromGeoJSON can read.                       *)
(***************************************************************************)

\* The claim in areas.service.ts, for every body: structure that passes
\* geoJsonPolygonFailure cannot make ST_GeomFromGeoJSON throw.
LEMMA AdmittedIsReadable ==
    ASSUME NEW b, ~GeoJsonPolygonFailure(b)
    PROVE  ~GeomFromGeoJsonThrows(b)
BY DEF GeoJsonPolygonFailure, GeomFromGeoJsonThrows, RingFailure

\* Only a failing database makes a POST /areas end in an error, whatever boundary
\* is sent.
THEOREM BodiesCauseNoError == Spec => []ErrorMeansFault
<1>1. Init => ErrorMeansFault
  BY DEF Init, ErrorMeansFault
<1>2. ASSUME TypeOK, SnapshotInv, ErrorMeansFault, [Next]_vars
      PROVE  ErrorMeansFault'
  <2>1. faults \in Nat /\ faults' \in Nat
    BY <1>2, NextType DEF TypeOK
  <2>2. ASSUME NEW a \in Local, Checked(a) PROVE ErrorMeansFault'
    <3>1. ~GeomFromGeoJsonThrows(Boundary[a])
      BY <1>2, <2>2, LocalsAreAreas, AdmittedIsReadable DEF Checked, SnapshotInv, CreateInv, Storable
    <3>2. \A b \in Local : create'[b] = "error" => create[b] = "error"
      BY <1>2, <2>2, <3>1 DEF Checked, TypeOK
    <3>3. faults' = faults
      BY <2>2 DEF Checked
    <3> QED BY <1>2, <3>2, <3>3 DEF ErrorMeansFault
  <2>3. CASE faults' = faults + 1
    BY <2>1, <2>3 DEF ErrorMeansFault
  <2>4. CASE /\ faults' = faults
             /\ \A b \in Local : create'[b] = "error" => create[b] = "error"
    BY <1>2, <2>4 DEF ErrorMeansFault
  <2>5. \/ \E a \in Local : Checked(a)
        \/ faults' = faults + 1
        \/ /\ faults' = faults
           /\ \A b \in Local : create'[b] = "error" => create[b] = "error"
    <3>1. ASSUME NEW a \in Local, Post(a) \/ Saved(a) \/ Refreshes(a)
          PROVE  faults' = faults /\ \A b \in Local : create'[b] = "error" => create[b] = "error"
      BY <1>2, <3>1 DEF Post, Saved, Refreshes, TypeOK
    <3>2. CASE Swap
      BY <3>2 DEF Swap, JobEnds
    <3>3. CASE ReadVersion \/ ReadRows \/ Destroyed \/ UNCHANGED vars
      BY <3>3 DEF ReadVersion, ReadRows, Destroyed, vars
    <3>4. CASE RebuildFails \/ (\E a \in Local : CreateFails(a)) \/ (\E p \in Poll : PollFails(p))
      BY <3>4 DEF RebuildFails, CreateFails, PollFails
    <3>5. CASE \E p \in Poll : PollFires(p) \/ PollStep(p)
      BY <3>5 DEF PollFires, PollStep, PollReads, PollCompares
    <3>6. CASE (\E a \in Remote : RemoteSaved(a)) \/ (\E a \in Doomed : Deleted(a))
      BY <3>6 DEF RemoteSaved, Deleted
    <3> QED BY <1>2, <3>1, <3>2, <3>3, <3>4, <3>5, <3>6 DEF Next, Rebuild, CreateStep
  <2> QED BY <2>2, <2>3, <2>4, <2>5
<1> QED BY <1>1, <1>2, InvHolds, PTL DEF Spec
=============================================================================
