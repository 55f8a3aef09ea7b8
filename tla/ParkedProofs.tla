---------------------------- MODULE ParkedProofs ----------------------------
(***************************************************************************)
(* Proofs about LocationsService.report with the presence cache: for every *)
(* number of calls, users, devices and areas, with calls of one user at    *)
(* once and with any number of Redis and database failures.                *)
(***************************************************************************)
EXTENDS ParkedReport, TLAPS

Row == [user : User, area : Area, stamp : Call]

ParkedType ==
    /\ areaState \in [Area -> {"future", "live", "gone"}]
    /\ presence \in [User -> SUBSET Area]
    /\ logs \subseteq Row
    /\ pc \in [Call -> {"new", "get", "hint", "populate", "txn", "locked", "reply", "del",
                        "done"}]
    /\ DOMAIN answer = Call
    /\ cacheRead \in [Call -> {"none", "hit", "miss", "error"}]
    /\ hint \in [Call -> SUBSET Area]
    /\ stored \in [User \X Device -> Int]
    /\ DOMAIN cache \subseteq User
    /\ \A u \in DOMAIN cache : cache[u] \subseteq Area
    /\ late \subseteq Call /\ suppressed \subseteq Call
    /\ flaps \in Nat /\ outages \in Nat

\* One call of a user is under the lock, and what it read there is still what
\* the table holds, but for areas deleted since; every row refers to an area.
LockInv ==
    /\ \A u \in User : presence[u] \subseteq Live
    /\ \A m, x \in Call :
         (pc[m] = "locked" /\ pc[x] = "locked" /\ UserOf[m] = UserOf[x]) => m = x
    /\ \A m \in Call : pc[m] = "locked" =>
         /\ presence[UserOf[m]] \subseteq hint[m]
         /\ hint[m] \intersect Live \subseteq presence[UserOf[m]]

\* A row was written by a call that has committed, and the dedup row knows of it.
LogInv ==
    /\ \A r \in logs :
         /\ r.user = UserOf[r.stamp]
         /\ pc[r.stamp] \in {"reply", "del", "done"}
         /\ HasSeq(r.stamp) => SeqNoOf[r.stamp] <= stored[Identity(r.stamp)]
    /\ OneRowPerEvent

\* The calls of u that have committed and not yet sent their DEL.
Committed(u) == {m \in Call : UserOf[m] = u /\ pc[m] \in {"reply", "del"}}

\* The users for whom the history holds a reason why a key may be stale.
Excused == overlapped \union outrun \union unsent \union uncleared

\* While the calls of a user follow one another, every DEL arrives and no change
\* overtakes a SET, what is cached, or on its way to the cache, in the hands of
\* its call or late, hides no area the user is outside of.
CacheInv ==
    /\ \A m \in Call : pc[m] = "hint" => cacheRead[m] # "hit"
    /\ \A m \in late : pc[m] = "done"
    /\ \A u \in User \ Excused :
         /\ \A m, x \in InFlight : (UserOf[m] = u /\ UserOf[x] = u) => m = x
         /\ \A m \in Call : (UserOf[m] = u /\ (pc[m] = "populate" \/ m \in late))
                              => hint[m] \intersect Live \subseteq presence[u]
         /\ (u \in DOMAIN cache /\ Committed(u) = {})
              => cache[u] \intersect Live \subseteq presence[u]

ParkedInv == ParkedType /\ LockInv /\ LogInv /\ CacheInv /\ SuppressionExplained

\* A step of call m.
Step(m) ==
    \/ Start(m) \/ CallStep(m) \/ CacheGetFails(m)
    \/ DbFails(m) \/ LostReply(m) \/ InvalidateFails(m)

\* A step nobody waits for: the TTL, the operator, a SET carried out late.
Outside ==
    \/ \E u \in User : Expire(u)
    \/ \E a \in Area : AreaDeleted(a)
    \/ \E m \in Call : LateSet(m)

\* A step of call m that leaves the tables alone.
Quiet(m) == Step(m) /\ UNCHANGED <<areaState, presence, logs, stored>>

-----------------------------------------------------------------------------
(***************************************************************************)
(* The shape of the steps.                                                 *)
(***************************************************************************)

\* Only the commit of a change writes to the tables.
LEMMA StepIsQuiet ==
    ASSUME NEW m \in Call, Step(m)
    PROVE  Quiet(m) \/ CommitChange(m)
BY DEF Step, Quiet, Start, CallStep, CacheGet, CacheGetFails, HintRead, Populate, Locks,
       CommitDuplicate, ForeignKeyFails, DbFails, Reply, LostReply, Invalidate,
       InvalidateFails, tableVars

\* A step of one call leaves what the other calls know alone.
LEMMA OthersUnchanged ==
    ASSUME ParkedType, NEW m \in Call, Step(m)
    PROVE  /\ DOMAIN answer' = Call
           /\ \A x \in Call \ {m} : /\ pc'[x] = pc[x] /\ hint'[x] = hint[x]
                                    /\ cacheRead'[x] = cacheRead[x]
                                    /\ answer'[x] = answer[x]
BY DEF Step, ParkedType, Start, CallStep, CacheGet, CacheGetFails, HintRead, Populate, Locks,
       CommitDuplicate, CommitChange, ForeignKeyFails, DbFails, Reply, LostReply, Invalidate,
       InvalidateFails, tableVars, Fork, Awaits, Ends

\* The places a call goes to.
LEMMA OwnStep ==
    ASSUME ParkedType, NEW m \in Call, Step(m)
    PROVE  \/ Start(m) /\ pc[m] = "new" /\ pc'[m] \in {"get", "done"}
           \/ CacheGet(m) /\ pc[m] = "get" /\ pc'[m] \in {"hint", "txn", "done"}
           \/ CacheGetFails(m) /\ pc[m] = "get" /\ pc'[m] = "hint"
           \/ HintRead(m) /\ pc[m] = "hint" /\ pc'[m] \in {"populate", "txn", "done"}
           \/ Populate(m) /\ pc[m] = "populate" /\ pc'[m] = "done"
           \/ Locks(m) /\ pc[m] = "txn" /\ pc'[m] = "locked"
           \/ CommitDuplicate(m) /\ pc[m] = "locked" /\ pc'[m] = "reply"
           \/ CommitChange(m) /\ pc[m] = "locked" /\ pc'[m] = "reply"
           \/ ForeignKeyFails(m) /\ pc[m] = "locked" /\ pc'[m] = "done"
           \/ DbFails(m) /\ pc[m] \in {"hint", "txn", "locked"} /\ pc'[m] = "done"
           \/ Reply(m) /\ pc[m] = "reply" /\ pc'[m] = "del"
           \/ LostReply(m) /\ pc[m] = "reply" /\ pc'[m] = "done"
           \/ Invalidate(m) /\ pc[m] = "del" /\ pc'[m] = "done"
           \/ InvalidateFails(m) /\ pc[m] = "del" /\ pc'[m] = "done"
BY DEF Step, ParkedType, Start, CallStep, CacheGet, CacheGetFails, HintRead, Populate, Locks,
       CommitDuplicate, CommitChange, ForeignKeyFails, DbFails, Reply, LostReply, Invalidate,
       InvalidateFails, Fork, Awaits, Ends

\* What a DEL or the TTL leaves in the cache.
LEMMA Deleted ==
    ASSUME NEW u, NEW f
    PROVE  /\ DOMAIN Restrict(f, DOMAIN f \ {u}) = DOMAIN f \ {u}
           /\ \A x \in DOMAIN f : x # u => Restrict(f, DOMAIN f \ {u})[x] = f[x]
BY DEF Restrict

-----------------------------------------------------------------------------
(***************************************************************************)
(* Types.                                                                  *)
(***************************************************************************)

\* A step of a call keeps the types of what calls and cache hold.
LEMMA StepType ==
    ASSUME ParkedType, NEW m \in Call, Step(m)
    PROVE  ParkedType'
<1> USE DEF ParkedType
<1>1. UserOf[m] \in User /\ Cover[m] \subseteq Area
  BY ParkedAssumption
<1>2. pc' \in [Call -> {"new", "get", "hint", "populate", "txn", "locked", "reply", "del",
                        "done"}]
  BY DEF Step, Start, CallStep, CacheGet, CacheGetFails, HintRead, Populate, Locks,
         CommitDuplicate, CommitChange, ForeignKeyFails, DbFails, Reply, LostReply,
         Invalidate, InvalidateFails, Fork, Awaits, Ends
<1>3. cacheRead' \in [Call -> {"none", "hit", "miss", "error"}]
  BY DEF Step, Start, CallStep, CacheGet, CacheGetFails, HintRead, Populate, Locks,
         CommitDuplicate, CommitChange, ForeignKeyFails, DbFails, Reply, LostReply,
         Invalidate, InvalidateFails, Fork
<1>4. hint' \in [Call -> SUBSET Area]
  BY <1>1 DEF Step, Start, CallStep, CacheGet, CacheGetFails, HintRead, Populate, Locks,
         CommitDuplicate, CommitChange, ForeignKeyFails, DbFails, Reply, LostReply,
         Invalidate, InvalidateFails, Fork
<1>5. DOMAIN answer' = Call
  BY OthersUnchanged
<1>6. /\ DOMAIN cache' \subseteq User
      /\ \A u \in DOMAIN cache' : cache'[u] \subseteq Area
  <2>1. CASE cache' = cache
    BY <2>1
  <2>2. CASE cache' = Put(cache, UserOf[m], hint[m])
    <3>1. /\ DOMAIN cache' = DOMAIN cache \union {UserOf[m]} /\ cache'[UserOf[m]] = hint[m]
          /\ \A x \in DOMAIN cache : x # UserOf[m] => cache'[x] = cache[x]
      BY <2>2 DEF Put
    <3> QED BY <1>1, <3>1
  <2>3. CASE cache' = Restrict(cache, DOMAIN cache \ {UserOf[m]})
    <3>1. /\ DOMAIN cache' = DOMAIN cache \ {UserOf[m]}
          /\ \A x \in DOMAIN cache : x # UserOf[m] => cache'[x] = cache[x]
      BY <2>3 DEF Restrict
    <3> QED BY <3>1
  <2> QED BY <2>1, <2>2, <2>3
          DEF Step, Start, CallStep, CacheGet, CacheGetFails, HintRead, Populate, Locks,
              CommitDuplicate, CommitChange, ForeignKeyFails, DbFails, Reply, LostReply,
              Invalidate, InvalidateFails
<1>7. suppressed' \subseteq Call
  BY DEF Step, Start, CallStep, CacheGet, CacheGetFails, HintRead, Populate, Locks,
         CommitDuplicate, CommitChange, ForeignKeyFails, DbFails, Reply, LostReply,
         Invalidate, InvalidateFails, Fork, historyVars
<1>8. late' \subseteq Call /\ flaps' \in Nat /\ outages' \in Nat
  BY DEF Step, Start, CallStep, CacheGet, CacheGetFails, HintRead, Populate, Locks,
         CommitDuplicate, CommitChange, ForeignKeyFails, DbFails, Reply, LostReply,
         Invalidate, InvalidateFails, metricVars
<1>9. CASE Quiet(m)
  BY <1>2, <1>3, <1>4, <1>5, <1>6, <1>7, <1>9, <1>8 DEF Quiet
<1>10. CASE CommitChange(m)
  <2>1. areaState' = areaState
    BY <1>10 DEF CommitChange
  <2>2. Inserted(m) \subseteq Area
    BY <1>1 DEF Inserted
  <2>3. presence' \in [User -> SUBSET Area]
    BY <1>1, <1>10, <2>2 DEF CommitChange
  <2>4. logs' \subseteq Row
    BY <1>1, <1>10, <2>2 DEF CommitChange, Row
  <2>5. stored' \in [User \X Device -> Int]
    BY <1>10, ParkedAssumption DEF CommitChange, StoresSeq, Identity, HasSeq
  <2> QED BY <1>2, <1>3, <1>4, <1>5, <1>6, <1>7, <1>8, <2>1, <2>3, <2>4, <2>5
<1> QED BY <1>9, <1>10, StepIsQuiet

\* The TTL and the operator keep the types.
LEMMA OutsideType ==
    ASSUME ParkedType, Outside
    PROVE  ParkedType'
<1>1. ASSUME NEW u \in User, Expire(u) PROVE ParkedType'
  <2>1. DOMAIN cache' = DOMAIN cache \ {u} /\ \A x \in DOMAIN cache : x # u => cache'[x] = cache[x]
    <3>1. cache' = Restrict(cache, DOMAIN cache \ {u})
      BY <1>1 DEF Expire
    <3> QED BY <3>1, Deleted
  <2> QED BY <1>1, <2>1 DEF Expire, ParkedType, tableVars, callVars, historyVars, metricVars
<1>2. ASSUME NEW a \in Area, AreaDeleted(a) PROVE ParkedType'
  BY <1>2 DEF AreaDeleted, DeleteArea, ParkedType, callVars, historyVars, metricVars
<1>3. ASSUME NEW m \in Call, LateSet(m) PROVE ParkedType'
  <2>1. UserOf[m] \in User /\ hint[m] \subseteq Area
    BY ParkedAssumption DEF ParkedType
  <2>2. /\ DOMAIN cache' = DOMAIN cache \union {UserOf[m]} /\ cache'[UserOf[m]] = hint[m]
        /\ \A x \in DOMAIN cache : x # UserOf[m] => cache'[x] = cache[x]
    BY <1>3 DEF LateSet, Put
  <2>3. late' \subseteq Call
    BY <1>3 DEF LateSet, ParkedType
  <2>4. UNCHANGED <<areaState, presence, logs, stored, pc, answer, cacheRead, hint, suppressed,
                    flaps, outages>>
    BY <1>3 DEF LateSet, tableVars, callVars, historyVars, metricVars
  <2> QED BY <2>1, <2>2, <2>3, <2>4 DEF ParkedType
<1> QED BY <1>1, <1>2, <1>3 DEF Outside

-----------------------------------------------------------------------------
(***************************************************************************)
(* The lock.                                                               *)
(***************************************************************************)

\* Under the lock the commit leaves the user in the areas reported, less the
\* deleted ones, and logs those it was not in.
LEMMA CommitResult ==
    ASSUME ParkedType, LockInv, NEW m \in Call, CommitChange(m)
    PROVE  /\ presence' = [presence EXCEPT ![UserOf[m]] = Cover[m] \intersect Live]
           /\ Inserted(m) = (Cover[m] \intersect Live) \ presence[UserOf[m]]
           /\ Live' = Live
<1> DEFINE u == UserOf[m]
<1>1. /\ u \in User /\ Cover[m] \subseteq Area /\ pc[m] = "locked" /\ areaState' = areaState
      /\ Inserted(m) \subseteq Live
      /\ presence' = [presence EXCEPT ![u] = (@ \union Inserted(m)) \ Left(m)]
  BY ParkedAssumption DEF CommitChange
<1>2. /\ presence[u] \subseteq hint[m] /\ hint[m] \intersect Live \subseteq presence[u]
      /\ presence[u] \subseteq Live
  BY <1>1 DEF LockInv
<1>3. Inserted(m) = (Cover[m] \intersect Live) \ presence[u]
  BY <1>1, <1>2 DEF Inserted
<1>4. (presence[u] \union Inserted(m)) \ Left(m) = Cover[m] \intersect Live
  BY <1>2, <1>3 DEF Left
<1>5. Live' = Live
  BY <1>1 DEF Live
<1> QED BY <1>1, <1>3, <1>4, <1>5

\* Every step of a call keeps the lock's promise.
LEMMA StepLock ==
    ASSUME ParkedType, LockInv, NEW m \in Call, Step(m)
    PROVE  LockInv'
<1>1. \A x \in Call \ {m} : pc'[x] = pc[x] /\ hint'[x] = hint[x]
  BY OthersUnchanged
<1>2. UserOf \in [Call -> User]
  BY ParkedAssumption
<1>3. CASE Quiet(m)
  <2>1. presence' = presence /\ Live' = Live
    BY <1>3 DEF Quiet, Live
  <2>2. CASE Locks(m)
    <3>1. /\ \A x \in Call : UserOf[x] = UserOf[m] => pc[x] # "locked"
          /\ hint'[m] = presence[UserOf[m]]
      BY <2>2 DEF Locks, ParkedType
    <3> QED BY <1>1, <1>2, <2>1, <3>1 DEF LockInv
  <2>3. CASE ~Locks(m)
    <3>1. pc'[m] # "locked"
      BY <2>3, <1>3, OwnStep DEF Quiet
    <3> QED BY <1>1, <1>2, <2>1, <3>1 DEF LockInv
  <2> QED BY <2>2, <2>3
<1>4. CASE CommitChange(m)
  <2>1. /\ presence' = [presence EXCEPT ![UserOf[m]] = Cover[m] \intersect Live]
        /\ Live' = Live
    BY <1>4, CommitResult
  <2>2. pc[m] = "locked" /\ pc'[m] = "reply"
    BY <1>4 DEF CommitChange, Awaits, ParkedType
  <2>3. \A x \in Call : pc'[x] = "locked" => x # m /\ pc[x] = "locked" /\ UserOf[x] # UserOf[m]
    BY <1>1, <2>2 DEF LockInv
  <2>4. \A u \in User : presence'[u] = IF u = UserOf[m] THEN Cover[m] \intersect Live
                                        ELSE presence[u]
    BY <1>2, <2>1 DEF ParkedType
  <2> QED BY <1>1, <1>2, <2>1, <2>3, <2>4 DEF LockInv
<1> QED BY <1>3, <1>4, StepIsQuiet

\* An area that is deleted leaves every presence at once.
LEMMA OutsideLock ==
    ASSUME ParkedType, LockInv, Outside
    PROVE  LockInv'
<1>1. ASSUME NEW u \in User, Expire(u) PROVE LockInv'
  BY <1>1 DEF Expire, LockInv, tableVars, callVars, Live
<1>2. ASSUME NEW a \in Area, AreaDeleted(a) PROVE LockInv'
  <2>1. Live' = Live \ {a}
    BY <1>2 DEF AreaDeleted, DeleteArea, Live, ParkedType
  <2>2. \A u \in User : presence'[u] = presence[u] \ {a}
    BY <1>2 DEF AreaDeleted, DeleteArea
  <2>3. pc' = pc /\ hint' = hint /\ \A m \in Call : UserOf[m] \in User
    BY <1>2, ParkedAssumption DEF AreaDeleted, callVars
  <2> QED BY <2>1, <2>2, <2>3 DEF LockInv
<1>3. ASSUME NEW m \in Call, LateSet(m) PROVE LockInv'
  BY <1>3 DEF LateSet, LockInv, tableVars, callVars, Live
<1> QED BY <1>1, <1>2, <1>3 DEF Outside

-----------------------------------------------------------------------------
(***************************************************************************)
(* The rows and the dedup row.                                             *)
(***************************************************************************)

\* The upsert stores a greater seq than the one it replaces.
LEMMA SeqGrows ==
    ASSUME ParkedType, NEW m \in Call, CommitChange(m)
    PROVE  /\ \A k \in User \X Device : stored'[k] >= stored[k]
           /\ HasSeq(m) => /\ stored[Identity(m)] < SeqNoOf[m]
                           /\ stored'[Identity(m)] = SeqNoOf[m]
                           /\ Identity(m) \in User \X Device
<1>1. SeqNoOf[m] \in Nat /\ stored \in [User \X Device -> Int] /\ ~IsDuplicate(m) /\ StoresSeq(m)
  BY ParkedAssumption DEF CommitChange, ParkedType
<1>2. HasSeq(m) => Identity(m) \in User \X Device
  BY ParkedAssumption DEF HasSeq, Identity
<1> QED BY <1>1, <1>2 DEF IsDuplicate, StoresSeq

\* A step of a call logs no entry a second time.
LEMMA StepLog ==
    ASSUME ParkedType, LogInv, NEW m \in Call, Step(m)
    PROVE  LogInv'
<1>1. \A x \in Call \ {m} : pc'[x] = pc[x]
  BY OthersUnchanged
<1>2. \A r \in logs : r \in Row /\ r.stamp \in Call /\ r.area \in Area
  BY DEF ParkedType, Row
<1>3. pc[m] \in {"reply", "del", "done"} => pc'[m] \in {"reply", "del", "done"}
  BY OwnStep
<1>4. CASE Quiet(m)
  BY <1>1, <1>2, <1>3, <1>4 DEF Quiet, LogInv, OneRowPerEvent
<1>5. CASE CommitChange(m)
  <2> DEFINE new == {[user |-> UserOf[m], area |-> a, stamp |-> m] : a \in Inserted(m)}
  <2>1. logs' = logs \union new /\ pc[m] = "locked" /\ pc'[m] = "reply"
    BY <1>5 DEF CommitChange, Awaits, ParkedType
  <2>2. \A r \in new : r.user = UserOf[m] /\ r.stamp = m
    OBVIOUS
  <2>3. \A r, s \in new : r.area = s.area => r = s
    OBVIOUS
  <2>4. \A k \in User \X Device : stored'[k] >= stored[k] /\ stored'[k] \in Int /\ stored[k] \in Int
    BY <1>5, SeqGrows, StepType DEF ParkedType
  <2>5. HasSeq(m) => stored[Identity(m)] < SeqNoOf[m] /\ stored'[Identity(m)] = SeqNoOf[m]
    BY <1>5, SeqGrows
  <2>6. SeqNoOf \in [Call -> Nat]
    BY ParkedAssumption
  <2>7. \A x \in Call : HasSeq(x) => Identity(x) \in User \X Device
    BY ParkedAssumption DEF HasSeq, Identity
  <2>8. \A r \in logs : /\ r.user = UserOf[r.stamp]
                        /\ pc'[r.stamp] \in {"reply", "del", "done"}
                        /\ HasSeq(r.stamp) => SeqNoOf[r.stamp] <= stored'[Identity(r.stamp)]
    BY <1>1, <1>2, <1>3, <2>4, <2>6, <2>7 DEF LogInv
  <2>9. \A r \in new : /\ r.user = UserOf[r.stamp]
                       /\ pc'[r.stamp] \in {"reply", "del", "done"}
                       /\ HasSeq(r.stamp) => SeqNoOf[r.stamp] <= stored'[Identity(r.stamp)]
    BY <2>1, <2>2, <2>5, <2>6
  <2>10. \A r \in logs : (HasSeq(m) /\ Identity(r.stamp) = Identity(m))
                           => SeqNoOf[r.stamp] # SeqNoOf[m]
    <3> SUFFICES ASSUME NEW r \in logs, HasSeq(m), Identity(r.stamp) = Identity(m),
                        SeqNoOf[r.stamp] = SeqNoOf[m]
                 PROVE  FALSE
      OBVIOUS
    <3>1. HasSeq(r.stamp)
      BY DEF HasSeq, Identity
    <3>2. SeqNoOf[m] <= stored[Identity(m)] /\ SeqNoOf[m] \in Nat
      BY <1>2, <2>6, <3>1 DEF LogInv
    <3> QED BY <2>4, <2>5, <2>7, <3>2
  <2>11. OneRowPerEvent'
    <3> SUFFICES ASSUME NEW r \in logs', NEW s \in logs', HasSeq(r.stamp), r.area = s.area,
                        Identity(r.stamp) = Identity(s.stamp),
                        SeqNoOf[r.stamp] = SeqNoOf[s.stamp]
                 PROVE  r = s
      BY DEF OneRowPerEvent, HasSeq, Identity
    <3>1. HasSeq(s.stamp)
      BY DEF HasSeq, Identity
    <3>2. CASE r \in logs /\ s \in logs
      BY <3>2 DEF LogInv, OneRowPerEvent
    <3>3. CASE r \in new /\ s \in new
      BY <2>3, <3>3
    <3>4. CASE r \in logs /\ s \in new
      BY <2>2, <2>10, <3>1, <3>4
    <3>5. CASE r \in new /\ s \in logs
      BY <2>2, <2>10, <3>5
    <3> QED BY <2>1, <3>2, <3>3, <3>4, <3>5
  <2> HIDE DEF new
  <2> QED BY <2>1, <2>8, <2>9, <2>11 DEF LogInv, HasSeq, Identity
<1> QED BY <1>4, <1>5, StepIsQuiet

\* Deleting an area takes its rows away.
LEMMA OutsideLog ==
    ASSUME LogInv, Outside
    PROVE  LogInv'
<1>1. logs' \subseteq logs /\ pc' = pc /\ stored' = stored
  BY DEF Outside, Expire, AreaDeleted, LateSet, DeleteArea, tableVars, callVars
<1> QED BY <1>1 DEF LogInv, OneRowPerEvent

-----------------------------------------------------------------------------
(***************************************************************************)
(* The cache.                                                              *)
(***************************************************************************)

\* What the history remembers is not forgotten.
LEMMA HistoryGrows ==
    ASSUME NEW m \in Call, Step(m)
    PROVE  Excused \subseteq Excused'
BY DEF Step, Start, CallStep, CacheGet, CacheGetFails, HintRead, Populate, Locks,
       CommitDuplicate, CommitChange, ForeignKeyFails, DbFails, Reply, LostReply, Invalidate,
       InvalidateFails, historyVars, Excused

\* Other users' entries in the cache are left alone.
LEMMA OtherEntries ==
    ASSUME NEW m \in Call, Step(m), NEW u \in User, u # UserOf[m]
    PROVE  (u \in DOMAIN cache' <=> u \in DOMAIN cache) /\ (u \in DOMAIN cache => cache'[u] = cache[u])
<1>1. CASE cache' = cache
  BY <1>1
<1>2. CASE cache' = Put(cache, UserOf[m], hint[m])
  BY <1>2 DEF Put
<1>3. CASE cache' = Restrict(cache, DOMAIN cache \ {UserOf[m]})
  BY <1>3 DEF Restrict
<1> QED BY <1>1, <1>2, <1>3
        DEF Step, Start, CallStep, CacheGet, CacheGetFails, HintRead, Populate, Locks,
            CommitDuplicate, CommitChange, ForeignKeyFails, DbFails, Reply, LostReply,
            Invalidate, InvalidateFails

\* The call's own user: one call at a time, and every commit followed by its DEL.
LEMMA OwnEntry ==
    ASSUME ParkedInv, NEW m \in Call, Step(m), UserOf[m] \notin Excused'
    PROVE  /\ \A x \in Call : (UserOf[x] = UserOf[m] /\ (pc'[x] = "populate" \/ x \in late'))
                                => (hint[x] \intersect Live \subseteq presence[UserOf[m]])'
           /\ (UserOf[m] \in DOMAIN cache' /\ Committed(UserOf[m])' = {})
                => (cache[UserOf[m]] \intersect Live \subseteq presence[UserOf[m]])'
<1> DEFINE u == UserOf[m]
<1>1. u \in User /\ u \notin Excused
  BY HistoryGrows, ParkedAssumption
<1>2. pc[m] # "done" /\ (pc[m] = "new" => Start(m))
  BY OwnStep DEF ParkedInv
<1>3. /\ \A x \in Call : (UserOf[x] = u /\ (pc[x] = "populate" \/ x \in late))
                           => hint[x] \intersect Live \subseteq presence[u]
      /\ (u \in DOMAIN cache /\ Committed(u) = {}) => cache[u] \intersect Live \subseteq presence[u]
      /\ \A x \in Call : (UserOf[x] = u /\ x # m /\ pc[m] # "new") => pc[x] \in {"new", "done"}
      /\ late \subseteq Call \ {m}
  BY <1>1, <1>2 DEF ParkedInv, ParkedType, CacheInv, InFlight
<1>4. \A x \in Call \ {m} : pc'[x] = pc[x] /\ hint'[x] = hint[x]
  BY OthersUnchanged DEF ParkedInv
<1>5. CASE CommitDuplicate(m) \/ CommitChange(m) \/ Reply(m)
  <2>1. pc[m] # "new" /\ pc'[m] \in {"reply", "del"}
    BY <1>5, OwnStep DEF ParkedInv, ParkedType, CommitDuplicate, CommitChange, Reply, Awaits
  <2>2. m \in Committed(u)'
    BY <2>1 DEF Committed
  <2>3. late' = late
    BY <1>5 DEF CommitDuplicate, CommitChange, Reply
  <2>4. CASE CommitChange(m)
    <3>1. \A x \in late : UserOf[x] # u
      BY <2>4 DEF CommitChange, Excused
    <3> QED BY <1>3, <1>4, <2>1, <2>2, <2>3, <3>1
  <2>5. CASE CommitDuplicate(m) \/ Reply(m)
    <3>1. presence' = presence /\ Live' = Live
      BY <2>5 DEF CommitDuplicate, Reply, tableVars, Live
    <3> QED BY <1>3, <1>4, <2>1, <2>2, <2>3, <3>1
  <2> QED BY <1>5, <2>4, <2>5
<1>6. CASE ~(CommitDuplicate(m) \/ CommitChange(m) \/ Reply(m))
  <2>1. Quiet(m)
    BY <1>6, StepIsQuiet
  <2>2. presence' = presence /\ Live' = Live
    BY <2>1 DEF Quiet, Live
  <2>3. pc'[m] \notin {"reply", "del"}
    BY <1>6, OwnStep DEF ParkedInv
  <2>4. CASE Populate(m)
    <3>1. pc[m] = "populate" /\ pc'[m] = "done"
      BY <2>4 DEF Populate, Ends, ParkedInv, ParkedType
    <3>2. \A x \in Call : UserOf[x] = u => pc'[x] # "populate" /\ pc[x] \notin {"reply", "del"}
      BY <1>3, <1>4, <3>1
    <3>3. Committed(u) = {} /\ hint[m] \intersect Live \subseteq presence[u]
      BY <1>3, <3>1, <3>2 DEF Committed
    <3>4. /\ cache' = cache \/ cache'[u] = hint[m]
          /\ late' \subseteq late \union {m} /\ hint' = hint
      BY <2>4 DEF Populate, Put
    <3> QED BY <1>3, <2>2, <3>2, <3>3, <3>4
  <2>5. CASE Invalidate(m)
    <3>1. pc[m] = "del" /\ pc'[m] = "done"
      BY <2>5 DEF Invalidate, Ends, ParkedInv, ParkedType
    <3>2. u \notin DOMAIN cache' /\ late' = late
      BY <2>5 DEF Invalidate, Restrict
    <3> QED BY <1>3, <1>4, <2>2, <3>1, <3>2
  <2>6. CASE LostReply(m) \/ InvalidateFails(m)
    BY <2>6 DEF LostReply, InvalidateFails, Excused
  <2>7. CASE HintRead(m)
    <3>1. pc[m] = "hint" /\ hint'[m] = presence[u] /\ cache' = cache /\ late' = late
      BY <2>7 DEF HintRead, Fork, ParkedInv, ParkedType
    <3>2. Committed(u) = {}
      BY <1>3, <3>1 DEF Committed
    <3> QED BY <1>3, <1>4, <2>2, <3>1, <3>2
  <2>8. CASE \/ Start(m) \/ CacheGet(m) \/ CacheGetFails(m) \/ Locks(m)
             \/ ForeignKeyFails(m) \/ DbFails(m)
    <3>1. cache' = cache /\ late' = late
      BY <2>8 DEF Start, CacheGet, CacheGetFails, Locks, ForeignKeyFails, DbFails
    <3>2. pc[m] \notin {"reply", "del"} /\ pc'[m] # "populate"
      BY <2>8 DEF Start, CacheGet, CacheGetFails, Locks, ForeignKeyFails, DbFails,
                  Fork, Awaits, Ends, ParkedInv, ParkedType
    <3>3. Committed(u)' = {} => Committed(u) = {}
      BY <1>4, <3>2 DEF Committed
    <3> QED BY <1>3, <1>4, <2>2, <3>1, <3>2, <3>3
  <2> QED BY <1>6, <2>4, <2>5, <2>6, <2>7, <2>8 DEF Step, CallStep
<1> QED BY <1>5, <1>6

\* A step of a call keeps the cache harmless.
LEMMA StepCache ==
    ASSUME ParkedInv, NEW m \in Call, Step(m)
    PROVE  CacheInv'
<1>1. ParkedType /\ LockInv /\ CacheInv
  BY DEF ParkedInv
<1>2. \A x \in Call \ {m} : pc'[x] = pc[x] /\ hint'[x] = hint[x] /\ cacheRead'[x] = cacheRead[x]
  BY <1>1, OthersUnchanged
<1>3. pc'[m] = "hint" => cacheRead'[m] # "hit"
  <2> SUFFICES ASSUME pc'[m] = "hint" PROVE cacheRead'[m] # "hit"
    OBVIOUS
  <2>1. CacheGet(m) \/ CacheGetFails(m)
    BY <1>1, OwnStep
  <2> QED BY <1>1, <2>1 DEF CacheGet, CacheGetFails, Fork, Awaits, Ends, ParkedType
<1>4. \A x \in Call : pc'[x] = "hint" => cacheRead'[x] # "hit"
  BY <1>1, <1>2, <1>3 DEF CacheInv
<1>5. \A x \in late' : pc'[x] = "done"
  <2>1. late' = late \/ (Populate(m) /\ late' \subseteq late \union {m})
    BY DEF Step, Start, CallStep, CacheGet, CacheGetFails, HintRead, Populate, Locks,
           CommitDuplicate, CommitChange, ForeignKeyFails, DbFails, Reply, LostReply,
           Invalidate, InvalidateFails
  <2>2. Populate(m) => pc'[m] = "done"
    BY <1>1, OwnStep DEF Populate, Ends, ParkedType
  <2>3. \A x \in late : x \in Call /\ pc[x] = "done"
    BY <1>1 DEF CacheInv, ParkedType
  <2>4. pc[m] # "done"
    BY <1>1, OwnStep
  <2> QED BY <1>2, <2>1, <2>2, <2>3, <2>4
<1>6. ASSUME NEW u \in User, u \notin Excused'
      PROVE  /\ \A x, y \in InFlight' : (UserOf[x] = u /\ UserOf[y] = u) => x = y
             /\ \A x \in Call : (UserOf[x] = u /\ (pc'[x] = "populate" \/ x \in late'))
                                  => (hint[x] \intersect Live \subseteq presence[u])'
             /\ (u \in DOMAIN cache' /\ Committed(u)' = {})
                  => (cache[u] \intersect Live \subseteq presence[u])'
  <2>1. u \notin Excused
    BY <1>6, HistoryGrows
  <2>2. \A x, y \in InFlight : (UserOf[x] = u /\ UserOf[y] = u) => x = y
    BY <1>1, <2>1 DEF CacheInv
  <2>3. \A x, y \in InFlight' : (UserOf[x] = u /\ UserOf[y] = u) => x = y
    <3>1. CASE pc[m] = "new" /\ UserOf[m] = u
      <4>1. Start(m)
        BY <1>1, <3>1, OwnStep
      <4>2. InFlight' \subseteq InFlight \union {m}
        BY <1>2 DEF InFlight
      <4>3. CASE m \in Inaccurate
        <5>1. m \notin InFlight'
          BY <1>1, <4>1, <4>3 DEF Start, Ends, InFlight, ParkedType
        <5> QED BY <2>2, <4>2, <5>1
      <4>4. CASE m \notin Inaccurate
        <5>1. \A x \in InFlight : UserOf[x] # u
          BY <1>6, <3>1, <4>1, <4>4 DEF Start, Excused
        <5> QED BY <4>2, <5>1
      <4> QED BY <4>3, <4>4
    <3>2. CASE pc[m] # "new" \/ UserOf[m] # u
      <4>1. pc[m] # "done"
        BY <1>1, OwnStep
      <4>2. \A x \in InFlight' : UserOf[x] = u => x \in InFlight
        BY <1>2, <3>2, <4>1 DEF InFlight
      <4> QED BY <2>2, <4>2
    <3> QED BY <3>1, <3>2
  <2>4. CASE UserOf[m] = u
    BY <1>6, <2>3, <2>4, OwnEntry
  <2>5. CASE UserOf[m] # u
    <3>1. presence'[u] = presence[u] /\ Live' = Live
      <4>1. CASE Quiet(m)
        BY <4>1 DEF Quiet, Live
      <4>2. CASE CommitChange(m)
        BY <1>1, <2>5, <4>2, CommitResult, ParkedAssumption DEF ParkedType
      <4> QED BY <4>1, <4>2, StepIsQuiet
    <3>2. /\ u \in DOMAIN cache' <=> u \in DOMAIN cache
          /\ u \in DOMAIN cache => cache'[u] = cache[u]
      BY <2>5, OtherEntries
    <3>3. Committed(u)' = Committed(u)
      BY <1>2, <2>5 DEF Committed
    <3>4. \A x \in Call : UserOf[x] = u => pc'[x] = pc[x] /\ hint'[x] = hint[x]
      BY <1>2, <2>5
    <3>5. \A x \in Call : (UserOf[x] = u /\ x \in late') => x \in late
      BY <2>5 DEF Step, Start, CallStep, CacheGet, CacheGetFails, HintRead, Populate, Locks,
                  CommitDuplicate, CommitChange, ForeignKeyFails, DbFails, Reply, LostReply,
                  Invalidate, InvalidateFails
    <3> QED BY <1>1, <2>1, <2>3, <3>1, <3>2, <3>3, <3>4, <3>5 DEF CacheInv
  <2> QED BY <2>4, <2>5
<1> QED BY <1>4, <1>5, <1>6 DEF CacheInv

\* The TTL only forgets; a deleted area is in nobody's presence and not live; a SET
\* that is late writes what was found harmless.
LEMMA OutsideCache ==
    ASSUME ParkedType, CacheInv, Outside
    PROVE  CacheInv'
<1>1. ASSUME NEW v \in User, Expire(v) PROVE CacheInv'
  <2>1. /\ UNCHANGED <<pc, hint, cacheRead, presence, areaState, late, Excused>>
        /\ DOMAIN cache' \subseteq DOMAIN cache
        /\ \A u \in DOMAIN cache' : cache'[u] = cache[u]
    BY <1>1 DEF Expire, Restrict, callVars, tableVars, historyVars, Excused
  <2>2. Live' = Live /\ InFlight' = InFlight /\ \A u \in User : Committed(u)' = Committed(u)
    BY <2>1 DEF Live, InFlight, Committed
  <2> QED BY <2>1, <2>2 DEF CacheInv
<1>2. ASSUME NEW a \in Area, AreaDeleted(a) PROVE CacheInv'
  <2>1. UNCHANGED <<pc, hint, cacheRead, cache, late, Excused>>
    BY <1>2 DEF AreaDeleted, callVars, historyVars, Excused
  <2>2. Live' = Live \ {a} /\ \A u \in User : presence'[u] = presence[u] \ {a}
    BY <1>2 DEF AreaDeleted, DeleteArea, Live, ParkedType
  <2>3. InFlight' = InFlight /\ \A u \in User : Committed(u)' = Committed(u)
    BY <2>1 DEF InFlight, Committed
  <2> QED BY <2>1, <2>2, <2>3 DEF CacheInv
<1>3. ASSUME NEW m \in Call, LateSet(m) PROVE CacheInv'
  <2> DEFINE v == UserOf[m]
  <2>1. UNCHANGED <<pc, hint, cacheRead, presence, areaState, Excused>>
    BY <1>3 DEF LateSet, callVars, tableVars, historyVars, Excused
  <2>2. /\ m \in late /\ late' \subseteq late /\ late \subseteq Call
        /\ cache'[v] = hint[m]
        /\ \A u \in DOMAIN cache' : u # v => u \in DOMAIN cache /\ cache'[u] = cache[u]
    BY <1>3 DEF LateSet, Put, ParkedType
  <2>3. Live' = Live /\ InFlight' = InFlight /\ \A u \in User : Committed(u)' = Committed(u)
    BY <2>1 DEF Live, InFlight, Committed
  <2>4. v \in User \ Excused => hint[m] \intersect Live \subseteq presence[v]
    BY <2>2 DEF CacheInv
  <2> QED BY <2>1, <2>2, <2>3, <2>4 DEF CacheInv
<1> QED BY <1>1, <1>2, <1>3 DEF Outside

\* An entry is hidden only where the history says why.
LEMMA StepSuppression ==
    ASSUME ParkedInv, NEW m \in Call, Step(m)
    PROVE  SuppressionExplained'
<1>1. ParkedType /\ CacheInv /\ SuppressionExplained
  BY DEF ParkedInv
<1>2. Excused \subseteq Excused'
  BY HistoryGrows
<1>3. uncleared' # {} => flaps' + outages' > 0
  <2>1. flaps \in Nat /\ outages \in Nat /\ (uncleared # {} => flaps + outages > 0)
    BY <1>1 DEF ParkedType, SuppressionExplained
  <2>2. CASE UNCHANGED <<uncleared, flaps, outages>>
    BY <2>1, <2>2
  <2>3. CASE InvalidateFails(m)
    BY <2>1, <2>3 DEF InvalidateFails
  <2> QED BY <2>2, <2>3
          DEF Step, Start, CallStep, CacheGet, CacheGetFails, HintRead, Populate, Locks,
              CommitDuplicate, CommitChange, ForeignKeyFails, DbFails, Reply, LostReply,
              Invalidate, historyVars, metricVars
<1>4. CASE suppressed' = suppressed
  BY <1>1, <1>2, <1>4, <1>3 DEF SuppressionExplained, Excused
<1>5. CASE CacheGet(m) \/ HintRead(m)
  <2> DEFINE u == UserOf[m]
  <2>1. CASE u \in Excused
    <3>1. suppressed' \subseteq suppressed \union {m}
      BY <1>5 DEF CacheGet, HintRead, Fork
    <3> QED BY <1>1, <1>2, <1>3, <2>1, <3>1 DEF SuppressionExplained, Excused
  <2>2. CASE u \notin Excused
    <3>1. u \in User
      BY ParkedAssumption
    <3>2. HintRead(m) => suppressed' = suppressed
      BY <1>1 DEF HintRead, Fork, CacheInv
    <3>3. CacheGet(m) => suppressed' = suppressed
      <4> SUFFICES ASSUME CacheGet(m), u \in DOMAIN cache, Fork(m, "hit", cache[u])
                   PROVE  suppressed' = suppressed
        BY DEF CacheGet
      <4>1. pc[m] = "get"
        BY DEF CacheGet
      <4>2. Committed(u) = {}
        BY <1>1, <2>2, <3>1, <4>1 DEF CacheInv, InFlight, Committed
      <4>3. cache[u] \intersect Live \subseteq presence[u]
        BY <1>1, <2>2, <3>1, <4>2 DEF CacheInv
      <4>4. ~Differs(Cover[m], cache[u]) => Cover[m] \intersect Live \subseteq presence[u]
        BY <4>3 DEF Differs
      <4> QED BY <4>4 DEF Fork
    <3> QED BY <1>4, <1>5, <3>2, <3>3
  <2> QED BY <2>1, <2>2
<1> QED BY <1>4, <1>5
        DEF Step, Start, CallStep, CacheGetFails, Populate, Locks, CommitDuplicate,
            CommitChange, ForeignKeyFails, DbFails, Reply, LostReply, Invalidate,
            InvalidateFails, historyVars

-----------------------------------------------------------------------------
(***************************************************************************)
(* The invariant is inductive.                                             *)
(***************************************************************************)

\* Before the first call everything is empty.
LEMMA InitInv == Init => ParkedInv
<1> SUFFICES ASSUME Init PROVE ParkedInv
  OBVIOUS
<1>1. ParkedType
  BY DEF Init, TablesInit, ParkedType
<1>2. LockInv
  BY DEF Init, TablesInit, LockInv
<1>3. LogInv
  BY DEF Init, TablesInit, LogInv, OneRowPerEvent
<1>4. CacheInv
  BY DEF Init, CacheInv, InFlight
<1>5. SuppressionExplained
  BY DEF Init, SuppressionExplained
<1> QED BY <1>1, <1>2, <1>3, <1>4, <1>5 DEF ParkedInv

\* Next is a step of some call or one from outside.
LEMMA NextIs ==
    ASSUME Next
    PROVE  (\E m \in Call : Step(m)) \/ Outside
BY DEF Next, Step, Outside

\* Every step keeps the invariant.
LEMMA NextInv == ParkedInv /\ [Next]_vars => ParkedInv'
<1> SUFFICES ASSUME ParkedInv, [Next]_vars PROVE ParkedInv'
  OBVIOUS
<1>1. ParkedType /\ LockInv /\ LogInv /\ CacheInv /\ SuppressionExplained
  BY DEF ParkedInv
<1>2. ASSUME NEW m \in Call, Step(m) PROVE ParkedInv'
  BY <1>1, <1>2, StepType, StepLock, StepLog, StepCache, StepSuppression DEF ParkedInv
<1>3. CASE Outside
  <2>1. SuppressionExplained'
    BY <1>1, <1>3 DEF SuppressionExplained, Outside, Expire, AreaDeleted, LateSet, historyVars,
                      metricVars
  <2> QED BY <1>1, <1>3, <2>1, OutsideType, OutsideLock, OutsideLog, OutsideCache DEF ParkedInv
<1>4. CASE UNCHANGED vars
  <2>1. UNCHANGED <<areaState, presence, logs, stored, cache, pc, answer, cacheRead, hint,
                    late, flaps, outages, overlapped, outrun, unsent, uncleared, suppressed>>
    BY <1>4 DEF vars, tableVars, callVars, historyVars, metricVars
  <2>2. ParkedType'
    BY <1>1, <2>1 DEF ParkedType
  <2>3. LockInv'
    BY <1>1, <2>1 DEF LockInv, Live
  <2>4. LogInv'
    BY <1>1, <2>1 DEF LogInv, OneRowPerEvent
  <2>5. CacheInv'
    BY <1>1, <2>1 DEF CacheInv, InFlight, Live, Committed, Excused
  <2>6. SuppressionExplained'
    BY <1>1, <2>1 DEF SuppressionExplained
  <2> QED BY <2>2, <2>3, <2>4, <2>5, <2>6 DEF ParkedInv
<1> QED BY <1>2, <1>3, <1>4, NextIs

\* The invariant holds in every reachable state.
LEMMA InvHolds == Spec => []ParkedInv
BY InitInv, NextInv, PTL DEF Spec

-----------------------------------------------------------------------------
(***************************************************************************)
(* What report promises.                                                   *)
(***************************************************************************)

\* report: a resent event never logs an entry twice, however many calls run at
\* once and whichever of them fail.
THEOREM EventLoggedOnce == Spec => []OneRowPerEvent
<1>1. ParkedInv => OneRowPerEvent
  BY DEF ParkedInv, LogInv
<1> QED BY <1>1, InvHolds, PTL

\* The presence cache hides an entry only after overlapping calls, a DEL that was
\* not carried out, or a change that overtook a SET its caller had given up on.
\* The last needs no second call in flight and no failed DEL: commandTimeout ends
\* the call, not its command.
THEOREM CacheIsExplained == Spec => []SuppressionExplained
<1>1. ParkedInv => SuppressionExplained
  BY DEF ParkedInv
<1> QED BY <1>1, InvHolds, PTL

\* user_event_state.last_seq never goes back, for any device of any user.
THEOREM SeqOnlyGrows == Spec => SeqNeverBack
<1>1. ParkedInv /\ [Next]_vars => [\A k \in User \X Device : stored'[k] >= stored[k]]_vars
  <2> SUFFICES ASSUME ParkedInv, Next
               PROVE  \A k \in User \X Device : stored'[k] >= stored[k]
    OBVIOUS
  <2>1. stored \in [User \X Device -> Int] /\ ParkedType
    BY DEF ParkedInv, ParkedType
  <2>2. CASE stored' = stored
    BY <2>1, <2>2
  <2>3. ASSUME NEW m \in Call, CommitChange(m)
        PROVE  \A k \in User \X Device : stored'[k] >= stored[k]
    BY <2>1, <2>3, SeqGrows
  <2>4. stored' = stored \/ \E m \in Call : CommitChange(m)
    BY NextIs, StepIsQuiet DEF Quiet, Outside, Expire, AreaDeleted, LateSet
  <2> QED BY <2>2, <2>3, <2>4
<1> QED BY <1>1, InvHolds, PTL DEF Spec, SeqNeverBack

\* A commit leaves the user exactly in the areas its call reported, less the
\* deleted ones, whatever committed since the call read its hint.
THEOREM CommitsAreExact == Spec => CommitIsExact
<1>1. ParkedInv /\ [Next]_vars =>
        [\A m \in Call : (pc[m] = "locked" /\ pc'[m] = "reply" /\ answer'[m] # "duplicate")
           => presence'[UserOf[m]] = Cover[m] \intersect Live]_vars
  <2> SUFFICES ASSUME ParkedInv, Next, NEW m \in Call, pc[m] = "locked", pc'[m] = "reply",
                      answer'[m] # "duplicate"
               PROVE  presence'[UserOf[m]] = Cover[m] \intersect Live
    OBVIOUS
  <2>1. ParkedType /\ LockInv
    BY DEF ParkedInv
  <2>2. pc' # pc
    OBVIOUS
  <2>3. PICK x \in Call : Step(x)
    BY <2>2, NextIs DEF Outside, Expire, AreaDeleted, LateSet, callVars
  <2>4. x = m
    BY <2>1, <2>3, OthersUnchanged
  <2>5. CommitDuplicate(m) \/ CommitChange(m)
    BY <2>1, <2>3, <2>4, OwnStep
  <2>6. CommitChange(m)
    BY <2>1, <2>5 DEF CommitDuplicate, ParkedType
  <2> QED BY <2>1, <2>6, CommitResult, ParkedAssumption DEF ParkedType
<1> QED BY <1>1, InvHolds, PTL DEF Spec, CommitIsExact

\* All calls together implement the abstract entry log: a row for each step from
\* outside to inside, in the step that moves the presence row, and nothing else.
THEOREM ReportImplementsEntryLog == Spec => ImplementsEntryLog
<1>1. Init => Log!Init
  BY DEF Init, TablesInit, Log!Init
<1>2. ParkedInv /\ [Next]_vars => [Log!Next]_(Log!vars)
  <2> SUFFICES ASSUME ParkedInv, [Next]_vars PROVE [Log!Next]_(Log!vars)
    OBVIOUS
  <2>1. ParkedType /\ LockInv /\ LogInv
    BY DEF ParkedInv
  <2>2. CASE presence' = presence /\ logs' = logs
    BY <2>2 DEF Log!vars
  <2>3. ASSUME NEW m \in Call, CommitChange(m) PROVE Log!Next
    <3> DEFINE u == UserOf[m]
               c == Cover[m] \intersect Live
    <3>1. /\ presence' = [presence EXCEPT ![u] = c] /\ Inserted(m) = c \ presence[u]
      BY <2>1, <2>3, CommitResult
    <3>2. logs' = logs \union {[user |-> u, area |-> a, stamp |-> m] : a \in c \ presence[u]}
      BY <2>3, <3>1 DEF CommitChange
    <3>3. \A r \in logs : r.stamp # m
      BY <2>1, <2>3 DEF LogInv, CommitChange
    <3>4. u \in User /\ c \in SUBSET Area
      BY ParkedAssumption DEF Live
    <3> HIDE DEF u, c
    <3>5. Log!Move(u, c, m)
      BY <3>1, <3>2, <3>3 DEF Log!Move
    <3> QED BY <3>4, <3>5 DEF Log!Next
  <2>4. ASSUME NEW a \in Area, AreaDeleted(a) PROVE Log!Next
    BY <2>4 DEF AreaDeleted, DeleteArea, Log!Next, Log!Drop
  <2>5. \/ presence' = presence /\ logs' = logs
        \/ \E m \in Call : CommitChange(m)
        \/ \E a \in Area : AreaDeleted(a)
    BY NextIs, StepIsQuiet DEF Quiet, Outside, Expire, LateSet, vars, tableVars
  <2> QED BY <2>2, <2>3, <2>4, <2>5
<1> QED BY <1>1, <1>2, InvHolds, PTL DEF Spec, ImplementsEntryLog, Log!Spec
=============================================================================
