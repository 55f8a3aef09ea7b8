---------------------------- MODULE ParkedReport ----------------------------
(***************************************************************************)
(* LocationsService.report as an API process runs it: without a presence   *)
(* memory, with PresenceCacheService in front of Postgres, the in-transaction*)
(* dedup and PresenceMetricsService.  Any number of calls run at once, also *)
(* of one user, in one process or several; they meet in Redis and Postgres. *)
(*                                                                         *)
(* A call awaits, in this order:                                           *)
(*   get       GET of the cached presence                                  *)
(*   hint      readPresenceUnlocked, after a miss or an error              *)
(*   populate  SET with a TTL, after a miss and no change                  *)
(*   txn       the user's advisory lock                                    *)
(*   locked    the rest of the transaction, presence read under the lock   *)
(*   reply     COMMIT's reply                                              *)
(*   del       DEL of the cached presence                                  *)
(*                                                                         *)
(* A Redis command fails for its caller after commandTimeout.  It may be on *)
(* the wire then, and be carried out later: a GET without effect, a DEL    *)
(* with that of the TTL (Expire), a SET as LateSet says.                   *)
(***************************************************************************)
EXTENDS PresenceTable, Integers, Functions

CONSTANTS
    Call,               \* the calls of report; a resent event is a call of its own
    None,
    UserOf,             \* call -> userId
    DeviceOf,           \* call -> deviceId, or None for an event without seq
    SeqNoOf,            \* call -> seq
    Device,
    Cover,              \* call -> areas of the snapshot that cover its position
    Inaccurate,         \* calls over MAX_ACCURACY_METERS
    MaxFaults           \* bound on failures: Redis commands, database errors, lost replies

ASSUME ParkedAssumption ==
    /\ None \notin Device
    /\ UserOf \in [Call -> User]
    /\ DeviceOf \in [Call -> Device \union {None}]
    /\ SeqNoOf \in [Call -> Nat]
    /\ Cover \in [Call -> SUBSET Area]
    /\ Inaccurate \subseteq Call
    /\ MaxFaults \in Nat

VARIABLES
    pc,             \* call -> "new" | what it awaits | "done"
    answer,         \* call -> "none" | "ok" | "duplicate" | "422" | "error"
    cacheRead,      \* call -> "none" | "hit" | "miss" | "error"
    hint,           \* call -> previousHint, under the lock previousAreaIds
    wrote,          \* call -> wroteAnything
    stored,         \* <<user, device>> -> user_event_state.last_seq, -1 for no row
    cache,          \* Redis: a partial function from users to sets of areas
    late,           \* calls whose SET timed out and may still be carried out
    flaps,          \* invalidateFailedGetsOkCount
    outages,        \* invalidateFailedGetsFailingCount
    noops,          \* changePathNoopCount
    overlapped,     \* users with two calls at once
    outrun,         \* users who changed while a SET of theirs was late
    unsent,         \* users whose COMMIT was not followed by a DEL
    uncleared,      \* users a DEL of whom failed
    suppressed,     \* calls answered "no change" by the cache that should have entered
    faults          \* what the bound counts

callVars == <<pc, answer, cacheRead, hint, wrote>>
metricVars == <<flaps, outages, noops>>
historyVars == <<overlapped, outrun, unsent, uncleared, suppressed>>
vars == <<tableVars, stored, cache, late, callVars, metricVars, historyVars, faults>>

InFlight == {m \in Call : pc[m] \notin {"new", "done"}}
HasSeq(m) == DeviceOf[m] # None
Identity(m) == <<UserOf[m], DeviceOf[m]>>

\* SET: the map f with the value v at k.
Put(f, k, v) == [x \in DOMAIN f \union {k} |-> IF x = k THEN v ELSE f[x]]

Init ==
    /\ TablesInit
    /\ pc = [m \in Call |-> "new"]
    /\ answer = [m \in Call |-> "none"]
    /\ cacheRead = [m \in Call |-> "none"]
    /\ hint = [m \in Call |-> {}]
    /\ wrote = [m \in Call |-> FALSE]
    /\ stored = [k \in User \X Device |-> -1]
    /\ cache = [u \in {} |-> {}] /\ late = {}
    /\ flaps = 0 /\ outages = 0 /\ noops = 0
    /\ overlapped = {} /\ outrun = {} /\ unsent = {} /\ uncleared = {} /\ suppressed = {}
    /\ faults = 0

Ends(m, how) ==
    /\ pc' = [pc EXCEPT ![m] = "done"]
    /\ answer' = [answer EXCEPT ![m] = how]

Awaits(m, what) ==
    /\ pc' = [pc EXCEPT ![m] = what]
    /\ answer' = answer

\* One more failure, within the bound.
Fails ==
    /\ faults < MaxFaults
    /\ faults' = faults + 1

\* A Redis command fails for its caller: no connection, or no reply in time.
RedisFails == Fails

-----------------------------------------------------------------------------
(***************************************************************************)
(* The hint and the fork.                                                  *)
(***************************************************************************)

\* report up to its first await.
Start(m) ==
    /\ pc[m] = "new"
    /\ \/ m \in Inaccurate /\ Ends(m, "422")
       \/ m \notin Inaccurate /\ Awaits(m, "get")
    /\ overlapped' = IF m \notin Inaccurate /\ \E x \in InFlight : UserOf[x] = UserOf[m]
                     THEN overlapped \union {UserOf[m]} ELSE overlapped
    /\ UNCHANGED <<tableVars, stored, cache, late, cacheRead, hint, wrote, metricVars,
                   outrun, unsent, uncleared, suppressed, faults>>

\* No apparent change ends the call, after a write-back if the cache was
\* cleanly empty; a change opens the transaction.
Fork(m, read, previous) ==
    /\ cacheRead' = [cacheRead EXCEPT ![m] = read]
    /\ hint' = [hint EXCEPT ![m] = previous]
    /\ \/ Differs(Cover[m], previous) /\ Awaits(m, "txn")
       \/ ~Differs(Cover[m], previous) /\ read = "miss" /\ Awaits(m, "populate")
       \/ ~Differs(Cover[m], previous) /\ read # "miss" /\ Ends(m, "ok")
    /\ suppressed' = IF read = "hit" /\ ~Differs(Cover[m], previous)
                        /\ ~(Cover[m] \intersect Live \subseteq presence[UserOf[m]])
                     THEN suppressed \union {m} ELSE suppressed
    /\ wrote' = wrote

\* presenceCache.get answers: a hit goes to the fork, anything else to Postgres.
CacheGet(m) ==
    /\ pc[m] = "get"
    /\ \/ /\ UserOf[m] \in DOMAIN cache
          /\ Fork(m, "hit", cache[UserOf[m]])
       \/ /\ UserOf[m] \notin DOMAIN cache
          /\ cacheRead' = [cacheRead EXCEPT ![m] = "miss"]
          /\ Awaits(m, "hint")
          /\ UNCHANGED <<hint, wrote, suppressed>>
    /\ UNCHANGED <<tableVars, stored, cache, late, metricVars, overlapped, outrun,
                   unsent, uncleared, faults>>

CacheGetFails(m) ==
    /\ pc[m] = "get"
    /\ RedisFails
    /\ cacheRead' = [cacheRead EXCEPT ![m] = "error"]
    /\ Awaits(m, "hint")
    /\ UNCHANGED <<tableVars, stored, cache, late, hint, wrote, metricVars, historyVars>>

\* readPresenceUnlocked
HintRead(m) ==
    /\ pc[m] = "hint"
    /\ Fork(m, cacheRead[m], presence[UserOf[m]])
    /\ UNCHANGED <<tableVars, stored, cache, late, metricVars, overlapped, outrun,
                   unsent, uncleared, faults>>

\* populate: the SET, or its failure, which is only logged; the SET may then be
\* on the wire or not have been sent.
Populate(m) ==
    /\ pc[m] = "populate"
    /\ \/ /\ cache' = Put(cache, UserOf[m], hint[m])
          /\ UNCHANGED <<late, faults>>
       \/ /\ RedisFails
          /\ late' \in {late, late \union {m}}
          /\ cache' = cache
    /\ Ends(m, "ok")
    /\ UNCHANGED <<tableVars, stored, cacheRead, hint, wrote, metricVars, historyVars>>

\* A SET nobody waits for is carried out, once or, when the client has to resend
\* it after a lost connection, again.  The commands of two processes are not
\* ordered, so it may follow another process's DEL; it may also be lost.
LateSet(m) ==
    /\ m \in late
    /\ cache' = Put(cache, UserOf[m], hint[m])
    /\ late' \in {late, late \ {m}}
    /\ UNCHANGED <<tableVars, stored, callVars, metricVars, historyVars, faults>>

\* The TTL every populate sets runs out.
Expire(u) ==
    /\ u \in DOMAIN cache
    /\ cache' = Restrict(cache, DOMAIN cache \ {u})
    /\ UNCHANGED <<tableVars, stored, late, callVars, metricVars, historyVars, faults>>

-----------------------------------------------------------------------------
(***************************************************************************)
(* The transaction.                                                        *)
(***************************************************************************)

\* Mutant of Locks: nobody waits for the lock.
LocksNothing(m) ==
    /\ pc[m] = "txn"
    /\ hint' = [hint EXCEPT ![m] = presence[UserOf[m]]]
    /\ Awaits(m, "locked")
    /\ UNCHANGED <<tableVars, stored, cache, late, cacheRead, wrote, metricVars,
                   historyVars, faults>>

\* lock_user_and_read_presence: the lock first, then the read.
Locks(m) ==
    /\ pc[m] = "txn"
    /\ \A x \in Call : UserOf[x] = UserOf[m] => pc[x] # "locked"
    /\ hint' = [hint EXCEPT ![m] = presence[UserOf[m]]]
    /\ Awaits(m, "locked")
    /\ UNCHANGED <<tableVars, stored, cache, late, cacheRead, wrote, metricVars,
                   historyVars, faults>>

\* Mutant of IsDuplicate: only the very last event counts as seen.
IsRepeat(m) == HasSeq(m) /\ SeqNoOf[m] = stored[Identity(m)]

IsDuplicate(m) == HasSeq(m) /\ SeqNoOf[m] <= stored[Identity(m)]

\* Mutant of StoresSeq: the upsert is missing.
StoresNothing(m) == stored' = stored

\* The upsert of user_event_state.
StoresSeq(m) ==
    stored' = IF HasSeq(m) THEN [stored EXCEPT ![Identity(m)] = SeqNoOf[m]] ELSE stored

\* A duplicate commits having written nothing.
CommitDuplicate(m) ==
    /\ pc[m] = "locked"
    /\ IsDuplicate(m)
    /\ pc' = [pc EXCEPT ![m] = "reply"]
    /\ answer' = [answer EXCEPT ![m] = "duplicate"]
    /\ UNCHANGED <<tableVars, stored, cache, late, cacheRead, hint, wrote, metricVars,
                   historyVars, faults>>

\* Mutant of Inserted: every covering area is logged.
InsertedAll(m) == Cover[m]

\* The areas whose insert returns a row, out of those the locked read lacks.
Inserted(m) == (Cover[m] \ hint[m]) \ presence[UserOf[m]]
Left(m) == hint[m] \ Cover[m]

\* Seq, presence, one log row per returned insert, exits, COMMIT.
CommitChange(m) ==
    /\ pc[m] = "locked"
    /\ ~IsDuplicate(m)
    /\ Inserted(m) \subseteq Live
    /\ StoresSeq(m)
    /\ presence' = [presence EXCEPT ![UserOf[m]] = (@ \union Inserted(m)) \ Left(m)]
    /\ logs' = logs \union
          {[user |-> UserOf[m], area |-> a, stamp |-> m] : a \in Inserted(m)}
    /\ wrote' = [wrote EXCEPT ![m] = Inserted(m) # {} \/ Left(m) # {}]
    /\ outrun' = IF \E x \in late : UserOf[x] = UserOf[m]
                 THEN outrun \union {UserOf[m]} ELSE outrun
    /\ Awaits(m, "reply")
    /\ UNCHANGED <<areaState, cache, late, cacheRead, hint, metricVars, overlapped, unsent,
                   uncleared, suppressed, faults>>

\* An entered area is gone: everything rolls back and the call throws.
ForeignKeyFails(m) ==
    /\ pc[m] = "locked"
    /\ ~IsDuplicate(m)
    /\ ~(Inserted(m) \subseteq Live)
    /\ Ends(m, "error")
    /\ UNCHANGED <<tableVars, stored, cache, late, cacheRead, hint, wrote, metricVars,
                   historyVars, faults>>

\* A database error, a lock wait past statement_timeout included.
DbFails(m) ==
    /\ pc[m] \in {"hint", "txn", "locked"}
    /\ Fails
    /\ Ends(m, "error")
    /\ UNCHANGED <<tableVars, stored, cache, late, cacheRead, hint, wrote, metricVars,
                   historyVars>>

\* COMMIT's reply: a change path that wrote nothing is counted, then DEL is sent.
Reply(m) ==
    /\ pc[m] = "reply"
    /\ noops' = IF answer[m] # "duplicate" /\ ~wrote[m] THEN noops + 1 ELSE noops
    /\ Awaits(m, "del")
    /\ UNCHANGED <<tableVars, stored, cache, late, cacheRead, hint, wrote, flaps, outages,
                   historyVars, faults>>

\* The driver throws after the COMMIT took effect: no DEL.
LostReply(m) ==
    /\ pc[m] = "reply"
    /\ Fails
    /\ Ends(m, "error")
    /\ unsent' = unsent \union {UserOf[m]}
    /\ UNCHANGED <<tableVars, stored, cache, late, cacheRead, hint, wrote, metricVars,
                   overlapped, outrun, uncleared, suppressed>>

Answer(m) == IF answer[m] = "duplicate" THEN "duplicate" ELSE "ok"

\* Mutant of Invalidate: the value is updated in place instead, from the hint.
InvalidateByUpdate(m) ==
    /\ pc[m] = "del"
    /\ cache' = Put(cache, UserOf[m], hint[m])
    /\ Ends(m, Answer(m))
    /\ UNCHANGED <<tableVars, stored, late, cacheRead, hint, wrote, metricVars,
                   historyVars, faults>>

\* invalidate: the DEL of every change-path call.
Invalidate(m) ==
    /\ pc[m] = "del"
    /\ cache' = Restrict(cache, DOMAIN cache \ {UserOf[m]})
    /\ Ends(m, Answer(m))
    /\ UNCHANGED <<tableVars, stored, late, cacheRead, hint, wrote, metricVars,
                   historyVars, faults>>

\* The DEL fails and is counted by whether this call's GET had succeeded.
InvalidateFails(m) ==
    /\ pc[m] = "del"
    /\ RedisFails
    /\ IF cacheRead[m] # "error" THEN flaps' = flaps + 1 /\ outages' = outages
                                 ELSE outages' = outages + 1 /\ flaps' = flaps
    /\ uncleared' = uncleared \union {UserOf[m]}
    /\ Ends(m, Answer(m))
    /\ UNCHANGED <<tableVars, stored, cache, late, cacheRead, hint, wrote, noops,
                   overlapped, outrun, unsent, suppressed>>

\* An operator deletes an area.  area_version does not move, so no snapshot,
\* and no Cover, changes.
AreaDeleted(a) ==
    /\ DeleteArea(a)
    /\ UNCHANGED <<stored, cache, late, callVars, metricVars, historyVars, faults>>

CallStep(m) ==
    \/ CacheGet(m) \/ HintRead(m) \/ Populate(m)
    \/ Locks(m) \/ CommitDuplicate(m) \/ CommitChange(m) \/ ForeignKeyFails(m)
    \/ Reply(m) \/ Invalidate(m)

Next ==
    \/ \E m \in Call : \/ Start(m) \/ CallStep(m) \/ CacheGetFails(m)
                       \/ DbFails(m) \/ LostReply(m) \/ InvalidateFails(m)
    \/ \E m \in Call : LateSet(m)
    \/ \E u \in User : Expire(u)
    \/ \E a \in Area : AreaDeleted(a)

Spec == Init /\ [][Next]_vars

-----------------------------------------------------------------------------
(***************************************************************************)
(* Correctness properties.                                                 *)
(***************************************************************************)

\* report: the dedup row is read and written under the user's lock, so an event
\* that is resent, also while its first call is still running, never logs the
\* entry into an area twice.
OneRowPerEvent ==
    \A r, s \in logs :
      (/\ HasSeq(r.stamp) /\ r.area = s.area
       /\ Identity(r.stamp) = Identity(s.stamp)
       /\ SeqNoOf[r.stamp] = SeqNoOf[s.stamp]) => r = s

\* ADR 0010: however calls interleave, last_seq never goes back.
SeqNeverBack == [][\A k \in User \X Device : stored'[k] >= stored[k]]_vars

\* report: "under the advisory lock, presence now equals currentAreaIds exactly".
\* Whatever other calls of the user committed since this call read its hint, its
\* commit leaves the user in the areas it reported, less the deleted ones.
CommitIsExact ==
    [][\A m \in Call : (pc[m] = "locked" /\ pc'[m] = "reply" /\ answer'[m] # "duplicate")
         => presence'[UserOf[m]] = Cover[m] \intersect Live]_vars

\* PresenceCacheService names two reasons for a stale key, a failed DEL and the
\* read-aside race.  A cached value hides an entry only for one of these or for two
\* more the code has: a lost COMMIT reply, after which no DEL is sent, and a SET that
\* timed out and was still on its way when the user changed.  A failing GET never
\* leads to it, nor does a failed SET that is carried out before the next change.
\* A DEL that failed shows in one of the two counters.
SuppressionExplained ==
    /\ \A m \in suppressed : UserOf[m] \in overlapped \union outrun \union unsent \union uncleared
    /\ uncleared # {} => flaps + outages > 0

\* The writes of all calls together, seen as the abstract entry log.
Log == INSTANCE EntryLog WITH Stamp <- Call
ImplementsEntryLog == Log!Spec
=============================================================================
