--------------------------- MODULE PublisherProofs ---------------------------
(***************************************************************************)
(* Proofs about the ingest path: a 202 means the event is queued, a 4xx    *)
(* that it never left; what is queued is what the worker can use; and there *)
(* is one way back to the broker at a time.  For any set of requests and    *)
(* bodies and any number of drops, refusals and channel errors.             *)
(***************************************************************************)
EXTENDS Publisher, TLAPS

\* The bodies that get past the parser, the DTO and the accuracy gate.
Admitted ==
    {b \in Body \ Oversized : ~ReportLocationFailure(b) /\ ~TooInaccurate(b.accuracy)}

\* What accept() makes of them.
Sent == {LocationEvent(b) : b \in Admitted}

\* The values the proofs rest on.
PublisherType ==
    /\ socket \in {"none", "open", "lost"}
    /\ timers \in Nat /\ dialing \in Nat
    /\ request \in [Event -> {"new", "waiting", "answered"}]
    /\ DOMAIN response = Event
    /\ wire \in [Event -> Sent \union {NoMessage}]
    /\ broker \in [Event -> {"absent", "sent", "stored", "dropped", "lost"}]
    /\ confirm \in [Event -> {"none", "ack", "nack"}]

\* A request that was not answered yet has no answer, and one that did not start
\* left nothing at the broker.
PendingInv ==
    \A e \in Event :
      /\ request[e] = "new" => broker[e] = "absent"
      /\ request[e] # "answered" => response[e] = NoResponse

\* What the broker has of an event, and confirms, was published.
BrokerInv ==
    \A e \in Event :
      /\ broker[e] # "absent" => wire[e] \in Sent
      /\ (Bound /\ confirm[e] = "ack") => broker[e] = "stored"

PublisherInv ==
    /\ PublisherType
    /\ PendingInv
    /\ BrokerInv
    /\ AnswerMatchesQueue
    /\ OneReconnect

-----------------------------------------------------------------------------
(***************************************************************************)
(* The error contract and the message.                                     *)
(***************************************************************************)

\* What the filter makes of the four errors of this path.
LEMMA CatchStatuses ==
    /\ Catch(MqUnavailableError).status = 503
    /\ Catch(PayloadTooLarge).status = 413
    /\ Catch(HttpException(400)).status = 400
    /\ Catch(HttpException(422)).status = 422
<1>1. Catch(MqUnavailableError).status = 503
  BY DEF Catch, MqUnavailableError, Unexpected, AsExposedClientError, IsTransientTimeout
<1>2. Catch(PayloadTooLarge).status = 413
  BY DEF Catch, PayloadTooLarge, Unexpected, AsExposedClientError
<1>3. Catch(HttpException(400)).status = 400
  BY DEF Catch, HttpException, Unexpected
<1>4. Catch(HttpException(422)).status = 422
  BY DEF Catch, HttpException, Unexpected
<1> QED BY <1>1, <1>2, <1>3, <1>4

\* An admitted body makes a message with a whole identity or none, an accuracy
\* the worker's own gate lets pass, and a date or nothing.
LEMMA SentIsUsable ==
    ASSUME NEW m \in Sent
    PROVE  /\ m.deviceId = Null <=> m.seq = Null
           /\ ~TooInaccurate(m.accuracy)
           /\ m.capturedAt \in DateString \union {Null}
<1>1. PICK b \in Admitted : m = LocationEvent(b)
  BY DEF Sent
<1>2. /\ ~ReportLocationFailure(b)
      /\ ~TooInaccurate(b.accuracy)
  BY DEF Admitted
<1>3. /\ m.deviceId = Nullish(b.deviceId, Null)
      /\ m.seq = Nullish(b.seq, Null)
      /\ m.accuracy = Nullish(b.accuracy, Null)
      /\ m.capturedAt = Nullish(b.capturedAt, Nullish(b.observedAt, Null))
  BY <1>1 DEF LocationEvent
<1>4. m.deviceId = Null <=> m.seq = Null
  <2>1. CASE b.deviceId = Absent /\ b.seq = Absent
    BY <2>1, <1>3 DEF Nullish, Missing
  <2>2. CASE b.deviceId \in Name /\ b.seq \in Nat
    BY <2>2, <1>3, PublisherAssumption DEF Nullish, Missing
  <2> QED BY <2>1, <2>2, <1>2 DEF ReportLocationFailure, IdentityFailure
<1>5. ~TooInaccurate(m.accuracy)
  BY <1>2, <1>3 DEF TooInaccurate, Nullish, Missing
<1>6. m.capturedAt \in DateString \union {Null}
  BY <1>2, <1>3 DEF ReportLocationFailure, Nullish, Missing
<1> QED BY <1>4, <1>5, <1>6

-----------------------------------------------------------------------------
(***************************************************************************)
(* The invariant.                                                          *)
(***************************************************************************)
\* A publisher that has not connected yet satisfies the invariant.
LEMMA InitInv == Init => PublisherInv
BY DEF Init, PublisherInv, PublisherType, PendingInv, BrokerInv, AnswerMatchesQueue,
       OneReconnect, NoResponse

\* Steps that touch the connection alone keep what is known of the requests.
LEMMA LinkKeeps ==
    ASSUME PublisherInv,
           request' = request, response' = response, wire' = wire,
           \/ broker' = broker /\ confirm' = confirm
           \/ FramesLost,
           socket' \in {"none", "open", "lost"}, timers' \in Nat, dialing' \in Nat,
           OneReconnect'
    PROVE  PublisherInv'
<1>1. PublisherType'
  BY DEF PublisherInv, PublisherType, FramesLost
<1>2. \A e \in Event :
        /\ confirm'[e] \in {confirm[e], "none"}
        /\ broker'[e] = broker[e] \/ (broker[e] = "sent" /\ broker'[e] = "lost")
  BY DEF FramesLost
<1>3. PendingInv' /\ BrokerInv' /\ AnswerMatchesQueue'
  BY <1>2 DEF PublisherInv, PublisherType, PendingInv, BrokerInv, AnswerMatchesQueue
<1> QED BY <1>1, <1>3 DEF PublisherInv

\* The connection's own steps.
LEMMA ConnectionKeeps ==
    ASSUME PublisherInv,
           Connected \/ ConnectFails \/ TimerFires \/ Drops \/ CloseEvent
             \/ ChannelError \/ Shutdown
    PROVE  PublisherInv'
<1> USE DEF PublisherInv, PublisherType, OneReconnect
<1>1. CASE Connected
  <2>1. /\ socket' = "open" /\ timers' = timers /\ dialing' = dialing - 1 /\ dialing > 0
        /\ request' = request /\ response' = response /\ wire' = wire
        /\ broker' = broker /\ confirm' = confirm
    BY <1>1 DEF Connected, requestVars
  <2> QED BY <2>1, LinkKeeps
<1>2. CASE ConnectFails
  <2>1. /\ socket' = socket /\ (timers' = timers \/ timers' = timers + 1)
        /\ dialing' = dialing - 1 /\ dialing > 0
        /\ request' = request /\ response' = response /\ wire' = wire
        /\ broker' = broker /\ confirm' = confirm
    BY <1>2 DEF ConnectFails, ScheduleReconnect, requestVars
  <2>2. OneReconnect' /\ timers' \in Nat /\ dialing' \in Nat
    BY <2>1
  <2> QED BY <2>1, <2>2, LinkKeeps
<1>3. CASE TimerFires
  <2>1. /\ socket' = socket /\ timers' = timers - 1 /\ timers > 0
        /\ dialing' = dialing + 1
        /\ request' = request /\ response' = response /\ wire' = wire
        /\ broker' = broker /\ confirm' = confirm
    BY <1>3 DEF TimerFires, requestVars
  <2> QED BY <2>1, LinkKeeps
<1>4. CASE Drops \/ ChannelError
  <2>1. /\ socket' \in {"lost", socket} /\ socket = "open"
        /\ timers' = timers /\ dialing' = dialing
        /\ request' = request /\ response' = response /\ wire' = wire
        /\ FramesLost
    BY <1>4 DEF Drops, ChannelError, requestVars
  <2> QED BY <2>1, LinkKeeps
<1>5. CASE CloseEvent
  <2>1. /\ socket = "lost" /\ socket' = "none"
        /\ (timers' = timers \/ timers' = timers + 1) /\ dialing' = dialing
        /\ request' = request /\ response' = response /\ wire' = wire
        /\ broker' = broker /\ confirm' = confirm
    BY <1>5 DEF CloseEvent, ScheduleReconnect, requestVars
  <2>2. OneReconnect' /\ timers' \in Nat /\ dialing' \in Nat
    BY <2>1
  <2> QED BY <2>1, <2>2, LinkKeeps
<1>6. CASE Shutdown
  <2>1. /\ socket' = "none" /\ timers' = 0 /\ dialing' = dialing
        /\ request' = request /\ response' = response /\ wire' = wire
        /\ FramesLost
    BY <1>6 DEF Shutdown, requestVars
  <2> QED BY <2>1, LinkKeeps
<1> QED BY <1>1, <1>2, <1>3, <1>4, <1>5, <1>6

\* An answer: a 202 only where the event is stored, a 4xx only where nothing was
\* sent.
LEMMA AnswerKeeps ==
    ASSUME PublisherInv, NEW e \in Event, NEW r,
           Answers(e, r), UNCHANGED linkVars, broker' = broker,
           confirm' = confirm \/ confirm' = [confirm EXCEPT ![e] = "none"],
           (Bound /\ r.status = 202) => broker[e] = "stored",
           r.status \in 400..499 => broker[e] = "absent"
    PROVE  PublisherInv'
<1> USE DEF PublisherInv, PublisherType
<1>1. PublisherType'
  BY DEF Answers, linkVars
<1>2. PendingInv' /\ BrokerInv'
  BY DEF Answers, PendingInv, BrokerInv
<1>3. AnswerMatchesQueue'
  BY DEF Answers, AnswerMatchesQueue
<1>4. OneReconnect'
  BY DEF OneReconnect, linkVars
<1> QED BY <1>1, <1>2, <1>3, <1>4

\* A request, through the gates to its refusal or its publish.
LEMMA AcceptKeeps ==
    ASSUME PublisherInv, NEW e \in Event, NEW b \in Body, Accept(e, b)
    PROVE  PublisherInv'
<1> USE DEF PublisherInv, PublisherType
<1>1. broker[e] = "absent" /\ request[e] = "new" /\ response[e] = NoResponse
  BY DEF Accept, PendingInv
<1>2. UNCHANGED linkVars /\ confirm' = confirm
  BY DEF Accept
<1>3. ASSUME NEW x \in {MqUnavailableError, PayloadTooLarge, HttpException(400),
                        HttpException(422)},
             Answers(e, Catch(x)), broker' = broker
      PROVE  PublisherInv'
  <2>1. Catch(x).status # 202
    BY CatchStatuses
  <2> QED BY <1>1, <1>2, <1>3, <2>1, AnswerKeeps
<1>4. CASE /\ b \in Admitted
           /\ request' = [request EXCEPT ![e] = "waiting"]
           /\ response' = response
           /\ wire' = [wire EXCEPT ![e] = LocationEvent(b)]
           /\ broker' = [broker EXCEPT ![e] = IF socket = "open" THEN "sent" ELSE "lost"]
  <2>1. LocationEvent(b) \in Sent
    BY <1>4 DEF Sent
  <2>2. PublisherType'
    BY <1>2, <1>4, <2>1 DEF linkVars
  <2>3. PendingInv'
    BY <1>1, <1>4 DEF PendingInv
  <2>4. BrokerInv'
    BY <1>1, <1>2, <1>4, <2>1 DEF BrokerInv
  <2>5. AnswerMatchesQueue'
    BY <1>1, <1>4 DEF AnswerMatchesQueue, NoResponse
  <2>6. OneReconnect'
    BY <1>2 DEF OneReconnect, linkVars
  <2> QED BY <2>2, <2>3, <2>4, <2>5, <2>6
<1>5. \/ \E x \in {MqUnavailableError, PayloadTooLarge, HttpException(400),
                   HttpException(422)} : Answers(e, Catch(x)) /\ broker' = broker
      \/ /\ b \in Admitted
         /\ request' = [request EXCEPT ![e] = "waiting"]
         /\ response' = response
         /\ wire' = [wire EXCEPT ![e] = LocationEvent(b)]
         /\ broker' = [broker EXCEPT ![e] = IF socket = "open" THEN "sent" ELSE "lost"]
  BY DEF Accept, Publish, Admitted
<1> QED BY <1>3, <1>4, <1>5

\* The broker's verdict on a message.
LEMMA VerdictKeeps ==
    ASSUME PublisherInv, NEW e \in Event, Confirms(e) \/ Nacks(e)
    PROVE  PublisherInv'
<1> USE DEF PublisherInv, PublisherType
<1>1. /\ broker[e] = "sent"
      /\ request' = request /\ response' = response /\ wire' = wire
      /\ socket' = socket /\ timers' = timers /\ dialing' = dialing
      /\ \/ /\ broker' = [broker EXCEPT ![e] = IF Bound THEN "stored" ELSE "dropped"]
            /\ confirm' = [confirm EXCEPT ![e] = "ack"]
         \/ /\ broker' = [broker EXCEPT ![e] = "dropped"]
            /\ confirm' = [confirm EXCEPT ![e] = "nack"]
  BY DEF Confirms, Nacks, linkVars, requestVars
<1>2. PublisherType'
  BY <1>1
<1>3. PendingInv'
  BY <1>1 DEF PendingInv
<1>4. BrokerInv'
  BY <1>1 DEF BrokerInv
<1>5. AnswerMatchesQueue'
  BY <1>1 DEF AnswerMatchesQueue
<1>6. OneReconnect'
  BY <1>1 DEF OneReconnect
<1> QED BY <1>2, <1>3, <1>4, <1>5, <1>6

\* The confirm callback and the timeout, whichever comes first.
LEMMA SettleKeeps ==
    ASSUME PublisherInv, NEW e \in Event, ConfirmArrives(e) \/ TimesOut(e)
    PROVE  PublisherInv'
<1> USE DEF PublisherInv, PublisherType
<1>1. /\ UNCHANGED linkVars /\ broker' = broker
      /\ confirm' = confirm \/ confirm' = [confirm EXCEPT ![e] = "none"]
  BY DEF ConfirmArrives, TimesOut
<1>2. CASE Answers(e, Catch(MqUnavailableError))
  BY <1>1, <1>2, CatchStatuses, AnswerKeeps
<1>3. CASE Answers(e, Accepted) /\ confirm[e] = "ack"
  <2>1. Accepted.status = 202
    BY DEF Accepted
  <2>2. Bound => broker[e] = "stored"
    BY <1>3 DEF BrokerInv
  <2> QED BY <1>1, <1>3, <2>1, <2>2, AnswerKeeps
<1>4. CASE UNCHANGED requestVars
  <2>1. request' = request /\ response' = response /\ wire' = wire
    BY <1>4 DEF requestVars
  <2>2. PublisherType'
    BY <1>1, <2>1 DEF linkVars
  <2>3. PendingInv' /\ BrokerInv' /\ AnswerMatchesQueue'
    BY <1>1, <2>1 DEF PendingInv, BrokerInv, AnswerMatchesQueue
  <2>4. OneReconnect'
    BY <1>1 DEF OneReconnect, linkVars
  <2> QED BY <2>2, <2>3, <2>4
<1> QED BY <1>2, <1>3, <1>4 DEF ConfirmArrives, TimesOut

\* Every step of the publisher keeps the invariant.
LEMMA NextInv == PublisherInv /\ [Next]_vars => PublisherInv'
<1> SUFFICES ASSUME PublisherInv, [Next]_vars PROVE PublisherInv'
  OBVIOUS
<1>1. CASE UNCHANGED vars
  BY <1>1 DEF vars, PublisherInv, PublisherType, PendingInv, BrokerInv,
              AnswerMatchesQueue, OneReconnect
<1> QED
  BY <1>1, ConnectionKeeps, AcceptKeeps, VerdictKeeps, SettleKeeps DEF Next

\* The invariant holds in every reachable state.
LEMMA InvHolds == Spec => []PublisherInv
BY InitInv, NextInv, PTL DEF Spec

-----------------------------------------------------------------------------
(***************************************************************************)
(* The theorems.                                                           *)
(***************************************************************************)

\* accept() answers by what publish() came to: a 202 only after the broker's
\* confirm of a stored message, a 4xx only before anything was written, whatever
\* the connection, the channel and the confirm timeout do in between.
THEOREM AnswerIsTrue == Spec => []AnswerMatchesQueue
<1>1. PublisherInv => AnswerMatchesQueue
  BY DEF PublisherInv
<1> QED BY <1>1, InvHolds, PTL

\* The DTO, the accuracy gate and the stamping of the event together keep half
\* identities, accuracies that report() refuses and what @IsDateString refuses out
\* of the queues.
THEOREM QueueIsUsable == Spec => []QueuedIsUsable
<1>1. PublisherInv => QueuedIsUsable
  <2> SUFFICES ASSUME PublisherInv, NEW e \in Event, broker[e] = "stored"
               PROVE  /\ wire[e].deviceId = Null <=> wire[e].seq = Null
                      /\ ~TooInaccurate(wire[e].accuracy)
                      /\ wire[e].capturedAt \in DateString \union {Null}
    BY DEF QueuedIsUsable
  <2>1. wire[e] \in Sent
    BY DEF PublisherInv, BrokerInv
  <2> QED BY <2>1, SentIsUsable
<1> QED BY <1>1, InvHolds, PTL

\* scheduleReconnect, connect and the close event hand one token around: there are
\* never two timers, two dials, or one of them beside a connection.
THEOREM OneWayBack == Spec => []OneReconnect
<1>1. PublisherInv => OneReconnect
  BY DEF PublisherInv
<1> QED BY <1>1, InvHolds, PTL
=============================================================================
