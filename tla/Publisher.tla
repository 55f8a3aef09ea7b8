------------------------------ MODULE Publisher ------------------------------
(***************************************************************************)
(* POST /locations up to its answer: LocationIngestService.accept and      *)
(* MqPublisherService, with the broker as it is used.  The connection has  *)
(* its reconnect timer; a publish is answered 202 on the broker's confirm, *)
(* and otherwise what ErrorContract makes of the error.  At most one       *)
(* connection is tracked at a time, so its state is that of one socket.    *)
(***************************************************************************)
EXTENDS ErrorContract, Integers

CONSTANTS
    Event,              \* the requests
    Body,               \* their bodies, records with the fields of the DTO
    Oversized,          \* the bodies body-parser refuses
    Name,               \* strings that are not empty and not too long
    DateString,         \* what @IsDateString takes for an ISO 8601 date
    MaxAccuracy,        \* MAX_ACCURACY_METERS
    Absent, Null,       \* a field that is not there, a JSON null
    Bound,              \* whether the exchange routes to a partition queue
    MaxAttempts,        \* cap on reconnectAttempt, beyond which only the delay's
                        \* cap would show
    MaxDrops,           \* bound on lost connections
    MaxRefusals,        \* bound on failed connects
    MaxChannelErrors    \* bound on channels closed by the broker

ASSUME PublisherAssumption ==
    /\ Oversized \subseteq Body
    /\ Absent # Null /\ MaxAccuracy \in Nat
    /\ Absent \notin Name \union Nat /\ Null \notin Name \union Nat
    /\ Bound \in BOOLEAN
    /\ MaxAttempts \in Nat /\ MaxDrops \in Nat
    /\ MaxRefusals \in Nat /\ MaxChannelErrors \in Nat

VARIABLES
    phase,          \* "boot" | "up" | "aborted" | "closed" (shutdown begun)
    socket,         \* "none" | "open" | "lost" (the close event is due)
    channel,        \* this.channel: "null" | "open" | "dead"
    timers,         \* reconnect timers running
    dialing,        \* connect() calls in progress
    attempt,        \* reconnectAttempt
    request,        \* event -> "new" | "waiting" (for its confirm) | "answered"
    response,       \* event -> what the client got, status 0 for nothing yet
    wire,           \* event -> the message published, NoMessage before
    broker,         \* event -> "absent" | "sent" | "stored" | "dropped" | "lost"
    confirm,        \* event -> the confirm on its way: "none" | "ack" | "nack"
    drops, refusals, channelErrors

vars == <<phase, socket, channel, timers, dialing, attempt, request, response, wire,
          broker, confirm, drops, refusals, channelErrors>>

linkVars == <<phase, socket, channel, timers, dialing, attempt>>
boundVars == <<drops, refusals, channelErrors>>
requestVars == <<request, response, wire>>

NoResponse == [status |-> 0, retryAfter |-> FALSE, words |-> "own"]
Accepted == [status |-> 202, retryAfter |-> FALSE, words |-> "own"]

-----------------------------------------------------------------------------
(***************************************************************************)
(* The body and the message made of it.                                    *)
(***************************************************************************)
Missing(x) == x \in {Absent, Null}
Nullish(x, y) == IF Missing(x) THEN y ELSE x

\* Mutant of IdentityFailure: each of the two is optional by itself.
IdentityMayBeHalf(b) ==
    ~(/\ Missing(b.deviceId) \/ b.deviceId \in Name
      /\ Missing(b.seq) \/ b.seq \in Nat)

\* deviceId and seq: both as they should be, or neither sent.
IdentityFailure(b) ==
    /\ b.deviceId # Absent \/ b.seq # Absent
    /\ ~(b.deviceId \in Name /\ b.seq \in Nat)

ReportLocationFailure(b) ==
    \/ b.userId \notin Name
    \/ b.lat \notin -90..90 \/ b.lng \notin -180..180
    \/ IdentityFailure(b)
    \/ ~Missing(b.capturedAt) /\ b.capturedAt \notin DateString
    \/ ~Missing(b.observedAt) /\ b.observedAt \notin DateString
    \/ ~Missing(b.accuracy) /\ b.accuracy \notin Nat

TooInaccurate(accuracy) == ~Missing(accuracy) /\ accuracy > MaxAccuracy

\* LocationEventV1; the deprecated observedAt stands in for capturedAt.
LocationEvent(b) ==
    [userId |-> b.userId, lat |-> b.lat, lng |-> b.lng,
     deviceId |-> Nullish(b.deviceId, Null), seq |-> Nullish(b.seq, Null),
     accuracy |-> Nullish(b.accuracy, Null),
     capturedAt |-> Nullish(b.capturedAt, Nullish(b.observedAt, Null))]

NoMessage == <<>>

Init ==
    /\ phase = "boot"
    /\ socket = "none" /\ channel = "null"
    /\ timers = 0 /\ dialing = 1 /\ attempt = 0
    /\ request = [e \in Event |-> "new"]
    /\ response = [e \in Event |-> NoResponse]
    /\ wire = [e \in Event |-> NoMessage]
    /\ broker = [e \in Event |-> "absent"]
    /\ confirm = [e \in Event |-> "none"]
    /\ drops = 0 /\ refusals = 0 /\ channelErrors = 0

ScheduleReconnect ==
    /\ timers' = timers + 1
    /\ attempt' = IF attempt < MaxAttempts THEN attempt + 1 ELSE attempt

\* What was sent and not yet stored is lost with the socket or the channel, and
\* so is every confirm under way.
FramesLost ==
    /\ broker' = [e \in Event |-> IF broker[e] = "sent" THEN "lost" ELSE broker[e]]
    /\ confirm' = [e \in Event |-> "none"]

-----------------------------------------------------------------------------
(***************************************************************************)
(* The connection.                                                         *)
(***************************************************************************)

\* connect() gets through to the passive exchange check.
Connected ==
    /\ dialing > 0
    /\ dialing' = dialing - 1
    /\ socket' = "open" /\ channel' = "open"
    /\ attempt' = 0
    /\ phase' = IF phase = "boot" THEN "up" ELSE phase
    /\ UNCHANGED <<timers, requestVars, broker, confirm, boundVars>>

\* connect() rejects: the boot aborts, a reconnect is tried again later.
ConnectFails ==
    /\ dialing > 0
    /\ refusals < MaxRefusals
    /\ refusals' = refusals + 1
    /\ dialing' = dialing - 1
    /\ \/ /\ phase = "boot"
          /\ phase' = "aborted"
          /\ UNCHANGED <<timers, attempt>>
       \/ /\ phase # "boot"
          /\ phase' = phase
          /\ ScheduleReconnect
    /\ UNCHANGED <<socket, channel, requestVars, broker, confirm, drops, channelErrors>>

TimerFires ==
    /\ timers > 0
    /\ timers' = timers - 1
    /\ dialing' = dialing + 1
    /\ UNCHANGED <<phase, socket, channel, attempt, requestVars, broker, confirm, boundVars>>

\* Mutant of Drops: the error handler schedules a reconnect of its own.
DropsSchedules ==
    /\ socket = "open"
    /\ drops < MaxDrops
    /\ drops' = drops + 1
    /\ socket' = "lost"
    /\ FramesLost
    /\ ScheduleReconnect
    /\ UNCHANGED <<phase, channel, dialing, requestVars, refusals, channelErrors>>

\* The broker or the network ends the connection; the process does not know yet.
Drops ==
    /\ socket = "open"
    /\ drops < MaxDrops
    /\ drops' = drops + 1
    /\ socket' = "lost"
    /\ FramesLost
    /\ UNCHANGED <<phase, channel, timers, dialing, attempt, requestVars, refusals, channelErrors>>

\* Mutant of CloseEvent: the connection is given up.
CloseEventGivesUp ==
    /\ socket = "lost"
    /\ socket' = "none" /\ channel' = "null"
    /\ UNCHANGED <<phase, timers, dialing, attempt, requestVars, broker, confirm, boundVars>>

\* The connection's close event.
CloseEvent ==
    /\ socket = "lost"
    /\ socket' = "none" /\ channel' = "null"
    /\ \/ phase # "closed" /\ ScheduleReconnect
       \/ phase = "closed" /\ UNCHANGED <<timers, attempt>>
    /\ UNCHANGED <<phase, dialing, requestVars, broker, confirm, boundVars>>

\* The broker closes the channel alone.  Its error event is only logged.
ChannelError ==
    /\ socket = "open" /\ channel = "open"
    /\ channelErrors < MaxChannelErrors
    /\ channelErrors' = channelErrors + 1
    /\ channel' = "dead"
    /\ FramesLost
    /\ UNCHANGED <<phase, socket, timers, dialing, attempt, requestVars, drops, refusals>>

\* onApplicationShutdown: the timer is cleared, the connection closed and its
\* close event taken.  A connect() in progress is not stopped.
Shutdown ==
    /\ phase = "up"
    /\ phase' = "closed"
    /\ timers' = 0
    /\ socket' = "none" /\ channel' = "null"
    /\ FramesLost
    /\ UNCHANGED <<dialing, attempt, requestVars, boundVars>>

-----------------------------------------------------------------------------
(***************************************************************************)
(* A publish.                                                              *)
(***************************************************************************)

\* The client's answer: the handler's value, or what the filter makes of the
\* exception.  A promise that is settled stays as it is.
Answers(e, r) ==
    /\ request' = [request EXCEPT ![e] = "answered"]
    /\ response' = [response EXCEPT ![e] = r]
    /\ wire' = wire

\* publish(): no channel and a channel that throws fail at once; otherwise the
\* frame is written, which a lost socket swallows, and the timer starts.
Publish(e, message) ==
    \/ /\ channel # "open"
       /\ Answers(e, Catch(MqUnavailableError))
       /\ broker' = broker
    \/ /\ channel = "open"
       /\ request' = [request EXCEPT ![e] = "waiting"]
       /\ response' = response
       /\ wire' = [wire EXCEPT ![e] = message]
       /\ broker' = [broker EXCEPT ![e] = IF socket = "open" THEN "sent" ELSE "lost"]

\* A request: body-parser, the DTO validation, accept()'s accuracy gate, and the
\* publish of the stamped event.
Accept(e, b) ==
    /\ phase = "up"
    /\ request[e] = "new"
    /\ \/ /\ b \in Oversized
          /\ Answers(e, Catch(PayloadTooLarge))
          /\ broker' = broker
       \/ /\ b \notin Oversized /\ ReportLocationFailure(b)
          /\ Answers(e, Catch(HttpException(400)))
          /\ broker' = broker
       \/ /\ b \notin Oversized /\ ~ReportLocationFailure(b)
          /\ TooInaccurate(b.accuracy)
          /\ Answers(e, Catch(HttpException(422)))
          /\ broker' = broker
       \/ /\ b \notin Oversized /\ ~ReportLocationFailure(b)
          /\ ~TooInaccurate(b.accuracy)
          /\ Publish(e, LocationEvent(b))
    /\ UNCHANGED <<linkVars, confirm, boundVars>>

\* The broker routes and persists the message, then confirms.  An unroutable
\* one is returned, dropped and confirmed all the same.
Confirms(e) ==
    /\ broker[e] = "sent"
    /\ broker' = [broker EXCEPT ![e] = IF Bound THEN "stored" ELSE "dropped"]
    /\ confirm' = [confirm EXCEPT ![e] = "ack"]
    /\ UNCHANGED <<linkVars, requestVars, boundVars>>

\* The broker cannot take responsibility for the message.
Nacks(e) ==
    /\ broker[e] = "sent"
    /\ broker' = [broker EXCEPT ![e] = "dropped"]
    /\ confirm' = [confirm EXCEPT ![e] = "nack"]
    /\ UNCHANGED <<linkVars, requestVars, boundVars>>

\* Mutant of ConfirmArrives: the callback ignores its error argument.
ConfirmArrivesUnread(e) ==
    /\ confirm[e] # "none"
    /\ confirm' = [confirm EXCEPT ![e] = "none"]
    /\ \/ request[e] = "waiting" /\ Answers(e, Accepted)
       \/ request[e] # "waiting" /\ UNCHANGED requestVars
    /\ UNCHANGED <<linkVars, broker, boundVars>>

\* The confirm callback.  A promise the timeout has rejected stays rejected.
ConfirmArrives(e) ==
    /\ confirm[e] # "none"
    /\ confirm' = [confirm EXCEPT ![e] = "none"]
    /\ \/ /\ request[e] = "waiting"
          /\ Answers(e, IF confirm[e] = "ack" THEN Accepted ELSE Catch(MqUnavailableError))
       \/ /\ request[e] # "waiting"
          /\ UNCHANGED requestVars
    /\ UNCHANGED <<linkVars, broker, boundVars>>

\* Mutant of TimesOut: only a live channel's publishes time out.
TimesOutIfOpen(e) ==
    /\ request[e] = "waiting"
    /\ channel = "open"
    /\ Answers(e, Catch(MqUnavailableError))
    /\ UNCHANGED <<linkVars, broker, confirm, boundVars>>

\* PUBLISH_CONFIRM_TIMEOUT_MS passed without a confirm.
TimesOut(e) ==
    /\ request[e] = "waiting"
    /\ Answers(e, Catch(MqUnavailableError))
    /\ UNCHANGED <<linkVars, broker, confirm, boundVars>>

Next ==
    \/ Connected \/ ConnectFails \/ TimerFires
    \/ Drops \/ CloseEvent \/ ChannelError \/ Shutdown
    \/ \E e \in Event : \/ \E b \in Body : Accept(e, b)
                        \/ Confirms(e) \/ Nacks(e)
                        \/ ConfirmArrives(e) \/ TimesOut(e)

Spec == Init /\ [][Next]_vars

\* Timers fire, close events come and a connect ends; when the broker's
\* refusals are used up it ends well.
Fairness ==
    /\ WF_vars(Connected) /\ WF_vars(TimerFires) /\ WF_vars(CloseEvent)
    /\ \A e \in Event : WF_vars(TimesOut(e))

FairSpec == Spec /\ Fairness

-----------------------------------------------------------------------------
(***************************************************************************)
(* Correctness properties.                                                 *)
(***************************************************************************)

\* The answer tells what became of the event, whatever happened to the
\* connection: one answered 202 is in a partition queue (given the bindings the
\* topology job declares), one refused with a 4xx never left the process.
AnswerMatchesQueue ==
    \A e \in Event :
      /\ (Bound /\ response[e].status = 202) => broker[e] = "stored"
      /\ response[e].status \in 400..499 => broker[e] = "absent"

\* The contract with the worker, which checks only the version of a message:
\* whatever is queued has a dedup identity as a whole or none (isDuplicate looks
\* at both), no accuracy that report() throws on at every retry until the event
\* is dead-lettered, and for captured_at what @IsDateString takes, or nothing.
QueuedIsUsable ==
    \A e \in Event : broker[e] = "stored" =>
      LET m == wire[e] IN
      /\ m.deviceId = Null <=> m.seq = Null
      /\ ~TooInaccurate(m.accuracy)
      /\ m.capturedAt \in DateString \union {Null}

\* There is one way back to the broker at a time: never two reconnects, and
\* none while a connection is held, also after a shutdown, which clears the timer
\* but not a connect() in flight, and that one may end in a new timer.
OneReconnect ==
    timers + dialing + (IF socket = "none" THEN 0 ELSE 1) <= 1

\* Every publish is answered, and in the terms of the contract: accepted, or
\* unavailable with a Retry-After and no word of the error.
EveryPublishAnswered ==
    \A e \in Event : request[e] = "waiting" ~>
      \/ response[e].status = 202
      \/ response[e] = [status |-> 503, retryAfter |-> TRUE, words |-> "generic"]

\* Reconnect in the background: as long as the process runs and the broker can
\* be reached again, publishes are possible again, provided the broker has
\* never closed a channel alone.
PublishableAgain ==
    <>[]((phase = "up" /\ channelErrors = 0) => channel = "open")

\* ADR 0015: "reconnect with capped backoff in the background, publishes failing
\* fast (503) while disconnected", so only while disconnected.
AlwaysPublishableAgain ==
    <>[](phase = "up" => channel = "open")
=============================================================================
