--------------------------- MODULE PartitionQueue ---------------------------
(***************************************************************************)
(* One partition queue `loc.events.p<i>` as the worker meets it: a quorum  *)
(* queue with a delivery limit, one consumer, one AMQP channel.  The broker *)
(* is external; its behaviour is what worker-consumer.service.ts and       *)
(* infra/rabbitmq/declare-topology.sh rely on:                             *)
(*   - at most Prefetch deliveries are outstanding (channel.prefetch);     *)
(*   - a message that comes back is delivered again before anything newer  *)
(*     that was never delivered, and its delivery count goes up;           *)
(*   - beyond DeliveryLimit returns it goes to the dead-letter queue;      *)
(*   - acks and nacks travel as frames on the socket, in order, and are    *)
(*     lost with it, in which case everything outstanding comes back.      *)
(* Every operator below is the queue's half of a joint step; the composing *)
(* module supplies the worker's half.                                      *)
(***************************************************************************)
EXTENDS Naturals, Sequences, SequencesExt

CONSTANTS
    Msg,            \* the messages of this partition
    Arrivals,       \* the orders in which the partition may have received them
    Prefetch,       \* WORKER_PREFETCH: deliveries outstanding per consumer
    DeliveryLimit   \* MQ_DELIVERY_LIMIT: returns before dead-lettering

ASSUME QueueAssumption ==
    /\ Prefetch \in Nat \ {0}
    /\ DeliveryLimit \in Nat
    /\ Arrivals \subseteq Seq(Msg)
    /\ \A s \in Arrivals : \A i, j \in DOMAIN s : s[i] = s[j] => i = j

VARIABLES
    arrival,    \* the order of arrival (fixed; the properties refer to it)
    ready,      \* never delivered, oldest first
    returns,    \* came back, to be delivered before `ready`
    unacked,    \* delivered and not settled, in delivery order
    returned,   \* message -> how often it came back
    wire,       \* ack/nack frames written by the worker, not yet read
    acked,      \* settled for good
    dead        \* in the dead-letter queue loc.dead

queueVars == <<arrival, ready, returns, unacked, returned, wire, acked, dead>>

Frame == [type : {"ack", "nack"}, msg : Msg]

QueueTypeOK ==
    /\ arrival \in Seq(Msg)
    /\ ready \in Seq(Msg)
    /\ returns \in Seq(Msg)
    /\ unacked \in Seq(Msg)
    /\ returned \in [Msg -> Nat]
    /\ wire \in Seq(Frame)
    /\ acked \subseteq Msg
    /\ dead \subseteq Msg

QueueInit ==
    /\ arrival \in Arrivals
    /\ ready = arrival
    /\ returns = <<>>
    /\ unacked = <<>>
    /\ returned = [m \in Msg |-> 0]
    /\ wire = <<>>
    /\ acked = {}
    /\ dead = {}

\* The head of the returned messages, then the head of the fresh ones.
Dequeue(m) ==
    \/ /\ returns # <<>>
       /\ m = Head(returns)
       /\ returned[m] <= DeliveryLimit
       /\ returns' = Tail(returns)
       /\ ready' = ready
    \/ /\ returns = <<>>
       /\ ready # <<>>
       /\ m = Head(ready)
       /\ ready' = Tail(ready)
       /\ returns' = returns

\* basic.deliver: m joins the deliveries outstanding on the channel.
Push(m) ==
    /\ Len(unacked) < Prefetch
    /\ Dequeue(m)
    /\ unacked' = Append(unacked, m)
    /\ UNCHANGED <<arrival, returned, acked, dead>>

\* The broker reads one frame.  An ack settles the delivery; a nack with
\* requeue puts the message behind the ones returned before it.
ReadFrame ==
    /\ wire # <<>>
    /\ LET f == Head(wire) IN
       \E i \in DOMAIN unacked :
         /\ unacked[i] = f.msg
         /\ unacked' = RemoveAt(unacked, i)
         /\ \/ /\ f.type = "ack"
               /\ acked' = acked \union {f.msg}
               /\ UNCHANGED <<returns, returned>>
            \/ /\ f.type = "nack"
               /\ returns' = Append(returns, f.msg)
               /\ returned' = [returned EXCEPT ![f.msg] = @ + 1]
               /\ acked' = acked
    /\ wire' = Tail(wire)
    /\ UNCHANGED <<arrival, ready, dead>>

\* A message over the delivery limit leaves for the dead-letter exchange.
DeadLetter ==
    /\ returns # <<>>
    /\ returned[Head(returns)] > DeliveryLimit
    /\ dead' = dead \union {Head(returns)}
    /\ returns' = Tail(returns)
    /\ UNCHANGED <<arrival, ready, unacked, returned, wire, acked>>

\* The connection is gone: frames in flight are lost, deliveries come back.
ConnectionLost ==
    /\ returns' = returns \o unacked
    /\ returned' = [m \in Msg |-> IF m \in ToSet(unacked) THEN returned[m] + 1
                                                          ELSE returned[m]]
    /\ unacked' = <<>>
    /\ wire' = <<>>
    /\ UNCHANGED <<arrival, ready, acked, dead>>

-----------------------------------------------------------------------------
\* A message of the partition is in one place and once.
InOnePlace ==
    /\ IsInjective(ready) /\ IsInjective(returns) /\ IsInjective(unacked)
    /\ ToSet(ready) \intersect ToSet(returns) = {}
    /\ ToSet(ready) \intersect ToSet(unacked) = {}
    /\ ToSet(returns) \intersect ToSet(unacked) = {}

\* x was delivered before y and both are outstanding.
Precedes(x, y) ==
    \E i, j \in DOMAIN unacked : i < j /\ unacked[i] = x /\ unacked[j] = y
=============================================================================
