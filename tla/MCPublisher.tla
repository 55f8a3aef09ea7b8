----------------------------- MODULE MCPublisher -----------------------------
(***************************************************************************)
(* Two concurrent requests over a connection that fails twice, each with    *)
(* any of these bodies: complete, legacy, with nulls, and one for every     *)
(* reason to be refused.                                                   *)
(***************************************************************************)
EXTENDS Publisher

Legacy == [userId |-> "u", lat |-> 41, lng |-> 29, deviceId |-> Absent, seq |-> Absent,
           capturedAt |-> Absent, observedAt |-> "t1", accuracy |-> Absent]
Full == [Legacy EXCEPT !.deviceId = "d", !.seq = 0, !.capturedAt = "t2", !.accuracy = 100]
Nulls == [Legacy EXCEPT !.capturedAt = Null, !.observedAt = Null, !.accuracy = Null]
Large == [Legacy EXCEPT !.lng = -180]

Refused == {
    [Legacy EXCEPT !.userId = ""], [Legacy EXCEPT !.lat = 91],
    [Legacy EXCEPT !.seq = 1], [Legacy EXCEPT !.deviceId = "d"],
    [Full EXCEPT !.deviceId = Null, !.seq = Null], [Full EXCEPT !.seq = -1],
    [Legacy EXCEPT !.observedAt = "soon"], [Full EXCEPT !.accuracy = -1]}

Bodies == {Legacy, Full, Nulls, Large, [Full EXCEPT !.accuracy = 101]} \union Refused
LargeBodies == {Large}
OneBody == {Full}
=============================================================================
