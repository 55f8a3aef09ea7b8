------------------------------ MODULE MCWorker ------------------------------
(***************************************************************************)
(* Small instances of Worker.  User u walks in, out and in again (a1, a2,  *)
(* a3); user v reports once from inside both areas (b1); z is unreadable.  *)
(***************************************************************************)
EXTENDS Worker

Streams == {<<"a1", "a2", "b1">>, <<"a1", "b1", "a2">>}
WithBad == {<<"a1", "z", "a2", "b1">>}
Walks == {<<"a1", "a2", "b1", "a3">>}
WalksAndExits == Walks \union Streams
Single == {<<"a1">>}

Owner == [m \in Msg |-> IF m \in {"a1", "a2", "a3", "z"} THEN "u" ELSE "v"]
Numbered == [m \in Msg |-> "d"]
\* User u on a legacy client, without deviceId and seq.
Mixed == [m \in Msg |-> IF m = "b1" THEN "d" ELSE None]
Numbers == [m \in Msg |-> CASE m = "a1" -> 1 [] m = "a2" -> 2 [] m = "a3" -> 3 [] OTHER -> 1]
FromZero == [m \in Msg |-> 0]
Inside == [m \in Msg |-> CASE m = "a1" -> {"A"} [] m = "a3" -> {"A"}
                           [] m = "b1" -> {"A", "B"} [] OTHER -> {}]
InsideA == [m \in Msg |-> Inside[m] \intersect {"A"}]
\* Inside a lasting area and one to be deleted, then in the lasting one and one
\* that may have been created.
AnotherThenNew == [m \in Msg |-> CASE m = "a1" -> {"A", "B"} [] m = "a2" -> {"A", "C"} [] OTHER -> {}]

\* Ids without a colon: two identities never render to one key.
DistinctKeys == [p \in User \X Device |-> p]
PairKeys == User \X Device
NoRows == [p \in User \X Device |-> None]
=============================================================================
