----------------------------- MODULE MCLogsPage -----------------------------
(***************************************************************************)
(* Eight rows of two users, three with the same recorded_at and two within  *)
(* one coarse unit of time; five of them there at the start.  Queries with  *)
(* and without filters, for pages of one and two, and one page too large.   *)
(***************************************************************************)
EXTENDS LogsPage

R(at, id, user, area) == [at |-> at, id |-> id, user |-> user, area |-> area]
Early == {R(12, 3, "u", "A"), R(14, 1, "u", "A"), R(14, 5, "v", "A"),
          R(14, 9, "u", "B"), R(31, 2, "u", "A")}
All == Early \union {R(13, 4, "u", "A"), R(32, 7, "u", "A"), R(14, 8, "u", "A")}

Q(user, area, from, to, limit) ==
    [userId |-> user, areaId |-> area, from |-> from, to |-> to, limit |-> limit]
Queries == {Q(Absent, Absent, Absent, Absent, 2), Q("u", Absent, Absent, 31, 1),
            Q(Absent, "A", 12, Absent, 2), Q("u", "A", 14, 14, 1),
            Q(Absent, Absent, Absent, Absent, 4)}
=============================================================================
