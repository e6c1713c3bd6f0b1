------------------------------- MODULE MCRooms -------------------------------
(***************************************************************************)
(* Two people: one with a socket on each of two processes, whose typing is *)
(* followed from the first; one on the second process.                     *)
(***************************************************************************)
EXTENDS Rooms

Sockets1 == {"s1", "s2"}
Owner1 == [s \in Sockets1 |-> IF s = "s1" THEN "ann" ELSE "bob"]
Home1 == [s \in Sockets1 |-> IF s = "s1" THEN "n1" ELSE "n2"]
Typing1 == {<<"s1", "g">>}

Scope(E, S, N, B, C) == [extras |-> E, sockets |-> S, nodes |-> N, begun |-> B, new |-> C]
Scopes1 ==
    {Scope({"ask", "crash"}, {"s1"}, {"n1", "n2"}, {}, {"g"}),
     Scope({}, {"s1"}, {"n2"}, {}, {"g", "d"}),
     Scope({}, {"s1", "s2"}, {"n1"}, {}, {"g"}),
     Scope({"type", "crash"}, {"s1", "s2"}, {}, {"g"}, {})}
=============================================================================
