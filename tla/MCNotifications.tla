--------------------------- MODULE MCNotifications ---------------------------
(***************************************************************************)
(* Two tabs of ann's and two notifications for her, and one for bob, who  *)
(* has no tab open.                                                        *)
(***************************************************************************)
EXTENDS Notifications

Owner1 == [i \in {"i1", "i2", "i3"} |-> IF i = "i3" THEN "bob" ELSE "ann"]
Viewer1 == [t \in {"t1", "t2"} |-> "ann"]
=============================================================================
