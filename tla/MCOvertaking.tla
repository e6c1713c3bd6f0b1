---------------------------- MODULE MCOvertaking ----------------------------
(***************************************************************************)
(* An instance of Overtaking for TLC.                                      *)
(***************************************************************************)
EXTENDS Overtaking, TLC

CONSTANTS ann, bob, cas, g1, r1, r2, r3

\* Requests and people are interchangeable.
Symmetric == Permutations(Users) \cup Permutations(Reqs)

GroupOps == Operations \ {"createDirect"}
Everything == Operations
=============================================================================
