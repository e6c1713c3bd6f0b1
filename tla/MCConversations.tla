-------------------------- MODULE MCConversations --------------------------
(***************************************************************************)
(* Instances of Conversations for TLC: the constants a .cfg cannot write   *)
(* as a model value or a literal set.                                      *)
(***************************************************************************)
EXTENDS Conversations, TLC

CONSTANTS ann, bob, cas, dan, g1, d1, d2, r1, r2, r3, r4

\* Requests, people and conversations are interchangeable.
Symmetric == Permutations(Users) \cup Permutations(Reqs) \cup Permutations(Convs)
RequestsSymmetric == Permutations(Reqs)
AccountsSymmetric == Permutations(Accounts) \cup Permutations(Reqs) \cup Permutations(Convs)

GroupOps == Operations \ {"createDirect"}
MemberOps == GroupOps \ {"rename"}
NotGroupOps == Operations \ {"createGroup"}

\* The overlaps the runs ask about.
Everything == Operations
NotLeaving == Operations \ {"removeMember"}
=============================================================================
