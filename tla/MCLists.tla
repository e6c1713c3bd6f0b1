------------------------------- MODULE MCLists -------------------------------
(***************************************************************************)
(* Instances of Lists for TLC.                                             *)
(***************************************************************************)
EXTENDS Lists

CONSTANTS FewIds, FewKeys

ASSUME FewIds \in Nat /\ FewKeys \in Nat

SomeIds == 1 .. FewIds
SomeKeys == 1 .. FewKeys
=============================================================================
