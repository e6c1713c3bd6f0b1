----------------------------- MODULE MCAccounts -----------------------------
(***************************************************************************)
(* Instances of Accounts for TLC: two people, two browsers.                *)
(***************************************************************************)
EXTENDS Accounts, TLC

CONSTANTS ann, bob, n1, n2, b1, b2, r1, r2, r3, r4

Symmetric == Permutations(People) \cup Permutations(Names)
                \cup Permutations(Browsers) \cup Permutations(Reqs)
\* Some browser keeps the rules.
SomeCareful == SUBSET Browsers \ {{}}
=============================================================================
