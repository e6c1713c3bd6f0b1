----------------------------- MODULE MCMessages -----------------------------
(***************************************************************************)
(* Instances of Messages for TLC: up to three people, two messages.        *)
(***************************************************************************)
EXTENDS Messages, TLC

CONSTANTS ann, bob, cas, m1, m2, r1, r2, r3, r4

Symmetric == Permutations(Users) \cup Permutations(Msgs) \cup Permutations(Reqs)

\* One person is named, or everyone.
Somebody == {M \in SUBSET Users : Cardinality(M) = 1 \/ M = Users}

\* Everything overlaps, and one message is sent, or two; everything but sends
\* does; or the operations that write run one at a time, while reads come in or
\* members come and go too.
Free(n) == [overlap |-> Operations \cup {"membership"}, ids |-> n, named |-> Somebody]
SendsWait == [overlap |-> Operations \ {"send"}, ids |-> 2, named |-> {}]
Serial == [overlap |-> {"read"}, ids |-> 2, named |-> {}]
SerialButMembers == [overlap |-> {"read", "membership"}, ids |-> 1, named |-> Somebody]
EitherWay == {Free(1), SendsWait, Serial, SerialButMembers}
TwoSends == {Free(2)}
=============================================================================
