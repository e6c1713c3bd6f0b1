----------------------------- MODULE Membership -----------------------------
(***************************************************************************)
(* What the conversations module promises the rest of the system about one *)
(* conversation: the ways in which its rows, the Conversation's own and    *)
(* its members', may change.  A direct conversation is for ever what it    *)
(* was created as; the members of a group come and go one at a time.       *)
(***************************************************************************)
CONSTANT Users

VARIABLES
    kind,       \* "none" before the row is created, "deleted" after it
    role        \* ConversationMember.role by user

rows == <<kind, role>>

Nobody == [u \in Users |-> "NONE"]

Init == kind = "none" /\ role = Nobody

\* The rows a conversation is created with.
Two(a, b) == [u \in Users |-> IF u \in {a, b} THEN "MEMBER" ELSE "NONE"]
OwnerAnd(o, S) ==
    [u \in Users |-> IF u = o THEN "OWNER" ELSE IF u \in S THEN "MEMBER" ELSE "NONE"]

CreateDirect(a, b) ==
    /\ kind = "none" /\ a # b
    /\ kind' = "DIRECT"
    /\ role' = Two(a, b)

CreateGroup(o, S) ==
    /\ kind = "none"
    /\ kind' = "GROUP"
    /\ role' = OwnerAnd(o, S)

Join(u) ==
    /\ kind = "GROUP" /\ role[u] = "NONE"
    /\ role' = [role EXCEPT ![u] = "MEMBER"]
    /\ UNCHANGED kind

Leave(u) ==
    /\ kind = "GROUP" /\ role[u] # "NONE"
    /\ role' = [role EXCEPT ![u] = "NONE"]
    /\ UNCHANGED kind

\* Nobody is made an owner who is not a member.
Promote(u) ==
    /\ kind = "GROUP" /\ role[u] # "NONE"
    /\ role' = [role EXCEPT ![u] = "OWNER"]
    /\ UNCHANGED kind

Delete ==
    /\ kind = "GROUP"
    /\ kind' = "deleted"
    /\ role' = Nobody

\* What can happen to a conversation once it is there.
Change ==
    \/ \E u \in Users : Join(u) \/ Leave(u) \/ Promote(u)
    \/ Delete

Next ==
    \/ \E a, b \in Users : CreateDirect(a, b)
    \/ \E o \in Users, S \in SUBSET Users : CreateGroup(o, S)
    \/ Change

Spec == Init /\ [][Next]_rows
=============================================================================
