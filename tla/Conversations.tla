--------------------------- MODULE Conversations ---------------------------
(***************************************************************************)
(* ConversationsService (apps/api/src/conversations): creating direct and  *)
(* group conversations, and managing the members of a group.               *)
(*                                                                         *)
(* A handler is an async function: at every await any other handler, of    *)
(* this API instance or of another, may run.  So each action below is one  *)
(* database call together with the decision the handler takes on its       *)
(* result, and pc[r] says which call request r is about to make.  Every    *)
(* call is one autocommitted statement: the service opens no transaction.  *)
(* The events a handler emits are a step of their own, since other         *)
(* handlers see a committed row before its writer gets to emit.            *)
(***************************************************************************)
EXTENDS Naturals, FiniteSets

CONSTANTS
    Users,      \* the user ids a request can name
    Accounts,   \* the ids that have a User row (nothing deletes a user)
    Convs,      \* the conversation ids the database can hand out
    Reqs,       \* the HTTP requests; a request is served once
    None,       \* stands for null
    Ops,        \* the operations the clients of a run call
    Overlap,    \* the operations that may run beside any other
    Faults      \* may a handler stop at an await (crash, database down)?

Creating == {"createGroup", "createDirect"}
Operations == Creating \cup {"rename", "remove", "addMember", "removeMember"}

ASSUME ConstantsAssumption ==
    /\ Accounts \subseteq Users
    /\ IsFiniteSet(Users) /\ IsFiniteSet(Reqs) /\ IsFiniteSet(Convs)
    /\ None \notin Users \cup Convs \cup Reqs
    /\ Ops \subseteq Operations
    /\ Overlap \subseteq Operations
    /\ Faults \in BOOLEAN

VARIABLES
    conversation,  \* table Conversation; status "unused" before the insert
    member,        \* table ConversationMember, by (conversationId, userId)
    clock,         \* now(); joinedAt of the next rows
    view,          \* what the events to user u last said of conversation c
    pc,            \* the step each request is at, or how it was answered
    call,          \* the frame of each handler: parameters and local variables
    given          \* the direct conversations answered so far, by pair

vars == <<conversation, member, clock, view, pc, call, given>>
db == <<conversation, member, clock>>

Roles == {"OWNER", "ADMIN", "MEMBER"}
NoRow == [role |-> "NONE", joinedAt |-> 0]
NoSuccessor == [user |-> None, joinedAt |-> 0]

\* The calls each operation may be at, in the order of the code.
StepsOf(op) ==
    CASE op = "createDirect" -> {"find", "create", "refetch", "announce"}
      [] op = "createGroup"  -> {"create", "announce"}
      [] op = "rename"       -> {"check", "write", "announce"}
      [] op = "remove"       -> {"check", "members", "delete", "announce"}
      [] op = "addMember"    -> {"check", "load", "insert", "announce", "reply"}
      [] op = "removeMember" -> {"check", "target", "successor", "dissolve",
                                 "farewell", "promote", "delete", "announce"}
      [] OTHER -> {}
Steps == UNION {StepsOf(op) : op \in Operations}
NoIdYet == {"find", "create", "refetch"}
Answers == {"ok", "badRequest", "forbidden", "notFound", "conflict", "aborted"}

ConversationRow == [status : {"unused", "live", "deleted"},
                    type : {"DIRECT", "GROUP"},
                    directKey : SUBSET Users,
                    name : Reqs \cup {None}]
MemberRow == [role : Roles \cup {"NONE"}, joinedAt : Nat]
\* conv: the conversation the call is about; ids: dto.memberIds, then the
\* memberIds read; succ: the membership row picked as successor.
Frame == [op : Operations, actor : Accounts, target : Users,
          conv : Convs \cup {None}, ids : SUBSET Users,
          succ : [user : Users \cup {None}, joinedAt : Nat]]
NoFrame == [op |-> "none"]

TablesOK ==
    /\ conversation \in [Convs -> ConversationRow]
    /\ member \in [Convs -> [Users -> MemberRow]]
    /\ clock \in Nat
    /\ view \in [Convs -> [Users -> {"none", "member", "gone"}]]
    /\ given \subseteq (SUBSET Users) \X Convs

\* A handler has a frame until it answers, and knows its conversation once it
\* is past creating it.
HandlersOK ==
    /\ pc \in [Reqs -> {"idle"} \cup Steps \cup Answers]
    /\ call \in [Reqs -> Frame \cup {NoFrame}]
    /\ \A r \in Reqs : /\ call[r] \in Frame <=> pc[r] \in Steps
                       /\ pc[r] \in Steps => pc[r] \in StepsOf(call[r].op)
                       /\ pc[r] \in Steps \ NoIdYet => call[r].conv \in Convs

\* The types of the tables, the events and the handlers' frames.
TypeOK == TablesOK /\ HandlersOK

-----------------------------------------------------------------------------
(* Reading the tables.                                                     *)

Live(c) == conversation[c].status = "live"
IsGroup(c) == conversation[c].type = "GROUP"
IsMember(c, u) == member[c][u].role # "NONE"
MemberIds(c) == {u \in Users : IsMember(c, u)}
Owners(c) == {u \in Users : member[c][u].role = "OWNER"}

\* findUnique by directKey.  The key is the two ids sorted and joined, so it
\* stands for the unordered pair; a group's key is null.
DirectsOf(pair) ==
    {c \in Convs : Live(c) /\ ~IsGroup(c) /\ conversation[c].directKey = pair}
Pair(r) == {call[r].actor, call[r].target}

InFlight(r) == pc[r] \in Steps
Unused == {c \in Convs : conversation[c].status = "unused"}
At(r, op, step) == pc[r] = step /\ call[r].op = op

\* Request r proceeds to a step with frame f, or is answered: the frame is gone.
GotoWith(r, step, f) ==
    /\ pc' = [pc EXCEPT ![r] = step]
    /\ call' = [call EXCEPT ![r] = IF step \in Answers THEN NoFrame ELSE f]
Goto(r, step) == GotoWith(r, step, call[r])

(* The orderBy of the successor query: role in enum order, then joinedAt.  *)
Rank(role) == CASE role = "OWNER" -> 0 [] role = "ADMIN" -> 1 [] OTHER -> 2
Before(x, y) == \/ Rank(x.role) < Rank(y.role)
                \/ Rank(x.role) = Rank(y.role) /\ x.joinedAt < y.joinedAt
\* findFirst: rows that tie (the members a group was created with) come in
\* an order the database chooses.
Successors(c, a) ==
    LET others == MemberIds(c) \ {a}
    IN  {u \in others : \A w \in others : ~Before(member[c][w], member[c][u])}

-----------------------------------------------------------------------------
(* Writing the tables, and telling clients.                                *)

\* prisma.conversation.create with nested members: one transaction.
InsertConversation(c, type, key, roleOf) ==
    /\ conversation' = [conversation EXCEPT ![c] =
           [status |-> "live", type |-> type, directKey |-> key, name |-> None]]
    /\ member' = [member EXCEPT ![c] = [u \in Users |->
           IF u \in DOMAIN roleOf THEN [role |-> roleOf[u], joinedAt |-> clock]
                                  ELSE NoRow]]
    /\ clock' = clock + 1

\* Mutant: no cascade.
DeleteWithoutCascade(c) ==
    /\ conversation' = [conversation EXCEPT ![c].status = "deleted"]
    /\ UNCHANGED member

\* conversation.delete: onDelete: Cascade takes the membership rows with it.
DeleteConversation(c) ==
    /\ conversation' = [conversation EXCEPT ![c].status = "deleted"]
    /\ member' = [member EXCEPT ![c] = [u \in Users |-> NoRow]]

\* emitToUser to every user of S.
Tell(c, S, what) ==
    view' = [view EXCEPT ![c] =
                [u \in Users |-> IF u \in S THEN what ELSE view[c][u]]]
-----------------------------------------------------------------------------
Init ==
    /\ conversation = [c \in Convs |-> [status |-> "unused", type |-> "GROUP",
                                        directKey |-> {}, name |-> None]]
    /\ member = [c \in Convs |-> [u \in Users |-> NoRow]]
    /\ clock = 1
    /\ view = [c \in Convs |-> [u \in Users |-> "none"]]
    /\ pc = [r \in Reqs |-> "idle"]
    /\ call = [r \in Reqs |-> NoFrame]
    /\ given = {}

(***************************************************************************)
(* A request arrives.  The checks that read only its parameters and the    *)
(* User table, which never loses a row, are part of the arrival.           *)
(***************************************************************************)
FirstOfDirect(a, t) ==
    IF t = a THEN "badRequest" ELSE IF t \notin Accounts THEN "notFound" ELSE "find"
FirstOfGroup(S) == IF S \subseteq Accounts THEN "create" ELSE "badRequest"

\* Everything else begins with assertMembership or requireRole.
FirstStep(op, a, t, S) ==
    CASE op = "createDirect" -> FirstOfDirect(a, t)
      [] op = "createGroup" -> FirstOfGroup(S)
      [] OTHER -> "check"

\* Bound: an id is left for every creation in flight, as cuids never run out.
IdsLeft == Cardinality({r \in Reqs : InFlight(r) /\ call[r].op \in Creating})
               < Cardinality(Unused)

\* The program lets every operation overlap every other (Overlap = Operations).
\* A smaller Overlap asks what would hold if the operations outside it ran one
\* at a time, as they do for clients that never call them together.
MayStart(op) == op \in Overlap \/ \A q \in Reqs : InFlight(q) => call[q].op \in Overlap

Receive(r) ==
    /\ pc[r] = "idle"
    /\ \E op \in Ops, a \in Accounts, t \in Users, S \in SUBSET Users :
         /\ MayStart(op)
         /\ op = "createGroup" <=> S # {}
         /\ op \in Creating => IdsLeft
         /\ op \notin {"createDirect", "addMember", "removeMember"} => t = a
         /\ \E c \in IF op \in Creating THEN {None} ELSE Convs :
                GotoWith(r, FirstStep(op, a, t, S),
                         [op |-> op, actor |-> a, target |-> t, conv |-> c,
                          ids |-> S \ {a}, succ |-> NoSuccessor])
    /\ UNCHANGED <<db, view, given>>

-----------------------------------------------------------------------------
(* findOrCreateDirect                                                      *)

\* The caller is answered the conversation.
Give(r, c) == given' = given \cup {<<Pair(r), c>>}

FindDirect(r) ==
    /\ At(r, "createDirect", "find")
    /\ \/ /\ DirectsOf(Pair(r)) = {}
          /\ Goto(r, "create")
          /\ UNCHANGED given
       \/ \E c \in DirectsOf(Pair(r)) : Give(r, c) /\ Goto(r, "ok")
    /\ UNCHANGED <<db, view>>

\* Mutant: the index is missing.
KeyAlwaysFree(pair) == TRUE

\* What the unique index on directKey lets through (P2002 otherwise).
DirectKeyFree(pair) == DirectsOf(pair) = {}

CreateDirect(r) ==
    /\ At(r, "createDirect", "create")
    /\ \/ /\ ~DirectKeyFree(Pair(r))
          /\ Goto(r, "refetch")
          /\ UNCHANGED db
       \/ /\ DirectKeyFree(Pair(r))
          /\ \E c \in Unused :
                /\ InsertConversation(c, "DIRECT", Pair(r),
                                      [u \in Pair(r) |-> "MEMBER"])
                /\ GotoWith(r, "announce", [call[r] EXCEPT !.conv = c])
    /\ UNCHANGED <<view, given>>

\* Of the two emits one says of the caller that he is online, which is a matter of
\* Presence (StartDirect there), and the other goes to the conversation's room,
\* which nobody has joined yet: neither tells a member of the conversation.
AnnounceDirect(r) ==
    /\ At(r, "createDirect", "announce")
    /\ Give(r, call[r].conv)
    /\ Goto(r, "ok")
    /\ UNCHANGED <<db, view>>

\* Mutant: the loser of the race rethrows at once.
RethrowAtOnce(r) ==
    /\ At(r, "createDirect", "refetch")
    /\ Goto(r, "conflict")
    /\ UNCHANGED <<db, view, given>>

\* Lost the race: fetch what the winner created, or rethrow (a 409).
RefetchDirect(r) ==
    /\ At(r, "createDirect", "refetch")
    /\ IF DirectsOf(Pair(r)) = {}
       THEN Goto(r, "conflict") /\ UNCHANGED given
       ELSE /\ \E c \in DirectsOf(Pair(r)) : Give(r, c)
            /\ Goto(r, "ok")
    /\ UNCHANGED <<db, view>>

-----------------------------------------------------------------------------
(* createGroup                                                             *)

CreateGroup(r) ==
    /\ At(r, "createGroup", "create")
    /\ \E c \in Unused :
          /\ InsertConversation(c, "GROUP", {},
                 [u \in call[r].ids \cup {call[r].actor} |->
                     IF u = call[r].actor THEN "OWNER" ELSE "MEMBER"])
          /\ GotoWith(r, "announce", [call[r] EXCEPT !.conv = c])
    /\ UNCHANGED <<view, given>>

AnnounceGroup(r) ==
    /\ At(r, "createGroup", "announce")
    /\ Tell(call[r].conv, call[r].ids \cup {call[r].actor}, "member")
    /\ Goto(r, "ok")
    /\ UNCHANGED <<db, given>>

-----------------------------------------------------------------------------
(***************************************************************************)
(* The other operations begin with assertMembership (requireRole for       *)
(* addMember), which reads the caller's row and the conversation's type    *)
(* together, and then decide on what they read.                            *)
(***************************************************************************)
MayManage(role) == role \in {"OWNER", "ADMIN"}

RenameVerdict(c, a) ==
    IF ~IsGroup(c) THEN "badRequest"
    ELSE IF MayManage(member[c][a].role) THEN "write" ELSE "forbidden"

RemoveVerdict(c, a) ==
    IF ~IsGroup(c) THEN "badRequest"
    ELSE IF member[c][a].role = "OWNER" THEN "members" ELSE "forbidden"

\* Mutant: addMember goes on as update does.
AddAsRename(c, a) ==
    IF MayManage(member[c][a].role) THEN "write" ELSE "forbidden"

AddVerdict(c, a) ==
    IF MayManage(member[c][a].role) THEN "load" ELSE "forbidden"

\* Mutant: the type of the conversation is not looked at.
LeaveAnything(c, a, t) ==
    IF t # a THEN IF MayManage(member[c][a].role) THEN "target" ELSE "forbidden"
    ELSE IF member[c][a].role = "OWNER" THEN "successor" ELSE "delete"

\* Mutant: an owner leaves as anybody else does.
LeaveWithoutHandOff(c, a, t) ==
    IF ~IsGroup(c) THEN "badRequest"
    ELSE IF t # a THEN IF MayManage(member[c][a].role) THEN "target" ELSE "forbidden"
    ELSE "delete"

RemoveMemberVerdict(c, a, t) ==
    IF ~IsGroup(c) THEN "badRequest"
    ELSE IF t # a THEN IF MayManage(member[c][a].role) THEN "target" ELSE "forbidden"
    ELSE IF member[c][a].role = "OWNER" THEN "successor" ELSE "delete"

Verdict(op, c, a, t) ==
    IF ~IsMember(c, a) THEN "notFound"
    ELSE CASE op = "rename" -> RenameVerdict(c, a)
           [] op = "remove" -> RemoveVerdict(c, a)
           [] op = "addMember" -> AddVerdict(c, a)
           [] op = "removeMember" -> RemoveMemberVerdict(c, a, t)

AssertMembership(r) ==
    /\ pc[r] = "check"
    /\ Goto(r, Verdict(call[r].op, call[r].conv, call[r].actor, call[r].target))
    /\ UNCHANGED <<db, view, given>>

\* prisma.conversation.update and .delete of a missing row throw P2025 (404).
Found(r, step) == Goto(r, IF Live(call[r].conv) THEN step ELSE "notFound")

-----------------------------------------------------------------------------
(* update                                                                  *)

\* The new name is known by the request that brought it.
WriteName(r) ==
    /\ At(r, "rename", "write")
    /\ conversation' = IF Live(call[r].conv)
                       THEN [conversation EXCEPT ![call[r].conv].name = r]
                       ELSE conversation
    /\ Found(r, "announce")
    /\ UNCHANGED <<member, clock, view, given>>

\* 'conversation:updated' to the members read now; it says nothing of who is
\* a member, so view keeps its value.
AnnounceName(r) ==
    /\ At(r, "rename", "announce")
    /\ Goto(r, "ok")
    /\ UNCHANGED <<db, view, given>>

-----------------------------------------------------------------------------
(* remove                                                                  *)

\* Mutant: only the caller is told that the conversation is gone.
ListCaller(r) ==
    /\ At(r, "remove", "members")
    /\ GotoWith(r, "delete", [call[r] EXCEPT !.ids = {call[r].actor}])
    /\ UNCHANGED <<db, view, given>>

ListMembers(r) ==
    /\ At(r, "remove", "members")
    /\ GotoWith(r, "delete", [call[r] EXCEPT !.ids = MemberIds(call[r].conv)])
    /\ UNCHANGED <<db, view, given>>

RemoveConversation(r) ==
    /\ At(r, "remove", "delete")
    /\ IF Live(call[r].conv) THEN DeleteConversation(call[r].conv)
                       ELSE UNCHANGED <<conversation, member>>
    /\ Found(r, "announce")
    /\ UNCHANGED <<clock, view, given>>

AnnounceRemoval(r) ==
    /\ At(r, "remove", "announce")
    /\ Tell(call[r].conv, call[r].ids, "gone")
    /\ Goto(r, "ok")
    /\ UNCHANGED <<db, given>>

-----------------------------------------------------------------------------
(* addMember                                                               *)

LoadConversation(r) ==
    LET c == call[r].conv IN
    /\ At(r, "addMember", "load")
    /\ Goto(r, IF ~Live(c) THEN "notFound"
               ELSE IF ~IsGroup(c) THEN "badRequest"
               ELSE IF call[r].target \notin Accounts THEN "notFound"
               ELSE "insert")
    /\ UNCHANGED <<db, view, given>>

\* Mutant: no foreign key to the conversation.
InsertUnchecked(c, t) == IF IsMember(c, t) THEN "conflict" ELSE "announce"

\* The foreign key (P2003, a 400) and the unique index (P2002, a 409) on the
\* insert of a membership row.
InsertVerdict(c, t) == IF ~Live(c) THEN "badRequest"
                       ELSE IF IsMember(c, t) THEN "conflict"
                       ELSE "announce"

InsertMember(r) ==
    LET c == call[r].conv
        t == call[r].target
    IN
    /\ At(r, "addMember", "insert")
    /\ Goto(r, InsertVerdict(c, t))
    /\ IF InsertVerdict(c, t) = "announce"
       THEN /\ member' = [member EXCEPT ![c][t] =
                             [role |-> "MEMBER", joinedAt |-> clock]]
            /\ clock' = clock + 1
       ELSE UNCHANGED <<member, clock>>
    /\ UNCHANGED <<conversation, view, given>>

AnnounceMember(r) ==
    /\ At(r, "addMember", "announce")
    /\ Tell(call[r].conv, {call[r].target}, "member")
    /\ Goto(r, "reply")
    /\ UNCHANGED <<db, given>>

\* getById for the response: a 404 if the caller is no longer a member, the
\* new member notwithstanding.
ReplyAdded(r) ==
    /\ At(r, "addMember", "reply")
    /\ Goto(r, IF IsMember(call[r].conv, call[r].actor) THEN "ok" ELSE "notFound")
    /\ UNCHANGED <<db, view, given>>

-----------------------------------------------------------------------------
(* removeMember                                                            *)

\* Mutant: the target's role is not looked at.
ReadAnyTarget(r) ==
    /\ At(r, "removeMember", "target")
    /\ Goto(r, IF IsMember(call[r].conv, call[r].target) THEN "delete" ELSE "notFound")
    /\ UNCHANGED <<db, view, given>>

ReadTarget(r) ==
    LET row == member[call[r].conv][call[r].target] IN
    /\ At(r, "removeMember", "target")
    /\ Goto(r, IF row.role = "NONE" THEN "notFound"
               ELSE IF row.role = "OWNER" THEN "forbidden" ELSE "delete")
    /\ UNCHANGED <<db, view, given>>

\* The handler goes on with successor s, or finds itself alone.
HandOff(r, s) ==
    GotoWith(r, "promote", [call[r] EXCEPT !.succ =
        [user |-> s, joinedAt |-> member[call[r].conv][s].joinedAt]])

\* Mutant: the successor is looked for among the other owners only.
FindOwnerSuccessor(r) ==
    LET others == Owners(call[r].conv) \ {call[r].actor} IN
    /\ At(r, "removeMember", "successor")
    /\ \/ others = {} /\ Goto(r, "dissolve")
       \/ \E s \in others : HandOff(r, s)
    /\ UNCHANGED <<db, view, given>>

FindSuccessor(r) ==
    LET heirs == Successors(call[r].conv, call[r].actor) IN
    /\ At(r, "removeMember", "successor")
    /\ \/ heirs = {} /\ Goto(r, "dissolve")
       \/ \E s \in heirs : HandOff(r, s)
    /\ UNCHANGED <<db, view, given>>

Dissolve(r) ==
    /\ At(r, "removeMember", "dissolve")
    /\ IF Live(call[r].conv) THEN DeleteConversation(call[r].conv)
                       ELSE UNCHANGED <<conversation, member>>
    /\ Found(r, "farewell")
    /\ UNCHANGED <<clock, view, given>>

Farewell(r) ==
    /\ At(r, "removeMember", "farewell")
    /\ Tell(call[r].conv, {call[r].actor}, "gone")
    /\ Goto(r, "ok")
    /\ UNCHANGED <<db, given>>

\* Mutant: the hand-off writes the successor's row whether it is there or not.
AlwaysThere(r) == TRUE

\* The update is by row id: a successor who left, even one who came back
\* under a new row, is not found (P2025).
SuccessorRowLeft(r) ==
    LET row == member[call[r].conv][call[r].succ.user] IN
    row.role # "NONE" /\ row.joinedAt = call[r].succ.joinedAt

Promote(r) ==
    /\ At(r, "removeMember", "promote")
    /\ IF SuccessorRowLeft(r)
       THEN /\ member' = [member EXCEPT ![call[r].conv][call[r].succ.user].role = "OWNER"]
            /\ Goto(r, "delete")
       ELSE /\ Goto(r, "notFound")
            /\ UNCHANGED member
    /\ UNCHANGED <<conversation, clock, view, given>>

\* Mutant: an owner who handed off keeps a row, as an ordinary member.
StepDown(r) ==
    LET c == call[r].conv
        t == call[r].target
    IN
    /\ At(r, "removeMember", "delete")
    /\ Goto(r, IF IsMember(c, t) THEN "announce" ELSE "notFound")
    /\ member' = IF IsMember(c, t) /\ t \notin Owners(c)
                 THEN [member EXCEPT ![c][t] = NoRow] ELSE member
    /\ UNCHANGED <<conversation, clock, view, given>>

DeleteMember(r) ==
    LET c == call[r].conv
        t == call[r].target
    IN
    /\ At(r, "removeMember", "delete")
    /\ Goto(r, IF IsMember(c, t) THEN "announce" ELSE "notFound")
    /\ member' = [member EXCEPT ![c][t] = NoRow]
    /\ UNCHANGED <<conversation, clock, view, given>>

AnnounceLeft(r) ==
    /\ At(r, "removeMember", "announce")
    /\ Tell(call[r].conv, {call[r].target}, "gone")
    /\ Goto(r, "ok")
    /\ UNCHANGED <<db, given>>

-----------------------------------------------------------------------------
(* A handler can stop at any await: the process dies, the database call    *)
(* fails.  Nothing it did is undone and nothing later of it happens.       *)
Abort(r) ==
    /\ Faults
    /\ InFlight(r)
    /\ Goto(r, "aborted")
    /\ UNCHANGED <<db, view, given>>

Handle(r) ==
    \/ FindDirect(r) \/ CreateDirect(r) \/ AnnounceDirect(r) \/ RefetchDirect(r)
    \/ CreateGroup(r) \/ AnnounceGroup(r)
    \/ AssertMembership(r)
    \/ WriteName(r) \/ AnnounceName(r)
    \/ ListMembers(r) \/ RemoveConversation(r) \/ AnnounceRemoval(r)
    \/ LoadConversation(r) \/ InsertMember(r) \/ AnnounceMember(r) \/ ReplyAdded(r)
    \/ ReadTarget(r) \/ FindSuccessor(r) \/ Dissolve(r) \/ Farewell(r)
    \/ Promote(r) \/ DeleteMember(r) \/ AnnounceLeft(r)

\* Every request is answered: the service is idle, not stuck.
AllAnswered ==
    /\ \A r \in Reqs : pc[r] \in Answers
    /\ UNCHANGED vars

Next ==
    \/ \E r \in Reqs : Receive(r) \/ Handle(r) \/ Abort(r)
    \/ AllAnswered

Spec == Init /\ [][Next]_vars
-----------------------------------------------------------------------------
(* What must hold.                                                         *)

Directs == {c \in Convs : conversation[c].status # "unused" /\ ~IsGroup(c)}
LiveGroups == {c \in Convs : Live(c) /\ IsGroup(c)}

\* A direct conversation lasts: whatever is called on it, by whom and in what
\* order, it stays live and its members stay the two people it was created for,
\* neither of them an owner.  (update, remove, addMember and removeMember each
\* refuse a DIRECT conversation by a check of their own.)
DirectIntact ==
    \A c \in Directs :
        /\ Live(c)
        /\ MemberIds(c) = conversation[c].directKey
        /\ \A u \in MemberIds(c) : member[c][u].role = "MEMBER"

\* "Uniqueness is enforced by the DB ... so two concurrent requests cannot
\* create two DMs": no pair of users ever has two direct conversations, however
\* their findOrCreateDirect calls interleave and wherever they die.
OneDirectPerPair ==
    \A c, d \in Directs :
        conversation[c].directKey = conversation[d].directKey => c = d

\* The caller who loses the creation race is answered the winner's
\* conversation: all the callers for one pair are given the same one, and it is
\* still there.
DirectRequestsAgree ==
    /\ \A x, y \in given : x[1] = y[1] => x[2] = y[2]
    /\ \A x \in given : x[2] \in DirectsOf(x[1])

\* The direct conversation of a pair, None until there is one.
Pairs == {p \in SUBSET Users : Cardinality(p) = 2}
AnyOf(S) == IF S = {} THEN None ELSE CHOOSE c \in S : TRUE
Entry(p) == AnyOf(DirectsOf(p))

\* findOrCreateDirect implements an atomic get-or-create: the table of live
\* DIRECT conversations is the register, whatever races, dies or is called on
\* the conversations afterwards.
Registry == INSTANCE DirectRegistry WITH registry <- [p \in Pairs |-> Entry(p)]
GetOrCreate == Registry!Spec

\* ... and never an error: the refetch after a P2002 always finds the winner.
RaceNeverReported ==
    [][\A r \in Reqs : call[r].op = "createDirect" => pc'[r] # "conflict"]_vars

\* No membership outlives its conversation: addMember may have checked a
\* conversation that remove, or the last owner's leave, deletes before the
\* insert.
NoOrphanRows ==
    \A c \in Convs : MemberIds(c) # {} => Live(c)

\* "Leaving owners must hand off or the group becomes unmanageable": every live
\* group has an owner at every moment, also halfway through a hand-off and
\* after a handler that died there.  Holds when removeMember calls do not
\* overlap one another, whatever else does.
GroupHasOwner == \A c \in LiveGroups : Owners(c) # {}
-----------------------------------------------------------------------------
(* What the other modules rely on.                                         *)

\* The rows of conversation c as the other modules know them: the kind of the
\* conversation and the roles of its members.
Kind(c) == IF conversation[c].status = "unused" THEN "none"
           ELSE IF Live(c) THEN conversation[c].type ELSE "deleted"
RoleIn(c) == [u \in Users |-> member[c][u].role]
Rows(c) == INSTANCE Membership WITH kind <- Kind(c), role <- RoleIn(c)

RowsChange ==
    \A c \in Convs : \/ UNCHANGED Rows(c)!rows
                     \/ Rows(c)!Next /\ \A d \in Convs \ {c} : UNCHANGED Rows(d)!rows

\* Whatever requests interleave, die or are refused, the rows change in the ways
\* Membership lists, one conversation at a time: a direct conversation never, a
\* group by one member or all at once; what is deleted is never written again,
\* and whoever is made an owner has a row at that moment.
MembershipAsPromised == (\A c \in Convs : Rows(c)!Init) /\ [][RowsChange]_vars
=============================================================================
