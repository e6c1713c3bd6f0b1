------------------------------ MODULE Messages ------------------------------
(***************************************************************************)
(* MessagesService (apps/api/src/messages) and the read pointer of         *)
(* ConversationsService.markRead, in one conversation: sending, editing,   *)
(* deleting and reading messages.                                          *)
(*                                                                         *)
(* As in Conversations, each action is one database call with the decision *)
(* on its result.  Members come and go by the single statements of the     *)
(* conversations module.  A question to Redis about who is online may have *)
(* any answer: sockets open and close at any time, and ghosts linger.      *)
(*                                                                         *)
(* A handler that dies at an await is one that takes no further step: no   *)
(* action makes it finish, so a property that does not speak of AtRest     *)
(* holds of what such handlers leave behind too.  One whose call is        *)
(* rejected (Fail) leaves the same rows, and the others go on: AtRest      *)
(* comes again, and its properties say what they then still promise.       *)
(***************************************************************************)
EXTENDS Naturals, FiniteSets

CONSTANTS
    Users,
    Msgs,       \* the message ids the database can hand out
    Reqs,       \* the requests, REST or socket; each is served once
    None,       \* stands for null
    Old,        \* the messages that may have been sent before the model starts
    Scopes      \* what a behaviour may hold: see scope

Operations == {"send", "edit", "delete", "read"}

ASSUME MessagesAssumption ==
    /\ None \notin Users \cup Msgs
    /\ IsFiniteSet(Users)
    /\ Old \subseteq Msgs
    /\ Scopes \subseteq [overlap : SUBSET (Operations \cup {"membership"}), ids : Nat,
                        named : SUBSET SUBSET Users]

VARIABLES
    scope,      \* the operations that may run beside any other; how many messages
                \* are sent, and the sets of people they may name
    conv,       \* the Conversation row: its type, whether it is there, lastMessageAt
    role,       \* ConversationMember.role by user
    pointer,    \* lastReadMessageId and lastReadAt by user
    message,    \* table Message
    reads,      \* table MessageRead, as <<message, user>>
    noted,      \* table Notification: the type user u got for message m
    told,       \* what the conversation's room was last told of each message
    clock,      \* now(), in milliseconds
    pc,         \* the step each request is at, or how it was answered; "error": a 500
    call        \* the frame of each handler

vars == <<scope, conv, role, pointer, message, reads, noted, told, clock, pc, call>>
members == <<role, pointer>>
events == <<noted, told>>

Roles == {"OWNER", "ADMIN", "MEMBER"}
NoPointer == [id |-> None, at |-> 0]
\* Content is what tells versions apart: as sent, edited, or ''.
Row == [sender : Users, at : Nat, mentions : SUBSET Users,
        content : {"sent", "edited", "empty"}, deleted : BOOLEAN, delivered : BOOLEAN]
NoMessage == [sender |-> None]

StepsOf(op) ==
    CASE op = "send" -> {"check", "insert", "bump", "point", "recipients", "online",
                         "deliver", "tell", "mentions", "targets", "notify"}
      [] op = "edit" -> {"load", "write", "announce"}
      [] op = "delete" -> {"load", "role", "write", "announce"}
      [] op = "read" -> {"check", "find", "point", "record", "upsert"}
Steps == UNION {StepsOf(op) : op \in Operations}
Answers == {"ok", "badRequest", "forbidden", "notFound"}

\* to: the recipients, then the targets of notifications; shows: the DTO that
\* update is about to announce.
Frame == [op : Operations, actor : Users, msg : Msgs \cup {None},
          mentions : SUBSET Users, to : SUBSET Users,
          shows : {"none", "sent", "edited", "deleted"}]
NoFrame == [op |-> "none"]
Remains == [op : Operations, msg : Msgs \cup {None}]

\* The types of the tables and of the handlers' frames.
TypeOK ==
    /\ scope \in Scopes
    /\ conv \in [type : {"DIRECT", "GROUP"}, live : BOOLEAN, lastMessageAt : Nat]
    /\ role \in [Users -> Roles \cup {"NONE"}]
    /\ pointer \in [Users -> [id : Msgs \cup {None}, at : Nat]]
    /\ message \in [Msgs -> Row \cup {NoMessage}]
    /\ reads \subseteq Msgs \X Users
    /\ noted \in [Msgs -> [Users -> {"none", "NEW_MESSAGE", "MENTION"}]]
    /\ told \in [Msgs -> {"none", "sent", "edited", "deleted"}]
    /\ clock \in Nat
    /\ pc \in [Reqs -> {"idle", "error"} \cup Steps \cup Answers]
    /\ call \in [Reqs -> Frame \cup Remains \cup {NoFrame}]
    /\ \A r \in Reqs : /\ call[r] \in Frame <=> pc[r] \in Steps
                       /\ pc[r] \in Steps => pc[r] \in StepsOf(call[r].op)
                       /\ pc[r] \in Steps \ {"check", "insert"} => call[r].msg \in Msgs

Exists(m) == message[m] # NoMessage
MemberIds == {u \in Users : role[u] # "NONE"}
\* toMessageDto: what a client is shown of a row.
Shown(row) == IF row.deleted THEN "deleted" ELSE row.content

InFlight(r) == pc[r] \in Steps
At(r, op, step) == pc[r] = step /\ call[r].op = op
GotoWith(r, step, f) ==
    /\ pc' = [pc EXCEPT ![r] = step]
    /\ call' = [call EXCEPT ![r] = IF step \in Answers THEN NoFrame ELSE f]
Goto(r, step) == GotoWith(r, step, call[r])

\* The members a conversation is created with.
Founded(type, founders, o) ==
    /\ o \in founders
    /\ type = "DIRECT" => Cardinality(founders) = 2
    /\ role = [u \in Users |-> IF u \notin founders THEN "NONE"
                   ELSE IF type = "GROUP" /\ u = o THEN "OWNER" ELSE "MEMBER"]

\* A conversation as it was created, or after its owner sent one message: all
\* who were to be told of it have been.
Init ==
    \E type \in {"DIRECT", "GROUP"}, founders \in SUBSET Users, o \in Users,
      old \in Old \cup {None} :
        LET since == IF old = None THEN 0 ELSE 1 IN
        /\ scope \in Scopes
        /\ Founded(type, founders, o)
        /\ conv = [type |-> type, live |-> TRUE, lastMessageAt |-> since]
        /\ pointer = [u \in Users |-> IF u = o THEN [id |-> old, at |-> since] ELSE NoPointer]
        /\ message = [m \in Msgs |-> IF m # old THEN NoMessage
                         ELSE [sender |-> o, at |-> 1, mentions |-> {}, content |-> "sent",
                               deleted |-> FALSE, delivered |-> FALSE]]
        /\ reads = {}
        /\ noted = [m \in Msgs |-> [u \in Users |->
                       IF m = old /\ type = "DIRECT" /\ u \in founders \ {o}
                       THEN "NEW_MESSAGE" ELSE "none"]]
        /\ told = [m \in Msgs |-> IF m = old THEN "sent" ELSE "none"]
        /\ clock = 1
        /\ pc = [r \in Reqs |-> "idle"]
        /\ call = [r \in Reqs |-> NoFrame]

-----------------------------------------------------------------------------
(* Requests arrive.                                                        *)

\* The program lets all operations overlap; a smaller scope asks what would
\* hold if the operations outside it ran one at a time.
MayStart(op) ==
    op \in scope.overlap \/ \A q \in Reqs : InFlight(q) => call[q].op \in scope.overlap

\* Bound: an id is left for every send in flight, as cuids never run out.
Unsent == {r \in Reqs : InFlight(r) /\ call[r].op = "send" /\ call[r].msg = None}
IdsLeft == Cardinality(Unsent) + Cardinality({m \in Msgs : Exists(m)}) < scope.ids

\* mentions: the people the content @names; a client knows the ids of messages
\* that are, or were, there.
Receive(r) ==
    /\ pc[r] = "idle"
    /\ \E op \in Operations, a \in Users, m \in Msgs \cup {None}, M \in scope.named \cup {{}} :
         /\ MayStart(op)
         /\ op = "send" <=> m = None
         /\ op = "send" => IdsLeft
         /\ op # "send" => M = {} /\ (Exists(m) \/ told[m] # "none")
         /\ GotoWith(r, IF op \in {"send", "read"} THEN "check" ELSE "load",
                [op |-> op, actor |-> a, msg |-> m, mentions |-> M, to |-> {},
                 shows |-> "none"])
    /\ UNCHANGED <<scope, conv, members, message, reads, events, clock>>

\* Mutant: markRead goes on as send does.
AssertForSend(r) ==
    /\ pc[r] = "check"
    /\ Goto(r, IF role[call[r].actor] = "NONE" THEN "notFound" ELSE "insert")
    /\ UNCHANGED <<scope, conv, members, message, reads, events, clock>>

\* assertMembership, at the start of send and markRead.
AssertMembership(r) ==
    /\ pc[r] = "check"
    /\ Goto(r, IF role[call[r].actor] = "NONE" THEN "notFound"
               ELSE IF call[r].op = "send" THEN "insert" ELSE "find")
    /\ UNCHANGED <<scope, conv, members, message, reads, events, clock>>
-----------------------------------------------------------------------------
(* send                                                                    *)

\* The insert checks that the conversation is there (P2003), not that the sender
\* is still a member.  Two inserts may carry the same millisecond.
InsertMessage(r) ==
    /\ At(r, "send", "insert")
    /\ \/ /\ ~conv.live
          /\ Goto(r, "badRequest")
          /\ UNCHANGED <<scope, message, clock>>
       \/ /\ conv.live
          /\ \E m \in Msgs, now \in {clock, clock + 1} :
                /\ ~Exists(m) /\ told[m] = "none"
                /\ clock' = now
                /\ message' = [message EXCEPT ![m] =
                       [sender |-> call[r].actor, at |-> now, content |-> "sent",
                        mentions |-> call[r].mentions, deleted |-> FALSE,
                        delivered |-> FALSE]]
                /\ GotoWith(r, "bump", [call[r] EXCEPT !.msg = m])
    /\ UNCHANGED <<scope, conv, members, reads, events>>

\* Mutant: only the first message counts.
BumpOnce(r) ==
    /\ At(r, "send", "bump")
    /\ IF conv.live
       THEN /\ conv' = IF conv.lastMessageAt = 0
                       THEN [conv EXCEPT !.lastMessageAt = message[call[r].msg].at] ELSE conv
            /\ Goto(r, "point")
       ELSE Goto(r, "notFound") /\ UNCHANGED conv
    /\ UNCHANGED <<scope, members, message, reads, events, clock>>

\* conversation.lastMessageAt := persisted.createdAt.  (The row was returned by
\* the insert: a conversation deleted since is not found.)
BumpConversation(r) ==
    /\ At(r, "send", "bump")
    /\ IF conv.live
       THEN /\ conv' = [conv EXCEPT !.lastMessageAt = message[call[r].msg].at]
            /\ Goto(r, "point")
       ELSE Goto(r, "notFound") /\ UNCHANGED conv
    /\ UNCHANGED <<scope, members, message, reads, events, clock>>

\* The read pointer of the caller's row, if he still has one: send's own
\* message, or the message markRead found.
SetPointer(r) ==
    LET u == call[r].actor
        m == call[r].msg
    IN
    /\ pc[r] = "point"
    /\ IF role[u] # "NONE"
       THEN /\ pointer' = [pointer EXCEPT ![u] = [id |-> m, at |-> message[m].at]]
            /\ Goto(r, IF call[r].op = "send" THEN "recipients" ELSE "record")
       ELSE Goto(r, "notFound") /\ UNCHANGED pointer
    /\ UNCHANGED <<scope, conv, role, message, reads, events, clock>>

ReadRecipients(r) ==
    /\ At(r, "send", "recipients")
    /\ LET to == MemberIds \ {call[r].actor}
       IN  GotoWith(r, IF conv.type = "DIRECT" /\ Cardinality(to) = 1
                       THEN "online" ELSE "tell", [call[r] EXCEPT !.to = to])
    /\ UNCHANGED <<scope, conv, members, message, reads, events, clock>>

AskOnline(r) ==
    /\ At(r, "send", "online")
    /\ Goto(r, "deliver") \/ Goto(r, "tell")
    /\ UNCHANGED <<scope, conv, members, message, reads, events, clock>>

MarkDelivered(r) ==
    /\ At(r, "send", "deliver")
    /\ message' = [message EXCEPT ![call[r].msg].delivered = TRUE]
    /\ Goto(r, "tell")
    /\ UNCHANGED <<scope, conv, members, reads, events, clock>>

\* 'message:new' shows the row as it was inserted.
TellNew(r) ==
    /\ At(r, "send", "tell")
    /\ told' = [told EXCEPT ![call[r].msg] = "sent"]
    /\ Goto(r, IF call[r].to = {} THEN "ok"
               ELSE IF conv.type = "GROUP" /\ call[r].mentions # {} THEN "mentions"
               ELSE "targets")
    /\ UNCHANGED <<scope, conv, members, message, reads, noted, clock>>

\* Mutant: mentions are resolved against all users.
ResolveAnybody(r) ==
    /\ At(r, "send", "mentions")
    /\ Goto(r, "targets")
    /\ UNCHANGED <<scope, conv, members, message, reads, events, clock>>

\* resolveMentionTargets: the named who are recipients, and members still.
ResolveMentions(r) ==
    /\ At(r, "send", "mentions")
    /\ GotoWith(r, "targets", [call[r] EXCEPT !.mentions = @ \cap call[r].to \cap MemberIds])
    /\ UNCHANGED <<scope, conv, members, message, reads, events, clock>>

\* Mutant: the recipient of a direct message is notified when offline only.
OfflineTargets(r, online) == call[r].mentions \cup (call[r].to \ online)

\* A direct message notifies its recipient; a group message those it mentions,
\* and those who are offline.
Targets(r, online) ==
    IF conv.type = "DIRECT" THEN call[r].to ELSE call[r].mentions \cup (call[r].to \ online)

ChooseTargets(r) ==
    /\ At(r, "send", "targets")
    /\ \E online \in SUBSET call[r].to :
          GotoWith(r, IF Targets(r, online) = {} THEN "ok" ELSE "notify",
                   [call[r] EXCEPT !.to = Targets(r, online)])
    /\ UNCHANGED <<scope, conv, members, message, reads, events, clock>>

\* createMany, one transaction, then the emits.
NotifyTargets(r) ==
    LET kind(u) == IF conv.type = "GROUP" /\ u \in call[r].mentions
                   THEN "MENTION" ELSE "NEW_MESSAGE"
    IN
    /\ At(r, "send", "notify")
    /\ noted' = [noted EXCEPT ![call[r].msg] =
                    [u \in Users |-> IF u \in call[r].to THEN kind(u) ELSE @[u]]]
    /\ Goto(r, "ok")
    /\ UNCHANGED <<scope, conv, members, message, reads, told, clock>>

-----------------------------------------------------------------------------
(* update and delete.                                                      *)

\* The checks of update: the sender's own message, not deleted, and sent less
\* than 15 minutes ago, which may fail at any time; then those of delete, which
\* is idempotent.
LoadMessage(r) ==
    LET m == call[r].msg
        own == message[m].sender = call[r].actor
    IN
    /\ pc[r] = "load"
    /\ \/ ~Exists(m) /\ Goto(r, "notFound")
       \/ /\ Exists(m) /\ call[r].op = "edit"
          /\ \/ own /\ ~message[m].deleted /\ Goto(r, "write")
             \/ Goto(r, "forbidden")
       \/ /\ Exists(m) /\ call[r].op = "delete"
          /\ Goto(r, IF message[m].deleted THEN "ok" ELSE IF own THEN "write" ELSE "role")
    /\ UNCHANGED <<scope, conv, members, message, reads, events, clock>>

ReadRole(r) ==
    /\ At(r, "delete", "role")
    /\ Goto(r, IF conv.type = "GROUP" /\ role[call[r].actor] \in {"OWNER", "ADMIN"}
               THEN "write" ELSE "forbidden")
    /\ UNCHANGED <<scope, conv, members, message, reads, events, clock>>

\* Mutant: the edit writes the row it loaded, before a delete perhaps.
OverwriteMessage(r) ==
    /\ At(r, "edit", "write")
    /\ message' = IF Exists(call[r].msg)
                  THEN [message EXCEPT ![call[r].msg].content = "edited",
                                       ![call[r].msg].deleted = FALSE]
                  ELSE message
    /\ GotoWith(r, IF Exists(call[r].msg) THEN "announce" ELSE "notFound",
                [call[r] EXCEPT !.shows = "edited"])
    /\ UNCHANGED <<scope, conv, members, reads, events, clock>>

\* The content of a message deleted since the check is written all the same; the
\* row stays deleted, and the DTO does not show it.
EditMessage(r) ==
    LET m == call[r].msg IN
    /\ At(r, "edit", "write")
    /\ IF Exists(m)
       THEN /\ message' = [message EXCEPT ![m].content = "edited"]
            /\ GotoWith(r, "announce", [call[r] EXCEPT !.shows = Shown(message'[m])])
       ELSE Goto(r, "notFound") /\ UNCHANGED message
    /\ UNCHANGED <<scope, conv, members, reads, events, clock>>

DeleteMessage(r) ==
    LET m == call[r].msg IN
    /\ At(r, "delete", "write")
    /\ IF Exists(m)
       THEN /\ message' = [message EXCEPT ![m].content = "empty", ![m].deleted = TRUE]
            /\ GotoWith(r, "announce", [call[r] EXCEPT !.shows = "deleted"])
       ELSE Goto(r, "notFound") /\ UNCHANGED message
    /\ UNCHANGED <<scope, conv, members, reads, events, clock>>

\* Mutant: a delete is not announced.
AnnounceEditOnly(r) ==
    /\ pc[r] = "announce"
    /\ told' = IF call[r].op = "edit" THEN [told EXCEPT ![call[r].msg] = call[r].shows]
                                      ELSE told
    /\ Goto(r, "ok")
    /\ UNCHANGED <<scope, conv, members, message, reads, noted, clock>>

Announce(r) ==
    /\ pc[r] = "announce"
    /\ told' = [told EXCEPT ![call[r].msg] = call[r].shows]
    /\ Goto(r, "ok")
    /\ UNCHANGED <<scope, conv, members, message, reads, noted, clock>>
-----------------------------------------------------------------------------
(* markRead and recordDirectRead, one after the other.                     *)

\* The message must be in this conversation.
FindMessage(r) ==
    /\ At(r, "read", "find")
    /\ Goto(r, IF Exists(call[r].msg) THEN "point" ELSE "notFound")
    /\ UNCHANGED <<scope, conv, members, message, reads, events, clock>>

\* Mutant: the sender's own reads are recorded.
LoadForAnyRead(r) ==
    /\ At(r, "read", "record")
    /\ Goto(r, IF ~Exists(call[r].msg) THEN "notFound"
               ELSE IF conv.type # "DIRECT" THEN "ok" ELSE "upsert")
    /\ UNCHANGED <<scope, conv, members, message, reads, events, clock>>

LoadForRead(r) ==
    LET m == call[r].msg IN
    /\ At(r, "read", "record")
    /\ Goto(r, IF ~Exists(m) THEN "notFound"
               ELSE IF conv.type # "DIRECT" \/ message[m].sender = call[r].actor THEN "ok"
               ELSE "upsert")
    /\ UNCHANGED <<scope, conv, members, message, reads, events, clock>>

UpsertRead(r) ==
    /\ At(r, "read", "upsert")
    /\ reads' = reads \cup {<<call[r].msg, call[r].actor>>}
    /\ Goto(r, "ok")
    /\ UNCHANGED <<scope, conv, members, message, events, clock>>
-----------------------------------------------------------------------------
(* The rest of the system.                                                 *)

MayChange == "membership" \in scope.overlap \/ \A r \in Reqs : ~InFlight(r)
Group == conv.type = "GROUP" /\ conv.live /\ MayChange

\* conversationMember.create, .delete (the last one too: two leaves may overlap)
\* and .update.
Join(u) ==
    /\ Group /\ role[u] = "NONE"
    /\ role' = [role EXCEPT ![u] = "MEMBER"]
    /\ UNCHANGED <<scope, conv, pointer, message, reads, events, clock, pc, call>>

\* Mutant: a member who comes back finds his old pointer.
LeavePointer(u) ==
    /\ Group /\ u \in MemberIds
    /\ role' = [role EXCEPT ![u] = "NONE"]
    /\ UNCHANGED <<scope, conv, pointer, message, reads, events, clock, pc, call>>

Leave(u) ==
    /\ Group /\ u \in MemberIds
    /\ role' = [role EXCEPT ![u] = "NONE"]
    /\ pointer' = [pointer EXCEPT ![u] = NoPointer]
    /\ UNCHANGED <<scope, conv, message, reads, events, clock, pc, call>>

Promote(u) ==
    /\ Group /\ u \in MemberIds
    /\ role' = [role EXCEPT ![u] = "OWNER"]
    /\ UNCHANGED <<scope, conv, pointer, message, reads, events, clock, pc, call>>

\* conversation.delete cascades to members, messages and their reads.
DeleteConversation ==
    /\ Group
    /\ conv' = [conv EXCEPT !.live = FALSE]
    /\ role' = [u \in Users |-> "NONE"]
    /\ pointer' = [u \in Users |-> NoPointer]
    /\ message' = [m \in Msgs |-> NoMessage]
    /\ reads' = {}
    /\ UNCHANGED <<scope, events, clock, pc, call>>

Handle(r) ==
    \/ AssertMembership(r) \/ InsertMessage(r) \/ BumpConversation(r) \/ SetPointer(r)
    \/ ReadRecipients(r) \/ AskOnline(r) \/ MarkDelivered(r) \/ TellNew(r)
    \/ ResolveMentions(r) \/ ChooseTargets(r) \/ NotifyTargets(r)
    \/ LoadMessage(r) \/ ReadRole(r) \/ EditMessage(r) \/ DeleteMessage(r) \/ Announce(r)
    \/ FindMessage(r) \/ LoadForRead(r) \/ UpsertRead(r)

\* A call of the database or of Redis is rejected, done or not.  The service
\* catches nothing and undoes nothing; the filter or the gateway answers the
\* error.  What is left of the frame tells which message it was about.
Fail(r) ==
    /\ InFlight(r)
    /\ pc' = [pc EXCEPT ![r] = "error"]
    /\ call' = [call EXCEPT ![r] = [op |-> call[r].op, msg |-> call[r].msg]]
    /\ UNCHANGED <<scope, conv, members, message, reads, events, clock>>

AllAnswered ==
    /\ \A r \in Reqs : pc[r] \in Answers \cup {"error"}
    /\ UNCHANGED vars

Next ==
    \/ \E r \in Reqs : Receive(r) \/ Handle(r) \/ Fail(r)
    \/ \E u \in Users : Join(u) \/ Leave(u) \/ Promote(u)
    \/ DeleteConversation
    \/ AllAnswered

Spec == Init /\ [][Next]_vars
-----------------------------------------------------------------------------
(***************************************************************************)
(* How this module meets Conversations.  Membership lists what that module *)
(* may do to the rows of this conversation; Cascade is what the database   *)
(* does with it to the rows modelled here.  Join, Leave, Promote and       *)
(* DeleteConversation are these changes, all of them and no others: see    *)
(* the theorems in MessagesProofs.                                         *)
(***************************************************************************)

Kind == IF conv.live THEN conv.type ELSE "deleted"
Rows == INSTANCE Membership WITH kind <- Kind

\* A membership row takes its read pointer with it; onDelete: Cascade takes the
\* messages of a conversation and their reads.
Cascade ==
    /\ conv' \in {conv, [conv EXCEPT !.live = FALSE]}
    /\ pointer' = [u \in Users |-> IF role'[u] = "NONE" THEN NoPointer ELSE pointer[u]]
    /\ message' = IF conv'.live THEN message ELSE [m \in Msgs |-> NoMessage]
    /\ reads' = IF conv'.live THEN reads ELSE {}
    /\ UNCHANGED <<scope, events, clock, pc, call>>
-----------------------------------------------------------------------------
(* What must hold.                                                         *)

Stored == {m \in Msgs : Exists(m)}
AtRest == \A r \in Reqs : ~InFlight(r)

\* An operation on m ended in an error, somewhere between its calls.
CutShort(m, ops) ==
    \E r \in Reqs : pc[r] = "error" /\ call[r].op \in ops /\ call[r].msg = m

\* "Deleted messages ... never leak their original content": once a message is
\* deleted it stays so and is shown as deleted, also when an edit that was
\* checked before the delete writes its content after it.
DeletedForGood ==
    [][\A m \in Stored : message[m].deleted /\ Exists(m)'
            => message'[m].deleted /\ Shown(message'[m]) = "deleted"]_vars

\* The two halves of a read pointer belong together: it names a message of this
\* conversation and carries that message's time, whoever wrote it last; a member
\* who left and came back starts without one.
PointerIsReal ==
    \A u \in Users : pointer[u] # NoPointer =>
        /\ u \in MemberIds
        /\ pointer[u].id \in Stored
        /\ pointer[u].at = message[pointer[u].id].at

\* "Per-message read rows are written for DIRECT conversations only", for the
\* other person only: recordDirectRead itself asks for no membership, markRead
\* before it does.
ReadsAreTheOthers ==
    \A x \in reads : /\ conv.type = "DIRECT"
                     /\ x[1] \in Stored /\ x[2] \in MemberIds
                     /\ message[x[1]].sender # x[2]

\* Notifications go by the policy: never to the sender, MENTION in groups only
\* and only to people the content names.
NotifiedByPolicy ==
    \A m \in Stored, u \in Users :
        /\ noted[m][u] # "none" => u # message[m].sender
        /\ noted[m][u] = "MENTION" => conv.type = "GROUP" /\ u \in message[m].mentions

\* "The sidebar can never disagree with the message table": lastMessageAt is the
\* time of the newest message.
NewestIsShown ==
    AtRest => \A m \in Stored : message[m].at <= conv.lastMessageAt

\* It does not when no two sends overlap, whatever else does, but for the messages
\* whose own send ended in an error: the next send makes up for those.
SidebarAgrees ==
    "send" \notin scope.overlap /\ AtRest =>
        \A m \in Stored : message[m].at <= conv.lastMessageAt \/ CutShort(m, {"send"})

\* Operations that write what clients are told run one at a time, while reads
\* come in and members come and go.
OneByOne == scope.overlap \subseteq {"read", "membership"}

\* The last event about a message says what the table says, unless a write of it
\* ended in an error; none came only of one whose sender lost his row meanwhile.
RoomKnows ==
    OneByOne /\ AtRest => \A m \in Stored :
        \/ told[m] = Shown(message[m])
        \/ told[m] = "none" /\ "membership" \in scope.overlap
        \/ CutShort(m, {"send", "edit", "delete"})

\* "DIRECT: always notify the single recipient": unless the service stopped, or
\* the send ended in an error.
DirectsNotified ==
    AtRest /\ conv.type = "DIRECT" =>
        \A m \in Stored, u \in MemberIds :
            u # message[m].sender =>
                noted[m][u] = "NEW_MESSAGE" \/ CutShort(m, {"send"})
=============================================================================
