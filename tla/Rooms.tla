-------------------------------- MODULE Rooms --------------------------------
(***************************************************************************)
(* Who is in which Socket.IO room: ChatGateway's connect, join and typing  *)
(* handlers, the announcements ConversationsService makes through the      *)
(* emitter, and the Redis adapter that carries them to other processes.    *)
(*                                                                         *)
(* A room lives in the memory of the socket's process.  One reads members  *)
(* from the database, where other processes change them; each action is    *)
(* one query, one delivery, or what a handler does between two awaits.     *)
(***************************************************************************)
EXTENDS Naturals, Sequences, FiniteSets

CONSTANTS
    Users, Conversations,
    Sockets,    \* connections; a closed one may open again, under a new id
    Owner,      \* the user each authenticates as
    Nodes,      \* the API processes
    Home,       \* the process each is connected to
    Groups,     \* the group conversations; the others are direct
    Typing,     \* whose typing is followed where: <<socket, conversation>>
    MaxDots,    \* how many events of one typist may be under way
    Scopes      \* what may happen: see scope

Extras == {"ask", "crash", "type"}

ASSUME RoomsAssumption ==
    /\ Owner \in [Sockets -> Users] /\ Home \in [Sockets -> Nodes]
    /\ Groups \subseteq Conversations
    /\ Typing \subseteq Sockets \X Conversations
    /\ MaxDots \in Nat
    /\ Scopes \subseteq [extras : SUBSET Extras, sockets : SUBSET Sockets, nodes : SUBSET Nodes,
                          begun : SUBSET Groups, new : SUBSET Conversations]

VARIABLES
    scope,      \* the sockets that open, the processes that serve requests, the
                \* groups everybody is in from the start, the conversations
                \* created, and if clients ask unasked, processes die, people type
    made,       \* the conversations created so far
    gone,       \* those deleted since
    member,     \* ConversationMember; a conversation that was deleted has none
    tell,       \* rows a request has committed and not yet announced
    wire,       \* 'conversation:created' on its way to a process
    lost,       \* what a crash kept each connected socket from being told
    up,         \* the step of each connect handler
    rows,       \* the memberships it read
    room,       \* the conversation rooms the socket is in
    past,       \* conversations whose member he was since the socket connected
    asks,       \* 'conversation:join' the client sends
    joins,      \* join handlers that found him a member and are about to join
    events,     \* typing handlers: <<event, step>>
    dots,       \* typing events on their way to each process
    shown,      \* the typists each client shows
    over        \* the typists whose last stop met no start, refusal or close

requests == <<made, gone, member, tell>>
sockets == <<up, rows, room, past, asks, joins>>
indicators == <<events, dots, shown, over>>
vars == <<scope, requests, wire, lost, sockets, indicators>>

Event == {"start", "stop"}
Announcement == [node : Nodes, conversation : Conversations, user : Users]
Known == {"user", "read", "register", "up"}

\* The types, and what a socket that is closed, or unknown, cannot have.
TypeOK ==
    /\ scope \in Scopes
    /\ made \subseteq Conversations /\ gone \subseteq made
    /\ member \in [Conversations -> SUBSET Users]
    /\ tell \subseteq Announcement /\ wire \subseteq Announcement
    /\ lost \in [Sockets -> SUBSET Conversations]
    /\ up \in [Sockets -> Known \cup {"off", "auth"}]
    /\ \A f \in {rows, room, past, asks, joins} : f \in [Sockets -> SUBSET Conversations]
    /\ events \in [Typing -> SUBSET (Event \X {"check", "emit"})]
    /\ dots \in [Typing -> [Nodes -> Seq(Event)]]
    /\ shown \in [Sockets -> SUBSET Typing]
    /\ over \subseteq Typing
    /\ \A s \in Sockets : up[s] \notin Known => room[s] \cup joins[s] \cup rows[s] = {}

None == [s \in Sockets |-> {}]

Init ==
    /\ scope \in Scopes
    /\ made = scope.begun /\ gone = {} /\ tell = {}
    /\ member = [c \in Conversations |-> IF c \in made THEN Users ELSE {}]
    /\ wire = {} /\ lost = None
    /\ up = [s \in Sockets |-> "off"]
    /\ rows = None /\ room = None /\ past = None /\ asks = None /\ joins = None
    /\ events = [i \in Typing |-> {}]
    /\ dots = [i \in Typing |-> [n \in Nodes |-> <<>>]]
    /\ shown = None /\ over = {}

Of(u) == {s \in Sockets : Owner[s] = u}
IsMember(s, c) == Owner[s] \in member[c]

-----------------------------------------------------------------------------
(* Requests that change who is a member, on any process.                   *)

\* Those of the users who are connected were members since they connected.
Remember(c, U) ==
    past' = [s \in Sockets |-> IF up[s] # "off" /\ Owner[s] \in U
                               THEN past[s] \cup {c} ELSE past[s]]

\* create: the rows are committed before anything is emitted.  A group's are
\* announced to each of its users; what findOrCreateDirect emits goes to the
\* conversation's own room, where nobody is yet.
Create(n, c, U) ==
    /\ n \in scope.nodes /\ c \in scope.new \ made /\ U # {}
    /\ c \notin Groups => Cardinality(U) = 2
    /\ made' = made \cup {c}
    /\ member' = [member EXCEPT ![c] = U]
    /\ tell' = IF c \in Groups
               THEN tell \cup [node : {n}, conversation : {c}, user : U] ELSE tell
    /\ Remember(c, U)
    /\ UNCHANGED <<scope, gone, wire, lost, up, rows, room, asks, joins, indicators>>

\* Members that leave together may leave nobody behind, and the one of them who
\* was admitted before still adds somebody.
AddMember(n, c, u) ==
    /\ n \in scope.nodes /\ c \in (Groups \cap made) \ gone /\ u \notin member[c]
    /\ member' = [member EXCEPT ![c] = @ \cup {u}]
    /\ tell' = tell \cup {[node |-> n, conversation |-> c, user |-> u]}
    /\ Remember(c, {u})
    /\ UNCHANGED <<scope, made, gone, wire, lost, up, rows, room, asks, joins, indicators>>

\* removeMember: the sockets stay in the room, here and in remove.
RemoveMember(c, u) ==
    /\ c \in Groups /\ u \in member[c]
    /\ member' = [member EXCEPT ![c] = @ \ {u}]
    /\ UNCHANGED <<scope, made, gone, tell, wire, lost, sockets, indicators>>

Remove(c) ==
    /\ c \in (Groups \cap made) \ gone
    /\ gone' = gone \cup {c}
    /\ member' = [member EXCEPT ![c] = {}]
    /\ UNCHANGED <<scope, made, tell, wire, lost, sockets, indicators>>

\* Mutant: no adapter; the emitter reaches its own process only.
AnnounceHere(a) ==
    /\ a \in tell
    /\ tell' = tell \ {a}
    /\ wire' = wire \cup {b \in {a} : a.node \in {Home[s] : s \in Of(a.user)}}
    /\ UNCHANGED <<scope, made, gone, member, lost, sockets, indicators>>

\* emitToUser, and through the adapter the processes of the user's sockets.
Announce(a) ==
    /\ a \in tell
    /\ tell' = tell \ {a}
    /\ wire' = wire \cup [node : {Home[s] : s \in Of(a.user)},
                          conversation : {a.conversation}, user : {a.user}]
    /\ UNCHANGED <<scope, made, gone, member, lost, sockets, indicators>>

\* Mutant: the memberships are read before the user's room is joined.
InUserRoomLate(s) == up[s] \in {"register", "up"}

InUserRoom(s) == up[s] \in Known

\* The clients in the user's room hear of the conversation and ask to join.
Deliver(a) ==
    /\ a \in wire
    /\ wire' = wire \ {a}
    /\ asks' = [s \in Sockets |->
                  IF s \in Of(a.user) /\ Home[s] = a.node /\ InUserRoom(s)
                  THEN asks[s] \cup {a.conversation} ELSE asks[s]]
    /\ UNCHANGED <<scope, requests, lost, up, rows, room, past, joins, indicators>>

-----------------------------------------------------------------------------
(* handleConnection and handleDisconnect.                                  *)

Connect(s) ==
    /\ s \in scope.sockets /\ up[s] = "off"
    /\ up' = [up EXCEPT ![s] = "auth"]
    /\ past' = [past EXCEPT ![s] = {c \in Conversations : IsMember(s, c)}]
    /\ UNCHANGED <<scope, requests, wire, lost, rows, room, asks, joins, indicators>>

Step(s, from, to) ==
    /\ up[s] = from
    /\ up' = [up EXCEPT ![s] = to]

\* The token names a user: socket.data.user is set, the user's room joined.
Authenticate(s) ==
    /\ Step(s, "auth", "user")
    /\ UNCHANGED <<scope, requests, wire, lost, rows, room, past, asks, joins, indicators>>

ReadMemberships(s) ==
    /\ Step(s, "user", "read")
    /\ rows' = [rows EXCEPT ![s] = {c \in Conversations : IsMember(s, c)}]
    /\ UNCHANGED <<scope, requests, wire, lost, room, past, asks, joins, indicators>>

\* All the rooms are joined in one go: join is local to the process.
JoinRooms(s) ==
    /\ Step(s, "read", "register")
    /\ room' = [room EXCEPT ![s] = @ \cup rows[s]]
    /\ rows' = [rows EXCEPT ![s] = {}]
    /\ UNCHANGED <<scope, requests, wire, lost, past, asks, joins, indicators>>

RegisterSocket(s) ==
    /\ Step(s, "register", "up")
    /\ UNCHANGED <<scope, requests, wire, lost, rows, room, past, asks, joins, indicators>>

\* What is left of the sockets S once they are closed: not a thing here, and
\* with the clients who saw their users type, whatever they last saw.
Forget(S) ==
    LET clear(f) == [s \in Sockets |-> IF s \in S THEN {} ELSE f[s]]
    IN  /\ up' = [s \in Sockets |-> IF s \in S THEN "off" ELSE up[s]]
        /\ rows' = clear(rows) /\ room' = clear(room) /\ past' = clear(past)
        /\ asks' = clear(asks) /\ joins' = clear(joins)
        /\ shown' = clear(shown)
        /\ over' = {i \in over : i[1] \notin S}

\* The client goes, or a step of handleConnection fails and the gateway closes
\* the socket.  Typing handlers that are under way end on their own.
Close(s) ==
    /\ up[s] # "off"
    /\ Forget({s})
    /\ lost' = [lost EXCEPT ![s] = {}]
    /\ UNCHANGED <<scope, requests, wire, events, dots>>

\* A process dies, with its sockets, its handlers and what it had to announce.
Crash(n) ==
    /\ "crash" \in scope.extras
    /\ LET S == {s \in Sockets : Home[s] = n /\ up[s] # "off"}
           silenced(s) == {a.conversation : a \in {b \in tell : b.node = n /\ b.user = Owner[s]}}
       IN  /\ Forget(S)
           /\ tell' = {a \in tell : a.node # n}
           /\ wire' = {a \in wire : a.node # n}
           /\ lost' = [s \in Sockets |->
                         IF s \in S \/ up[s] = "off" THEN {} ELSE lost[s] \cup silenced(s)]
           /\ events' = [i \in Typing |-> IF Home[i[1]] = n THEN {} ELSE events[i]]
           /\ dots' = [i \in Typing |-> [dots[i] EXCEPT ![n] = <<>>]]
           /\ UNCHANGED <<scope, made, gone, member>>

-----------------------------------------------------------------------------
(* onConversationJoin.                                                     *)

\* A client may ask to join what it likes, such as the page it shows.
Ask(s, c) ==
    /\ "ask" \in scope.extras /\ up[s] # "off" /\ c \in made
    /\ asks' = [asks EXCEPT ![s] = @ \cup {c}]
    /\ UNCHANGED <<scope, requests, wire, lost, up, rows, room, past, joins, indicators>>

\* Mutant: whoever is authenticated may join.
OnConversationJoinAny(s, c) ==
    /\ c \in asks[s]
    /\ asks' = [asks EXCEPT ![s] = @ \ {c}]
    /\ joins' = IF up[s] \in Known THEN [joins EXCEPT ![s] = @ \cup {c}] ELSE joins
    /\ UNCHANGED <<scope, requests, wire, lost, up, rows, room, past, indicators>>

\* requireUser and assertMembership; if either throws there is no more to do.
OnConversationJoin(s, c) ==
    /\ c \in asks[s]
    /\ asks' = [asks EXCEPT ![s] = @ \ {c}]
    /\ joins' = IF up[s] \in Known /\ IsMember(s, c)
                THEN [joins EXCEPT ![s] = @ \cup {c}] ELSE joins
    /\ UNCHANGED <<scope, requests, wire, lost, up, rows, room, past, indicators>>

Join(s, c) ==
    /\ c \in joins[s]
    /\ joins' = [joins EXCEPT ![s] = @ \ {c}]
    /\ room' = [room EXCEPT ![s] = @ \cup {c}]
    /\ UNCHANGED <<scope, requests, wire, lost, up, rows, past, asks, indicators>>

-----------------------------------------------------------------------------
(* onTypingStart and onTypingStop.                                         *)

UnderWay(i) == {e \in Event : <<e, "check">> \in events[i] \/ <<e, "emit">> \in events[i]}

\* The client sends an event, and requireUser lets it in.
Type(i, e) ==
    /\ "type" \in scope.extras /\ up[i[1]] \in Known /\ i[2] \in made
    /\ e \notin UnderWay(i)
    /\ \A n \in Nodes : Len(dots[i][n]) + Cardinality(UnderWay(i)) < MaxDots
    /\ events' = [events EXCEPT ![i] = @ \cup {<<e, "check">>}]
    /\ over' = IF e = "stop" /\ "start" \notin UnderWay(i) THEN over \cup {i} ELSE over \ {i}
    /\ UNCHANGED <<scope, requests, wire, lost, sockets, dots, shown>>

\* assertMembership, refused to him who is no member.
CheckTyping(i, e) ==
    /\ <<e, "check">> \in events[i]
    /\ LET rest == events[i] \ {<<e, "check">>}
           admitted == IsMember(i[1], i[2])
       IN  /\ events' = [events EXCEPT ![i] = IF admitted THEN rest \cup {<<e, "emit">>} ELSE rest]
           /\ over' = IF admitted THEN over ELSE over \ {i}
    /\ UNCHANGED <<scope, requests, wire, lost, sockets, dots, shown>>

\* The processes where somebody may see it.
Others(i) == {Home[r] : r \in Sockets \ {i[1]}}

\* Mutant: onTypingStop, copied from onTypingStart, emits its event.
EmitTypingStart(i, e) ==
    /\ <<e, "emit">> \in events[i]
    /\ events' = [events EXCEPT ![i] = @ \ {<<e, "emit">>}]
    /\ dots' = [dots EXCEPT ![i] =
                   [n \in Nodes |-> IF n \in Others(i) THEN Append(@[n], "start") ELSE @[n]]]
    /\ UNCHANGED <<scope, requests, wire, lost, sockets, shown, over>>

EmitTyping(i, e) ==
    /\ <<e, "emit">> \in events[i]
    /\ events' = [events EXCEPT ![i] = @ \ {<<e, "emit">>}]
    /\ dots' = [dots EXCEPT ![i] = [n \in Nodes |-> IF n \in Others(i) THEN Append(@[n], e) ELSE @[n]]]
    /\ UNCHANGED <<scope, requests, wire, lost, sockets, shown, over>>

\* To every other socket in the room at that moment.
DeliverTyping(i, n) ==
    /\ dots[i][n] # <<>>
    /\ dots' = [dots EXCEPT ![i][n] = Tail(@)]
    /\ shown' = [r \in Sockets |->
                   IF Home[r] # n \/ r = i[1] \/ i[2] \notin room[r] THEN shown[r]
                   ELSE IF Head(dots[i][n]) = "start" THEN shown[r] \cup {i}
                   ELSE shown[r] \ {i}]
    /\ UNCHANGED <<scope, requests, wire, lost, sockets, events, over>>

-----------------------------------------------------------------------------

Environment ==
    \/ \E n \in Nodes : \/ \E c \in Conversations, U \in SUBSET Users : Create(n, c, U)
                        \/ \E c \in Conversations, u \in Users : AddMember(n, c, u)
                        \/ Crash(n)
    \/ \E c \in Conversations : Remove(c) \/ \E u \in Users : RemoveMember(c, u)
    \/ \E s \in Sockets : Connect(s) \/ Close(s) \/ \E c \in Conversations : Ask(s, c)
    \/ \E i \in Typing, e \in Event : Type(i, e)

Tell(c, u) ==
    \E n \in Nodes : LET a == [node |-> n, conversation |-> c, user |-> u]
                    IN  Announce(a) \/ Deliver(a)
Handle(s) == Authenticate(s) \/ ReadMemberships(s) \/ JoinRooms(s) \/ RegisterSocket(s)
HandleJoin(s, c) == OnConversationJoin(s, c) \/ Join(s, c)

Next ==
    \/ Environment
    \/ \E c \in Conversations, u \in Users : Tell(c, u)
    \/ \E s \in Sockets : Handle(s) \/ \E c \in Conversations : HandleJoin(s, c)
    \/ \E i \in Typing, e \in Event : CheckTyping(i, e) \/ EmitTyping(i, e)
    \/ \E i \in Typing, n \in Nodes : DeliverTyping(i, n)

Spec == Init /\ [][Next]_vars

\* Node runs every callback that is due, Redis delivers, and a client that
\* hears of a conversation asks to join.  Only groups are announced.
Fairness ==
    /\ \A c \in Groups, u \in Users : WF_vars(Tell(c, u))
    /\ \A s \in Sockets : /\ WF_vars(Handle(s))
                          /\ \A c \in Groups : /\ WF_vars(OnConversationJoin(s, c))
                                               /\ WF_vars(Join(s, c))
FairSpec == Spec /\ Fairness

-----------------------------------------------------------------------------
(* Properties.                                                             *)

\* Once a socket has joined the rooms of the memberships it read, its user is
\* never a member of a group whose room it is not in, but for as long as the
\* announcement, the client's request or its handler is under way, or if the
\* process that should have announced it died.  (The gateway's connect handler
\* joins the user's room before it reads the memberships; a row is announced
\* only after it is committed.)
OnItsWay(s, c) ==
    \/ \E a \in tell : a.conversation = c /\ a.user = Owner[s]
    \/ [node |-> Home[s], conversation |-> c, user |-> Owner[s]] \in wire
    \/ c \in asks[s] \cup joins[s]
NobodyLeftOut ==
    \A s \in Sockets, c \in Groups :
        up[s] \in {"register", "up"} /\ IsMember(s, c) =>
            c \in room[s] \/ OnItsWay(s, c) \/ c \in lost[s]

\* A socket overhears a conversation only if its user was a member since it
\* connected: nothing takes a socket out of a room, but the next connection
\* of someone who was removed never gets in, whatever was under way.
OnlyLeaversOverhear ==
    \A s \in Sockets : room[s] \cup joins[s] \subseteq past[s]

\* Nobody is shown typing for good: once a stop that overlapped no start and
\* was not refused is through, no client shows its typist any more.  (Start
\* and stop are handlers of their own, each with a query before it emits.)
Quiet(i) == events[i] = {} /\ \A n \in Nodes : dots[i][n] = <<>>
DotsGoOut ==
    \A i \in over, r \in Sockets : Quiet(i) => i \notin shown[r]

\* A member's socket that stays connected gets into the group's room, on
\* whichever process it is, unless he is removed or the announcement is lost.
EventuallyHears ==
    \A s \in Sockets, c \in Groups :
        (up[s] # "off" /\ IsMember(s, c)) ~>
            (c \in room[s] \/ ~IsMember(s, c) \/ up[s] = "off" \/ c \in lost[s])
=============================================================================
