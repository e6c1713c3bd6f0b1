----------------------------- MODULE RoomsProofs -----------------------------
(***************************************************************************)
(* Theorems about Rooms, for any people, conversations and processes.      *)
(***************************************************************************)
EXTENDS Rooms, SequenceTheorems, TLAPS

-----------------------------------------------------------------------------
(* Types.                                                                  *)

LEMMA RoomsInitTyped == Init => TypeOK
<1> SUFFICES ASSUME Init PROVE TypeOK
  OBVIOUS
<1>1. scope.begun \subseteq Conversations
  BY RoomsAssumption DEF Init
<1> QED
  BY <1>1 DEF Init, TypeOK, None, Known

\* Closing sockets keeps the types of all that Forget writes.
LEMMA ForgetTyped ==
    ASSUME TypeOK, NEW S, Forget(S)
    PROVE  /\ up' \in [Sockets -> Known \cup {"off", "auth"}]
           /\ rows' \in [Sockets -> SUBSET Conversations]
           /\ room' \in [Sockets -> SUBSET Conversations]
           /\ past' \in [Sockets -> SUBSET Conversations]
           /\ asks' \in [Sockets -> SUBSET Conversations]
           /\ joins' \in [Sockets -> SUBSET Conversations]
           /\ shown' \in [Sockets -> SUBSET Typing]
           /\ over' \subseteq Typing
           /\ \A s \in Sockets : up'[s] \notin Known => room'[s] \cup joins'[s] \cup rows'[s] = {}
BY DEF Forget, TypeOK

LEMMA RoomsStepTyped == TypeOK /\ [Next]_vars => TypeOK'
<1> SUFFICES ASSUME TypeOK, [Next]_vars PROVE TypeOK'
  OBVIOUS
<1>a. scope.new \subseteq Conversations /\ scope.nodes \subseteq Nodes
  BY RoomsAssumption DEF TypeOK
<1> USE DEF indicators, sockets, requests, Known
<1>1. ASSUME NEW n \in Nodes, NEW c \in Conversations, NEW U \in SUBSET Users, Create(n, c, U)
      PROVE  TypeOK'
  BY <1>1, <1>a DEF Create, Remember, TypeOK, Announcement
<1>2. ASSUME NEW n \in Nodes, NEW c \in Conversations, NEW u \in Users, AddMember(n, c, u)
      PROVE  TypeOK'
  BY <1>2 DEF AddMember, Remember, TypeOK, Announcement
<1>3. ASSUME NEW c \in Conversations, NEW u \in Users, RemoveMember(c, u) PROVE TypeOK'
  BY <1>3 DEF RemoveMember, TypeOK
<1>4. ASSUME NEW c \in Conversations, Remove(c) PROVE TypeOK'
  BY <1>4 DEF Remove, TypeOK
<1>5. ASSUME NEW a \in Announcement, Announce(a) PROVE TypeOK'
  <2>1. {Home[s] : s \in Of(a.user)} \subseteq Nodes
    BY RoomsAssumption DEF Of
  <2> QED
    BY <1>5, <2>1 DEF Announce, TypeOK, Announcement
<1>6. ASSUME NEW a \in Announcement, Deliver(a) PROVE TypeOK'
  BY <1>6 DEF Deliver, TypeOK, Announcement
<1>7. ASSUME NEW s \in Sockets, Connect(s) PROVE TypeOK'
  BY <1>7 DEF Connect, TypeOK
<1>8. ASSUME NEW s \in Sockets, Authenticate(s) PROVE TypeOK'
  BY <1>8 DEF Authenticate, Step, TypeOK
<1>9. ASSUME NEW s \in Sockets, ReadMemberships(s) PROVE TypeOK'
  BY <1>9 DEF ReadMemberships, Step, TypeOK
<1>10. ASSUME NEW s \in Sockets, JoinRooms(s) PROVE TypeOK'
  BY <1>10 DEF JoinRooms, Step, TypeOK
<1>11. ASSUME NEW s \in Sockets, RegisterSocket(s) PROVE TypeOK'
  BY <1>11 DEF RegisterSocket, Step, TypeOK
<1>12. ASSUME NEW s \in Sockets, Close(s) PROVE TypeOK'
  <2>1. Forget({s})
    BY <1>12 DEF Close
  <2> QED
    BY <1>12, <2>1, ForgetTyped DEF Close, TypeOK
<1>13. ASSUME NEW n \in Nodes, Crash(n) PROVE TypeOK'
  <2>1. PICK S : Forget(S)
    BY <1>13 DEF Crash
  <2>2. tell' \subseteq Announcement /\ wire' \subseteq Announcement
    BY <1>13 DEF Crash, TypeOK
  <2>3. lost' \in [Sockets -> SUBSET Conversations]
    BY <1>13 DEF Crash, TypeOK, Announcement
  <2>4. events' \in [Typing -> SUBSET (Event \X {"check", "emit"})]
    BY <1>13 DEF Crash, TypeOK
  <2>5. dots' \in [Typing -> [Nodes -> Seq(Event)]]
    <3>1. <<>> \in Seq(Event)
      OBVIOUS
    <3> QED
      BY <1>13, <3>1 DEF Crash, TypeOK
  <2> QED
    BY <1>13, <2>1, <2>2, <2>3, <2>4, <2>5, ForgetTyped DEF Crash, TypeOK
<1>14. ASSUME NEW s \in Sockets, NEW c \in Conversations, Ask(s, c) PROVE TypeOK'
  BY <1>14 DEF Ask, TypeOK
<1>15. ASSUME NEW s \in Sockets, NEW c \in Conversations, OnConversationJoin(s, c)
       PROVE  TypeOK'
  BY <1>15 DEF OnConversationJoin, TypeOK
<1>16. ASSUME NEW s \in Sockets, NEW c \in Conversations, Join(s, c) PROVE TypeOK'
  BY <1>16 DEF Join, TypeOK
<1>17. ASSUME NEW i \in Typing, NEW e \in Event, Type(i, e) PROVE TypeOK'
  BY <1>17 DEF Type, TypeOK
<1>18. ASSUME NEW i \in Typing, NEW e \in Event, CheckTyping(i, e) PROVE TypeOK'
  BY <1>18 DEF CheckTyping, TypeOK
<1>19. ASSUME NEW i \in Typing, NEW e \in Event, EmitTyping(i, e) PROVE TypeOK'
  BY <1>19 DEF EmitTyping, TypeOK
<1>20. ASSUME NEW i \in Typing, NEW n \in Nodes, DeliverTyping(i, n) PROVE TypeOK'
  <2>1. Tail(dots[i][n]) \in Seq(Event)
    BY <1>20 DEF DeliverTyping, TypeOK
  <2> QED
    BY <1>20, <2>1 DEF DeliverTyping, TypeOK
<1>21. CASE UNCHANGED vars
  BY <1>21 DEF vars, TypeOK
<1> QED
  BY <1>1, <1>2, <1>3, <1>4, <1>5, <1>6, <1>7, <1>8, <1>9, <1>10, <1>11, <1>12, <1>13, <1>14,
     <1>15, <1>16, <1>17, <1>18, <1>19, <1>20, <1>21
     DEF Next, Environment, Tell, Handle, HandleJoin, Announcement

\* The types hold in every scope.
THEOREM RoomsTyped == Spec => []TypeOK
BY RoomsInitTyped, RoomsStepTyped, PTL DEF Spec

-----------------------------------------------------------------------------
(* Who overhears.                                                          *)

\* Whatever a socket is in, may join or has read goes back to a membership
\* its user had while it was connected.
Overhears ==
    \A s \in Sockets :
        /\ room[s] \cup joins[s] \cup rows[s] \subseteq past[s]
        /\ \A c \in Conversations : up[s] # "off" /\ IsMember(s, c) => c \in past[s]

LEMMA OverhearsInit == Init => Overhears
BY DEF Init, Overhears, None

LEMMA OverhearsStep == TypeOK /\ Overhears /\ [Next]_vars => Overhears'
<1> SUFFICES ASSUME TypeOK, Overhears, [Next]_vars PROVE Overhears'
  OBVIOUS
<1> USE DEF Overhears, TypeOK, IsMember, indicators, sockets, requests, Known
<1>1. ASSUME NEW n \in Nodes, NEW c \in Conversations, NEW U \in SUBSET Users, Create(n, c, U)
      PROVE  Overhears'
  BY <1>1 DEF Create, Remember
<1>2. ASSUME NEW n \in Nodes, NEW c \in Conversations, NEW u \in Users, AddMember(n, c, u)
      PROVE  Overhears'
  BY <1>2 DEF AddMember, Remember
<1>3. ASSUME NEW c \in Conversations, NEW u \in Users, RemoveMember(c, u) PROVE Overhears'
  BY <1>3 DEF RemoveMember
<1>4. ASSUME NEW c \in Conversations, Remove(c) PROVE Overhears'
  BY <1>4 DEF Remove
<1>5. ASSUME NEW a \in Announcement, Announce(a) PROVE Overhears'
  BY <1>5 DEF Announce
<1>6. ASSUME NEW a \in Announcement, Deliver(a) PROVE Overhears'
  BY <1>6 DEF Deliver
<1>7. ASSUME NEW s \in Sockets, Connect(s) PROVE Overhears'
  BY <1>7 DEF Connect
<1>8. ASSUME NEW s \in Sockets, Authenticate(s) PROVE Overhears'
  BY <1>8 DEF Authenticate, Step
<1>9. ASSUME NEW s \in Sockets, ReadMemberships(s) PROVE Overhears'
  BY <1>9 DEF ReadMemberships, Step
<1>10. ASSUME NEW s \in Sockets, JoinRooms(s) PROVE Overhears'
  BY <1>10 DEF JoinRooms, Step
<1>11. ASSUME NEW s \in Sockets, RegisterSocket(s) PROVE Overhears'
  BY <1>11 DEF RegisterSocket, Step
<1>12. ASSUME NEW S, Forget(S), UNCHANGED member PROVE Overhears'
  BY <1>12 DEF Forget
<1>13. ASSUME NEW s \in Sockets, NEW c \in Conversations, Ask(s, c) PROVE Overhears'
  BY <1>13 DEF Ask
<1>14. ASSUME NEW s \in Sockets, NEW c \in Conversations, OnConversationJoin(s, c)
       PROVE  Overhears'
  BY <1>14 DEF OnConversationJoin
<1>15. ASSUME NEW s \in Sockets, NEW c \in Conversations, Join(s, c) PROVE Overhears'
  BY <1>15 DEF Join
<1>16. ASSUME UNCHANGED <<member, up, rows, room, past, joins>> PROVE Overhears'
  BY <1>16
<1> QED
  BY ZenonT(40), <1>1, <1>2, <1>3, <1>4, <1>5, <1>6, <1>7, <1>8, <1>9, <1>10, <1>11, <1>12, <1>13, <1>14,
     <1>15, <1>16
     DEF Next, Environment, Tell, Handle, HandleJoin, Announcement, Close, Crash, Type,
         CheckTyping, EmitTyping, DeliverTyping, vars

\* Only he overhears a conversation who was a member since he connected.
THEOREM LeaversOnly == Spec => []OnlyLeaversOverhear
<1>1. Overhears => OnlyLeaversOverhear
  BY DEF Overhears, OnlyLeaversOverhear
<1> QED
  BY <1>1, RoomsInitTyped, RoomsStepTyped, OverhearsInit, OverhearsStep, PTL DEF Spec

-----------------------------------------------------------------------------
(* Who is left out.                                                        *)

\* As NobodyLeftOut, from the moment the memberships are read: until the rooms
\* are joined a group is among the rows, or was announced since.
Included ==
    \A s \in Sockets, c \in Groups :
        up[s] \in {"read", "register", "up"} /\ IsMember(s, c) =>
            c \in room[s] \cup rows[s] \/ OnItsWay(s, c) \/ c \in lost[s]
Joined == \A s \in Sockets : up[s] # "read" => rows[s] = {}
LeftOutInv == Included /\ Joined

LEMMA LeftOutInit == Init => LeftOutInv
BY SMTT(30) DEF Init, LeftOutInv, Included, Joined, None

LEMMA LeftOutStep == TypeOK /\ LeftOutInv /\ [Next]_vars => LeftOutInv'
<1> SUFFICES ASSUME TypeOK, LeftOutInv, [Next]_vars PROVE LeftOutInv'
  OBVIOUS
<1>a. /\ Home \in [Sockets -> Nodes] /\ Owner \in [Sockets -> Users]
      /\ Groups \subseteq Conversations
  BY RoomsAssumption
<1> USE <1>a DEF LeftOutInv, Included, Joined, OnItsWay, TypeOK, IsMember, indicators, sockets,
                 requests, Known, Announcement
<1>1. ASSUME NEW n \in Nodes, NEW c \in Conversations, NEW U \in SUBSET Users, Create(n, c, U)
      PROVE  LeftOutInv'
  <2>1. ASSUME c \in Groups, NEW u \in U
        PROVE  [node |-> n, conversation |-> c, user |-> u] \in tell'
    BY <1>1, <2>1 DEF Create
  <2>2. tell \subseteq tell'
    BY <1>1 DEF Create
  <2>3. \A s \in Sockets, d \in Groups : OnItsWay(s, d) => OnItsWay(s, d)'
    BY <1>1, <2>2 DEF Create
  <2>4. \A s \in Sockets : c \in Groups /\ Owner[s] \in U => OnItsWay(s, c)'
    BY <2>1
  <2>5. \A d \in Groups : d # c => member'[d] = member[d]
    BY <1>1 DEF Create
  <2>6. member'[c] = U
    BY <1>1 DEF Create
  <2>7. UNCHANGED <<up, rows, room, lost>>
    BY <1>1 DEF Create
  <2> HIDE DEF OnItsWay
  <2> QED
    BY ZenonT(40), <2>3, <2>4, <2>5, <2>6, <2>7
<1>2. ASSUME NEW n \in Nodes, NEW c \in Conversations, NEW u \in Users, AddMember(n, c, u)
      PROVE  LeftOutInv'
  <2>1. [node |-> n, conversation |-> c, user |-> u] \in tell' /\ tell \subseteq tell'
    BY <1>2 DEF AddMember
  <2>2. \A s \in Sockets, d \in Groups : OnItsWay(s, d) => OnItsWay(s, d)'
    BY <1>2, <2>1 DEF AddMember
  <2>3. \A s \in Sockets : Owner[s] = u => OnItsWay(s, c)'
    BY <2>1
  <2>4. \A s \in Sockets, d \in Groups :
            Owner[s] \in member'[d] => Owner[s] \in member[d] \/ (d = c /\ Owner[s] = u)
    BY <1>2 DEF AddMember
  <2>5. UNCHANGED <<up, rows, room, lost>>
    BY <1>2 DEF AddMember
  <2> HIDE DEF OnItsWay
  <2> QED
    BY <2>2, <2>3, <2>4, <2>5
<1>3. ASSUME NEW c \in Conversations, NEW u \in Users, RemoveMember(c, u) PROVE LeftOutInv'
  BY <1>3 DEF RemoveMember
<1>4. ASSUME NEW c \in Conversations, Remove(c) PROVE LeftOutInv'
  BY <1>4 DEF Remove
<1>5. ASSUME NEW a \in Announcement, Announce(a) PROVE LeftOutInv'
  <2>1. \A s \in Sockets : a.user = Owner[s] =>
            [node |-> Home[s], conversation |-> a.conversation, user |-> Owner[s]] \in wire'
    <3> SUFFICES ASSUME NEW s \in Sockets, a.user = Owner[s]
                 PROVE  [node |-> Home[s], conversation |-> a.conversation, user |-> Owner[s]]
                            \in wire'
      OBVIOUS
    <3> QED
      BY <1>5 DEF Announce, Of
  <2>2. wire \subseteq wire'
    BY <1>5 DEF Announce
  <2>3. \A s \in Sockets, c \in Groups : OnItsWay(s, c) => OnItsWay(s, c)'
    BY <1>5, <2>1, <2>2 DEF Announce
  <2>4. UNCHANGED <<member, up, rows, room, lost>>
    BY <1>5 DEF Announce
  <2> HIDE DEF OnItsWay
  <2> QED
    BY <2>3, <2>4
<1>6. ASSUME NEW a \in Announcement, Deliver(a) PROVE LeftOutInv'
  <2>1. \A s \in Sockets, c \in Groups :
            up[s] \in Known /\ OnItsWay(s, c) => OnItsWay(s, c)'
    BY <1>6 DEF Deliver, Of, InUserRoom
  <2> QED
    BY <1>6, <2>1 DEF Deliver
<1>7. ASSUME NEW s \in Sockets, Connect(s) PROVE LeftOutInv'
  BY <1>7 DEF Connect
<1>8. ASSUME NEW s \in Sockets, Authenticate(s) PROVE LeftOutInv'
  BY <1>8 DEF Authenticate, Step
<1>9. ASSUME NEW s \in Sockets, ReadMemberships(s) PROVE LeftOutInv'
  BY <1>9 DEF ReadMemberships, Step
<1>10. ASSUME NEW s \in Sockets, JoinRooms(s) PROVE LeftOutInv'
  BY <1>10 DEF JoinRooms, Step
<1>11. ASSUME NEW s \in Sockets, RegisterSocket(s) PROVE LeftOutInv'
  BY <1>11 DEF RegisterSocket, Step
<1>12. ASSUME NEW s \in Sockets, Close(s) PROVE LeftOutInv'
  BY <1>12 DEF Close, Forget
<1>13. ASSUME NEW n \in Nodes, Crash(n) PROVE LeftOutInv'
  <2> DEFINE S == {s \in Sockets : Home[s] = n /\ up[s] # "off"}
  <2>1. Forget(S) /\ member' = member
    BY <1>13 DEF Crash
  <2>2. ASSUME NEW s \in Sockets, NEW c \in Groups, s \notin S, up[s] # "off",
               OnItsWay(s, c)
        PROVE  OnItsWay(s, c)' \/ c \in lost'[s]
    <3>1. asks'[s] = asks[s] /\ joins'[s] = joins[s]
      BY <2>1, <2>2 DEF Forget
    <3>2. ASSUME NEW a \in tell, a.conversation = c, a.user = Owner[s]
          PROVE  a \in tell' \/ c \in lost'[s]
      BY <1>13, <2>2, <3>2 DEF Crash
    <3>3. [node |-> Home[s], conversation |-> c, user |-> Owner[s]] \in wire
            => [node |-> Home[s], conversation |-> c, user |-> Owner[s]] \in wire'
      BY <1>13, <2>2 DEF Crash
    <3> QED
      BY <2>2, <3>1, <3>2, <3>3
  <2>3. ASSUME NEW s \in Sockets, s \notin S
        PROVE  up'[s] = up[s] /\ rows'[s] = rows[s] /\ room'[s] = room[s]
    BY <2>1, <2>3 DEF Forget
  <2>4. ASSUME NEW s \in S PROVE up'[s] = "off" /\ rows'[s] = {}
    BY <2>1 DEF Forget
  <2>5. ASSUME NEW s \in Sockets, s \notin S, up[s] # "off" PROVE lost[s] \subseteq lost'[s]
    BY <1>13, <2>5 DEF Crash
  <2> HIDE DEF S, OnItsWay
  <2>6. Joined'
    BY <2>3, <2>4
  <2>7. Included'
    BY <2>1, <2>2, <2>3, <2>4, <2>5
  <2> QED
    BY <2>6, <2>7
<1>14. ASSUME NEW s \in Sockets, NEW c \in Conversations, Ask(s, c) PROVE LeftOutInv'
  BY <1>14 DEF Ask
<1>15. ASSUME NEW s \in Sockets, NEW c \in Conversations, OnConversationJoin(s, c)
       PROVE  LeftOutInv'
  BY <1>15 DEF OnConversationJoin
<1>16. ASSUME NEW s \in Sockets, NEW c \in Conversations, Join(s, c) PROVE LeftOutInv'
  BY <1>16 DEF Join
<1>17. ASSUME UNCHANGED <<member, tell, wire, lost, up, rows, room, asks, joins>>
       PROVE  LeftOutInv'
  BY <1>17
<1> QED
  BY <1>1, <1>2, <1>3, <1>4, <1>5, <1>6, <1>7, <1>8, <1>9, <1>10, <1>11, <1>12, <1>13, <1>14,
     <1>15, <1>16, <1>17
     DEF Next, Environment, Tell, Handle, HandleJoin, Type, CheckTyping, EmitTyping,
         DeliverTyping, vars

\* No member's socket stays out of a group's room unless he is being told, or
\* the process died that should have told him.
THEOREM NobodyIsLeftOut == Spec => []NobodyLeftOut
<1>1. LeftOutInv => NobodyLeftOut
  BY DEF LeftOutInv, Included, Joined, NobodyLeftOut
<1> QED
  BY <1>1, RoomsInitTyped, RoomsStepTyped, LeftOutInit, LeftOutStep, PTL DEF Spec

-----------------------------------------------------------------------------
(* Who is shown typing.                                                    *)

EndsWithStop(q) == q # <<>> /\ q[Len(q)] = "stop"

\* On process n a stop is the last that comes, or nobody shows the typist.
Settles(i, n) ==
    \/ EndsWithStop(dots[i][n])
    \/ dots[i][n] = <<>> /\ \A r \in Sockets : Home[r] = n => i \notin shown[r]

\* Only sockets in the room show a typist, and events wait only where there are
\* such sockets.  While nothing disturbed his last stop, no start is under way,
\* and the stop is, or every process settles.
Followed(i) ==
    /\ \A r \in Sockets : i \in shown[r] => r # i[1] /\ i[2] \in room[r]
    /\ \A n \in Nodes : dots[i][n] # <<>> => n \in Others(i)
    /\ i \in over => /\ up[i[1]] # "off"
                     /\ "start" \notin UnderWay(i)
                     /\ "stop" \in UnderWay(i) \/ \A n \in Nodes : Settles(i, n)
DotsInv == \A i \in Typing : Followed(i)

LEMMA DotsInit == Init => DotsInv
BY DEF Init, DotsInv, Followed, None

\* What goes at the end of a queue is its last; what is left keeps its last.
LEMMA LastOfAppend ==
    ASSUME NEW q \in Seq(Event), NEW e \in Event
    PROVE  Append(q, e) # <<>> /\ (EndsWithStop(Append(q, e)) <=> e = "stop")
BY DEF EndsWithStop

LEMMA LastOfTail ==
    ASSUME NEW q \in Seq(Event), EndsWithStop(q)
    PROVE  IF Len(q) = 1 THEN Head(q) = "stop" /\ Tail(q) = <<>> ELSE EndsWithStop(Tail(q))
<1>1. /\ Len(q) \in Nat \ {0} /\ Head(q) = q[1]
      /\ Tail(q) \in Seq(Event) /\ Len(Tail(q)) = Len(q) - 1
      /\ \A k \in 1 .. Len(Tail(q)) : Tail(q)[k] = q[k + 1]
  BY HeadTailProperties, EmptySeq DEF EndsWithStop
<1>2. Tail(q) # <<>> => Len(Tail(q)) \in Nat \ {0}
  BY <1>1, EmptySeq
<1>3. CASE Len(q) = 1
  BY <1>1, <1>2, <1>3 DEF EndsWithStop
<1>4. CASE Len(q) # 1
  <2>1. Len(Tail(q)) # 0 /\ Len(Tail(q)) \in 1 .. Len(Tail(q))
    BY <1>1, <1>4
  <2>2. Tail(q) # <<>> /\ Len(Tail(q)) \in 1 .. Len(Tail(q))
    <3>1. Len(<<>>) = 0
      BY EmptySeq
    <3> QED
      BY <2>1, <3>1, Zenon
  <2>3. Tail(q)[Len(Tail(q))] = q[Len(q)]
    BY <1>1, <2>2
  <2> QED
    BY <2>2, <2>3 DEF EndsWithStop
<1> QED
  BY <1>3, <1>4

\* A step that leaves the typing alone, and takes no socket out of a room.
LEMMA DotsKept ==
    ASSUME TypeOK, DotsInv, UNCHANGED <<events, dots, shown, over>>,
           \A r \in Sockets : room[r] \subseteq room'[r] /\ (up[r] # "off" => up'[r] # "off")
    PROVE  DotsInv'
<1> SUFFICES ASSUME NEW i \in Typing PROVE Followed(i)'
  BY DEF DotsInv
<1>1. i[1] \in Sockets
  BY RoomsAssumption
<1>2. Followed(i)
  BY DEF DotsInv
<1>3. UnderWay(i)' = UnderWay(i) /\ \A n \in Nodes : Settles(i, n)' = Settles(i, n)
  BY DEF UnderWay, Settles
<1>4. up[i[1]] # "off" => up'[i[1]] # "off"
  BY <1>1
<1>5. \A r \in Sockets : i \in shown'[r] => r # i[1] /\ i[2] \in room'[r]
  BY <1>2 DEF Followed
<1>6. \A n \in Nodes : dots'[i][n] # <<>> => n \in Others(i)
  BY <1>2 DEF Followed
<1> QED
  BY <1>2, <1>3, <1>4, <1>5, <1>6 DEF Followed, Others

LEMMA DotsStep == TypeOK /\ DotsInv /\ [Next]_vars => DotsInv'
<1> SUFFICES ASSUME TypeOK, DotsInv, [Next]_vars PROVE DotsInv'
  OBVIOUS
<1>a. \A i \in Typing : i[1] \in Sockets /\ i[2] \in Conversations /\ i = <<i[1], i[2]>>
  BY RoomsAssumption
<1>b. Home \in [Sockets -> Nodes]
  BY RoomsAssumption
<1>1. ASSUME NEW s \in Sockets, JoinRooms(s) PROVE DotsInv'
  BY <1>1, DotsKept DEF JoinRooms, Step, TypeOK, indicators
<1>2. ASSUME NEW s \in Sockets, NEW c \in Conversations, Join(s, c) PROVE DotsInv'
  BY <1>2, DotsKept DEF Join, TypeOK, indicators
<1>3. ASSUME NEW s \in Sockets, Close(s) PROVE DotsInv'
  <2> SUFFICES ASSUME NEW i \in Typing PROVE Followed(i)'
    BY DEF DotsInv
  <2>1. Forget({s}) /\ UNCHANGED <<events, dots>>
    BY <1>3 DEF Close
  <2>2. \A r \in Sockets : shown'[r] \subseteq shown[r]
    BY <2>1 DEF Forget, TypeOK
  <2>3. \A r \in Sockets : r # s => room'[r] = room[r] /\ up'[r] = up[r]
    BY <2>1 DEF Forget, TypeOK
  <2>4. shown'[s] = {}
    BY <2>1 DEF Forget
  <2>5. i \in over' => i \in over /\ i[1] # s
    BY <2>1 DEF Forget
  <2>6. Followed(i)
    BY DEF DotsInv
  <2> QED
    BY <2>1, <2>2, <2>3, <2>4, <2>5, <2>6, <1>a DEF Followed, Settles, UnderWay, Others
<1>4. ASSUME NEW n \in Nodes, Crash(n) PROVE DotsInv'
  <2> SUFFICES ASSUME NEW i \in Typing PROVE Followed(i)'
    BY DEF DotsInv
  <2> DEFINE S == {s \in Sockets : Home[s] = n /\ up[s] # "off"}
  <2>1. Forget(S)
    BY <1>4 DEF Crash
  <2>2. \A r \in Sockets : shown'[r] \subseteq shown[r]
    BY <2>1 DEF Forget, TypeOK
  <2>3. \A r \in Sockets : r \notin S => room'[r] = room[r] /\ up'[r] = up[r]
    BY <2>1 DEF Forget, TypeOK
  <2>4. \A r \in S : shown'[r] = {}
    BY <2>1 DEF Forget
  <2>5. i \in over' => i \in over /\ i[1] \notin S
    BY <2>1 DEF Forget
  <2>6. Followed(i)
    BY DEF DotsInv
  <2>7. \A r \in Sockets : Home[r] = n => i \notin shown'[r]
    <3> SUFFICES ASSUME NEW r \in Sockets, Home[r] = n, r \notin S PROVE i \notin shown[r]
      BY <2>2, <2>4
    <3>1. up[r] = "off"
      OBVIOUS
    <3>2. room[r] = {}
      BY <3>1 DEF TypeOK, Known
    <3> QED
      BY <3>2, <2>6 DEF Followed
  <2>8. /\ dots'[i][n] = <<>>
        /\ \A m \in Nodes : m # n => dots'[i][m] = dots[i][m]
    BY <1>4 DEF Crash, TypeOK
  <2>9. i \in over' => Home[i[1]] # n
    BY <2>5, <2>6, <1>a DEF Followed
  <2>10. i \in over' => events'[i] = events[i]
    BY <1>4, <2>9 DEF Crash, TypeOK
  <2> HIDE DEF S
  <2>11. \A r \in Sockets : i \in shown'[r] => r # i[1] /\ i[2] \in room'[r]
    BY <2>2, <2>3, <2>4, <2>6 DEF Followed
  <2>12. \A m \in Nodes : Settles(i, m) => Settles(i, m)'
    BY <2>2, <2>7, <2>8 DEF Settles
  <2> QED
    BY <2>3, <2>5, <2>6, <2>8, <2>10, <2>11, <2>12, <1>a DEF Followed, UnderWay, Others
<1>5. ASSUME NEW j \in Typing, NEW e \in Event, Type(j, e) PROVE DotsInv'
  <2> SUFFICES ASSUME NEW i \in Typing PROVE Followed(i)'
    BY DEF DotsInv
  <2>1. UNCHANGED <<up, room, dots, shown>>
    BY <1>5 DEF Type, sockets
  <2>2. Followed(i)
    BY DEF DotsInv
  <2>3. CASE i # j
    <3>1. events'[i] = events[i] /\ (i \in over' <=> i \in over)
      BY <1>5, <2>3 DEF Type, TypeOK
    <3> QED
      BY <2>1, <2>2, <3>1 DEF Followed, UnderWay, Settles, Others
  <2>4. CASE i = j
    <3>1. /\ events'[i] = events[i] \cup {<<e, "check">>}
          /\ up[i[1]] # "off"
          /\ i \in over' => e = "stop" /\ "start" \notin UnderWay(i)
      BY <1>5, <2>4 DEF Type, TypeOK, Known, Event
    <3> QED
      BY <2>1, <2>2, <3>1 DEF Followed, UnderWay, Others, Event
  <2> QED
    BY <2>3, <2>4
<1>6. ASSUME NEW j \in Typing, NEW e \in Event, CheckTyping(j, e) PROVE DotsInv'
  <2> SUFFICES ASSUME NEW i \in Typing PROVE Followed(i)'
    BY DEF DotsInv
  <2>1. UNCHANGED <<up, room, dots, shown>>
    BY <1>6 DEF CheckTyping, sockets
  <2>2. Followed(i)
    BY DEF DotsInv
  <2>3. i \in over' => i \in over /\ UnderWay(i)' = UnderWay(i)
    BY <1>6 DEF CheckTyping, TypeOK, UnderWay, Event
  <2> QED
    BY <2>1, <2>2, <2>3 DEF Followed, Settles, Others
<1>7. ASSUME NEW j \in Typing, NEW e \in Event, EmitTyping(j, e) PROVE DotsInv'
  <2> SUFFICES ASSUME NEW i \in Typing PROVE Followed(i)'
    BY DEF DotsInv
  <2>1. UNCHANGED <<up, room, shown, over>>
    BY <1>7 DEF EmitTyping, sockets
  <2>2. Followed(i)
    BY DEF DotsInv
  <2>3. CASE i # j
    <3>1. events'[i] = events[i] /\ dots'[i] = dots[i]
      BY <1>7, <2>3 DEF EmitTyping, TypeOK
    <3> QED
      BY <2>1, <2>2, <3>1 DEF Followed, UnderWay, Settles, Others
  <2>4. CASE i = j
    <3>1. /\ UnderWay(i)' \subseteq UnderWay(i) /\ e \in UnderWay(i)
          /\ \A n \in Nodes : dots'[i][n] = IF n \in Others(i) THEN Append(dots[i][n], e)
                                                             ELSE dots[i][n]
      BY <1>7, <2>4 DEF EmitTyping, TypeOK, UnderWay
    <3>2. \A n \in Nodes : dots'[i][n] # <<>> => n \in Others(i)
      BY <3>1, <2>2 DEF Followed
    <3>3. ASSUME i \in over, NEW n \in Nodes PROVE Settles(i, n)'
      <4>1. e = "stop"
        BY <3>1, <3>3, <2>2 DEF Followed, Event
      <4>2. CASE n \in Others(i)
        <5>1. dots[i][n] \in Seq(Event)
          BY DEF TypeOK
        <5> QED
          BY <3>1, <4>1, <4>2, <5>1, LastOfAppend DEF Settles
      <4>3. CASE n \notin Others(i)
        <5>1. dots'[i][n] = <<>>
          BY <3>1, <4>3, <2>2 DEF Followed
        <5>2. \A r \in Sockets : Home[r] = n => r = i[1]
          BY <4>3 DEF Others
        <5> QED
          BY <5>1, <5>2, <2>1, <2>2 DEF Followed, Settles
      <4> QED
        BY <4>2, <4>3
    <3> QED
      BY <2>1, <2>2, <3>1, <3>2, <3>3 DEF Followed, Others
  <2> QED
    BY <2>3, <2>4
<1>8. ASSUME NEW j \in Typing, NEW n \in Nodes, DeliverTyping(j, n) PROVE DotsInv'
  <2> SUFFICES ASSUME NEW i \in Typing PROVE Followed(i)'
    BY DEF DotsInv
  <2>1. UNCHANGED <<up, room, events, over>>
    BY <1>8 DEF DeliverTyping, sockets
  <2>2. Followed(i)
    BY DEF DotsInv
  <2>3. CASE i # j
    <3>1. dots'[i] = dots[i]
      BY <1>8, <2>3 DEF DeliverTyping, TypeOK
    <3>2. \A r \in Sockets : i \in shown'[r] <=> i \in shown[r]
      BY <1>8, <2>3 DEF DeliverTyping
    <3>3. \A m \in Nodes : Settles(i, m) => Settles(i, m)'
      BY <3>1, <3>2 DEF Settles
    <3> QED
      BY <2>1, <2>2, <3>1, <3>2, <3>3 DEF Followed, UnderWay, Others
  <2>4. CASE i = j
    <3> DEFINE q == dots[i][n]
    <3>1. /\ q \in Seq(Event) /\ q # <<>> /\ dots'[i][n] = Tail(q)
          /\ \A m \in Nodes : m # n => dots'[i][m] = dots[i][m]
      BY <1>8, <2>4 DEF DeliverTyping, TypeOK
    <3>2. \A r \in Sockets : i \in shown'[r] =>
              \/ i \in shown[r] /\ ~(Home[r] = n /\ r # i[1] /\ i[2] \in room[r] /\ Head(q) # "start")
              \/ Home[r] = n /\ r # i[1] /\ i[2] \in room[r] /\ Head(q) = "start"
      BY <1>8, <2>4 DEF DeliverTyping, TypeOK
    <3>3. \A r \in Sockets : i \in shown'[r] => r # i[1] /\ i[2] \in room'[r]
      BY <3>2, <2>1, <2>2 DEF Followed
    <3>4. \A m \in Nodes : dots'[i][m] # <<>> => m \in Others(i)
      BY <3>1, <2>2 DEF Followed
    <3>5. ASSUME NEW m \in Nodes, Settles(i, m) PROVE Settles(i, m)'
      <4>1. CASE m # n
        BY <3>1, <3>2, <3>5, <4>1 DEF Settles
      <4>2. CASE m = n
        <5>1. EndsWithStop(q)
          BY <3>1, <3>5, <4>2 DEF Settles
        <5>2. CASE Len(q) = 1
          <6>1. Head(q) = "stop" /\ Tail(q) = <<>>
            BY <3>1, <5>1, <5>2, LastOfTail
          <6>2. \A r \in Sockets : Home[r] = n => i \notin shown'[r]
            BY <3>2, <6>1, <2>2 DEF Followed
          <6> QED
            BY <3>1, <4>2, <6>1, <6>2 DEF Settles
        <5>3. CASE Len(q) # 1
          BY <3>1, <4>2, <5>1, <5>3, LastOfTail DEF Settles
        <5> QED
          BY <5>2, <5>3
      <4> QED
        BY <4>1, <4>2
    <3> HIDE DEF q
    <3> QED
      BY <2>1, <2>2, <3>3, <3>4, <3>5 DEF Followed, UnderWay, Others
  <2> QED
    BY <2>3, <2>4
<1>9. ASSUME UNCHANGED <<events, dots, shown, over, room>>,
             \A r \in Sockets : up[r] # "off" => up'[r] # "off"
      PROVE  DotsInv'
  BY <1>9, DotsKept
<1>10. ASSUME NEW s \in Sockets,
              Connect(s) \/ Authenticate(s) \/ ReadMemberships(s) \/ RegisterSocket(s)
       PROVE  DotsInv'
  BY <1>10, <1>9 DEF Connect, Authenticate, ReadMemberships, RegisterSocket, Step, TypeOK,
                     indicators
<1>11. ASSUME UNCHANGED <<up, room, indicators>> PROVE DotsInv'
  BY <1>11, <1>9 DEF indicators
<1> QED
  BY ZenonT(40), <1>1, <1>2, <1>3, <1>4, <1>5, <1>6, <1>7, <1>8, <1>10, <1>11
     DEF Next, Environment, Tell, Handle, HandleJoin, Create, AddMember, RemoveMember, Remove,
         Announce, Deliver, Ask, OnConversationJoin, vars, sockets

\* A stop that nothing disturbed takes the typist away from every client.
THEOREM DotsAllGoOut == Spec => []DotsGoOut
<1>1. TypeOK /\ DotsInv => DotsGoOut
  <2> SUFFICES ASSUME TypeOK, DotsInv, NEW i \in over, NEW r \in Sockets, Quiet(i)
               PROVE  i \notin shown[r]
    BY DEF DotsGoOut
  <2>1. i \in Typing /\ Followed(i)
    BY DEF TypeOK, DotsInv
  <2>2. "stop" \notin UnderWay(i)
    BY DEF Quiet, UnderWay
  <2>3. Home[r] \in Nodes
    BY RoomsAssumption
  <2>4. Settles(i, Home[r])
    BY <2>1, <2>2, <2>3 DEF Followed
  <2> QED
    BY <2>3, <2>4 DEF Settles, EndsWithStop, Quiet
<1> QED
  BY <1>1, RoomsInitTyped, RoomsStepTyped, DotsInit, DotsStep, PTL DEF Spec
-----------------------------------------------------------------------------
(* Rooms under the contract of the conversations module: Rooms keeps of a  *)
(* conversation's rows who the members are; role is what it leaves out.    *)

VARIABLE role   \* ConversationMember.role by conversation and user

Kind(c) == IF c \notin made THEN "none" ELSE IF c \in gone THEN "deleted" ELSE "GROUP"
Rows(c) == INSTANCE Membership WITH kind <- Kind(c), role <- role[c]

\* Rooms sees the members the rows have.
Sees(c) ==
    /\ role[c] \in [Users -> {"OWNER", "ADMIN", "MEMBER", "NONE"}]
    /\ member[c] = {u \in Users : role[c][u] # "NONE"}

\* What a request on process n that changes who is in c does to the rest of
\* Rooms: it queues an announcement to each of those who came in.
Arrivals(c) == member'[c] \ member[c]
Queues(n, c) ==
    /\ member' = [member EXCEPT ![c] = member'[c]]
    /\ made' = made \cup {c}
    /\ gone' = IF Kind(c)' = "deleted" THEN gone \cup {c} ELSE gone
    /\ tell' = tell \cup [node : {n}, conversation : {c}, user : Arrivals(c)]
    /\ Remember(c, Arrivals(c))
    /\ UNCHANGED <<scope, wire, lost, up, rows, room, asks, joins, indicators>>

\* Nothing is left out: whatever Membership lets happen to a group, with its
\* announcements, is a step of Rooms.  So what is proved of who is in which room
\* holds however owners, joiners and leavers race in Conversations.
THEOREM GroupChangesReachRooms ==
    ASSUME TypeOK, NEW c \in Groups, NEW n \in scope.nodes, Sees(c), Sees(c)', Queues(n, c),
           \/ c \in scope.new /\ Rows(c)!Init
              /\ \E o \in Users, S \in SUBSET Users : Rows(c)!CreateGroup(o, S)
           \/ Rows(c)!Change
    PROVE  [Next]_vars
<1>1. /\ c \in Conversations /\ n \in Nodes
      /\ member \in [Conversations -> SUBSET Users]
      /\ past \in [Sockets -> SUBSET Conversations]
      /\ tell \subseteq Announcement
      /\ gone \subseteq made
  BY RoomsAssumption DEF TypeOK
<1>2. /\ member' = [member EXCEPT ![c] = member'[c]]
      /\ UNCHANGED <<scope, wire, lost, up, rows, room, asks, joins, indicators>>
      /\ role[c] \in [Users -> {"OWNER", "ADMIN", "MEMBER", "NONE"}]
      /\ member[c] = {u \in Users : role[c][u] # "NONE"}
      /\ member'[c] = {u \in Users : role'[c][u] # "NONE"}
  BY DEF Queues, Sees
<1>3. Kind(c) = "GROUP" => c \in (Groups \cap made) \ gone /\ made' = made
  BY DEF Kind, Queues
<1>4. Kind(c)' # "deleted" => gone' = gone
  BY DEF Queues
<1>5. Arrivals(c) = {} => UNCHANGED <<tell, past>>
  BY <1>1 DEF Queues, Remember
<1>6. CASE c \in scope.new /\ Rows(c)!Init
           /\ \E o \in Users, S \in SUBSET Users : Rows(c)!CreateGroup(o, S)
  <2>1. PICK o \in Users, S \in SUBSET Users : Rows(c)!CreateGroup(o, S)
    BY <1>6
  <2>2. c \notin made /\ Kind(c)' = "GROUP" /\ \A u \in Users : role[c][u] = "NONE"
    BY <1>6, <2>1 DEF Rows!CreateGroup, Rows!Init, Rows!Nobody, Kind
  <2>3. role'[c] = Rows(c)!OwnerAnd(o, S)
    BY <2>1 DEF Rows!CreateGroup
  <2>4. o \in member'[c] /\ member'[c] \in SUBSET Users /\ Arrivals(c) = member'[c]
    BY <1>2, <2>2, <2>3 DEF Rows!OwnerAnd, Arrivals
  <2>5. Create(n, c, member'[c])
    BY <1>2, <1>4, <1>6, <2>2, <2>4 DEF Queues, Create
  <2> QED
    BY <1>1, <2>4, <2>5 DEF Next, Environment
<1>7. CASE Rows(c)!Delete
  <2>1. Kind(c) = "GROUP" /\ Kind(c)' = "deleted" /\ role'[c] = Rows(c)!Nobody
    BY <1>7 DEF Rows!Delete
  <2>2. member'[c] = {} /\ Arrivals(c) = {}
    BY <1>2, <2>1 DEF Rows!Nobody, Arrivals
  <2>3. gone' = gone \cup {c}
    BY <2>1 DEF Queues
  <2>4. Remove(c)
    BY <1>2, <1>3, <1>5, <2>1, <2>2, <2>3 DEF Remove, sockets
  <2> QED
    BY <1>1, <2>4 DEF Next, Environment
<1>8. ASSUME NEW u \in Users, Rows(c)!Join(u) PROVE [Next]_vars
  <2>1. /\ Kind(c) = "GROUP" /\ Kind(c)' = "GROUP" /\ role[c][u] = "NONE"
        /\ role'[c] = [role[c] EXCEPT ![u] = "MEMBER"]
    BY <1>8 DEF Rows!Join
  <2>2. u \notin member[c] /\ member'[c] = member[c] \cup {u}
    BY <1>2, <2>1
  <2>3. Arrivals(c) = {u} /\ Remember(c, {u})
    BY <2>2 DEF Arrivals, Queues
  <2>4. tell' = tell \cup {[node |-> n, conversation |-> c, user |-> u]}
    BY <2>3 DEF Queues
  <2>5. AddMember(n, c, u)
    BY <1>2, <1>3, <1>4, <2>1, <2>2, <2>3, <2>4 DEF AddMember
  <2> QED
    BY <1>1, <2>5 DEF Next, Environment
<1>9. ASSUME NEW u \in Users, Rows(c)!Leave(u) PROVE [Next]_vars
  <2>1. /\ Kind(c) = "GROUP" /\ Kind(c)' = "GROUP" /\ role[c][u] # "NONE"
        /\ role'[c] = [role[c] EXCEPT ![u] = "NONE"]
    BY <1>9 DEF Rows!Leave
  <2>2. u \in member[c] /\ member'[c] = member[c] \ {u} /\ Arrivals(c) = {}
    BY <1>2, <2>1 DEF Arrivals
  <2>3. RemoveMember(c, u)
    BY <1>2, <1>3, <1>4, <1>5, <2>1, <2>2 DEF RemoveMember, sockets
  <2> QED
    BY <1>1, <2>3 DEF Next, Environment
<1>10. ASSUME NEW u \in Users, Rows(c)!Promote(u) PROVE [Next]_vars
  <2>1. /\ Kind(c) = "GROUP" /\ Kind(c)' = "GROUP" /\ role[c][u] # "NONE"
        /\ role'[c] = [role[c] EXCEPT ![u] = "OWNER"]
    BY <1>10 DEF Rows!Promote
  <2>2. member'[c] = member[c] /\ Arrivals(c) = {}
    BY <1>2, <2>1 DEF Arrivals
  <2>3. member' = [member EXCEPT ![c] = member[c]]
    BY <2>2 DEF Queues
  <2>4. UNCHANGED <<made, gone, tell, past>>
    BY <1>3, <1>4, <1>5, <2>1, <2>2
  <2> QED
    BY <1>1, <1>2, <2>3, <2>4 DEF vars, requests, sockets
<1> QED
  BY <1>6, <1>7, <1>8, <1>9, <1>10 DEF Rows!Change
=============================================================================
