------------------------ MODULE ConversationsProofs ------------------------
(***************************************************************************)
(* Theorems about Conversations, for any users, conversations and requests.*)
(***************************************************************************)
EXTENDS Conversations, FiniteSetTheorems, TLAPS

\* A handler at a step has not answered, and the names are all different.
LEMMA StepsAndAnswers ==
    /\ Steps = {"find", "create", "refetch", "announce", "check", "write",
                "members", "delete", "load", "insert", "reply", "target",
                "successor", "dissolve", "farewell", "promote"}
    /\ Steps \cap Answers = {}
    /\ "idle" \notin Steps \cup Answers
    /\ NoFrame \notin Frame
    /\ \A op \in Operations : StepsOf(op) \subseteq Steps
<1>1. Steps = UNION {StepsOf("createDirect"), StepsOf("createGroup"), StepsOf("rename"),
                     StepsOf("remove"), StepsOf("addMember"), StepsOf("removeMember")}
  BY DEF Steps, Operations, Creating
<1>2. Steps = {"find", "create", "refetch", "announce", "check", "write",
                "members", "delete", "load", "insert", "reply", "target",
                "successor", "dissolve", "farewell", "promote"}
  BY <1>1 DEF StepsOf
<1>3. NoFrame \notin Frame
  BY DEF NoFrame, Frame, Operations, Creating
<1> QED
  BY <1>2, <1>3 DEF Answers, Steps

\* A step and a frame that fit each other.
Fits(f, step) ==
    step \in Steps => /\ f \in Frame
                      /\ step \in StepsOf(f.op)
                      /\ step \notin NoIdYet => f.conv \in Convs

\* Going to a step with a frame that fits it keeps the handlers well typed.
LEMMA GotoTyped ==
    ASSUME TypeOK, NEW r \in Reqs, NEW step \in Steps \cup Answers, NEW f,
           Fits(f, step), GotoWith(r, step, f)
    PROVE  HandlersOK'
<1>1. pc' \in [Reqs -> {"idle"} \cup Steps \cup Answers]
  BY DEF GotoWith, TypeOK, HandlersOK
<1>2. call' \in [Reqs -> Frame \cup {NoFrame}]
  BY DEF GotoWith, TypeOK, HandlersOK, Fits
<1>3. ASSUME NEW q \in Reqs
      PROVE  /\ call'[q] \in Frame <=> pc'[q] \in Steps
             /\ pc'[q] \in Steps => pc'[q] \in StepsOf(call'[q].op)
             /\ pc'[q] \in Steps \ NoIdYet => call'[q].conv \in Convs
  <2>1. CASE q = r
    BY <2>1, StepsAndAnswers DEF GotoWith, Fits, TypeOK, HandlersOK
  <2>2. CASE q # r
    BY <2>2 DEF GotoWith, TypeOK, HandlersOK
  <2> QED
    BY <2>1, <2>2
<1> QED
  BY <1>1, <1>2, <1>3 DEF HandlersOK

\* Going on with the frame unchanged.
LEMMA GotoKeepsTyped ==
    ASSUME TypeOK, NEW r \in Reqs, pc[r] \in Steps,
           NEW step \in StepsOf(call[r].op) \cup Answers,
           pc[r] \in NoIdYet => step \in NoIdYet \cup Answers,
           Goto(r, step)
    PROVE  HandlersOK'
<1>1. call[r] \in Frame /\ call[r].op \in Operations
  BY DEF TypeOK, HandlersOK, Frame
<1>2. step \in Steps \cup Answers
  BY <1>1, StepsAndAnswers
<1>3. Fits(call[r], step)
  BY <1>1, <1>2, StepsAndAnswers DEF Fits, TypeOK, HandlersOK
<1> QED
  BY <1>2, <1>3, GotoTyped DEF Goto

\* A request at a step has a frame.
LEMMA FrameOf ==
    ASSUME TypeOK, NEW r \in Reqs, pc[r] \in Steps
    PROVE  /\ call[r] \in Frame
           /\ call[r].op \in Operations
           /\ call[r].actor \in Accounts
           /\ call[r].target \in Users
           /\ call[r].conv \in Convs \cup {None}
           /\ pc[r] \notin NoIdYet => call[r].conv \in Convs
           /\ call[r].ids \in SUBSET Users
           /\ call[r].succ \in [user : Users \cup {None}, joinedAt : Nat]
BY DEF TypeOK, TablesOK, HandlersOK, Frame

\* The two writes that touch more than one row.
LEMMA NoRows == [u \in Users |-> NoRow] \in [Users -> MemberRow]
BY DEF NoRow, MemberRow, Roles

\* InsertConversation keeps the types of the tables.
LEMMA InsertTyped ==
    ASSUME TypeOK, NEW c \in Convs, NEW type \in {"DIRECT", "GROUP"},
           NEW key \in SUBSET Users, NEW roleOf,
           \A u \in DOMAIN roleOf : roleOf[u] \in Roles,
           InsertConversation(c, type, key, roleOf)
    PROVE  /\ conversation' \in [Convs -> ConversationRow]
           /\ member' \in [Convs -> [Users -> MemberRow]]
           /\ clock' \in Nat
<1>1. [status |-> "live", type |-> type, directKey |-> key, name |-> None]
          \in ConversationRow
  BY DEF ConversationRow
<1>2. conversation' \in [Convs -> ConversationRow]
  BY <1>1 DEF TypeOK, TablesOK, HandlersOK, InsertConversation
<1>3. NoRow \in MemberRow
  BY DEF NoRow, MemberRow
<1>4. \A role \in Roles : [role |-> role, joinedAt |-> clock] \in MemberRow
  BY DEF MemberRow, TypeOK, TablesOK, HandlersOK
<1>5. member' \in [Convs -> [Users -> MemberRow]]
  BY <1>3, <1>4 DEF TypeOK, TablesOK, HandlersOK, InsertConversation
<1>6. clock' \in Nat
  BY DEF TypeOK, TablesOK, HandlersOK, InsertConversation
<1> QED
  BY <1>2, <1>5, <1>6

\* ... so does DeleteConversation.
LEMMA DeleteTyped ==
    ASSUME TypeOK, NEW c \in Convs, DeleteConversation(c)
    PROVE  /\ conversation' \in [Convs -> ConversationRow]
           /\ member' \in [Convs -> [Users -> MemberRow]]
<1>1. [conversation[c] EXCEPT !.status = "deleted"] \in ConversationRow
  <2>1. conversation[c] \in ConversationRow
    BY DEF TypeOK, TablesOK, HandlersOK
  <2> QED
    BY <2>1 DEF ConversationRow
<1>2. conversation' \in [Convs -> ConversationRow]
  BY <1>1 DEF TypeOK, TablesOK, HandlersOK, DeleteConversation
<1>3. member' \in [Convs -> [Users -> MemberRow]]
  BY NoRows DEF TypeOK, TablesOK, HandlersOK, DeleteConversation
<1> QED
  BY <1>2, <1>3

\* ... and what the clients have been told keeps its type.
LEMMA TellTyped ==
    ASSUME TypeOK, NEW c, NEW S, NEW what \in {"none", "member", "gone"},
           Tell(c, S, what)
    PROVE  view' \in [Convs -> [Users -> {"none", "member", "gone"}]]
<1>1. ASSUME c \in Convs
      PROVE  [u \in Users |-> IF u \in S THEN what ELSE view[c][u]]
                 \in [Users -> {"none", "member", "gone"}]
  BY <1>1 DEF TypeOK, TablesOK, HandlersOK
<1> QED
  BY <1>1 DEF TypeOK, TablesOK, HandlersOK, Tell

-----------------------------------------------------------------------------
(* Type correctness.                                                       *)

\* The tables are empty and no handler runs.
LEMMA InitTyped == Init => TypeOK
<1> SUFFICES ASSUME Init PROVE TypeOK
  OBVIOUS
<1>1. [status |-> "unused", type |-> "GROUP", directKey |-> {}, name |-> None]
          \in ConversationRow
  BY DEF ConversationRow
<1>2. TablesOK
  BY <1>1, NoRows DEF Init, TablesOK
<1>3. NoFrame \notin Frame
  BY DEF NoFrame, Frame, Operations, Creating
<1>4. HandlersOK
  BY <1>3, StepsAndAnswers DEF Init, HandlersOK
<1> QED
  BY <1>2, <1>4 DEF TypeOK

\* Every step keeps the types: one step of the proof per action.
LEMMA StepTyped == TypeOK /\ [Next]_vars => TypeOK'
<1> SUFFICES ASSUME TypeOK, [Next]_vars PROVE TypeOK'
  OBVIOUS
<1> USE DEF db
<1>1. CASE UNCHANGED vars
  BY <1>1 DEF vars, TypeOK, TablesOK, HandlersOK
<1>2. ASSUME NEW r \in Reqs, Receive(r) PROVE TypeOK'
  <2>1. PICK op \in Ops, a \in Accounts, t \in Users, S \in SUBSET Users :
          \E c \in IF op \in Creating THEN {None} ELSE Convs :
             GotoWith(r, FirstStep(op, a, t, S),
                      [op |-> op, actor |-> a, target |-> t, conv |-> c,
                       ids |-> S \ {a}, succ |-> NoSuccessor])
    BY <1>2 DEF Receive
  <2>a. PICK c \in IF op \in Creating THEN {None} ELSE Convs :
          GotoWith(r, FirstStep(op, a, t, S),
                   [op |-> op, actor |-> a, target |-> t, conv |-> c,
                    ids |-> S \ {a}, succ |-> NoSuccessor])
    BY <2>1
  <2> DEFINE f == [op |-> op, actor |-> a, target |-> t, conv |-> c,
                   ids |-> S \ {a}, succ |-> NoSuccessor]
  <2>2. f \in Frame
    BY ConstantsAssumption DEF Frame, NoSuccessor
  <2>3. FirstStep(op, a, t, S) \in {"find", "create", "check", "badRequest", "notFound"}
    BY DEF FirstStep, FirstOfDirect, FirstOfGroup
  <2>4. FirstStep(op, a, t, S) \in Steps \cup Answers
    BY <2>3, StepsAndAnswers DEF Answers
  <2>5. FirstStep(op, a, t, S) \in StepsOf(op) \cup Answers
    BY ConstantsAssumption DEF FirstStep, FirstOfDirect, FirstOfGroup, StepsOf, Answers, Operations, Creating
  <2>6. FirstStep(op, a, t, S) \notin NoIdYet => c \in Convs \/ FirstStep(op, a, t, S) \in Answers
    BY <2>3 DEF FirstStep, FirstOfDirect, FirstOfGroup, NoIdYet, Answers, Creating
  <2>7. Fits(f, FirstStep(op, a, t, S))
    BY <2>2, <2>5, <2>6, StepsAndAnswers DEF Fits
  <2>8. HandlersOK'
    BY <2>a, <2>4, <2>7, GotoTyped
  <2>9. TablesOK'
    BY <1>2 DEF TypeOK, Receive, TablesOK
  <2> QED
    BY <2>8, <2>9 DEF TypeOK
<1>3. ASSUME NEW r \in Reqs, FindDirect(r) PROVE TypeOK'
  <2>1. Pair(r) \in SUBSET Users /\ pc[r] \in Steps \cap NoIdYet
    BY <1>3, FrameOf, StepsAndAnswers, ConstantsAssumption DEF FindDirect, At, Pair, NoIdYet
  <2>2. PICK step \in {"create", "ok"} : Goto(r, step)
    BY <1>3 DEF FindDirect
  <2>3. HandlersOK'
    BY <1>3, <2>1, <2>2, GotoKeepsTyped DEF FindDirect, At, StepsOf, Answers, NoIdYet
  <2>4. TablesOK'
    BY <1>3, <2>1 DEF TypeOK, FindDirect, Give, DirectsOf, TablesOK
  <2> QED
    BY <2>3, <2>4 DEF TypeOK
<1>4. ASSUME NEW r \in Reqs, CreateDirect(r) PROVE TypeOK'
  <2>1. Pair(r) \in SUBSET Users /\ pc[r] \in Steps \cap NoIdYet /\ call[r] \in Frame
    BY <1>4, FrameOf, StepsAndAnswers, ConstantsAssumption DEF CreateDirect, At, Pair, NoIdYet
  <2>2. CASE Goto(r, "refetch") /\ UNCHANGED db
    <3>1. HandlersOK'
      BY <1>4, <2>1, <2>2, GotoKeepsTyped DEF CreateDirect, At, StepsOf, NoIdYet
    <3> QED
      BY <1>4, <2>2, <3>1 DEF TypeOK, CreateDirect, TablesOK
  <2>3. ASSUME NEW c \in Unused,
               InsertConversation(c, "DIRECT", Pair(r), [u \in Pair(r) |-> "MEMBER"]),
               GotoWith(r, "announce", [call[r] EXCEPT !.conv = c])
        PROVE  TypeOK'
    <3>1. c \in Convs
      BY DEF Unused
    <3>2. [call[r] EXCEPT !.conv = c] \in Frame
      BY <2>1, <3>1 DEF Frame
    <3>3. Fits([call[r] EXCEPT !.conv = c], "announce")
      BY <1>4, <2>1, <3>1, <3>2 DEF CreateDirect, At, Fits, Frame, StepsOf
    <3>4. HandlersOK'
      BY <2>3, <3>3, GotoTyped, StepsAndAnswers
    <3>5. /\ conversation' \in [Convs -> ConversationRow]
          /\ member' \in [Convs -> [Users -> MemberRow]]
          /\ clock' \in Nat
      <4>1. \A w \in DOMAIN [u \in Pair(r) |-> "MEMBER"] :
               [u \in Pair(r) |-> "MEMBER"][w] \in Roles
        BY DEF Roles
      <4> QED
        BY <2>1, <2>3, <3>1, <4>1, InsertTyped
    <3> QED
      BY <1>4, <3>4, <3>5 DEF TypeOK, CreateDirect, TablesOK
  <2> QED
    BY <1>4, <2>2, <2>3 DEF CreateDirect
<1>5. ASSUME NEW r \in Reqs, AnnounceDirect(r) PROVE TypeOK'
  <2>1. Pair(r) \in SUBSET Users /\ pc[r] \in Steps \ NoIdYet /\ call[r].conv \in Convs
    BY <1>5, FrameOf, StepsAndAnswers, ConstantsAssumption DEF AnnounceDirect, At, Pair, NoIdYet
  <2>2. HandlersOK'
    BY <1>5, <2>1, GotoKeepsTyped DEF AnnounceDirect, Answers
  <2>3. TablesOK'
    BY <1>5, <2>1 DEF TypeOK, AnnounceDirect, Give, TablesOK
  <2> QED
    BY <2>2, <2>3 DEF TypeOK
<1>6. ASSUME NEW r \in Reqs, RefetchDirect(r) PROVE TypeOK'
  <2>1. Pair(r) \in SUBSET Users /\ pc[r] \in Steps
    BY <1>6, FrameOf, StepsAndAnswers, ConstantsAssumption DEF RefetchDirect, At, Pair
  <2>2. PICK step \in {"conflict", "ok"} : Goto(r, step)
    BY <1>6 DEF RefetchDirect
  <2>3. HandlersOK'
    BY <2>1, <2>2, GotoKeepsTyped DEF Answers
  <2>4. TablesOK'
    BY <1>6, <2>1 DEF TypeOK, RefetchDirect, Give, DirectsOf, TablesOK
  <2> QED
    BY <2>3, <2>4 DEF TypeOK
<1>7. ASSUME NEW r \in Reqs, CreateGroup(r) PROVE TypeOK'
  <2>1. pc[r] \in Steps /\ call[r] \in Frame
    BY <1>7, FrameOf, StepsAndAnswers DEF CreateGroup, At
  <2> DEFINE roleOf == [u \in call[r].ids \cup {call[r].actor} |->
                           IF u = call[r].actor THEN "OWNER" ELSE "MEMBER"]
  <2>2. PICK c \in Unused : /\ InsertConversation(c, "GROUP", {}, roleOf)
                            /\ GotoWith(r, "announce", [call[r] EXCEPT !.conv = c])
    BY <1>7 DEF CreateGroup
  <2>3. c \in Convs
    BY DEF Unused
  <2>4. [call[r] EXCEPT !.conv = c] \in Frame
    BY <2>1, <2>3 DEF Frame
  <2>5. Fits([call[r] EXCEPT !.conv = c], "announce")
    BY <1>7, <2>1, <2>3, <2>4 DEF CreateGroup, At, Fits, Frame, StepsOf
  <2>6. HandlersOK'
    BY <2>2, <2>5, GotoTyped, StepsAndAnswers
  <2>7. \A u \in DOMAIN roleOf : roleOf[u] \in Roles
    BY DEF Roles
  <2> HIDE DEF roleOf
  <2>8. /\ conversation' \in [Convs -> ConversationRow]
        /\ member' \in [Convs -> [Users -> MemberRow]]
        /\ clock' \in Nat
    BY <2>2, <2>3, <2>7, InsertTyped
  <2> QED
    BY <1>7, <2>6, <2>8 DEF TypeOK, CreateGroup, TablesOK
<1>8. ASSUME NEW r \in Reqs,
             AnnounceGroup(r) \/ AnnounceRemoval(r) \/ AnnounceMember(r)
                 \/ Farewell(r) \/ AnnounceLeft(r)
      PROVE  TypeOK'
  <2> USE <1>8 DEF AnnounceGroup, AnnounceRemoval, AnnounceMember, Farewell, AnnounceLeft
  <2>1. pc[r] \in Steps \ NoIdYet
    BY StepsAndAnswers DEF At, NoIdYet
  <2>2. PICK step \in StepsOf(call[r].op) \cup Answers : Goto(r, step)
    BY DEF At, StepsOf, Answers
  <2>3. HandlersOK'
    BY <2>1, <2>2, GotoKeepsTyped
  <2>4. PICK what \in {"member", "gone"} : \E S : Tell(call[r].conv, S, what)
    OBVIOUS
  <2>5. view' \in [Convs -> [Users -> {"none", "member", "gone"}]]
    BY <2>4, TellTyped
  <2> QED
    BY <2>3, <2>5 DEF TypeOK, TablesOK
<1>9. ASSUME NEW r \in Reqs, AssertMembership(r) PROVE TypeOK'
  <2>1. /\ pc[r] \in Steps \ NoIdYet /\ call[r] \in Frame /\ call[r].op \in Operations
        /\ "check" \in StepsOf(call[r].op)
    BY <1>9, StepsAndAnswers, FrameOf DEF AssertMembership, NoIdYet, TypeOK, HandlersOK
  <2>2. Verdict(call[r].op, call[r].conv, call[r].actor, call[r].target)
            \in StepsOf(call[r].op) \cup Answers
    BY <2>1 DEF Verdict, RenameVerdict, RemoveVerdict, AddVerdict,
                RemoveMemberVerdict, StepsOf, Answers, Operations, Creating
  <2>3. HandlersOK'
    BY <1>9, <2>1, <2>2, GotoKeepsTyped DEF AssertMembership
  <2> QED
    BY <1>9, <2>3 DEF TypeOK, TablesOK, AssertMembership
<1>10. ASSUME NEW r \in Reqs,
              AnnounceName(r) \/ LoadConversation(r) \/ ReplyAdded(r) \/ ReadTarget(r)
       PROVE  TypeOK'
  <2> USE <1>10 DEF AnnounceName, LoadConversation, ReplyAdded, ReadTarget
  <2>1. pc[r] \in Steps \ NoIdYet
    BY StepsAndAnswers DEF At, NoIdYet
  <2>2. PICK step \in StepsOf(call[r].op) \cup Answers : Goto(r, step)
    BY DEF At, StepsOf, Answers
  <2>3. HandlersOK'
    BY <2>1, <2>2, GotoKeepsTyped
  <2> QED
    BY <2>3 DEF TypeOK, TablesOK
<1>11. ASSUME NEW r \in Reqs, WriteName(r) PROVE TypeOK'
  <2>1. pc[r] \in Steps \ NoIdYet
    BY <1>11, StepsAndAnswers DEF WriteName, At, NoIdYet
  <2>2. PICK step \in StepsOf(call[r].op) \cup Answers : Goto(r, step)
    BY <1>11 DEF WriteName, Found, At, StepsOf, Answers
  <2>3. HandlersOK'
    BY <2>1, <2>2, GotoKeepsTyped
  <2>4. \A c \in Convs : [conversation[c] EXCEPT !.name = r] \in ConversationRow
    BY ZenonT(40) DEF TypeOK, TablesOK, ConversationRow
  <2>5. conversation' \in [Convs -> ConversationRow]
    BY <1>11, <2>4 DEF WriteName, TypeOK, TablesOK
  <2> QED
    BY <1>11, <2>3, <2>5 DEF TypeOK, TablesOK, WriteName
<1>12. ASSUME NEW r \in Reqs, ListMembers(r) PROVE TypeOK'
  <2>1. call[r] \in Frame /\ call[r].conv \in Convs
    BY <1>12, FrameOf, StepsAndAnswers DEF ListMembers, At, NoIdYet
  <2> DEFINE f == [call[r] EXCEPT !.ids = MemberIds(call[r].conv)]
  <2>2. f \in Frame
    BY <2>1 DEF Frame, MemberIds
  <2>3. Fits(f, "delete")
    BY <1>12, <2>1, <2>2 DEF ListMembers, At, Fits, Frame, StepsOf
  <2>4. HandlersOK'
    BY <1>12, <2>3, GotoTyped, StepsAndAnswers DEF ListMembers
  <2> QED
    BY <1>12, <2>4 DEF TypeOK, TablesOK, ListMembers
<1>13. ASSUME NEW r \in Reqs, RemoveConversation(r) \/ Dissolve(r) PROVE TypeOK'
  <2> USE <1>13 DEF RemoveConversation, Dissolve
  <2>1. pc[r] \in Steps \ NoIdYet
    BY StepsAndAnswers DEF At, NoIdYet
  <2>2. PICK step \in StepsOf(call[r].op) \cup Answers : Goto(r, step)
    BY DEF Found, At, StepsOf, Answers
  <2>3. HandlersOK'
    BY <2>1, <2>2, GotoKeepsTyped
  <2>4. /\ conversation' \in [Convs -> ConversationRow]
        /\ member' \in [Convs -> [Users -> MemberRow]]
    <3>1. CASE DeleteConversation(call[r].conv)
      BY <2>1, <3>1, DeleteTyped DEF TypeOK, HandlersOK
    <3>2. CASE UNCHANGED <<conversation, member>>
      BY <3>2 DEF TypeOK, TablesOK
    <3> QED
      BY <3>1, <3>2
  <2> QED
    BY <2>3, <2>4 DEF TypeOK, TablesOK
<1>14. ASSUME NEW r \in Reqs, InsertMember(r) PROVE TypeOK'
  <2> DEFINE c == call[r].conv
             t == call[r].target
  <2>1. pc[r] \in Steps \ NoIdYet
    BY <1>14, StepsAndAnswers DEF InsertMember, At, NoIdYet
  <2>2. InsertVerdict(c, t) \in StepsOf(call[r].op) \cup Answers
    BY <1>14 DEF InsertMember, InsertVerdict, At, StepsOf, Answers
  <2>3. HandlersOK'
    BY <1>14, <2>1, <2>2, GotoKeepsTyped DEF InsertMember
  <2>4. [role |-> "MEMBER", joinedAt |-> clock] \in MemberRow
    BY DEF MemberRow, Roles, TypeOK, TablesOK
  <2> HIDE DEF c, t
  <2>5. \A d \in Convs : [member[d] EXCEPT ![t] = [role |-> "MEMBER", joinedAt |-> clock]]
                            \in [Users -> MemberRow]
    BY <2>4 DEF TypeOK, TablesOK
  <2>6. ASSUME InsertVerdict(c, t) = "announce"
        PROVE  /\ member' \in [Convs -> [Users -> MemberRow]]
               /\ clock' \in Nat
    <3>1. /\ member' = [member EXCEPT ![c] =
                 [member[c] EXCEPT ![t] = [role |-> "MEMBER", joinedAt |-> clock]]]
          /\ clock' = clock + 1
      BY <1>14, <2>6 DEF InsertMember, c, t
    <3>2. c \in Convs
      BY <2>1 DEF c, TypeOK, HandlersOK
    <3>3. [member[c] EXCEPT ![t] = [role |-> "MEMBER", joinedAt |-> clock]]
              \in [Users -> MemberRow]
      BY <2>5, <3>2
    <3>4. member' \in [Convs -> [Users -> MemberRow]]
      BY <3>1, <3>2, <3>3 DEF TypeOK, TablesOK
    <3> QED
      BY <3>1, <3>4 DEF TypeOK, TablesOK
  <2>7. /\ member' \in [Convs -> [Users -> MemberRow]]
        /\ clock' \in Nat
    BY <1>14, <2>6 DEF InsertMember, c, t, TypeOK, TablesOK
  <2> QED
    BY <1>14, <2>3, <2>7 DEF TypeOK, TablesOK, InsertMember
<1>15. ASSUME NEW r \in Reqs, FindSuccessor(r) PROVE TypeOK'
  <2>1. call[r] \in Frame /\ call[r].conv \in Convs /\ pc[r] \in Steps \ NoIdYet
    BY <1>15, FrameOf, StepsAndAnswers DEF FindSuccessor, At, NoIdYet
  <2>2. CASE Goto(r, "dissolve")
    BY <1>15, <2>1, <2>2, GotoKeepsTyped DEF FindSuccessor, At, StepsOf, TypeOK, TablesOK
  <2>3. ASSUME NEW s \in Successors(call[r].conv, call[r].actor), HandOff(r, s)
        PROVE  TypeOK'
    <3> DEFINE row == [user |-> s, joinedAt |-> member[call[r].conv][s].joinedAt]
               f == [call[r] EXCEPT !.succ = row]
    <3>1. s \in Users /\ member[call[r].conv][s] \in MemberRow
      BY <2>1 DEF Successors, MemberIds, TypeOK, TablesOK
    <3>2. row \in [user : Users \cup {None}, joinedAt : Nat]
      BY <3>1 DEF MemberRow
    <3> HIDE DEF row
    <3>3. f \in Frame
      BY <2>1, <3>2 DEF Frame
    <3>4. Fits(f, "promote")
      BY <1>15, <2>1, <3>3 DEF FindSuccessor, At, Fits, Frame, StepsOf
    <3>5. HandlersOK'
      BY <2>3, <3>4, GotoTyped, StepsAndAnswers DEF HandOff, row
    <3> QED
      BY <1>15, <3>5 DEF FindSuccessor, TypeOK, TablesOK
  <2> QED
    BY <1>15, <2>2, <2>3 DEF FindSuccessor
<1>16. ASSUME NEW r \in Reqs, Promote(r) PROVE TypeOK'
  <2>1. pc[r] \in Steps \ NoIdYet
    BY <1>16, StepsAndAnswers DEF Promote, At, NoIdYet
  <2>2. PICK step \in StepsOf(call[r].op) \cup Answers : Goto(r, step)
    BY <1>16 DEF Promote, At, StepsOf, Answers
  <2>3. HandlersOK'
    BY <2>1, <2>2, GotoKeepsTyped
  <2>4. \A c \in Convs, u \in Users : [member[c][u] EXCEPT !.role = "OWNER"] \in MemberRow
    BY SMTT(30) DEF TypeOK, TablesOK, MemberRow, Roles
  <2> DEFINE c == call[r].conv
             u == call[r].succ.user
  <2>5. ASSUME SuccessorRowLeft(r) PROVE member' \in [Convs -> [Users -> MemberRow]]
    <3>1. c \in Convs /\ u \in Users \cup {None}
      BY <2>1, FrameOf
    <3>2. [member[c] EXCEPT ![u].role = "OWNER"] \in [Users -> MemberRow]
      <4>1. member[c] \in [Users -> MemberRow]
        BY <3>1 DEF TypeOK, TablesOK
      <4>2. CASE u \in Users
        BY <2>4, <3>1, <4>1, <4>2
      <4>3. CASE u \notin Users
        BY <4>1, <4>3
      <4> QED
        BY <4>2, <4>3
    <3>3. member' = [member EXCEPT ![c] = [member[c] EXCEPT ![u].role = "OWNER"]]
      BY <1>16, <2>5 DEF Promote
    <3> QED
      BY <3>1, <3>2, <3>3 DEF TypeOK, TablesOK
  <2>6. ASSUME ~SuccessorRowLeft(r) PROVE member' \in [Convs -> [Users -> MemberRow]]
    BY <1>16, <2>6 DEF Promote, TypeOK, TablesOK
  <2>7. member' \in [Convs -> [Users -> MemberRow]]
    BY <2>5, <2>6
  <2> QED
    BY <1>16, <2>3, <2>7 DEF TypeOK, TablesOK, Promote
<1>17. ASSUME NEW r \in Reqs, DeleteMember(r) PROVE TypeOK'
  <2>1. pc[r] \in Steps \ NoIdYet
    BY <1>17, StepsAndAnswers DEF DeleteMember, At, NoIdYet
  <2>2. PICK step \in StepsOf(call[r].op) \cup Answers : Goto(r, step)
    BY <1>17 DEF DeleteMember, At, StepsOf, Answers
  <2>3. HandlersOK'
    BY <2>1, <2>2, GotoKeepsTyped
  <2>4. NoRow \in MemberRow
    BY DEF NoRow, MemberRow
  <2>5. member' \in [Convs -> [Users -> MemberRow]]
    BY <1>17, <2>4 DEF DeleteMember, TypeOK, TablesOK
  <2> QED
    BY <1>17, <2>3, <2>5 DEF TypeOK, TablesOK, DeleteMember
<1>18. ASSUME NEW r \in Reqs, Abort(r) PROVE TypeOK'
  <2>1. HandlersOK'
    BY <1>18, GotoKeepsTyped DEF Abort, InFlight, Answers
  <2> QED
    BY <1>18, <2>1 DEF Abort, TypeOK, TablesOK
<1>19. CASE AllAnswered
  BY <1>19 DEF AllAnswered, vars, TypeOK, TablesOK, HandlersOK
<1> QED
  BY <1>1, <1>2, <1>3, <1>4, <1>5, <1>6, <1>7, <1>8, <1>9, <1>10, <1>11, <1>12,
     <1>13, <1>14, <1>15, <1>16, <1>17, <1>18, <1>19 DEF Next, Handle

\* The tables, the events and the handlers' frames keep their types.
THEOREM TypeCorrect == Spec => []TypeOK
BY InitTyped, StepTyped, PTL DEF Spec
-----------------------------------------------------------------------------
(* The tables.  GroupCall is the strengthening that makes DirectIntact     *)
(* inductive: whoever got past assertMembership is working on a group.     *)

GroupCall(r) ==
    pc[r] \in Steps \ {"check"} /\ call[r].op \notin Creating =>
        /\ conversation[call[r].conv].status # "unused"
        /\ IsGroup(call[r].conv)

\* A creation is for two people, and announces what it created.
DirectCall(r) ==
    pc[r] \in Steps /\ call[r].op = "createDirect" =>
        /\ call[r].actor # call[r].target
        /\ pc[r] = "announce" => call[r].conv \in DirectsOf(Pair(r))
        /\ pc[r] = "refetch" => DirectsOf(Pair(r)) # {}

\* A conversation that is not there yet is no direct one.
Blank == \A c \in Unused : IsGroup(c)

RowsInv == NoOrphanRows /\ DirectIntact /\ OneDirectPerPair /\ Blank
CallsInv == \A r \in Reqs : GroupCall(r) /\ DirectCall(r)
TablesInv == RowsInv /\ DirectRequestsAgree /\ CallsInv

\* Once created, a conversation keeps its type; a direct one stays.
Grows ==
    /\ \A c \in Convs : conversation[c].status # "unused" =>
          conversation'[c].status # "unused" /\ IsGroup(c)' = IsGroup(c)
    /\ \A pair : DirectsOf(pair) \subseteq DirectsOf(pair)'

\* A step of r leaves the other handlers where they are.
LEMMA Others ==
    ASSUME TypeOK, NEW r \in Reqs, NEW step, NEW f, GotoWith(r, step, f),
           NEW q \in Reqs, q # r
    PROVE  pc'[q] = pc[q] /\ call'[q] = call[q]
BY DEF TypeOK, HandlersOK, GotoWith

\* ... and takes r itself to the step and the frame it names.
LEMMA Mine ==
    ASSUME TypeOK, NEW r \in Reqs, NEW step, NEW f, GotoWith(r, step, f)
    PROVE  /\ pc'[r] = step
           /\ step \notin Answers => call'[r] = f
BY DEF TypeOK, HandlersOK, GotoWith

\* A handler past the creating of its conversation knows it.
LEMMA ConvKnown ==
    ASSUME TypeOK, NEW r \in Reqs, pc[r] \in Steps, call[r].op \notin Creating
    PROVE  call[r].conv \in Convs
<1>1. call[r] \in Frame /\ call[r].op \in Operations /\ pc[r] \in StepsOf(call[r].op)
  BY FrameOf DEF TypeOK, HandlersOK
<1>2. pc[r] \notin NoIdYet
  BY <1>1 DEF StepsOf, NoIdYet, Operations, Creating
<1> QED
  BY <1>2 DEF TypeOK, HandlersOK

\* What CallsInv says of the other handlers survives a step of r that only lets
\* the tables grow.
LEMMA OthersKeepCalls ==
    ASSUME TypeOK, CallsInv, Grows, NEW r \in Reqs, NEW step, NEW f,
           GotoWith(r, step, f), NEW q \in Reqs, q # r
    PROVE  GroupCall(q)' /\ DirectCall(q)'
<1>1. pc'[q] = pc[q] /\ call'[q] = call[q]
  BY Others
<1>2. GroupCall(q)'
  BY <1>1, ConvKnown DEF Grows, CallsInv, GroupCall, IsGroup
<1>3. Pair(q)' = Pair(q)
  BY <1>1 DEF Pair
<1>4. DirectCall(q)'
  BY <1>1, <1>3 DEF Grows, CallsInv, DirectCall
<1> QED
  BY <1>2, <1>4

\* A step that writes no table.
LEMMA QuietRows ==
    ASSUME RowsInv, UNCHANGED <<conversation, member>>
    PROVE  RowsInv' /\ Grows /\ \A pair : DirectsOf(pair)' = DirectsOf(pair)
<1>1. \A pair : DirectsOf(pair)' = DirectsOf(pair)
  BY DEF DirectsOf, Live, IsGroup
<1>2. Grows
  BY <1>1 DEF Grows, IsGroup
<1>3. Directs' = Directs /\ \A c : MemberIds(c)' = MemberIds(c)
  BY DEF Directs, IsGroup, MemberIds, IsMember
<1>4. NoOrphanRows'
  BY <1>3 DEF RowsInv, NoOrphanRows, Live
<1>5. DirectIntact'
  BY <1>3 DEF RowsInv, DirectIntact, Live
<1>6. OneDirectPerPair'
  BY <1>3 DEF RowsInv, OneDirectPerPair
<1>7. Blank'
  BY DEF RowsInv, Blank, IsGroup, Unused
<1> QED
  BY <1>1, <1>2, <1>4, <1>5, <1>6, <1>7 DEF RowsInv

\* ... by a handler that goes on with its call, or answers.
LEMMA QuietStep ==
    ASSUME TypeOK, TablesInv, NEW r \in Reqs, NEW step, NEW f,
           GotoWith(r, step, f), UNCHANGED <<conversation, member, given>>,
           GroupCall(r)', DirectCall(r)'
    PROVE  TablesInv'
<1>1. RowsInv' /\ Grows /\ \A pair : DirectsOf(pair)' = DirectsOf(pair)
  BY QuietRows DEF TablesInv
<1>2. DirectRequestsAgree'
  BY <1>1 DEF TablesInv, DirectRequestsAgree
<1>3. CallsInv'
  BY <1>1, OthersKeepCalls DEF TablesInv, CallsInv
<1> QED
  BY <1>1, <1>2, <1>3 DEF TablesInv

\* A quiet step of an operation on an existing conversation.
LEMMA QuietCall ==
    ASSUME TypeOK, TablesInv, NEW r \in Reqs, NEW step, NEW f,
           pc[r] \in Steps, call[r].op \notin Creating,
           f.conv = call[r].conv, f.op = call[r].op,
           pc[r] = "check" /\ step \notin Answers =>
               conversation[call[r].conv].status # "unused" /\ IsGroup(call[r].conv),
           GotoWith(r, step, f), UNCHANGED <<conversation, member, given>>
    PROVE  TablesInv'
<1>1. step \in Answers => GroupCall(r)' /\ DirectCall(r)'
  BY Mine, StepsAndAnswers DEF GroupCall, DirectCall
<1>2. step \notin Answers => GroupCall(r)' /\ DirectCall(r)'
  BY Mine DEF GroupCall, DirectCall, TablesInv, CallsInv, IsGroup, Creating
<1> QED
  BY <1>1, <1>2, QuietStep

\* A step that gives the caller the live direct conversation of the pair.
LEMMA GiveStep ==
    ASSUME TypeOK, TablesInv, NEW r \in Reqs, NEW c \in DirectsOf(Pair(r)),
           Give(r, c), Goto(r, "ok"), UNCHANGED <<conversation, member>>
    PROVE  TablesInv'
<1>1. RowsInv' /\ Grows /\ \A pair : DirectsOf(pair)' = DirectsOf(pair)
  BY QuietRows DEF TablesInv
<1>2. \A d \in DirectsOf(Pair(r)) : d \in Directs /\ conversation[d].directKey = Pair(r)
  BY DEF DirectsOf, Live, Directs
<1>3. \A d \in DirectsOf(Pair(r)) : d = c
  BY <1>2 DEF TablesInv, RowsInv, OneDirectPerPair
<1>4. DirectRequestsAgree'
  BY <1>1, <1>3 DEF TablesInv, DirectRequestsAgree, Give
<1>5. GroupCall(r)' /\ DirectCall(r)'
  BY Mine, StepsAndAnswers DEF Goto, GroupCall, DirectCall, Answers
<1>6. CallsInv'
  BY <1>1, <1>5, OthersKeepCalls DEF TablesInv, CallsInv, Goto
<1> QED
  BY <1>1, <1>4, <1>6 DEF TablesInv

\* What an insert does to the tables: c is created, nothing else changes.
LEMMA InsertStep ==
    ASSUME TypeOK, TablesInv, NEW c \in Unused, NEW type \in {"DIRECT", "GROUP"},
           NEW key \in SUBSET Users, NEW roleOf,
           InsertConversation(c, type, key, roleOf),
           \A u \in DOMAIN roleOf : roleOf[u] \in Roles,
           type = "DIRECT" => /\ DirectsOf(key) = {}
                              /\ roleOf = [u \in key |-> "MEMBER"]
    PROVE  /\ RowsInv' /\ Grows
           /\ type = "DIRECT" => c \in DirectsOf(key)'
<1> USE DEF TypeOK, TablesOK
<1>1. c \in Convs /\ conversation[c].status = "unused" /\ IsGroup(c)
  BY DEF Unused, TablesInv, RowsInv, Blank
<1>2. /\ conversation'[c] = [status |-> "live", type |-> type, directKey |-> key, name |-> None]
      /\ \A u \in Users : member'[c][u].role =
             IF u \in DOMAIN roleOf THEN roleOf[u] ELSE "NONE"
      /\ \A d \in Convs : d # c => conversation'[d] = conversation[d] /\ member'[d] = member[d]
  BY <1>1 DEF InsertConversation, NoRow
<1>3. \A d \in Convs : d # c =>
         /\ Live(d)' = Live(d) /\ IsGroup(d)' = IsGroup(d) /\ MemberIds(d)' = MemberIds(d)
  BY <1>2 DEF Live, IsGroup, MemberIds, IsMember
<1>4. /\ Live(c)' /\ ~Live(c) /\ conversation'[c].status # "unused"
      /\ IsGroup(c)' <=> type = "GROUP"
      /\ conversation'[c].directKey = key
  BY <1>1, <1>2 DEF Live, IsGroup
<1>5. Directs' = IF type = "DIRECT" THEN Directs \cup {c} ELSE Directs
  <2>1. c \notin Directs /\ (c \in Directs' <=> type = "DIRECT")
    BY <1>1, <1>2, <1>4 DEF Directs
  <2>2. \A d \in Convs : d # c => (d \in Directs' <=> d \in Directs)
    BY <1>2, <1>3 DEF Directs
  <2>3. Directs \subseteq Convs /\ Directs' \subseteq Convs
    BY DEF Directs
  <2>4. CASE type = "DIRECT"
    BY <2>1, <2>2, <2>3, <2>4, <1>1
  <2>5. CASE type # "DIRECT"
    <3>1. \A d : d \in Directs' <=> d \in Directs
      BY <2>1, <2>2, <2>3, <2>5
    <3> QED
      BY <2>5, <3>1
  <2> QED
    BY <2>4, <2>5
<1>6. \A pair : DirectsOf(pair)' = IF type = "DIRECT" /\ pair = key
                                   THEN DirectsOf(pair) \cup {c} ELSE DirectsOf(pair)
  BY <1>1, <1>2, <1>3, <1>4 DEF DirectsOf
<1>7. Grows
  BY <1>1, <1>2, <1>3, <1>6 DEF Grows
<1>8. NoOrphanRows'
  BY <1>3, <1>4 DEF NoOrphanRows, TablesInv, RowsInv
<1>9. DirectIntact'
  <2>1. \A d \in Directs : d # c /\ d \in Convs
    BY <1>1 DEF Directs
  <2>2. ASSUME type = "DIRECT"
        PROVE  /\ MemberIds(c)' = key
               /\ \A u \in key : member'[c][u].role = "MEMBER"
    <3>1. DOMAIN roleOf = key /\ \A u \in key : roleOf[u] = "MEMBER"
      BY <2>2
    <3>2. \A u \in Users : member'[c][u].role = IF u \in key THEN "MEMBER" ELSE "NONE"
      BY <1>2, <3>1
    <3> QED
      BY <3>2 DEF MemberIds, IsMember
  <2> QED
    BY <1>2, <1>3, <1>4, <1>5, <2>1, <2>2 DEF DirectIntact, TablesInv, RowsInv
<1>10. OneDirectPerPair'
  <2>1. \A d \in Directs : d # c /\ d \in Convs /\ Live(d) /\ ~IsGroup(d)
    BY <1>1 DEF Directs, TablesInv, RowsInv, DirectIntact
  <2>2. ASSUME type = "DIRECT", NEW d \in Directs PROVE conversation[d].directKey # key
    BY <2>1, <2>2 DEF DirectsOf
  <2> QED
    BY <1>2, <1>5, <2>1, <2>2 DEF OneDirectPerPair, TablesInv, RowsInv
<1>11. Blank'
  <2>1. conversation'[c].status = "live" /\ conversation'[c].directKey = key
    BY <1>2
  <2> QED
    BY <1>2, <1>3, <1>4, <2>1 DEF Blank, Unused, TablesInv, RowsInv
<1> QED
  BY <1>6, <1>7, <1>8, <1>9, <1>10, <1>11 DEF RowsInv

\* A write to the rows of a group: members change, direct conversations do not.
LEMMA GroupWrite ==
    ASSUME TypeOK, TablesInv, NEW c \in Convs, IsGroup(c),
           \A d \in Convs : d # c => conversation'[d] = conversation[d] /\ member'[d] = member[d],
           conversation[c].status # "unused", conversation'[c].status # "unused",
           conversation'[c].type = conversation[c].type,
           conversation'[c].directKey = conversation[c].directKey,
           MemberIds(c)' # {} => Live(c)'
    PROVE  RowsInv' /\ Grows
<1>1. \A d \in Convs : d # c =>
         /\ Live(d)' = Live(d) /\ IsGroup(d)' = IsGroup(d) /\ MemberIds(d)' = MemberIds(d)
  BY DEF Live, IsGroup, MemberIds, IsMember
<1>2. IsGroup(c)' = IsGroup(c)
  BY DEF IsGroup
<1>3. Directs' = Directs /\ \A d \in Directs : d # c /\ d \in Convs
  BY <1>1, <1>2 DEF Directs
<1>4. \A pair : DirectsOf(pair)' = DirectsOf(pair)
  BY <1>1, <1>2 DEF DirectsOf
<1>5. Grows
  BY <1>1, <1>2, <1>4 DEF Grows
<1>6. NoOrphanRows'
  BY <1>1 DEF NoOrphanRows, TablesInv, RowsInv
<1>7. DirectIntact'
  BY <1>1, <1>3 DEF DirectIntact, TablesInv, RowsInv
<1>8. OneDirectPerPair'
  BY <1>3 DEF OneDirectPerPair, TablesInv, RowsInv
<1>9. Blank'
  BY <1>1, <1>2 DEF Blank, Unused, TablesInv, RowsInv
<1> QED
  BY <1>5, <1>6, <1>7, <1>8, <1>9 DEF RowsInv

\* A step that writes to a group the handler is working on.
LEMMA GroupWriteStep ==
    ASSUME TypeOK, TablesInv, NEW r \in Reqs, NEW step,
           pc[r] \in Steps \ {"check"}, call[r].op \notin Creating,
           Goto(r, step), RowsInv', Grows, UNCHANGED given
    PROVE  TablesInv'
<1>1. GroupCall(r)' /\ DirectCall(r)'
  <2>1. CASE step \in Answers
    BY <2>1, Mine, StepsAndAnswers DEF Goto, GroupCall, DirectCall
  <2>2. CASE step \notin Answers
    <3>1. pc'[r] = step /\ call'[r] = call[r]
      BY <2>2, Mine DEF Goto
    <3>2. call[r].conv \in Convs /\ GroupCall(r)
      BY ConvKnown DEF TablesInv, CallsInv
    <3> QED
      BY <3>1, <3>2 DEF GroupCall, DirectCall, Creating, Grows, IsGroup
  <2> QED
    BY <2>1, <2>2
<1>2. CallsInv'
  BY <1>1, OthersKeepCalls DEF TablesInv, CallsInv, Goto
<1>3. \A pair : DirectsOf(pair)' \subseteq Directs' /\ DirectsOf(pair) \subseteq DirectsOf(pair)'
  BY DEF DirectsOf, Directs, Live, Grows
<1>4. DirectRequestsAgree'
  BY <1>3 DEF TablesInv, DirectRequestsAgree
<1> QED
  BY <1>2, <1>4 DEF TablesInv

\* Empty tables satisfy the invariant.
LEMMA TablesInit == Init => TablesInv
<1> SUFFICES ASSUME Init PROVE TablesInv
  OBVIOUS
<1>1. \A c \in Convs : /\ conversation[c].status = "unused" /\ IsGroup(c)
                       /\ MemberIds(c) = {}
  BY DEF Init, IsGroup, MemberIds, IsMember, NoRow
<1>2. Directs = {} /\ given = {}
  BY <1>1 DEF Directs, Init
<1>3. RowsInv
  BY <1>1, <1>2 DEF RowsInv, NoOrphanRows, DirectIntact, OneDirectPerPair, Blank, Unused
<1>4. CallsInv
  BY StepsAndAnswers DEF Init, CallsInv, GroupCall, DirectCall
<1> QED
  BY <1>2, <1>3, <1>4 DEF TablesInv, DirectRequestsAgree

\* The invariant of the tables is inductive: one step per action.
LEMMA TablesStep == TypeOK /\ TablesInv /\ [Next]_vars => TablesInv'
<1> SUFFICES ASSUME TypeOK, TablesInv, [Next]_vars PROVE TablesInv'
  OBVIOUS
<1> USE DEF db, At
<1>1. CASE UNCHANGED vars
  <2>1. RowsInv' /\ \A pair : DirectsOf(pair)' = DirectsOf(pair)
    BY <1>1, QuietRows DEF vars, TablesInv
  <2>2. DirectRequestsAgree'
    BY <1>1, <2>1 DEF vars, TablesInv, DirectRequestsAgree
  <2>3. ASSUME NEW r \in Reqs PROVE GroupCall(r)' /\ DirectCall(r)'
    <3>1. GroupCall(r) /\ DirectCall(r)
      BY DEF TablesInv, CallsInv
    <3>2. Pair(r)' = Pair(r)
      BY <1>1 DEF vars, Pair
    <3> QED
      BY <1>1, <2>1, <3>1, <3>2 DEF vars, GroupCall, DirectCall, IsGroup
  <2> QED
    BY <2>1, <2>2, <2>3 DEF TablesInv, CallsInv
<1>2. ASSUME NEW r \in Reqs, Receive(r) PROVE TablesInv'
  <2>1. PICK op \in Ops, a \in Accounts, t \in Users, S \in SUBSET Users :
          \E c \in IF op \in Creating THEN {None} ELSE Convs :
             GotoWith(r, FirstStep(op, a, t, S),
                      [op |-> op, actor |-> a, target |-> t, conv |-> c,
                       ids |-> S \ {a}, succ |-> NoSuccessor])
    BY <1>2 DEF Receive
  <2>2. PICK c \in IF op \in Creating THEN {None} ELSE Convs :
          GotoWith(r, FirstStep(op, a, t, S),
                   [op |-> op, actor |-> a, target |-> t, conv |-> c,
                    ids |-> S \ {a}, succ |-> NoSuccessor])
    BY <2>1
  <2> DEFINE f == [op |-> op, actor |-> a, target |-> t, conv |-> c,
                   ids |-> S \ {a}, succ |-> NoSuccessor]
             step == FirstStep(op, a, t, S)
  <2>3. /\ step \notin Answers /\ op \notin Creating => step = "check"
        /\ step \notin Answers /\ op = "createDirect" => step = "find" /\ a # t
    BY DEF FirstStep, FirstOfDirect, FirstOfGroup, Answers, Creating
  <2>4. CASE step \in Answers
    BY <1>2, <2>2, <2>4, Mine, QuietStep, StepsAndAnswers DEF GroupCall, DirectCall, Receive
  <2>5. CASE step \notin Answers
    <3>1. pc'[r] = step /\ call'[r] = f
      BY <2>2, <2>5, Mine
    <3>2. GroupCall(r)' /\ DirectCall(r)'
      BY <2>3, <2>5, <3>1 DEF GroupCall, DirectCall
    <3> QED
      BY <1>2, <2>2, <3>2, QuietStep DEF Receive
  <2> QED
    BY <2>4, <2>5
<1>3. ASSUME NEW r \in Reqs, FindDirect(r) PROVE TablesInv'
  <2>1. CASE Goto(r, "create") /\ UNCHANGED given
    <3>1. DirectCall(r) /\ pc[r] \in Steps
      BY <1>3, StepsAndAnswers DEF FindDirect, TablesInv, CallsInv
    <3>2. pc'[r] = "create" /\ call'[r] = call[r]
      BY <2>1, Mine DEF Goto, Answers
    <3>3. GroupCall(r)' /\ DirectCall(r)'
      BY <1>3, <3>1, <3>2 DEF FindDirect, GroupCall, DirectCall, Creating
    <3> QED
      BY <1>3, <2>1, <3>3, QuietStep DEF FindDirect, Goto
  <2>2. CASE \E c \in DirectsOf(Pair(r)) : Give(r, c) /\ Goto(r, "ok")
    BY <1>3, <2>2, GiveStep DEF FindDirect
  <2> QED
    BY <1>3, <2>1, <2>2 DEF FindDirect
<1>4. ASSUME NEW r \in Reqs, CreateDirect(r) PROVE TablesInv'
  <2>1. /\ pc[r] = "create" /\ call[r].op = "createDirect" /\ call[r].actor # call[r].target
        /\ Pair(r) \in SUBSET Users
    BY <1>4, StepsAndAnswers, FrameOf, ConstantsAssumption
       DEF CreateDirect, TablesInv, CallsInv, DirectCall, Pair
  <2>2. CASE /\ ~DirectKeyFree(Pair(r)) /\ Goto(r, "refetch")
             /\ UNCHANGED db
    <3>1. pc'[r] = "refetch" /\ call'[r] = call[r]
      BY <2>2, Mine DEF Goto, Answers
    <3>2. \A pair : DirectsOf(pair)' = DirectsOf(pair)
      BY <2>2, QuietRows DEF TablesInv
    <3>3. Pair(r)' = Pair(r)
      BY <3>1 DEF Pair
    <3>4. GroupCall(r)' /\ DirectCall(r)'
      BY <2>1, <2>2, <3>1, <3>2, <3>3 DEF DirectKeyFree, GroupCall, DirectCall, Creating
    <3> QED
      BY <1>4, <2>2, <3>4, QuietStep DEF CreateDirect, Goto
  <2>3. ASSUME DirectKeyFree(Pair(r)), NEW c \in Unused,
               InsertConversation(c, "DIRECT", Pair(r), [u \in Pair(r) |-> "MEMBER"]),
               GotoWith(r, "announce", [call[r] EXCEPT !.conv = c])
        PROVE  TablesInv'
    <3> PICK key : key = Pair(r)
      OBVIOUS
    <3>1. \A w \in DOMAIN [u \in key |-> "MEMBER"] : [u \in key |-> "MEMBER"][w] \in Roles
      BY DEF Roles
    <3>2. RowsInv' /\ Grows /\ c \in DirectsOf(key)'
      BY <2>1, <2>3, <3>1, InsertStep DEF DirectKeyFree
    <3>3. call[r] \in Frame
      BY <2>1, StepsAndAnswers, FrameOf
    <3>4. /\ pc'[r] = "announce" /\ call'[r].op = call[r].op /\ call'[r].conv = c
          /\ call'[r].actor = call[r].actor /\ call'[r].target = call[r].target
      <4>1. pc'[r] = "announce" /\ call'[r] = [call[r] EXCEPT !.conv = c]
        BY <2>3, Mine DEF Answers
      <4> QED
        BY <3>3, <4>1 DEF Frame
    <3>5. Pair(r)' = key
      BY <3>4 DEF Pair
    <3>6. c \in DirectsOf(Pair(r))'
      BY <3>2, <3>5
    <3>7. GroupCall(r)' /\ DirectCall(r)'
      BY <2>1, <3>4, <3>6 DEF GroupCall, DirectCall, Creating
    <3>8. CallsInv'
      BY <2>3, <3>2, <3>7, OthersKeepCalls DEF TablesInv, CallsInv
    <3>9. DirectRequestsAgree'
      BY <1>4, <3>2 DEF CreateDirect, TablesInv, DirectRequestsAgree, Grows
    <3> QED
      BY <3>2, <3>8, <3>9 DEF TablesInv
  <2> QED
    BY <1>4, <2>2, <2>3 DEF CreateDirect
<1>5. ASSUME NEW r \in Reqs, AnnounceDirect(r) PROVE TablesInv'
  <2> PICK c : c = call[r].conv
    OBVIOUS
  <2>1. c \in DirectsOf(Pair(r))
    BY <1>5, StepsAndAnswers DEF AnnounceDirect, TablesInv, CallsInv, DirectCall
  <2> QED
    BY <1>5, <2>1, GiveStep DEF AnnounceDirect
<1>6. ASSUME NEW r \in Reqs, RefetchDirect(r) PROVE TablesInv'
  <2>1. DirectsOf(Pair(r)) # {}
    BY <1>6, StepsAndAnswers DEF RefetchDirect, TablesInv, CallsInv, DirectCall
  <2>2. PICK c \in DirectsOf(Pair(r)) : Give(r, c) /\ Goto(r, "ok")
    BY <1>6, <2>1 DEF RefetchDirect
  <2> QED
    BY <1>6, <2>2, GiveStep DEF RefetchDirect
<1>7. ASSUME NEW r \in Reqs, CreateGroup(r) PROVE TablesInv'
  <2>1. pc[r] = "create" /\ call[r].op = "createGroup" /\ call[r] \in Frame
    BY <1>7, StepsAndAnswers, FrameOf DEF CreateGroup
  <2>2. PICK c \in Unused :
           /\ InsertConversation(c, "GROUP", {},
                 [u \in call[r].ids \cup {call[r].actor} |->
                     IF u = call[r].actor THEN "OWNER" ELSE "MEMBER"])
           /\ GotoWith(r, "announce", [call[r] EXCEPT !.conv = c])
    BY <1>7 DEF CreateGroup
  <2> PICK roleOf : roleOf = [u \in call[r].ids \cup {call[r].actor} |->
                                 IF u = call[r].actor THEN "OWNER" ELSE "MEMBER"]
    OBVIOUS
  <2>3. \A u \in DOMAIN roleOf : roleOf[u] \in Roles
    BY DEF Roles
  <2>4. RowsInv' /\ Grows
    BY <2>2, <2>3, InsertStep
  <2>5. pc'[r] = "announce" /\ call'[r].op = "createGroup"
    <3>1. pc'[r] = "announce" /\ call'[r] = [call[r] EXCEPT !.conv = c]
      BY <2>2, Mine DEF Answers
    <3> QED
      BY <2>1, <3>1 DEF Frame
  <2>6. GroupCall(r)' /\ DirectCall(r)'
    BY <2>5 DEF GroupCall, DirectCall, Creating
  <2>7. CallsInv'
    BY <2>2, <2>4, <2>6, OthersKeepCalls DEF TablesInv, CallsInv
  <2>8. DirectRequestsAgree'
    BY <1>7, <2>4 DEF CreateGroup, TablesInv, DirectRequestsAgree, Grows
  <2> QED
    BY <2>4, <2>7, <2>8 DEF TablesInv
<1>8. ASSUME NEW r \in Reqs, AnnounceGroup(r) PROVE TablesInv'
  <2>1. GroupCall(r)' /\ DirectCall(r)'
    BY <1>8, Mine, StepsAndAnswers DEF AnnounceGroup, Goto, GroupCall, DirectCall, Answers
  <2> QED
    BY <1>8, <2>1, QuietStep DEF AnnounceGroup, Goto
<1>9. ASSUME NEW r \in Reqs, AssertMembership(r) PROVE TablesInv'
  <2> DEFINE c == call[r].conv
             step == Verdict(call[r].op, c, call[r].actor, call[r].target)
  <2>1. /\ pc[r] = "check" /\ pc[r] \in Steps /\ call[r].op \in Operations \ Creating
        /\ call[r].actor \in Users
    BY <1>9, StepsAndAnswers, FrameOf, ConstantsAssumption
       DEF AssertMembership, TypeOK, HandlersOK, StepsOf, Creating
  <2>2. c \in Convs
    BY <2>1, ConvKnown
  <2>3. ASSUME step \notin Answers PROVE conversation[c].status # "unused" /\ IsGroup(c)
    <3>1. IsMember(c, call[r].actor)
      BY <2>3 DEF Verdict, Answers
    <3>2. Live(c)
      BY <2>1, <2>2, <3>1 DEF TablesInv, RowsInv, NoOrphanRows, MemberIds
    <3>3. ASSUME ~IsGroup(c) PROVE FALSE
      <4>1. call[r].actor \in MemberIds(c) /\ c \in Directs
        BY <2>1, <2>2, <3>1, <3>2, <3>3 DEF MemberIds, Directs, Live
      <4>2. member[c][call[r].actor].role = "MEMBER"
        BY <4>1 DEF TablesInv, RowsInv, DirectIntact
      <4>3. step \in Answers
        BY <2>1, <3>1, <3>3, <4>2
           DEF Verdict, RenameVerdict, RemoveVerdict, AddVerdict, RemoveMemberVerdict,
               MayManage, Answers, Operations, Creating
      <4> QED
        BY <2>3, <4>3
    <3> QED
      BY <3>2, <3>3 DEF Live
  <2> HIDE DEF step
  <2>4. GotoWith(r, step, call[r])
    BY <1>9 DEF AssertMembership, Goto, step
  <2> QED
    BY <1>9, <2>1, <2>3, <2>4, QuietCall DEF AssertMembership
<1>10. ASSUME NEW r \in Reqs,
              AnnounceName(r) \/ AnnounceRemoval(r) \/ LoadConversation(r)
                 \/ AnnounceMember(r) \/ ReplyAdded(r) \/ ReadTarget(r)
                 \/ Farewell(r) \/ AnnounceLeft(r)
       PROVE  TablesInv'
  <2> USE <1>10 DEF AnnounceName, AnnounceRemoval, LoadConversation, AnnounceMember,
                    ReplyAdded, ReadTarget, Farewell, AnnounceLeft
  <2>1. pc[r] \in Steps \ {"check"} /\ call[r].op \notin Creating
    BY StepsAndAnswers DEF Creating
  <2>2. \E step : Goto(r, step)
    OBVIOUS
  <2> QED
    BY <2>1, <2>2, QuietCall DEF Goto
<1>11. ASSUME NEW r \in Reqs, ListMembers(r) PROVE TablesInv'
  <2>1. call[r] \in Frame /\ pc[r] \in Steps \ {"check"} /\ call[r].op \notin Creating
    BY <1>11, StepsAndAnswers, FrameOf DEF ListMembers, Creating
  <2> PICK f : f = [call[r] EXCEPT !.ids = MemberIds(call[r].conv)]
    OBVIOUS
  <2>2. f.conv = call[r].conv /\ f.op = call[r].op
    BY <2>1 DEF Frame
  <2> QED
    BY <1>11, <2>1, <2>2, QuietCall DEF ListMembers
<1>12. ASSUME NEW r \in Reqs, FindSuccessor(r) PROVE TablesInv'
  <2>1. call[r] \in Frame /\ pc[r] \in Steps \ {"check"} /\ call[r].op \notin Creating
    BY <1>12, StepsAndAnswers, FrameOf DEF FindSuccessor, Creating
  <2>2. PICK step, f : /\ GotoWith(r, step, f)
                       /\ f = call[r] \/ \E row : f = [call[r] EXCEPT !.succ = row]
    BY <1>12 DEF FindSuccessor, HandOff, Goto
  <2>3. f.conv = call[r].conv /\ f.op = call[r].op
    BY <2>1, <2>2 DEF Frame
  <2> QED
    BY <1>12, <2>1, <2>2, <2>3, QuietCall DEF FindSuccessor
<1>13. ASSUME NEW r \in Reqs, Abort(r) PROVE TablesInv'
  <2>1. GroupCall(r)' /\ DirectCall(r)'
    BY <1>13, Mine, StepsAndAnswers DEF Abort, Goto, GroupCall, DirectCall, Answers
  <2> QED
    BY <1>13, <2>1, QuietStep DEF Abort, Goto
<1>14. ASSUME NEW r \in Reqs, WriteName(r) \/ RemoveConversation(r) \/ Dissolve(r)
                 \/ InsertMember(r) \/ Promote(r) \/ DeleteMember(r)
       PROVE  TablesInv'
  <2>1. pc[r] \in Steps \ {"check"} /\ call[r].op \notin Creating
    BY <1>14, StepsAndAnswers DEF Creating, WriteName, RemoveConversation, Dissolve,
                                  InsertMember, Promote, DeleteMember
  <2> PICK c : c = call[r].conv
    OBVIOUS
  <2>2. c \in Convs /\ conversation[c].status # "unused" /\ IsGroup(c)
    BY <2>1, ConvKnown DEF TablesInv, CallsInv, GroupCall
  <2>3. UNCHANGED given /\ \E step : Goto(r, step)
    BY <1>14 DEF Found, WriteName, RemoveConversation, Dissolve, InsertMember,
                 Promote, DeleteMember
  <2> DEFINE OnlyC ==
                /\ \A d \in Convs : d # c =>
                      conversation'[d] = conversation[d] /\ member'[d] = member[d]
                /\ conversation'[c].status # "unused"
                /\ conversation'[c].type = conversation[c].type
                /\ conversation'[c].directKey = conversation[c].directKey
             Empties == MemberIds(c)' # {} => Live(c)'
  <2> USE DEF TypeOK, TablesOK
  <2>a. conversation[c] \in ConversationRow /\ member[c] \in [Users -> MemberRow]
    BY <2>2
  <2>b. ASSUME NEW u \in Users PROVE IsMember(c, u) => Live(c)
    BY <2>2 DEF TablesInv, RowsInv, NoOrphanRows, MemberIds
  <2>c. ASSUME UNCHANGED <<conversation, member>> PROVE OnlyC /\ Empties
    BY <2>2, <2>b, <2>c DEF MemberIds, IsMember, Live
  <2>d. ASSUME DeleteConversation(c) PROVE OnlyC /\ Empties
    <3>1. OnlyC
      BY <2>2, <2>a, <2>d DEF DeleteConversation, ConversationRow
    <3>2. MemberIds(c)' = {}
      BY <2>2, <2>d DEF DeleteConversation, MemberIds, IsMember, NoRow
    <3> QED
      BY <3>1, <3>2
  <2>e. ASSUME WriteName(r) /\ Live(c) PROVE OnlyC /\ Empties
    <3>1. OnlyC /\ conversation'[c].status = "live" /\ UNCHANGED member
      BY <2>2, <2>a, <2>e DEF WriteName, ConversationRow, Live
    <3> QED
      BY <3>1 DEF Live
  <2>f. ASSUME InsertMember(r) /\ Live(c) PROVE OnlyC /\ Empties
    BY <2>2, <2>f DEF InsertMember, Live
  <2>g. ASSUME Promote(r) \/ DeleteMember(r) PROVE OnlyC /\ Empties
    <3>1. OnlyC /\ UNCHANGED conversation
      BY <2>2, <2>g DEF Promote, DeleteMember
    <3>2. ASSUME NEW u \in Users, IsMember(c, u)' PROVE IsMember(c, u)
      <4>1. CASE Promote(r)
        BY <2>2, <2>a, <3>2, <4>1 DEF Promote, SuccessorRowLeft, IsMember
      <4>2. CASE DeleteMember(r)
        BY <2>2, <2>a, <3>2, <4>2 DEF DeleteMember, IsMember, NoRow
      <4> QED
        BY <2>g, <4>1, <4>2
    <3> QED
      BY <2>b, <3>1, <3>2 DEF MemberIds, Live
  <2>4. OnlyC /\ Empties
    <3>1. CASE RemoveConversation(r) \/ Dissolve(r)
      BY <2>c, <2>d, <3>1 DEF RemoveConversation, Dissolve
    <3>2. CASE WriteName(r) /\ ~Live(c)
      BY <2>c, <3>2 DEF WriteName
    <3>3. CASE InsertMember(r) /\ ~Live(c)
      BY <2>c, <3>3 DEF InsertMember, InsertVerdict
    <3> QED
      BY <1>14, <2>e, <2>f, <2>g, <3>1, <3>2, <3>3
  <2>6. RowsInv' /\ Grows
    BY <2>2, <2>4, GroupWrite
  <2> QED
    BY <2>1, <2>3, <2>6, GroupWriteStep
<1>15. CASE AllAnswered
  BY <1>1, <1>15 DEF AllAnswered
<1> QED
  BY <1>1, <1>2, <1>3, <1>4, <1>5, <1>6, <1>7, <1>8, <1>9, <1>10, <1>11, <1>12,
     <1>13, <1>14, <1>15 DEF Next, Handle

\* The tables are correct throughout: the invariant behind the next four
\* theorems.
THEOREM TablesCorrect == Spec => []TablesInv
<1>1. TypeOK /\ TablesInv /\ [Next]_vars => (TypeOK /\ TablesInv)'
  BY StepTyped, TablesStep
<1> QED
  BY <1>1, InitTyped, TablesInit, PTL DEF Spec

\* No membership row outlives its conversation.
THEOREM RowsHaveConversation == Spec => []NoOrphanRows
<1>1. TablesInv => NoOrphanRows
  BY DEF TablesInv, RowsInv
<1> QED
  BY <1>1, TablesCorrect, PTL

\* Nothing anyone calls changes who is in a direct conversation, or ends it.
THEOREM DirectStaysIntact == Spec => []DirectIntact
<1>1. TablesInv => DirectIntact
  BY DEF TablesInv, RowsInv
<1> QED
  BY <1>1, TablesCorrect, PTL

\* A pair never has two direct conversations.
THEOREM DirectIsUnique == Spec => []OneDirectPerPair
<1>1. TablesInv => OneDirectPerPair
  BY DEF TablesInv, RowsInv
<1> QED
  BY <1>1, TablesCorrect, PTL

\* All the callers for a pair are given the one conversation it has.
THEOREM CallersAgree == Spec => []DirectRequestsAgree
<1>1. TablesInv => DirectRequestsAgree
  BY DEF TablesInv
<1> QED
  BY <1>1, TablesCorrect, PTL

\* Whatever a request does, it is a step of its own handler.
LEMMA OneHandler ==
    ASSUME NEW q \in Reqs, Receive(q) \/ Handle(q) \/ Abort(q)
    PROVE  \E step, f : GotoWith(q, step, f)
<1>1. CASE Receive(q)
  BY <1>1 DEF Receive
<1>2. CASE Abort(q)
  BY SMTT(30), <1>2 DEF Abort, Goto
<1>3. CASE Handle(q)
  BY <1>3 DEF Handle, Goto, Found, HandOff, FindDirect, CreateDirect, AnnounceDirect,
        RefetchDirect, CreateGroup, AnnounceGroup, AssertMembership, WriteName,
        AnnounceName, ListMembers, RemoveConversation, AnnounceRemoval,
        LoadConversation, InsertMember, AnnounceMember, ReplyAdded, ReadTarget,
        FindSuccessor, Dissolve, Farewell, Promote, DeleteMember, AnnounceLeft
<1> QED
  BY <1>1, <1>2, <1>3

\* The steps of a findOrCreateDirect.
LEMMA DirectSteps ==
    ASSUME TypeOK, NEW r \in Reqs, Receive(r) \/ Handle(r) \/ Abort(r),
           call[r].op = "createDirect"
    PROVE  /\ FindDirect(r) \/ CreateDirect(r) \/ AnnounceDirect(r) \/ RefetchDirect(r)
                \/ Abort(r)
           /\ pc[r] \in Steps
<1>1. pc[r] \in Steps
  BY DEF TypeOK, HandlersOK, NoFrame
<1>2. pc[r] \in {"find", "create", "refetch", "announce"}
  BY <1>1 DEF TypeOK, HandlersOK, StepsOf
<1>3. ~Receive(r)
  BY <1>2 DEF Receive
<1>4. ~AssertMembership(r)
  BY <1>2 DEF AssertMembership
<1> QED
  BY <1>1, <1>3, <1>4 DEF Handle, At, CreateGroup, AnnounceGroup, WriteName,
        AnnounceName, ListMembers, RemoveConversation, AnnounceRemoval,
        LoadConversation, InsertMember, AnnounceMember, ReplyAdded, ReadTarget,
        FindSuccessor, Dissolve, Farewell, Promote, DeleteMember, AnnounceLeft

\* No step of a creation answers conflict: the refetch finds the conversation
\* that took the key.
LEMMA NoConflict ==
    ASSUME TypeOK, TablesInv, Next, NEW r \in Reqs, call[r].op = "createDirect"
    PROVE  pc'[r] # "conflict"
<1> SUFFICES ASSUME pc'[r] = "conflict" PROVE FALSE
  OBVIOUS
<1>1. pc[r] \in Steps
  BY DEF TypeOK, HandlersOK, NoFrame
<1>2. pc[r] # "conflict"
  BY <1>1, StepsAndAnswers
<1>3. ~AllAnswered
  BY <1>2 DEF AllAnswered, vars
<1>4. PICK q \in Reqs : Receive(q) \/ Handle(q) \/ Abort(q)
  BY <1>3 DEF Next
<1>5. q = r
  BY <1>2, <1>4, OneHandler, Others
<1>6. FindDirect(r) \/ CreateDirect(r) \/ AnnounceDirect(r) \/ RefetchDirect(r) \/ Abort(r)
  BY <1>4, <1>5, DirectSteps
<1>7. CASE RefetchDirect(r)
  <2>1. DirectsOf(Pair(r)) # {}
    BY <1>1, <1>7 DEF RefetchDirect, At, TablesInv, CallsInv, DirectCall
  <2>2. Goto(r, "ok")
    BY <1>7, <2>1 DEF RefetchDirect
  <2> QED
    BY <2>2, Mine DEF Goto
<1>8. CASE ~RefetchDirect(r)
  <2>1. \E step \in {"create", "ok", "refetch", "announce", "aborted"} :
           \E f : GotoWith(r, step, f)
    BY <1>6, <1>8 DEF FindDirect, CreateDirect, AnnounceDirect, Abort, Goto
  <2> QED
    BY <2>1, Mine
<1> QED
  BY <1>7, <1>8

\* The caller who loses the race is never answered 409.
THEOREM RaceIsHidden == Spec => RaceNeverReported
<1>1. TypeOK /\ TablesInv /\ [Next]_vars =>
         [\A r \in Reqs : call[r].op = "createDirect" => pc'[r] # "conflict"]_vars
  BY NoConflict
<1> QED
  BY <1>1, TypeCorrect, TablesCorrect, PTL DEF RaceNeverReported, Spec

-----------------------------------------------------------------------------
(* findOrCreateDirect implements DirectRegistry.                           *)

\* A pair has at most one direct conversation, so it is its entry.
LEMMA EntryIs ==
    ASSUME TablesInv, NEW p, NEW c \in DirectsOf(p)
    PROVE  Entry(p) = c
<1>1. \A d \in DirectsOf(p) : d \in Directs /\ conversation[d].directKey = p
  BY DEF DirectsOf, Directs, Live
<1>2. \A d \in DirectsOf(p) : d = c
  BY <1>1 DEF TablesInv, RowsInv, OneDirectPerPair
<1>3. DirectsOf(p) = {c}
  BY <1>2
<1> QED
  BY <1>3 DEF Entry, AnyOf

\* Only CreateDirect changes what the pairs have.
LEMMA OnlyCreateDirect ==
    ASSUME TypeOK, TablesInv, TablesInv', Next, \A r \in Reqs : ~CreateDirect(r)
    PROVE  \A p : DirectsOf(p)' = DirectsOf(p)
<1>1. \A p : DirectsOf(p) = {c \in Directs : conversation[c].directKey = p}
  BY DEF DirectsOf, Directs, Live, TablesInv, RowsInv, DirectIntact
<1>2. \A p : DirectsOf(p)' = {c \in Directs' : conversation'[c].directKey = p}
  BY DEF DirectsOf, Directs, Live, TablesInv, RowsInv, DirectIntact
<1>3. SUFFICES Directs' = Directs /\ \A c \in Directs : conversation'[c].directKey = conversation[c].directKey
  BY <1>1, <1>2
<1>4. \A c \in Convs : conversation[c] \in ConversationRow
  BY DEF TypeOK, TablesOK
<1>5. CASE UNCHANGED conversation
  BY <1>5 DEF Directs, IsGroup
<1>6. ASSUME NEW r \in Reqs, CreateGroup(r)
      PROVE  Directs' = Directs /\ \A c \in Directs : conversation'[c].directKey = conversation[c].directKey
  <2>1. PICK c \in Unused : conversation' = [conversation EXCEPT ![c] =
            [status |-> "live", type |-> "GROUP", directKey |-> {}, name |-> None]]
    BY <1>6 DEF CreateGroup, InsertConversation
  <2>2. c \in Convs /\ c \notin Directs /\ conversation'[c].type = "GROUP"
    BY <2>1 DEF Unused, Directs, TypeOK, TablesOK
  <2>3. \A d \in Convs : d # c => conversation'[d] = conversation[d]
    BY <2>1 DEF TypeOK, TablesOK
  <2> QED
    BY <2>2, <2>3 DEF Directs, IsGroup
<1>7. ASSUME NEW r \in Reqs, WriteName(r) \/ RemoveConversation(r) \/ Dissolve(r)
      PROVE  Directs' = Directs /\ \A c \in Directs : conversation'[c].directKey = conversation[c].directKey
  <2> PICK c : c = call[r].conv
    OBVIOUS
  <2>1. \/ UNCHANGED conversation
        \/ conversation' = [conversation EXCEPT ![c].name = r] /\ Live(c)
        \/ conversation' = [conversation EXCEPT ![c].status = "deleted"] /\ Live(c)
    BY <1>7 DEF WriteName, RemoveConversation, Dissolve, DeleteConversation
  <2>2. \A d \in Convs : /\ conversation'[d].type = conversation[d].type
                         /\ conversation'[d].directKey = conversation[d].directKey
                         /\ (conversation'[d].status = "unused")
                              <=> (conversation[d].status = "unused")
    <3>1. CASE UNCHANGED conversation
      BY <3>1
    <3>2. CASE conversation' = [conversation EXCEPT ![c].name = r]
      BY <1>4, <3>2 DEF TypeOK, TablesOK, ConversationRow
    <3>3. CASE conversation' = [conversation EXCEPT ![c].status = "deleted"] /\ Live(c)
      <4>1. ASSUME NEW d \in Convs, d # c PROVE conversation'[d] = conversation[d]
        BY <3>3, <4>1 DEF TypeOK, TablesOK
      <4>2. ASSUME c \in Convs
            PROVE  /\ conversation'[c] = [conversation[c] EXCEPT !.status = "deleted"]
                   /\ conversation[c].status # "unused"
        BY <3>3, <4>2 DEF Live, TypeOK, TablesOK
      <4>3. c \in Convs => /\ conversation'[c].type = conversation[c].type
                           /\ conversation'[c].directKey = conversation[c].directKey
                           /\ conversation'[c].status = "deleted"
        BY <1>4, <4>2 DEF ConversationRow
      <4> QED
        BY <4>1, <4>2, <4>3
    <3> QED
      BY <2>1, <3>1, <3>2, <3>3
  <2> QED
    BY <2>2 DEF Directs, IsGroup
<1>8. ASSUME ~(\E r \in Reqs : CreateGroup(r) \/ WriteName(r) \/ RemoveConversation(r)
                                   \/ Dissolve(r))
      PROVE  UNCHANGED conversation
  <2>1. CASE AllAnswered
    BY <2>1 DEF AllAnswered, vars
  <2>2. ASSUME NEW r \in Reqs, Receive(r) \/ Abort(r) PROVE UNCHANGED conversation
    BY SMTT(30), <2>2 DEF Receive, Abort, db
  <2>3. ASSUME NEW r \in Reqs, Handle(r) PROVE UNCHANGED conversation
    BY <1>8, <2>3 DEF Handle, db, FindDirect, AnnounceDirect, RefetchDirect,
        AnnounceGroup, AssertMembership, AnnounceName, ListMembers, AnnounceRemoval,
        LoadConversation, InsertMember, AnnounceMember, ReplyAdded, ReadTarget,
        FindSuccessor, Farewell, Promote, DeleteMember, AnnounceLeft
  <2> QED
    BY <2>1, <2>2, <2>3 DEF Next
<1> QED
  BY <1>5, <1>6, <1>7, <1>8

\* The pair of a creation in progress has two people.
LEMMA PairOfTwo ==
    ASSUME TypeOK, NEW r \in Reqs, pc[r] \in Steps, call[r].actor # call[r].target
    PROVE  Pair(r) \in Pairs
<1> DEFINE a == call[r].actor
           t == call[r].target
<1>1. a \in Users /\ t \in Users
  BY FrameOf, ConstantsAssumption
<1>2. IsFiniteSet({a}) /\ Cardinality({a}) = 1
  BY FS_Singleton
<1>3. Cardinality({a} \cup {t}) = Cardinality({a}) + 1
  BY <1>2, FS_AddElement
<1>4. Pair(r) = {a} \cup {t}
  BY DEF Pair
<1> QED
  BY <1>1, <1>2, <1>3, <1>4 DEF Pairs

\* Each step gives the caller of one request what its pair has, or nobody.
LEMMA GivesEntry ==
    ASSUME TypeOK, TablesInv, Next
    PROVE  \/ UNCHANGED given
           \/ \E p \in Pairs : DirectsOf(p) # {} /\ given' = given \cup {<<p, Entry(p)>>}
<1>1. CASE AllAnswered
  BY <1>1 DEF AllAnswered, vars
<1>2. ASSUME NEW r \in Reqs,
             FindDirect(r) \/ AnnounceDirect(r) \/ RefetchDirect(r), ~UNCHANGED given
      PROVE  \E p \in Pairs : DirectsOf(p) # {} /\ given' = given \cup {<<p, Entry(p)>>}
  <2>1. /\ pc[r] \in Steps /\ call[r].op = "createDirect" /\ call[r].actor # call[r].target
        /\ pc[r] = "announce" => call[r].conv \in DirectsOf(Pair(r))
    BY <1>2, StepsAndAnswers
       DEF FindDirect, AnnounceDirect, RefetchDirect, At, TablesInv, CallsInv, DirectCall
  <2>2. Pair(r) \in Pairs
    BY <2>1, PairOfTwo
  <2>3. PICK c \in DirectsOf(Pair(r)) : Give(r, c)
    BY <1>2, <2>1 DEF FindDirect, AnnounceDirect, RefetchDirect, At
  <2>4. Entry(Pair(r)) = c
    BY SMTT(30), EntryIs
  <2> QED
    BY <2>2, <2>3, <2>4 DEF Give
<1>3. ASSUME NEW r \in Reqs, Receive(r) \/ Handle(r) \/ Abort(r),
             ~(FindDirect(r) \/ AnnounceDirect(r) \/ RefetchDirect(r))
      PROVE  UNCHANGED given
  BY <1>3 DEF Receive, Abort, Handle, CreateDirect, CreateGroup, AnnounceGroup,
        AssertMembership, WriteName, AnnounceName, ListMembers, RemoveConversation,
        AnnounceRemoval, LoadConversation, InsertMember, AnnounceMember, ReplyAdded,
        ReadTarget, FindSuccessor, Dissolve, Farewell, Promote, DeleteMember, AnnounceLeft
<1> QED
  BY <1>1, <1>2, <1>3 DEF Next

Mapped == [p \in Pairs |-> Entry(p)]

\* Refinement, the initial states.
LEMMA RegistryInit == Init => Registry!Init
<1> SUFFICES ASSUME Init PROVE Registry!Init
  OBVIOUS
<1>1. \A p : DirectsOf(p) = {}
  BY DEF Init, DirectsOf, Live
<1> QED
  BY <1>1 DEF Init, Registry!Init, Entry, AnyOf

\* Refinement, the steps: CreateDirect registers, the three answers give, the
\* rest stutters.
LEMMA RegistryStep ==
    ASSUME TypeOK, TablesInv, TablesInv', Next
    PROVE  [Registry!Next]_<<Mapped, given>>
<1>1. CASE \A r \in Reqs : ~CreateDirect(r)
  <2>1. \A p : DirectsOf(p)' = DirectsOf(p)
    BY <1>1, OnlyCreateDirect
  <2>2. Mapped' = Mapped
    BY <2>1 DEF Mapped, Entry
  <2>3. CASE UNCHANGED given
    BY <2>2, <2>3
  <2>4. ASSUME NEW p \in Pairs, DirectsOf(p) # {}, given' = given \cup {<<p, Entry(p)>>}
        PROVE  Registry!Give(p)
    <3>1. Entry(p) \in Convs
      BY <2>4, EntryIs DEF DirectsOf
    <3>2. Entry(p) # None
      BY <3>1, ConstantsAssumption
    <3> QED
      BY <2>2, <2>4, <3>2 DEF Registry!Give, Mapped
  <2> QED
    BY <2>3, <2>4, GivesEntry DEF Registry!Next
<1>2. ASSUME NEW r \in Reqs, CreateDirect(r) PROVE [Registry!Next]_<<Mapped, given>>
  <2>1. UNCHANGED given
    BY <1>2 DEF CreateDirect
  <2>2. CASE UNCHANGED db
    <3>1. \A p : DirectsOf(p)' = DirectsOf(p)
      BY <2>2 DEF db, DirectsOf, Live, IsGroup
    <3> QED
      BY <2>1, <3>1 DEF Mapped, Entry
  <2>3. ASSUME DirectKeyFree(Pair(r)), NEW c \in Unused,
               InsertConversation(c, "DIRECT", Pair(r), [u \in Pair(r) |-> "MEMBER"])
        PROVE  Registry!Next
    <3> PICK key : key = Pair(r)
      OBVIOUS
    <3>1. pc[r] \in Steps /\ call[r].op = "createDirect" /\ call[r].actor # call[r].target
      BY <1>2, StepsAndAnswers DEF CreateDirect, At, TablesInv, CallsInv, DirectCall
    <3>2. key \in Pairs
      BY <3>1, PairOfTwo
    <3>3. c \in Convs /\ conversation[c].status = "unused"
      BY DEF Unused
    <3>4. /\ conversation'[c].status = "live" /\ conversation'[c].type = "DIRECT"
          /\ conversation'[c].directKey = key
          /\ \A d \in Convs : d # c => conversation'[d] = conversation[d]
      BY <2>3, <3>3 DEF InsertConversation, TypeOK, TablesOK
    <3>5. DirectsOf(key) = {} /\ DirectsOf(key)' = {c}
      BY <2>3, <3>3, <3>4 DEF DirectKeyFree, DirectsOf, Live, IsGroup
    <3>6. \A p : p # key => DirectsOf(p)' = DirectsOf(p)
      BY <3>3, <3>4 DEF DirectsOf, Live, IsGroup
    <3>7. \A p : Entry(p)' = IF p = key THEN c ELSE Entry(p)
      <4>1. AnyOf({c}) = c
        BY DEF AnyOf
      <4> QED
        BY <3>5, <3>6, <4>1 DEF Entry
    <3>8. \A p : c \notin DirectsOf(p)
      BY <3>3 DEF DirectsOf, Live
    <3>9. \A p : Entry(p) # c
      BY <3>3, <3>8, ConstantsAssumption DEF Entry, AnyOf
    <3>10. Entry(key) = None
      BY <3>5 DEF Entry, AnyOf
    <3>11. Mapped' = [Mapped EXCEPT ![key] = c]
      BY <3>7 DEF Mapped
    <3>12. Registry!Register(key, c)
      BY <2>1, <3>2, <3>9, <3>10, <3>11 DEF Registry!Register, Mapped
    <3> QED
      BY <3>2, <3>3, <3>12 DEF Registry!Next
  <2> QED
    BY <1>2, <2>2, <2>3 DEF CreateDirect
<1> QED
  BY <1>1, <1>2

\* findOrCreateDirect is an atomic get-or-create, whatever else runs.
THEOREM DirectIsARegister == Spec => GetOrCreate
<1>1. TypeOK /\ TablesInv /\ TablesInv' /\ [Next]_vars => [Registry!Next]_<<Mapped, given>>
  <2> SUFFICES ASSUME TypeOK, TablesInv, TablesInv', [Next]_vars
               PROVE  [Registry!Next]_<<Mapped, given>>
    OBVIOUS
  <2>1. CASE UNCHANGED vars
    <3>1. \A p : DirectsOf(p)' = DirectsOf(p)
      BY <2>1 DEF vars, DirectsOf, Live, IsGroup
    <3> QED
      BY <2>1, <3>1 DEF vars, Mapped, Entry
  <2> QED
    BY <2>1, RegistryStep
<1>2. Mapped = [p \in Pairs |-> Entry(p)]
  BY DEF Mapped
<1> QED
  BY <1>1, RegistryInit, TypeCorrect, TablesCorrect, PTL DEF GetOrCreate, Registry!Spec, Spec, Mapped

-----------------------------------------------------------------------------
(* The rows of every conversation change as Membership promises.           *)

\* A conversation that is not written keeps its rows.
LEMMA NotWritten ==
    ASSUME NEW c, conversation'[c] = conversation[c], member'[c] = member[c]
    PROVE  UNCHANGED Rows(c)!rows
BY DEF Rows!rows, Kind, RoleIn, Live

\* A step that writes one conversation, in a way Membership lists or one that
\* does not show.
LEMMA OneWritten ==
    ASSUME NEW c,
           \A d \in Convs : d # c =>
              conversation'[d] = conversation[d] /\ member'[d] = member[d],
           UNCHANGED Rows(c)!rows \/ Rows(c)!Next
    PROVE  RowsChange
<1>1. \A d \in Convs : d # c => UNCHANGED Rows(d)!rows
  BY NotWritten
<1> QED
  BY <1>1 DEF RowsChange

\* A creation: c is there afterwards, with the rows it was given.
LEMMA Created ==
    ASSUME TypeOK, NEW c \in Unused, NEW type \in {"DIRECT", "GROUP"}, NEW key,
           NEW roleOf, InsertConversation(c, type, key, roleOf)
    PROVE  /\ c \in Convs /\ Kind(c) = "none" /\ Kind(c)' = type
           /\ RoleIn(c)' = [u \in Users |-> IF u \in DOMAIN roleOf THEN roleOf[u] ELSE "NONE"]
           /\ \A d \in Convs : d # c =>
                 conversation'[d] = conversation[d] /\ member'[d] = member[d]
<1>1. c \in Convs /\ conversation[c].status = "unused"
  BY DEF Unused
<1>2. /\ conversation'[c] = [status |-> "live", type |-> type, directKey |-> key, name |-> None]
      /\ member'[c] = [u \in Users |-> IF u \in DOMAIN roleOf
                          THEN [role |-> roleOf[u], joinedAt |-> clock] ELSE NoRow]
      /\ \A d \in Convs : d # c =>
            conversation'[d] = conversation[d] /\ member'[d] = member[d]
  BY <1>1 DEF InsertConversation, TypeOK, TablesOK
<1>3. Kind(c) = "none" /\ Kind(c)' = type
  BY <1>1, <1>2 DEF Kind, Live
<1>4. \A u \in Users : member'[c][u].role = IF u \in DOMAIN roleOf THEN roleOf[u] ELSE "NONE"
  BY <1>2 DEF NoRow
<1> QED
  BY <1>1, <1>2, <1>3, <1>4 DEF RoleIn

\* A write by a handler that got past its checks: the conversation is a group,
\* there or deleted, and whoever has a row in it has one in a live group.
LEMMA GroupOf ==
    ASSUME TypeOK, TablesInv, NEW r \in Reqs, pc[r] \in Steps \ {"check"},
           call[r].op \notin Creating
    PROVE  LET c == call[r].conv IN
           /\ c \in Convs
           /\ Kind(c) = IF Live(c) THEN "GROUP" ELSE "deleted"
           /\ \A u \in Users : IsMember(c, u) => Live(c)
           /\ conversation[c] \in ConversationRow /\ member[c] \in [Users -> MemberRow]
<1> PICK c : c = call[r].conv
  OBVIOUS
<1>1. c \in Convs /\ conversation[c].status # "unused" /\ IsGroup(c)
  BY ConvKnown DEF TablesInv, CallsInv, GroupCall
<1>2. \A u \in Users : IsMember(c, u) => Live(c)
  BY <1>1 DEF TablesInv, RowsInv, NoOrphanRows, MemberIds
<1>3. conversation[c] \in ConversationRow /\ member[c] \in [Users -> MemberRow]
  BY <1>1 DEF TypeOK, TablesOK
<1> QED
  BY <1>1, <1>2, <1>3 DEF Kind, IsGroup

\* Refinement, the initial states.
LEMMA RowsInit == Init => \A c \in Convs : Rows(c)!Init
BY DEF Init, Rows!Init, Rows!Nobody, Kind, RoleIn, Live, NoRow

\* Refinement, the steps: six of the calls write rows, each its own way.
LEMMA RowsStep == TypeOK /\ TablesInv /\ [Next]_vars => RowsChange
<1> SUFFICES ASSUME TypeOK, TablesInv, [Next]_vars PROVE RowsChange
  OBVIOUS
<1> USE DEF db, At
<1>1. CASE UNCHANGED <<conversation, member>>
  BY <1>1, NotWritten DEF RowsChange
<1>2. ASSUME NEW r \in Reqs, CreateDirect(r) PROVE RowsChange
  <2>1. CASE UNCHANGED db
    BY <1>1, <2>1
  <2>2. ASSUME NEW c \in Unused,
               InsertConversation(c, "DIRECT", Pair(r), [u \in Pair(r) |-> "MEMBER"])
        PROVE  RowsChange
    <3> DEFINE a == call[r].actor
               b == call[r].target
    <3>1. a \in Users /\ b \in Users /\ a # b
      BY <1>2, StepsAndAnswers, FrameOf, ConstantsAssumption
         DEF CreateDirect, TablesInv, CallsInv, DirectCall
    <3>2. /\ Kind(c) = "none" /\ Kind(c)' = "DIRECT"
          /\ RoleIn(c)' = [u \in Users |-> IF u \in {a, b} THEN "MEMBER" ELSE "NONE"]
          /\ \A d \in Convs : d # c =>
                conversation'[d] = conversation[d] /\ member'[d] = member[d]
      <4> PICK roleOf : roleOf = [u \in Pair(r) |-> "MEMBER"]
        OBVIOUS
      <4>1. DOMAIN roleOf = {a, b} /\ \A u \in {a, b} : roleOf[u] = "MEMBER"
        BY DEF Pair
      <4> QED
        BY <2>2, <4>1, Created
    <3>3. Rows(c)!CreateDirect(a, b)
      BY <3>1, <3>2 DEF Rows!CreateDirect, Rows!Two
    <3> QED
      BY <3>1, <3>2, <3>3, OneWritten DEF Rows!Next
  <2> QED
    BY <1>2, <2>1, <2>2 DEF CreateDirect
<1>3. ASSUME NEW r \in Reqs, CreateGroup(r) PROVE RowsChange
  <2> DEFINE o == call[r].actor
             S == call[r].ids
  <2>1. o \in Users /\ S \in SUBSET Users
    BY <1>3, StepsAndAnswers, FrameOf, ConstantsAssumption DEF CreateGroup
  <2> PICK roleOf : roleOf = [u \in S \cup {o} |-> IF u = o THEN "OWNER" ELSE "MEMBER"]
    OBVIOUS
  <2>2. PICK c \in Unused : InsertConversation(c, "GROUP", {}, roleOf)
    BY <1>3 DEF CreateGroup
  <2>3. /\ Kind(c) = "none" /\ Kind(c)' = "GROUP"
        /\ RoleIn(c)' = [u \in Users |-> IF u \in DOMAIN roleOf THEN roleOf[u] ELSE "NONE"]
        /\ \A d \in Convs : d # c =>
              conversation'[d] = conversation[d] /\ member'[d] = member[d]
    BY <2>2, Created
  <2>4. Rows(c)!CreateGroup(o, S)
    BY <2>3 DEF Rows!CreateGroup, Rows!OwnerAnd
  <2> QED
    BY <2>1, <2>3, <2>4, OneWritten DEF Rows!Next
<1>4. ASSUME NEW r \in Reqs, WriteName(r) PROVE RowsChange
  <2> PICK c : c = call[r].conv
    OBVIOUS
  <2>1. c \in Convs /\ conversation[c] \in ConversationRow
    BY <1>4, GroupOf, StepsAndAnswers DEF WriteName, Creating
  <2>2. /\ conversation'[c].status = conversation[c].status
        /\ conversation'[c].type = conversation[c].type
        /\ UNCHANGED member
        /\ \A d \in Convs : d # c => conversation'[d] = conversation[d]
    BY <1>4, <2>1 DEF WriteName, ConversationRow, TypeOK, TablesOK
  <2>3. UNCHANGED Rows(c)!rows
    BY <2>2 DEF Rows!rows, Kind, RoleIn, Live
  <2> QED
    BY <2>2, <2>3, OneWritten
<1>5. ASSUME NEW r \in Reqs, RemoveConversation(r) \/ Dissolve(r), Live(call[r].conv)
      PROVE  RowsChange
  <2> PICK c : c = call[r].conv
    OBVIOUS
  <2>1. c \in Convs /\ conversation[c] \in ConversationRow /\ Kind(c) = "GROUP"
    BY <1>5, GroupOf, StepsAndAnswers DEF RemoveConversation, Dissolve, Creating
  <2>2. DeleteConversation(c)
    BY <1>5 DEF RemoveConversation, Dissolve
  <2>3. /\ conversation'[c].status = "deleted"
        /\ \A u \in Users : member'[c][u].role = "NONE"
        /\ \A d \in Convs : d # c =>
              conversation'[d] = conversation[d] /\ member'[d] = member[d]
    BY <2>1, <2>2 DEF DeleteConversation, ConversationRow, NoRow, TypeOK, TablesOK
  <2>4. Rows(c)!Delete
    BY <2>1, <2>3 DEF Rows!Delete, Rows!Nobody, Kind, RoleIn, Live
  <2> QED
    BY <2>3, <2>4, OneWritten DEF Rows!Next, Rows!Change
<1>6. ASSUME NEW r \in Reqs, InsertMember(r), ~UNCHANGED member PROVE RowsChange
  <2> PICK c : c = call[r].conv
    OBVIOUS
  <2> PICK t : t = call[r].target
    OBVIOUS
  <2>1. /\ c \in Convs /\ member[c] \in [Users -> MemberRow] /\ t \in Users
        /\ Live(c) => Kind(c) = "GROUP"
    BY <1>6, GroupOf, FrameOf, StepsAndAnswers DEF InsertMember, Creating
  <2>2. /\ Live(c) /\ member[c][t].role = "NONE"
        /\ member' = [member EXCEPT ![c][t] = [role |-> "MEMBER", joinedAt |-> clock]]
        /\ UNCHANGED conversation
    BY <1>6 DEF InsertMember, InsertVerdict, IsMember
  <2>3. /\ \A u \in Users : member'[c][u].role = IF u = t THEN "MEMBER" ELSE member[c][u].role
        /\ \A d \in Convs : d # c => member'[d] = member[d]
    BY <2>1, <2>2 DEF TypeOK, TablesOK
  <2>4. Rows(c)!Join(t)
    BY <2>1, <2>2, <2>3 DEF Rows!Join, Kind, RoleIn, Live
  <2> QED
    BY <2>1, <2>2, <2>3, <2>4, OneWritten DEF Rows!Next, Rows!Change
<1>7. ASSUME NEW r \in Reqs, Promote(r), ~UNCHANGED member PROVE RowsChange
  <2> PICK c : c = call[r].conv
    OBVIOUS
  <2> PICK s : s = call[r].succ.user
    OBVIOUS
  <2>1. /\ c \in Convs /\ member[c] \in [Users -> MemberRow]
        /\ Kind(c) = IF Live(c) THEN "GROUP" ELSE "deleted"
        /\ \A u \in Users : IsMember(c, u) => Live(c)
    BY <1>7, GroupOf, StepsAndAnswers DEF Promote, Creating
  <2>2. /\ member[c][s].role # "NONE"
        /\ member' = [member EXCEPT ![c][s].role = "OWNER"]
        /\ UNCHANGED conversation
    BY <1>7 DEF Promote, SuccessorRowLeft
  <2>3. s \in Users
    <3>1. ASSUME s \notin Users PROVE member' = member
      BY <2>1, <2>2, <3>1 DEF TypeOK, TablesOK
    <3> QED
      BY <1>7, <3>1
  <2>4. /\ \A u \in Users : member'[c][u].role = IF u = s THEN "OWNER" ELSE member[c][u].role
        /\ \A d \in Convs : d # c => member'[d] = member[d]
    BY <2>1, <2>2, <2>3 DEF TypeOK, TablesOK, MemberRow
  <2>5. Kind(c) = "GROUP" /\ UNCHANGED Kind(c) /\ RoleIn(c)[s] # "NONE"
    BY <2>1, <2>2, <2>3 DEF Kind, RoleIn, Live, IsMember
  <2>6. RoleIn(c)' = [RoleIn(c) EXCEPT ![s] = "OWNER"]
    BY <2>4 DEF RoleIn
  <2>7. Rows(c)!Promote(s)
    BY <2>5, <2>6 DEF Rows!Promote
  <2> QED
    BY <2>2, <2>3, <2>4, <2>7, OneWritten DEF Rows!Next, Rows!Change
<1>8. ASSUME NEW r \in Reqs, DeleteMember(r) PROVE RowsChange
  <2> PICK c : c = call[r].conv
    OBVIOUS
  <2> PICK t : t = call[r].target
    OBVIOUS
  <2>1. /\ c \in Convs /\ member[c] \in [Users -> MemberRow] /\ t \in Users
        /\ Kind(c) = IF Live(c) THEN "GROUP" ELSE "deleted"
        /\ \A u \in Users : IsMember(c, u) => Live(c)
    BY <1>8, GroupOf, FrameOf, StepsAndAnswers DEF DeleteMember, Creating
  <2>2. /\ \A u \in Users : member'[c][u].role = IF u = t THEN "NONE" ELSE member[c][u].role
        /\ \A d \in Convs : d # c => member'[d] = member[d]
        /\ UNCHANGED conversation
    BY <1>8, <2>1 DEF DeleteMember, NoRow, TypeOK, TablesOK
  <2>3. UNCHANGED Kind(c)
    BY <2>2 DEF Kind, Live
  <2>4. CASE IsMember(c, t)
    <3>1. Rows(c)!Leave(t)
      BY <2>1, <2>2, <2>3, <2>4 DEF Rows!Leave, RoleIn, IsMember
    <3> QED
      BY <2>1, <2>2, <3>1, OneWritten DEF Rows!Next, Rows!Change
  <2>5. CASE ~IsMember(c, t)
    <3>1. UNCHANGED Rows(c)!rows
      BY <2>2, <2>3, <2>5 DEF Rows!rows, RoleIn, IsMember
    <3> QED
      BY <2>2, <3>1, OneWritten
  <2> QED
    BY <2>4, <2>5
<1>9. ASSUME NEW r \in Reqs, Receive(r) \/ Handle(r) \/ Abort(r),
             ~(\/ CreateDirect(r) \/ CreateGroup(r) \/ WriteName(r) \/ InsertMember(r)
               \/ Promote(r) \/ DeleteMember(r) \/ RemoveConversation(r) \/ Dissolve(r))
      PROVE  UNCHANGED <<conversation, member>>
  BY SMTT(30), <1>9
     DEF Receive, Abort, Handle, FindDirect, AnnounceDirect, RefetchDirect, AnnounceGroup,
         AssertMembership, AnnounceName, ListMembers, AnnounceRemoval, LoadConversation,
         AnnounceMember, ReplyAdded, ReadTarget, FindSuccessor, Farewell, AnnounceLeft
<1>10. ASSUME NEW r \in Reqs,
              RemoveConversation(r) \/ Dissolve(r) \/ InsertMember(r) \/ Promote(r)
       PROVE  RowsChange
  BY <1>1, <1>5, <1>6, <1>7, <1>10 DEF RemoveConversation, Dissolve, InsertMember, Promote
<1>11. CASE AllAnswered \/ UNCHANGED vars
  BY <1>1, <1>11 DEF AllAnswered, vars
<1> QED
  BY <1>1, <1>2, <1>3, <1>4, <1>5, <1>8, <1>9, <1>10, <1>11 DEF Next

\* The rest of the system may rely on Membership: the rows of every conversation
\* change in the ways it lists and in no other, whatever runs beside whatever
\* and wherever handlers stop.
THEOREM MembershipIsAsPromised == Spec => MembershipAsPromised
<1>1. TypeOK /\ TablesInv /\ [Next]_vars => [RowsChange]_vars
  BY RowsStep
<1> QED
  BY <1>1, RowsInit, TypeCorrect, TablesCorrect, PTL DEF MembershipAsPromised, Spec

-----------------------------------------------------------------------------
(* Ownership, when removeMember calls do not overlap one another.          *)

Removing(r) == pc[r] \in Steps /\ call[r].op = "removeMember"

LeaversAlone == \A r, q \in Reqs : Removing(r) /\ Removing(q) => r = q

\* What a handler of removeMember may rely on at the call it is about to make:
\* the row about to go is not the last owner's, and no owner's if it is a kick.
Leaver(r) ==
    LET c == call[r].conv
        a == call[r].actor
        t == call[r].target
    IN  Removing(r) =>
           /\ pc[r] \in {"successor", "promote"} => a = t
           /\ pc[r] = "promote" => call[r].succ.user \in Users \ {a}
           /\ pc[r] = "delete" =>
                 /\ Live(c) => \E u \in Owners(c) : u # t
                 /\ a # t => t \notin Owners(c)

OwnersInv == GroupHasOwner /\ LeaversAlone /\ \A r \in Reqs : Leaver(r)

\* A step that takes no owner away from a live group, makes nobody an owner of
\* a group that was there, and creates groups with an owner.
KeepsOwners ==
    \A c \in Convs :
        /\ Live(c)' /\ Live(c) =>
              Owners(c) \subseteq Owners(c)' /\ IsGroup(c)' = IsGroup(c)
        /\ Live(c)' /\ ~Live(c) =>
              conversation[c].status = "unused" /\ (IsGroup(c)' => Owners(c)' # {})
        /\ conversation[c].status # "unused" => Owners(c)' \subseteq Owners(c)

\* A step that writes no table takes no owner away.
LEMMA QuietKeepsOwners ==
    ASSUME UNCHANGED <<conversation, member>> PROVE KeepsOwners
BY DEF KeepsOwners, Live, IsGroup, Owners

\* A step of another operation than removeMember.
LEMMA OtherOperation ==
    ASSUME TypeOK, TablesInv, OwnersInv, KeepsOwners,
           NEW r \in Reqs, NEW step, NEW f, GotoWith(r, step, f), ~Removing(r)'
    PROVE  OwnersInv'
<1>1. GroupHasOwner'
  BY DEF KeepsOwners, OwnersInv, GroupHasOwner, LiveGroups
<1>2. LeaversAlone'
  BY Others DEF OwnersInv, LeaversAlone, Removing
<1>3. ASSUME NEW q \in Reqs, q # r PROVE Leaver(q)'
  <2>1. pc'[q] = pc[q] /\ call'[q] = call[q]
    BY <1>3, Others
  <2> SUFFICES ASSUME Removing(q)' PROVE Leaver(q)'
    BY DEF Leaver
  <2>2. Removing(q) /\ Leaver(q)
    BY <2>1 DEF Removing, OwnersInv
  <2> PICK c : c = call[q].conv
    OBVIOUS
  <2>3. c \in Convs /\ (pc[q] = "delete" => conversation[c].status # "unused")
    BY <2>2, ConvKnown DEF Removing, Creating, TablesInv, CallsInv, GroupCall
  <2>4. pc[q] = "delete" => /\ Live(c)' => Live(c) /\ Owners(c) \subseteq Owners(c)'
                            /\ Owners(c)' \subseteq Owners(c)
    BY <2>3 DEF KeepsOwners
  <2> QED
    BY <2>1, <2>2, <2>4 DEF Leaver, Removing
<1>4. Leaver(r)'
  BY DEF Leaver
<1> QED
  BY <1>1, <1>2, <1>3, <1>4 DEF OwnersInv

\* A step of the one removeMember handler there is.
LEMMA RemovingStep ==
    ASSUME TypeOK, OwnersInv, NEW r \in Reqs, Removing(r), NEW step, NEW f,
           GotoWith(r, step, f), GroupHasOwner', Leaver(r)'
    PROVE  OwnersInv'
<1>1. ASSUME NEW q \in Reqs, q # r PROVE ~Removing(q)'
  BY <1>1, Others DEF OwnersInv, LeaversAlone, Removing
<1> QED
  BY <1>1 DEF OwnersInv, LeaversAlone, Leaver

\* ... when it writes no table.
LEMMA QuietRemovingStep ==
    ASSUME TypeOK, OwnersInv, NEW r \in Reqs, Removing(r), NEW step, NEW f,
           GotoWith(r, step, f), UNCHANGED <<conversation, member>>,
           step \notin Answers /\ f.op = "removeMember" => Leaver(r)'
    PROVE  OwnersInv'
<1>1. GroupHasOwner'
  BY DEF OwnersInv, GroupHasOwner, LiveGroups, Live, IsGroup, Owners
<1>2. Leaver(r)'
  BY Mine, StepsAndAnswers DEF Leaver, Removing
<1> QED
  BY <1>1, <1>2, RemovingStep

\* There is no group yet, and nobody leaving.
LEMMA OwnersInit == Init => OwnersInv
BY StepsAndAnswers DEF Init, OwnersInv, GroupHasOwner, LiveGroups, Live, LeaversAlone,
                       Leaver, Removing

\* The invariant of the owners is inductive when removeMember calls do not
\* overlap: one step per action.
LEMMA OwnersStep ==
    ASSUME "removeMember" \notin Overlap
    PROVE  TypeOK /\ TablesInv /\ OwnersInv /\ [Next]_vars => OwnersInv'
<1> SUFFICES ASSUME TypeOK, TablesInv, OwnersInv, [Next]_vars PROVE OwnersInv'
  OBVIOUS
<1> USE DEF db, At
<1>1. CASE UNCHANGED vars
  BY <1>1 DEF vars, OwnersInv, GroupHasOwner, LiveGroups, Live, IsGroup, Owners,
              LeaversAlone, Leaver, Removing
<1>2. ASSUME NEW r \in Reqs, Receive(r) PROVE OwnersInv'
  <2>1. PICK op \in Ops, a \in Accounts, t \in Users, S \in SUBSET Users :
          /\ MayStart(op)
          /\ \E c \in IF op \in Creating THEN {None} ELSE Convs :
                GotoWith(r, FirstStep(op, a, t, S),
                         [op |-> op, actor |-> a, target |-> t, conv |-> c,
                          ids |-> S \ {a}, succ |-> NoSuccessor])
    BY <1>2 DEF Receive
  <2>2. PICK c \in IF op \in Creating THEN {None} ELSE Convs :
          GotoWith(r, FirstStep(op, a, t, S),
                   [op |-> op, actor |-> a, target |-> t, conv |-> c,
                    ids |-> S \ {a}, succ |-> NoSuccessor])
    BY <2>1
  <2> DEFINE f == [op |-> op, actor |-> a, target |-> t, conv |-> c,
                   ids |-> S \ {a}, succ |-> NoSuccessor]
             step == FirstStep(op, a, t, S)
  <2>3. KeepsOwners
    BY <1>2, QuietKeepsOwners DEF Receive
  <2>4. CASE op # "removeMember"
    <3>1. ~Removing(r)'
      BY <2>2, <2>4, Mine, StepsAndAnswers DEF Removing
    <3> QED
      BY <2>2, <2>3, <3>1, OtherOperation
  <2>5. CASE op = "removeMember"
    <3>1. \A q \in Reqs : ~Removing(q)
      BY <2>1, <2>5 DEF MayStart, InFlight, Removing
    <3>2. step = "check"
      BY <2>5 DEF FirstStep, FirstOfDirect, FirstOfGroup
    <3>3. pc'[r] = "check"
      BY <2>2, <3>2, Mine
    <3>4. \A q \in Reqs : q # r => ~Removing(q)'
      BY <2>2, <3>1, Others DEF Removing
    <3>5. Leaver(r)'
      BY <3>3 DEF Leaver
    <3>6. GroupHasOwner'
      BY <1>2 DEF Receive, OwnersInv, GroupHasOwner, LiveGroups, Live, IsGroup, Owners
    <3> QED
      BY <3>4, <3>5, <3>6 DEF OwnersInv, LeaversAlone, Leaver
  <2> QED
    BY <2>4, <2>5
<1>3. ASSUME NEW r \in Reqs,
             FindDirect(r) \/ AnnounceDirect(r) \/ RefetchDirect(r) \/ AnnounceGroup(r)
                \/ AnnounceName(r) \/ AnnounceRemoval(r) \/ LoadConversation(r)
                \/ AnnounceMember(r) \/ ReplyAdded(r)
      PROVE  OwnersInv'
  <2> USE <1>3 DEF FindDirect, AnnounceDirect, RefetchDirect, AnnounceGroup, AnnounceName,
                   AnnounceRemoval, LoadConversation, AnnounceMember, ReplyAdded
  <2>1. call[r].op # "removeMember" /\ UNCHANGED <<conversation, member>>
    OBVIOUS
  <2>2. PICK step : GotoWith(r, step, call[r])
    BY DEF Goto
  <2> QED
    BY <2>1, <2>2, Mine, StepsAndAnswers, QuietKeepsOwners, OtherOperation DEF Removing
<1>4. ASSUME NEW r \in Reqs, CreateDirect(r) \/ CreateGroup(r) PROVE OwnersInv'
  <2>1. call[r] \in Frame /\ call[r].op # "removeMember"
    BY <1>4, StepsAndAnswers, FrameOf DEF CreateDirect, CreateGroup
  <2>2. PICK step, f : GotoWith(r, step, f) /\ (f = call[r] \/ \E c : f = [call[r] EXCEPT !.conv = c])
    BY <1>4 DEF CreateDirect, CreateGroup, Goto
  <2>3. ~Removing(r)'
    BY <2>1, <2>2, Mine, StepsAndAnswers DEF Removing, Frame
  <2>4. KeepsOwners
    <3>1. CASE UNCHANGED db
      BY <3>1, QuietKeepsOwners
    <3>2. ASSUME NEW c \in Unused, NEW type, NEW key, NEW roleOf,
                 InsertConversation(c, type, key, roleOf),
                 type = "GROUP" => \E u \in Users \cap DOMAIN roleOf : roleOf[u] = "OWNER"
          PROVE  KeepsOwners
      <4>1. c \in Convs /\ conversation[c].status = "unused" /\ ~Live(c)
        BY DEF Unused, Live
      <4>2. \A d \in Convs : d # c =>
               conversation'[d] = conversation[d] /\ member'[d] = member[d]
        BY <3>2, <4>1 DEF InsertConversation, TypeOK, TablesOK
      <4>3. conversation'[c].type = type
        BY <3>2, <4>1 DEF InsertConversation, TypeOK, TablesOK
      <4>4. \A u \in Users \cap DOMAIN roleOf : member'[c][u].role = roleOf[u]
        BY <3>2, <4>1 DEF InsertConversation, TypeOK, TablesOK
      <4>5. IsGroup(c)' => Owners(c)' # {}
        BY <3>2, <4>3, <4>4 DEF IsGroup, Owners
      <4> QED
        BY <4>1, <4>2, <4>5 DEF KeepsOwners, Live, IsGroup, Owners
    <3>3. CASE CreateDirect(r)
      BY <3>1, <3>2, <3>3 DEF CreateDirect
    <3>4. CASE CreateGroup(r)
      <4> DEFINE roleOf == [u \in call[r].ids \cup {call[r].actor} |->
                               IF u = call[r].actor THEN "OWNER" ELSE "MEMBER"]
      <4>1. PICK c \in Unused : InsertConversation(c, "GROUP", {}, roleOf)
        BY <3>4 DEF CreateGroup
      <4>2. call[r].actor \in Users \cap DOMAIN roleOf /\ roleOf[call[r].actor] = "OWNER"
        BY <2>1, ConstantsAssumption DEF Frame
      <4> HIDE DEF roleOf
      <4> QED
        BY <3>2, <4>1, <4>2
    <3> QED
      BY <1>4, <3>3, <3>4
  <2> QED
    BY <2>2, <2>3, <2>4, OtherOperation
<1>5. ASSUME NEW r \in Reqs, AssertMembership(r) PROVE OwnersInv'
  <2> PICK c, a, t, step :
        /\ c = call[r].conv /\ a = call[r].actor /\ t = call[r].target
        /\ step = Verdict(call[r].op, c, a, t)
    OBVIOUS
  <2>1. /\ pc[r] = "check" /\ pc[r] \in Steps /\ Goto(r, step) /\ UNCHANGED db
        /\ call[r].op \notin Creating
    BY <1>5, StepsAndAnswers, FrameOf
       DEF AssertMembership, TypeOK, HandlersOK, StepsOf, Creating
  <2>2. CASE call[r].op # "removeMember"
    BY <2>1, <2>2, Mine, StepsAndAnswers, QuietKeepsOwners, OtherOperation DEF Removing, Goto
  <2>3. CASE call[r].op = "removeMember"
    <3>1. ASSUME step \notin Answers PROVE Leaver(r)'
      <4>1. pc'[r] = step /\ call'[r] = call[r]
        BY <2>1, <3>1, Mine DEF Goto
      <4>2. /\ IsMember(c, a) /\ IsGroup(c)
            /\ t # a => step = "target"
            /\ t = a /\ member[c][a].role = "OWNER" => step = "successor"
            /\ t = a /\ member[c][a].role # "OWNER" => step = "delete"
        BY <2>3, <3>1 DEF Verdict, RemoveMemberVerdict, Answers
      <4>3. CASE step = "delete"
        <5>1. c \in Convs
          BY <2>1, ConvKnown
        <5>2. Live(c)' => \E u \in Owners(c)' : u # t
          BY <2>1, <4>2, <4>3, <5>1
             DEF OwnersInv, GroupHasOwner, LiveGroups, Live, IsGroup, Owners
        <5> QED
          BY <4>1, <4>2, <4>3, <5>2 DEF Leaver
      <4> QED
        BY <4>1, <4>2, <4>3 DEF Leaver
    <3> QED
      BY <2>1, <2>3, <3>1, QuietRemovingStep DEF Removing, Goto
  <2> QED
    BY <2>2, <2>3
<1>6. ASSUME NEW r \in Reqs, ListMembers(r) PROVE OwnersInv'
  <2>1. call[r] \in Frame /\ call[r].op = "remove"
    BY <1>6, StepsAndAnswers, FrameOf DEF ListMembers
  <2> PICK f : f = [call[r] EXCEPT !.ids = MemberIds(call[r].conv)]
    OBVIOUS
  <2>2. f.op = "remove" /\ GotoWith(r, "delete", f)
    BY <1>6, <2>1 DEF ListMembers, Frame
  <2>3. ~Removing(r)'
    <3>1. "delete" \notin Answers
      BY DEF Answers
    <3>2. call'[r] = f
      BY <2>2, <3>1, Mine
    <3> QED
      BY <2>2, <3>2 DEF Removing
  <2>4. KeepsOwners
    BY <1>6, QuietKeepsOwners DEF ListMembers
  <2> QED
    BY <2>2, <2>3, <2>4, OtherOperation
<1>7. ASSUME NEW r \in Reqs, WriteName(r) \/ RemoveConversation(r) \/ InsertMember(r)
      PROVE  OwnersInv'
  <2>1. call[r].op # "removeMember" /\ call[r].op \notin Creating /\ pc[r] \in Steps \ {"check"}
    BY <1>7, StepsAndAnswers DEF WriteName, RemoveConversation, InsertMember, Creating
  <2>2. PICK step : GotoWith(r, step, call[r])
    BY <1>7 DEF WriteName, RemoveConversation, InsertMember, Found, Goto
  <2>3. ~Removing(r)'
    BY <2>1, <2>2, Mine, StepsAndAnswers DEF Removing
  <2> PICK c : c = call[r].conv
    OBVIOUS
  <2>4. c \in Convs /\ conversation[c].status # "unused"
    BY <2>1, ConvKnown DEF TablesInv, CallsInv, GroupCall
  <2>5. KeepsOwners
    <3>1. CASE UNCHANGED <<conversation, member>>
      BY <3>1, QuietKeepsOwners
    <3>2. CASE WriteName(r) /\ Live(c)
      BY <2>4, <3>2 DEF WriteName, KeepsOwners, Live, IsGroup, Owners, TypeOK, TablesOK
    <3>3. CASE DeleteConversation(c)
      <4>1. /\ \A d \in Convs : d # c =>
                  conversation'[d] = conversation[d] /\ member'[d] = member[d]
            /\ ~Live(c)' /\ Owners(c)' = {}
        BY <2>4, <3>3 DEF DeleteConversation, Live, Owners, NoRow, TypeOK, TablesOK
      <4> QED
        BY <4>1 DEF KeepsOwners, Live, IsGroup, Owners
    <3>4. CASE InsertMember(r) /\ UNCHANGED conversation
      <4>1. \A d \in Convs, u \in Users :
               \/ member'[d][u] = member[d][u]
               \/ ~IsMember(d, u) /\ member'[d][u].role = "MEMBER"
        <5>1. CASE InsertVerdict(c, call[r].target) = "announce"
          <6>1. ~IsMember(c, call[r].target)
            BY <5>1 DEF InsertVerdict
          <6>2. member' = [member EXCEPT ![c][call[r].target] =
                              [role |-> "MEMBER", joinedAt |-> clock]]
            BY <3>4, <5>1 DEF InsertMember
          <6> QED
            BY <2>4, <6>1, <6>2 DEF TypeOK, TablesOK
        <5>2. CASE InsertVerdict(c, call[r].target) # "announce"
          BY <3>4, <5>2 DEF InsertMember
        <5> QED
          BY <5>1, <5>2
      <4>2. \A d \in Convs : Owners(d)' = Owners(d)
        BY <4>1 DEF Owners, IsMember
      <4> QED
        BY <3>4, <4>2 DEF KeepsOwners, Live, IsGroup
    <3> QED
      BY <1>7, <3>1, <3>2, <3>3, <3>4 DEF WriteName, RemoveConversation, InsertMember
  <2> QED
    BY <2>2, <2>3, <2>5, OtherOperation
<1>8. ASSUME NEW r \in Reqs, ReadTarget(r) PROVE OwnersInv'
  <2> PICK c, t : c = call[r].conv /\ t = call[r].target
    OBVIOUS
  <2>1. Removing(r) /\ UNCHANGED <<conversation, member>>
    BY <1>8, StepsAndAnswers DEF ReadTarget, Removing
  <2>2. PICK step : Goto(r, step) /\ (step = "delete" => t \notin Owners(c))
                                  /\ (step \notin Answers => step = "delete")
    BY <1>8 DEF ReadTarget, Owners, Answers
  <2>3. c \in Convs /\ IsGroup(c) /\ t \in Users
    BY <2>1, <1>8, ConvKnown, FrameOf
       DEF ReadTarget, Removing, Creating, TablesInv, CallsInv, GroupCall
  <2>4. ASSUME step \notin Answers PROVE Leaver(r)'
    <3>1. pc'[r] = "delete" /\ call'[r] = call[r]
      BY <2>2, <2>4, Mine DEF Goto
    <3>2. t \notin Owners(c)' /\ (Live(c)' => \E u \in Owners(c)' : u # t)
      BY <2>1, <2>2, <2>3, <2>4
         DEF OwnersInv, GroupHasOwner, LiveGroups, Live, IsGroup, Owners
    <3> QED
      BY <3>1, <3>2 DEF Leaver
  <2> QED
    BY <2>1, <2>2, <2>4, QuietRemovingStep DEF Goto
<1>9. ASSUME NEW r \in Reqs, FindSuccessor(r) PROVE OwnersInv'
  <2>1. Removing(r) /\ UNCHANGED <<conversation, member>> /\ call[r] \in Frame
        /\ call[r].actor = call[r].target
    BY <1>9, StepsAndAnswers, FrameOf DEF FindSuccessor, Removing, OwnersInv, Leaver
  <2>2. CASE Goto(r, "dissolve")
    <3>1. Leaver(r)'
      BY <2>2, Mine DEF Goto, Leaver
    <3> QED
      BY <2>1, <2>2, <3>1, QuietRemovingStep DEF Goto
  <2>3. ASSUME NEW s \in Successors(call[r].conv, call[r].actor), HandOff(r, s)
        PROVE  OwnersInv'
    <3> PICK row : row = [user |-> s, joinedAt |-> member[call[r].conv][s].joinedAt]
      OBVIOUS
    <3> PICK f : f = [call[r] EXCEPT !.succ = row]
      OBVIOUS
    <3>1. /\ f.actor = call[r].actor /\ f.target = call[r].target /\ f.succ = row
          /\ row.user = s /\ s \in Users \ {call[r].actor}
      BY <2>1 DEF Frame, Successors, MemberIds
    <3>2. GotoWith(r, "promote", f)
      BY <2>3 DEF HandOff
    <3>3. pc'[r] = "promote" /\ call'[r] = f
      BY <3>2, Mine DEF Answers
    <3>4. Leaver(r)'
      BY <2>1, <3>1, <3>3 DEF Leaver
    <3> QED
      BY <2>1, <3>2, <3>4, QuietRemovingStep
  <2> QED
    BY <1>9, <2>2, <2>3 DEF FindSuccessor
<1>10. ASSUME NEW r \in Reqs, Dissolve(r) PROVE OwnersInv'
  <2>1. Removing(r)
    BY <1>10, StepsAndAnswers DEF Dissolve, Removing
  <2>2. PICK step \in {"farewell", "notFound"} : Goto(r, step)
    BY <1>10 DEF Dissolve, Found
  <2>3. Leaver(r)'
    BY <2>2, Mine DEF Goto, Leaver
  <2>4. GroupHasOwner'
    <3> PICK c : c = call[r].conv
      OBVIOUS
    <3>1. CASE DeleteConversation(c)
      <4>1. c \in Convs
        BY <2>1, ConvKnown DEF Removing, Creating
      <4>2. /\ \A d \in Convs : d # c =>
                  conversation'[d] = conversation[d] /\ member'[d] = member[d]
            /\ ~Live(c)'
        BY <3>1, <4>1 DEF DeleteConversation, Live, TypeOK, TablesOK
      <4> QED
        BY <4>2 DEF OwnersInv, GroupHasOwner, LiveGroups, Live, IsGroup, Owners
    <3>2. CASE UNCHANGED <<conversation, member>>
      BY <3>2 DEF OwnersInv, GroupHasOwner, LiveGroups, Live, IsGroup, Owners
    <3> QED
      BY <1>10, <3>1, <3>2 DEF Dissolve
  <2> QED
    BY <2>1, <2>2, <2>3, <2>4, RemovingStep DEF Goto
<1>11. ASSUME NEW r \in Reqs, Farewell(r) \/ AnnounceLeft(r) PROVE OwnersInv'
  <2>1. Removing(r) /\ UNCHANGED <<conversation, member>> /\ Goto(r, "ok")
    BY <1>11, StepsAndAnswers DEF Farewell, AnnounceLeft, Removing
  <2> QED
    BY <2>1, QuietRemovingStep DEF Goto, Answers
<1>12. ASSUME NEW r \in Reqs, Promote(r) PROVE OwnersInv'
  <2>1. /\ Removing(r) /\ call[r].actor = call[r].target
        /\ call[r].succ.user \in Users \ {call[r].target}
    BY <1>12, StepsAndAnswers DEF Promote, Removing, OwnersInv, Leaver
  <2>2. CASE ~SuccessorRowLeft(r)
    BY <1>12, <2>1, <2>2, QuietRemovingStep DEF Promote, Goto, Answers
  <2>3. CASE SuccessorRowLeft(r)
    <3> PICK c, s : c = call[r].conv /\ s = call[r].succ.user
      OBVIOUS
    <3>1. c \in Convs /\ s \in Users
      BY <2>1, ConvKnown DEF Removing, Creating
    <3>2. member' = [member EXCEPT ![c][s].role = "OWNER"] /\ UNCHANGED conversation
          /\ Goto(r, "delete")
      BY <1>12, <2>3 DEF Promote
    <3>3. \A d \in Convs : Owners(d) \subseteq Owners(d)'
      <4>1. ASSUME NEW d \in Convs, NEW u \in Users PROVE
               member'[d][u].role = member[d][u].role \/ member'[d][u].role = "OWNER"
        <5>1. member[d] \in [Users -> MemberRow] /\ member[d][u] \in MemberRow
          BY DEF TypeOK, TablesOK
        <5> QED
          BY <3>1, <3>2, <5>1 DEF TypeOK, TablesOK, MemberRow
      <4> QED
        BY <4>1 DEF Owners
    <3>4. GroupHasOwner'
      BY <3>2, <3>3 DEF OwnersInv, GroupHasOwner, LiveGroups, Live, IsGroup
    <3>5. \E u \in Owners(c)' : u # call[r].target
      <4>1. member'[c][s].role = "OWNER"
        <5>1. member[c] \in [Users -> MemberRow] /\ member[c][s] \in MemberRow
          BY <3>1 DEF TypeOK, TablesOK
        <5> QED
          BY <3>1, <3>2, <5>1 DEF TypeOK, TablesOK, MemberRow
      <4> QED
        BY <2>1, <3>1, <4>1 DEF Owners
    <3>6. pc'[r] = "delete" /\ call'[r] = call[r]
      BY <3>2, Mine DEF Goto, Answers
    <3>7. Leaver(r)'
      BY <2>1, <3>5, <3>6 DEF Leaver
    <3> QED
      BY <2>1, <3>2, <3>4, <3>7, RemovingStep DEF Goto
  <2> QED
    BY <2>2, <2>3
<1>13. ASSUME NEW r \in Reqs, DeleteMember(r) PROVE OwnersInv'
  <2> PICK c, t : c = call[r].conv /\ t = call[r].target
    OBVIOUS
  <2>1. Removing(r) /\ UNCHANGED conversation /\ member' = [member EXCEPT ![c][t] = NoRow]
    BY <1>13, StepsAndAnswers DEF DeleteMember, Removing
  <2>2. PICK step \in {"announce", "notFound"} : Goto(r, step)
    BY <1>13 DEF DeleteMember
  <2>3. Leaver(r)'
    BY <2>2, Mine DEF Goto, Leaver
  <2>4. Live(c) => \E u \in Owners(c) : u # t
    BY <1>13, <2>1 DEF DeleteMember, OwnersInv, Leaver
  <2>5. \A d \in Convs, u \in Users : (d # c \/ u # t) => member'[d][u] = member[d][u]
    BY <2>1 DEF TypeOK, TablesOK
  <2>6. GroupHasOwner'
    BY <2>1, <2>4, <2>5 DEF OwnersInv, GroupHasOwner, LiveGroups, Live, IsGroup, Owners
  <2> QED
    BY <2>1, <2>2, <2>3, <2>6, RemovingStep DEF Goto
<1>14. ASSUME NEW r \in Reqs, Abort(r) PROVE OwnersInv'
  <2>1. ~Removing(r)'
    BY <1>14, Mine, StepsAndAnswers DEF Abort, Goto, Removing, Answers
  <2> QED
    BY <1>14, <2>1, QuietKeepsOwners, OtherOperation DEF Abort, Goto
<1>15. CASE AllAnswered
  BY <1>1, <1>15 DEF AllAnswered
<1> QED
  BY <1>1, <1>2, <1>3, <1>4, <1>5, <1>6, <1>7, <1>8, <1>9, <1>10, <1>11, <1>12,
     <1>13, <1>14, <1>15 DEF Next, Handle

\* The invariant behind the next theorem.
THEOREM OwnersCorrect ==
    ASSUME "removeMember" \notin Overlap
    PROVE  Spec => []OwnersInv
<1>1. TypeOK /\ TablesInv /\ OwnersInv /\ [Next]_vars => (TypeOK /\ TablesInv /\ OwnersInv)'
  BY StepTyped, TablesStep, OwnersStep
<1> QED
  BY <1>1, InitTyped, TablesInit, OwnersInit, PTL DEF Spec

\* A live group has an owner at every moment, whatever handlers die halfway, if
\* removeMember calls do not overlap one another.  Nothing else needs to wait.
THEOREM GroupsStayManageable ==
    ASSUME "removeMember" \notin Overlap
    PROVE  Spec => []GroupHasOwner
<1>1. OwnersInv => GroupHasOwner
  BY DEF OwnersInv
<1> QED
  BY <1>1, OwnersCorrect, PTL
=============================================================================
