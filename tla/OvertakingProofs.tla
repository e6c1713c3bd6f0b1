-------------------------- MODULE OvertakingProofs --------------------------
(***************************************************************************)
(* Theorems about Overtaking, for any users, conversations and requests,   *)
(* whatever overlaps and wherever handlers die.                            *)
(*                                                                         *)
(* One idea carries all four: what a handler has learnt of a row still     *)
(* holds, unless the row is among those that changed behind its back.      *)
(***************************************************************************)
EXTENDS ConversationsProofs, Overtaking, WellFoundedInduction

\* Naturals have a least one.
LEMMA LeastNatural ==
    ASSUME NEW T \in SUBSET Nat, T # {}
    PROVE  \E n \in T : \A k \in T : ~(k < n)
<1>1. \A k, n \in Nat : <<k, n>> \in OpToRel(<, Nat) <=> k < n
  BY DEF OpToRel
<1>2. \E n \in T : \A k \in T : ~(<<k, n>> \in OpToRel(<, Nat))
  BY NatLessThanWellFounded, WFMin
<1> QED
  BY <1>1, <1>2

\* A leaver who is not alone has a successor: the rows have a first one.
LEMMA SuccessorThere ==
    ASSUME TypeOK, NEW c \in Convs, NEW a, Successors(c, a) = {}
    PROVE  MemberIds(c) \subseteq {a}
<1> DEFINE others == MemberIds(c) \ {a}
           OfRank(n) == {u \in others : Rank(member[c][u].role) = n}
<1>1. \A u \in others : /\ u \in Users /\ member[c][u].joinedAt \in Nat
                        /\ Rank(member[c][u].role) \in {0, 1, 2}
  BY DEF TypeOK, TablesOK, MemberRow, MemberIds, Rank
<1>2. ASSUME NEW n \in {0, 1, 2}, OfRank(n) # {}, \A u \in others : Rank(member[c][u].role) >= n
      PROVE  FALSE
  <2> DEFINE T == {member[c][u].joinedAt : u \in OfRank(n)}
  <2>1. T \in SUBSET Nat /\ T # {}
    BY <1>1, <1>2
  <2> HIDE DEF T
  <2>2. PICK first \in T : \A k \in T : ~(k < first)
    BY <2>1, LeastNatural
  <2>3. PICK u \in OfRank(n) : member[c][u].joinedAt = first
    BY <2>2 DEF T
  <2>4. ASSUME NEW w \in others PROVE ~Before(member[c][w], member[c][u])
    <3>1. CASE Rank(member[c][w].role) = n
      <4>1. member[c][w].joinedAt \in T
        BY <3>1 DEF T
      <4> QED
        BY <1>1, <2>2, <2>3, <3>1, <4>1 DEF Before
    <3>2. CASE Rank(member[c][w].role) # n
      BY <1>1, <1>2, <2>3, <3>2 DEF Before
    <3> QED
      BY <3>1, <3>2
  <2> QED
    BY <2>3, <2>4 DEF Successors
<1>3. OfRank(0) = {} /\ OfRank(1) = {} /\ OfRank(2) = {}
  <2>1. OfRank(0) = {}
    BY <1>1, <1>2
  <2>2. OfRank(1) = {}
    BY <1>1, <1>2, <2>1
  <2> QED
    BY <1>1, <1>2, <2>1, <2>2
<1> QED
  BY <1>1, <1>3
-----------------------------------------------------------------------------
(* What a handler knows.                                                   *)

\* A leave that hands off is the leaver's own, and its successor another one.
Plan(r) ==
    /\ Removing(r) /\ pc[r] \in {"check", "target", "successor"} =>
          call[r].succ = NoSuccessor
    /\ Removing(r) /\ pc[r] \in {"successor", "promote"} => call[r].target = call[r].actor
    /\ Removing(r) /\ pc[r] = "promote" => call[r].succ.user \in Users \ {call[r].actor}
    /\ HandingOff(r) => /\ call[r].target = call[r].actor
                        /\ call[r].succ.user \in Users \ {call[r].actor}

\* What it has learnt of the rows of its conversation, but for the stale ones.
Knows(r) ==
    LET c == call[r].conv
        s == call[r].succ.user
    IN  /\ At(r, "removeMember", "dissolve") =>
              \A u \in Users : IsMember(c, u) => u = call[r].actor \/ u \in stale[r]
        /\ At(r, "remove", "delete") =>
              \A u \in Users : IsMember(c, u) => u \in call[r].ids \/ u \in stale[r]
        /\ At(r, "removeMember", "delete") /\ ~HandingOff(r) =>
              call[r].target \in stale[r] \/ call[r].target \notin Owners(c)
        /\ At(r, "removeMember", "promote") =>
              \/ s \in stale[r] \cup Owners(c)
              \/ Owners(c) \subseteq {call[r].actor} \cup stale[r]
        /\ HandingOff(r) => s \in stale[r] \cup Owners(c)
        /\ \A u \in Owed(r) :
              \/ u \in stale[r]
              \/ IsMember(c, u) <=> call[r].op \in {"createGroup", "addMember"}

KnowsInv == \A r \in Reqs : Plan(r) /\ Knows(r)

\* A request past "create" that owes or relies on anything has its conversation.
LEMMA OwedTyped ==
    ASSUME TypeOK, NEW r \in Reqs
    PROVE  /\ Owed(r) \subseteq Users
           /\ Owed(r) # {} => call[r].conv \in Convs /\ call[r] # NoFrame
<1>1. CASE Owed(r) = {}
  BY <1>1
<1>2. CASE Owed(r) # {}
  <2>1. pc[r] \in {"announce", "farewell"}
    BY <1>2 DEF Owed, At
  <2>2. /\ call[r] \in Frame /\ call[r].conv \in Convs
        /\ call[r].actor \in Users /\ call[r].target \in Users /\ call[r].ids \subseteq Users
    BY <2>1, StepsAndAnswers, FrameOf, ConstantsAssumption DEF NoIdYet
  <2>3. Owed(r) \subseteq Users
    BY <2>2 DEF Owed
  <2> QED
    BY <2>2, <2>3, StepsAndAnswers
<1> QED
  BY <1>1, <1>2

\* What the other handlers know survives a step of r: the rows it changes are
\* stale to them.
LEMMA OthersKnow ==
    ASSUME TypeOK, KnowsInv, NEW r \in Reqs, NEW step, NEW f, GotoWith(r, step, f),
           Track(r), NEW q \in Reqs, q # r
    PROVE  Plan(q)' /\ Knows(q)'
<1> PICK c : c = call[q].conv
  OBVIOUS
<1>1. pc'[q] = pc[q] /\ call'[q] = call[q]
  BY Others
<1>2. stale'[q] = stale[q] \cup ChangedFor(q)
  BY DEF Track
<1>3. Plan(q)'
  BY <1>1 DEF KnowsInv, Plan, Removing, HandingOff, At
<1>4. pc[q] \in Steps /\ c \in Convs =>
        \A u \in Users : u \notin stale'[q] => u \notin stale[q] /\ member'[c][u] = member[c][u]
  BY <1>2 DEF ChangedFor, InFlight
<1>5. Owed(q)' = Owed(q) /\ Owed(q) \subseteq Users
  <2>1. Owed(q)' = Owed(q)
    BY <1>1 DEF Owed, At
  <2> QED
    BY <2>1, OwedTyped
<1>6. CASE pc[q] \in {"dissolve", "delete", "promote", "announce", "farewell"}
  <2>1. pc[q] \in Steps /\ c \in Convs /\ call[q].target \in Users
    BY <1>6, StepsAndAnswers, FrameOf DEF NoIdYet
  <2>2. \A u \in Users : u \notin stale'[q] =>
           /\ u \notin stale[q]
           /\ IsMember(c, u)' <=> IsMember(c, u)
           /\ u \in Owners(c)' <=> u \in Owners(c)
    BY <1>4, <2>1 DEF IsMember, Owners
  <2>3. Owners(c)' \subseteq Users
    BY DEF Owners
  <2>4. Knows(q) /\ Plan(q)
    BY DEF KnowsInv
  <2>5. HandingOff(q)' <=> HandingOff(q)
    BY <1>1 DEF HandingOff, At
  <2>6. At(q, "removeMember", "dissolve")' =>
              \A u \in Users : IsMember(c, u)' => u = call[q].actor \/ u \in stale'[q]
    BY <1>1, <2>2, <2>4 DEF Knows, At
  <2>7. At(q, "remove", "delete")' =>
              \A u \in Users : IsMember(c, u)' => u \in call[q].ids \/ u \in stale'[q]
    BY <1>1, <2>2, <2>4 DEF Knows, At
  <2>8. At(q, "removeMember", "delete")' /\ ~HandingOff(q)' =>
              call[q].target \in stale'[q] \/ call[q].target \notin Owners(c)'
    BY <1>1, <2>1, <2>2, <2>4, <2>5 DEF Knows, At
  <2>9. At(q, "removeMember", "promote")' =>
              \/ call[q].succ.user \in stale'[q] \cup Owners(c)'
              \/ Owners(c)' \subseteq {call[q].actor} \cup stale'[q]
    <3> SUFFICES ASSUME At(q, "removeMember", "promote"), call[q].succ.user \notin stale'[q],
                        call[q].succ.user \notin Owners(c)
                 PROVE  Owners(c)' \subseteq {call[q].actor} \cup stale'[q]
      <4>1. At(q, "removeMember", "promote")' => call[q].succ.user \in Users
        BY <1>1, <2>1, <2>4 DEF Plan, Removing, At
      <4> QED
        BY <1>1, <2>2, <4>1 DEF At
    <3>1. call[q].succ.user \in Users
      BY <2>1, <2>4 DEF Plan, Removing, At
    <3>2. Owners(c) \subseteq {call[q].actor} \cup stale[q]
      BY <2>2, <2>4, <3>1 DEF Knows
    <3> QED
      BY <2>2, <2>3, <3>2
  <2>10. HandingOff(q)' => call[q].succ.user \in stale'[q] \cup Owners(c)'
    BY <2>2, <2>4, <2>5 DEF Knows, Plan
  <2>11. \A u \in Owed(q) :
              \/ u \in stale'[q]
              \/ IsMember(c, u)' <=> call[q].op \in {"createGroup", "addMember"}
    BY <1>5, <2>2, <2>4 DEF Knows
  <2> QED
    BY <1>1, <1>3, <1>5, <2>6, <2>7, <2>8, <2>9, <2>10, <2>11 DEF Knows
<1>7. CASE pc[q] \notin {"dissolve", "delete", "promote", "announce", "farewell"}
  BY <1>1, <1>3, <1>7 DEF Knows, HandingOff, Owed, At
<1> QED
  BY <1>6, <1>7

\* Where a handler is that knows nothing yet, or no more.
LEMMA NothingToKnow ==
    ASSUME NEW r \in Reqs,
           \/ pc'[r] \notin {"dissolve", "delete", "promote", "announce", "farewell"}
           \/ call'[r].op \in {"createDirect", "rename"}
    PROVE  Knows(r)'
BY DEF Knows, HandingOff, Owed, At

\* ... or plans.
LEMMA NothingToPlan ==
    ASSUME NEW r \in Reqs,
           \/ pc'[r] \notin {"check", "target", "successor", "promote", "delete"}
           \/ call'[r].op # "removeMember"
    PROVE  Plan(r)'
BY DEF Plan, Removing, HandingOff, At

\* Nothing is known of a handler that answers, whatever its frame.
LEMMA NothingAfterAnswer ==
    ASSUME TypeOK, NEW r \in Reqs, NEW step \in Answers, NEW f, GotoWith(r, step, f)
    PROVE  Plan(r)' /\ Knows(r)'
BY Mine, NothingToKnow, NothingToPlan, StepsAndAnswers DEF Answers

\* What a handler learns at its own step, by reading or by writing.
LEMMA LearnsByItsStep ==
    ASSUME TypeOK, TablesInv, KnowsInv, NEW r \in Reqs, Receive(r) \/ Handle(r) \/ Abort(r)
    PROVE  Plan(r)' /\ Knows(r)'
<1> USE DEF db
<1> PICK c, a, t, s : /\ c = call[r].conv /\ a = call[r].actor /\ t = call[r].target
                      /\ s = call[r].succ.user
  OBVIOUS
<1>0. Plan(r) /\ Knows(r)
  BY DEF KnowsInv
<1>1. CASE Receive(r)
  <2>1. PICK op, aa, tt, S, cc, f : /\ GotoWith(r, FirstStep(op, aa, tt, S), f)
                                    /\ f.op = op /\ f.succ = NoSuccessor
    BY <1>1 DEF Receive
  <2>2. FirstStep(op, aa, tt, S) \in {"find", "create", "check"} \cup Answers
    BY DEF FirstStep, FirstOfDirect, FirstOfGroup, Answers
  <2>3. CASE FirstStep(op, aa, tt, S) \in Answers
    BY <2>1, <2>3, NothingAfterAnswer
  <2>4. CASE FirstStep(op, aa, tt, S) \notin Answers
    <3>1. pc'[r] \in {"find", "create", "check"} /\ call'[r].succ = NoSuccessor
      BY <2>1, <2>2, <2>4, Mine
    <3> QED
      BY <3>1, NothingToKnow DEF Plan, Removing, HandingOff, At
  <2> QED
    BY <2>3, <2>4
<1>2. CASE Abort(r)
  BY <1>2, NothingAfterAnswer DEF Abort, Goto, Answers
<1>3. CASE \/ FindDirect(r) \/ AnnounceDirect(r) \/ RefetchDirect(r)
           \/ WriteName(r) \/ AnnounceName(r)
           \/ AnnounceGroup(r) \/ AnnounceRemoval(r) \/ AnnounceMember(r)
           \/ Farewell(r) \/ AnnounceLeft(r) \/ LoadConversation(r) \/ ReplyAdded(r)
  <2>1. PICK st \in {"create", "reply", "announce", "insert"} \cup Answers :
           GotoWith(r, st, call[r]) /\ (st = "announce" => call[r].op = "rename")
    <3>1. CASE FindDirect(r) \/ AnnounceDirect(r) \/ RefetchDirect(r)
      BY <3>1 DEF FindDirect, AnnounceDirect, RefetchDirect, Goto, At, Answers
    <3>2. CASE WriteName(r) \/ AnnounceName(r)
      BY <3>2 DEF WriteName, AnnounceName, Found, Goto, At, Answers
    <3>3. CASE \/ AnnounceGroup(r) \/ AnnounceRemoval(r) \/ AnnounceMember(r)
               \/ Farewell(r) \/ AnnounceLeft(r)
      BY <3>3 DEF AnnounceGroup, AnnounceRemoval, AnnounceMember, Farewell, AnnounceLeft,
                  Goto, Answers
    <3>4. CASE LoadConversation(r) \/ ReplyAdded(r)
      BY <3>4 DEF LoadConversation, ReplyAdded, Goto, At, Answers
    <3> QED
      BY <1>3, <3>1, <3>2, <3>3, <3>4
  <2>2. CASE st \in Answers
    BY <2>1, <2>2, NothingAfterAnswer
  <2>3. CASE st \notin Answers
    <3>1. /\ pc'[r] \in {"create", "reply", "announce", "insert"}
          /\ pc'[r] = "announce" => call'[r].op = "rename"
      BY <2>1, <2>3, Mine
    <3> QED
      BY <3>1, NothingToKnow, NothingToPlan
  <2> QED
    BY <2>2, <2>3
<1>4. CASE CreateDirect(r)
  <2>1. call[r] \in Frame /\ call[r].op = "createDirect"
    BY <1>4, FrameOf, StepsAndAnswers DEF CreateDirect, At
  <2>2. \A n : [call[r] EXCEPT !.conv = n].op = "createDirect"
    BY <2>1 DEF Frame
  <2>3. PICK step, f : GotoWith(r, step, f) /\ step \notin Answers /\ f.op = "createDirect"
    BY <1>4, <2>1, <2>2 DEF CreateDirect, Goto, Answers
  <2> QED
    BY <2>3, Mine, NothingToKnow, NothingToPlan
<1>5. CASE CreateGroup(r)
  <2> PICK ids : ids = call[r].ids
    OBVIOUS
  <2> DEFINE roleOf == [u \in ids \cup {a} |-> IF u = a THEN "OWNER" ELSE "MEMBER"]
  <2>1. call[r] \in Frame /\ call[r].op = "createGroup" /\ a \in Users /\ ids \subseteq Users
    BY <1>5, FrameOf, StepsAndAnswers, ConstantsAssumption DEF CreateGroup, At
  <2>2. PICK n \in Unused : /\ InsertConversation(n, "GROUP", {}, roleOf)
                            /\ GotoWith(r, "announce", [call[r] EXCEPT !.conv = n])
    BY <1>5 DEF CreateGroup
  <2> DEFINE f == [call[r] EXCEPT !.conv = n]
  <2>3. f.op = "createGroup" /\ f.conv = n /\ f.actor = a /\ f.ids = ids
    BY <2>1 DEF Frame
  <2> HIDE DEF f
  <2>4. pc'[r] = "announce" /\ call'[r] = f
    BY <2>2, Mine DEF Answers, f
  <2>5. RoleIn(n)' = [u \in Users |-> IF u \in DOMAIN roleOf THEN roleOf[u] ELSE "NONE"]
    BY <2>2, Created
  <2>6. \A u \in ids \cup {a} : IsMember(n, u)'
    <3>1. \A u \in Users : member'[n][u].role = RoleIn(n)'[u]
      BY DEF RoleIn
    <3> QED
      BY <2>1, <2>5, <3>1 DEF IsMember
  <2>7. Owed(r)' = ids \cup {a}
    BY <2>3, <2>4 DEF Owed, At
  <2>8. Knows(r)'
    BY <2>3, <2>4, <2>6, <2>7 DEF Knows, HandingOff, At
  <2> QED
    BY <2>3, <2>4, <2>8, NothingToPlan
<1>6. CASE AssertMembership(r)
  <2> PICK step : step = Verdict(call[r].op, c, a, t)
    OBVIOUS
  <2>1. /\ pc[r] = "check" /\ pc[r] \in Steps /\ GotoWith(r, step, call[r])
        /\ UNCHANGED <<conversation, member>>
        /\ call[r].op \in Operations \ Creating /\ a \in Users /\ t \in Users
    BY <1>6, StepsAndAnswers, FrameOf, ConstantsAssumption
       DEF AssertMembership, Goto, TypeOK, HandlersOK, StepsOf, Creating
  <2>2. CASE step \in Answers
    BY <2>1, <2>2, NothingAfterAnswer
  <2>3. CASE step \notin Answers
    <3>1. pc'[r] = step /\ call'[r] = call[r]
      BY <2>1, <2>3, Mine
    <3>2. \/ call[r].op # "removeMember" /\ step \in {"write", "members", "load"}
          \/ call[r].op = "removeMember" /\ step = "target"
          \/ call[r].op = "removeMember" /\ step = "successor" /\ t = a
          \/ call[r].op = "removeMember" /\ step = "delete" /\ t \notin Owners(c)
      BY <2>1, <2>3 DEF Verdict, RenameVerdict, RemoveVerdict, AddVerdict, RemoveMemberVerdict,
                        Answers, Owners, Operations, Creating
    <3>3. call[r].op = "removeMember" => call[r].succ = NoSuccessor
      BY <1>0, <2>1 DEF Plan, Removing
    <3>4. Plan(r)'
      BY <3>1, <3>2, <3>3 DEF Plan, Removing, HandingOff, At
    <3>5. CASE step # "delete"
      BY <3>1, <3>2, <3>4, <3>5, NothingToKnow
    <3>6. CASE step = "delete"
      <4>1. t \notin Owners(c)'
        BY <2>1, <3>2, <3>6 DEF Owners
      <4> QED
        BY <3>1, <3>2, <3>3, <3>4, <3>6, <4>1 DEF Knows, HandingOff, Owed, At
    <3> QED
      BY <3>5, <3>6
  <2> QED
    BY <2>2, <2>3
<1>7. CASE ListMembers(r)
  <2> DEFINE f == [call[r] EXCEPT !.ids = MemberIds(c)]
  <2>1. call[r] \in Frame /\ call[r].op = "remove"
    BY <1>7, StepsAndAnswers, FrameOf DEF ListMembers, At
  <2>2. f.op = "remove" /\ f.conv = c /\ f.ids = MemberIds(c)
    BY <2>1 DEF Frame
  <2>3. GotoWith(r, "delete", f) /\ UNCHANGED member
    BY <1>7 DEF ListMembers
  <2> HIDE DEF f
  <2>4. pc'[r] = "delete" /\ call'[r] = f
    BY <2>3, Mine DEF Answers
  <2>5. \A u \in Users : IsMember(c, u)' => u \in f.ids
    BY <2>2, <2>3 DEF MemberIds, IsMember
  <2>6. Owed(r)' = {} /\ ~HandingOff(r)'
    BY <2>2, <2>4 DEF Owed, HandingOff, At
  <2>7. Knows(r)'
    BY <2>2, <2>4, <2>5, <2>6 DEF Knows, At
  <2> QED
    BY <2>2, <2>4, <2>7, NothingToPlan
<1>8. CASE RemoveConversation(r) \/ Dissolve(r)
  <2> USE <1>8 DEF RemoveConversation, Dissolve
  <2>1. /\ c \in Convs /\ call[r].op \in {"remove", "removeMember"}
        /\ a \in Users /\ t \in Users /\ call[r].ids \subseteq Users
    BY StepsAndAnswers, ConvKnown, FrameOf, ConstantsAssumption DEF At, Creating
  <2>2. CASE ~Live(c)
    BY <2>2, NothingAfterAnswer DEF Found, Goto, Answers
  <2>3. CASE Live(c)
    <3>1. PICK step \in {"announce", "farewell"} : GotoWith(r, step, call[r])
      BY <2>3 DEF Found, Goto
    <3>2. pc'[r] = step /\ call'[r] = call[r]
      BY <3>1, Mine DEF Answers
    <3>3. DeleteConversation(c)
      BY <2>3
    <3> HIDE <1>8 DEF RemoveConversation, Dissolve
    <3>4. \A u \in Users : ~IsMember(c, u)'
      BY <2>1, <3>3 DEF DeleteConversation, IsMember, NoRow, TypeOK, TablesOK
    <3>5. Owed(r)' \subseteq Users
      BY <2>1, <3>2 DEF Owed, At
    <3>6. Knows(r)'
      BY <2>1, <3>2, <3>4, <3>5 DEF Knows, HandingOff, At
    <3> QED
      BY <3>2, <3>6, NothingToPlan
  <2> QED
    BY <2>2, <2>3
<1>9. CASE InsertMember(r)
  <2>1. c \in Convs /\ t \in Users /\ call[r].op = "addMember"
    BY <1>9, StepsAndAnswers, ConvKnown, FrameOf DEF InsertMember, At, Creating
  <2>2. CASE InsertVerdict(c, t) # "announce"
    <3>1. PICK step \in Answers : GotoWith(r, step, call[r])
      BY <1>9, <2>2 DEF InsertMember, InsertVerdict, Answers, Goto
    <3> QED
      BY <3>1, NothingAfterAnswer
  <2>3. CASE InsertVerdict(c, t) = "announce"
    <3>1. /\ member' = [member EXCEPT ![c][t] = [role |-> "MEMBER", joinedAt |-> clock]]
          /\ GotoWith(r, "announce", call[r])
      BY <1>9, <2>3 DEF InsertMember, Goto
    <3>2. pc'[r] = "announce" /\ call'[r] = call[r]
      BY <3>1, Mine DEF Answers
    <3>3. member'[c][t].role = "MEMBER"
      BY <2>1, <3>1 DEF TypeOK, TablesOK
    <3>4. IsMember(c, t)' /\ Owed(r)' = {t}
      BY <2>1, <3>2, <3>3 DEF IsMember, Owed, At
    <3>5. Knows(r)'
      BY <2>1, <3>2, <3>4 DEF Knows, HandingOff, At
    <3> QED
      BY <2>1, <3>2, <3>5, NothingToPlan
  <2> QED
    BY <2>2, <2>3
<1>10. CASE ReadTarget(r)
  <2>1. PICK step : GotoWith(r, step, call[r]) /\ (step = "delete" => t \notin Owners(c))
                    /\ step \in {"delete"} \cup Answers
    BY <1>10 DEF ReadTarget, Goto, Owners, Answers
  <2>2. CASE step \in Answers
    BY <2>1, <2>2, NothingAfterAnswer
  <2>3. CASE step = "delete"
    <3>1. pc'[r] = "delete" /\ call'[r] = call[r] /\ call[r].op = "removeMember"
      BY <1>10, <2>1, <2>3, Mine DEF ReadTarget, At, Answers
    <3>2. call[r].succ = NoSuccessor
      BY <1>0, <1>10, StepsAndAnswers DEF ReadTarget, At, Plan, Removing
    <3>3. t \notin Owners(c)'
      BY <1>10, <2>1, <2>3 DEF ReadTarget, Owners
    <3>4. Plan(r)' /\ ~HandingOff(r)' /\ Owed(r)' = {}
      BY <3>1, <3>2 DEF Plan, Removing, HandingOff, Owed, At
    <3> QED
      BY <3>1, <3>3, <3>4 DEF Knows, At
  <2> QED
    BY <2>1, <2>2, <2>3
<1>11. CASE FindSuccessor(r)
  <2>1. /\ pc[r] = "successor" /\ call[r].op = "removeMember" /\ UNCHANGED <<conversation, member>>
        /\ c \in Convs /\ call[r] \in Frame /\ t = a
    BY <1>0, <1>11, StepsAndAnswers, FrameOf, ConvKnown
       DEF FindSuccessor, At, Plan, Removing, Creating
  <2>2. CASE Successors(c, a) = {} /\ Goto(r, "dissolve")
    <3>1. MemberIds(c) \subseteq {a}
      BY <2>1, <2>2, SuccessorThere
    <3>2. pc'[r] = "dissolve" /\ call'[r] = call[r]
      BY <2>2, Mine DEF Goto, Answers
    <3>3. \A u \in Users : IsMember(c, u)' => u = a
      BY <2>1, <3>1 DEF MemberIds, IsMember
    <3>4. Knows(r)'
      BY <2>1, <3>2, <3>3 DEF Knows, HandingOff, Owed, At
    <3> QED
      BY <3>2, <3>4, NothingToPlan
  <2>3. ASSUME NEW h \in Successors(c, a), HandOff(r, h) PROVE Plan(r)' /\ Knows(r)'
    <3> DEFINE row == [user |-> h, joinedAt |-> member[c][h].joinedAt]
               f == [call[r] EXCEPT !.succ = row]
    <3>1. /\ f.op = "removeMember" /\ f.succ.user = h /\ f.conv = c
          /\ f.actor = a /\ f.target = a /\ h \in Users \ {a}
      BY <2>1, <2>3 DEF Frame, Successors, MemberIds
    <3>2. GotoWith(r, "promote", f)
      BY <2>3 DEF HandOff
    <3> HIDE DEF f, row
    <3>3. pc'[r] = "promote" /\ call'[r] = f
      BY <3>2, Mine DEF Answers
    <3>4. ASSUME NEW w \in Owners(c), w # a PROVE h \in Owners(c)
      <4>1. member[c][h] \in MemberRow /\ member[c][w].role = "OWNER" /\ w \in MemberIds(c)
        BY <2>1, <3>1, <3>4 DEF Owners, MemberIds, IsMember, TypeOK, TablesOK
      <4>2. ~Before(member[c][w], member[c][h])
        BY <2>3, <3>4, <4>1 DEF Successors
      <4>3. Rank(member[c][h].role) = 0
        BY <4>1, <4>2 DEF Before, Rank, MemberRow
      <4> QED
        BY <3>1, <4>3 DEF Rank, Owners
    <3>5. h \in Owners(c)' \/ Owners(c)' \subseteq {a}
      BY <2>1, <3>4 DEF Owners
    <3>6. Plan(r)' /\ Owed(r)' = {}
      BY <3>1, <3>3 DEF Plan, Removing, HandingOff, Owed, At
    <3> QED
      BY <3>1, <3>3, <3>5, <3>6 DEF Knows, HandingOff, At
  <2> QED
    BY <1>11, <2>2, <2>3 DEF FindSuccessor
<1>12. CASE Promote(r)
  <2>1. pc[r] = "promote" /\ call[r].op = "removeMember" /\ c \in Convs
        /\ t = a /\ s \in Users \ {a}
    BY <1>0, <1>12, StepsAndAnswers, ConvKnown DEF Promote, At, Plan, Removing, Creating
  <2>2. CASE ~SuccessorRowLeft(r)
    BY <1>12, <2>2, NothingAfterAnswer DEF Promote, Goto, Answers
  <2>3. CASE SuccessorRowLeft(r)
    <3>1. /\ member' = [member EXCEPT ![c][s].role = "OWNER"]
          /\ GotoWith(r, "delete", call[r])
      BY <1>12, <2>3 DEF Promote, Goto
    <3>2. pc'[r] = "delete" /\ call'[r] = call[r]
      BY <3>1, Mine DEF Answers
    <3>3. member[c] \in [Users -> MemberRow] /\ member[c][s] \in MemberRow
      BY <2>1 DEF TypeOK, TablesOK
    <3>4. s \in Owners(c)'
      BY <2>1, <3>1, <3>3 DEF TypeOK, TablesOK, MemberRow, Owners
    <3>5. HandingOff(r)'
      BY <2>1, <3>2, ConstantsAssumption DEF HandingOff, At, NoSuccessor
    <3>6. Plan(r)' /\ Owed(r)' = {}
      BY <2>1, <3>2 DEF Plan, Removing, HandingOff, Owed, At
    <3> QED
      BY <2>1, <3>2, <3>4, <3>5, <3>6 DEF Knows, At
  <2> QED
    BY <2>2, <2>3
<1>13. CASE DeleteMember(r)
  <2>1. pc[r] = "delete" /\ call[r].op = "removeMember" /\ c \in Convs /\ t \in Users
    BY <1>13, StepsAndAnswers, ConvKnown, FrameOf DEF DeleteMember, At, Creating
  <2>2. CASE ~IsMember(c, t)
    BY <1>13, <2>2, NothingAfterAnswer DEF DeleteMember, Goto, Answers
  <2>3. CASE IsMember(c, t)
    <3>1. member' = [member EXCEPT ![c][t] = NoRow] /\ GotoWith(r, "announce", call[r])
      BY <1>13, <2>3 DEF DeleteMember, Goto
    <3>2. pc'[r] = "announce" /\ call'[r] = call[r]
      BY <3>1, Mine DEF Answers
    <3>3. ~IsMember(c, t)'
      BY <2>1, <3>1 DEF IsMember, NoRow, TypeOK, TablesOK
    <3>4. Owed(r)' = {t}
      BY <2>1, <3>2 DEF Owed, At
    <3>5. Knows(r)'
      BY <2>1, <3>2, <3>3, <3>4 DEF Knows, HandingOff, At
    <3> QED
      BY <3>2, <3>5, NothingToPlan
  <2> QED
    BY <2>2, <2>3
<1> QED
  BY <1>1, <1>2, <1>3, <1>4, <1>5, <1>6, <1>7, <1>8, <1>9, <1>10, <1>11, <1>12, <1>13
     DEF Handle

\* Nothing is known before anybody asked.
LEMMA KnowsInit == HInit => KnowsInv
BY StepsAndAnswers DEF HInit, Init, KnowsInv, Plan, Knows, Removing, HandingOff, Owed, At

\* The steps of HSpec are steps of Spec, with their traces.
LEMMA HStep ==
    ASSUME [HNext]_hvars
    PROVE  /\ [Next]_vars
           /\ \/ UNCHANGED hvars
              \/ \E r \in Reqs : (Receive(r) \/ Handle(r) \/ Abort(r)) /\ Track(r)
BY DEF HNext, Next, AllAnswered, vars, hvars, history

\* What handlers know is inductive.
LEMMA KnowsStep == TypeOK /\ TablesInv /\ KnowsInv /\ [HNext]_hvars => KnowsInv'
<1> SUFFICES ASSUME TypeOK, TablesInv, KnowsInv, [HNext]_hvars PROVE KnowsInv'
  OBVIOUS
<1>1. CASE UNCHANGED hvars
  BY <1>1 DEF hvars, KnowsInv, Plan, Knows, Removing, HandingOff, Owed, At, IsMember, Owners
<1>2. ASSUME NEW r \in Reqs, Receive(r) \/ Handle(r) \/ Abort(r), Track(r) PROVE KnowsInv'
  <2>1. PICK step, f : GotoWith(r, step, f)
    BY <1>2, OneHandler
  <2>2. \A q \in Reqs : q # r => Plan(q)' /\ Knows(q)'
    BY <1>2, <2>1, OthersKnow
  <2>3. Plan(r)' /\ Knows(r)'
    BY <1>2, LearnsByItsStep
  <2> QED
    BY <2>2, <2>3 DEF KnowsInv
<1> QED
  BY <1>1, <1>2, HStep

\* The invariant that the theorems below rest on.
THEOREM HandlersKnow == HSpec => [](TypeOK /\ TablesInv /\ KnowsInv)
<1>1. HInit => TypeOK /\ TablesInv /\ KnowsInv
  BY InitTyped, TablesInit, KnowsInit DEF HInit
<1>2. TypeOK /\ TablesInv /\ KnowsInv /\ [HNext]_hvars => (TypeOK /\ TablesInv /\ KnowsInv)'
  BY HStep, StepTyped, TablesStep, KnowsStep
<1> QED
  BY <1>1, <1>2, PTL DEF HSpec

\* A kick deletes no owner's row, unless its target became one after the kick
\* had looked at his role.
THEOREM OwnersAreNotKicked == HSpec => OwnerNeverKicked
<1>1. TypeOK /\ TablesInv /\ KnowsInv => \A r \in Reqs :
         /\ At(r, "removeMember", "delete") /\ pc'[r] = "announce"
         /\ call[r].actor # call[r].target
         /\ call[r].target \in Owners(call[r].conv)
         => call[r].target \in stale[r]
  BY DEF KnowsInv, Plan, Knows
<1> QED
  BY <1>1, HandlersKnow, PTL DEF OwnerNeverKicked

\* A leave dissolves a group of nobody but the leaver and of those who came in
\* after it found that he was the last.
THEOREM LastMemberDissolves == HSpec => DissolvesOnlyForLastMember
<1>1. TypeOK /\ TablesInv /\ KnowsInv => \A r \in Reqs :
         At(r, "removeMember", "dissolve") /\ pc'[r] = "farewell"
         => MemberIds(call[r].conv) \subseteq {call[r].actor} \cup stale[r]
  BY DEF KnowsInv, Knows, MemberIds
<1> QED
  BY <1>1, HandlersKnow, PTL DEF DissolvesOnlyForLastMember

-----------------------------------------------------------------------------
(* Who owns a group.                                                       *)

OneOf(S) == \E w \in Users : S = {w}

\* Every group that is live after the step had these owners before, or is new
\* and has one.
SameOwners ==
    \A c \in Convs : Live(c)' /\ IsGroup(c)' =>
        \/ Live(c) /\ IsGroup(c) /\ Owners(c)' = Owners(c)
        \/ conversation[c].status = "unused" /\ OneOf(Owners(c)')

\* Only Promote and DeleteMember change who owns a group that is there.
LEMMA OwnersMoveByLeaves ==
    ASSUME TypeOK, TablesInv, NEW r \in Reqs, Receive(r) \/ Handle(r) \/ Abort(r),
           ~Promote(r), ~DeleteMember(r)
    PROVE  SameOwners
<1> USE DEF db, At
<1>1. CASE UNCHANGED <<conversation, member>>
  BY <1>1 DEF SameOwners, Live, IsGroup, Owners
<1>3. ASSUME NEW c \in Convs,
             \A d \in Convs : d # c => conversation'[d] = conversation[d] /\ member'[d] = member[d],
             Live(c)' /\ IsGroup(c)' => \/ Live(c) /\ IsGroup(c) /\ Owners(c)' = Owners(c)
                                        \/ conversation[c].status = "unused" /\ OneOf(Owners(c)')
      PROVE  SameOwners
  BY <1>3 DEF SameOwners, Live, IsGroup, Owners
<1>4. CASE CreateDirect(r)
  <2>1. CASE UNCHANGED db
    BY <1>1, <2>1
  <2>2. ASSUME NEW c \in Unused, NEW key, NEW roleOf, InsertConversation(c, "DIRECT", key, roleOf)
        PROVE  SameOwners
    <3>1. c \in Convs /\ conversation[c].status = "unused"
          /\ \A d \in Convs : d # c => conversation'[d] = conversation[d] /\ member'[d] = member[d]
      BY <2>2, Created DEF Unused
    <3>2. conversation'[c].type = "DIRECT"
      BY <2>2, <3>1 DEF InsertConversation, TypeOK, TablesOK
    <3> QED
      BY <1>3, <3>1, <3>2 DEF IsGroup
  <2> QED
    BY <1>4, <2>1, <2>2 DEF CreateDirect
<1>5. CASE CreateGroup(r)
  <2> PICK o, roleOf : /\ o = call[r].actor
                       /\ roleOf = [u \in call[r].ids \cup {o} |-> IF u = o THEN "OWNER" ELSE "MEMBER"]
    OBVIOUS
  <2>1. o \in Users /\ DOMAIN roleOf = call[r].ids \cup {o}
        /\ \A u \in DOMAIN roleOf : roleOf[u] = IF u = o THEN "OWNER" ELSE "MEMBER"
    BY <1>5, StepsAndAnswers, FrameOf, ConstantsAssumption DEF CreateGroup
  <2>2. PICK c \in Unused : InsertConversation(c, "GROUP", {}, roleOf)
    BY <1>5 DEF CreateGroup
  <2>3. /\ c \in Convs /\ conversation[c].status = "unused"
        /\ RoleIn(c)' = [u \in Users |-> IF u \in DOMAIN roleOf THEN roleOf[u] ELSE "NONE"]
        /\ \A d \in Convs : d # c => conversation'[d] = conversation[d] /\ member'[d] = member[d]
    BY <2>2, Created DEF Unused
  <2>4. \A u \in Users : member'[c][u].role = "OWNER" <=> u = o
    <3>1. \A u \in Users : member'[c][u].role = RoleIn(c)'[u]
      BY DEF RoleIn
    <3> QED
      BY <2>1, <2>3, <3>1
  <2>5. Owners(c)' = {o}
    BY <2>1, <2>4 DEF Owners
  <2> QED
    BY <1>3, <2>1, <2>3, <2>5 DEF OneOf
<1>6. CASE WriteName(r) \/ RemoveConversation(r) \/ Dissolve(r) \/ InsertMember(r)
  <2> PICK c, t : c = call[r].conv /\ t = call[r].target
    OBVIOUS
  <2>1. /\ c \in Convs /\ t \in Users
        /\ conversation[c] \in ConversationRow /\ member[c] \in [Users -> MemberRow]
    BY <1>6, GroupOf, FrameOf, StepsAndAnswers
       DEF WriteName, RemoveConversation, Dissolve, InsertMember, Creating
  <2>2. CASE UNCHANGED <<conversation, member>>
    BY <1>1, <2>2
  <2>3. CASE WriteName(r) /\ Live(c)
    <3>1. /\ UNCHANGED member /\ \A d \in Convs : d # c => conversation'[d] = conversation[d]
          /\ conversation'[c].type = conversation[c].type
      BY <2>1, <2>3 DEF WriteName, ConversationRow, TypeOK, TablesOK
    <3> QED
      BY <1>3, <2>1, <2>3, <3>1 DEF Owners, IsGroup
  <2>4. CASE DeleteConversation(c)
    <3>1. /\ conversation'[c].status = "deleted"
          /\ \A d \in Convs : d # c => conversation'[d] = conversation[d] /\ member'[d] = member[d]
      BY <2>1, <2>4 DEF DeleteConversation, ConversationRow, TypeOK, TablesOK
    <3> QED
      BY <1>3, <2>1, <3>1 DEF Live
  <2>5. CASE InsertMember(r) /\ ~UNCHANGED member
    <3>1. /\ member[c][t].role = "NONE" /\ UNCHANGED conversation
          /\ member' = [member EXCEPT ![c][t] = [role |-> "MEMBER", joinedAt |-> clock]]
      BY <2>5 DEF InsertMember, InsertVerdict, IsMember
    <3>2. /\ \A u \in Users : member'[c][u].role = "OWNER" <=> member[c][u].role = "OWNER"
          /\ \A d \in Convs : d # c => member'[d] = member[d]
      BY <2>1, <3>1 DEF TypeOK, TablesOK
    <3>3. Owners(c)' = Owners(c)
      BY <3>2 DEF Owners
    <3> QED
      BY <1>3, <2>1, <3>1, <3>2, <3>3 DEF Live, IsGroup
  <2> QED
    BY <1>6, <2>2, <2>3, <2>4, <2>5 DEF WriteName, RemoveConversation, Dissolve, InsertMember
<1>7. CASE ~(CreateDirect(r) \/ CreateGroup(r) \/ WriteName(r) \/ RemoveConversation(r)
               \/ Dissolve(r) \/ InsertMember(r))
  <2>1. UNCHANGED <<conversation, member>>
    BY SMTT(30), <1>7
       DEF Receive, Abort, Handle, FindDirect, AnnounceDirect, RefetchDirect, AnnounceGroup,
           AssertMembership, AnnounceName, ListMembers, AnnounceRemoval, LoadConversation,
           AnnounceMember, ReplyAdded, ReadTarget, FindSuccessor, Farewell, AnnounceLeft
  <2> QED
    BY <1>1, <2>1
<1> QED
  BY <1>4, <1>5, <1>6, <1>7


\* The owners of a group nobody acted on blindly: there is one, and two only
\* from the promotion of a successor to the end of the leaver's row.
HandOver(r, c, u, v) ==
    HandingOff(r) /\ call[r].conv = c /\ {call[r].target, call[r].succ.user} = {u, v}
Owned(c) ==
    /\ Owners(c) # {}
    /\ \A u, v \in Owners(c) : u # v => \E r \in Reqs : HandOver(r, c, u, v)
OwnedInv == \A c \in LiveGroups : Clean(c) => Owned(c)

\* What a step leaves crossed.
LEMMA Crosses ==
    ASSUME NEW r \in Reqs, Track(r), NEW c
    PROVE  /\ Clean(c)' => Clean(c)
           /\ /\ Clean(c)' /\ call[r].conv = c /\ pc'[r] \notin {"aborted", "notFound"}
              => \A u \in Users : u \in ReliesOn(r) => u \notin stale[r]
           /\ /\ Clean(c)' /\ call[r].conv = c /\ pc'[r] = "aborted"
              => \A u \in Users : u \notin LeavesOpen(r)
BY DEF Track, Clean

\* A hand-over ends only with the delete, or with the death, of its leaver.
LEMMA HandOverGoesOn ==
    ASSUME TypeOK, NEW r \in Reqs, Receive(r) \/ Handle(r) \/ Abort(r),
           NEW q \in Reqs, NEW c, NEW u, NEW v, HandOver(q, c, u, v),
           q = r => ~DeleteMember(r) /\ ~Abort(r)
    PROVE  HandOver(q, c, u, v)'
<1>1. CASE q # r
  BY <1>1, OneHandler, Others DEF HandOver, HandingOff, At
<1>2. CASE q = r
  <2>1. pc[r] = "delete" /\ call[r].op = "removeMember" /\ ~DeleteMember(r) /\ ~Abort(r)
    BY <1>2 DEF HandOver, HandingOff, At
  <2>2. FALSE
    BY SMTT(30), <2>1
       DEF At, Receive, Handle, FindDirect, CreateDirect, AnnounceDirect, RefetchDirect,
           CreateGroup, AnnounceGroup, AssertMembership, WriteName, AnnounceName, ListMembers,
           RemoveConversation, AnnounceRemoval, LoadConversation, InsertMember, AnnounceMember,
           ReplyAdded, ReadTarget, FindSuccessor, Dissolve, Farewell, Promote, AnnounceLeft
  <2> QED
    BY <2>2
<1> QED
  BY <1>1, <1>2

\* A live group with the owners it had, or with its first.
LEMMA OwnedAsBefore ==
    ASSUME TypeOK, OwnedInv, NEW r \in Reqs, Receive(r) \/ Handle(r) \/ Abort(r), Track(r),
           ~DeleteMember(r), ~Abort(r), NEW c \in LiveGroups', Clean(c)',
           \/ Live(c) /\ IsGroup(c) /\ Owners(c)' = Owners(c)
           \/ OneOf(Owners(c)')
    PROVE  Owned(c)'
<1>1. CASE OneOf(Owners(c)')
  BY <1>1 DEF OneOf, Owned
<1>2. CASE Live(c) /\ IsGroup(c) /\ Owners(c)' = Owners(c)
  <2>1. Owned(c)
    BY <1>2, Crosses DEF OwnedInv, LiveGroups
  <2>2. ASSUME NEW u \in Owners(c)', NEW v \in Owners(c)', u # v
        PROVE  \E q \in Reqs : HandOver(q, c, u, v)'
    <3>1. PICK q \in Reqs : HandOver(q, c, u, v)
      BY <1>2, <2>1, <2>2 DEF Owned
    <3> QED
      BY <3>1, HandOverGoesOn
  <2> QED
    BY <1>2, <2>1, <2>2 DEF Owned
<1> QED
  BY <1>1, <1>2

\* ... when a handler dies.
LEMMA OwnedAfterDeath ==
    ASSUME TypeOK, KnowsInv, OwnedInv, NEW r \in Reqs, Abort(r), Track(r)
    PROVE  OwnedInv'
<1> SUFFICES ASSUME NEW c \in LiveGroups', Clean(c)' PROVE Owned(c)'
  BY DEF OwnedInv
<1>1. pc'[r] = "aborted" /\ UNCHANGED <<conversation, member>> /\ GotoWith(r, "aborted", call[r])
  BY Mine DEF Abort, Goto, db
<1>2. Owners(c)' = Owners(c) /\ c \in LiveGroups
  BY <1>1 DEF Owners, LiveGroups, Live, IsGroup
<1>3. Owned(c)
  BY <1>2, Crosses DEF OwnedInv
<1>4. ASSUME NEW u \in Owners(c)', NEW v \in Owners(c)', u # v
      PROVE  \E q \in Reqs : HandOver(q, c, u, v)'
  <2>1. PICK q \in Reqs : HandOver(q, c, u, v)
    BY <1>2, <1>3, <1>4 DEF Owned
  <2>2. CASE q = r
    <3>1. call[r].target = u \/ call[r].target = v
      BY <2>1, <2>2 DEF HandOver
    <3>2. call[r].target \in Users /\ call[r].target \in LeavesOpen(r)
      BY <1>2, <2>1, <2>2, <3>1 DEF HandOver, LeavesOpen, Owners
    <3> QED
      BY <1>1, <2>1, <2>2, <3>2, Crosses DEF HandOver
  <2>3. CASE q # r
    BY <1>1, <2>1, <2>3, Others DEF HandOver, HandingOff, At
  <2> QED
    BY <2>2, <2>3
<1> QED
  BY <1>2, <1>3, <1>4 DEF Owned

\* ... when a leaver promotes his successor.
LEMMA OwnedAfterPromotion ==
    ASSUME TypeOK, TablesInv, KnowsInv, OwnedInv, NEW r \in Reqs, Promote(r), Track(r),
           SuccessorRowLeft(r), NEW c, c = call[r].conv, c \in LiveGroups', Clean(c)'
    PROVE  Owned(c)'
<1> PICK a, s : a = call[r].actor /\ s = call[r].succ.user
  OBVIOUS
<1>1. /\ pc[r] = "promote" /\ call[r].op = "removeMember" /\ c \in Convs
      /\ call[r].target = a /\ s \in Users \ {a} /\ a \in Users
  BY StepsAndAnswers, ConvKnown, FrameOf, ConstantsAssumption
     DEF Promote, At, KnowsInv, Plan, Removing, Creating
<1>2. /\ member' = [member EXCEPT ![c][s].role = "OWNER"] /\ UNCHANGED conversation
      /\ GotoWith(r, "delete", call[r])
  BY DEF Promote, Goto
<1>3. pc'[r] = "delete" /\ call'[r] = call[r]
  BY <1>2, Mine DEF Answers
<1>4. Owners(c)' = Owners(c) \cup {s}
  <2>1. member[c] \in [Users -> MemberRow] /\ member[c][s] \in MemberRow
    BY <1>1 DEF TypeOK, TablesOK
  <2>2. \A u \in Users : member'[c][u].role = "OWNER" <=> member[c][u].role = "OWNER" \/ u = s
    BY <1>1, <1>2, <2>1 DEF TypeOK, TablesOK, MemberRow
  <2> QED
    BY <1>1, <2>2 DEF Owners
<1>5. Owned(c)
  BY <1>2, Crosses DEF OwnedInv, LiveGroups, Live, IsGroup
<1>6. a \notin stale[r] /\ s \notin stale[r] /\ \A u \in Owners(c) : u \notin stale[r]
  <2>1. ReliesOn(r) = {a, s} \cup Owners(c)
    BY <1>1 DEF ReliesOn, At
  <2>2. \A u \in Users : u \in ReliesOn(r) => u \notin stale[r]
    BY <1>3, Crosses
  <2> QED
    BY <1>1, <2>1, <2>2 DEF Owners
<1>7. s \in Owners(c) \/ Owners(c) \subseteq {a}
  BY <1>1, <1>6 DEF KnowsInv, Knows, At
<1>8. ASSUME NEW u \in Owners(c)', NEW v \in Owners(c)', u # v
      PROVE  \E q \in Reqs : HandOver(q, c, u, v)'
  <2>1. CASE s \in Owners(c)
    <3>1. PICK q \in Reqs : HandOver(q, c, u, v)
      BY <1>4, <1>5, <1>8, <2>1 DEF Owned
    <3>2. ~DeleteMember(r) /\ ~Abort(r)
      BY <1>1, <1>3 DEF DeleteMember, Abort, Goto, GotoWith, At, TypeOK, HandlersOK
    <3> QED
      BY <3>1, <3>2, HandOverGoesOn DEF Handle
  <2>2. CASE Owners(c) \subseteq {a}
    <3>1. {u, v} = {a, s}
      BY <1>4, <1>8, <2>2
    <3>2. HandingOff(r)'
      BY <1>1, <1>3, ConstantsAssumption DEF HandingOff, At, NoSuccessor
    <3>3. HandOver(r, c, u, v)'
      BY <1>1, <1>3, <3>1, <3>2 DEF HandOver
    <3> QED
      BY <3>3
  <2> QED
    BY <1>7, <2>1, <2>2
<1> QED
  BY <1>4, <1>8 DEF Owned

\* ... when a row is deleted.
LEMMA OwnedAfterDelete ==
    ASSUME TypeOK, TablesInv, KnowsInv, OwnedInv, NEW r \in Reqs, DeleteMember(r), Track(r),
           NEW c, c = call[r].conv, c \in LiveGroups', Clean(c)'
    PROVE  Owned(c)'
<1> PICK t, s : t = call[r].target /\ s = call[r].succ.user
  OBVIOUS
<1>1. pc[r] = "delete" /\ call[r].op = "removeMember" /\ c \in Convs /\ t \in Users
      /\ Plan(r) /\ Knows(r)
  BY StepsAndAnswers, ConvKnown, FrameOf DEF DeleteMember, At, Creating, KnowsInv
<1>2. /\ member' = [member EXCEPT ![c][t] = NoRow] /\ UNCHANGED conversation
      /\ GotoWith(r, IF IsMember(c, t) THEN "announce" ELSE "notFound", call[r])
  BY DEF DeleteMember, Goto
<1>3. Owners(c)' = Owners(c) \ {t}
  <2>1. \A u \in Users : member'[c][u].role = "OWNER" <=> member[c][u].role = "OWNER" /\ u # t
    BY <1>1, <1>2 DEF TypeOK, TablesOK, NoRow
  <2> QED
    BY <2>1 DEF Owners
<1>4. Owned(c)
  BY <1>2, Crosses DEF OwnedInv, LiveGroups, Live, IsGroup
<1>5. Owners(c)' # {}
  <2>1. CASE t \notin Owners(c)
    BY <1>3, <1>4, <2>1 DEF Owned
  <2>2. CASE t \in Owners(c)
    <3>1. pc'[r] = "announce"
      BY <1>2, <2>2, Mine DEF Owners, IsMember
    <3>2. \A u \in Users : u \in {t, s} => u \notin stale[r]
      <4>1. ReliesOn(r) = {t, s}
        BY <1>1 DEF ReliesOn, At
      <4> QED
        BY <3>1, <4>1, Crosses
    <3>3. HandingOff(r)
      BY <1>1, <2>2, <3>2 DEF Knows, At
    <3>4. s \in Users /\ s # t /\ s \in Owners(c)
      BY <1>1, <3>2, <3>3 DEF Knows, Plan
    <3> QED
      BY <1>3, <3>4
  <2> QED
    BY <2>1, <2>2
<1>6. ASSUME NEW u \in Owners(c)', NEW v \in Owners(c)', u # v
      PROVE  \E q \in Reqs : HandOver(q, c, u, v)'
  <2>1. PICK q \in Reqs : HandOver(q, c, u, v)
    BY <1>3, <1>4, <1>6 DEF Owned
  <2>2. q # r
    BY <1>3, <2>1 DEF HandOver
  <2> QED
    BY <2>1, <2>2, HandOverGoesOn DEF Handle
<1> QED
  BY <1>5, <1>6 DEF Owned

\* The invariant of the owners is inductive, whatever overlaps and dies.
LEMMA OwnedStep == TypeOK /\ TablesInv /\ KnowsInv /\ OwnedInv /\ [HNext]_hvars => OwnedInv'
<1> SUFFICES ASSUME TypeOK, TablesInv, KnowsInv, OwnedInv, [HNext]_hvars PROVE OwnedInv'
  OBVIOUS
<1>1. CASE UNCHANGED hvars
  <2>1. LiveGroups' = LiveGroups /\ \A c : Owners(c)' = Owners(c) /\ (Clean(c)' <=> Clean(c))
    BY <1>1 DEF hvars, Owners, LiveGroups, Live, IsGroup, Clean
  <2>2. \A r, c, u, v : HandOver(r, c, u, v) => HandOver(r, c, u, v)'
    BY <1>1 DEF hvars, HandOver, HandingOff, At
  <2>3. \A c : Owned(c) => Owned(c)'
    BY <2>1, <2>2 DEF Owned
  <2> QED
    BY <2>1, <2>3 DEF OwnedInv
<1>2. ASSUME NEW r \in Reqs, Receive(r) \/ Handle(r) \/ Abort(r), Track(r) PROVE OwnedInv'
  <2>1. CASE Abort(r)
    BY <1>2, <2>1, OwnedAfterDeath
  <2>2. CASE ~Abort(r) /\ ~Promote(r) /\ ~DeleteMember(r)
    <3>1. SameOwners
      BY <1>2, <2>2, OwnersMoveByLeaves
    <3> SUFFICES ASSUME NEW c \in LiveGroups', Clean(c)' PROVE Owned(c)'
      BY DEF OwnedInv
    <3>2. \/ Live(c) /\ IsGroup(c) /\ Owners(c)' = Owners(c)
          \/ OneOf(Owners(c)')
      BY <3>1 DEF SameOwners, LiveGroups
    <3> QED
      BY <1>2, <2>2, <3>2, OwnedAsBefore
  <2>3. CASE ~Abort(r) /\ (Promote(r) \/ DeleteMember(r))
    <3> SUFFICES ASSUME NEW c \in LiveGroups', Clean(c)' PROVE Owned(c)'
      BY DEF OwnedInv
    <3> PICK d : d = call[r].conv
      OBVIOUS
    <3>1. /\ UNCHANGED conversation /\ d \in Convs
          /\ \A e \in Convs : e # d => member'[e] = member[e]
      BY <2>3, StepsAndAnswers, ConvKnown
         DEF Promote, DeleteMember, At, Creating, TypeOK, TablesOK
    <3>2. c \in LiveGroups /\ c \in Convs /\ (Owned(c) \/ ~Clean(c)) /\ Clean(c)
      BY <1>2, <3>1, Crosses DEF LiveGroups, Live, IsGroup, OwnedInv
    <3>3. CASE c # d
      <4>1. Owners(c)' = Owners(c)
        BY <3>1, <3>2, <3>3 DEF Owners
      <4>2. ASSUME NEW u \in Owners(c)', NEW v \in Owners(c)', u # v
            PROVE  \E q \in Reqs : HandOver(q, c, u, v)'
        <5>1. PICK q \in Reqs : HandOver(q, c, u, v)
          BY <3>2, <4>1, <4>2 DEF Owned
        <5>2. q # r
          BY <3>3, <5>1 DEF HandOver
        <5> QED
          BY <1>2, <5>1, <5>2, HandOverGoesOn
      <4> QED
        BY <3>2, <4>1, <4>2 DEF Owned
    <3>4. CASE c = d /\ Promote(r) /\ SuccessorRowLeft(r)
      BY <1>2, <3>4, OwnedAfterPromotion
    <3>5. CASE c = d /\ Promote(r) /\ ~SuccessorRowLeft(r)
      <4>1. UNCHANGED member /\ ~DeleteMember(r)
        BY <3>5 DEF Promote, DeleteMember, At
      <4>2. Live(c) /\ IsGroup(c) /\ Owners(c)' = Owners(c)
        BY <3>2, <4>1 DEF Owners, LiveGroups
      <4> QED
        BY <1>2, <2>3, <4>1, <4>2, OwnedAsBefore
    <3>6. CASE c = d /\ DeleteMember(r)
      BY <1>2, <3>6, OwnedAfterDelete
    <3> QED
      BY <2>3, <3>3, <3>4, <3>5, <3>6
  <2> QED
    BY <2>1, <2>2, <2>3
<1> QED
  BY <1>1, <1>2, HStep

\* "Leaving owners must hand off or the group becomes unmanageable": a group
\* always has an owner, and exactly one when nobody is halfway through a
\* hand-off, whatever overlaps and dies, unless a handler acted on a row of it
\* that had changed behind its back, or died halfway through a hand-off.
THEOREM OwnershipMoves == HSpec => []OneOwner
<1>1. HInit => OwnedInv
  BY DEF HInit, Init, OwnedInv, LiveGroups, Live
<1>2. TypeOK /\ OwnedInv => OneOwner
  <2> SUFFICES ASSUME OwnedInv, NEW c \in LiveGroups, Clean(c)
               PROVE  /\ Owners(c) # {}
                      /\ \/ \E r \in Reqs : HandingOff(r) /\ call[r].conv = c
                         \/ \E u \in Users : Owners(c) = {u}
    BY DEF OneOwner
  <2>1. Owned(c)
    BY DEF OwnedInv
  <2>2. PICK u \in Owners(c) : u \in Users
    BY <2>1 DEF Owned, Owners
  <2>3. CASE Owners(c) = {u}
    BY <2>2, <2>3
  <2>4. CASE Owners(c) # {u}
    <3>1. PICK v \in Owners(c) : u # v
      BY <2>2, <2>4
    <3> QED
      BY <2>1, <2>2, <3>1 DEF Owned, HandOver
  <2> QED
    BY <2>3, <2>4
<1>3. TypeOK /\ TablesInv /\ KnowsInv /\ OwnedInv /\ [HNext]_hvars => OwnedInv'
  BY OwnedStep
<1> QED
  BY <1>1, <1>2, <1>3, HandlersKnow, PTL DEF HSpec

-----------------------------------------------------------------------------
(* What members have been told.                                            *)

Agrees(c, u) == view[c][u] = "member" <=> IsMember(c, u)
Owes(r, c, u) == call[r] # NoFrame /\ call[r].conv = c /\ u \in Owed(r)

\* A step of r that leaves everybody told whom r owed an event or who was right
\* about the table: the others were crossed, or are owed an event by others.
LEMMA ToldStep ==
    ASSUME TypeOK, ToldTheTruth, NEW r \in Reqs, NEW step, NEW f, GotoWith(r, step, f),
           Track(r), Directs \subseteq Directs',
           \A c \in Convs \ Directs', u \in Users :
               Agrees(c, u) \/ Owes(r, c, u) =>
                   <<c, u>> \in crossed' \/ Owes(r, c, u)' \/ Agrees(c, u)'
    PROVE  ToldTheTruth'
<1> SUFFICES ASSUME NEW c \in Convs \ Directs', NEW u \in Users
             PROVE  \/ <<c, u>> \in crossed'
                    \/ \E q \in Reqs : Owes(q, c, u)'
                    \/ Agrees(c, u)'
  BY DEF ToldTheTruth, Owes, Agrees
<1>1. CASE <<c, u>> \in crossed
  BY <1>1 DEF Track
<1>2. ASSUME NEW q \in Reqs, q # r, Owes(q, c, u) PROVE Owes(q, c, u)'
  BY <1>2, Others DEF Owes, Owed, At
<1>3. \/ <<c, u>> \in crossed
      \/ \E q \in Reqs : Owes(q, c, u)
      \/ Agrees(c, u)
  BY DEF ToldTheTruth, Owes, Agrees
<1> QED
  BY <1>1, <1>2, <1>3

\* ... that writes no member and tells nobody, of a handler that owed nothing.
LEMMA ToldStill ==
    ASSUME TypeOK, ToldTheTruth, NEW r \in Reqs, NEW step, NEW f, GotoWith(r, step, f),
           Track(r), Owed(r) = {}, Directs \subseteq Directs', UNCHANGED view,
           \A c \in Convs, u \in Users : IsMember(c, u)' <=> IsMember(c, u)
    PROVE  ToldTheTruth'
<1>1. \A c, u : ~Owes(r, c, u)
  BY DEF Owes
<1>2. \A c \in Convs, u \in Users : Agrees(c, u)' <=> Agrees(c, u)
  BY DEF Agrees
<1> QED
  BY <1>1, <1>2, ToldStep

\* ... that writes rows of one conversation: who was wrong before stays owed.
LEMMA ToldAfterWrite ==
    ASSUME TypeOK, ToldTheTruth, NEW r \in Reqs, NEW step, NEW f, GotoWith(r, step, f),
           Track(r), Owed(r) = {}, Directs \subseteq Directs', UNCHANGED view, NEW c,
           \A d \in Convs : d # c => member'[d] = member[d],
           c \notin Directs' => \A u \in Users : Agrees(c, u) =>
               <<c, u>> \in crossed' \/ Owes(r, c, u)' \/ Agrees(c, u)'
    PROVE  ToldTheTruth'
<1>1. \A d, u : ~Owes(r, d, u)
  BY DEF Owes
<1>2. \A d \in Convs, u \in Users : d # c => (Agrees(d, u)' <=> Agrees(d, u))
  BY DEF Agrees, IsMember
<1> QED
  BY <1>1, <1>2, ToldStep

\* ... that tells those it owes an event what it knows of them.
LEMMA ToldByEvent ==
    ASSUME TypeOK, KnowsInv, ToldTheTruth, NEW r \in Reqs, pc[r] \in {"announce", "farewell"},
           NEW step \in {"ok", "reply"}, Goto(r, step), Track(r),
           UNCHANGED <<conversation, member>>, call[r].conv \in Convs,
           NEW word \in {"member", "gone"}, Tell(call[r].conv, Owed(r), word),
           word = "member" <=> call[r].op \in {"createGroup", "addMember"}
    PROVE  ToldTheTruth'
<1> PICK c : c = call[r].conv
  OBVIOUS
<1>1. GotoWith(r, step, call[r]) /\ pc'[r] = step
  BY Mine DEF Goto
<1>2. \A d \in Convs, u \in Users :
         view'[d][u] = IF d = c /\ u \in Owed(r) THEN word ELSE view[d][u]
  BY DEF Tell, TypeOK, TablesOK
<1>3. Directs' = Directs /\ \A d, u : IsMember(d, u)' <=> IsMember(d, u)
  BY DEF Directs, IsGroup, IsMember
<1>4. ASSUME NEW u \in Users, u \in Owed(r) PROVE <<c, u>> \in crossed' \/ Agrees(c, u)'
  <2>1. CASE u \in stale[r]
    <3>1. ReliesOn(r) = Owed(r)
      BY StepsAndAnswers DEF ReliesOn, At
    <3> QED
      BY <1>1, <1>4, <2>1, <3>1 DEF Track
  <2>2. CASE u \notin stale[r]
    <3>1. IsMember(c, u) <=> word = "member"
      BY <1>4, <2>2 DEF KnowsInv, Knows
    <3> QED
      BY <1>2, <1>3, <1>4, <3>1 DEF Agrees
  <2> QED
    BY <2>1, <2>2
<1>5. ASSUME NEW d \in Convs, NEW u \in Users, ~(d = c /\ u \in Owed(r)), Agrees(d, u)
      PROVE  Agrees(d, u)'
  BY <1>2, <1>3, <1>5 DEF Agrees
<1>6. \A d \in Convs \ Directs', u \in Users :
         Agrees(d, u) \/ Owes(r, d, u) =>
             <<d, u>> \in crossed' \/ Owes(r, d, u)' \/ Agrees(d, u)'
  BY <1>4, <1>5 DEF Owes
<1> QED
  BY <1>1, <1>3, <1>6, ToldStep

\* A step that touches neither the tables nor what people were told.
LEMMA ToldQuietly ==
    ASSUME TypeOK, ToldTheTruth, NEW r \in Reqs, NEW step, NEW f, GotoWith(r, step, f),
           Track(r), Owed(r) = {}, UNCHANGED <<conversation, member, view>>
    PROVE  ToldTheTruth'
<1>1. Directs' = Directs /\ \A c, u : IsMember(c, u)' <=> IsMember(c, u)
  BY DEF Directs, IsGroup, IsMember
<1> QED
  BY <1>1, ToldStill

\* Deleting the conversation: every member is told next, or is crossed.
LEMMA ToldAfterRemoval ==
    ASSUME TypeOK, TablesInv, KnowsInv, ToldTheTruth, NEW r \in Reqs, Track(r),
           RemoveConversation(r) \/ Dissolve(r)
    PROVE  ToldTheTruth'
<1> PICK c, a : c = call[r].conv /\ a = call[r].actor
  OBVIOUS
<1>1. /\ \/ At(r, "remove", "delete") /\ RemoveConversation(r)
         \/ At(r, "removeMember", "dissolve") /\ Dissolve(r)
      /\ Owed(r) = {} /\ Knows(r) /\ UNCHANGED view
  BY DEF RemoveConversation, Dissolve, Owed, At, KnowsInv
<1>2. c \in Convs /\ call[r] # NoFrame
  BY <1>1, StepsAndAnswers, ConvKnown, FrameOf DEF At, Creating
<1>3. CASE ~Live(c)
  <2>1. GotoWith(r, "notFound", call[r]) /\ UNCHANGED <<conversation, member, view>>
    BY <1>1, <1>3 DEF RemoveConversation, Dissolve, Found, Goto
  <2> QED
    BY <1>1, <2>1, ToldQuietly
<1>4. CASE Live(c)
  <2>1. PICK step \in {"announce", "farewell"} : /\ GotoWith(r, step, call[r])
            /\ \/ At(r, "remove", "delete") /\ step = "announce"
               \/ At(r, "removeMember", "dissolve") /\ step = "farewell"
    BY <1>1, <1>4 DEF RemoveConversation, Dissolve, Found, Goto
  <2>2. pc'[r] = step /\ call'[r] = call[r]
    BY <2>1, Mine DEF Answers
  <2>3. DeleteConversation(c)
    BY <1>1, <1>4 DEF RemoveConversation, Dissolve
  <2>4. /\ Directs \subseteq Directs' /\ \A u \in Users : ~IsMember(c, u)'
        /\ \A d \in Convs : d # c => member'[d] = member[d]
    BY <1>2, <1>4, <2>3 DEF DeleteConversation, Live, IsGroup, IsMember, NoRow, Directs,
                            TypeOK, TablesOK, ConversationRow
  <2>5. ReliesOn(r) = Users
    BY <1>1 DEF ReliesOn, At
  <2>6. \A u \in Users : u \in stale[r] => <<c, u>> \in crossed'
    BY <2>2, <2>5 DEF Track
  <2>7. \A u \in Users : IsMember(c, u) => u \in stale[r] \/ Owes(r, c, u)'
    <3>1. CASE At(r, "remove", "delete") /\ step = "announce"
      <4>1. Owed(r)' = call[r].ids
        BY <2>2, <3>1 DEF Owed, At
      <4> QED
        BY <1>1, <1>2, <2>2, <3>1, <4>1 DEF Knows, Owes
    <3>2. CASE At(r, "removeMember", "dissolve") /\ step = "farewell"
      <4>1. Owed(r)' = {a}
        BY <2>2, <3>2 DEF Owed, At
      <4> QED
        BY <1>1, <1>2, <2>2, <3>2, <4>1 DEF Knows, Owes
    <3> QED
      BY <2>1, <3>1, <3>2
  <2>8. \A u \in Users : Agrees(c, u) =>
           <<c, u>> \in crossed' \/ Owes(r, c, u)' \/ Agrees(c, u)'
    BY <1>1, <2>4, <2>6, <2>7 DEF Agrees
  <2> QED
    BY <1>1, <2>1, <2>4, <2>8, ToldAfterWrite
<1> QED
  BY <1>3, <1>4

\* Inserting and deleting one row: its user is told next.
LEMMA ToldAfterOneRow ==
    ASSUME TypeOK, ToldTheTruth, NEW r \in Reqs, Track(r), InsertMember(r) \/ DeleteMember(r)
    PROVE  ToldTheTruth'
<1> PICK c, t : c = call[r].conv /\ t = call[r].target
  OBVIOUS
<1>1. /\ pc[r] \in {"insert", "delete"} /\ call[r].op \in {"addMember", "removeMember"}
      /\ call[r].op = "addMember" <=> InsertMember(r)
      /\ Owed(r) = {} /\ UNCHANGED <<conversation, view>>
  BY DEF InsertMember, DeleteMember, Owed, At
<1>2. c \in Convs /\ t \in Users /\ call[r] # NoFrame /\ Directs' = Directs
  BY <1>1, StepsAndAnswers, ConvKnown, FrameOf DEF Creating, Directs, IsGroup
<1>3. PICK step : GotoWith(r, step, call[r])
  BY DEF InsertMember, DeleteMember, Goto
<1>4. \A d \in Convs : /\ d # c => member'[d] = member[d]
                       /\ \A u \in Users : d # c \/ u # t => member'[d][u] = member[d][u]
  BY <1>2 DEF InsertMember, DeleteMember, TypeOK, TablesOK
<1>5. CASE step = "announce"
  <2>1. pc'[r] = "announce" /\ call'[r] = call[r]
    BY <1>3, <1>5, Mine DEF Answers
  <2>2. Owes(r, c, t)'
    BY <1>1, <1>2, <2>1 DEF Owes, Owed, At
  <2>3. \A u \in Users : Agrees(c, u) => Owes(r, c, u)' \/ Agrees(c, u)'
    BY <1>1, <1>2, <1>4, <2>2 DEF Agrees, IsMember
  <2> QED
    BY <1>1, <1>2, <1>3, <1>4, <2>3, ToldAfterWrite
<1>6. CASE step # "announce"
  <2>1. CASE InsertMember(r)
    <3>1. InsertVerdict(c, t) # "announce"
      BY <1>3, <1>6, <2>1, Mine DEF InsertMember, Goto
    <3> QED
      BY <1>1, <1>3, <2>1, <3>1, ToldQuietly DEF InsertMember
  <2>2. CASE DeleteMember(r)
    <3>1. ~IsMember(c, t)
      BY <1>3, <1>6, <2>2, Mine DEF DeleteMember, Goto
    <3>2. ~IsMember(c, t)'
      BY <1>2, <2>2 DEF DeleteMember, IsMember, NoRow, TypeOK, TablesOK
    <3>3. \A d \in Convs, u \in Users : IsMember(d, u)' <=> IsMember(d, u)
      BY <1>4, <3>1, <3>2 DEF IsMember
    <3> QED
      BY <1>1, <1>2, <1>3, <3>3, ToldStill
  <2> QED
    BY <2>1, <2>2
<1> QED
  BY <1>5, <1>6

\* Creating a conversation: the members of a group are told next.
LEMMA ToldAfterCreation ==
    ASSUME TypeOK, TablesInv, ToldTheTruth, NEW r \in Reqs, Track(r),
           CreateDirect(r) \/ CreateGroup(r)
    PROVE  ToldTheTruth'
<1> PICK a, ids : a = call[r].actor /\ ids = call[r].ids
  OBVIOUS
<1>1. /\ call[r] \in Frame /\ call[r].op \in Creating /\ pc[r] = "create"
      /\ a \in Users /\ ids \subseteq Users /\ Owed(r) = {} /\ UNCHANGED view
  BY StepsAndAnswers, FrameOf, ConstantsAssumption
     DEF CreateDirect, CreateGroup, At, Owed, Creating
<1>2. ASSUME NEW c \in Unused, NEW type \in {"DIRECT", "GROUP"}, NEW key, NEW roleOf,
             InsertConversation(c, type, key, roleOf)
      PROVE  /\ Directs \subseteq Directs' /\ c \in Convs /\ \A u \in Users : ~IsMember(c, u)
             /\ \A d \in Convs : d # c => member'[d] = member[d]
             /\ type = "DIRECT" => c \in Directs'
  <2>1. c \in Convs /\ conversation[c].status = "unused"
    BY DEF Unused
  <2>2. /\ conversation'[c] = [status |-> "live", type |-> type, directKey |-> key, name |-> None]
        /\ \A d \in Convs : d # c => conversation'[d] = conversation[d] /\ member'[d] = member[d]
    BY <1>2, <2>1 DEF InsertConversation, TypeOK, TablesOK
  <2>3. \A u \in Users : ~IsMember(c, u)
    BY <2>1 DEF TablesInv, RowsInv, NoOrphanRows, MemberIds, Live
  <2> QED
    BY <2>1, <2>2, <2>3 DEF Directs, IsGroup
<1>3. CASE Goto(r, "refetch") /\ UNCHANGED db
  BY <1>1, <1>3, ToldQuietly DEF Goto, db
<1>4. ASSUME NEW c \in Unused, NEW f,
             InsertConversation(c, "DIRECT", Pair(r), [u \in Pair(r) |-> "MEMBER"]),
             GotoWith(r, "announce", f)
      PROVE  ToldTheTruth'
  BY <1>1, <1>2, <1>4, ToldAfterWrite
<1>5. CASE CreateGroup(r)
  <2> DEFINE roleOf == [u \in ids \cup {a} |-> IF u = a THEN "OWNER" ELSE "MEMBER"]
  <2>1. PICK c \in Unused : /\ InsertConversation(c, "GROUP", {}, roleOf)
                            /\ GotoWith(r, "announce", [call[r] EXCEPT !.conv = c])
    BY <1>5 DEF CreateGroup
  <2> DEFINE f == [call[r] EXCEPT !.conv = c]
  <2>2. f.op = "createGroup" /\ f.conv = c /\ f.actor = a /\ f.ids = ids
        /\ f # NoFrame
    <3>1. call[r].op = "createGroup"
      BY <1>5 DEF CreateGroup, At
    <3> QED
      BY <1>1, <3>1 DEF Frame, NoFrame
  <2> HIDE DEF f
  <2>3. pc'[r] = "announce" /\ call'[r] = f /\ GotoWith(r, "announce", f)
    BY <2>1, Mine DEF Answers, f
  <2>4. /\ Directs \subseteq Directs' /\ c \in Convs /\ \A u \in Users : ~IsMember(c, u)
        /\ \A d \in Convs : d # c => member'[d] = member[d]
    BY <1>2, <2>1
  <2>5. \A u \in Users : IsMember(c, u)' => u \in ids \cup {a}
    BY <2>1, <2>4 DEF InsertConversation, IsMember, NoRow, TypeOK, TablesOK
  <2>6. \A u \in ids \cup {a} : Owes(r, c, u)'
    BY <2>2, <2>3 DEF Owes, Owed, At
  <2>7. \A u \in Users : Agrees(c, u) => Owes(r, c, u)' \/ Agrees(c, u)'
    BY <1>1, <2>4, <2>5, <2>6 DEF Agrees
  <2> QED
    BY <1>1, <2>3, <2>4, <2>7, ToldAfterWrite
<1> QED
  BY <1>3, <1>4, <1>5 DEF CreateDirect

\* What people were told is inductive, whatever overlaps and dies: one step per
\* action, or kind of action.
LEMMA ToldIsKept ==
    TypeOK /\ TablesInv /\ KnowsInv /\ ToldTheTruth /\ [HNext]_hvars => ToldTheTruth'
<1> SUFFICES ASSUME TypeOK, TablesInv, KnowsInv, ToldTheTruth, [HNext]_hvars
             PROVE  ToldTheTruth'
  OBVIOUS
<1> USE DEF db
<1>1. CASE UNCHANGED hvars
  <2>1. \A r, c, u : Owes(r, c, u) => Owes(r, c, u)'
    BY <1>1 DEF hvars, Owes, Owed, At
  <2>2. Directs' = Directs /\ crossed' = crossed /\ \A c, u : Agrees(c, u) => Agrees(c, u)'
    BY <1>1 DEF hvars, Directs, IsGroup, Agrees, IsMember
  <2> QED
    BY <2>1, <2>2 DEF ToldTheTruth, Owes, Agrees
<1>2. ASSUME NEW r \in Reqs, Receive(r), Track(r) PROVE ToldTheTruth'
  BY <1>2, OneHandler, StepsAndAnswers, ToldQuietly DEF Receive, Owed, At
<1>3. ASSUME NEW r \in Reqs, Abort(r), Track(r) PROVE ToldTheTruth'
  <2>1. pc'[r] = "aborted" /\ GotoWith(r, "aborted", call[r])
        /\ UNCHANGED <<conversation, member, view>>
    BY <1>3, Mine DEF Abort, Goto
  <2>2. \A c, u : Owes(r, c, u) => <<c, u>> \in crossed'
    BY <1>3, <2>1 DEF Track, LeavesOpen, Owes
  <2>3. Directs' = Directs /\ \A c, u : Agrees(c, u)' <=> Agrees(c, u)
    BY <2>1 DEF Directs, IsGroup, Agrees, IsMember
  <2> QED
    BY <1>3, <2>1, <2>2, <2>3, ToldStep
<1>4. ASSUME NEW r \in Reqs, Track(r),
             \/ AnnounceGroup(r) \/ AnnounceRemoval(r) \/ AnnounceMember(r)
             \/ Farewell(r) \/ AnnounceLeft(r)
      PROVE  ToldTheTruth'
  <2>1. pc[r] \in {"announce", "farewell"} /\ call[r].conv \in Convs
    <3>1. pc[r] \in {"announce", "farewell"}
      BY <1>4 DEF AnnounceGroup, AnnounceRemoval, AnnounceMember, Farewell, AnnounceLeft, At
    <3> QED
      BY <3>1, StepsAndAnswers, FrameOf DEF NoIdYet
  <2>2. PICK step \in {"ok", "reply"}, word \in {"member", "gone"} :
           /\ Goto(r, step) /\ Tell(call[r].conv, Owed(r), word)
           /\ word = "member" <=> call[r].op \in {"createGroup", "addMember"}
    BY <1>4 DEF AnnounceGroup, AnnounceRemoval, AnnounceMember, Farewell, AnnounceLeft, At, Owed
  <2>3. UNCHANGED <<conversation, member>>
    BY <1>4 DEF AnnounceGroup, AnnounceRemoval, AnnounceMember, Farewell, AnnounceLeft
  <2> QED
    BY <1>4, <2>1, <2>2, <2>3, ToldByEvent
<1>5. ASSUME NEW r \in Reqs, Track(r), Promote(r) PROVE ToldTheTruth'
  <2> PICK c, s : c = call[r].conv /\ s = call[r].succ.user
    OBVIOUS
  <2>1. /\ pc[r] = "promote" /\ call[r].op = "removeMember" /\ c \in Convs /\ s \in Users
        /\ Owed(r) = {} /\ UNCHANGED <<conversation, view>>
        /\ \E step : GotoWith(r, step, call[r])
    BY <1>5, StepsAndAnswers, ConvKnown
       DEF Promote, Goto, At, Owed, KnowsInv, Plan, Removing, Creating
  <2>2. member' = member \/ (IsMember(c, s) /\ member' = [member EXCEPT ![c][s].role = "OWNER"])
    BY <1>5 DEF Promote, SuccessorRowLeft, IsMember
  <2>3. member[c] \in [Users -> MemberRow] /\ member[c][s] \in MemberRow
    BY <2>1 DEF TypeOK, TablesOK
  <2>4. \A d \in Convs, u \in Users : IsMember(d, u)' <=> IsMember(d, u)
    <3>1. CASE member' = member
      BY <3>1 DEF IsMember
    <3>2. CASE IsMember(c, s) /\ member' = [member EXCEPT ![c][s].role = "OWNER"]
      <4>1. member'[c][s].role = "OWNER"
        BY <2>1, <2>3, <3>2 DEF TypeOK, TablesOK, MemberRow
      <4>2. \A d \in Convs, u \in Users : d # c \/ u # s => member'[d][u] = member[d][u]
        BY <2>1, <3>2 DEF TypeOK, TablesOK
      <4> QED
        BY <3>2, <4>1, <4>2 DEF IsMember
    <3> QED
      BY <2>2, <3>1, <3>2
  <2>5. Directs' = Directs
    BY <2>1 DEF Directs, IsGroup
  <2> QED
    BY <1>5, <2>1, <2>4, <2>5, ToldStill
<1>6. ASSUME NEW r \in Reqs, Track(r), WriteName(r) PROVE ToldTheTruth'
  <2>1. Owed(r) = {} /\ UNCHANGED <<member, view>> /\ \E step : GotoWith(r, step, call[r])
    BY <1>6 DEF WriteName, Found, Goto, Owed, At
  <2>2. Directs \subseteq Directs'
    BY <1>6 DEF WriteName, Directs, IsGroup, Live, TypeOK, TablesOK, ConversationRow
  <2>3. \A c, u : IsMember(c, u)' <=> IsMember(c, u)
    BY <2>1 DEF IsMember
  <2> QED
    BY <1>6, <2>1, <2>2, <2>3, ToldStill
<1>7. ASSUME NEW r \in Reqs, Track(r),
             \/ FindDirect(r) \/ AnnounceDirect(r) \/ RefetchDirect(r)
             \/ AssertMembership(r) \/ AnnounceName(r) \/ ListMembers(r)
             \/ LoadConversation(r) \/ ReplyAdded(r) \/ ReadTarget(r) \/ FindSuccessor(r)
      PROVE  ToldTheTruth'
  <2>1. UNCHANGED <<conversation, member, view>>
    BY SMTT(30), <1>7
       DEF FindDirect, AnnounceDirect, RefetchDirect, AssertMembership, AnnounceName,
           ListMembers, LoadConversation, ReplyAdded, ReadTarget, FindSuccessor
  <2>2. Owed(r) = {}
    BY SMTT(30), <1>7
       DEF FindDirect, AnnounceDirect, RefetchDirect, AssertMembership, AnnounceName,
           ListMembers, LoadConversation, ReplyAdded, ReadTarget, FindSuccessor, Owed, At
  <2>3. PICK step, f : GotoWith(r, step, f)
    BY <1>7, OneHandler DEF Handle
  <2> QED
    BY <1>7, <2>1, <2>2, <2>3, ToldQuietly
<1>8. ASSUME NEW r \in Reqs, Handle(r), Track(r) PROVE ToldTheTruth'
  BY <1>4, <1>5, <1>6, <1>7, <1>8, ToldAfterCreation, ToldAfterRemoval, ToldAfterOneRow
     DEF Handle
<1> QED
  BY <1>1, <1>2, <1>3, <1>8, HStep

\* What people were last told is what the table says, for whoever no handler
\* still owes an event, whatever overlaps and dies, unless his row changed
\* behind the back of the handler that told him, or one died owing him an event.
THEOREM MembersAreTold == HSpec => []ToldTheTruth
<1>1. HInit => ToldTheTruth
  BY DEF HInit, Init, ToldTheTruth, IsMember, NoRow
<1>2. TypeOK /\ TablesInv /\ KnowsInv /\ ToldTheTruth /\ [HNext]_hvars => ToldTheTruth'
  BY ToldIsKept
<1> QED
  BY <1>1, <1>2, HandlersKnow, PTL DEF HSpec
=============================================================================
