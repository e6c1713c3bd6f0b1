--------------------------- MODULE MessagesProofs ---------------------------
(***************************************************************************)
(* Theorems about Messages, for any users, messages, requests and scopes.  *)
(***************************************************************************)
EXTENDS Messages, FiniteSetTheorems, TLAPS

-----------------------------------------------------------------------------
(* Steps and frames.                                                       *)

SendSteps == {"check", "insert", "bump", "point", "recipients", "online",
              "deliver", "tell", "mentions", "targets", "notify"}

LEMMA StepsListed ==
    /\ StepsOf("send") = SendSteps
    /\ StepsOf("edit") = {"load", "write", "announce"}
    /\ StepsOf("delete") = {"load", "role", "write", "announce"}
    /\ StepsOf("read") = {"check", "find", "point", "record", "upsert"}
    /\ Steps = SendSteps \cup {"load", "write", "announce", "role", "find", "record", "upsert"}
<1>1. /\ StepsOf("send") = SendSteps
      /\ StepsOf("edit") = {"load", "write", "announce"}
      /\ StepsOf("delete") = {"load", "role", "write", "announce"}
      /\ StepsOf("read") = {"check", "find", "point", "record", "upsert"}
  BY DEF StepsOf, SendSteps
<1>2. Steps = UNION {StepsOf("send"), StepsOf("edit"), StepsOf("delete"), StepsOf("read")}
  BY DEF Steps, Operations
<1> QED
  BY <1>1, <1>2 DEF SendSteps

\* The part of TypeOK that is about requests.
Frames ==
    /\ pc \in [Reqs -> {"idle", "error"} \cup Steps \cup Answers]
    /\ call \in [Reqs -> Frame \cup Remains \cup {NoFrame}]
    /\ \A r \in Reqs : /\ call[r] \in Frame <=> pc[r] \in Steps
                       /\ pc[r] \in Steps => pc[r] \in StepsOf(call[r].op)
                       /\ pc[r] \in Steps \ {"check", "insert"} => call[r].msg \in Msgs
Tables ==
    /\ scope \in Scopes
    /\ conv \in [type : {"DIRECT", "GROUP"}, live : BOOLEAN, lastMessageAt : Nat]
    /\ role \in [Users -> Roles \cup {"NONE"}]
    /\ pointer \in [Users -> [id : Msgs \cup {None}, at : Nat]]
    /\ message \in [Msgs -> Row \cup {NoMessage}]
    /\ reads \subseteq Msgs \X Users
    /\ noted \in [Msgs -> [Users -> {"none", "NEW_MESSAGE", "MENTION"}]]
    /\ told \in [Msgs -> {"none", "sent", "edited", "deleted"}]
    /\ clock \in Nat

LEMMA TypesSplit == TypeOK <=> Frames /\ Tables
BY DEF TypeOK, Frames, Tables

\* What a request in flight looks like; rows are told from none.
LEMMA FrameFacts ==
    ASSUME Frames, NEW r \in Reqs, pc[r] \in Steps
    PROVE  /\ call[r] \in Frame /\ call[r] # NoFrame
           /\ call[r].op \in Operations /\ call[r].actor \in Users
           /\ call[r].mentions \in SUBSET Users /\ call[r].to \in SUBSET Users
           /\ call[r].msg \in Msgs \cup {None}
           /\ call[r].shows \in {"none", "sent", "edited", "deleted"}
           /\ pc[r] \in StepsOf(call[r].op)
           /\ pc[r] \notin {"check", "insert"} => call[r].msg \in Msgs
BY DEF Frames, Frame, NoFrame, Operations

LEMMA RowFacts ==
    ASSUME Tables, NEW m \in Msgs
    PROVE  /\ Exists(m) <=> message[m] \in Row
           /\ Exists(m) => /\ message[m].sender \in Users /\ message[m].at \in Nat
                           /\ message[m].content \in {"sent", "edited", "empty"}
                           /\ message[m].deleted \in BOOLEAN
                           /\ message[m].mentions \in SUBSET Users
<1>1. message[m] \in Row \cup {NoMessage}
  BY DEF Tables
<1>2. NoMessage \notin Row
  BY MessagesAssumption DEF NoMessage, Row
<1> QED
  BY <1>1, <1>2 DEF Exists, Row

\* A request moves on to a step of its own operation, or is answered.
LEMMA Moves ==
    ASSUME Frames, NEW r \in Reqs, NEW step \in Steps \cup Answers, NEW f,
           GotoWith(r, step, f),
           step \in Steps => /\ f \in Frame /\ step \in StepsOf(f.op)
                             /\ step \notin {"check", "insert"} => f.msg \in Msgs
    PROVE  /\ Frames'
           /\ pc' = [pc EXCEPT ![r] = step] /\ pc'[r] = step
           /\ step \in Steps => call'[r] = f
           /\ \A q \in Reqs : q # r => pc'[q] = pc[q] /\ call'[q] = call[q]
<1> DEFINE g == IF step \in Answers THEN NoFrame ELSE f
<1>1. Steps \cap Answers = {} /\ "idle" \notin Steps
  BY StepsListed DEF Answers, SendSteps
<1>2. pc' = [pc EXCEPT ![r] = step] /\ call' = [call EXCEPT ![r] = g]
  BY DEF GotoWith
<1>3. (step \in Steps => g = f) /\ (step \in Answers => g = NoFrame)
  BY <1>1
<1>4. NoFrame \notin Frame
  BY DEF NoFrame, Frame, Operations
<1> HIDE DEF g
<1>5. g \in Frame \cup {NoFrame}
  BY <1>3
<1>6. pc'[r] = step /\ call'[r] = g
  BY <1>2 DEF Frames
<1>7. \A q \in Reqs : q # r => pc'[q] = pc[q] /\ call'[q] = call[q]
  BY <1>2 DEF Frames
<1>8. /\ pc' \in [Reqs -> {"idle", "error"} \cup Steps \cup Answers]
      /\ call' \in [Reqs -> Frame \cup Remains \cup {NoFrame}]
  BY <1>2, <1>5 DEF Frames
<1>9. ASSUME NEW q \in Reqs
      PROVE  /\ call'[q] \in Frame <=> pc'[q] \in Steps
             /\ pc'[q] \in Steps => pc'[q] \in StepsOf(call'[q].op)
             /\ pc'[q] \in Steps \ {"check", "insert"} => call'[q].msg \in Msgs
  <2>1. CASE q = r
    BY <1>1, <1>3, <1>4, <1>6, <2>1
  <2>2. CASE q # r
    BY <1>7, <2>2 DEF Frames
  <2> QED
    BY <2>1, <2>2
<1> QED
  BY <1>2, <1>3, <1>6, <1>7, <1>8, <1>9 DEF Frames

\* A request whose call is rejected moves to its end, and leaves its remains.
LEMMA FailMoves ==
    ASSUME Frames, NEW r \in Reqs, Fail(r)
    PROVE  /\ Frames' /\ pc[r] \in Steps
           /\ pc'[r] = "error" /\ call'[r].op = call[r].op /\ call'[r].msg = call[r].msg
           /\ \A q \in Reqs : q # r => pc'[q] = pc[q] /\ call'[q] = call[q]
<1> DEFINE left == [op |-> call[r].op, msg |-> call[r].msg]
<1>1. pc[r] \in Steps /\ pc' = [pc EXCEPT ![r] = "error"] /\ call' = [call EXCEPT ![r] = left]
  BY DEF Fail, InFlight
<1>2. left \in Remains /\ left \notin Frame /\ left.op = call[r].op /\ left.msg = call[r].msg
  BY <1>1, FrameFacts DEF Remains, Frame
<1>3. "error" \notin Steps
  BY StepsListed DEF SendSteps
<1> HIDE DEF left
<1>4. /\ pc'[r] = "error" /\ call'[r] = left
      /\ \A q \in Reqs : q # r => pc'[q] = pc[q] /\ call'[q] = call[q]
  BY <1>1 DEF Frames
<1>5. /\ pc' \in [Reqs -> {"idle", "error"} \cup Steps \cup Answers]
      /\ call' \in [Reqs -> Frame \cup Remains \cup {NoFrame}]
  BY <1>1, <1>2 DEF Frames
<1>6. ASSUME NEW q \in Reqs
      PROVE  /\ call'[q] \in Frame <=> pc'[q] \in Steps
             /\ pc'[q] \in Steps => pc'[q] \in StepsOf(call'[q].op)
             /\ pc'[q] \in Steps \ {"check", "insert"} => call'[q].msg \in Msgs
  <2>1. CASE q = r
    BY <1>2, <1>3, <1>4, <2>1
  <2>2. CASE q # r
    BY <1>4, <2>2 DEF Frames
  <2> QED
    BY <2>1, <2>2
<1> QED
  BY <1>1, <1>2, <1>4, <1>5, <1>6 DEF Frames

-----------------------------------------------------------------------------
(* What keeps the tables right.                                            *)

\* A request with frame f at a step agrees with the rows: what was inserted, or
\* found, is there as long as the conversation is, and in a direct conversation
\* its members are.
FitsAt(f, step) ==
    LET m == f.msg
        u == f.actor
        send == f.op = "send"
        read == f.op = "read"
        direct == conv.type = "DIRECT"
    IN
    /\ send /\ step \notin {"check", "insert"} /\ conv.live =>
           Exists(m) /\ message[m].sender = u /\ f.mentions \subseteq message[m].mentions
    /\ read => m # None
    /\ read /\ step \in {"point", "record", "upsert"} /\ conv.live => Exists(m)
    /\ (send \/ read) /\ step # "check" /\ direct => role[u] # "NONE"
    /\ step = "upsert" => direct /\ message[m].sender # u
    /\ step \in {"online", "deliver", "tell", "mentions", "targets", "notify"} => u \notin f.to
    /\ step \in {"online", "deliver"} => direct
    /\ step = "targets" /\ ~direct => f.mentions \subseteq f.to
Fits(r) == pc[r] \in Steps => FitsAt(call[r], pc[r])

Alive ==
    /\ conv.type = "DIRECT" => conv.live
    /\ ~conv.live => /\ \A m \in Msgs : ~Exists(m)
                     /\ \A u \in Users : role[u] = "NONE"
NotedAreStored == conv.live => \A m \in Msgs, u \in Users : noted[m][u] # "none" => Exists(m)

Sound == Alive /\ NotedAreStored /\ PointerIsReal /\ ReadsAreTheOthers /\ NotifiedByPolicy
Core == Frames /\ Tables /\ Sound /\ \A r \in Reqs : Fits(r)

\* Rows, and the members of a direct conversation, stay what they are.
Stable ==
    /\ conv'.type = conv.type
    /\ conv'.live => /\ conv.live
                     /\ \A m \in Msgs : Exists(m) =>
                            /\ Exists(m)' /\ message'[m].sender = message[m].sender
                            /\ message'[m].at = message[m].at
                            /\ message'[m].mentions = message[m].mentions
    /\ conv.type = "DIRECT" => role' = role /\ conv'.live = conv.live

LEMMA FitsStays ==
    ASSUME Core, Stable, NEW q \in Reqs, pc'[q] = pc[q], call'[q] = call[q]
    PROVE  Fits(q)'
<1> SUFFICES ASSUME pc[q] \in Steps PROVE Fits(q)'
  BY DEF Fits
<1>1. /\ call[q].actor \in Users /\ (pc[q] \notin {"check", "insert"} => call[q].msg \in Msgs)
      /\ pc[q] \in StepsOf(call[q].op) /\ call[q].op \in Operations
  BY FrameFacts DEF Core
<1>2. pc[q] = "upsert" => call[q].op = "read"
  BY <1>1, StepsListed DEF Operations, SendSteps
<1>3. Fits(q) /\ Alive
  BY DEF Core, Sound
<1> QED
  BY <1>1, <1>2, <1>3 DEF Fits, FitsAt, Stable, Alive

\* A handler that only reads.
Reads == UNCHANGED <<scope, conv, members, message, reads, events, clock>>

LEMMA ReadingKeeps ==
    ASSUME Core, NEW r \in Reqs, Frames', Reads, Fits(r)',
           \A q \in Reqs : q # r => pc'[q] = pc[q] /\ call'[q] = call[q]
    PROVE  Core'
<1>1. UNCHANGED <<scope, conv, role, pointer, message, reads, noted, told, clock>>
  BY DEF Reads, members, events
<1>2. Stable
  BY <1>1 DEF Stable, Exists
<1>3. Tables'
  BY <1>1 DEF Core, Tables
<1>4. Sound'
  BY <1>1 DEF Core, Sound, Alive, NotedAreStored, PointerIsReal, ReadsAreTheOthers,
              NotifiedByPolicy, Stored, MemberIds, Exists
<1>5. \A q \in Reqs : Fits(q)'
  BY <1>2, FitsStays
<1> QED
  BY <1>3, <1>4, <1>5 DEF Core

\* A set of two has two members.
LEMMA PairOf ==
    ASSUME NEW S, IsFiniteSet(S), Cardinality(S) = 2
    PROVE  \E a, b \in S : a # b /\ S = {a, b}
<1>1. PICK a \in S : TRUE
  BY FS_EmptySet
<1>2. IsFiniteSet(S \ {a}) /\ Cardinality(S \ {a}) = 1
  BY <1>1, FS_RemoveElement
<1>3. PICK b : S \ {a} = {b}
  BY <1>2, FS_Singleton
<1> QED
  BY <1>1, <1>3

AsCreated ==
    \/ Kind = "DIRECT" /\ \E a, b \in Users : a # b /\ role = Rows!Two(a, b)
    \/ Kind = "GROUP" /\ \E o \in Users, S \in SUBSET Users : role = Rows!OwnerAnd(o, S)

LEMMA FoundedAsCreated ==
    ASSUME NEW type \in {"DIRECT", "GROUP"}, NEW founders \in SUBSET Users, NEW o \in Users,
           Founded(type, founders, o), Kind = type
    PROVE  AsCreated
<1>1. CASE type = "GROUP"
  <2>1. role = Rows!OwnerAnd(o, founders)
    BY <1>1 DEF Rows!OwnerAnd, Founded
  <2> QED
    BY <1>1, <2>1 DEF AsCreated
<1>2. CASE type = "DIRECT"
  <2>1. PICK a \in founders, b \in founders : a # b /\ founders = {a, b}
    BY <1>2, PairOf, MessagesAssumption, FS_Subset DEF Founded
  <2>2. role = Rows!Two(a, b)
    BY <1>2, <2>1 DEF Rows!Two, Founded
  <2> QED
    BY <1>2, <2>1, <2>2 DEF AsCreated
<1> QED
  BY <1>1, <1>2

LEMMA CoreInit == Init => Core /\ AsCreated
<1> SUFFICES ASSUME Init PROVE Core /\ AsCreated
  OBVIOUS
<1> PICK type \in {"DIRECT", "GROUP"}, founders \in SUBSET Users, o \in Users, old \in Old \cup {None} :
        LET since == IF old = None THEN 0 ELSE 1 IN
        /\ scope \in Scopes
        /\ Founded(type, founders, o)
        /\ conv = [type |-> type, live |-> TRUE, lastMessageAt |-> since]
        /\ pointer = [u \in Users |-> IF u = o THEN [id |-> old, at |-> since] ELSE NoPointer]
        /\ message = [m \in Msgs |-> IF m # old THEN NoMessage
                         ELSE [sender |-> o, at |-> 1, mentions |-> {}, content |-> "sent",
                               deleted |-> FALSE, delivered |-> FALSE]]
        /\ reads = {}
        /\ noted = [m \in Msgs |-> [u \in Users |->
                       IF m = old /\ type = "DIRECT" /\ u \in founders \ {o}
                       THEN "NEW_MESSAGE" ELSE "none"]]
        /\ told = [m \in Msgs |-> IF m = old THEN "sent" ELSE "none"]
        /\ clock = 1
        /\ pc = [r \in Reqs |-> "idle"]
        /\ call = [r \in Reqs |-> NoFrame]
  BY DEF Init
<1>1. "idle" \notin Steps /\ NoFrame \notin Frame
  BY StepsListed DEF SendSteps, NoFrame, Frame, Operations
<1>2. Frames
  BY <1>1 DEF Frames
<1>3. old \in Msgs \cup {None} /\ None \notin Users \cup Msgs
  BY MessagesAssumption
<1>4. \A m \in Msgs : Exists(m) <=> m = old
  BY <1>3 DEF Exists, NoMessage
<1>5. Tables
  BY <1>3 DEF Founded, Tables, Row, Roles, NoPointer
<1>6. PointerIsReal
  BY <1>3, <1>4 DEF Founded, PointerIsReal, Stored, MemberIds, NoPointer
<1>7. Sound
  BY <1>3, <1>4, <1>6 DEF Founded, Sound, Alive, NotedAreStored, ReadsAreTheOthers, NotifiedByPolicy, Stored
<1>8. \A r \in Reqs : Fits(r)
  BY <1>1 DEF Fits
<1>9. Kind = type
  BY DEF Kind
<1>10. AsCreated
  BY <1>9, FoundedAsCreated
<1> QED
  BY <1>2, <1>5, <1>7, <1>8, <1>10 DEF Core

\* What the moves of a handler must bring, where only requests change.
Goes(f, step) == step \in Steps => /\ f \in Frame /\ step \in StepsOf(f.op)
                                   /\ step \notin {"check", "insert"} => f.msg \in Msgs

LEMMA ReadingMoves ==
    ASSUME Core, NEW r \in Reqs, NEW f, NEW step \in Steps \cup Answers, GotoWith(r, step, f),
           Reads, Goes(f, step), step \in Steps => FitsAt(f, step)
    PROVE  Core'
<1>1. /\ Frames' /\ pc'[r] = step /\ (step \in Steps => call'[r] = f)
      /\ \A q \in Reqs : q # r => pc'[q] = pc[q] /\ call'[q] = call[q]
  BY Moves DEF Core, Goes
<1>2. Fits(r)'
  BY <1>1 DEF Fits, FitsAt, Reads, members, Exists
<1> QED
  BY <1>1, <1>2, ReadingKeeps

-----------------------------------------------------------------------------
(* The handlers that only read.                                            *)

\* Whom the scope lets a message name are people.
LEMMA ScopeFacts == ASSUME Core PROVE scope.named \cup {{}} \subseteq SUBSET Users
BY MessagesAssumption DEF Core, Tables

\* Receive, before the checks.
LEMMA CoreReceive == ASSUME Core, NEW r \in Reqs, Receive(r) PROVE Core'
<1> PICK op \in Operations, a \in Users, m \in Msgs \cup {None}, M \in SUBSET Users :
         /\ op = "send" <=> m = None
         /\ op # "send" => M = {}
         /\ GotoWith(r, IF op \in {"send", "read"} THEN "check" ELSE "load",
                [op |-> op, actor |-> a, msg |-> m, mentions |-> M, to |-> {}, shows |-> "none"])
  BY ScopeFacts DEF Receive
<1> DEFINE f == [op |-> op, actor |-> a, msg |-> m, mentions |-> M, to |-> {}, shows |-> "none"]
           step == IF op \in {"send", "read"} THEN "check" ELSE "load"
<1>1. f \in Frame
  BY DEF Frame
<1>2. step \in Steps /\ step \in {"check", "load"} /\ step \in StepsOf(op)
  BY StepsListed DEF Operations, SendSteps
<1>3. Goes(f, step)
  BY <1>1, <1>2 DEF Goes, Operations
<1>4. FitsAt(f, step)
  BY <1>2 DEF FitsAt, Operations
<1>5. GotoWith(r, step, f) /\ Reads
  BY DEF Receive, Reads
<1> HIDE DEF f, step
<1> QED
  BY <1>2, <1>3, <1>4, <1>5, ReadingMoves

\* A request in flight, with what there is to know of its frame.
LEMMA InFlightFacts ==
    ASSUME Core, NEW r \in Reqs, pc[r] \in Steps
    PROVE  /\ call[r] \in Frame /\ call[r].op \in Operations /\ call[r].actor \in Users
           /\ call[r].mentions \in SUBSET Users /\ call[r].to \in SUBSET Users
           /\ call[r].msg \in Msgs \cup {None}
           /\ call[r].shows \in {"none", "sent", "edited", "deleted"}
           /\ pc[r] \in StepsOf(call[r].op)
           /\ pc[r] \notin {"check", "insert"} => call[r].msg \in Msgs
           /\ FitsAt(call[r], pc[r])
BY FrameFacts DEF Core, Fits

LEMMA CoreAssertMembership == ASSUME Core, NEW r \in Reqs, AssertMembership(r) PROVE Core'
<1> DEFINE step == IF role[call[r].actor] = "NONE" THEN "notFound"
                   ELSE IF call[r].op = "send" THEN "insert" ELSE "find"
<1>1. pc[r] = "check" /\ Goto(r, step) /\ Reads
  BY DEF AssertMembership, Reads
<1>2. pc[r] \in Steps /\ step \in Steps \cup Answers
  BY <1>1, StepsListed DEF Answers, SendSteps
<1>3. call[r].op \in {"send", "read"}
  BY <1>1, <1>2, InFlightFacts, StepsListed DEF Operations
<1>4. call[r].op = "read" => call[r].msg \in Msgs
  BY <1>1, <1>2, InFlightFacts DEF FitsAt
<1>5. Goes(call[r], step)
  BY <1>1, <1>2, <1>3, <1>4, InFlightFacts, StepsListed DEF Goes, Answers, SendSteps
<1>6. step \in Steps => FitsAt(call[r], step)
  <2>1. "notFound" \notin Steps
    BY StepsListed DEF SendSteps
  <2>2. FitsAt(call[r], "check")
    BY <1>1, <1>2, InFlightFacts
  <2> QED
    BY <1>3, <2>1, <2>2 DEF FitsAt
<1> HIDE DEF step
<1> QED
  BY <1>1, <1>2, <1>5, <1>6, ReadingMoves DEF Goto

LEMMA CoreReadRecipients == ASSUME Core, NEW r \in Reqs, ReadRecipients(r) PROVE Core'
<1> DEFINE to == MemberIds \ {call[r].actor}
           f == [call[r] EXCEPT !.to = to]
           step == IF conv.type = "DIRECT" /\ Cardinality(to) = 1 THEN "online" ELSE "tell"
<1>1. pc[r] = "recipients" /\ call[r].op = "send" /\ GotoWith(r, step, f) /\ Reads
  BY DEF ReadRecipients, Reads, At
<1>2. pc[r] \in Steps /\ step \in Steps
  BY <1>1, StepsListed DEF SendSteps
<1>3. call[r] \in Frame /\ to \in SUBSET Users /\ call[r].msg \in Msgs /\ FitsAt(call[r], "recipients")
  BY <1>1, <1>2, InFlightFacts DEF MemberIds
<1>4. /\ f \in Frame /\ f.op = "send" /\ f.actor = call[r].actor /\ f.msg = call[r].msg
      /\ f.mentions = call[r].mentions /\ f.to = to
  BY <1>1, <1>3 DEF Frame
<1>5. step \in {"online", "tell"} /\ (step = "online" => conv.type = "DIRECT")
  OBVIOUS
<1>6. call[r].actor \notin to
  OBVIOUS
<1> HIDE DEF f, step, to
<1>7. Goes(f, step)
  BY <1>3, <1>4, <1>5, StepsListed DEF Goes, SendSteps
<1>8. FitsAt(f, step)
  BY <1>1, <1>3, <1>4, <1>5, <1>6 DEF FitsAt
<1> QED
  BY <1>1, <1>2, <1>7, <1>8, ReadingMoves

LEMMA CoreAskOnline == ASSUME Core, NEW r \in Reqs, AskOnline(r) PROVE Core'
<1> PICK step \in {"deliver", "tell"} : Goto(r, step)
  BY DEF AskOnline
<1>1. pc[r] = "online" /\ call[r].op = "send" /\ Reads
  BY DEF AskOnline, Reads, At
<1>2. pc[r] \in Steps /\ step \in Steps
  BY <1>1, StepsListed DEF SendSteps
<1>3. call[r] \in Frame /\ call[r].msg \in Msgs /\ FitsAt(call[r], "online")
  BY <1>1, <1>2, InFlightFacts
<1>4. Goes(call[r], step)
  BY <1>1, <1>3, StepsListed DEF Goes, SendSteps
<1>5. FitsAt(call[r], step)
  BY <1>1, <1>3 DEF FitsAt
<1> QED
  BY <1>1, <1>2, <1>4, <1>5, ReadingMoves DEF Goto

LEMMA CoreResolveMentions == ASSUME Core, NEW r \in Reqs, ResolveMentions(r) PROVE Core'
<1> DEFINE M == call[r].mentions \cap call[r].to \cap MemberIds
           f == [call[r] EXCEPT !.mentions = M]
<1>1. pc[r] = "mentions" /\ call[r].op = "send" /\ Reads
  BY DEF ResolveMentions, Reads, At
<1>2. pc[r] \in Steps /\ "targets" \in Steps
  BY <1>1, StepsListed DEF SendSteps
<1>3. call[r] \in Frame /\ call[r].msg \in Msgs /\ FitsAt(call[r], "mentions") /\ M \in SUBSET Users
  BY <1>1, <1>2, InFlightFacts DEF MemberIds
<1>4. /\ f \in Frame /\ f.op = "send" /\ f.actor = call[r].actor /\ f.msg = call[r].msg
      /\ f.mentions = M /\ f.to = call[r].to
  BY <1>1, <1>3 DEF Frame
<1>5. M \subseteq call[r].mentions /\ M \subseteq call[r].to
  OBVIOUS
<1>6. GotoWith(r, "targets", f)
  BY <1>1, <1>3 DEF ResolveMentions, Frame
<1> HIDE DEF f, M
<1>7. Goes(f, "targets")
  BY <1>3, <1>4, StepsListed DEF Goes, SendSteps
<1>8. FitsAt(f, "targets")
  BY <1>1, <1>3, <1>4, <1>5 DEF FitsAt
<1> QED
  BY <1>1, <1>2, <1>6, <1>7, <1>8, ReadingMoves

LEMMA TargetsAreOthers ==
    ASSUME Core, NEW r \in Reqs, pc[r] = "targets", NEW online
    PROVE  Targets(r, online) \subseteq call[r].to
<1>1. FitsAt(call[r], "targets")
  BY InFlightFacts, StepsListed DEF SendSteps
<1> QED
  BY <1>1 DEF FitsAt, Targets

LEMMA CoreChooseTargets == ASSUME Core, NEW r \in Reqs, ChooseTargets(r) PROVE Core'
<1> PICK online \in SUBSET call[r].to :
        GotoWith(r, IF Targets(r, online) = {} THEN "ok" ELSE "notify",
                 [call[r] EXCEPT !.to = Targets(r, online)])
  BY DEF ChooseTargets
<1> DEFINE to == Targets(r, online)
           f == [call[r] EXCEPT !.to = to]
           step == IF to = {} THEN "ok" ELSE "notify"
<1>1. pc[r] = "targets" /\ call[r].op = "send" /\ Reads /\ GotoWith(r, step, f)
  BY DEF ChooseTargets, Reads, At
<1>2. pc[r] \in Steps /\ step \in Steps \cup Answers
  BY <1>1, StepsListed DEF SendSteps, Answers
<1>3. call[r] \in Frame /\ call[r].msg \in Msgs /\ FitsAt(call[r], "targets") /\ to \subseteq call[r].to
  BY <1>1, <1>2, InFlightFacts, TargetsAreOthers
<1>4. /\ f \in Frame /\ f.op = "send" /\ f.actor = call[r].actor /\ f.msg = call[r].msg
      /\ f.mentions = call[r].mentions /\ f.to = to
  BY <1>1, <1>3 DEF Frame
<1>5. step \in {"ok", "notify"}
  OBVIOUS
<1> HIDE DEF f, step, to
<1>7. Goes(f, step)
  BY <1>3, <1>4, <1>5, StepsListed DEF Goes, SendSteps
<1>8. FitsAt(f, step)
  BY <1>1, <1>3, <1>4, <1>5 DEF FitsAt
<1> QED
  BY <1>1, <1>2, <1>7, <1>8, ReadingMoves

\* update and delete ask no more of their frame than its types.
LEMMA CoreLoad == ASSUME Core, NEW r \in Reqs, LoadMessage(r) \/ ReadRole(r) PROVE Core'
<1>1. /\ pc[r] \in {"load", "role"} /\ (pc[r] = "role" => call[r].op = "delete") /\ Reads
  BY DEF LoadMessage, ReadRole, Reads, At
<1>2. pc[r] \in Steps
  BY <1>1, StepsListed
<1>3. /\ call[r] \in Frame /\ call[r].msg \in Msgs
      /\ call[r].op \in {"edit", "delete"} /\ call[r].op \notin {"send", "read"}
  BY <1>1, <1>2, InFlightFacts, StepsListed DEF Operations, SendSteps
<1>4. PICK step \in {"notFound", "write", "forbidden", "ok", "role"} :
          Goto(r, step) /\ (step = "role" => call[r].op = "delete")
  <2>1. CASE LoadMessage(r)
    BY <2>1 DEF LoadMessage
  <2>2. CASE ReadRole(r)
    BY <2>2 DEF ReadRole
  <2> QED
    BY <2>1, <2>2
<1>5. step \in Steps \cup Answers
  BY StepsListed DEF Answers
<1>6. Goes(call[r], step)
  BY <1>3, <1>4, StepsListed DEF Goes, SendSteps
<1>7. FitsAt(call[r], step)
  BY <1>3 DEF FitsAt
<1> QED
  BY <1>1, <1>4, <1>5, <1>6, <1>7, ReadingMoves DEF Goto

LEMMA CoreFindMessage == ASSUME Core, NEW r \in Reqs, FindMessage(r) PROVE Core'
<1> DEFINE step == IF Exists(call[r].msg) THEN "point" ELSE "notFound"
<1>1. pc[r] = "find" /\ call[r].op = "read" /\ Reads /\ Goto(r, step)
  BY DEF FindMessage, Reads, At
<1>2. pc[r] \in Steps /\ step \in Steps \cup Answers /\ "notFound" \notin Steps
  BY <1>1, StepsListed DEF SendSteps, Answers
<1>3. call[r] \in Frame /\ call[r].msg \in Msgs /\ FitsAt(call[r], "find")
  BY <1>1, <1>2, InFlightFacts
<1>4. step \in Steps => step = "point" /\ Exists(call[r].msg)
  BY <1>2
<1> HIDE DEF step
<1>5. Goes(call[r], step)
  BY <1>1, <1>3, <1>4, StepsListed DEF Goes
<1>6. step \in Steps => FitsAt(call[r], step)
  BY <1>1, <1>3, <1>4 DEF FitsAt
<1> QED
  BY <1>1, <1>2, <1>5, <1>6, ReadingMoves DEF Goto

LEMMA CoreLoadForRead == ASSUME Core, NEW r \in Reqs, LoadForRead(r) PROVE Core'
<1> DEFINE m == call[r].msg
           step == IF ~Exists(m) THEN "notFound"
                   ELSE IF conv.type # "DIRECT" \/ message[m].sender = call[r].actor THEN "ok"
                   ELSE "upsert"
<1>1. pc[r] = "record" /\ call[r].op = "read" /\ Reads /\ Goto(r, step)
  BY DEF LoadForRead, Reads, At
<1>2. pc[r] \in Steps /\ step \in Steps \cup Answers /\ "notFound" \notin Steps /\ "ok" \notin Steps
  BY <1>1, StepsListed DEF SendSteps, Answers
<1>3. call[r] \in Frame /\ call[r].msg \in Msgs /\ FitsAt(call[r], "record")
  BY <1>1, <1>2, InFlightFacts
<1>4. step \in Steps => /\ step = "upsert" /\ Exists(m) /\ conv.type = "DIRECT"
                        /\ message[m].sender # call[r].actor
  BY <1>2
<1> HIDE DEF step
<1>5. Goes(call[r], step)
  BY <1>1, <1>3, <1>4, StepsListed DEF Goes
<1>6. step \in Steps => FitsAt(call[r], step)
  BY <1>1, <1>3, <1>4 DEF FitsAt
<1> QED
  BY <1>1, <1>2, <1>5, <1>6, ReadingMoves DEF Goto

-----------------------------------------------------------------------------
(* The handlers that write.                                                *)

LEMMA WritingKeeps ==
    ASSUME Core, NEW r \in Reqs, Frames', Fits(r)', Stable, Tables', Sound',
           \A q \in Reqs : q # r => pc'[q] = pc[q] /\ call'[q] = call[q]
    PROVE  Core'
<1>1. \A q \in Reqs : Fits(q)'
  BY FitsStays
<1> QED
  BY <1>1 DEF Core

\* What the invariants are about stays, whatever else of rows is written.
Kept ==
    /\ conv'.type = conv.type /\ conv'.live = conv.live
    /\ UNCHANGED <<scope, members, reads, noted>>
    /\ \A m \in Msgs : /\ Exists(m)' <=> Exists(m)
                       /\ Exists(m) => /\ message'[m].sender = message[m].sender
                                       /\ message'[m].at = message[m].at
                                       /\ message'[m].mentions = message[m].mentions

LEMMA KeptIsSound == ASSUME Core, Kept PROVE Sound' /\ Stable
<1>1. UNCHANGED <<role, pointer, reads, noted>> /\ MemberIds' = MemberIds /\ Stored' = Stored
  BY DEF Kept, members, MemberIds, Stored
<1>2. Alive' /\ NotedAreStored'
  BY <1>1 DEF Core, Sound, Alive, NotedAreStored, Kept
<1>3. PointerIsReal'
  BY <1>1 DEF Core, Sound, PointerIsReal, Kept, Stored
<1>4. ReadsAreTheOthers'
  BY <1>1 DEF Core, Sound, ReadsAreTheOthers, Kept, Stored
<1>5. NotifiedByPolicy'
  BY <1>1 DEF Core, Sound, NotifiedByPolicy, Kept, Stored
<1>6. Stable
  BY <1>1 DEF Stable, Kept
<1> QED
  BY <1>2, <1>3, <1>4, <1>5, <1>6 DEF Sound

\* A row whose content, or whose marks, are written.
LEMMA RowWritten ==
    ASSUME NEW row \in Row
    PROVE  /\ [row EXCEPT !.delivered = TRUE] \in Row
           /\ [row EXCEPT !.content = "edited"] \in Row
           /\ [row EXCEPT !.content = "empty", !.deleted = TRUE] \in Row
           /\ [row EXCEPT !.delivered = TRUE].sender = row.sender
           /\ [row EXCEPT !.delivered = TRUE].at = row.at
           /\ [row EXCEPT !.delivered = TRUE].mentions = row.mentions
           /\ [row EXCEPT !.delivered = TRUE].content = row.content
           /\ [row EXCEPT !.delivered = TRUE].deleted = row.deleted
           /\ [row EXCEPT !.content = "edited"].sender = row.sender
           /\ [row EXCEPT !.content = "edited"].at = row.at
           /\ [row EXCEPT !.content = "edited"].mentions = row.mentions
           /\ [row EXCEPT !.content = "edited"].content = "edited"
           /\ [row EXCEPT !.content = "edited"].deleted = row.deleted
           /\ [row EXCEPT !.content = "empty", !.deleted = TRUE].sender = row.sender
           /\ [row EXCEPT !.content = "empty", !.deleted = TRUE].at = row.at
           /\ [row EXCEPT !.content = "empty", !.deleted = TRUE].mentions = row.mentions
           /\ [row EXCEPT !.content = "empty", !.deleted = TRUE].deleted = TRUE
BY DEF Row

\* One row is written, and it stays a row of the same message.
LEMMA OneRow ==
    ASSUME Core, NEW m \in Msgs, Exists(m), NEW row \in Row, message' = [message EXCEPT ![m] = row],
           row.sender = message[m].sender, row.at = message[m].at, row.mentions = message[m].mentions,
           UNCHANGED <<scope, conv, members, reads, noted>>, told' \in [Msgs -> {"none", "sent", "edited", "deleted"}],
           clock' = clock
    PROVE  Kept /\ Tables'
<1>1. message' \in [Msgs -> Row \cup {NoMessage}] /\ message'[m] = row
      /\ \A k \in Msgs : k # m => message'[k] = message[k]
  BY DEF Core, Tables
<1>2. NoMessage \notin Row
  BY MessagesAssumption DEF NoMessage, Row
<1>3. Kept
  BY <1>1, <1>2 DEF Kept, Exists
<1>4. Tables'
  BY <1>1 DEF Core, Tables, members
<1> QED
  BY <1>3, <1>4

LEMMA CoreInsertMessage == ASSUME Core, NEW r \in Reqs, InsertMessage(r) PROVE Core'
<1>1. /\ pc[r] = "insert" /\ call[r].op = "send" /\ UNCHANGED <<scope, conv, role, pointer, reads, noted, told>>
  BY DEF InsertMessage, At, members, events
<1>2. pc[r] \in Steps /\ "badRequest" \in Answers /\ "badRequest" \notin Steps
  BY <1>1, StepsListed DEF SendSteps, Answers
<1>3. call[r] \in Frame /\ FitsAt(call[r], "insert") /\ call[r].actor \in Users /\ call[r].mentions \in SUBSET Users
  BY <1>1, <1>2, InFlightFacts
<1>4. CASE Goto(r, "badRequest") /\ UNCHANGED <<message, clock>>
  <2>1. Reads /\ Goes(call[r], "badRequest")
    BY <1>1, <1>2, <1>4 DEF Reads, members, events, Goes
  <2> QED
    BY <1>2, <1>4, <2>1, ReadingMoves DEF Goto
<1>5. ASSUME conv.live, NEW m \in Msgs, NEW now \in {clock, clock + 1}, ~Exists(m),
             clock' = now, GotoWith(r, "bump", [call[r] EXCEPT !.msg = m]),
             message' = [message EXCEPT ![m] =
                 [sender |-> call[r].actor, at |-> now, content |-> "sent",
                  mentions |-> call[r].mentions, deleted |-> FALSE, delivered |-> FALSE]]
      PROVE  Core'
  <2> DEFINE row == [sender |-> call[r].actor, at |-> now, content |-> "sent",
                     mentions |-> call[r].mentions, deleted |-> FALSE, delivered |-> FALSE]
             f == [call[r] EXCEPT !.msg = m]
  <2>1. row \in Row /\ now \in Nat /\ row.sender = call[r].actor /\ row.mentions = call[r].mentions
    BY <1>3 DEF Row, Core, Tables
  <2>2. /\ f \in Frame /\ f.op = "send" /\ f.msg = m /\ f.actor = call[r].actor
        /\ f.mentions = call[r].mentions /\ f.to = call[r].to
    BY <1>1, <1>3 DEF Frame
  <2>3. NoMessage \notin Row
    BY MessagesAssumption DEF NoMessage, Row
  <2>4. message' = [message EXCEPT ![m] = row] /\ GotoWith(r, "bump", f)
    BY <1>5
  <2> HIDE DEF row, f
  <2>5. /\ message' \in [Msgs -> Row \cup {NoMessage}] /\ message'[m] = row
        /\ \A k \in Msgs : k # m => message'[k] = message[k]
    BY <2>1, <2>4 DEF Core, Tables
  <2>6. Exists(m)' /\ \A k \in Msgs : k # m => (Exists(k)' <=> Exists(k))
    BY <2>1, <2>3, <2>5 DEF Exists
  <2>7. Tables'
    BY <1>1, <1>5, <2>1, <2>5 DEF Core, Tables
  <2>8. Stable
    BY <1>1, <1>5, <2>5, <2>6 DEF Stable
  <2>9. Goes(f, "bump") /\ "bump" \in Steps
    BY <2>2, StepsListed DEF Goes, SendSteps
  <2>10. /\ Frames' /\ pc'[r] = "bump" /\ call'[r] = f
         /\ \A q \in Reqs : q # r => pc'[q] = pc[q] /\ call'[q] = call[q]
    BY <2>4, <2>9, Moves DEF Core, Goes
  <2>11. Fits(r)'
    BY <1>1, <1>3, <2>1, <2>2, <2>5, <2>6, <2>10 DEF Fits, FitsAt
  <2>12. Stored' = Stored \cup {m} /\ m \notin Stored /\ MemberIds' = MemberIds
    BY <1>1, <1>5, <2>6 DEF Stored, MemberIds
  <2>13. Alive' /\ NotedAreStored'
    BY <1>1, <1>5, <2>6 DEF Core, Sound, Alive, NotedAreStored
  <2>14. PointerIsReal'
    BY <1>1, <2>5, <2>12 DEF Core, Sound, PointerIsReal, Stored
  <2>15. ReadsAreTheOthers'
    BY <1>1, <2>5, <2>12 DEF Core, Sound, ReadsAreTheOthers, Stored
  <2>16. \A u \in Users : noted[m][u] = "none"
    BY <1>5 DEF Core, Sound, NotedAreStored
  <2>17. NotifiedByPolicy'
    BY <1>1, <2>5, <2>12, <2>16 DEF Core, Sound, NotifiedByPolicy, Stored
  <2> QED
    BY <2>7, <2>8, <2>10, <2>11, <2>13, <2>14, <2>15, <2>17, WritingKeeps DEF Sound
<1> QED
  BY <1>4, <1>5 DEF InsertMessage

LEMMA CoreBumpConversation == ASSUME Core, NEW r \in Reqs, BumpConversation(r) PROVE Core'
<1>1. pc[r] = "bump" /\ call[r].op = "send" /\ UNCHANGED <<scope, role, pointer, message, reads, noted, told, clock>>
  BY DEF BumpConversation, At, members, events
<1>2. pc[r] \in Steps /\ "notFound" \in Answers /\ "notFound" \notin Steps /\ "point" \in Steps
  BY <1>1, StepsListed DEF SendSteps, Answers
<1>3. call[r] \in Frame /\ FitsAt(call[r], "bump") /\ call[r].msg \in Msgs
  BY <1>1, <1>2, InFlightFacts
<1>4. CASE ~conv.live
  <2>1. Goto(r, "notFound") /\ conv' = conv
    BY <1>4 DEF BumpConversation
  <2>2. Reads /\ Goes(call[r], "notFound")
    BY <1>1, <1>2, <2>1 DEF Reads, members, events, Goes
  <2> QED
    BY <1>2, <2>1, <2>2, ReadingMoves DEF Goto
<1>5. CASE conv.live
  <2>1. Goto(r, "point") /\ conv' = [conv EXCEPT !.lastMessageAt = message[call[r].msg].at]
    BY <1>5 DEF BumpConversation
  <2>2. Exists(call[r].msg) /\ message[call[r].msg].at \in Nat
    BY <1>1, <1>3, <1>5, RowFacts DEF FitsAt, Core
  <2>3. conv' \in [type : {"DIRECT", "GROUP"}, live : BOOLEAN, lastMessageAt : Nat]
        /\ conv'.type = conv.type /\ conv'.live = conv.live
    BY <2>1, <2>2 DEF Core, Tables
  <2>4. Tables' /\ Kept
    BY <1>1, <2>3 DEF Core, Tables, Kept, members, Exists
  <2>5. Goes(call[r], "point")
    BY <1>1, <1>3, StepsListed DEF Goes, SendSteps
  <2>6. /\ Frames' /\ pc'[r] = "point" /\ call'[r] = call[r]
        /\ \A q \in Reqs : q # r => pc'[q] = pc[q] /\ call'[q] = call[q]
    BY <1>2, <2>1, <2>5, Moves DEF Core, Goes, Goto
  <2>7. Fits(r)'
    BY <1>1, <1>3, <2>3, <2>6 DEF Fits, FitsAt, Exists
  <2> QED
    BY <2>4, <2>6, <2>7, KeptIsSound, WritingKeeps
<1> QED
  BY <1>4, <1>5

LEMMA CoreSetPointer == ASSUME Core, NEW r \in Reqs, SetPointer(r) PROVE Core'
<1> DEFINE u == call[r].actor
           m == call[r].msg
           step == IF call[r].op = "send" THEN "recipients" ELSE "record"
<1>1. pc[r] = "point" /\ UNCHANGED <<scope, conv, role, message, reads, noted, told, clock>>
  BY DEF SetPointer, events
<1>2. pc[r] \in Steps /\ "notFound" \in Answers /\ "notFound" \notin Steps /\ step \in Steps
  BY <1>1, StepsListed DEF SendSteps, Answers
<1>3. call[r] \in Frame /\ FitsAt(call[r], "point") /\ m \in Msgs /\ u \in Users
      /\ call[r].op \in {"send", "read"}
  BY <1>1, <1>2, InFlightFacts, StepsListed DEF Operations
<1>4. CASE role[u] = "NONE"
  <2>1. Goto(r, "notFound") /\ pointer' = pointer
    BY <1>4 DEF SetPointer
  <2>2. Reads /\ Goes(call[r], "notFound")
    BY <1>1, <1>2, <2>1 DEF Reads, members, events, Goes
  <2> QED
    BY <1>2, <2>1, <2>2, ReadingMoves DEF Goto
<1>5. CASE role[u] # "NONE"
  <2>1. Goto(r, step) /\ pointer' = [pointer EXCEPT ![u] = [id |-> m, at |-> message[m].at]]
    BY <1>5 DEF SetPointer
  <2>2. conv.live /\ Exists(m) /\ message[m].at \in Nat
    BY <1>1, <1>3, <1>5, RowFacts DEF FitsAt, Core, Sound, Alive
  <2> HIDE DEF step
  <2>3. /\ pointer' \in [Users -> [id : Msgs \cup {None}, at : Nat]]
        /\ pointer'[u] = [id |-> m, at |-> message[m].at]
        /\ \A v \in Users : v # u => pointer'[v] = pointer[v]
    BY <1>3, <2>1, <2>2 DEF Core, Tables
  <2>4. Tables' /\ Stable
    BY <1>1, <2>3 DEF Core, Tables, Stable, Exists
  <2>5. Goes(call[r], step)
    BY <1>1, <1>2, <1>3, StepsListed DEF Goes, SendSteps, step
  <2>6. /\ Frames' /\ pc'[r] = step /\ call'[r] = call[r]
        /\ \A q \in Reqs : q # r => pc'[q] = pc[q] /\ call'[q] = call[q]
    BY <1>2, <2>1, <2>5, Moves DEF Core, Goes, Goto
  <2>7. Fits(r)'
    BY <1>1, <1>3, <2>2, <2>6 DEF Fits, FitsAt, Exists, step
  <2>8. Stored' = Stored /\ MemberIds' = MemberIds
    BY <1>1 DEF Stored, MemberIds, Exists
  <2>9. PointerIsReal'
    <3>1. u \in MemberIds /\ m \in Stored
      BY <1>3, <1>5, <2>2 DEF MemberIds, Stored
    <3> QED
      BY <1>1, <2>3, <2>8, <3>1 DEF Core, Sound, PointerIsReal
  <2>10. Alive' /\ NotedAreStored' /\ ReadsAreTheOthers' /\ NotifiedByPolicy'
    BY <1>1, <2>8 DEF Core, Sound, Alive, NotedAreStored, ReadsAreTheOthers, NotifiedByPolicy, Exists
  <2> QED
    BY <2>4, <2>6, <2>7, <2>9, <2>10, WritingKeeps DEF Sound
<1> QED
  BY <1>4, <1>5

\* A write that keeps what the invariants are about, with the move after it.
LEMMA KeptMoves ==
    ASSUME Core, NEW r \in Reqs, pc[r] \in Steps, Kept, Tables', Frames', Fits(r)',
           \A q \in Reqs : q # r => pc'[q] = pc[q] /\ call'[q] = call[q]
    PROVE  Core'
BY KeptIsSound, WritingKeeps

LEMMA CoreMarkDelivered == ASSUME Core, NEW r \in Reqs, MarkDelivered(r) PROVE Core'
<1> DEFINE m == call[r].msg
<1>1. /\ pc[r] = "deliver" /\ call[r].op = "send" /\ Goto(r, "tell")
      /\ message' = [message EXCEPT ![m].delivered = TRUE]
      /\ UNCHANGED <<scope, conv, members, reads, noted, told, clock>>
  BY DEF MarkDelivered, At, events
<1>2. pc[r] \in Steps /\ "tell" \in Steps
  BY <1>1, StepsListed DEF SendSteps
<1>3. call[r] \in Frame /\ FitsAt(call[r], "deliver") /\ m \in Msgs
  BY <1>1, <1>2, InFlightFacts
<1>4. conv.live /\ Exists(m) /\ message[m] \in Row
  BY <1>1, <1>3, RowFacts DEF FitsAt, Core, Sound, Alive
<1>5. Kept /\ Tables'
  <2> DEFINE row == [message[m] EXCEPT !.delivered = TRUE]
  <2>1. /\ row \in Row /\ row.sender = message[m].sender /\ row.at = message[m].at
        /\ row.mentions = message[m].mentions
    BY <1>4, RowWritten
  <2>2. message' = [message EXCEPT ![m] = row]
    BY <1>1
  <2>3. told' \in [Msgs -> {"none", "sent", "edited", "deleted"}]
    BY <1>1 DEF Core, Tables
  <2> HIDE DEF row
  <2> QED
    BY <1>1, <1>3, <1>4, <2>1, <2>2, <2>3, OneRow
<1>6. Goes(call[r], "tell")
  BY <1>1, <1>3, StepsListed DEF Goes, SendSteps
<1>7. /\ Frames' /\ pc'[r] = "tell" /\ call'[r] = call[r]
      /\ \A q \in Reqs : q # r => pc'[q] = pc[q] /\ call'[q] = call[q]
  BY <1>1, <1>2, <1>6, Moves DEF Core, Goes, Goto
<1>8. Fits(r)'
  BY <1>1, <1>3, <1>4, <1>5, <1>7 DEF Fits, FitsAt, Kept, members
<1> QED
  BY <1>2, <1>5, <1>7, <1>8, KeptMoves

LEMMA CoreTellNew == ASSUME Core, NEW r \in Reqs, TellNew(r) PROVE Core'
<1> DEFINE step == IF call[r].to = {} THEN "ok"
                   ELSE IF conv.type = "GROUP" /\ call[r].mentions # {} THEN "mentions"
                   ELSE "targets"
<1>1. /\ pc[r] = "tell" /\ call[r].op = "send" /\ Goto(r, step)
      /\ told' = [told EXCEPT ![call[r].msg] = "sent"]
      /\ UNCHANGED <<scope, conv, members, message, reads, noted, clock>>
  BY DEF TellNew, At
<1>2. pc[r] \in Steps /\ step \in Steps \cup Answers /\ "ok" \notin Steps
  BY <1>1, StepsListed DEF SendSteps, Answers
<1>3. call[r] \in Frame /\ FitsAt(call[r], "tell") /\ call[r].msg \in Msgs
  BY <1>1, <1>2, InFlightFacts
<1>4. Kept /\ Tables'
  BY <1>1, <1>3 DEF Kept, Core, Tables, Exists, members
<1>5. step \in Steps => /\ step \in {"mentions", "targets"}
                        /\ step = "targets" /\ conv.type # "DIRECT" => call[r].mentions = {}
  BY <1>2 DEF Core, Tables
<1> HIDE DEF step
<1>6. Goes(call[r], step)
  BY <1>1, <1>3, <1>5, StepsListed DEF Goes, SendSteps
<1>7. /\ Frames' /\ pc'[r] = step /\ (step \in Steps => call'[r] = call[r])
      /\ \A q \in Reqs : q # r => pc'[q] = pc[q] /\ call'[q] = call[q]
  BY <1>1, <1>2, <1>6, Moves DEF Core, Goes, Goto
<1>8. Fits(r)'
  BY <1>1, <1>3, <1>5, <1>7 DEF Fits, FitsAt, members, Exists
<1> QED
  BY <1>2, <1>4, <1>7, <1>8, KeptMoves

LEMMA CoreNotifyTargets == ASSUME Core, NEW r \in Reqs, NotifyTargets(r) PROVE Core'
<1> DEFINE m == call[r].msg
           kind(u) == IF conv.type = "GROUP" /\ u \in call[r].mentions THEN "MENTION" ELSE "NEW_MESSAGE"
<1>1. /\ pc[r] = "notify" /\ call[r].op = "send" /\ Goto(r, "ok")
      /\ noted' = [noted EXCEPT ![m] = [u \in Users |-> IF u \in call[r].to THEN kind(u) ELSE @[u]]]
      /\ UNCHANGED <<scope, conv, role, pointer, message, reads, told, clock>>
  BY DEF NotifyTargets, At, members
<1>2. pc[r] \in Steps /\ "ok" \in Answers /\ "ok" \notin Steps
  BY <1>1, StepsListed DEF SendSteps, Answers
<1>3. call[r] \in Frame /\ FitsAt(call[r], "notify") /\ m \in Msgs
  BY <1>1, <1>2, InFlightFacts
<1>4. /\ Frames' /\ pc'[r] = "ok"
      /\ \A q \in Reqs : q # r => pc'[q] = pc[q] /\ call'[q] = call[q]
  BY <1>1, <1>2, Moves DEF Core, Goto
<1>5. Fits(r)'
  BY <1>2, <1>4 DEF Fits
<1>6. \A u \in Users : noted'[m][u] = IF u \in call[r].to THEN kind(u) ELSE noted[m][u]
  BY <1>1, <1>3 DEF Core, Tables
<1>7. \A k \in Msgs : k # m => noted'[k] = noted[k]
  BY <1>1, <1>3 DEF Core, Tables
<1>8. Tables' /\ Stable
  BY <1>1, <1>3 DEF Core, Tables, Stable, Exists
<1>9. Stored' = Stored /\ MemberIds' = MemberIds
  BY <1>1 DEF Stored, MemberIds, Exists
<1>10. conv.live => Exists(m) /\ message[m].sender = call[r].actor /\ call[r].mentions \subseteq message[m].mentions
  BY <1>1, <1>3 DEF FitsAt
<1>11. call[r].actor \notin call[r].to
  BY <1>3 DEF FitsAt
<1>12. NotedAreStored'
  BY <1>1, <1>7, <1>10 DEF Core, Sound, NotedAreStored, Exists
<1>13. NotifiedByPolicy'
  <2> SUFFICES ASSUME NEW k \in Stored, NEW u \in Users
               PROVE  /\ noted'[k][u] # "none" => u # message[k].sender
                      /\ noted'[k][u] = "MENTION" => conv.type = "GROUP" /\ u \in message[k].mentions
    BY <1>1, <1>9 DEF NotifiedByPolicy
  <2>1. /\ noted[k][u] # "none" => u # message[k].sender
        /\ noted[k][u] = "MENTION" => conv.type = "GROUP" /\ u \in message[k].mentions
    BY DEF Core, Sound, NotifiedByPolicy
  <2>2. CASE k # m \/ u \notin call[r].to
    BY <1>6, <1>7, <2>1, <2>2 DEF Stored
  <2>3. CASE k = m /\ u \in call[r].to
    <3>1. conv.live
      BY DEF Core, Sound, Alive, Stored
    <3> QED
      BY <1>6, <1>10, <1>11, <2>3, <3>1
  <2> QED
    BY <2>2, <2>3
<1>14. Alive' /\ PointerIsReal' /\ ReadsAreTheOthers'
  BY <1>1, <1>9 DEF Core, Sound, Alive, PointerIsReal, ReadsAreTheOthers, Exists
<1> QED
  BY <1>4, <1>5, <1>8, <1>12, <1>13, <1>14, WritingKeeps DEF Sound

\* update and delete write content; their frames promise nothing.
LEMMA CoreEdit == ASSUME Core, NEW r \in Reqs, EditMessage(r) \/ DeleteMessage(r) PROVE Core'
<1> DEFINE m == call[r].msg
<1>1. /\ pc[r] = "write" /\ call[r].op \in {"edit", "delete"}
      /\ UNCHANGED <<scope, conv, members, reads, noted, told, clock>>
  BY DEF EditMessage, DeleteMessage, At, events
<1>2. pc[r] \in Steps /\ "announce" \in Steps /\ "notFound" \in Answers /\ "notFound" \notin Steps
  BY <1>1, StepsListed DEF SendSteps, Answers
<1>3. call[r] \in Frame /\ m \in Msgs
  BY <1>1, <1>2, InFlightFacts
<1>4. CASE ~Exists(m)
  <2>1. Goto(r, "notFound") /\ message' = message
    BY <1>4 DEF EditMessage, DeleteMessage
  <2>2. Reads /\ Goes(call[r], "notFound")
    BY <1>1, <1>2, <2>1 DEF Reads, members, events, Goes
  <2> QED
    BY <1>2, <2>1, <2>2, ReadingMoves DEF Goto
<1>5. CASE Exists(m)
  <2>1. message[m] \in Row
    BY <1>3, <1>5, RowFacts DEF Core
  <2>2. PICK row \in Row, shows \in {"edited", "deleted", "empty"} :
            /\ message' = [message EXCEPT ![m] = row]
            /\ row.sender = message[m].sender /\ row.at = message[m].at
            /\ row.mentions = message[m].mentions
            /\ shows # "empty" /\ GotoWith(r, "announce", [call[r] EXCEPT !.shows = shows])
    <3>1. CASE EditMessage(r)
      <4> DEFINE row == [message[m] EXCEPT !.content = "edited"]
      <4>1. /\ message' = [message EXCEPT ![m] = row]
            /\ GotoWith(r, "announce", [call[r] EXCEPT !.shows = Shown(message'[m])])
        BY <1>5, <3>1 DEF EditMessage
      <4>2. message'[m] = row
        BY <1>3, <4>1 DEF Core, Tables
      <4>3. Shown(row) \in {"edited", "deleted"}
        BY <2>1, RowWritten DEF Shown
      <4> QED
        BY <2>1, <4>1, <4>2, <4>3, RowWritten
    <3>2. CASE DeleteMessage(r)
      <4> DEFINE row == [message[m] EXCEPT !.content = "empty", !.deleted = TRUE]
      <4>1. /\ message' = [message EXCEPT ![m].content = "empty", ![m].deleted = TRUE]
            /\ GotoWith(r, "announce", [call[r] EXCEPT !.shows = "deleted"])
        BY <1>5, <3>2 DEF DeleteMessage
      <4>2. message' = [message EXCEPT ![m] = row]
        BY <1>3, <4>1 DEF Core, Tables
      <4> QED
        BY <2>1, <4>1, <4>2, RowWritten
    <3> QED
      BY <3>1, <3>2
  <2> DEFINE f == [call[r] EXCEPT !.shows = shows]
  <2>3. told' \in [Msgs -> {"none", "sent", "edited", "deleted"}]
    BY <1>1 DEF Core, Tables
  <2>4. Kept /\ Tables'
    BY <1>1, <1>3, <1>5, <2>2, <2>3, OneRow
  <2>5. f \in Frame /\ f.op = call[r].op /\ f.msg = m /\ GotoWith(r, "announce", f)
    BY <1>3, <2>2 DEF Frame
  <2> HIDE DEF f
  <2>6. Goes(f, "announce")
    BY <1>1, <1>3, <2>5, StepsListed DEF Goes
  <2>7. /\ Frames' /\ pc'[r] = "announce" /\ call'[r] = f
        /\ \A q \in Reqs : q # r => pc'[q] = pc[q] /\ call'[q] = call[q]
    BY <1>2, <2>5, <2>6, Moves DEF Core, Goes
  <2>8. Fits(r)'
    BY <1>1, <2>5, <2>7 DEF Fits, FitsAt
  <2> QED
    BY <1>2, <2>4, <2>7, <2>8, KeptMoves
<1> QED
  BY <1>4, <1>5

LEMMA CoreAnnounce == ASSUME Core, NEW r \in Reqs, Announce(r) PROVE Core'
<1>1. /\ pc[r] = "announce" /\ Goto(r, "ok") /\ told' = [told EXCEPT ![call[r].msg] = call[r].shows]
      /\ UNCHANGED <<scope, conv, members, message, reads, noted, clock>>
  BY DEF Announce
<1>2. pc[r] \in Steps /\ "ok" \in Answers /\ "ok" \notin Steps
  BY <1>1, StepsListed DEF SendSteps, Answers
<1>3. call[r].shows \in {"none", "sent", "edited", "deleted"} /\ call[r].msg \in Msgs
  BY <1>1, <1>2, InFlightFacts
<1>4. Kept /\ Tables'
  BY <1>1, <1>3 DEF Kept, Core, Tables, Exists, members
<1>5. /\ Frames' /\ pc'[r] = "ok"
      /\ \A q \in Reqs : q # r => pc'[q] = pc[q] /\ call'[q] = call[q]
  BY <1>1, <1>2, Moves DEF Core, Goto
<1>6. Fits(r)'
  BY <1>2, <1>5 DEF Fits
<1> QED
  BY <1>2, <1>4, <1>5, <1>6, KeptMoves

LEMMA CoreUpsertRead == ASSUME Core, NEW r \in Reqs, UpsertRead(r) PROVE Core'
<1>1. /\ pc[r] = "upsert" /\ call[r].op = "read" /\ Goto(r, "ok")
      /\ reads' = reads \cup {<<call[r].msg, call[r].actor>>}
      /\ UNCHANGED <<scope, conv, role, pointer, message, noted, told, clock>>
  BY DEF UpsertRead, At, members, events
<1>2. pc[r] \in Steps /\ "ok" \in Answers /\ "ok" \notin Steps
  BY <1>1, StepsListed DEF SendSteps, Answers
<1>3. FitsAt(call[r], "upsert") /\ call[r].msg \in Msgs /\ call[r].actor \in Users
  BY <1>1, <1>2, InFlightFacts
<1>4. Tables' /\ Stable
  BY <1>1, <1>3 DEF Core, Tables, Stable, Exists
<1>5. /\ Frames' /\ pc'[r] = "ok"
      /\ \A q \in Reqs : q # r => pc'[q] = pc[q] /\ call'[q] = call[q]
  BY <1>1, <1>2, Moves DEF Core, Goto
<1>6. Fits(r)'
  BY <1>2, <1>5 DEF Fits
<1>7. Stored' = Stored /\ MemberIds' = MemberIds
  BY <1>1 DEF Stored, MemberIds, Exists
<1>8. /\ conv.type = "DIRECT" /\ call[r].msg \in Stored /\ call[r].actor \in MemberIds
      /\ message[call[r].msg].sender # call[r].actor
  BY <1>1, <1>3 DEF FitsAt, Core, Sound, Alive, Stored, MemberIds
<1>9. ReadsAreTheOthers'
  BY <1>1, <1>7, <1>8 DEF Core, Sound, ReadsAreTheOthers
<1>10. Alive' /\ NotedAreStored' /\ PointerIsReal' /\ NotifiedByPolicy'
  BY <1>1, <1>7 DEF Core, Sound, Alive, NotedAreStored, PointerIsReal, NotifiedByPolicy, Exists
<1> QED
  BY <1>4, <1>5, <1>6, <1>9, <1>10, WritingKeeps DEF Sound

-----------------------------------------------------------------------------
(* Members, and the whole.                                                 *)

LEMMA CoreMembers ==
    ASSUME Core, NEW u \in Users, Join(u) \/ Leave(u) \/ Promote(u)
    PROVE  Core'
<1>1. /\ conv.type = "GROUP" /\ conv.live
      /\ UNCHANGED <<scope, conv, message, reads, noted, told, clock, pc, call>>
  BY DEF Join, Leave, Promote, Group, events
<1>2. /\ \/ pointer' = pointer /\ (u \in MemberIds => role'[u] # "NONE")
         \/ pointer' = [pointer EXCEPT ![u] = NoPointer]
      /\ role' \in [Users -> Roles \cup {"NONE"}] /\ \A v \in Users : v # u => role'[v] = role[v]
  BY DEF Join, Leave, Promote, Core, Tables, Roles
<1>3. NoPointer \in [id : Msgs \cup {None}, at : Nat]
  BY DEF NoPointer
<1>4. Tables' /\ Frames'
  BY <1>1, <1>2, <1>3 DEF Core, Tables, Frames
<1>5. Stable
  BY <1>1 DEF Stable, Exists
<1>6. Stored' = Stored
  BY <1>1 DEF Stored, Exists
<1>7. PointerIsReal'
  <2> SUFFICES ASSUME NEW v \in Users, pointer'[v] # NoPointer
               PROVE  v \in MemberIds' /\ pointer'[v].id \in Stored
                      /\ pointer'[v].at = message[pointer'[v].id].at
    BY <1>1, <1>6 DEF PointerIsReal
  <2>1. pointer'[v] = pointer[v]
    BY <1>2 DEF Core, Tables
  <2>2. v \in MemberIds /\ pointer[v].id \in Stored /\ pointer[v].at = message[pointer[v].id].at
    BY <2>1 DEF Core, Sound, PointerIsReal
  <2>3. role'[v] # "NONE"
    BY <1>2, <2>1, <2>2 DEF MemberIds, Core, Tables
  <2> QED
    BY <2>1, <2>2, <2>3 DEF MemberIds
<1>8. reads = {}
  BY <1>1 DEF Core, Sound, ReadsAreTheOthers
<1>9. Sound'
  BY <1>1, <1>6, <1>7, <1>8 DEF Core, Sound, Alive, NotedAreStored, ReadsAreTheOthers, NotifiedByPolicy, Exists
<1>10. \A q \in Reqs : Fits(q)'
  BY <1>1, <1>5, FitsStays
<1> QED
  BY <1>4, <1>9, <1>10 DEF Core

LEMMA CoreDelete == ASSUME Core, DeleteConversation PROVE Core'
<1>1. /\ conv.type = "GROUP" /\ conv' = [conv EXCEPT !.live = FALSE]
      /\ role' = [u \in Users |-> "NONE"] /\ pointer' = [u \in Users |-> NoPointer]
      /\ message' = [m \in Msgs |-> NoMessage] /\ reads' = {}
      /\ UNCHANGED <<scope, noted, told, clock, pc, call>>
  BY DEF DeleteConversation, Group, events
<1>2. conv' \in [type : {"DIRECT", "GROUP"}, live : BOOLEAN, lastMessageAt : Nat]
      /\ conv'.type = "GROUP" /\ conv'.live = FALSE
  BY <1>1 DEF Core, Tables
<1>3. NoPointer \in [id : Msgs \cup {None}, at : Nat]
  BY DEF NoPointer
<1>4. Tables' /\ Frames'
  BY <1>1, <1>2, <1>3 DEF Core, Tables, Frames
<1>5. Stable
  BY <1>1, <1>2 DEF Stable
<1>6. Sound'
  BY <1>1, <1>2 DEF Sound, Alive, NotedAreStored, PointerIsReal, ReadsAreTheOthers, NotifiedByPolicy,
                    Stored, Exists
<1>7. \A q \in Reqs : Fits(q)'
  BY <1>1, <1>5, FitsStays
<1> QED
  BY <1>4, <1>6, <1>7 DEF Core

LEMMA CoreFail == ASSUME Core, NEW r \in Reqs, Fail(r) PROVE Core'
<1>1. /\ Frames' /\ pc'[r] = "error"
      /\ \A q \in Reqs : q # r => pc'[q] = pc[q] /\ call'[q] = call[q]
  BY FailMoves DEF Core
<1>2. Reads
  BY DEF Fail, Reads
<1>3. Fits(r)'
  BY <1>1, StepsListed DEF Fits, SendSteps
<1> QED
  BY <1>1, <1>2, <1>3, ReadingKeeps

LEMMA CoreStep == Core /\ [Next]_vars => Core'
<1> SUFFICES ASSUME Core, [Next]_vars PROVE Core'
  OBVIOUS
<1>1. ASSUME NEW r \in Reqs, Handle(r) PROVE Core'
  BY <1>1, CoreAssertMembership, CoreInsertMessage, CoreBumpConversation, CoreSetPointer,
     CoreReadRecipients, CoreAskOnline, CoreMarkDelivered, CoreTellNew, CoreResolveMentions,
     CoreChooseTargets, CoreNotifyTargets, CoreLoad, CoreEdit, CoreAnnounce,
     CoreFindMessage, CoreLoadForRead, CoreUpsertRead DEF Handle
<1>2. CASE UNCHANGED vars
  <2>1. UNCHANGED <<scope, conv, role, pointer, message, reads, noted, told, clock, pc, call>>
    BY <1>2 DEF vars
  <2>2. Frames' /\ Tables' /\ Stable
    BY <2>1 DEF Core, Frames, Tables, Stable, Exists
  <2>3. Sound'
    BY <2>1 DEF Core, Sound, Alive, NotedAreStored, PointerIsReal, ReadsAreTheOthers, NotifiedByPolicy,
                Stored, MemberIds, Exists
  <2>4. \A q \in Reqs : Fits(q)'
    BY <2>1, <2>2, FitsStays
  <2> QED
    BY <2>2, <2>3, <2>4 DEF Core
<1> QED
  BY <1>1, <1>2, CoreReceive, CoreFail, CoreMembers, CoreDelete DEF Next, AllAnswered

LEMMA Always == Spec => []Core
BY CoreInit, CoreStep, PTL DEF Spec

\* The tables and the frames have their types.
THEOREM MessagesTyped == Spec => []TypeOK
<1>1. Core => TypeOK
  BY TypesSplit DEF Core
<1> QED
  BY <1>1, Always, PTL

\* A read pointer names a message that is there, and carries its time.
THEOREM PointersAreReal == Spec => []PointerIsReal
<1>1. Core => PointerIsReal
  BY DEF Core, Sound
<1> QED
  BY <1>1, Always, PTL

\* Receipts are of the other one's messages, in direct conversations only.
THEOREM ReceiptsAreTheOthers == Spec => []ReadsAreTheOthers
<1>1. Core => ReadsAreTheOthers
  BY DEF Core, Sound
<1> QED
  BY <1>1, Always, PTL

\* Nobody is notified of his own message, or mentioned where he was not named.
THEOREM PolicyIsKept == Spec => []NotifiedByPolicy
<1>1. Core => NotifiedByPolicy
  BY DEF Core, Sound
<1> QED
  BY <1>1, Always, PTL

-----------------------------------------------------------------------------
(* Messages and Conversations.                                             *)

\* The behaviours start where Membership can have brought the conversation by
\* creating it: a direct one of two people, a group with one owner.
THEOREM StartsAsCreated == Init => AsCreated
BY CoreInit

\* Nothing is left out: any change Membership allows, with its cascade, is a step
\* of Messages, when membership overlaps the handlers or none is running.
THEOREM EveryChangeIsAStep ==
    ASSUME TypeOK, PointerIsReal, MayChange, Rows!Change, Cascade
    PROVE  Next
<1>1. /\ conv \in [type : {"DIRECT", "GROUP"}, live : BOOLEAN, lastMessageAt : Nat]
      /\ pointer \in [Users -> [id : Msgs \cup {None}, at : Nat]]
      /\ role \in [Users -> Roles \cup {"NONE"}]
  BY DEF TypeOK
<1>2. \A u \in Users : role[u] = "NONE" => pointer[u] = NoPointer
  BY DEF PointerIsReal, MemberIds
<1>3. Kind = "GROUP" => Group
  BY <1>1 DEF Kind, Group
<1>4. CASE \E u \in Users : Rows!Join(u) \/ Rows!Leave(u) \/ Rows!Promote(u)
  <2>1. PICK u \in Users : Rows!Join(u) \/ Rows!Leave(u) \/ Rows!Promote(u)
    BY <1>4
  <2>2. Group /\ Kind' = "GROUP"
    BY <1>3, <2>1 DEF Rows!Join, Rows!Leave, Rows!Promote
  <2>3. /\ conv' = conv /\ message' = message /\ reads' = reads
        /\ UNCHANGED <<scope, events, clock, pc, call>>
    <3>1. [conv EXCEPT !.live = FALSE].live = FALSE
      BY <1>1
    <3>2. conv'.live
      BY <2>2, <3>1 DEF Kind
    <3> QED
      BY <3>1, <3>2 DEF Cascade
  <2>4. CASE Rows!Leave(u)
    <3>1. role' = [role EXCEPT ![u] = "NONE"] /\ u \in MemberIds
      BY <2>4 DEF Rows!Leave, MemberIds
    <3>2. pointer' = [pointer EXCEPT ![u] = NoPointer]
      BY <1>1, <1>2, <3>1 DEF Cascade
    <3>3. Leave(u)
      BY <2>2, <2>3, <3>1, <3>2 DEF Leave
    <3> QED
      BY <3>3 DEF Next
  <2>5. CASE Rows!Join(u) \/ Rows!Promote(u)
    <3>1. /\ role' = [role EXCEPT ![u] = IF Rows!Join(u) THEN "MEMBER" ELSE "OWNER"]
          /\ Rows!Join(u) \/ u \in MemberIds
          /\ Rows!Join(u) => role[u] = "NONE"
      BY <2>5 DEF Rows!Join, Rows!Promote, MemberIds
    <3>2. \A v \in Users : role'[v] = "NONE" => role[v] = "NONE"
      BY <1>1, <3>1
    <3>3. pointer' = pointer
      BY <1>1, <1>2, <3>2 DEF Cascade
    <3>4. Join(u) \/ Promote(u)
      BY <2>2, <2>3, <3>1, <3>3 DEF Join, Promote
    <3> QED
      BY <3>4 DEF Next
  <2> QED
    BY <2>1, <2>4, <2>5
<1>5. CASE Rows!Delete
  <2>1. Group /\ Kind' = "deleted" /\ role' = [u \in Users |-> "NONE"]
    BY <1>3, <1>5 DEF Rows!Delete, Rows!Nobody
  <2>2. conv' = [conv EXCEPT !.live = FALSE] /\ ~conv'.live
    BY <1>1, <2>1 DEF Cascade, Kind, Group
  <2>3. DeleteConversation
    BY <2>1, <2>2 DEF DeleteConversation, Cascade
  <2> QED
    BY <2>3 DEF Next
<1> QED
  BY <1>4, <1>5 DEF Rows!Change

\* Nothing is made up: whatever the handlers of this module do, the rows change
\* as Membership allows, and its changes bring their cascade.
RowsMove == \/ UNCHANGED Rows!rows
            \/ Rows!Change /\ Cascade

LEMMA RowsMoveStep == Core /\ [Next]_vars => RowsMove
<1> SUFFICES ASSUME Core, [Next]_vars PROVE RowsMove
  OBVIOUS
<1>1. /\ conv \in [type : {"DIRECT", "GROUP"}, live : BOOLEAN, lastMessageAt : Nat]
      /\ pointer \in [Users -> [id : Msgs \cup {None}, at : Nat]]
      /\ role \in [Users -> Roles \cup {"NONE"}]
      /\ \A u \in Users : role[u] = "NONE" => pointer[u] = NoPointer
  BY DEF Core, Tables, Sound, PointerIsReal, MemberIds
<1>2. ASSUME conv'.type = conv.type, conv'.live = conv.live, role' = role
      PROVE  UNCHANGED Rows!rows
  BY <1>2 DEF Rows!rows, Kind
<1>3. ASSUME NEW r \in Reqs, Receive(r) \/ Handle(r) PROVE UNCHANGED Rows!rows
  <2>1. CASE BumpConversation(r)
    <3>1. role' = role /\ (conv' = conv \/ \E t : conv' = [conv EXCEPT !.lastMessageAt = t])
      BY <2>1 DEF BumpConversation, members
    <3> QED
      BY <1>1, <1>2, <3>1
  <2>2. CASE ~BumpConversation(r)
    <3>1. conv' = conv /\ role' = role
      BY SMTT(30), <1>3, <2>2
         DEF Receive, Handle, members, AssertMembership, InsertMessage, SetPointer,
             ReadRecipients, AskOnline, MarkDelivered, TellNew, ResolveMentions,
             ChooseTargets, NotifyTargets, LoadMessage, ReadRole, EditMessage,
             DeleteMessage, Announce, FindMessage, LoadForRead, UpsertRead
    <3> QED
      BY <1>2, <3>1
  <2> QED
    BY <2>1, <2>2
<1>4. ASSUME NEW u \in Users, Join(u) \/ Leave(u) \/ Promote(u)
      PROVE  Rows!Change /\ Cascade
  <2>1. /\ Group /\ conv.live /\ Kind = "GROUP" /\ Kind' = "GROUP"
        /\ UNCHANGED <<scope, conv, message, reads, events, clock, pc, call>>
    BY <1>4 DEF Join, Leave, Promote, Group, Kind
  <2>2. Rows!Join(u) \/ Rows!Leave(u) \/ Rows!Promote(u)
    BY <1>4, <2>1 DEF Join, Leave, Promote, MemberIds, Rows!Join, Rows!Leave, Rows!Promote
  <2>3. pointer' = [v \in Users |-> IF role'[v] = "NONE" THEN NoPointer ELSE pointer[v]]
    <3>1. CASE Leave(u)
      BY <1>1, <3>1 DEF Leave
    <3>2. CASE Join(u) \/ Promote(u)
      <4>1. pointer' = pointer /\ \A v \in Users : role'[v] = "NONE" => role[v] = "NONE"
        BY <1>1, <3>2 DEF Join, Promote
      <4> QED
        BY <1>1, <4>1
    <3> QED
      BY <1>4, <3>1, <3>2
  <2> QED
    BY <2>1, <2>2, <2>3 DEF Rows!Change, Cascade
<1>5. CASE DeleteConversation
  <2>1. Kind = "GROUP" /\ conv' = [conv EXCEPT !.live = FALSE] /\ conv'.live = FALSE
    BY <1>1, <1>5 DEF DeleteConversation, Group, Kind
  <2>2. Rows!Delete
    BY <1>5, <2>1 DEF DeleteConversation, Kind, Rows!Delete, Rows!Nobody
  <2>3. Cascade
    BY <1>5, <2>1 DEF DeleteConversation, Cascade
  <2> QED
    BY <2>2, <2>3 DEF Rows!Change, RowsMove
<1>6. CASE AllAnswered \/ UNCHANGED vars \/ \E r \in Reqs : Fail(r)
  BY <1>2, <1>6 DEF AllAnswered, vars, Fail, members, RowsMove
<1> QED
  BY <1>3, <1>4, <1>5, <1>6 DEF RowsMove, Next

THEOREM RowsFollowMembership == Spec => [][RowsMove]_vars
<1>1. Core /\ [Next]_vars => [RowsMove]_vars
  BY RowsMoveStep
<1> QED
  BY <1>1, Always, PTL DEF Spec

-----------------------------------------------------------------------------
(* Deleted for good.                                                       *)

\* What a step leaves alone: who sent a message and when, that it is deleted and,
\* as long as the conversation is, that it is there; in a direct conversation its
\* members, and that its messages are there.
RowsStay ==
    /\ conv'.type = conv.type /\ (conv'.live => conv.live)
    /\ conv'.live => \A m \in Msgs : Exists(m) => Exists(m)'
    /\ \A m \in Msgs : Exists(m) /\ Exists(m)' =>
           /\ message'[m].sender = message[m].sender /\ message'[m].at = message[m].at
           /\ message[m].deleted => message'[m].deleted
    /\ conv.type = "DIRECT" => /\ role' = role
                               /\ \A m \in Msgs : Exists(m) => Exists(m)'

\* One row is replaced by row.
LEMMA Replaced ==
    ASSUME Core, NEW m \in Msgs, NEW row \in Row, message' = [message EXCEPT ![m] = row]
    PROVE  /\ message'[m] = row /\ Exists(m)'
           /\ \A k \in Msgs : k # m => message'[k] = message[k] /\ (Exists(k)' <=> Exists(k))
<1>1. NoMessage \notin Row
  BY MessagesAssumption DEF NoMessage, Row
<1> QED
  BY <1>1 DEF Core, Tables, Exists

LEMMA RowsStayStep == ASSUME Core, [Next]_vars PROVE RowsStay
<1>1. CASE UNCHANGED <<conv, message, role>>
  BY <1>1 DEF RowsStay, Exists
<1>2. ASSUME NEW r \in Reqs, InsertMessage(r) PROVE RowsStay
  <2>1. UNCHANGED <<conv, role>>
    BY <1>2 DEF InsertMessage, members
  <2>2. CASE message' = message
    BY <2>1, <2>2, <1>1
  <2>3. ASSUME NEW m \in Msgs, NEW row, ~Exists(m), message' = [message EXCEPT ![m] = row], row # NoMessage
        PROVE  RowsStay
    BY <2>1, <2>3 DEF RowsStay, Exists, Core, Tables
  <2>4. ASSUME NEW now PROVE [sender |-> call[r].actor, at |-> now, content |-> "sent",
                              mentions |-> call[r].mentions, deleted |-> FALSE,
                              delivered |-> FALSE] # NoMessage
    BY DEF NoMessage
  <2> QED
    BY <1>2, <2>2, <2>3, <2>4 DEF InsertMessage
<1>3. ASSUME NEW r \in Reqs, BumpConversation(r) PROVE RowsStay
  <2>1. conv'.type = conv.type /\ conv'.live = conv.live /\ UNCHANGED <<role, message>>
    BY <1>3 DEF BumpConversation, members, Core, Tables
  <2> QED
    BY <2>1 DEF RowsStay, Exists
<1>4. ASSUME NEW r \in Reqs, MarkDelivered(r) \/ EditMessage(r) \/ DeleteMessage(r) PROVE RowsStay
  <2> DEFINE m == call[r].msg
  <2>1. pc[r] \in {"deliver", "write"} /\ UNCHANGED <<conv, role>> /\ (pc[r] = "deliver" <=> MarkDelivered(r))
    BY <1>4 DEF MarkDelivered, EditMessage, DeleteMessage, At, members
  <2>2. m \in Msgs /\ FitsAt(call[r], pc[r])
    BY <2>1, InFlightFacts, StepsListed DEF SendSteps
  <2>3. CASE message' = message
    BY <2>1, <2>3, <1>1
  <2>4. CASE message' # message
    <3>1. Exists(m)
      BY <1>4, <2>1, <2>2, <2>4 DEF EditMessage, DeleteMessage, FitsAt, Core, Sound, Alive, MarkDelivered, At
    <3>2. message[m] \in Row
      BY <2>2, <3>1, RowFacts DEF Core
    <3>3. PICK row \in Row : /\ message' = [message EXCEPT ![m] = row]
                             /\ row.sender = message[m].sender /\ row.at = message[m].at
                             /\ message[m].deleted => row.deleted
      <4>1. CASE MarkDelivered(r)
        <5> DEFINE row == [message[m] EXCEPT !.delivered = TRUE]
        <5>1. message' = [message EXCEPT ![m] = row]
          BY <4>1 DEF MarkDelivered
        <5>2. row \in Row /\ row.sender = message[m].sender /\ row.at = message[m].at
          BY <3>2, RowWritten
        <5>3. row.deleted = message[m].deleted
          BY <3>2, RowWritten
        <5> HIDE DEF row
        <5> QED
          BY <5>1, <5>2, <5>3
      <4>2. CASE EditMessage(r)
        <5> DEFINE row == [message[m] EXCEPT !.content = "edited"]
        <5>1. message' = [message EXCEPT ![m] = row]
          BY <3>1, <4>2 DEF EditMessage
        <5>2. row \in Row /\ row.sender = message[m].sender /\ row.at = message[m].at
          BY <3>2, RowWritten
        <5>3. row.deleted = message[m].deleted
          BY <3>2, RowWritten
        <5> HIDE DEF row
        <5> QED
          BY <5>1, <5>2, <5>3
      <4>3. CASE DeleteMessage(r)
        <5>1. message' = [message EXCEPT ![m].content = "empty", ![m].deleted = TRUE]
          BY <3>1, <4>3 DEF DeleteMessage
        <5>2. message' = [message EXCEPT ![m] = [message[m] EXCEPT !.content = "empty", !.deleted = TRUE]]
          BY <2>2, <5>1 DEF Core, Tables
        <5> QED
          BY <3>2, <5>2, RowWritten
      <4> QED
        BY <1>4, <4>1, <4>2, <4>3
    <3> QED
      BY <2>1, <2>2, <3>1, <3>3, Replaced DEF RowsStay
  <2> QED
    BY <2>3, <2>4
<1>5. ASSUME NEW u \in Users, Join(u) \/ Leave(u) \/ Promote(u) PROVE RowsStay
  BY <1>5 DEF Join, Leave, Promote, Group, RowsStay, Exists
<1>6. ASSUME DeleteConversation PROVE RowsStay
  <2>1. /\ conv.type = "GROUP" /\ conv'.type = conv.type /\ conv'.live = FALSE
        /\ \A m \in Msgs : ~Exists(m)'
    BY <1>6 DEF DeleteConversation, Group, Core, Tables, Exists
  <2> QED
    BY <2>1 DEF RowsStay
<1>7. ASSUME NEW r \in Reqs, Handle(r) PROVE RowsStay
  <2>1. CASE InsertMessage(r) \/ BumpConversation(r) \/ MarkDelivered(r) \/ EditMessage(r) \/ DeleteMessage(r)
    BY <1>2, <1>3, <1>4, <2>1
  <2>2. CASE UNCHANGED <<conv, message, role>>
    BY <1>1, <2>2
  <2> QED
    BY <1>7, <2>1, <2>2
       DEF Handle, AssertMembership, SetPointer, ReadRecipients, AskOnline, TellNew, ResolveMentions,
           ChooseTargets, NotifyTargets, LoadMessage, ReadRole, Announce, FindMessage, LoadForRead,
           UpsertRead, members
<1>8. ASSUME NEW r \in Reqs, Receive(r) \/ Fail(r) PROVE RowsStay
  BY <1>8, <1>1 DEF Receive, Fail, members
<1>9. CASE UNCHANGED vars
  BY <1>9, <1>1 DEF vars
<1> QED
  BY <1>5, <1>6, <1>7, <1>8, <1>9 DEF Next, AllAnswered

\* Once deleted a message stays deleted, and is shown so.
THEOREM DeletedStaysDeleted == Spec => DeletedForGood
<1>1. Core /\ [Next]_vars =>
          [\A m \in Stored : message[m].deleted /\ Exists(m)'
              => message'[m].deleted /\ Shown(message'[m]) = "deleted"]_vars
  BY RowsStayStep DEF RowsStay, Stored, Shown
<1> QED
  BY <1>1, Always, PTL DEF Spec, DeletedForGood

-----------------------------------------------------------------------------
(* Who still has to be told.                                               *)

LEMMA GotoFacts ==
    ASSUME Core, NEW r \in Reqs, NEW step, NEW f, GotoWith(r, step, f)
    PROVE  /\ pc'[r] = step /\ (step \notin Answers => call'[r] = f)
           /\ (step \in Answers => call'[r] = NoFrame)
           /\ \A q \in Reqs : q # r => pc'[q] = pc[q] /\ call'[q] = call[q]
BY DEF GotoWith, Core, Frames

\* A step is of one request, whose operation, actor and message stay.
LEMMA OneMoves ==
    ASSUME Core, NEW r \in Reqs, Receive(r) \/ Handle(r)
    PROVE  \A q \in Reqs : q # r => pc'[q] = pc[q] /\ call'[q] = call[q]
<1>1. \E step, f : GotoWith(r, step, f)
  BY DEF Receive, Handle, AssertMembership, InsertMessage, BumpConversation, SetPointer,
         ReadRecipients, AskOnline, MarkDelivered, TellNew, ResolveMentions,
         ChooseTargets, NotifyTargets, LoadMessage, ReadRole, EditMessage, DeleteMessage, Announce,
         FindMessage, LoadForRead, UpsertRead, Goto
<1> QED
  BY SMTT(30), <1>1, GotoFacts

\* What was cut short stays so.
LEMMA CutShortStays ==
    ASSUME Core, [Next]_vars, NEW m, NEW ops, CutShort(m, ops)
    PROVE  CutShort(m, ops)'
<1>1. PICK q \in Reqs : pc[q] = "error" /\ call[q].op \in ops /\ call[q].msg = m
  BY DEF CutShort
<1>2. ASSUME NEW r \in Reqs, Receive(r) \/ Handle(r) \/ Fail(r) PROVE r # q
  BY <1>1, <1>2, StepsListed
     DEF Receive, Fail, InFlight, Handle, AssertMembership, InsertMessage, BumpConversation,
         SetPointer, ReadRecipients, AskOnline, MarkDelivered, TellNew, ResolveMentions,
         ChooseTargets, NotifyTargets, LoadMessage, ReadRole, EditMessage, DeleteMessage, Announce,
         FindMessage, LoadForRead, UpsertRead, At, SendSteps
<1>3. pc'[q] = pc[q] /\ call'[q] = call[q]
  <2>1. ASSUME NEW r \in Reqs, Receive(r) \/ Handle(r) PROVE pc'[q] = pc[q] /\ call'[q] = call[q]
    BY <1>2, <2>1, OneMoves
  <2>2. ASSUME NEW r \in Reqs, Fail(r) PROVE pc'[q] = pc[q] /\ call'[q] = call[q]
    BY <1>2, <2>2, FailMoves DEF Core
  <2> QED
    BY <2>1, <2>2 DEF Next, AllAnswered, vars, Join, Leave, Promote, DeleteConversation
<1> QED
  BY <1>1, <1>3 DEF CutShort

\* The send that will notify u of m.
Notifying(r, m, u) ==
    /\ call[r].op = "send" /\ call[r].msg = m
    /\ \/ pc[r] \in {"bump", "point", "recipients"}
       \/ pc[r] \in {"online", "deliver", "tell", "targets", "notify"} /\ u \in call[r].to
Notified ==
    conv.type = "DIRECT" =>
        \A m \in Stored, u \in MemberIds :
            u # message[m].sender =>
                \/ noted[m][u] = "NEW_MESSAGE" \/ CutShort(m, {"send"})
                \/ \E r \in Reqs : Notifying(r, m, u)

\* The steps of one send, in a direct conversation.
LEMMA NotifyingStep ==
    ASSUME Core, conv.type = "DIRECT", NEW r \in Reqs, NEW m \in Stored, NEW u \in MemberIds,
           u # message[m].sender, Receive(r) \/ Handle(r), Notifying(r, m, u)
    PROVE  noted'[m][u] = "NEW_MESSAGE" \/ Notifying(r, m, u)'
<1> USE DEF Notifying, Answers
<1>1. /\ pc[r] \in {"bump", "point", "recipients", "online", "deliver", "tell", "targets", "notify"}
      /\ call[r].op = "send" /\ call[r].msg = m
  OBVIOUS
<1>2. pc[r] \in Steps /\ call[r] \in Frame /\ FitsAt(call[r], pc[r]) /\ conv.live
  BY <1>1, InFlightFacts, StepsListed DEF SendSteps, Core, Sound, Alive
<1>3. message[m].sender = call[r].actor /\ role[call[r].actor] # "NONE" /\ u \in Users /\ m \in Msgs
  BY <1>1, <1>2 DEF FitsAt, MemberIds, Stored
<1>4. CASE BumpConversation(r)
  BY <1>1, <1>2, <1>4, GotoFacts DEF BumpConversation, Goto
<1>5. CASE SetPointer(r)
  BY <1>1, <1>2, <1>3, <1>5, GotoFacts DEF SetPointer, Goto
<1>6. CASE ReadRecipients(r)
  <2> DEFINE to == MemberIds \ {call[r].actor}
             f == [call[r] EXCEPT !.to = to]
             step == IF conv.type = "DIRECT" /\ Cardinality(to) = 1 THEN "online" ELSE "tell"
  <2>1. GotoWith(r, step, f) /\ step \in {"online", "tell"}
    BY <1>6 DEF ReadRecipients
  <2>2. f.op = "send" /\ f.msg = m /\ u \in f.to
    BY <1>1, <1>2, <1>3 DEF Frame
  <2> HIDE DEF f, step
  <2> QED
    BY <2>1, <2>2, GotoFacts
<1>7. CASE AskOnline(r) \/ MarkDelivered(r)
  BY <1>1, <1>7, GotoFacts DEF AskOnline, MarkDelivered, At, Goto
<1>8. CASE TellNew(r)
  BY <1>1, <1>8, GotoFacts DEF TellNew, At, Goto
<1>9. CASE ChooseTargets(r)
  <2>1. PICK online : GotoWith(r, IF Targets(r, online) = {} THEN "ok" ELSE "notify",
                               [call[r] EXCEPT !.to = Targets(r, online)])
    BY <1>9 DEF ChooseTargets
  <2>2. Targets(r, online) = call[r].to /\ u \in call[r].to
    BY <1>1, <1>9 DEF Targets, ChooseTargets, At
  <2> DEFINE f == [call[r] EXCEPT !.to = Targets(r, online)]
  <2>3. f.op = "send" /\ f.msg = m /\ f.to = call[r].to
    BY <1>1, <1>2, <2>2 DEF Frame
  <2>4. GotoWith(r, "notify", f)
    BY <2>1, <2>2
  <2> HIDE DEF f
  <2> QED
    BY <2>2, <2>3, <2>4, GotoFacts
<1>10. CASE NotifyTargets(r)
  <2>1. u \in call[r].to
    BY <1>1, <1>10 DEF NotifyTargets, At
  <2>2. noted'[m] = [v \in Users |-> IF v \in call[r].to
                        THEN IF conv.type = "GROUP" /\ v \in call[r].mentions
                             THEN "MENTION" ELSE "NEW_MESSAGE"
                        ELSE noted[m][v]]
    BY SMTT(30), <1>1, <1>3, <1>10 DEF NotifyTargets, Core, Tables
  <2> QED
    BY <1>3, <2>1, <2>2
<1> QED
  BY <1>1, <1>4, <1>5, <1>6, <1>7, <1>8, <1>9, <1>10
     DEF Receive, Handle, AssertMembership, InsertMessage, ResolveMentions, LoadMessage, ReadRole,
         EditMessage, DeleteMessage, Announce, FindMessage, LoadForRead, UpsertRead, At

\* A new message is about to be told of; a notification is never taken back.
LEMMA NotedStays ==
    ASSUME Core, conv.type = "DIRECT", [Next]_vars, NEW m \in Stored, NEW u \in MemberIds,
           noted[m][u] = "NEW_MESSAGE"
    PROVE  noted'[m][u] = "NEW_MESSAGE"
<1>1. CASE noted' = noted
  BY <1>1
<1>2. ASSUME NEW r \in Reqs, NotifyTargets(r) PROVE noted'[m][u] = "NEW_MESSAGE"
  <2>1. call[r].msg \in Msgs
    BY <1>2, InFlightFacts, StepsListed DEF NotifyTargets, At, SendSteps
  <2>2. noted' = [noted EXCEPT ![call[r].msg] =
                    [v \in Users |-> IF v \in call[r].to
                        THEN IF conv.type = "GROUP" /\ v \in call[r].mentions
                             THEN "MENTION" ELSE "NEW_MESSAGE"
                        ELSE @[v]]]
    BY <1>2 DEF NotifyTargets
  <2>3. conv.type # "GROUP" /\ m \in Msgs /\ u \in Users
    BY DEF Stored, MemberIds
  <2> QED
    BY <2>1, <2>2, <2>3 DEF Core, Tables
<1> QED
  BY ZenonT(40), <1>1, <1>2
     DEF Next, AllAnswered, vars, Join, Leave, Promote, DeleteConversation, Receive, Fail, Handle,
         AssertMembership, InsertMessage, BumpConversation, SetPointer,
         ReadRecipients, AskOnline, MarkDelivered, TellNew, ResolveMentions,
         ChooseTargets, LoadMessage, ReadRole, EditMessage, DeleteMessage, Announce,
         FindMessage, LoadForRead, UpsertRead, events

\* Only an insert makes a row, and goes on to tell of it.
LEMMA NewRow ==
    ASSUME Core, [Next]_vars, NEW m \in Msgs, ~Exists(m), Exists(m)'
    PROVE  \E r \in Reqs : /\ pc[r] = "insert" /\ pc'[r] = "bump"
                           /\ call'[r].op = "send" /\ call'[r].msg = m
                           /\ Shown(message'[m]) = "sent" /\ told'[m] = "none"
<1>1. PICK r \in Reqs : Handle(r) /\ message' # message
  BY DEF Next, AllAnswered, vars, Join, Leave, Promote, DeleteConversation, Receive, Fail, Exists
<1>2. CASE InsertMessage(r)
  <2>1. pc[r] = "insert" /\ call[r].op = "send"
    BY <1>2 DEF InsertMessage, At
  <2>2. call[r] \in Frame
    BY <2>1, InFlightFacts, StepsListed DEF SendSteps
  <2>3. PICK k \in Msgs, now \in {clock, clock + 1} :
            /\ message' = [message EXCEPT ![k] =
                   [sender |-> call[r].actor, at |-> now, content |-> "sent",
                    mentions |-> call[r].mentions, deleted |-> FALSE, delivered |-> FALSE]]
            /\ GotoWith(r, "bump", [call[r] EXCEPT !.msg = k])
            /\ told'[k] = "none"
    BY <1>1, <1>2 DEF InsertMessage, events
  <2>4. k = m /\ Shown(message'[m]) = "sent" /\ told'[m] = "none"
    BY <2>3 DEF Core, Tables, Exists, Shown
  <2> DEFINE f == [call[r] EXCEPT !.msg = k]
  <2>5. f.op = "send" /\ f.msg = m
    BY <2>1, <2>2, <2>4 DEF Frame
  <2> HIDE DEF f
  <2>6. pc'[r] = "bump" /\ call'[r] = f
    BY <2>3, GotoFacts DEF f, Answers
  <2> QED
    BY <2>1, <2>4, <2>5, <2>6
<1>3. CASE MarkDelivered(r) \/ EditMessage(r) \/ DeleteMessage(r)
  <2>1. Exists(call[r].msg)
    <3>1. CASE MarkDelivered(r)
      <4>1. pc[r] = "deliver" /\ call[r].op = "send"
        BY <3>1 DEF MarkDelivered, At
      <4>2. FitsAt(call[r], "deliver")
        BY <4>1, InFlightFacts, StepsListed DEF SendSteps
      <4> QED
        BY <4>1, <4>2 DEF FitsAt, Core, Sound, Alive
    <3> QED
      BY <1>1, <1>3, <3>1 DEF EditMessage, DeleteMessage
  <2>2. m # call[r].msg => message'[m] = message[m]
    BY <1>3 DEF MarkDelivered, EditMessage, DeleteMessage, Core, Tables
  <2> QED
    BY <2>1, <2>2 DEF Exists
<1> QED
  BY <1>1, <1>2, <1>3
     DEF Handle, AssertMembership, BumpConversation, SetPointer,
         ReadRecipients, AskOnline, TellNew, ResolveMentions,
         ChooseTargets, NotifyTargets, LoadMessage, ReadRole, Announce,
         FindMessage, LoadForRead, UpsertRead

LEMMA NotifiedStep == Core /\ Notified /\ [Next]_vars => Notified'
<1> SUFFICES ASSUME Core, Notified, [Next]_vars, conv.type = "DIRECT",
                    NEW m \in Stored', NEW u \in MemberIds', u # message'[m].sender
             PROVE  \/ noted'[m][u] = "NEW_MESSAGE" \/ CutShort(m, {"send"})'
                    \/ \E r \in Reqs : Notifying(r, m, u)'
  BY RowsStayStep DEF Notified, RowsStay
<1>1. RowsStay /\ u \in MemberIds /\ m \in Msgs
  BY RowsStayStep DEF RowsStay, MemberIds, Stored
<1>2. CASE ~Exists(m)
  BY <1>1, <1>2, NewRow DEF Stored, Notifying
<1>3. CASE Exists(m)
  <2>1. m \in Stored /\ u # message[m].sender
    BY <1>1, <1>3 DEF RowsStay, Stored
  <2>2. CASE noted[m][u] = "NEW_MESSAGE"
    BY <1>1, <2>1, <2>2, NotedStays
  <2>3. CASE CutShort(m, {"send"})
    BY <2>3, CutShortStays
  <2>4. ASSUME NEW q \in Reqs, Notifying(q, m, u)
        PROVE  \/ noted'[m][u] = "NEW_MESSAGE" \/ CutShort(m, {"send"})'
               \/ \E r \in Reqs : Notifying(r, m, u)'
    <3>1. ASSUME NEW r \in Reqs, Receive(r) \/ Handle(r)
          PROVE  noted'[m][u] = "NEW_MESSAGE" \/ Notifying(q, m, u)'
      <4>1. CASE q = r
        BY <1>1, <2>1, <2>4, <3>1, <4>1, NotifyingStep
      <4>2. CASE q # r
        BY <2>4, <3>1, <4>2, OneMoves DEF Notifying
      <4> QED
        BY <4>1, <4>2
    <3>2. ASSUME NEW r \in Reqs, Fail(r)
          PROVE  CutShort(m, {"send"})' \/ Notifying(q, m, u)'
      <4>1. CASE q = r
        BY <2>4, <3>2, <4>1, FailMoves DEF Core, CutShort, Notifying
      <4>2. CASE q # r
        BY <2>4, <3>2, <4>2, FailMoves DEF Core, Notifying
      <4> QED
        BY <4>1, <4>2
    <3>3. CASE UNCHANGED <<pc, call>>
      BY <2>4, <3>3 DEF Notifying
    <3> QED
      BY <3>1, <3>2, <3>3 DEF Next, AllAnswered, vars, Join, Leave, Promote, DeleteConversation
  <2> QED
    BY <2>1, <1>1, <2>2, <2>3, <2>4 DEF Notified
<1> QED
  BY <1>2, <1>3

\* Every direct message whose send was not cut short notifies the other one.
THEOREM DirectsAreNotified == Spec => []DirectsNotified
<1>1. Init => Notified
  <2> SUFFICES ASSUME Init PROVE Notified
    OBVIOUS
  <2>1. None \notin Msgs
    BY MessagesAssumption
  <2> QED
    BY <2>1 DEF Init, Founded, Notified, Stored, MemberIds, Exists, NoMessage
<1>2. Core /\ Notified => DirectsNotified
  <2> SUFFICES ASSUME Core, Notified, AtRest PROVE DirectsNotified
    BY DEF DirectsNotified
  <2>1. \A r \in Reqs : pc[r] \notin SendSteps
    BY StepsListed DEF AtRest, InFlight
  <2> QED
    BY <2>1 DEF Notified, Notifying, DirectsNotified, SendSteps
<1> QED
  BY <1>1, <1>2, NotifiedStep, Always, PTL DEF Spec

-----------------------------------------------------------------------------
(* The sidebar, when sends wait for one another; the room, when whatever   *)
(* writes does.                                                            *)

\* Of the operations outside the scope's overlap, at most one request is in
\* flight, and while a send is, its sender stays a member.
OneOf(ops) ==
    \A r, q \in Reqs : (/\ pc[r] \in Steps /\ call[r].op \in ops
                        /\ pc[q] \in Steps /\ call[q].op \in ops) => r = q
SendersStay ==
    \A r \in Reqs : pc[r] \in {"insert", "bump", "point"} /\ call[r].op = "send" =>
                        role[call[r].actor] # "NONE"
Waiting == Operations \ scope.overlap
OneWrites == OneOf(Waiting) /\ ("membership" \notin scope.overlap => SendersStay)

\* A request that moves keeps its operation and its actor.
LEMMA OpStays ==
    ASSUME Core, NEW r \in Reqs, Handle(r), pc'[r] \in Steps
    PROVE  pc[r] \in Steps /\ call'[r].op = call[r].op /\ call'[r].actor = call[r].actor
<1>1. pc[r] \in Steps
  BY StepsListed
     DEF Handle, AssertMembership, InsertMessage, BumpConversation, SetPointer,
         ReadRecipients, AskOnline, MarkDelivered, TellNew, ResolveMentions,
         ChooseTargets, NotifyTargets, LoadMessage, ReadRole, EditMessage, DeleteMessage, Announce,
         FindMessage, LoadForRead, UpsertRead, At, SendSteps
<1>2. call[r] \in Frame
  BY <1>1, InFlightFacts
<1>3. ASSUME NEW step, NEW f, GotoWith(r, step, f), f.op = call[r].op, f.actor = call[r].actor
      PROVE  call'[r].op = call[r].op /\ call'[r].actor = call[r].actor
  <2>1. step \notin Answers
    BY SMTT(30), <1>3, GotoFacts, StepsListed DEF Answers, SendSteps
  <2> QED
    BY <1>3, <2>1, GotoFacts
<1>4. \E step, f : GotoWith(r, step, f) /\ f.op = call[r].op /\ f.actor = call[r].actor
  <2>1. ASSUME NEW x, NEW f, \/ f = [call[r] EXCEPT !.msg = x] \/ f = [call[r] EXCEPT !.to = x]
                             \/ f = [call[r] EXCEPT !.shows = x] \/ f = [call[r] EXCEPT !.mentions = x]
        PROVE  f.op = call[r].op /\ f.actor = call[r].actor
    BY <1>2, <2>1 DEF Frame
  <2>2. CASE \E step : Goto(r, step)
    BY <2>2 DEF Goto
  <2>3. CASE \E step, x : \/ GotoWith(r, step, [call[r] EXCEPT !.msg = x])
                          \/ GotoWith(r, step, [call[r] EXCEPT !.to = x])
                          \/ GotoWith(r, step, [call[r] EXCEPT !.shows = x])
    <3>1. PICK step, x, f : /\ GotoWith(r, step, f)
                            /\ \/ f = [call[r] EXCEPT !.msg = x] \/ f = [call[r] EXCEPT !.to = x]
                               \/ f = [call[r] EXCEPT !.shows = x]
      BY <2>3
    <3> QED
      BY <2>1, <3>1
  <2>4. CASE ResolveMentions(r)
    <3> DEFINE M == call[r].mentions \cap call[r].to \cap MemberIds
               f == [call[r] EXCEPT !.mentions = M]
    <3>1. GotoWith(r, "targets", f)
      BY <1>2, <2>4 DEF ResolveMentions, Frame
    <3>2. f.op = call[r].op /\ f.actor = call[r].actor
      BY <2>1
    <3> HIDE DEF f
    <3> QED
      BY <3>1, <3>2
  <2> QED
    BY <2>2, <2>3, <2>4
       DEF Handle, AssertMembership, InsertMessage, BumpConversation, SetPointer,
           ReadRecipients, AskOnline, MarkDelivered, TellNew,
           ChooseTargets, NotifyTargets, LoadMessage, ReadRole, EditMessage, DeleteMessage, Announce,
           FindMessage, LoadForRead, UpsertRead
<1> QED
  BY SMTT(30), <1>1, <1>3, <1>4

LEMMA OneWritesStep == Core /\ OneWrites /\ [Next]_vars => OneWrites'
<1> SUFFICES ASSUME Core, OneWrites, [Next]_vars PROVE OneWrites'
  OBVIOUS
<1>1. Waiting' = Waiting /\ scope' = scope
  BY ZenonT(40) DEF Next, AllAnswered, vars, Join, Leave, Promote, DeleteConversation, Receive, Fail,
         Handle, AssertMembership, InsertMessage, BumpConversation, SetPointer,
         ReadRecipients, AskOnline, MarkDelivered, TellNew, ResolveMentions,
         ChooseTargets, NotifyTargets, LoadMessage, ReadRole, EditMessage, DeleteMessage, Announce,
         FindMessage, LoadForRead, UpsertRead, Waiting
<1>2. CASE UNCHANGED <<pc, call, role>>
  BY <1>1, <1>2 DEF OneWrites, OneOf, SendersStay
<1>3. ASSUME NEW r \in Reqs, Handle(r) PROVE OneWrites'
  <2>1. \A q \in Reqs : q # r => pc'[q] = pc[q] /\ call'[q] = call[q]
    BY <1>3, OneMoves
  <2>2. pc'[r] \in Steps =>
            pc[r] \in Steps /\ call'[r].op = call[r].op /\ call'[r].actor = call[r].actor
    BY <1>3, OpStays
  <2>3. role' = role
    BY <1>3
       DEF Handle, AssertMembership, InsertMessage, BumpConversation, SetPointer,
           ReadRecipients, AskOnline, MarkDelivered, TellNew, ResolveMentions,
           ChooseTargets, NotifyTargets, LoadMessage, ReadRole, EditMessage, DeleteMessage, Announce,
           FindMessage, LoadForRead, UpsertRead, members
  <2>4. ASSUME SendersStay, pc'[r] \in {"insert", "bump", "point"}, call'[r].op = "send"
        PROVE  role[call'[r].actor] # "NONE"
    <3>1. call'[r].op = call[r].op /\ call'[r].actor = call[r].actor
      BY <2>2, <2>4, StepsListed DEF SendSteps
    <3>2. CASE pc[r] \in {"insert", "bump", "point"}
      BY <2>4, <3>1, <3>2 DEF SendersStay
    <3>3. CASE pc[r] \notin {"insert", "bump", "point"}
      <4>1. AssertMembership(r)
        <5>1. \A step : Goto(r, step) => pc'[r] = step
          BY GotoFacts DEF Goto
        <5>2. \A step, f : GotoWith(r, step, f) => pc'[r] = step
          BY GotoFacts
        <5> QED
          BY <1>3, <2>4, <3>1, <3>3, <5>1, <5>2
             DEF Handle, AssertMembership, InsertMessage, BumpConversation, SetPointer,
                 ReadRecipients, AskOnline, MarkDelivered, TellNew, ResolveMentions,
                 ChooseTargets, NotifyTargets, LoadMessage, ReadRole, EditMessage, DeleteMessage, Announce,
                 FindMessage, LoadForRead, UpsertRead, At
      <4> QED
        BY <2>4, <3>1, <4>1, GotoFacts DEF AssertMembership, Goto
    <3> QED
      BY <3>2, <3>3
  <2>5. ASSUME NEW q \in Reqs, pc'[q] \in Steps
        PROVE  pc[q] \in Steps /\ call'[q].op = call[q].op
    BY <2>1, <2>2, <2>5
  <2>6. OneOf(Waiting)'
    BY <1>1, <2>5 DEF OneWrites, OneOf
  <2>7. ASSUME SendersStay, NEW q \in Reqs,
               pc'[q] \in {"insert", "bump", "point"}, call'[q].op = "send"
        PROVE  role'[call'[q].actor] # "NONE"
    BY <2>1, <2>3, <2>4, <2>7 DEF SendersStay
  <2>8. SendersStay => SendersStay'
    BY <2>7 DEF SendersStay
  <2> QED
    BY <1>1, <2>6, <2>8 DEF OneWrites
<1>4. ASSUME NEW r \in Reqs, Receive(r) PROVE OneWrites'
  <2>1. \A q \in Reqs : q # r => pc'[q] = pc[q] /\ call'[q] = call[q]
    BY <1>4, OneMoves
  <2>2. PICK op \in Operations, a \in Users, m \in Msgs \cup {None}, M \in SUBSET Users :
         /\ MayStart(op)
         /\ GotoWith(r, IF op \in {"send", "read"} THEN "check" ELSE "load",
                [op |-> op, actor |-> a, msg |-> m, mentions |-> M, to |-> {}, shows |-> "none"])
    BY <1>4, ScopeFacts DEF Receive
  <2>3. pc'[r] \in {"check", "load"} /\ call'[r].op = op
    BY <2>2, GotoFacts DEF Answers
  <2>4. op \in Waiting => \A q \in Reqs : pc[q] \in Steps => call[q].op \notin Waiting
    BY <2>2 DEF MayStart, Waiting, InFlight
  <2>5. role' = role /\ pc[r] \notin Steps
    BY <1>4, StepsListed DEF Receive, members, SendSteps
  <2>6. OneOf(Waiting)'
    BY <1>1, <2>1, <2>3, <2>4 DEF OneWrites, OneOf
  <2>7. SendersStay => SendersStay'
    BY <2>1, <2>3, <2>5 DEF SendersStay
  <2> QED
    BY <1>1, <2>6, <2>7 DEF OneWrites
<1>5. ASSUME NEW r \in Reqs, Fail(r) PROVE OneWrites'
  <2>1. /\ pc'[r] \notin Steps /\ pc'[r] \notin {"insert", "bump", "point"}
        /\ \A q \in Reqs : q # r => pc'[q] = pc[q] /\ call'[q] = call[q]
    BY <1>5, FailMoves, StepsListed DEF Core, SendSteps
  <2>2. role' = role
    BY <1>5 DEF Fail, members
  <2> QED
    BY <1>1, <2>1, <2>2 DEF OneWrites, OneOf, SendersStay
<1>6. ASSUME UNCHANGED <<pc, call>>, MayChange PROVE OneWrites'
  <2>1. "membership" \notin scope.overlap =>
            \A q \in Reqs : pc'[q] \notin Steps /\ pc'[q] \notin {"insert", "bump", "point"}
    BY <1>6, StepsListed DEF MayChange, InFlight, SendSteps
  <2>2. OneOf(Waiting)'
    BY <1>1, <1>6 DEF OneWrites, OneOf
  <2> QED
    BY <1>1, <2>1, <2>2 DEF OneWrites, SendersStay
<1> QED
  BY <1>2, <1>3, <1>4, <1>5, <1>6
     DEF Next, AllAnswered, vars, Join, Leave, Promote, DeleteConversation, Group

\* Only an insert begins a bump, and a bump ends it.
LEMMA BumpMoves ==
    ASSUME Core, NEW r \in Reqs, Receive(r) \/ Handle(r), ~InsertMessage(r), ~BumpConversation(r)
    PROVE  /\ pc[r] # "bump" /\ pc'[r] # "bump" /\ clock' = clock /\ conv' = conv
<1>1. \A step : Goto(r, step) => pc'[r] = step
  BY GotoFacts DEF Goto
<1>2. \A step, f : GotoWith(r, step, f) => pc'[r] = step
  BY GotoFacts
<1> QED
  BY <1>1, <1>2
     DEF Receive, Handle, AssertMembership, SetPointer, ReadRecipients, AskOnline, MarkDelivered,
         TellNew, ResolveMentions, ChooseTargets, NotifyTargets, LoadMessage, ReadRole, EditMessage,
         DeleteMessage, Announce, FindMessage, LoadForRead, UpsertRead, At

\* Insert by insert the times go up; what the sidebar lacks a bump is bringing.
Bumping(r) == pc[r] = "bump" /\ conv.live
InSidebar(m) ==
    \/ message[m].at <= conv.lastMessageAt
    \/ CutShort(m, {"send"})
    \/ \E r \in Reqs : Bumping(r) /\ call[r].msg = m
TimesRise ==
    "send" \notin scope.overlap =>
        /\ \A m \in Stored : message[m].at <= clock
        /\ \A r \in Reqs : Bumping(r) =>
               \A m \in Stored : message[m].at <= message[call[r].msg].at
        /\ \A m \in Stored : InSidebar(m)

LEMMA BumpingFacts ==
    ASSUME Core, NEW r \in Reqs, pc[r] = "bump"
    PROVE  /\ pc[r] \in Steps /\ call[r].op = "send" /\ call[r].msg \in Msgs
           /\ conv.live => Exists(call[r].msg)
<1>1. pc[r] \in Steps
  BY StepsListed DEF SendSteps
<1>2. call[r].op = "send" /\ call[r].msg \in Msgs /\ FitsAt(call[r], "bump")
  BY <1>1, InFlightFacts, StepsListed DEF Operations
<1> QED
  BY <1>1, <1>2 DEF FitsAt

\* A step other than an insert and a bump does not touch the times; one that
\* ends a bump in an error cuts it short.
LEMMA TimesStay ==
    ASSUME Core, TimesRise, [Next]_vars, RowsStay, scope' = scope, clock' = clock,
           conv'.live => conv'.lastMessageAt = conv.lastMessageAt,
           \A m \in Msgs : Exists(m)' => Exists(m),
           \A m \in Msgs : Exists(m)' => conv'.live,
           \A r \in Reqs : pc'[r] = "bump" => pc[r] = "bump" /\ call'[r] = call[r],
           \A r \in Reqs : pc[r] = "bump" => \/ pc'[r] = "bump"
                                              \/ /\ CutShort(call[r].msg, {"send"})'
                                                 /\ call'[r].msg = call[r].msg
    PROVE  TimesRise'
<1> SUFFICES ASSUME "send" \notin scope'.overlap PROVE TimesRise'
  BY DEF TimesRise
<1>1. "send" \notin scope.overlap
  OBVIOUS
<1>2. CASE ~conv'.live
  BY <1>2 DEF TimesRise, Stored, Bumping
<1>3. CASE conv'.live
  <2>1. /\ conv.live /\ Stored' = Stored
        /\ \A m \in Stored : message'[m].at = message[m].at
    BY <1>3 DEF RowsStay, Stored
  <2>2. \A r \in Reqs : Bumping(r)' => Bumping(r) /\ call'[r] = call[r]
    BY <1>3, <2>1 DEF Bumping
  <2>3. ASSUME NEW r \in Reqs, Bumping(r)
        PROVE  call[r].msg \in Stored
    BY <2>3, BumpingFacts DEF Bumping, Stored
  <2>4. \A m \in Stored' : message'[m].at <= clock'
    BY <1>1, <2>1 DEF TimesRise
  <2>5. ASSUME NEW r \in Reqs, Bumping(r)', NEW m \in Stored'
        PROVE  message'[m].at <= message'[call'[r].msg].at
    BY <1>1, <2>1, <2>2, <2>3, <2>5 DEF TimesRise
  <2>6. ASSUME NEW m \in Stored' PROVE InSidebar(m)'
    <3>1. CASE message[m].at <= conv.lastMessageAt
      BY <1>3, <2>1, <3>1 DEF InSidebar
    <3>2. CASE CutShort(m, {"send"})
      BY <3>2, CutShortStays DEF InSidebar
    <3>3. ASSUME NEW r \in Reqs, Bumping(r), call[r].msg = m PROVE InSidebar(m)'
      <4>1. CASE pc'[r] = "bump"
        BY <1>3, <3>3, <4>1 DEF InSidebar, Bumping
      <4>2. CASE CutShort(call[r].msg, {"send"})' /\ call'[r].msg = call[r].msg
        BY <3>3, <4>2 DEF InSidebar
      <4> QED
        BY <3>3, <4>1, <4>2 DEF Bumping
    <3> QED
      BY <1>1, <2>1, <3>1, <3>2, <3>3 DEF TimesRise, InSidebar
  <2> QED
    BY <2>4, <2>5, <2>6 DEF TimesRise
<1> QED
  BY <1>2, <1>3

\* There are rows in a live conversation only.
LEMMA RowsLive == ASSUME Core, NEW m \in Msgs, Exists(m) PROVE conv.live
BY DEF Core, Sound, Alive

LEMMA TimesInsert ==
    ASSUME Core, OneWrites, TimesRise, [Next]_vars, "send" \notin scope.overlap,
           NEW r \in Reqs, NEW m \in Msgs, NEW now \in {clock, clock + 1},
           pc[r] = "insert", call[r].op = "send", ~Exists(m), clock' = now, conv.live, conv' = conv,
           pc'[r] = "bump", call'[r].msg = m, message'[m].at = now, Stored' = Stored \cup {m},
           \A k \in Msgs : k # m => message'[k] = message[k],
           \A q \in Reqs : q # r => pc'[q] = pc[q] /\ call'[q] = call[q]
    PROVE  TimesRise'
<1>1. ASSUME NEW q \in Reqs, q # r PROVE pc[q] # "bump"
  <2>1. pc[r] \in Steps
    BY StepsListed DEF SendSteps
  <2> QED
    BY <1>1, <2>1, BumpingFacts DEF OneWrites, OneOf, Waiting, Operations
<1>2. clock \in Nat /\ now \in Nat /\ clock <= now
  BY DEF Core, Tables
<1>3. \A k \in Stored' : message'[k].at <= now
  <2>1. \A k \in Stored : k # m /\ message[k].at \in Nat /\ message[k].at <= clock
    BY RowFacts DEF Stored, TimesRise, Core
  <2> QED
    BY <1>2, <2>1 DEF Stored
<1>4. \A q \in Reqs : Bumping(q)' <=> q = r
  BY <1>1 DEF Bumping
<1>5. ASSUME NEW k \in Stored' PROVE InSidebar(k)'
  <2>1. CASE k = m
    BY <1>4, <2>1 DEF InSidebar
  <2>2. CASE k # m
    <3>1. k \in Stored /\ message'[k] = message[k] /\ \A q \in Reqs : ~Bumping(q)
      BY <1>1, <2>2 DEF Stored, Bumping
    <3>2. message[k].at <= conv.lastMessageAt \/ CutShort(k, {"send"})
      BY <3>1 DEF TimesRise, InSidebar
    <3> QED
      BY <3>1, <3>2, CutShortStays DEF InSidebar
  <2> QED
    BY <2>1, <2>2
<1> QED
  BY <1>3, <1>4, <1>5 DEF TimesRise

LEMMA TimesStep == Core /\ Core' /\ OneWrites /\ TimesRise /\ [Next]_vars => TimesRise'
<1> SUFFICES ASSUME Core, Core', OneWrites, TimesRise, [Next]_vars, "send" \notin scope'.overlap PROVE TimesRise'
  BY SMTT(30) DEF TimesRise
<1>1. scope' = scope /\ "send" \notin scope.overlap
  BY DEF Next, AllAnswered, vars, Join, Leave, Promote, DeleteConversation, Receive, Fail, Handle,
         AssertMembership, InsertMessage, BumpConversation, SetPointer,
         ReadRecipients, AskOnline, MarkDelivered, TellNew, ResolveMentions,
         ChooseTargets, NotifyTargets, LoadMessage, ReadRole, EditMessage, DeleteMessage, Announce,
         FindMessage, LoadForRead, UpsertRead
<1>2. RowsStay /\ \A m \in Msgs : Exists(m)' => conv'.live
  BY RowsStayStep DEF Core, Sound, Alive
<1>3. ASSUME NEW r \in Reqs, InsertMessage(r) PROVE TimesRise'
  <2>1. pc[r] = "insert" /\ call[r].op = "send" /\ conv' = conv
    BY <1>3 DEF InsertMessage, At
  <2>2. call[r] \in Frame
    BY <2>1, InFlightFacts, StepsListed DEF SendSteps
  <2>3. \A q \in Reqs : q # r => pc'[q] = pc[q] /\ call'[q] = call[q]
    BY <1>3, OneMoves DEF Handle
  <2>4. CASE Goto(r, "badRequest") /\ UNCHANGED <<message, clock>>
    <3>1. pc'[r] = "badRequest"
      BY <2>4, GotoFacts DEF Goto
    <3> QED
      BY <1>1, <1>2, <2>1, <2>3, <2>4, <3>1, TimesStay DEF Exists
  <2>5. ASSUME conv.live, NEW m \in Msgs, NEW now \in {clock, clock + 1}, ~Exists(m),
               clock' = now, GotoWith(r, "bump", [call[r] EXCEPT !.msg = m]),
               message' = [message EXCEPT ![m] =
                   [sender |-> call[r].actor, at |-> now, content |-> "sent",
                    mentions |-> call[r].mentions, deleted |-> FALSE, delivered |-> FALSE]]
        PROVE  TimesRise'
    <3> DEFINE row == [sender |-> call[r].actor, at |-> now, content |-> "sent",
                       mentions |-> call[r].mentions, deleted |-> FALSE, delivered |-> FALSE]
               f == [call[r] EXCEPT !.msg = m]
    <3>1. f.msg = m /\ GotoWith(r, "bump", f)
      BY <2>2, <2>5 DEF Frame
    <3>2. row.at = now /\ row # NoMessage /\ message' = [message EXCEPT ![m] = row]
      BY <2>5 DEF NoMessage
    <3> HIDE DEF f, row
    <3>3. pc'[r] = "bump" /\ call'[r].msg = m
      BY <3>1, GotoFacts DEF Answers
    <3>4. message'[m] = row /\ \A k \in Msgs : k # m => message'[k] = message[k]
      BY <3>2 DEF Core, Tables
    <3>5. Stored' = Stored \cup {m}
      BY <3>2, <3>4 DEF Stored, Exists
    <3> QED
      BY <1>1, <2>1, <2>3, <2>5, <3>2, <3>3, <3>4, <3>5, TimesInsert
  <2> QED
    BY <1>3, <2>4, <2>5 DEF InsertMessage
<1>4. ASSUME NEW r \in Reqs, BumpConversation(r) PROVE TimesRise'
  <2>1. pc[r] = "bump" /\ message' = message /\ clock' = clock
    BY <1>4 DEF BumpConversation, At
  <2>2. \A q \in Reqs : q # r => pc'[q] = pc[q] /\ call'[q] = call[q]
    BY <1>4, OneMoves DEF Handle
  <2>3. ASSUME NEW q \in Reqs, q # r PROVE pc[q] # "bump"
    BY <1>1, <2>1, <2>3, BumpingFacts DEF OneWrites, OneOf, Waiting, Operations
  <2>4. pc'[r] # "bump"
    BY <1>4, GotoFacts DEF BumpConversation, Goto
  <2>5. \A q \in Reqs : ~Bumping(q)'
    BY <2>2, <2>3, <2>4 DEF Bumping
  <2>6. Stored' = Stored /\ \A m \in Stored : message'[m].at <= clock'
    BY <1>1, <2>1 DEF Stored, Exists, TimesRise
  <2>7. \A m \in Stored : message'[m].at <= conv'.lastMessageAt
    <3> SUFFICES ASSUME NEW m \in Stored PROVE message[m].at <= conv'.lastMessageAt
      BY <2>1
    <3>1. conv.live
      BY RowsLive DEF Stored
    <3>2. conv'.lastMessageAt = message[call[r].msg].at
      BY <1>4, <3>1 DEF BumpConversation, Core, Tables
    <3> QED
      BY <1>1, <2>1, <3>1, <3>2 DEF TimesRise, Bumping
  <2> QED
    BY <2>1, <2>5, <2>6, <2>7 DEF TimesRise, InSidebar
<1>5. ASSUME NEW r \in Reqs, Receive(r) \/ Handle(r), ~InsertMessage(r), ~BumpConversation(r)
      PROVE  TimesRise'
  <2>1. pc[r] # "bump" /\ pc'[r] # "bump" /\ clock' = clock /\ conv' = conv
    BY <1>5, BumpMoves
  <2>2. \A q \in Reqs : q # r => pc'[q] = pc[q] /\ call'[q] = call[q]
    BY <1>5, OneMoves
  <2>3. \A m \in Msgs : Exists(m)' => Exists(m)
    <3> SUFFICES ASSUME NEW m \in Msgs, ~Exists(m), Exists(m)' PROVE FALSE
      OBVIOUS
    <3>1. PICK q \in Reqs : pc[q] = "insert" /\ pc'[q] = "bump"
      BY NewRow
    <3> QED
      BY <2>1, <2>2, <3>1
  <2> QED
    BY <1>1, <1>2, <2>1, <2>2, <2>3, TimesStay
<1>6. ASSUME UNCHANGED <<pc, call, clock>>, UNCHANGED conv \/ ~conv'.live PROVE TimesRise'
  <2>1. \A m \in Msgs : Exists(m)' => Exists(m)
    <3> SUFFICES ASSUME NEW m \in Msgs, ~Exists(m), Exists(m)' PROVE FALSE
      OBVIOUS
    <3>1. PICK q \in Reqs : pc[q] = "insert" /\ pc'[q] = "bump"
      BY NewRow
    <3> QED
      BY <1>6, <3>1
  <2> QED
    BY <1>1, <1>2, <1>6, <2>1, TimesStay
<1>7. ASSUME NEW r \in Reqs, Fail(r) PROVE TimesRise'
  <2>1. /\ pc[r] \in Steps /\ pc'[r] = "error"
        /\ call'[r].op = call[r].op /\ call'[r].msg = call[r].msg
        /\ \A q \in Reqs : q # r => pc'[q] = pc[q] /\ call'[q] = call[q]
    BY <1>7, FailMoves DEF Core
  <2>2. UNCHANGED <<conv, message, clock>>
    BY <1>7 DEF Fail
  <2>3. pc[r] = "bump" => CutShort(call[r].msg, {"send"})'
    BY <2>1, BumpingFacts DEF CutShort
  <2> QED
    BY <1>1, <1>2, <2>1, <2>2, <2>3, TimesStay DEF Exists
<1>8. DeleteConversation => ~conv'.live
  BY DEF DeleteConversation, Core, Tables
<1> QED
  BY <1>3, <1>4, <1>5, <1>6, <1>8, <1>7 DEF Next, AllAnswered, vars, Join, Leave, Promote, DeleteConversation, Handle

LEMMA WritesInit == Init => OneWrites /\ TimesRise
<1> SUFFICES ASSUME Init PROVE OneWrites /\ TimesRise
  OBVIOUS
<1>1. None \notin Msgs /\ "idle" \notin Steps
  BY MessagesAssumption, StepsListed DEF SendSteps
<1>2. \A r \in Reqs : pc[r] = "idle"
  BY DEF Init
<1>3. OneWrites
  BY <1>1, <1>2 DEF OneWrites, OneOf, SendersStay
<1>4. \A m \in Stored : message[m].at <= clock /\ message[m].at <= conv.lastMessageAt
  BY <1>1 DEF Init, Stored, Exists, NoMessage
<1> QED
  BY <1>2, <1>3, <1>4 DEF TimesRise, InSidebar, Bumping

\* The sidebar shows the time of the newest message when sends, and nothing but
\* sends, wait for one another, but for messages whose send was cut short.
THEOREM SidebarIsRight == Spec => []SidebarAgrees
<1>1. Core /\ TimesRise => SidebarAgrees
  <2> SUFFICES ASSUME Core, TimesRise, "send" \notin scope.overlap, AtRest, NEW m \in Stored
               PROVE  message[m].at <= conv.lastMessageAt \/ CutShort(m, {"send"})
    BY DEF SidebarAgrees
  <2>1. \A r \in Reqs : ~Bumping(r)
    BY StepsListed DEF AtRest, InFlight, Bumping, SendSteps
  <2> QED
    BY <2>1 DEF TimesRise, InSidebar
<1> QED
  BY <1>1, WritesInit, OneWritesStep, TimesStep, Always, PTL DEF Spec

\* The request that is going to tell the room of m, and what it will say.
Telling(r, m) ==
    /\ call[r].msg = m
    /\ \/ call[r].op = "send" /\ pc[r] \in {"bump", "point", "recipients", "online", "deliver", "tell"}
       \/ pc[r] = "announce"
WillSay(r) == IF pc[r] = "announce" THEN call[r].shows ELSE "sent"
Untold(m) == told[m] = "none" /\ "membership" \in scope.overlap
WriteCut(m) == CutShort(m, {"send", "edit", "delete"})
Accounted(m) ==
    /\ \A r \in Reqs : Telling(r, m) => WillSay(r) = Shown(message[m])
    /\ \A r \in Reqs : Telling(r, m) /\ pc[r] # "announce" => told[m] = "none"
    /\ \/ told[m] = Shown(message[m]) \/ Untold(m) \/ WriteCut(m)
       \/ \E r \in Reqs : Telling(r, m)
RoomTold == OneByOne => \A m \in Stored : Accounted(m)

\* The same, of the one request that may do so; cut: a write of m was cut short.
Announced(r, m, cut) ==
    /\ Telling(r, m) => WillSay(r) = Shown(message[m])
    /\ Telling(r, m) /\ pc[r] # "announce" => told[m] = "none"
    /\ told[m] = Shown(message[m]) \/ Untold(m) \/ cut \/ Telling(r, m)

LEMMA TellingFacts ==
    ASSUME Core, NEW r \in Reqs, NEW m, Telling(r, m)
    PROVE  pc[r] \in Steps /\ call[r] \in Frame /\ call[r].op \in {"send", "edit", "delete"}
           /\ call[r].msg \in Msgs
<1>1. pc[r] \in {"bump", "point", "recipients", "online", "deliver", "tell", "announce"}
  BY DEF Telling
<1>2. pc[r] \in Steps /\ pc[r] \in StepsOf(call[r].op) /\ call[r].op \in Operations
      /\ call[r] \in Frame /\ call[r].msg \in Msgs
  BY <1>1, InFlightFacts, StepsListed DEF SendSteps
<1> QED
  BY <1>1, <1>2, StepsListed DEF Operations, Telling

LEMMA AnnouncedStep ==
    ASSUME Core, OneWrites, NEW r \in Reqs, Handle(r), scope' = scope, call[r].op # "read",
           NEW m \in Msgs, Exists(m), Exists(m)', NEW cut \in BOOLEAN, Announced(r, m, cut)
    PROVE  Announced(r, m, cut)'
<1> USE DEF Announced, Telling, WillSay, Untold, Answers
<1>1. conv.live
  BY RowsLive
<1>2. CASE AssertMembership(r) \/ ChooseTargets(r) \/ NotifyTargets(r) \/ ResolveMentions(r)
           \/ LoadMessage(r) \/ ReadRole(r)
  <2>1. \A step : Goto(r, step) => pc'[r] = step
    BY GotoFacts DEF Goto
  <2>2. \A step, f : GotoWith(r, step, f) => pc'[r] = step
    BY GotoFacts
  <2>3. UNCHANGED <<message, told>>
    BY <1>2 DEF AssertMembership, ChooseTargets, NotifyTargets, ResolveMentions, LoadMessage, ReadRole, events
  <2>4. /\ pc[r] \in {"check", "targets", "notify", "mentions", "load", "role"}
        /\ pc'[r] \in {"notFound", "insert", "find", "ok", "notify", "targets", "write", "forbidden", "role"}
    BY <1>2, <2>1, <2>2
       DEF AssertMembership, ChooseTargets, NotifyTargets, ResolveMentions, LoadMessage, ReadRole, At
  <2> QED
    BY <2>3, <2>4
<1>3. CASE InsertMessage(r)
  <2>1. pc[r] = "insert" /\ told' = told
    BY <1>3 DEF InsertMessage, At, events
  <2>2. call[r] \in Frame
    BY <2>1, InFlightFacts, StepsListed DEF SendSteps
  <2>3. PICK k \in Msgs : /\ ~Exists(k)
                          /\ \E row : message' = [message EXCEPT ![k] = row]
                          /\ GotoWith(r, "bump", [call[r] EXCEPT !.msg = k])
    BY <1>1, <1>3 DEF InsertMessage
  <2>4. k # m /\ message'[m] = message[m]
    BY <2>3 DEF Core, Tables
  <2> DEFINE f == [call[r] EXCEPT !.msg = k]
  <2>5. f.msg = k /\ GotoWith(r, "bump", f)
    BY <2>2, <2>3 DEF Frame
  <2> HIDE DEF f
  <2>6. pc'[r] = "bump" /\ call'[r].msg = k
    BY <2>5, GotoFacts
  <2> QED
    BY <2>1, <2>4, <2>6
<1>4. CASE BumpConversation(r)
  <2>1. pc[r] = "bump" /\ UNCHANGED <<message, told>> /\ Goto(r, "point")
    BY <1>1, <1>4 DEF BumpConversation, At, events
  <2>2. pc'[r] = "point" /\ call'[r] = call[r]
    BY <2>1, GotoFacts DEF Goto
  <2> QED
    BY <2>1, <2>2
<1>5. CASE SetPointer(r)
  <2>1. pc[r] = "point" /\ UNCHANGED <<message, told>>
    BY <1>5 DEF SetPointer, events
  <2>2. call[r].op = "send"
    BY <2>1, InFlightFacts, StepsListed DEF Operations, SendSteps
  <2>3. CASE Goto(r, "recipients")
    <3>1. pc'[r] = "recipients" /\ call'[r] = call[r]
      BY <2>3, GotoFacts DEF Goto
    <3> QED
      BY <2>1, <2>2, <3>1
  <2>4. CASE ~Goto(r, "recipients")
    <3>1. role[call[r].actor] = "NONE" /\ Goto(r, "notFound")
      BY <1>5, <2>2, <2>4 DEF SetPointer
    <3>2. "membership" \in scope.overlap
      BY <2>1, <2>2, <3>1 DEF OneWrites, SendersStay
    <3>3. pc'[r] = "notFound"
      BY <3>1, GotoFacts DEF Goto
    <3> QED
      BY <2>1, <2>2, <3>2, <3>3
  <2> QED
    BY <2>3, <2>4
<1>6. CASE ReadRecipients(r)
  <2> DEFINE to == MemberIds \ {call[r].actor}
             f == [call[r] EXCEPT !.to = to]
             step == IF conv.type = "DIRECT" /\ Cardinality(to) = 1 THEN "online" ELSE "tell"
  <2>1. pc[r] = "recipients" /\ call[r].op = "send" /\ UNCHANGED <<message, told>> /\ GotoWith(r, step, f)
    BY <1>6 DEF ReadRecipients, At, events
  <2>2. call[r] \in Frame /\ step \in {"online", "tell"}
    BY <2>1, InFlightFacts, StepsListed DEF SendSteps
  <2>3. f.op = "send" /\ f.msg = call[r].msg
    BY <2>1, <2>2 DEF Frame
  <2> HIDE DEF f, step
  <2>4. pc'[r] \in {"online", "tell"} /\ call'[r] = f
    BY <2>1, <2>2, GotoFacts
  <2> QED
    BY <2>1, <2>3, <2>4
<1>7. CASE AskOnline(r)
  <2>1. /\ pc[r] = "online" /\ call[r].op = "send" /\ UNCHANGED <<message, told>>
        /\ Goto(r, "deliver") \/ Goto(r, "tell")
    BY <1>7 DEF AskOnline, At, events
  <2>2. pc'[r] \in {"deliver", "tell"} /\ call'[r] = call[r]
    BY <2>1, GotoFacts DEF Goto
  <2> QED
    BY <2>1, <2>2
<1>8. CASE MarkDelivered(r)
  <2>1. /\ pc[r] = "deliver" /\ call[r].op = "send" /\ told' = told /\ Goto(r, "tell")
        /\ message' = [message EXCEPT ![call[r].msg].delivered = TRUE]
    BY <1>8 DEF MarkDelivered, At, events
  <2>2. pc'[r] = "tell" /\ call'[r] = call[r]
    BY <2>1, GotoFacts DEF Goto
  <2>3. Shown(message'[m]) = Shown(message[m])
    <3>1. message[m] \in Row
      BY RowFacts DEF Core
    <3>2. message'[m] = message[m] \/ message'[m] = [message[m] EXCEPT !.delivered = TRUE]
      BY <2>1 DEF Core, Tables
    <3> DEFINE row == [message[m] EXCEPT !.delivered = TRUE]
    <3>3. row.content = message[m].content /\ row.deleted = message[m].deleted
      BY <3>1, RowWritten
    <3>4. message'[m] = message[m] \/ message'[m] = row
      BY <3>2
    <3> HIDE DEF row
    <3> QED
      BY <3>3, <3>4 DEF Shown
  <2> QED
    BY <2>1, <2>2, <2>3
<1>9. CASE TellNew(r)
  <2>1. /\ pc[r] = "tell" /\ call[r].op = "send" /\ message' = message
        /\ told' = [told EXCEPT ![call[r].msg] = "sent"]
    BY <1>9 DEF TellNew, At
  <2>2. pc'[r] \in {"ok", "mentions", "targets"}
    BY <1>9, GotoFacts DEF TellNew, Goto
  <2>3. told'[m] = IF call[r].msg = m THEN Shown(message[m]) ELSE told[m]
    BY <2>1 DEF Core, Tables
  <2> QED
    BY <2>1, <2>2, <2>3
<1>10. CASE EditMessage(r)
  <2>1. /\ pc[r] = "write" /\ told' = told
    BY <1>10 DEF EditMessage, At, events
  <2>2. call[r] \in Frame /\ call[r].msg \in Msgs
    BY <2>1, InFlightFacts, StepsListed
  <2>3. CASE call[r].msg # m
    <3>1. message'[m] = message[m]
      BY <1>10, <2>3 DEF EditMessage, Core, Tables
    <3>2. PICK step, shows : /\ GotoWith(r, step, [call[r] EXCEPT !.shows = shows])
                             /\ step = "announce" \/ step = "notFound"
      BY <1>10, <2>2 DEF EditMessage, Goto, GotoWith
    <3> DEFINE f == [call[r] EXCEPT !.shows = shows]
    <3>3. f.msg = call[r].msg /\ GotoWith(r, step, f)
      BY <2>2, <3>2 DEF Frame
    <3> HIDE DEF f
    <3>4. pc'[r] = step /\ (step = "announce" => call'[r].msg = call[r].msg)
      BY <3>2, <3>3, GotoFacts
    <3>5. pc'[r] \in {"announce", "notFound"}
      BY <3>2, <3>4
    <3> QED
      BY <2>1, <2>3, <3>1, <3>4, <3>5
  <2>4. CASE call[r].msg = m
    <3> DEFINE f == [call[r] EXCEPT !.shows = Shown(message'[m])]
    <3>1. GotoWith(r, "announce", f)
      BY <1>10, <2>4 DEF EditMessage
    <3>2. f.msg = m /\ f.shows = Shown(message'[m])
      BY <2>2, <2>4 DEF Frame
    <3> HIDE DEF f
    <3>3. pc'[r] = "announce" /\ call'[r] = f
      BY <3>1, GotoFacts
    <3> QED
      BY <3>2, <3>3
  <2> QED
    BY <2>3, <2>4
<1>11. CASE DeleteMessage(r)
  <2>1. /\ pc[r] = "write" /\ told' = told
    BY <1>11 DEF DeleteMessage, At, events
  <2>2. call[r] \in Frame /\ call[r].msg \in Msgs
    BY <2>1, InFlightFacts, StepsListed
  <2>3. CASE ~Exists(call[r].msg)
    <3>1. message' = message /\ pc'[r] = "notFound"
      BY <1>11, <2>3, GotoFacts DEF DeleteMessage, Goto
    <3> QED
      BY <2>1, <3>1
  <2>4. CASE Exists(call[r].msg)
    <3> DEFINE f == [call[r] EXCEPT !.shows = "deleted"]
    <3>1. /\ GotoWith(r, "announce", f)
          /\ message' = [message EXCEPT ![call[r].msg].content = "empty", ![call[r].msg].deleted = TRUE]
      BY <1>11, <2>4 DEF DeleteMessage
    <3>2. f.msg = call[r].msg /\ f.shows = "deleted"
      BY <2>2 DEF Frame
    <3> HIDE DEF f
    <3>3. pc'[r] = "announce" /\ call'[r] = f
      BY <3>1, GotoFacts
    <3>4. call[r].msg # m => message'[m] = message[m]
      BY <3>1 DEF Core, Tables
    <3>5. call[r].msg = m => Shown(message'[m]) = "deleted"
      <4>1. message[call[r].msg] \in Row
        BY <2>2, <2>4, RowFacts DEF Core
      <4>2. message' = [message EXCEPT ![call[r].msg] =
                           [message[call[r].msg] EXCEPT !.content = "empty", !.deleted = TRUE]]
        BY <2>2, <3>1 DEF Core, Tables
      <4>3. message'[call[r].msg] = [message[call[r].msg] EXCEPT !.content = "empty", !.deleted = TRUE]
        BY <2>2, <4>2 DEF Core, Tables
      <4> QED
        BY <4>1, <4>3, RowWritten DEF Shown
    <3> QED
      BY <2>1, <3>2, <3>3, <3>4, <3>5
  <2> QED
    BY <2>3, <2>4
<1>12. CASE Announce(r)
  <2>1. /\ pc[r] = "announce" /\ message' = message
        /\ told' = [told EXCEPT ![call[r].msg] = call[r].shows]
    BY <1>12 DEF Announce
  <2>2. pc'[r] = "ok"
    BY <1>12, GotoFacts DEF Announce, Goto
  <2>3. told'[m] = IF call[r].msg = m THEN Shown(message[m]) ELSE told[m]
    BY <2>1 DEF Core, Tables
  <2> QED
    BY <2>1, <2>2, <2>3
<1> QED
  BY <1>2, <1>3, <1>4, <1>5, <1>6, <1>7, <1>8, <1>9, <1>10, <1>11, <1>12
     DEF Handle, FindMessage, LoadForRead, UpsertRead, At

LEMMA RoomStep == Core /\ Core' /\ OneWrites /\ RoomTold /\ [Next]_vars => RoomTold'
<1> SUFFICES ASSUME Core, Core', OneWrites, RoomTold, [Next]_vars, OneByOne', NEW m \in Stored'
             PROVE  Accounted(m)'
  BY SMTT(30) DEF RoomTold
<1> USE DEF Untold
<1>1. scope' = scope /\ OneByOne
  BY ZenonT(40) DEF Next, AllAnswered, vars, Join, Leave, Promote, DeleteConversation, Receive, Fail, Handle,
         AssertMembership, InsertMessage, BumpConversation, SetPointer,
         ReadRecipients, AskOnline, MarkDelivered, TellNew, ResolveMentions,
         ChooseTargets, NotifyTargets, LoadMessage, ReadRole, EditMessage, DeleteMessage, Announce,
         FindMessage, LoadForRead, UpsertRead, OneByOne
<1>2. m \in Msgs /\ Exists(m)'
  BY DEF Stored
<1>3. CASE ~Exists(m)
  <2>1. PICK r \in Reqs : /\ pc[r] = "insert" /\ pc'[r] = "bump"
                          /\ call'[r].op = "send" /\ call'[r].msg = m
                          /\ Shown(message'[m]) = "sent" /\ told'[m] = "none"
    BY <1>2, <1>3, NewRow
  <2>2. Telling(r, m)' /\ WillSay(r)' = "sent"
    BY <2>1 DEF Telling, WillSay
  <2>3. pc[r] \in Steps /\ call[r].op = "send"
    BY <2>1, InFlightFacts, StepsListed DEF SendSteps, Operations
  <2>4. \A q \in Reqs : q # r => pc'[q] = pc[q] /\ call'[q] = call[q]
    <3>1. \A q \in Reqs : ~Fail(q)
      <4> SUFFICES ASSUME NEW q \in Reqs, Fail(q) PROVE FALSE
        OBVIOUS
      <4> QED
        BY <1>2, <1>3 DEF Fail, Exists
    <3> QED
      BY <2>1, <3>1, OneMoves DEF Next, AllAnswered, vars, Join, Leave, Promote, DeleteConversation
  <2>5. ASSUME NEW q \in Reqs, q # r PROVE ~Telling(q, m)'
    <3> SUFFICES ASSUME Telling(q, m)' PROVE FALSE
      OBVIOUS
    <3>1. Telling(q, m)
      BY <2>4, <2>5 DEF Telling
    <3> QED
      BY <1>1, <2>3, <2>5, <3>1, TellingFacts DEF OneWrites, OneOf, Waiting, OneByOne, Operations
  <2> QED
    BY <2>1, <2>2, <2>5 DEF Accounted
<1>4. CASE Exists(m)
  <2>1. Accounted(m)
    BY <1>1, <1>2, <1>4 DEF RoomTold, Stored
  <2>0. WriteCut(m) => WriteCut(m)'
    BY CutShortStays DEF WriteCut
  <2>2. ASSUME UNCHANGED <<told, pc, call>>, message'[m] = message[m]
        PROVE  Accounted(m)'
    BY <1>1, <2>0, <2>1, <2>2 DEF Accounted, Telling, WillSay
  <2>3. ASSUME NEW r \in Reqs, Receive(r) \/ Handle(r), UNCHANGED <<message, told>>,
               ~Telling(r, m), ~Telling(r, m)'
        PROVE  Accounted(m)'
    <3>1. \A q \in Reqs : q # r => pc'[q] = pc[q] /\ call'[q] = call[q]
      BY <2>3, OneMoves
    <3>2. \A q \in Reqs : /\ Telling(q, m)' <=> Telling(q, m)
                          /\ Telling(q, m) => WillSay(q)' = WillSay(q) /\ pc'[q] = pc[q]
      BY <2>3, <3>1 DEF Telling, WillSay
    <3> QED
      BY <1>1, <2>0, <2>1, <2>3, <3>2 DEF Accounted
  <2>4. ASSUME NEW r \in Reqs, Receive(r)
        PROVE  ~Telling(r, m) /\ ~Telling(r, m)' /\ UNCHANGED <<message, told>>
    <3>1. pc[r] = "idle" /\ UNCHANGED <<message, told>>
      BY <2>4 DEF Receive, events
    <3>2. pc'[r] \in {"check", "load"}
      BY <2>4, GotoFacts DEF Receive
    <3> QED
      BY <3>1, <3>2 DEF Telling
  <2>5. ASSUME NEW r \in Reqs, Handle(r), call[r].op = "read"
        PROVE  ~Telling(r, m) /\ ~Telling(r, m)' /\ UNCHANGED <<message, told>>
    <3>1. ~Telling(r, m)
      BY <2>5, TellingFacts
    <3>2. ~Telling(r, m)'
      <4> SUFFICES ASSUME Telling(r, m)' PROVE FALSE
        OBVIOUS
      <4>1. pc'[r] \in {"bump", "point", "recipients", "online", "deliver", "tell", "announce"}
        BY DEF Telling
      <4>2. pc'[r] \in Steps
        BY <4>1, StepsListed DEF SendSteps
      <4>3. pc[r] \in Steps /\ call'[r].op = "read"
        BY <2>5, <4>2, OpStays
      <4>4. pc'[r] = "announce" /\ pc[r] \in {"check", "find", "point", "record", "upsert"}
        BY <2>5, <4>1, <4>3, InFlightFacts, StepsListed DEF Telling
      <4>5. \A step : Goto(r, step) => pc'[r] = step
        BY GotoFacts DEF Goto
      <4>6. \A step, f : GotoWith(r, step, f) => pc'[r] = step
        BY GotoFacts
      <4> QED
        BY <2>5, <4>4, <4>5, <4>6
           DEF Handle, AssertMembership, InsertMessage, BumpConversation, SetPointer,
               ReadRecipients, AskOnline, MarkDelivered, TellNew, ResolveMentions,
               ChooseTargets, NotifyTargets, LoadMessage, ReadRole, EditMessage, DeleteMessage, Announce,
               FindMessage, LoadForRead, UpsertRead, At
    <3>3. pc[r] \in Steps
      BY <2>5, StepsListed
         DEF Handle, AssertMembership, InsertMessage, BumpConversation, SetPointer,
             ReadRecipients, AskOnline, MarkDelivered, TellNew, ResolveMentions,
             ChooseTargets, NotifyTargets, LoadMessage, ReadRole, EditMessage, DeleteMessage, Announce,
             FindMessage, LoadForRead, UpsertRead, At, SendSteps
    <3>4. pc[r] \in {"check", "find", "point", "record", "upsert"}
      BY <2>5, <3>3, InFlightFacts, StepsListed
    <3>5. UNCHANGED <<message, told>>
      BY <2>5, <3>4
         DEF Handle, AssertMembership, InsertMessage, BumpConversation, SetPointer,
             ReadRecipients, AskOnline, MarkDelivered, TellNew, ResolveMentions,
             ChooseTargets, NotifyTargets, LoadMessage, ReadRole, EditMessage, DeleteMessage, Announce,
             FindMessage, LoadForRead, UpsertRead, At, events
    <3> QED
      BY <3>1, <3>2, <3>5
  <2>6. ASSUME NEW r \in Reqs, Handle(r), call[r].op # "read"
        PROVE  Accounted(m)'
    <3>1. pc[r] \in Steps
      BY <2>6, StepsListed
         DEF Handle, AssertMembership, InsertMessage, BumpConversation, SetPointer,
             ReadRecipients, AskOnline, MarkDelivered, TellNew, ResolveMentions,
             ChooseTargets, NotifyTargets, LoadMessage, ReadRole, EditMessage, DeleteMessage, Announce,
             FindMessage, LoadForRead, UpsertRead, At, SendSteps
    <3>2. ASSUME NEW q \in Reqs, q # r PROVE ~Telling(q, m)
      <4>1. call[r].op \in Waiting
        BY <1>1, <2>6, <3>1, InFlightFacts DEF Waiting, OneByOne, Operations
      <4>2. Telling(q, m) => pc[q] \in Steps /\ call[q].op \in Waiting
        BY <1>1, <3>2, TellingFacts DEF Waiting, OneByOne, Operations
      <4> QED
        BY <2>6, <3>1, <3>2, <4>1, <4>2 DEF OneWrites, OneOf
    <3>3. ASSUME NEW q \in Reqs, q # r PROVE ~Telling(q, m)'
      <4>1. pc'[q] = pc[q] /\ call'[q] = call[q]
        BY <2>6, <3>3, OneMoves
      <4> QED
        BY <3>2, <3>3, <4>1 DEF Telling
    <3>4. PICK cut \in BOOLEAN : (cut => WriteCut(m)) /\ Announced(r, m, cut)
      <4>1. CASE WriteCut(m)
        <5>1. Announced(r, m, TRUE)
          BY <2>1 DEF Accounted, Announced
        <5> QED
          BY <4>1, <5>1
      <4>2. CASE ~WriteCut(m)
        <5>1. Announced(r, m, FALSE)
          BY <2>1, <3>2, <4>2 DEF Accounted, Announced
        <5> QED
          BY <5>1
      <4> QED
        BY <4>1, <4>2
    <3>5. Announced(r, m, cut)'
      BY <1>1, <1>2, <1>4, <2>6, <3>4, AnnouncedStep
    <3> QED
      BY <2>0, <3>3, <3>4, <3>5 DEF Accounted, Announced
  <2>7. ~DeleteConversation
    BY <1>2 DEF DeleteConversation, Exists
  <2>8. ASSUME NEW r \in Reqs, Fail(r) PROVE Accounted(m)'
    <3>1. /\ pc[r] \in Steps /\ pc'[r] = "error"
          /\ call'[r].op = call[r].op /\ call'[r].msg = call[r].msg
          /\ \A q \in Reqs : q # r => pc'[q] = pc[q] /\ call'[q] = call[q]
      BY <2>8, FailMoves DEF Core
    <3>2. UNCHANGED <<message, told>>
      BY <2>8 DEF Fail, events
    <3>3. ~Telling(r, m)'
      BY <3>1 DEF Telling
    <3>4. \A q \in Reqs : q # r => /\ Telling(q, m)' <=> Telling(q, m)
                                   /\ Telling(q, m) => WillSay(q)' = WillSay(q) /\ pc'[q] = pc[q]
      BY <3>1 DEF Telling, WillSay
    <3>5. Telling(r, m) => WriteCut(m)'
      <4> SUFFICES ASSUME Telling(r, m) PROVE WriteCut(m)'
        OBVIOUS
      <4>1. call[r].op \in {"send", "edit", "delete"} /\ call[r].msg = m
        BY TellingFacts DEF Telling
      <4> QED
        BY <3>1, <4>1 DEF WriteCut, CutShort
    <3>6. Untold(m)' <=> Untold(m)
      BY <1>1, <3>2
    <3> QED
      BY <2>0, <2>1, <3>2, <3>3, <3>4, <3>5, <3>6 DEF Accounted
  <2> QED
    BY <2>2, <2>3, <2>4, <2>5, <2>6, <2>7, <2>8
       DEF Next, AllAnswered, vars, Join, Leave, Promote, events
<1> QED
  BY <1>3, <1>4

\* One by one, the room was last told of each message what the table says, or
\* nothing if members come and go meanwhile, but for what was cut short.
THEOREM RoomIsToldAll == Spec => []RoomKnows
<1>1. Init => RoomTold
  <2> SUFFICES ASSUME Init PROVE RoomTold
    OBVIOUS
  <2>1. None \notin Msgs
    BY MessagesAssumption
  <2>2. \A m \in Stored : told[m] = Shown(message[m])
    BY <2>1 DEF Init, Stored, Exists, NoMessage, Shown
  <2>3. \A r \in Reqs : pc[r] = "idle"
    BY DEF Init
  <2> QED
    BY <2>2, <2>3 DEF RoomTold, Accounted, Telling
<1>2. Core /\ RoomTold => RoomKnows
  <2> SUFFICES ASSUME Core, RoomTold, OneByOne, AtRest, NEW m \in Stored
               PROVE  told[m] = Shown(message[m]) \/ Untold(m) \/ WriteCut(m)
    BY DEF RoomKnows, Untold, WriteCut
  <2>1. \A r \in Reqs : ~Telling(r, m)
    BY TellingFacts DEF AtRest, InFlight
  <2> QED
    BY <2>1 DEF RoomTold, Accounted
<1> QED
  BY <1>1, <1>2, WritesInit, OneWritesStep, RoomStep, Always, PTL DEF Spec
=============================================================================
