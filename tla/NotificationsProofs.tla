------------------------- MODULE NotificationsProofs -------------------------
(***************************************************************************)
(* Theorems about Notifications, for any users, tabs, rows and requests.   *)
(***************************************************************************)
EXTENDS Notifications, TLAPS

-----------------------------------------------------------------------------
(* Types, and what requests and events say of the rows.                    *)

\* A request inserts rows that are not there, and marks and tells of rows of
\* the user it serves; an event tells of what is committed.
RequestsTrue ==
    /\ \A r \in Reqs : \A i \in call[r].ids :
           /\ pc[r] = "insert" => row[i] = "none"
           /\ pc[r] \in {"new", "update"} => row[i] # "none"
           /\ pc[r] \in {"update", "read", "all"} => Owner[i] = call[r].user
           /\ pc[r] \in {"read", "all"} => row[i] = "read"
    /\ \A r, q \in Reqs : pc[r] = "insert" /\ pc[q] = "insert" /\ r # q =>
                              call[r].ids \cap call[q].ids = {}
    /\ \A r \in Reqs : pc[r] = "find" => \A i, j \in call[r].ids : i = j
EventsTrue ==
    \A e \in post :
        /\ e.name # "all" => e.id \in Ids
        /\ e.name = "new" => row[e.id] # "none" /\ Owner[e.id] = Viewer[e.tab]
        /\ e.name = "read" => row[e.id] = "read"
Truth == TypeOK /\ RequestsTrue /\ EventsTrue

LEMMA TruthInit == Init => Truth
<1> SUFFICES ASSUME Init PROVE Truth
  OBVIOUS
<1>1. (CHOOSE u \in Users : TRUE) \in Users
  BY NotificationsAssumption
<1>2. call \in [Reqs -> [user : Users, ids : SUBSET Ids]]
  BY <1>1 DEF Init
<1> QED
  BY <1>2 DEF Init, Truth, TypeOK, RequestsTrue, EventsTrue

LEMMA TruthStep == Truth /\ [Next]_vars => Truth'
<1> SUFFICES ASSUME Truth, [Next]_vars PROVE Truth'
  OBVIOUS
<1> USE NotificationsAssumption
    DEF Truth, TypeOK, RequestsTrue, EventsTrue, Steps, Answers, Event, TabsOf, Emitted
<1>1. ASSUME NEW r \in Reqs, NEW I \in SUBSET Ids, Notify(r, I) PROVE Truth'
  <2>1. /\ pc[r] = "idle" /\ pc' = [pc EXCEPT ![r] = "insert"]
        /\ call'[r] = [user |-> call[r].user, ids |-> I]
        /\ \A q \in Reqs \ {r} : call'[q] = call[q]
        /\ UNCHANGED <<row, stamps, post, badge, excused>>
    BY <1>1 DEF Notify, Begin
  <2>2. \A i \in I : row[i] = "none" /\ \A q \in Reqs : pc[q] = "insert" => i \notin call[q].ids
    BY <1>1 DEF Notify
  <2>3. TypeOK'
    BY <1>1, <2>1 DEF Notify, Begin
  <2>4. RequestsTrue'
    <3>1. \A q \in Reqs : pc[q] = "insert" => call[q].ids \cap I = {}
      BY <2>2
    <3> QED
      BY <2>1, <2>2, <3>1
  <2>5. EventsTrue'
    BY <2>1
  <2> QED
    BY <2>3, <2>4, <2>5
<1>2. ASSUME NEW r \in Reqs, NEW u \in Users, NEW i \in Ids, MarkRead(r, u, i) PROVE Truth'
  BY <1>2 DEF MarkRead, Begin
<1>3. ASSUME NEW r \in Reqs, NEW u \in Users, MarkAllRead(r, u) PROVE Truth'
  BY <1>3 DEF MarkAllRead, Begin
<1>4. ASSUME NEW r \in Reqs, Insert(r) PROVE Truth'
  <2>1. pc[r] = "insert" /\ pc' = [pc EXCEPT ![r] = "new"] /\ UNCHANGED <<stamps, call, post, badge>>
    BY <1>4 DEF Insert, Goto
  <2>2. \A i \in Ids : row'[i] = IF i \in call[r].ids THEN "unread" ELSE row[i]
    BY <1>4 DEF Insert
  <2>3. TypeOK'
    BY <1>4, <2>1, <2>2 DEF Insert
  <2>4. ASSUME NEW q \in Reqs, NEW i \in call[q].ids, pc[q] \in Steps, q # r
        PROVE  i \in call[r].ids => pc[q] \notin {"insert", "new", "update", "read", "all"}
    BY <2>1, <2>4
  <2>5. RequestsTrue'
    BY <2>1, <2>2, <2>4
  <2>6. EventsTrue'
    BY <2>1, <2>2
  <2> QED
    BY <2>3, <2>5, <2>6
<1>5. ASSUME NEW r \in Reqs, EmitNew(r) PROVE Truth'
  <2>1. pc[r] = "new" /\ pc' = [pc EXCEPT ![r] = "ok"]
        /\ UNCHANGED <<row, stamps, call, badge, excused>>
    BY <1>5 DEF EmitNew, Goto
  <2>2. ASSUME NEW e \in post', e \notin post
        PROVE  /\ e \in Event /\ e.name = "new" /\ e.id \in call[r].ids
               /\ Owner[e.id] = Viewer[e.tab]
    BY <1>5, <2>2 DEF EmitNew
  <2>3. TypeOK'
    BY <2>1, <2>2
  <2>4. RequestsTrue'
    BY <2>1
  <2>5. EventsTrue'
    BY <2>1, <2>2
  <2> QED
    BY <2>3, <2>4, <2>5
<1>6. ASSUME NEW r \in Reqs, Find(r) PROVE Truth'
  <2> PICK i \in call[r].ids :
          Goto(r, "find", CASE row[i] = "none" -> "notFound"
                            [] row[i] # "none" /\ Owner[i] # call[r].user -> "forbidden"
                            [] row[i] = "read" /\ Owner[i] = call[r].user -> "ok"
                            [] OTHER -> "update")
    BY <1>6 DEF Find
  <2> i \in Ids /\ UNCHANGED <<row, stamps, call, post, badge, excused>>
    BY <1>6 DEF Find
  <2>1. /\ pc[r] = "find" /\ pc' = [pc EXCEPT ![r] = pc'[r]]
        /\ pc'[r] \in {"notFound", "forbidden", "ok", "update"}
        /\ pc'[r] = "update" => row[i] = "unread" /\ Owner[i] = call[r].user
    BY DEF Goto
  <2>2. \A j \in call[r].ids : j = i
    BY <2>1
  <2> QED
    BY <2>1, <2>2
<1>7. ASSUME NEW r \in Reqs, Update(r) PROVE Truth'
  BY <1>7 DEF Update, Read, Goto
<1>8. ASSUME NEW r \in Reqs, EmitRead(r) PROVE Truth'
  BY <1>8 DEF EmitRead, Goto
<1>9. ASSUME NEW r \in Reqs, UpdateAll(r) PROVE Truth'
  BY <1>9 DEF UpdateAll, Read, Goto, Unread
<1>10. ASSUME NEW r \in Reqs, EmitAll(r) PROVE Truth'
  BY <1>10 DEF EmitAll, Goto
<1>11. ASSUME NEW r \in Reqs, Die(r) PROVE Truth'
  BY <1>11 DEF Die
<1>12. ASSUME NEW e \in post, Deliver(e) PROVE Truth'
  BY <1>12 DEF Deliver
<1>13. CASE UNCHANGED vars
  BY <1>13 DEF vars
<1> QED
  BY <1>1, <1>2, <1>3, <1>4, <1>5, <1>6, <1>7, <1>8, <1>9, <1>10, <1>11, <1>12, <1>13
     DEF Next, Serve, Request

\* The types hold, and a tab shows only rows of its user's.
THEOREM NotificationsTyped == Spec => []TypeOK
<1>1. Truth => TypeOK
  BY DEF Truth
<1> QED
  BY <1>1, TruthInit, TruthStep, PTL DEF Spec
-----------------------------------------------------------------------------
(* Why the tabs agree with the rows.                                       *)

\* A tab still has to hear that i is there, or that i is read.
NewFor(i, t) == \/ \E r \in Reqs : pc[r] = "new" /\ i \in call[r].ids
                \/ \E e \in post : e.name = "new" /\ e.id = i /\ e.tab = t
ReadFor(i, t) == \/ \E r \in Reqs : pc[r] \in {"read", "all"} /\ i \in call[r].ids
                 \/ \E e \in post : e.tab = t /\ (e.name = "all" \/ (e.name = "read" /\ e.id = i))

\* What is under way corrects every tab that does not agree, and nothing under
\* way will undo that.
ToldOf(i, t) ==
    /\ row[i] = "unread" => ~Clearing(Owner[i]) /\ (i \in badge[t] \/ NewFor(i, t))
    /\ row[i] = "read" => ~Coming(i) /\ (i \in badge[t] => ReadFor(i, t))
Told == \A i \in Ids \ excused : \A t \in TabsOf(Owner[i]) : ToldOf(i, t)

LEMMA ToldInit == Init => Told
BY DEF Init, Told, ToldOf

\* A request that begins: what it was about does not matter.
LEMMA ToldBegun ==
    ASSUME Truth, Told, NEW r \in Reqs, pc[r] \notin {"new", "read", "all"},
           NEW step \in {"insert", "find", "updateAll"}, pc' = [pc EXCEPT ![r] = step],
           \A q \in Reqs \ {r} : call'[q] = call[q], UNCHANGED <<row, post, badge, excused>>
    PROVE  Told'
<1> SUFFICES ASSUME NEW i \in Ids \ excused, NEW t \in TabsOf(Owner[i]) PROVE ToldOf(i, t)'
  BY DEF Told, TabsOf
<1>1. ToldOf(i, t)
  BY DEF Told
<1>2. \A q \in Reqs : \/ pc'[q] = pc[q] /\ call'[q] = call[q]
                      \/ pc'[q] \notin {"new", "read", "all"} /\ pc[q] \notin {"new", "read", "all"}
  BY DEF Truth, TypeOK
<1>3. Clearing(Owner[i])' => Clearing(Owner[i])
  BY <1>2 DEF Clearing, TabsOf
<1>4. Coming(i)' => Coming(i)
  BY <1>2 DEF Coming
<1>5. (NewFor(i, t) => NewFor(i, t)') /\ (ReadFor(i, t) => ReadFor(i, t)')
  BY <1>2 DEF NewFor, ReadFor
<1> QED
  BY <1>1, <1>3, <1>4, <1>5 DEF ToldOf

\* A request that moves on to or from a step that tells nobody anything.
LEMMA ToldQuiet ==
    ASSUME Truth, Told, NEW r \in Reqs, NEW step, step \notin {"new", "read", "all"},
           pc' = [pc EXCEPT ![r] = step],
           \/ pc[r] \notin {"new", "read", "all"} /\ excused' = excused
           \/ excused' = excused \cup call[r].ids,
           UNCHANGED <<row, call, post, badge>>
    PROVE  Told'
<1> SUFFICES ASSUME NEW i \in Ids \ excused', NEW t \in TabsOf(Owner[i]) PROVE ToldOf(i, t)'
  BY DEF Told, TabsOf
<1>1. ToldOf(i, t)
  BY DEF Told
<1>2. \A q \in Reqs : q # r => pc'[q] = pc[q]
  BY DEF Truth, TypeOK
<1>3. pc'[r] \notin {"new", "read", "all"}
  BY DEF Truth, TypeOK
<1>4. pc[r] \in {"new", "read", "all"} => i \notin call[r].ids
  OBVIOUS
<1>5. Clearing(Owner[i])' => Clearing(Owner[i])
  BY <1>2, <1>3 DEF Clearing, TabsOf
<1>6. Coming(i)' => Coming(i)
  BY <1>2, <1>3 DEF Coming
<1>7. (NewFor(i, t) => NewFor(i, t)') /\ (ReadFor(i, t) => ReadFor(i, t)')
  BY <1>2, <1>3, <1>4 DEF NewFor, ReadFor
<1> QED
  BY <1>1, <1>5, <1>6, <1>7 DEF ToldOf

LEMMA ToldInsert == ASSUME Truth, Told, NEW r \in Reqs, Insert(r) PROVE Told'
<1> SUFFICES ASSUME NEW i \in Ids \ excused', NEW t \in TabsOf(Owner[i]) PROVE ToldOf(i, t)'
  BY DEF Told, TabsOf
<1>1. /\ pc[r] = "insert" /\ pc' = [pc EXCEPT ![r] = "new"] /\ UNCHANGED <<call, post, badge>>
      /\ row'[i] = IF i \in call[r].ids THEN "unread" ELSE row[i]
      /\ excused' = excused \cup {j \in call[r].ids : Clearing(Owner[j])}
  BY DEF Insert, Goto
<1>2. pc'[r] = "new" /\ \A q \in Reqs : q # r => pc'[q] = pc[q]
  BY <1>1 DEF Truth, TypeOK
<1>3. ToldOf(i, t)
  BY <1>1 DEF Told
<1>4. Clearing(Owner[i])' => Clearing(Owner[i])
  BY <1>1, <1>2 DEF Clearing, TabsOf
<1>5. (NewFor(i, t) => NewFor(i, t)') /\ (ReadFor(i, t) => ReadFor(i, t)')
  BY <1>1, <1>2 DEF NewFor, ReadFor
<1>6. CASE i \in call[r].ids
  <2>1. row'[i] = "unread" /\ ~Clearing(Owner[i])
    BY <1>1, <1>6
  <2>2. NewFor(i, t)'
    BY <1>1, <1>2, <1>6 DEF NewFor
  <2> QED
    BY <1>4, <2>1, <2>2 DEF ToldOf
<1>7. CASE i \notin call[r].ids
  <2>1. row'[i] = row[i]
    BY <1>1, <1>7
  <2>2. Coming(i)' => Coming(i)
    BY <1>1, <1>2, <1>7 DEF Coming
  <2> QED
    BY <1>1, <1>3, <1>4, <1>5, <2>1, <2>2 DEF ToldOf
<1> QED
  BY <1>6, <1>7

LEMMA ToldEmitNew == ASSUME Truth, Told, NEW r \in Reqs, EmitNew(r) PROVE Told'
<1> SUFFICES ASSUME NEW i \in Ids \ excused', NEW t \in TabsOf(Owner[i]) PROVE ToldOf(i, t)'
  BY DEF Told, TabsOf
<1>1. /\ pc[r] = "new" /\ pc' = [pc EXCEPT ![r] = "ok"] /\ UNCHANGED <<row, call, badge, excused>>
      /\ post' = post \cup UNION {Emitted(r, "new", Owner[j], j) : j \in call[r].ids}
  BY DEF EmitNew, Goto
<1>2. pc'[r] = "ok" /\ \A q \in Reqs : q # r => pc'[q] = pc[q]
  BY <1>1 DEF Truth, TypeOK
<1>3. ToldOf(i, t)
  BY <1>1 DEF Told
<1>4. post \subseteq post' /\ \A e \in post' \ post : e.name = "new" /\ e.id \in call[r].ids
  BY <1>1 DEF Emitted
<1>5. i \in call[r].ids => [req |-> r, name |-> "new", tab |-> t, id |-> i] \in post'
  BY <1>1 DEF Emitted
<1>6. Clearing(Owner[i])' => Clearing(Owner[i])
  BY <1>1, <1>2, <1>4 DEF Clearing, TabsOf
<1>7. Coming(i)' => Coming(i)
  BY <1>1, <1>2, <1>4 DEF Coming
<1>8. NewFor(i, t) => NewFor(i, t)'
  BY <1>1, <1>2, <1>4, <1>5 DEF NewFor
<1>9. ReadFor(i, t) => ReadFor(i, t)'
  BY <1>1, <1>2, <1>4 DEF ReadFor
<1> QED
  BY <1>1, <1>3, <1>6, <1>7, <1>8, <1>9 DEF ToldOf

\* Reading I, and becoming the one to tell of it.
LEMMA ToldRead ==
    ASSUME Truth, Told, NEW r \in Reqs, NEW I \in SUBSET Ids, Read(I),
           pc[r] \in {"update", "updateAll"}, NEW step \in {"read", "all"},
           pc' = [pc EXCEPT ![r] = step], call'[r].ids = I, call'[r].user = call[r].user,
           \A q \in Reqs \ {r} : call'[q] = call[q], UNCHANGED <<post, badge>>,
           step = "all" => Unread(call[r].user) \subseteq I
    PROVE  Told'
<1> SUFFICES ASSUME NEW i \in Ids \ excused', NEW t \in TabsOf(Owner[i]) PROVE ToldOf(i, t)'
  BY DEF Told, TabsOf
<1>1. /\ row'[i] = IF i \in I THEN "read" ELSE row[i]
      /\ excused' = excused \cup {j \in I : Coming(j)}
  BY DEF Read
<1>2. pc'[r] = step /\ \A q \in Reqs : q # r => pc'[q] = pc[q]
  BY DEF Truth, TypeOK
<1>3. ToldOf(i, t)
  BY <1>1 DEF Told
<1>4. Coming(i)' => Coming(i)
  BY <1>2 DEF Coming
<1>5. (NewFor(i, t) => NewFor(i, t)') /\ (ReadFor(i, t) => ReadFor(i, t)')
  BY <1>2 DEF NewFor, ReadFor
<1>6. CASE i \in I
  <2>1. row'[i] = "read" /\ ~Coming(i)
    BY <1>1, <1>6
  <2>2. ReadFor(i, t)'
    BY <1>2, <1>6 DEF ReadFor
  <2> QED
    BY <1>4, <2>1, <2>2 DEF ToldOf
<1>7. CASE i \notin I
  <2>1. row'[i] = row[i]
    BY <1>1, <1>7
  <2>2. row[i] = "unread" => ~(step = "all" /\ Owner[i] = call[r].user)
    BY <1>7 DEF Unread
  <2>3. row[i] = "unread" => (Clearing(Owner[i])' => Clearing(Owner[i]))
    BY <1>2, <2>2 DEF Clearing, TabsOf
  <2> QED
    BY <1>3, <1>4, <1>5, <2>1, <2>3 DEF ToldOf
<1> QED
  BY <1>6, <1>7

\* An event to each of the tabs of the one whose rows the request has read.
LEMMA ToldEmitted ==
    ASSUME Truth, Told, NEW r \in Reqs, NEW new, UNCHANGED <<row, call, badge, excused>>,
           pc' = [pc EXCEPT ![r] = "ok"], post' = post \cup new,
           \/ pc[r] = "read" /\ new = UNION {Emitted(r, "read", call[r].user, i) : i \in call[r].ids}
           \/ pc[r] = "all" /\ new = Emitted(r, "all", call[r].user, All)
    PROVE  Told'
<1> SUFFICES ASSUME NEW i \in Ids \ excused', NEW t \in TabsOf(Owner[i]) PROVE ToldOf(i, t)'
  BY DEF Told, TabsOf
<1>2. pc'[r] = "ok" /\ \A q \in Reqs : q # r => pc'[q] = pc[q]
  BY DEF Truth, TypeOK
<1>3. ToldOf(i, t)
  BY DEF Told
<1>4. /\ post \subseteq post'
      /\ \A e \in post' \ post : \/ e.name = "read"
                                 \/ e.name = "all" /\ pc[r] = "all" /\ e.tab \in TabsOf(call[r].user)
  <2>1. post \subseteq post'
    OBVIOUS
  <2>2. ASSUME NEW e \in new
        PROVE  \/ e.name = "read"
               \/ e.name = "all" /\ pc[r] = "all" /\ e.tab \in TabsOf(call[r].user)
    <3>1. CASE pc[r] = "read" /\ new = UNION {Emitted(r, "read", call[r].user, j) : j \in call[r].ids}
      BY <3>1 DEF Emitted
    <3>2. CASE pc[r] = "all" /\ new = Emitted(r, "all", call[r].user, All)
      BY <3>2 DEF Emitted
    <3> QED
      BY <3>1, <3>2
  <2> QED
    BY <2>1, <2>2
<1>5. i \in call[r].ids =>
          \E e \in post' : e.tab = t /\ (e.name = "all" \/ (e.name = "read" /\ e.id = i))
  <2> SUFFICES ASSUME i \in call[r].ids
               PROVE \E e \in post' : e.tab = t /\ (e.name = "all" \/ (e.name = "read" /\ e.id = i))
    OBVIOUS
  <2>1. t \in TabsOf(call[r].user)
    BY DEF Truth, RequestsTrue, TabsOf
  <2>2. CASE pc[r] = "read"
    <3>1. [req |-> r, name |-> "read", tab |-> t, id |-> i] \in post'
      BY <2>1, <2>2 DEF Emitted
    <3> QED
      BY <3>1
  <2>3. CASE pc[r] = "all"
    <3>1. [req |-> r, name |-> "all", tab |-> t, id |-> All] \in post'
      BY <2>1, <2>3 DEF Emitted
    <3> QED
      BY <3>1
  <2> QED
    BY <2>2, <2>3
<1>6. Clearing(Owner[i])' => Clearing(Owner[i])
  <2>1. Owner[i] \in Users /\ call[r].user \in Users
    BY NotificationsAssumption DEF Truth, TypeOK
  <2>2. ASSUME NEW e \in post' \ post, e.name = "all", e.tab \in TabsOf(Owner[i])
        PROVE  pc[r] = "all" /\ call[r].user = Owner[i]
    BY <1>4, <2>2 DEF TabsOf
  <2> QED
    BY <1>2, <1>4, <2>2 DEF Clearing, TabsOf
<1>7. Coming(i)' => Coming(i)
  BY <1>2, <1>4 DEF Coming
<1>8. NewFor(i, t) => NewFor(i, t)'
  BY <1>2, <1>4 DEF NewFor
<1>9. ReadFor(i, t) => ReadFor(i, t)'
  BY <1>2, <1>4, <1>5 DEF ReadFor
<1> QED
  BY <1>3, <1>6, <1>7, <1>8, <1>9 DEF ToldOf

LEMMA ToldDeliver == ASSUME Truth, Told, NEW e \in post, Deliver(e) PROVE Told'
<1> SUFFICES ASSUME NEW i \in Ids \ excused', NEW t \in TabsOf(Owner[i]) PROVE ToldOf(i, t)'
  BY DEF Told, TabsOf
<1>1. /\ post' = post \ {e} /\ UNCHANGED <<row, pc, call, excused>>
      /\ e.tab # t => badge'[t] = badge[t]
      /\ e.tab = t /\ e.name = "new" => badge'[t] = badge[t] \cup {e.id}
      /\ e.tab = t /\ e.name = "read" => badge'[t] = badge[t] \ {e.id}
      /\ e.tab = t /\ e.name = "all" => badge'[t] = {}
  BY DEF Deliver, Truth, TypeOK, TabsOf
<1>2. ToldOf(i, t)
  BY <1>1 DEF Told
<1>3. e \in Event /\ t \in Tabs
  BY DEF Truth, TypeOK, TabsOf
<1>4. (Clearing(Owner[i])' => Clearing(Owner[i])) /\ (Coming(i)' => Coming(i))
  BY <1>1 DEF Clearing, Coming, TabsOf
<1>5. ASSUME row[i] = "unread" PROVE i \in badge'[t] \/ NewFor(i, t)'
  <2>1. ~(e.tab = t /\ e.name = "all")
    BY <1>2, <1>5 DEF ToldOf, Clearing
  <2>2. ~(e.name = "read" /\ e.id = i)
    BY <1>5 DEF Truth, EventsTrue
  <2>3. CASE i \in badge[t]
    BY <1>1, <1>3, <2>1, <2>2, <2>3 DEF Event
  <2>4. CASE NewFor(i, t)
    BY <1>1, <1>3, <2>4 DEF NewFor, Event
  <2> QED
    BY <1>2, <1>5, <2>3, <2>4 DEF ToldOf
<1>6. ASSUME row[i] = "read", i \in badge'[t] PROVE ReadFor(i, t)'
  <2>1. ~(e.name = "new" /\ e.id = i)
    BY <1>2, <1>6 DEF ToldOf, Coming
  <2>2. i \in badge[t] /\ ~(e.tab = t /\ (e.name = "all" \/ (e.name = "read" /\ e.id = i)))
    BY <1>1, <1>3, <1>6, <2>1 DEF Event
  <2>3. ReadFor(i, t)
    BY <1>2, <1>6, <2>2 DEF ToldOf
  <2> QED
    BY <1>1, <2>2, <2>3 DEF ReadFor
<1> QED
  BY <1>1, <1>2, <1>4, <1>5, <1>6 DEF ToldOf

LEMMA ToldStep == Truth /\ Told /\ [Next]_vars => Told'
<1> SUFFICES ASSUME Truth, Told, [Next]_vars PROVE Told'
  OBVIOUS
<1>1. ASSUME NEW r \in Reqs, NEW step \in {"insert", "find", "updateAll"},
             NEW u, NEW I, Begin(r, step, u, I)
      PROVE  Told'
  <2>1. /\ pc[r] = "idle" /\ pc' = [pc EXCEPT ![r] = step]
        /\ \A q \in Reqs \ {r} : call'[q] = call[q]
        /\ UNCHANGED <<row, post, badge, excused>>
    BY <1>1 DEF Begin, Truth, TypeOK
  <2> QED
    BY <2>1, ToldBegun
<1>2. ASSUME NEW r \in Reqs, EmitRead(r) \/ EmitAll(r) PROVE Told'
  BY <1>2, ToldEmitted DEF EmitRead, EmitAll, Goto
<1>3. ASSUME NEW r \in Reqs, Find(r) PROVE Told'
  <2> PICK i \in call[r].ids :
          Goto(r, "find", CASE row[i] = "none" -> "notFound"
                            [] row[i] # "none" /\ Owner[i] # call[r].user -> "forbidden"
                            [] row[i] = "read" /\ Owner[i] = call[r].user -> "ok"
                            [] OTHER -> "update")
    BY <1>3 DEF Find
  <2> DEFINE step == CASE row[i] = "none" -> "notFound"
                       [] row[i] # "none" /\ Owner[i] # call[r].user -> "forbidden"
                       [] row[i] = "read" /\ Owner[i] = call[r].user -> "ok"
                       [] OTHER -> "update"
  <2>1. pc[r] = "find" /\ pc' = [pc EXCEPT ![r] = step] /\ UNCHANGED <<row, call, post, badge, excused>>
    BY <1>3 DEF Find, Goto
  <2>2. step \notin {"new", "read", "all"}
    OBVIOUS
  <2> HIDE DEF step
  <2> QED
    BY <2>1, <2>2, ToldQuiet
<1>4. ASSUME NEW r \in Reqs, Die(r) PROVE Told'
  BY <1>4, ToldQuiet DEF Die
<1>5. ASSUME NEW r \in Reqs, Update(r) PROVE Told'
  <2>1. call[r].ids \in SUBSET Ids
    BY DEF Truth, TypeOK
  <2> QED
    BY <1>5, <2>1, ToldRead DEF Update, Goto
<1>6. ASSUME NEW r \in Reqs, UpdateAll(r) PROVE Told'
  <2> DEFINE I == Unread(call[r].user)
  <2>1. /\ pc[r] = "updateAll" /\ pc' = [pc EXCEPT ![r] = "all"] /\ Read(I)
        /\ call'[r].ids = I /\ call'[r].user = call[r].user
        /\ \A q \in Reqs \ {r} : call'[q] = call[q]
        /\ UNCHANGED <<post, badge>>
    BY <1>6 DEF UpdateAll, Goto, Truth, TypeOK
  <2>2. I \in SUBSET Ids
    BY DEF Unread
  <2> HIDE DEF I
  <2>3. Unread(call[r].user) \subseteq I
    BY DEF I
  <2> QED
    BY <2>1, <2>2, <2>3, ToldRead
<1>7. CASE UNCHANGED vars
  BY <1>7 DEF vars, Told, ToldOf, Clearing, Coming, NewFor, ReadFor, TabsOf
<1> QED
  BY <1>1, <1>2, <1>3, <1>4, <1>5, <1>6, <1>7, ToldInsert, ToldEmitNew, ToldDeliver
     DEF Next, Serve, Request, Notify, MarkRead, MarkAllRead

\* When everything has arrived every tab shows exactly the unread rows, but for
\* those of which the events were lost or crossed.
THEOREM BadgesMeetTheRows == Spec => []BadgesAgree
<1>1. Truth /\ Told => BadgesAgree
  BY DEF Truth, TypeOK, Told, ToldOf, BadgesAgree, AtRest, NewFor, ReadFor, Steps, TabsOf
<1> QED
  BY <1>1, TruthInit, TruthStep, ToldInit, ToldStep, PTL DEF Spec

-----------------------------------------------------------------------------
(* When a notification was first read.                                     *)

\* A step writes the readAt of a read row only as the update of a request that
\* had found it unread, and makes no further request of that kind.
ReadStays(i) == row[i] = "read" =>
                    /\ Writers(i)' \subseteq Writers(i)
                    /\ stamps'[i] # stamps[i] => Writers(i)' # Writers(i)

LEMMA ReadStaysStep == Truth /\ [Next]_vars => \A i \in Ids : ReadStays(i)
<1> SUFFICES ASSUME Truth, [Next]_vars, NEW i \in Ids, row[i] = "read"
             PROVE  /\ Writers(i)' \subseteq Writers(i)
                    /\ stamps'[i] # stamps[i] => Writers(i)' # Writers(i)
  BY DEF ReadStays
<1> USE DEF Truth, TypeOK, Writers, Steps, Answers
<1>1. ASSUME NEW r \in Reqs, NEW step \in {"insert", "find", "updateAll"},
             NEW u, NEW I, Begin(r, step, u, I)
      PROVE  Writers(i)' \subseteq Writers(i) /\ stamps' = stamps
  BY <1>1 DEF Begin
<1>2. ASSUME NEW r \in Reqs, EmitNew(r) \/ EmitRead(r) \/ EmitAll(r) \/ Die(r)
      PROVE  Writers(i)' \subseteq Writers(i) /\ stamps' = stamps
  BY <1>2 DEF EmitNew, EmitRead, EmitAll, Die, Goto
<1>3. ASSUME NEW r \in Reqs, Find(r)
      PROVE  Writers(i)' \subseteq Writers(i) /\ stamps' = stamps
  <2> PICK j \in call[r].ids :
          Goto(r, "find", CASE row[j] = "none" -> "notFound"
                            [] row[j] # "none" /\ Owner[j] # call[r].user -> "forbidden"
                            [] row[j] = "read" /\ Owner[j] = call[r].user -> "ok"
                            [] OTHER -> "update")
    BY <1>3 DEF Find
  <2>1. /\ pc[r] = "find" /\ pc' = [pc EXCEPT ![r] = pc'[r]]
        /\ UNCHANGED <<stamps, call>>
        /\ pc'[r] = "update" => row[j] = "unread"
    BY <1>3 DEF Find, Goto
  <2>2. \A k \in call[r].ids : k = j
    BY <2>1 DEF RequestsTrue
  <2> QED
    BY <2>1, <2>2
<1>4. ASSUME NEW r \in Reqs, Insert(r)
      PROVE  Writers(i)' \subseteq Writers(i) /\ stamps' = stamps
  BY <1>4 DEF Insert, Goto
<1>5. ASSUME NEW r \in Reqs, Update(r)
      PROVE  /\ Writers(i)' \subseteq Writers(i)
             /\ stamps'[i] # stamps[i] => Writers(i)' # Writers(i)
  <2>1. /\ pc[r] = "update" /\ pc' = [pc EXCEPT ![r] = "read"] /\ UNCHANGED call
        /\ stamps'[i] # stamps[i] => i \in call[r].ids
    BY <1>5 DEF Update, Read, Goto
  <2>2. i \in call[r].ids => r \in Writers(i) /\ r \notin Writers(i)'
    BY <2>1
  <2> QED
    BY <2>1, <2>2
<1>6. ASSUME NEW r \in Reqs, UpdateAll(r)
      PROVE  Writers(i)' \subseteq Writers(i) /\ stamps'[i] = stamps[i]
  BY <1>6 DEF UpdateAll, Read, Goto, Unread
<1>7. ASSUME NEW e \in post, Deliver(e)
      PROVE  Writers(i)' \subseteq Writers(i) /\ stamps' = stamps
  BY <1>7 DEF Deliver
<1>8. CASE UNCHANGED vars
  BY <1>8 DEF vars
<1> QED
  BY <1>1, <1>2, <1>3, <1>4, <1>5, <1>6, <1>7, <1>8
     DEF Next, Serve, Request, Notify, MarkRead, MarkAllRead

\* Once a notification is read, its readAt is written only by requests that had
\* found it unread, each of them once: for any number of overlapping requests.
THEOREM FirstReadStays == Spec => ReadOnce
<1>1. Truth /\ [Next]_vars =>
        \A i \in Ids : row[i] = "read" =>
            /\ Writers(i)' \subseteq Writers(i)
            /\ stamps'[i] # stamps[i] => Writers(i)' # Writers(i)
  BY ReadStaysStep DEF ReadStays
<1> QED
  BY <1>1, TruthInit, TruthStep, PTL DEF Spec, ReadOnce
=============================================================================
