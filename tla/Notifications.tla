---------------------------- MODULE Notifications ----------------------------
(***************************************************************************)
(* NotificationsService (apps/api/src/notifications): the rows, the two    *)
(* ways of marking them read, and the unread notifications each open tab   *)
(* shows, which follow the events.                                         *)
(*                                                                         *)
(* Each action is one database call of a request, its events, or an event  *)
(* that reaches a tab: the requests run on several processes, and Redis    *)
(* keeps no order between them.                                            *)
(***************************************************************************)
EXTENDS Naturals

CONSTANTS
    Users,
    Ids,        \* the notifications
    Owner,      \* whom each is for
    Tabs,       \* the open tabs
    Viewer,     \* whose tab it is
    Reqs,       \* the requests; each is served once
    All         \* the payload {all: true}, where others carry an id

ASSUME NotificationsAssumption ==
    /\ Owner \in [Ids -> Users] /\ Viewer \in [Tabs -> Users]
    /\ All \notin Ids /\ Users # {}

VARIABLES
    row,        \* table Notification: "none", "unread" or "read"
    stamps,     \* how many times readAt was written
    pc,         \* the step each request is at, or how it was answered
    call,       \* who asks, and the ids it is about
    post,       \* events on their way
    badge,      \* the notifications each tab shows as unread
    excused     \* those that were being told of when they were read, or the
                \* other way round, or of which an event was lost

vars == <<row, stamps, pc, call, post, badge, excused>>

Steps == {"insert", "new", "find", "update", "read", "updateAll", "all"}
Answers == {"ok", "notFound", "forbidden", "died"}
Event == [req : Reqs, name : {"new", "read", "all"}, tab : Tabs, id : Ids \cup {All}]

\* The types; a tab shows its user's rows, and readAt is set on those read.
TypeOK ==
    /\ row \in [Ids -> {"none", "unread", "read"}]
    /\ stamps \in [Ids -> Nat]
    /\ pc \in [Reqs -> {"idle"} \cup Steps \cup Answers]
    /\ call \in [Reqs -> [user : Users, ids : SUBSET Ids]]
    /\ post \subseteq Event
    /\ badge \in [Tabs -> SUBSET Ids]
    /\ excused \subseteq Ids
    /\ \A t \in Tabs : \A i \in badge[t] : row[i] # "none" /\ Owner[i] = Viewer[t]
    /\ \A i \in Ids : stamps[i] = 0 <=> row[i] # "read"

Init ==
    /\ row = [i \in Ids |-> "none"]
    /\ stamps = [i \in Ids |-> 0]
    /\ pc = [r \in Reqs |-> "idle"]
    /\ call = [r \in Reqs |-> [user |-> CHOOSE u \in Users : TRUE, ids |-> {}]]
    /\ post = {}
    /\ badge = [t \in Tabs |-> {}]
    /\ excused = {}

Unread(u) == {i \in Ids : Owner[i] = u /\ row[i] = "unread"}
TabsOf(u) == {t \in Tabs : Viewer[t] = u}

\* Some tab has yet to hear that i is there; that all of u's rows are read.
Coming(i) == \/ \E r \in Reqs : pc[r] = "new" /\ i \in call[r].ids
             \/ \E e \in post : e.name = "new" /\ e.id = i
Clearing(u) == \/ \E r \in Reqs : pc[r] = "all" /\ call[r].user = u
               \/ \E e \in post : e.name = "all" /\ e.tab \in TabsOf(u)

AtRest == post = {} /\ \A r \in Reqs : pc[r] \notin Steps

-----------------------------------------------------------------------------

\* Requests are interchangeable, so the next is always the same one.
Begin(r, step, u, I) ==
    /\ pc[r] = "idle" /\ r = CHOOSE q \in Reqs : pc[q] = "idle"
    /\ pc' = [pc EXCEPT ![r] = step]
    /\ call' = [call EXCEPT ![r] = [user |-> u, ids |-> I]]
    /\ UNCHANGED <<row, stamps, post, badge, excused>>

\* fanOutNotifications: one new row for each target; the ids are fresh.
Notify(r, I) ==
    /\ \A i \in I : row[i] = "none" /\ \A q \in Reqs : pc[q] = "insert" => i \notin call[q].ids
    /\ Begin(r, "insert", call[r].user, I)
MarkRead(r, u, i) == Begin(r, "find", u, {i})
MarkAllRead(r, u) == Begin(r, "updateAll", u, {})

Goto(r, from, to) ==
    /\ pc[r] = from
    /\ pc' = [pc EXCEPT ![r] = to]

\* createMany: all the rows in one transaction.
Insert(r) ==
    /\ Goto(r, "insert", "new")
    /\ row' = [i \in Ids |-> IF i \in call[r].ids THEN "unread" ELSE row[i]]
    /\ excused' = excused \cup {i \in call[r].ids : Clearing(Owner[i])}
    /\ UNCHANGED <<stamps, call, post, badge>>

\* emitToUser of one event, to all the tabs of a user.
Emitted(r, name, u, id) == [req : {r}, name : {name}, tab : TabsOf(u), id : {id}]

EmitNew(r) ==
    /\ Goto(r, "new", "ok")
    /\ post' = post \cup UNION {Emitted(r, "new", Owner[i], i) : i \in call[r].ids}
    /\ UNCHANGED <<row, stamps, call, badge, excused>>

\* Mutant: without the early return for what is read already.
FindBlind(r) ==
    /\ \E i \in call[r].ids :
           Goto(r, "find", CASE row[i] = "none" -> "notFound"
                             [] row[i] # "none" /\ Owner[i] # call[r].user -> "forbidden"
                             [] OTHER -> "update")
    /\ UNCHANGED <<row, stamps, call, post, badge, excused>>

\* markRead: not found, another's, read already (answered as it is), or go on.
Find(r) ==
    /\ \E i \in call[r].ids :
           Goto(r, "find", CASE row[i] = "none" -> "notFound"
                             [] row[i] # "none" /\ Owner[i] # call[r].user -> "forbidden"
                             [] row[i] = "read" /\ Owner[i] = call[r].user -> "ok"
                             [] OTHER -> "update")
    /\ UNCHANGED <<row, stamps, call, post, badge, excused>>

\* What has become read, while some tab has yet to hear that it is there.
Read(I) ==
    /\ row' = [i \in Ids |-> IF i \in I THEN "read" ELSE row[i]]
    /\ stamps' = [i \in Ids |-> IF i \in I THEN stamps[i] + 1 ELSE stamps[i]]
    /\ excused' = excused \cup {i \in I : Coming(i)}

\* By id alone: the row may have been marked since it was found unread.
Update(r) ==
    /\ Goto(r, "update", "read")
    /\ Read(call[r].ids)
    /\ UNCHANGED <<call, post, badge>>

\* Mutant: the tab that asks is told, his other tabs are not.
EmitReadToOne(r) ==
    /\ Goto(r, "read", "ok")
    /\ \E i \in call[r].ids, t \in TabsOf(call[r].user) :
           post' = post \cup {[req |-> r, name |-> "read", tab |-> t, id |-> i]}
    /\ UNCHANGED <<row, stamps, call, badge, excused>>

EmitRead(r) ==
    /\ Goto(r, "read", "ok")
    /\ post' = post \cup UNION {Emitted(r, "read", call[r].user, i) : i \in call[r].ids}
    /\ UNCHANGED <<row, stamps, call, badge, excused>>

\* markAllRead: the rows that are unread now.
UpdateAll(r) ==
    LET I == Unread(call[r].user)
    IN  /\ Goto(r, "updateAll", "all")
        /\ Read(I)
        /\ call' = [call EXCEPT ![r].ids = I]
        /\ UNCHANGED <<post, badge>>

EmitAll(r) ==
    /\ Goto(r, "all", "ok")
    /\ post' = post \cup Emitted(r, "all", call[r].user, All)
    /\ UNCHANGED <<row, stamps, call, badge, excused>>

\* The process dies, or a call fails; what was committed stays, unannounced.
Die(r) ==
    /\ pc[r] \in Steps
    /\ pc' = [pc EXCEPT ![r] = "died"]
    /\ excused' = IF pc[r] \in {"new", "read", "all"} THEN excused \cup call[r].ids ELSE excused
    /\ UNCHANGED <<row, stamps, call, post, badge>>

\* The tab shows a new notification, no longer one that was read, or none.
Deliver(e) ==
    /\ e \in post
    /\ post' = post \ {e}
    /\ badge' = [badge EXCEPT ![e.tab] = CASE e.name = "new" -> @ \cup {e.id}
                                           [] e.name = "read" -> @ \ {e.id}
                                           [] e.name = "all" -> {}]
    /\ UNCHANGED <<row, stamps, pc, call, excused>>

-----------------------------------------------------------------------------

Serve(r) ==
    \/ Insert(r) \/ EmitNew(r)
    \/ Find(r) \/ Update(r) \/ EmitRead(r)
    \/ UpdateAll(r) \/ EmitAll(r)

Request(r) ==
    \/ \E I \in SUBSET Ids \ {{}} : Notify(r, I)
    \/ \E u \in Users : MarkAllRead(r, u) \/ \E i \in Ids : MarkRead(r, u, i)

Next ==
    \/ \E r \in Reqs : Serve(r) \/ Die(r) \/ Request(r)
    \/ \E e \in post : Deliver(e)

Spec == Init /\ [][Next]_vars

-----------------------------------------------------------------------------
(* Properties.                                                             *)

\* When everything has arrived each tab shows exactly the unread rows of its
\* user, but for those that were read while their announcement was under way,
\* created while 'all' was, or whose request died with its event unsent.
BadgesAgree ==
    AtRest => \A t \in Tabs, i \in Ids :
                  i \notin excused /\ Owner[i] = Viewer[t] =>
                      (i \in badge[t] <=> row[i] = "unread")

\* readAt is the time a notification was first read, but for requests that had
\* found it unread before: once it is read they alone may write it again, each of
\* them once, whatever else is asked and however the requests interleave.
Writers(i) == {r \in Reqs : pc[r] = "update" /\ i \in call[r].ids}
ReadOnce ==
    [][\A i \in Ids : row[i] = "read" =>
          /\ Writers(i)' \subseteq Writers(i)
          /\ stamps'[i] # stamps[i] => Writers(i)' # Writers(i)]_vars
=============================================================================
