------------------------------ MODULE Presence ------------------------------
(***************************************************************************)
(* PresenceService (apps/api/src/presence) under the gateway's connect and *)
(* disconnect handlers, for the sockets of one user, and what somebody he  *)
(* may talk to is told of him.  Users share nothing.                       *)
(*                                                                         *)
(* Each action is one call to Redis or PostgreSQL; the handlers of         *)
(* different sockets interleave at every await, and so do the connect and  *)
(* the disconnect handler of one socket.                                   *)
(***************************************************************************)
EXTENDS Naturals, FiniteSets

CONSTANTS
    Sockets,    \* the sockets the user opens in his life: ids are not reused
    Instances,  \* the API processes
    Home,       \* the process each socket connects to
    Hasty,      \* the sockets that may close while they connect, if any does
    Weathers    \* what may happen besides tabs that open and close: see Events

\* "connect", "disconnect": a call of the connect (disconnect) handler fails.
\* "write": the write of a status fails, and touchLastSeen swallows the error.
\* "crash": a process dies.  "early": a socket closes while it is connecting.
\* "expiry": a day passes without a new socket.  "patch": PATCH /users/me.
\* "meet": the user and the contact come to share conversations.
Events == {"connect", "disconnect", "write", "crash", "early", "expiry", "patch", "meet"}
Status == {"ONLINE", "OFFLINE", "AWAY"}

ASSUME PresenceAssumption ==
    /\ Home \in [Sockets -> Instances]
    /\ IsFiniteSet(Sockets)
    /\ Weathers \subseteq SUBSET Events

VARIABLES
    weather,  \* the events that may happen
    sock,     \* each socket: "new", "open" or "closed"
    known,    \* the sockets whose socket.data.user is set
    up,       \* the step of each connect handler
    down,     \* the step of each disconnect handler
    live,     \* the Redis set presence:sockets:<user>; {} is no key
    timed,    \* does the key have a time to live?
    status,   \* User.status
    near,     \* is a client of the contact in the room of a conversation they share?
    paired,   \* do the two have a direct conversation?
    heard     \* what the contact was last told of the user

contact == <<near, paired, heard>>
vars == <<weather, sock, known, up, down, live, timed, status, near, paired, heard>>

\* "GREETED" is the ONLINE of a new direct conversation, which says nothing of
\* the user's sockets.
News == {"NOTHING", "ONLINE", "OFFLINE", "GREETED"}

UpSteps == {"auth", "add", "count", "touch", "tell"}
DownSteps == {"rem", "count", "del", "touch", "tell"}

\* The types, and what the steps of the two handlers say of each other.
TypeOK ==
    /\ weather \in Weathers
    /\ sock \in [Sockets -> {"new", "open", "closed"}]
    /\ known \subseteq Sockets
    /\ up \in [Sockets -> {"idle", "done", "failed"} \cup UpSteps]
    /\ down \in [Sockets -> {"idle", "done"} \cup DownSteps]
    /\ live \subseteq Sockets
    /\ timed \in BOOLEAN
    /\ status \in Status
    /\ near \in BOOLEAN /\ paired \in BOOLEAN
    /\ heard \in News
    /\ \A s \in Sockets : /\ sock[s] = "new" <=> up[s] = "idle"
                          /\ sock[s] # "closed" => down[s] = "idle"
                          /\ up[s] \in UpSteps \ {"auth"} => s \in known

Open == {s \in Sockets : sock[s] = "open"}
Busy(s) == up[s] \in UpSteps \/ down[s] \in DownSteps
AtRest == \A s \in Sockets : ~Busy(s)

May(event) == event \in weather

Init ==
    /\ weather \in Weathers
    /\ sock = [s \in Sockets |-> "new"]
    /\ known = {}
    /\ up = [s \in Sockets |-> "idle"]
    /\ down = [s \in Sockets |-> "idle"]
    /\ live = {}
    /\ timed = FALSE
    /\ status = "OFFLINE"
    /\ near = FALSE /\ paired = FALSE
    /\ heard = "NOTHING"

-----------------------------------------------------------------------------
(* Sockets open and close.                                                 *)

Connect(s) ==
    /\ sock[s] = "new"
    /\ sock' = [sock EXCEPT ![s] = "open"]
    /\ up' = [up EXCEPT ![s] = "auth"]
    /\ UNCHANGED <<weather, known, down, live, timed, status, contact>>

\* Mutant: nobody handles the disconnect.
DropSilently(s) ==
    /\ sock' = [sock EXCEPT ![s] = "closed"]
    /\ UNCHANGED down

\* The socket is gone: handleDisconnect runs if the socket was still there, and
\* returns at once for one that has no user yet.
Drop(s) ==
    /\ sock' = [sock EXCEPT ![s] = "closed"]
    /\ down' = IF sock[s] = "open" /\ s \in known
               THEN [down EXCEPT ![s] = "rem"] ELSE down

Close(s) ==
    /\ sock[s] = "open"
    /\ up[s] = "done" \/ (May("early") /\ s \in Hasty)
    /\ Drop(s)
    /\ UNCHANGED <<weather, known, up, live, timed, status, contact>>

-----------------------------------------------------------------------------
(* handleConnection and registerSocket.                                    *)

\* Mutant: the socket is given no user.
AuthenticateNobody(s) ==
    /\ up[s] = "auth"
    /\ up' = [up EXCEPT ![s] = "add"]
    /\ UNCHANGED <<weather, sock, known, down, live, timed, status, contact>>

\* Token, user row, rooms: awaits that write no state of this module.
Authenticate(s) ==
    /\ up[s] = "auth"
    /\ up' = [up EXCEPT ![s] = "add"]
    /\ known' = known \cup {s}
    /\ UNCHANGED <<weather, sock, down, live, timed, status, contact>>

\* The catch clause: a bad token, or a call that failed, disconnects.
Reject(s) ==
    /\ up[s] = "auth" \/ (up[s] \in UpSteps /\ May("connect"))
    /\ up' = [up EXCEPT ![s] = "failed"]
    /\ Drop(s)
    /\ UNCHANGED <<weather, known, live, timed, status, contact>>

\* Mutant: the key is given no time to live.
AddForGood(s) ==
    /\ up[s] = "add"
    /\ up' = [up EXCEPT ![s] = "count"]
    /\ live' = live \cup {s}
    /\ UNCHANGED <<weather, sock, known, down, timed, status, contact>>

\* MULTI SADD, EXPIRE.
AddSocket(s) ==
    /\ up[s] = "add"
    /\ up' = [up EXCEPT ![s] = "count"]
    /\ live' = live \cup {s}
    /\ timed' = TRUE
    /\ UNCHANGED <<weather, sock, known, down, status, contact>>

CountUp(s) ==
    /\ up[s] = "count"
    /\ up' = [up EXCEPT ![s] = IF Cardinality(live) = 1 THEN "touch" ELSE "done"]
    /\ UNCHANGED <<weather, sock, known, down, live, timed, status, contact>>

\* touchLastSeen swallows its errors: the handler goes on without the write.
TouchOnline(s) ==
    /\ up[s] = "touch"
    /\ up' = [up EXCEPT ![s] = "tell"]
    /\ \/ status' = "ONLINE"
       \/ May("write") /\ UNCHANGED status
    /\ UNCHANGED <<weather, sock, known, down, live, timed, contact>>

\* broadcastPresence emits to the rooms of the user's conversations.
Broadcast(news) ==
    /\ heard' = IF near THEN news ELSE heard
    /\ UNCHANGED <<near, paired>>

TellOnline(s) ==
    /\ up[s] = "tell"
    /\ up' = [up EXCEPT ![s] = "done"]
    /\ Broadcast("ONLINE")
    /\ UNCHANGED <<weather, sock, known, down, live, timed, status>>

-----------------------------------------------------------------------------
(* unregisterSocket.                                                       *)

\* SREM; a set that becomes empty is no key any more.
RemoveSocket(s) ==
    /\ down[s] = "rem"
    /\ down' = [down EXCEPT ![s] = "count"]
    /\ live' = live \ {s}
    /\ timed' = (timed /\ live' # {})
    /\ UNCHANGED <<weather, sock, known, up, status, contact>>

\* Mutant: counts one socket too many.
CountToOne(s) ==
    /\ down[s] = "count"
    /\ down' = [down EXCEPT ![s] = IF Cardinality(live) <= 1 THEN "del" ELSE "done"]
    /\ UNCHANGED <<weather, sock, known, up, live, timed, status, contact>>

\* Mutant: an empty set counts as a socket that is left.
CountNeverZero(s) ==
    /\ down[s] = "count"
    /\ down' = [down EXCEPT ![s] = "done"]
    /\ UNCHANGED <<weather, sock, known, up, live, timed, status, contact>>

CountDown(s) ==
    /\ down[s] = "count"
    /\ down' = [down EXCEPT ![s] = IF live = {} THEN "del" ELSE "done"]
    /\ UNCHANGED <<weather, sock, known, up, live, timed, status, contact>>

DeleteKey(s) ==
    /\ down[s] = "del"
    /\ down' = [down EXCEPT ![s] = "touch"]
    /\ live' = {}
    /\ timed' = FALSE
    /\ UNCHANGED <<weather, sock, known, up, status, contact>>

TouchOffline(s) ==
    /\ down[s] = "touch"
    /\ down' = [down EXCEPT ![s] = "tell"]
    /\ \/ status' = "OFFLINE"
       \/ May("write") /\ UNCHANGED status
    /\ UNCHANGED <<weather, sock, known, up, live, timed, contact>>

TellOffline(s) ==
    /\ down[s] = "tell"
    /\ down' = [down EXCEPT ![s] = "done"]
    /\ Broadcast("OFFLINE")
    /\ UNCHANGED <<weather, sock, known, up, live, timed, status>>

\* Nothing catches a failure of the disconnect handler.
FailDown(s) ==
    /\ May("disconnect")
    /\ down[s] \in DownSteps
    /\ down' = [down EXCEPT ![s] = "done"]
    /\ UNCHANGED <<weather, sock, known, up, live, timed, status, contact>>

Handle(s) ==
    \/ Authenticate(s) \/ AddSocket(s) \/ CountUp(s) \/ TouchOnline(s) \/ TellOnline(s)
    \/ RemoveSocket(s) \/ CountDown(s) \/ DeleteKey(s) \/ TouchOffline(s) \/ TellOffline(s)

-----------------------------------------------------------------------------
(* What else happens to the state.                                         *)

\* The user creates his direct conversation with the contact, with a socket or
\* without: the creation tells the contact that he is ONLINE.
StartDirect ==
    /\ May("meet")
    /\ ~paired
    /\ paired' = TRUE
    /\ heard' = "GREETED"
    /\ UNCHANGED <<weather, sock, known, up, down, live, timed, status, near>>

\* A client of the contact joins the room of a conversation they share, on
\* connecting or by asking (see Rooms).
EnterRoom ==
    /\ May("meet")
    /\ ~near
    /\ near' = TRUE
    /\ UNCHANGED <<weather, sock, known, up, down, live, timed, status, paired, heard>>

\* A process dies with its sockets and its handlers; what is in Redis stays.
Crash(i) ==
    LET here == {s \in Sockets : Home[s] = i}
    IN
    /\ May("crash")
    /\ sock' = [s \in Sockets |-> IF s \in here /\ sock[s] = "open"
                                  THEN "closed" ELSE sock[s]]
    /\ up' = [s \in Sockets |-> IF s \in here /\ up[s] \in UpSteps
                                THEN "failed" ELSE up[s]]
    /\ down' = [s \in Sockets |-> IF s \in here /\ down[s] \in DownSteps
                                  THEN "done" ELSE down[s]]
    /\ UNCHANGED <<weather, known, live, timed, status, contact>>

\* SOCKETS_TTL_SECONDS after the last SADD: no handler lasts that long.
Expire ==
    /\ May("expiry")
    /\ timed
    /\ AtRest
    /\ live' = {}
    /\ timed' = FALSE
    /\ UNCHANGED <<weather, sock, known, up, down, status, contact>>

\* PATCH /users/me writes the status and tells nobody.
PatchStatus ==
    /\ May("patch")
    /\ status' \in Status
    /\ UNCHANGED <<weather, sock, known, up, down, live, timed, contact>>

\* All sockets have come and gone.
Over ==
    /\ AtRest
    /\ \A s \in Sockets : sock[s] = "closed"
    /\ UNCHANGED vars

Next ==
    \/ \E s \in Sockets : Connect(s) \/ Close(s) \/ Handle(s) \/ Reject(s) \/ FailDown(s)
    \/ \E i \in Instances : Crash(i)
    \/ Expire
    \/ PatchStatus
    \/ StartDirect
    \/ EnterRoom
    \/ Over

Spec == Init /\ [][Next]_vars

\* Handlers are scheduled, and time passes; nobody owes a click.
Fairness == WF_vars(Expire) /\ \A s \in Sockets : WF_vars(Handle(s))
FairSpec == Spec /\ Fairness
-----------------------------------------------------------------------------
(* What must hold.                                                         *)

\* What may go wrong all the same when no process dies, no disconnect handler
\* fails and no socket closes while it connects.
Benign == weather \subseteq {"connect", "write", "expiry", "patch", "meet"}

\* The set holds sockets that are there, or that are about to be taken out: no
\* ghost keeps a user online.
NoGhosts == Benign => \A s \in live : sock[s] = "open" \/ down[s] = "rem"

\* The first socket makes the transition from offline to online, which is what
\* registerSocket's comment promises: with a tab open, and no handler running,
\* the user is online to the fan-out (Redis) and in the table.
OpenIsOnline == AtRest /\ Open # {} => live = Open /\ status = "ONLINE"

\* Ghosts do not last: once no socket is open any more, the set is empty some
\* day, whatever died, failed or closed early, for the key always has a time to
\* live.
GhostsExpire == <>[](Open = {}) => <>[](live = {})
=============================================================================
