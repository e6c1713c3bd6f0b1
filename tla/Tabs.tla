-------------------------------- MODULE Tabs --------------------------------
(***************************************************************************)
(* Presence with a memory of how the handlers of a user's tabs crossed.    *)
(* The set, the table and the broadcast are written by separate calls, and *)
(* nothing keeps two handlers apart: the history variables say when that   *)
(* mattered, so that what follows is stated of every interleaving.         *)
(***************************************************************************)
EXTENDS Presence

VARIABLES
    crossed,  \* since the user was last away altogether, has a tab come or gone
              \* while the handler of another ran and no third tab was settled,
              \* or has something gone wrong?
    astray    \* is the table's status another than the handlers last meant to
              \* write: a write was swallowed, or the user set one himself?

hvars == <<weather, sock, known, up, down, live, timed, status, near, paired, heard,
           crossed, astray>>

\* The tabs whose registration is over.
Settled == {s \in Open : up[s] = "done"}

\* No tab, no entry in the set, no handler: the next tab starts afresh.
Away == AtRest /\ Open = {} /\ live = {}

\* The steps at which a handler writes a status, and when it fails to.
Touches(s) == \/ up[s] = "touch" /\ up'[s] = "tell"
              \/ down[s] = "touch" /\ down'[s] = "tell"
Misses(s) == \/ up[s] = "touch" /\ up'[s] = "tell" /\ status' # "ONLINE"
             \/ down[s] = "touch" /\ down'[s] = "tell" /\ status' # "OFFLINE"

Collides(s) == (Connect(s) \/ Close(s)) /\ ~AtRest /\ Settled' = {}

Disturbed ==
    \/ \E s \in Sockets : Collides(s) \/ Misses(s) \/ FailDown(s)
    \/ \E s \in Sockets : Close(s) /\ up[s] # "done"
    \/ \E i \in Instances : Crash(i)
    \/ Expire
    \/ PatchStatus

Track ==
    /\ crossed' = (~Away' /\ (crossed \/ Disturbed))
    /\ astray' = \/ \E s \in Sockets : Misses(s)
                 \/ /\ \A s \in Sockets : ~Touches(s)
                    /\ astray \/ status' # status

HInit == Init /\ crossed = FALSE /\ astray = FALSE
HNext == Next /\ Track
HSpec == HInit /\ [][HNext]_hvars
HFairSpec == HSpec /\ Fairness
-----------------------------------------------------------------------------
(* What must hold.                                                         *)

\* "Closing a tab ... must not flip the user to offline": whatever other tabs
\* open and close meanwhile, a user with a settled tab is online, to the fan-out
\* (Redis), in the table and to the contact, and at rest the set is his open
\* tabs: unless two handlers ran at once when no other tab was settled, the one
\* moment at which either may be the first or the last.
OnlineWhileOpen ==
    ~crossed =>
        /\ Settled # {} => Settled \subseteq live /\ status = "ONLINE" /\ heard # "OFFLINE"
        /\ AtRest => live = Open

\* "Closing the last socket": when every socket that was opened is gone, the
\* user is offline in the table and to the contact, in whatever order his tabs
\* opened, overlapped and closed, even if the key had expired meanwhile.  The
\* table may lag behind if the last write of a status was swallowed; a contact
\* may have been greeted since.
OfflineAfterLastClose ==
    Benign /\ AtRest /\ Open = {} => heard # "ONLINE" /\ (astray \/ status = "OFFLINE")
=============================================================================
