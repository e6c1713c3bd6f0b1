--------------------------- MODULE PresenceProofs ---------------------------
(***************************************************************************)
(* Theorems about Presence, for any number of sockets and processes.       *)
(***************************************************************************)
EXTENDS Tabs, FiniteSetTheorems, TLAPS

\* The system begins with no socket and an offline user.
LEMMA PresenceInitTyped == Init => TypeOK
BY DEF Init, TypeOK, Status, News, UpSteps

\* Every step keeps the types: one step of the proof per action.
LEMMA PresenceStepTyped == TypeOK /\ [Next]_vars => TypeOK'
<1> SUFFICES ASSUME TypeOK, [Next]_vars PROVE TypeOK'
  OBVIOUS
<1> USE DEF TypeOK, UpSteps, DownSteps, Status, News, contact
<1>1. ASSUME NEW s \in Sockets, Connect(s) PROVE TypeOK'
  BY <1>1 DEF Connect
<1>2. ASSUME NEW s \in Sockets, Close(s) PROVE TypeOK'
  BY <1>2 DEF Close, Drop
<1>3. ASSUME NEW s \in Sockets, Reject(s) PROVE TypeOK'
  BY <1>3 DEF Reject, Drop
<1>4. ASSUME NEW s \in Sockets, FailDown(s) PROVE TypeOK'
  BY <1>4 DEF FailDown
<1>5. ASSUME NEW s \in Sockets, Authenticate(s) PROVE TypeOK'
  BY <1>5 DEF Authenticate
<1>6. ASSUME NEW s \in Sockets, AddSocket(s) PROVE TypeOK'
  BY <1>6 DEF AddSocket
<1>7. ASSUME NEW s \in Sockets, CountUp(s) PROVE TypeOK'
  BY <1>7 DEF CountUp
<1>8. ASSUME NEW s \in Sockets, TouchOnline(s) PROVE TypeOK'
  BY <1>8 DEF TouchOnline
<1>9. ASSUME NEW s \in Sockets, TellOnline(s) PROVE TypeOK'
  BY <1>9 DEF TellOnline, Broadcast
<1>10. ASSUME NEW s \in Sockets, RemoveSocket(s) PROVE TypeOK'
  BY <1>10 DEF RemoveSocket
<1>11. ASSUME NEW s \in Sockets, CountDown(s) PROVE TypeOK'
  BY <1>11 DEF CountDown
<1>12. ASSUME NEW s \in Sockets, DeleteKey(s) PROVE TypeOK'
  BY <1>12 DEF DeleteKey
<1>13. ASSUME NEW s \in Sockets, TouchOffline(s) PROVE TypeOK'
  BY <1>13 DEF TouchOffline
<1>14. ASSUME NEW s \in Sockets, TellOffline(s) PROVE TypeOK'
  BY <1>14 DEF TellOffline, Broadcast
<1>15. ASSUME NEW i \in Instances, Crash(i) PROVE TypeOK'
  BY <1>15 DEF Crash
<1>16. CASE Expire
  BY <1>16 DEF Expire
<1>17. CASE PatchStatus
  BY <1>17 DEF PatchStatus
<1>18. CASE StartDirect \/ EnterRoom
  BY <1>18 DEF StartDirect, EnterRoom
<1>19. CASE UNCHANGED vars
  BY <1>19 DEF vars
<1> QED
  BY <1>1, <1>2, <1>3, <1>4, <1>5, <1>6, <1>7, <1>8, <1>9, <1>10, <1>11, <1>12,
     <1>13, <1>14, <1>15, <1>16, <1>17, <1>18, <1>19 DEF Next, Handle, Over

\* The types hold whatever goes wrong.
THEOREM PresenceTyped == Spec => []TypeOK
BY PresenceInitTyped, PresenceStepTyped, PTL DEF Spec
-----------------------------------------------------------------------------
(* A ghost has a day to live: the safety half of GhostsExpire.             *)

\* The key of a set with sockets in it has a time to live.
Timed == live # {} => timed

\* The set is empty at first, and only the MULTI that sets the expiry fills it:
\* no handler that fails, is overtaken or dies halfway leaves a key for good.
THEOREM KeyIsTimed == Spec => []Timed
<1>1. Init => Timed
  BY DEF Init, Timed
<1>2. Timed /\ [Next]_vars => Timed'
  <2> SUFFICES ASSUME Timed, [Next]_vars PROVE Timed'
    OBVIOUS
  <2>1. CASE UNCHANGED <<live, timed>>
    BY <2>1 DEF Timed
  <2>2. ASSUME NEW s \in Sockets, AddSocket(s) PROVE Timed'
    BY <2>2 DEF AddSocket, Timed
  <2>3. ASSUME NEW s \in Sockets, RemoveSocket(s) PROVE Timed'
    BY <2>3 DEF RemoveSocket, Timed
  <2>4. ASSUME NEW s \in Sockets, DeleteKey(s) PROVE Timed'
    BY <2>4 DEF DeleteKey, Timed
  <2>5. CASE Expire
    BY <2>5 DEF Expire, Timed
  <2> QED
    BY <2>1, <2>2, <2>3, <2>4, <2>5
       DEF Next, Handle, Over, vars, Connect, Close, Reject, FailDown, Authenticate, CountUp,
           TouchOnline, TellOnline, CountDown, TouchOffline, TellOffline, Crash, PatchStatus,
           StartDirect, EnterRoom
<1> QED
  BY <1>1, <1>2, PTL DEF Spec
-----------------------------------------------------------------------------
(* The user goes offline with his last socket.                             *)

\* The weather is what it was at the start.
LEMMA SameWeather == [Next]_vars => weather' = weather
BY DEF Next, Handle, Over, vars, Connect, Close, Reject, FailDown, Authenticate, AddSocket,
       CountUp, TouchOnline, TellOnline, RemoveSocket, CountDown, DeleteKey, TouchOffline,
       TellOffline, Crash, Expire, PatchStatus, StartDirect, EnterRoom

\* A socket that is there has not failed, and one whose connect handler is done
\* will be unregistered; one that closed has no connect handler any more.
Orderly ==
    \A s \in Sockets :
        /\ sock[s] = "open" => up[s] # "failed"
        /\ sock[s] = "closed" => up[s] \notin UpSteps
        /\ up[s] = "done" \/ s \in live => s \in known

\* While the contact has heard ONLINE of a socket, somebody is there to tell him
\* OFFLINE: an open socket with a user, or a disconnect handler that has not yet
\* found others, or told.  Who has heard of a socket goes on hearing.
ToClose(s) == sock[s] = "open" /\ s \in known
SomeoneToTell == \E s \in Sockets : ToClose(s) \/ down[s] \in DownSteps

HeardInv == /\ heard \in {"ONLINE", "OFFLINE"} => near
            /\ heard = "ONLINE" => SomeoneToTell

Guarded == NoGhosts /\ Orderly /\ HeardInv
PresenceInv == Benign => Guarded

\* The invariant holds of an offline user without sockets.
LEMMA PresenceInit == Init => PresenceInv
BY DEF Init, PresenceInv, Guarded, NoGhosts, Orderly, HeardInv, UpSteps

\* The invariant is inductive: one step per action.
LEMMA PresenceStep == TypeOK /\ PresenceInv /\ [Next]_vars => PresenceInv'
<1>0. [Next]_vars => weather' = weather
  BY SameWeather
<1> SUFFICES ASSUME TypeOK, Benign, Guarded, [Next]_vars PROVE Guarded'
  BY <1>0 DEF PresenceInv, Benign
<1> USE DEF TypeOK, UpSteps, DownSteps, Guarded, NoGhosts, Orderly, HeardInv,
            ToClose, SomeoneToTell, Benign, May, News, contact
<1>1. ASSUME NEW s \in Sockets, Connect(s) PROVE Guarded'
  BY <1>1 DEF Connect
<1>2. ASSUME NEW s \in Sockets, Close(s) PROVE Guarded'
  BY <1>2 DEF Close, Drop
<1>3. ASSUME NEW s \in Sockets, Reject(s) PROVE Guarded'
  BY <1>3 DEF Reject, Drop
<1>4. ASSUME NEW s \in Sockets, FailDown(s) PROVE Guarded'
  BY <1>4 DEF FailDown
<1>5. ASSUME NEW s \in Sockets, Authenticate(s) PROVE Guarded'
  BY <1>5 DEF Authenticate
<1>6. ASSUME NEW s \in Sockets, AddSocket(s) PROVE Guarded'
  BY <1>6 DEF AddSocket
<1>7. ASSUME NEW s \in Sockets, CountUp(s) PROVE Guarded'
  BY <1>7 DEF CountUp
<1>8. ASSUME NEW s \in Sockets, TouchOnline(s) PROVE Guarded'
  BY <1>8 DEF TouchOnline
<1>9. ASSUME NEW s \in Sockets, TellOnline(s) PROVE Guarded'
  BY <1>9 DEF TellOnline, Broadcast
<1>10. ASSUME NEW s \in Sockets, RemoveSocket(s) PROVE Guarded'
  BY <1>10 DEF RemoveSocket
<1>11. ASSUME NEW s \in Sockets, CountDown(s) PROVE Guarded'
  BY <1>11 DEF CountDown
<1>12. ASSUME NEW s \in Sockets, DeleteKey(s) PROVE Guarded'
  BY <1>12 DEF DeleteKey
<1>13. ASSUME NEW s \in Sockets, TouchOffline(s) PROVE Guarded'
  BY <1>13 DEF TouchOffline
<1>14. ASSUME NEW s \in Sockets, TellOffline(s) PROVE Guarded'
  BY <1>14 DEF TellOffline, Broadcast
<1>15. ASSUME NEW i \in Instances, Crash(i) PROVE Guarded'
  BY <1>15 DEF Crash
<1>16. CASE Expire
  BY <1>16 DEF Expire
<1>17. CASE PatchStatus
  BY <1>17 DEF PatchStatus
<1>18. CASE StartDirect \/ EnterRoom
  BY <1>18 DEF StartDirect, EnterRoom
<1>19. CASE UNCHANGED vars
  BY <1>19 DEF vars
<1> QED
  BY <1>1, <1>2, <1>3, <1>4, <1>5, <1>6, <1>7, <1>8, <1>9, <1>10, <1>11, <1>12,
     <1>13, <1>14, <1>15, <1>16, <1>17, <1>18, <1>19 DEF Next, Handle, Over

\* The invariant behind the next two theorems.
THEOREM PresenceCorrect == Spec => []PresenceInv
<1>1. TypeOK /\ PresenceInv /\ [Next]_vars => (TypeOK /\ PresenceInv)'
  BY PresenceStepTyped, PresenceStep
<1> QED
  BY <1>1, PresenceInitTyped, PresenceInit, PTL DEF Spec

\* No ghost sockets while processes live, disconnect handlers succeed and no
\* socket closes before its connect handler is done.
THEOREM SetIsClean == Spec => []NoGhosts
<1>1. PresenceInv => NoGhosts
  BY DEF PresenceInv, Guarded, NoGhosts
<1> QED
  BY <1>1, PresenceCorrect, PTL

-----------------------------------------------------------------------------
(* A step of Presence, with its history.                                   *)

\* The history begins with the system and leaves its steps as they are.
LEMMA HistoryOfSpec == HSpec => Spec
<1>1. HInit => Init
  BY DEF HInit
<1>2. [HNext]_hvars => [Next]_vars
  BY DEF HNext, hvars, vars
<1> QED
  BY <1>1, <1>2, PTL DEF HSpec, Spec

\* While the table says ONLINE, and says what it was meant to, somebody is there
\* to write OFFLINE: like SomeoneToTell, without the handler that has written.
SomeoneToWrite == \E s \in Sockets :
                      ToClose(s) \/ down[s] \in {"rem", "count", "del", "touch"}
TableInv == /\ status \in {"ONLINE", "OFFLINE"}
            /\ status = "ONLINE" => SomeoneToWrite
AstrayInv == Benign => astray \/ TableInv

\* It holds of an offline user without sockets.
LEMMA AstrayInit == HInit => AstrayInv
BY DEF HInit, Init, AstrayInv, TableInv

\* It is inductive: one step per action.
LEMMA AstrayStep == TypeOK /\ PresenceInv /\ AstrayInv /\ [HNext]_hvars => AstrayInv'
<1> SUFFICES ASSUME TypeOK, Benign, Guarded, astray \/ TableInv, [HNext]_hvars, ~astray'
             PROVE  TableInv'
  <2>1. [HNext]_hvars => weather' = weather
    BY SameWeather DEF HNext, hvars, vars
  <2> QED
    BY <2>1 DEF AstrayInv, PresenceInv, Benign
<1>0. CASE UNCHANGED hvars
  BY <1>0 DEF hvars, TableInv, SomeoneToWrite, ToClose
<1> SUFFICES ASSUME Next, Track PROVE TableInv'
  BY <1>0 DEF HNext
<1>a. /\ \A s \in Sockets : ~Misses(s)
      /\ (\A s \in Sockets : ~Touches(s)) => TableInv /\ status' = status
  BY DEF Track
<1> USE DEF TypeOK, UpSteps, DownSteps, Guarded, NoGhosts, Orderly, TableInv,
            ToClose, SomeoneToWrite, Benign, May, contact
<1> USE <1>a DEF Misses, Touches
<1>1. ASSUME NEW s \in Sockets, Connect(s) PROVE TableInv'
  BY <1>1 DEF Connect
<1>2. ASSUME NEW s \in Sockets, Close(s) PROVE TableInv'
  BY <1>2 DEF Close, Drop
<1>3. ASSUME NEW s \in Sockets, Reject(s) PROVE TableInv'
  BY <1>3 DEF Reject, Drop
<1>4. ASSUME NEW s \in Sockets, FailDown(s) PROVE TableInv'
  BY <1>4 DEF FailDown
<1>5. ASSUME NEW s \in Sockets, Authenticate(s) PROVE TableInv'
  BY <1>5 DEF Authenticate
<1>6. ASSUME NEW s \in Sockets, AddSocket(s) PROVE TableInv'
  BY <1>6 DEF AddSocket
<1>7. ASSUME NEW s \in Sockets, CountUp(s) PROVE TableInv'
  BY <1>7 DEF CountUp
<1>8. ASSUME NEW s \in Sockets, TouchOnline(s) PROVE TableInv'
  BY <1>8 DEF TouchOnline
<1>9. ASSUME NEW s \in Sockets, TellOnline(s) PROVE TableInv'
  BY <1>9 DEF TellOnline, Broadcast
<1>10. ASSUME NEW s \in Sockets, RemoveSocket(s) PROVE TableInv'
  BY <1>10 DEF RemoveSocket
<1>11. ASSUME NEW s \in Sockets, CountDown(s) PROVE TableInv'
  BY <1>11 DEF CountDown
<1>12. ASSUME NEW s \in Sockets, DeleteKey(s) PROVE TableInv'
  BY <1>12 DEF DeleteKey
<1>13. ASSUME NEW s \in Sockets, TouchOffline(s) PROVE TableInv'
  BY <1>13 DEF TouchOffline
<1>14. ASSUME NEW s \in Sockets, TellOffline(s) PROVE TableInv'
  BY <1>14 DEF TellOffline, Broadcast
<1>15. ASSUME NEW i \in Instances, Crash(i) PROVE TableInv'
  BY <1>15 DEF Crash
<1>16. CASE Expire
  BY <1>16 DEF Expire
<1>17. CASE PatchStatus
  BY <1>17 DEF PatchStatus
<1>18. CASE StartDirect \/ EnterRoom
  BY <1>18 DEF StartDirect, EnterRoom
<1>19. CASE UNCHANGED vars
  BY <1>19 DEF vars
<1> QED
  BY <1>1, <1>2, <1>3, <1>4, <1>5, <1>6, <1>7, <1>8, <1>9, <1>10, <1>11, <1>12,
     <1>13, <1>14, <1>15, <1>16, <1>17, <1>18, <1>19 DEF Next, Handle, Over

\* Whenever his last socket is gone and its handler is done, the user is offline
\* to the contact, and in the table unless the write went astray: for any number
\* of tabs, opened and closed in any order and overlap.
THEOREM LastCloseIsSeen == HSpec => []OfflineAfterLastClose
<1>1. TypeOK /\ PresenceInv /\ AstrayInv /\ [HNext]_hvars => AstrayInv'
  BY AstrayStep
<1>2. PresenceInv /\ AstrayInv => OfflineAfterLastClose
  BY DEF PresenceInv, Guarded, HeardInv, AstrayInv, TableInv, ToClose, SomeoneToWrite,
         SomeoneToTell, OfflineAfterLastClose, AtRest, Busy, Open, DownSteps
<1> QED
  BY <1>1, <1>2, AstrayInit, HistoryOfSpec, PresenceTyped, PresenceCorrect, PTL DEF HSpec
-----------------------------------------------------------------------------
(* The user is online while a tab is settled, however others come and go.  *)

Registered(s) == sock[s] = "open" /\ up[s] \in {"count", "touch", "tell", "done"}

\* What holds while nothing crossed.  With no settled tab at most one handler
\* runs, so it alone may be the first or the last.
OneHandler == Settled = {} => \A s, t \in Sockets : Busy(s) /\ Busy(t) => s = t
\* The set is the registered sockets, and those that are about to be taken out.
SetIsExact ==
    /\ \A s \in Sockets : Registered(s) => s \in live
    /\ \A s \in live : Registered(s) \/ down[s] = "rem"
\* Whoever flips the user knows that no tab is settled.
FlipsInOrder ==
    \A s \in Sockets : /\ up[s] \in {"touch", "tell"} => Settled = {}
                       /\ up[s] = "tell" => status = "ONLINE"
                       /\ down[s] \in {"del", "touch", "tell"} => Settled = {} /\ live = {}
                       /\ sock[s] = "open" => up[s] # "failed"
                       /\ sock[s] = "closed" => up[s] \notin UpSteps
OnlineOnceSettled == Settled # {} => status = "ONLINE" /\ heard # "OFFLINE"
InTurn == OneHandler /\ SetIsExact /\ FlipsInOrder /\ OnlineOnceSettled

\* Whatever crossed: who has heard of a socket goes on hearing, and whoever is
\* registered has a user.
HearsOn == heard \in {"ONLINE", "OFFLINE"} => near
HasUser == \A s \in Sockets : up[s] = "done" => s \in known
TurnInv == HearsOn /\ HasUser /\ (~crossed => InTurn)

\* It holds of a user without sockets.
LEMMA TurnInit == HInit => TurnInv
BY DEF HInit, Init, TurnInv, HearsOn, HasUser, InTurn, OneHandler, SetIsExact, FlipsInOrder,
       OnlineOnceSettled, Registered, Settled, Open, Busy, UpSteps, DownSteps

\* The half that holds whatever crossed.
LEMMA AnyTurn == TypeOK /\ HearsOn /\ HasUser /\ [Next]_vars => HearsOn' /\ HasUser'
<1> SUFFICES ASSUME TypeOK, HearsOn, HasUser, [Next]_vars PROVE HearsOn' /\ HasUser'
  OBVIOUS
<1> USE DEF TypeOK, HearsOn, HasUser, UpSteps, contact
<1>1. CASE UNCHANGED <<near, heard, up>> /\ known \subseteq known'
  BY <1>1
<1>2. ASSUME NEW s \in Sockets,
             Connect(s) \/ Reject(s) \/ Authenticate(s) \/ AddSocket(s) \/ CountUp(s)
                 \/ TouchOnline(s)
      PROVE  HearsOn' /\ HasUser'
  BY <1>2 DEF Connect, Reject, Authenticate, AddSocket, CountUp, TouchOnline
<1>3. ASSUME NEW s \in Sockets, TellOnline(s) \/ TellOffline(s) PROVE HearsOn' /\ HasUser'
  BY <1>3 DEF TellOnline, TellOffline, Broadcast
<1>4. ASSUME NEW i \in Instances, Crash(i) PROVE HearsOn' /\ HasUser'
  BY <1>4 DEF Crash
<1>5. CASE StartDirect \/ EnterRoom
  BY <1>5 DEF StartDirect, EnterRoom
<1> QED
  BY <1>1, <1>2, <1>3, <1>4, <1>5
     DEF Next, Handle, Over, vars, Close, FailDown, RemoveSocket, CountDown, DeleteKey,
         TouchOffline, Expire, PatchStatus

\* A new start: whatever came before is forgotten.
LEMMA FreshStart == TypeOK' /\ Away' => InTurn'
BY DEF TypeOK, Away, AtRest, InTurn, OneHandler, SetIsExact, FlipsInOrder, OnlineOnceSettled,
       Registered, Settled, Open, Busy, UpSteps, DownSteps

\* A step that disturbs nothing keeps the handlers in turn: one step per action.
LEMMA TurnStep ==
    ASSUME TypeOK, HearsOn, HasUser, InTurn, Next, ~Disturbed
    PROVE  InTurn'
<1> USE DEF TypeOK, HasUser, UpSteps, DownSteps, InTurn, OneHandler, SetIsExact, FlipsInOrder,
            OnlineOnceSettled, Registered, Settled, Open, Busy, contact
<1>1. ASSUME NEW s \in Sockets, Connect(s) PROVE InTurn'
  <2>1. Settled' = Settled /\ (AtRest \/ Settled' # {})
    BY <1>1 DEF Connect, Disturbed, Collides
  <2> QED
    BY <1>1, <2>1 DEF Connect, AtRest
<1>2. ASSUME NEW s \in Sockets, Close(s) PROVE InTurn'
  <2>1. AtRest \/ Settled' # {}
    BY <1>2 DEF Disturbed, Collides
  <2>2. up[s] = "done"
    BY <1>2 DEF Disturbed
  <2>3. Settled' \subseteq Settled
    BY <1>2 DEF Close, Drop
  <2> QED
    BY <1>2, <2>1, <2>2, <2>3 DEF Close, Drop, AtRest
<1>3. ASSUME NEW s \in Sockets, Reject(s) PROVE InTurn'
  BY <1>3 DEF Reject, Drop
<1>5. ASSUME NEW s \in Sockets, Authenticate(s) PROVE InTurn'
  BY <1>5 DEF Authenticate
<1>6. ASSUME NEW s \in Sockets, AddSocket(s) PROVE InTurn'
  BY <1>6 DEF AddSocket
<1>7. ASSUME NEW s \in Sockets, CountUp(s) PROVE InTurn'
  <2>1. IsFiniteSet(live)
    BY PresenceAssumption, FS_Subset
  <2>2. Cardinality(live) = 1 <=> \E t : live = {t}
    BY <2>1, FS_Singleton
  <2>3. s \in live
    BY <1>7 DEF CountUp
  <2>4. CASE Cardinality(live) = 1
    <3>1. live = {s} /\ Settled = {}
      BY <1>7, <2>2, <2>3, <2>4 DEF CountUp
    <3> QED
      BY <1>7, <2>4, <3>1 DEF CountUp
  <2>5. CASE Cardinality(live) # 1
    <3>1. PICK t \in live : t # s
      BY <2>2, <2>3, <2>5
    <3>2. Settled # {}
      BY <1>7, <3>1 DEF CountUp
    <3> QED
      BY <1>7, <2>5, <3>2 DEF CountUp
  <2> QED
    BY <2>4, <2>5
<1>8. ASSUME NEW s \in Sockets, TouchOnline(s) PROVE InTurn'
  BY <1>8 DEF TouchOnline, Disturbed, Misses
<1>9. ASSUME NEW s \in Sockets, TellOnline(s) PROVE InTurn'
  BY <1>9 DEF TellOnline, Broadcast, HearsOn, News
<1>10. ASSUME NEW s \in Sockets, RemoveSocket(s) PROVE InTurn'
  BY <1>10 DEF RemoveSocket
<1>11. ASSUME NEW s \in Sockets, CountDown(s) PROVE InTurn'
  BY <1>11 DEF CountDown
<1>12. ASSUME NEW s \in Sockets, DeleteKey(s) PROVE InTurn'
  BY <1>12 DEF DeleteKey
<1>13. ASSUME NEW s \in Sockets, TouchOffline(s) PROVE InTurn'
  BY <1>13 DEF TouchOffline
<1>14. ASSUME NEW s \in Sockets, TellOffline(s) PROVE InTurn'
  BY <1>14 DEF TellOffline, Broadcast
<1>15. CASE StartDirect \/ EnterRoom
  BY <1>15 DEF StartDirect, EnterRoom
<1>16. CASE UNCHANGED vars
  BY <1>16 DEF vars
<1>17. /\ ~Expire /\ ~PatchStatus
       /\ \A s \in Sockets : ~FailDown(s)
       /\ \A i \in Instances : ~Crash(i)
  BY DEF Disturbed
<1> QED
  BY <1>1, <1>2, <1>3, <1>5, <1>6, <1>7, <1>8, <1>9, <1>10, <1>11, <1>12, <1>13, <1>14,
     <1>15, <1>16, <1>17 DEF Next, Handle, Over

\* While nothing crossed, a user with a settled tab is online to the fan-out, in
\* the table and to the contact, and at rest the set is his open tabs: for any
\* number of tabs, in any weather.
THEOREM OnlineSeen == HSpec => []OnlineWhileOpen
<1>1. TypeOK /\ TurnInv /\ [HNext]_hvars => TurnInv'
  <2> SUFFICES ASSUME TypeOK, TypeOK', TurnInv, [HNext]_hvars PROVE TurnInv'
    BY PresenceStepTyped DEF HNext, hvars, vars
  <2>1. HearsOn' /\ HasUser'
    BY AnyTurn DEF TurnInv, HNext, hvars, vars
  <2>2. ASSUME ~crossed' PROVE InTurn'
    <3>1. CASE UNCHANGED hvars
      BY <2>2, <3>1 DEF hvars, TurnInv, InTurn, OneHandler, SetIsExact, FlipsInOrder,
             OnlineOnceSettled, Registered, Settled, Open, Busy
    <3>2. CASE HNext /\ Away'
      BY <3>2, FreshStart
    <3>3. CASE HNext /\ ~Away'
      BY <2>2, <3>3, TurnStep DEF HNext, Track, TurnInv
    <3> QED
      BY <3>1, <3>2, <3>3
  <2> QED
    BY <2>1, <2>2 DEF TurnInv
<1>2. TypeOK /\ TurnInv => OnlineWhileOpen
  <2> SUFFICES ASSUME TypeOK, InTurn
               PROVE  /\ Settled # {} => Settled \subseteq live /\ status = "ONLINE" /\ heard # "OFFLINE"
                      /\ AtRest => live = Open
    BY DEF TurnInv, OnlineWhileOpen
  <2>1. Settled \subseteq live
    BY DEF InTurn, SetIsExact, Registered, Settled, Open
  <2>2. AtRest => live = Open
    BY DEF TypeOK, InTurn, SetIsExact, FlipsInOrder, Registered, AtRest, Busy, Open,
           UpSteps, DownSteps
  <2> QED
    BY <2>1, <2>2 DEF InTurn, OnlineOnceSettled
<1> QED
  BY <1>1, <1>2, TurnInit, HistoryOfSpec, PresenceTyped, PTL DEF HSpec
=============================================================================
