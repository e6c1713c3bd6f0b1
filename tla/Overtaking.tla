----------------------------- MODULE Overtaking -----------------------------
(***************************************************************************)
(* Conversations with a memory of how its handlers overtook one another.   *)
(* No transaction holds the rows a handler has read still until it writes  *)
(* or tells: the two history variables say when that mattered, so that     *)
(* what follows is stated of every interleaving and of every death.        *)
(***************************************************************************)
EXTENDS Conversations

VARIABLES
    stale,    \* by request: whose rows, in the conversation it is about, others
              \* have changed since it last read or wrote them
    crossed   \* the <<conversation, user>> a handler acted on, or told, without
              \* knowing of such a change, or left half done when it died

history == <<stale, crossed>>
hvars == <<conversation, member, clock, view, pc, call, given, stale, crossed>>

\* Whose rows a request reads or writes at the step it is at.
Looks(r) ==
    CASE pc[r] = "check" -> {call[r].actor}
      [] At(r, "removeMember", "target") \/ At(r, "removeMember", "delete") -> {call[r].target}
      [] At(r, "addMember", "insert") -> {call[r].target}
      [] At(r, "removeMember", "promote") -> {call[r].succ.user}
      [] pc[r] \in {"create", "members", "successor"} -> Users
      [] OTHER -> {}

\* Whom a request is about to tell of its conversation.
Owed(r) ==
    CASE At(r, "createGroup", "announce") -> call[r].ids \cup {call[r].actor}
      [] At(r, "remove", "announce") -> call[r].ids
      [] At(r, "addMember", "announce") \/ At(r, "removeMember", "announce") -> {call[r].target}
      [] At(r, "removeMember", "farewell") -> {call[r].actor}
      [] OTHER -> {}

\* The leaver, from the promotion of his successor to the end of his own row.
HandingOff(r) == At(r, "removeMember", "delete") /\ call[r].succ # NoSuccessor

\* Whose rows a request takes to be what they were when it writes or tells.
ReliesOn(r) ==
    CASE At(r, "removeMember", "promote") ->
             {call[r].actor, call[r].succ.user} \cup Owners(call[r].conv)
      [] At(r, "removeMember", "delete") -> {call[r].target, call[r].succ.user}
      [] At(r, "removeMember", "dissolve") \/ At(r, "remove", "delete") -> Users
      [] OTHER -> Owed(r)

\* What it leaves half done if it dies.
LeavesOpen(r) ==
    Owed(r) \cup IF HandingOff(r) THEN {call[r].target, call[r].succ.user} ELSE {}

\* Whose rows a step changes in the conversation that request q is about.
ChangedFor(q) ==
    {u \in Users : InFlight(q) /\ \E c \in Convs :
                       call[q].conv = c /\ member'[c][u] # member[c][u]}

\* Request r makes a step.  One that finds nothing to write acts on nothing.
Track(r) ==
    /\ stale' = [q \in Reqs |->
           IF q # r THEN stale[q] \cup ChangedFor(q)
           ELSE IF pc'[r] \in Steps THEN stale[r] \ Looks(r) ELSE {}]
    /\ crossed' = crossed \cup
           {<<call[r].conv, u>> : u \in CASE pc'[r] = "aborted" -> LeavesOpen(r)
                                          [] pc'[r] = "notFound" -> {}
                                          [] OTHER -> ReliesOn(r) \cap stale[r]}

HInit == Init /\ stale = [r \in Reqs |-> {}] /\ crossed = {}
HNext ==
    \/ \E r \in Reqs : (Receive(r) \/ Handle(r) \/ Abort(r)) /\ Track(r)
    \/ AllAnswered /\ UNCHANGED history
HSpec == HInit /\ [][HNext]_hvars
-----------------------------------------------------------------------------
(* What must hold, whatever overlaps and wherever handlers die.            *)

\* "Leaving owners must hand off or the group becomes unmanageable": hand-off
\* moves the ownership and does not copy it.  A group always has an owner, and
\* exactly one when nobody is halfway through a hand-off, unless a handler
\* promoted or deleted a row of it that had changed behind its back, or died
\* halfway through a hand-off.
Clean(c) == \A u \in Users : <<c, u>> \notin crossed
OneOwner ==
    \A c \in LiveGroups : Clean(c) =>
        /\ Owners(c) # {}
        /\ \/ \E r \in Reqs : HandingOff(r) /\ call[r].conv = c
           \/ \E u \in Users : Owners(c) = {u}

\* "The group owner cannot be removed": a kick deletes the row of an owner only
\* if he was made one after it looked at his role.
OwnerNeverKicked ==
    [][\A r \in Reqs :
          /\ At(r, "removeMember", "delete") /\ pc'[r] = "announce"
          /\ call[r].actor # call[r].target
          /\ call[r].target \in Owners(call[r].conv)
          => call[r].target \in stale[r]]_hvars

\* "Last member -- delete the whole conversation instead of orphaning it": a
\* leave deletes the conversation of nobody but the leaver, and of those who
\* came in after it found that there was nobody else.
DissolvesOnlyForLastMember ==
    [][\A r \in Reqs :
          At(r, "removeMember", "dissolve") /\ pc'[r] = "farewell"
          => MemberIds(call[r].conv) \subseteq {call[r].actor} \cup stale[r]]_hvars

\* What people were last told is what the table says, for everyone to whom no
\* handler still owes an event: whoever got a row was told so and whoever lost
\* one too, unless his row changed between the write and the event, or the
\* listing and the delete, of one handler, or a handler died owing him one.
ToldTheTruth ==
    \A c \in Convs \ Directs, u \in Users :
        \/ <<c, u>> \in crossed
        \/ \E r \in Reqs : call[r] # NoFrame /\ call[r].conv = c /\ u \in Owed(r)
        \/ view[c][u] = "member" <=> IsMember(c, u)
=============================================================================
