------------------------------- MODULE Accounts -------------------------------
(***************************************************************************)
(* AuthService, TokenService and UsersService (apps/api/src/auth and       *)
(* apps/api/src/users): registration, login, the rotation of refresh       *)
(* tokens, logout and the change of a username, with the cookie each       *)
(* browser holds.                                                          *)
(*                                                                         *)
(* Each action is one database call with the decision on its result, or    *)
(* the arrival of an answer.  No operation deletes a user, and an email    *)
(* address never changes: a person, his address and his password are one   *)
(* thing here, and his account is its username.  The password check        *)
(* succeeds for the account of the person who typed it.                    *)
(***************************************************************************)
EXTENDS Naturals, Sequences, FiniteSets

CONSTANTS
    People,     \* each with an email address and a password of his own
    Names,      \* usernames, in lower case as every DTO makes them
    Browsers,
    Reqs,       \* the requests; each is served once
    Manners,    \* which sets of browsers may be the careful ones
    None

Operations == {"register", "login", "refresh", "logout", "rename"}

ASSUME AccountsAssumption ==
    /\ People \cap Names = {}
    /\ None \notin People \cup Names \cup Browsers
    /\ Manners \subseteq SUBSET Browsers

VARIABLES
    account,    \* table User: the username of each person's account, or None
    token,      \* table RefreshToken in the order of createdAt; a row is its index
                \* (bound: no two tokens are created in the same millisecond)
    jar,        \* the token in each browser's cookie; 0 for none
    careful,    \* browsers that send one request at a time and get every answer
    pc,         \* the step each request is at, or how it was answered
    call        \* the frame of each handler

vars == <<account, token, jar, careful, pc, call>>

StepsOf(op) ==
    CASE op = "register" -> {"check", "create", "issue", "reply"}
      [] op = "login" -> {"find", "load", "issue", "reply"}
      [] op = "refresh" -> {"consume", "sweep", "issue", "link", "revoke", "reply"}
      [] op = "logout" -> {"revoke", "reply"}
      [] op = "rename" -> {"check", "update"}
Steps == UNION {StepsOf(op) : op \in Operations}
Answers == {"ok", "refused"}

\* person: who typed the password the session goes back to (history); from: the
\* token it was rotated from (history); by: replacedById.
Row == [owner : People, browser : Browsers, person : People, from : Nat, by : Nat,
        revoked : BOOLEAN, expired : BOOLEAN]
\* sent: the cookie; new: the token this handler issued; link: the one it found.
Frame == [op : Operations, browser : Browsers \cup {None}, who : People \cup {None},
          ident : People \cup Names \cup {None}, owner : People \cup {None},
          sent : Nat, new : Nat, link : Nat]
NoFrame == [op |-> "none"]

Rows == DOMAIN token
InFlight(r) == pc[r] \in Steps

\* A handler past the step that issues its token.
HasNew(f, step) == f.op # "logout" /\ step \in {"link", "revoke", "reply"}

\* What a step says of the frame: the request brought what it needs, and the
\* tokens it goes on with are rows of the table.
Fits(f, step) ==
    /\ f \in Frame
    /\ step \in StepsOf(f.op)
    /\ f.browser = None <=> f.op = "rename"
    /\ f.who = None <=> f.op \in {"refresh", "logout"}
    /\ f.op \in {"register", "rename"} => f.ident \in Names
    /\ f.op \notin {"refresh", "logout"} => f.sent = 0
    /\ {f.sent, f.link} \subseteq Rows \cup {0}
    /\ f.op = "refresh" /\ step # "consume" => f.sent \in Rows
    /\ f.op = "logout" /\ step = "revoke" => f.sent \in Rows
    /\ step \in {"load", "issue", "sweep"} \/ HasNew(f, step) => f.owner \in People
    /\ HasNew(f, step) => f.new \in Rows

\* The types of the tables, the cookies and the handlers.
TypeOK ==
    /\ account \in [People -> Names \cup {None}]
    /\ token \in Seq(Row)
    /\ jar \in [Browsers -> Rows \cup {0}]
    /\ careful \in Manners
    /\ pc \in [Reqs -> {"idle"} \cup Steps \cup Answers]
    /\ call \in [Reqs -> Frame \cup {NoFrame}]
    /\ \A r \in Reqs : InFlight(r) => Fits(call[r], pc[r])

At(r, op, step) == pc[r] = step /\ call[r].op = op
GotoWith(r, step, f) ==
    /\ pc' = [pc EXCEPT ![r] = step]
    /\ call' = [call EXCEPT ![r] = IF step \in Answers THEN NoFrame ELSE f]
Goto(r, step) == GotoWith(r, step, call[r])

\* The tokens of n earlier logins.
LoginTokens(n, place, who) ==
    [i \in 1 .. n |-> [owner |-> who[i], browser |-> place[i], person |-> who[i],
                       from |-> 0, by |-> 0, revoked |-> FALSE, expired |-> FALSE]]

\* Some people have accounts, and some browsers are signed in, each with the
\* token of an earlier login; older tokens have expired.
Init ==
    /\ account \in [People -> Names \cup {None}]
    /\ \A p, q \in People : p # q /\ account[p] # None => account[p] # account[q]
    /\ \E n \in 0 .. Cardinality(Browsers) :
       \E place \in [1 .. n -> Browsers], who \in [1 .. n -> People] :
         /\ \A i, j \in 1 .. n : place[i] = place[j] => i = j
         /\ \A i \in 1 .. n : account[who[i]] # None
         /\ token = LoginTokens(n, place, who)
         /\ jar \in [Browsers -> 0 .. n]
         /\ \A b \in Browsers, i \in 1 .. n : jar[b] = i <=> place[i] = b
    /\ careful \in Manners
    /\ pc = [r \in Reqs |-> "idle"]
    /\ call = [r \in Reqs |-> NoFrame]

-----------------------------------------------------------------------------
(* Requests and answers.                                                   *)

\* Whose cookie a request reads or sets.
Uses(r, b) == InFlight(r) /\ call[r].browser = b

\* What a request brings with it: the browser whose cookie it reads or sets, who
\* made it, and the username or email it names.
Input == [browser : Browsers \cup {None}, who : People \cup {None},
          ident : People \cup Names \cup {None}]
Inputs(op) ==
    {x \in Input :
        /\ x.browser = None <=> op = "rename"
        /\ x.who = None <=> op \in {"refresh", "logout"}
        /\ x.ident \in CASE op = "login" -> People \cup Names
                          [] op \in {"register", "rename"} -> Names
                          [] OTHER -> {None}}

FirstStep(op, sent) ==
    CASE op = "login" -> "find"
      [] op = "refresh" -> "consume"
      [] op = "logout" -> IF sent = 0 THEN "reply" ELSE "revoke"
      [] OTHER -> "check"

\* A person registers, signs in by username or email, or changes his username
\* with an access token, which outlives the session; the page refreshes by
\* itself whenever that token has run out; anyone may sign out.
Receive(r) ==
    /\ pc[r] = "idle"
    /\ \E op \in Operations : \E x \in Inputs(op) :
         LET sent == IF op \in {"refresh", "logout"} THEN jar[x.browser] ELSE 0
         IN
         /\ x.browser \in careful => \A q \in Reqs : ~Uses(q, x.browser)
         /\ op = "rename" => account[x.who] # None
         /\ GotoWith(r, FirstStep(op, sent),
                [op |-> op, browser |-> x.browser, who |-> x.who, ident |-> x.ident,
                 owner |-> None, sent |-> sent, new |-> 0, link |-> 0])
    /\ UNCHANGED <<account, token, jar, careful>>

\* setRefreshCookie or clearCookie takes effect when the answer arrives.
Reply(r) ==
    /\ pc[r] = "reply"
    /\ jar' = [jar EXCEPT ![call[r].browser] =
                  IF call[r].op = "logout" THEN 0 ELSE call[r].new]
    /\ Goto(r, "ok")
    /\ UNCHANGED <<account, token, careful>>

\* The answer never arrives.
Lose(r) ==
    /\ pc[r] = "reply"
    /\ call[r].browser \notin careful
    /\ Goto(r, "ok")
    /\ UNCHANGED <<account, token, jar, careful>>

\* Tokens live equally long, and longer than any handler; the cookie expires
\* with its token.  Bound: no handler is past the one check of that time.
Expire(i) ==
    /\ i \in Rows /\ ~token[i].expired
    /\ \A j \in 1 .. i - 1 : token[j].expired
    /\ \A r \in Reqs : InFlight(r) => pc[r] = "consume"
    /\ token' = [token EXCEPT ![i].expired = TRUE]
    /\ jar' = [b \in Browsers |-> IF jar[b] = i THEN 0 ELSE jar[b]]
    /\ UNCHANGED <<account, careful, pc, call>>

-----------------------------------------------------------------------------
(* register and updateProfile.                                             *)

Taken(name) == \E p \in People : account[p] = name

\* Email and username: two queries sent at once, whose answers are used together.
\* One step stands for both, since whatever is taken between them, or after them,
\* is caught by the unique indexes in CreateUser.
CheckFree(r) ==
    /\ At(r, "register", "check")
    /\ Goto(r, IF account[call[r].who] # None \/ Taken(call[r].ident)
               THEN "refused" ELSE "create")
    /\ UNCHANGED <<account, token, jar, careful>>

\* INSERT under two unique indexes: P2002 is a conflict too.
CreateUser(r) ==
    LET p == call[r].who IN
    /\ At(r, "register", "create")
    /\ IF account[p] # None \/ Taken(call[r].ident)
       THEN Goto(r, "refused") /\ UNCHANGED account
       ELSE /\ account' = [account EXCEPT ![p] = call[r].ident]
            /\ GotoWith(r, "issue", [call[r] EXCEPT !.owner = p])
    /\ UNCHANGED <<token, jar, careful>>

\* A user may set the name he has.
CheckName(r) ==
    /\ At(r, "rename", "check")
    /\ Goto(r, IF Taken(call[r].ident) /\ account[call[r].who] # call[r].ident
               THEN "refused" ELSE "update")
    /\ UNCHANGED <<account, token, jar, careful>>

UpdateName(r) ==
    LET p == call[r].who IN
    /\ At(r, "rename", "update")
    /\ IF Taken(call[r].ident) /\ account[p] # call[r].ident
       THEN Goto(r, "refused") /\ UNCHANGED account
       ELSE /\ account' = [account EXCEPT ![p] = call[r].ident]
            /\ Goto(r, "ok")
    /\ UNCHANGED <<token, jar, careful>>

-----------------------------------------------------------------------------
(* login.  A username is resolved to an id first, and the row of that id is *)
(* read next; an email address is resolved in one call.                    *)

FindUser(r) ==
    LET f == call[r] IN
    /\ At(r, "login", "find")
    /\ \/ /\ f.ident \in People
          /\ IF account[f.ident] # None /\ f.ident = f.who
             THEN GotoWith(r, "issue", [f EXCEPT !.owner = f.who])
             ELSE Goto(r, "refused")
       \/ /\ f.ident \in Names
          /\ \/ ~Taken(f.ident) /\ Goto(r, "refused")
             \/ \E p \in People : /\ account[p] = f.ident
                                  /\ GotoWith(r, "load", [f EXCEPT !.owner = p])
    /\ UNCHANGED <<account, token, jar, careful>>

\* Mutant: the account is looked up by its name again.
LoadByName(r) ==
    /\ At(r, "login", "load")
    /\ \/ call[r].owner # call[r].who /\ Goto(r, "refused")
       \/ ~Taken(call[r].ident) /\ Goto(r, "refused")
       \/ /\ call[r].owner = call[r].who
          /\ \E p \in People : /\ account[p] = call[r].ident
                               /\ GotoWith(r, "issue", [call[r] EXCEPT !.owner = p])
    /\ UNCHANGED <<account, token, jar, careful>>

LoadUser(r) ==
    /\ At(r, "login", "load")
    /\ Goto(r, IF call[r].owner = call[r].who THEN "issue" ELSE "refused")
    /\ UNCHANGED <<account, token, jar, careful>>
-----------------------------------------------------------------------------
(* issueTokenPair, refresh, logout.                                        *)

IssueTokens(r) ==
    LET f == call[r] IN
    /\ pc[r] = "issue"
    /\ token' = Append(token,
           [owner |-> f.owner, browser |-> f.browser,
            person |-> IF f.op = "refresh" THEN token[f.sent].person ELSE f.who,
            from |-> f.sent, by |-> 0, revoked |-> FALSE, expired |-> FALSE])
    /\ GotoWith(r, IF f.op = "refresh" THEN "link" ELSE "reply",
                [f EXCEPT !.new = Len(token) + 1])
    /\ UNCHANGED <<account, jar, careful>>

\* consumeRefreshToken: no cookie or an expired token, a token that was revoked,
\* or one to rotate.
Consume(r) ==
    LET i == call[r].sent IN
    /\ At(r, "refresh", "consume")
    /\ \/ (i = 0 \/ (i \in Rows /\ token[i].expired)) /\ Goto(r, "refused")
       \/ /\ i \in Rows /\ ~token[i].expired
          /\ GotoWith(r, IF token[i].revoked THEN "sweep" ELSE "issue",
                      [call[r] EXCEPT !.owner = token[i].owner])
    /\ UNCHANGED <<account, token, jar, careful>>

\* A token that was rotated away is used again: the user's tokens are revoked.
SweepFamily(r) ==
    /\ At(r, "refresh", "sweep")
    /\ token' = [i \in Rows |->
           [token[i] EXCEPT !.revoked = @ \/ token[i].owner = call[r].owner]]
    /\ Goto(r, "refused")
    /\ UNCHANGED <<account, jar, careful>>

LiveTokens(p) == {i \in Rows : token[i].owner = p /\ ~token[i].revoked}

\* Mutant: the oldest live token is found.
FindOldest(r) ==
    LET live == LiveTokens(call[r].owner) IN
    /\ At(r, "refresh", "link")
    /\ \/ live = {} /\ Goto(r, "revoke")
       \/ \E i \in live : /\ \A j \in live : i <= j
                          /\ GotoWith(r, "revoke", [call[r] EXCEPT !.link = i])
    /\ UNCHANGED <<account, token, jar, careful>>

\* The user's newest live token, if there is one, is taken for the new one.
FindNewest(r) ==
    LET live == LiveTokens(call[r].owner) IN
    /\ At(r, "refresh", "link")
    /\ \/ live = {} /\ Goto(r, "revoke")
       \/ \E i \in live : /\ \A j \in live : j <= i
                          /\ GotoWith(r, "revoke", [call[r] EXCEPT !.link = i])
    /\ UNCHANGED <<account, token, jar, careful>>

\* Mutant: the token that was found is revoked, not the one that was sent.
RevokeFound(r) ==
    /\ At(r, "refresh", "revoke")
    /\ token' = IF call[r].link \in Rows
                THEN [token EXCEPT ![call[r].link].revoked = TRUE] ELSE token
    /\ Goto(r, "reply")
    /\ UNCHANGED <<account, jar, careful>>

\* revokeToken.
RevokeOld(r) ==
    LET f == call[r] IN
    /\ At(r, "refresh", "revoke")
    /\ token' = [token EXCEPT ![f.sent].revoked = TRUE,
                              ![f.sent].by = IF f.link # 0 THEN f.link ELSE @]
    /\ Goto(r, "reply")
    /\ UNCHANGED <<account, jar, careful>>

\* revokeByRawToken.
RevokeOnLogout(r) ==
    /\ At(r, "logout", "revoke")
    /\ token' = [token EXCEPT ![call[r].sent].revoked = TRUE]
    /\ Goto(r, "reply")
    /\ UNCHANGED <<account, jar, careful>>

-----------------------------------------------------------------------------
Handle(r) ==
    \/ CheckFree(r) \/ CreateUser(r) \/ CheckName(r) \/ UpdateName(r)
    \/ FindUser(r) \/ LoadUser(r) \/ IssueTokens(r)
    \/ Consume(r) \/ SweepFamily(r) \/ FindNewest(r) \/ RevokeOld(r)
    \/ RevokeOnLogout(r)

AllAnswered ==
    /\ \A r \in Reqs : pc[r] \in Answers
    /\ \A i \in Rows : token[i].expired
    /\ UNCHANGED vars

Next ==
    \/ \E r \in Reqs : Receive(r) \/ Handle(r) \/ Reply(r) \/ Lose(r)
    \/ \E i \in Rows : Expire(i)
    \/ AllAnswered

Spec == Init /\ [][Next]_vars
-----------------------------------------------------------------------------
(* What must hold.                                                         *)

\* Everyone is signed in to his own account: however usernames change hands
\* while a login is between its two lookups, and however often its token is
\* rotated, a session belongs to the account whose password was typed.
SessionIsOwn == \A i \in Rows : token[i].owner = token[i].person

\* A user who was ever given a session in a browser of the other kind.
Reckless(p) == \E i \in Rows : token[i].owner = p /\ token[i].browser \notin careful

\* A session lasts.  Whoever uses careful browsers only, as many as he likes at
\* once, has a good token in each of them where he signed in and did not sign
\* out, until it expires: no rotation, logout or sweep of his other browsers or
\* of other people revokes it.
SessionsSurvive ==
    \A b \in careful :
        jar[b] # 0 /\ (\A r \in Reqs : ~Uses(r, b)) /\ ~Reckless(token[jar[b]].owner)
        => ~token[jar[b]].revoked

\* "So we can link old -> new for auditing": the link of a rotated token leads to
\* a younger token of the same user, no older than the first it was rotated to;
\* so following the links ends.  (With other sign-ins of the same user under way
\* it need not be the very token it was rotated to.)
LinkLeadsOn ==
    \A i \in Rows : token[i].by # 0 =>
        /\ token[i].by \in Rows
        /\ token[token[i].by].owner = token[i].owner
        /\ \E j \in i + 1 .. token[i].by : token[j].from = i
=============================================================================
