--------------------------- MODULE AccountsProofs ---------------------------
(***************************************************************************)
(* Theorems about Accounts, for any people, usernames, browsers and        *)
(* requests.                                                               *)
(***************************************************************************)
EXTENDS Accounts, SequenceTheorems, TLAPS

-----------------------------------------------------------------------------
(* Types.                                                                  *)

\* The names of the steps and of the answers.
LEMMA StepNames ==
    /\ Steps = {"check", "create", "issue", "reply", "find", "load", "consume",
                "sweep", "link", "revoke", "update"}
    /\ Steps \cap Answers = {}
    /\ "idle" \notin Steps \cup Answers
    /\ \A op \in Operations : StepsOf(op) \subseteq Steps
<1>1. Steps = UNION {StepsOf("register"), StepsOf("login"), StepsOf("refresh"),
                     StepsOf("logout"), StepsOf("rename")}
  BY DEF Steps, Operations
<1>2. Steps = {"check", "create", "issue", "reply", "find", "load", "consume",
                "sweep", "link", "revoke", "update"}
  BY <1>1 DEF StepsOf
<1> QED
  BY <1>2 DEF Answers, Steps

\* The table is a function on its rows.
LEMMA TokenRows ==
    ASSUME TypeOK
    PROVE  /\ Len(token) \in Nat
           /\ Rows = 1 .. Len(token)
           /\ token \in [1 .. Len(token) -> Row]
           /\ \A i \in Rows : token[i] \in Row
BY LenProperties DEF TypeOK, Rows

\* A function on the same rows is a table.
LEMMA FunctionIsTable ==
    ASSUME TypeOK, NEW t \in [Rows -> Row]
    PROVE  t \in Seq(Row)
BY TokenRows

\* Going to a step with a frame that fits it keeps the handlers well typed.
LEMMA GotoTyped ==
    ASSUME TypeOK, NEW r \in Reqs, NEW step \in Steps \cup Answers, NEW f,
           step \in Steps => Fits(f, step)', Rows \subseteq Rows',
           GotoWith(r, step, f)
    PROVE  /\ pc' \in [Reqs -> {"idle"} \cup Steps \cup Answers]
           /\ call' \in [Reqs -> Frame \cup {NoFrame}]
           /\ \A q \in Reqs : InFlight(q)' => Fits(call[q], pc[q])'
<1>1. step \in Steps => f \in Frame
  BY DEF Fits
<1>2. \A q \in Reqs : InFlight(q)' => Fits(call[q], pc[q])'
  <2> SUFFICES ASSUME NEW q \in Reqs, InFlight(q)'
               PROVE  Fits(call[q], pc[q])'
    OBVIOUS
  <2>1. CASE q = r
    <3>1. pc'[q] = step /\ step \in Steps /\ call'[q] = f
      BY <2>1, StepNames DEF GotoWith, TypeOK, InFlight
    <3> QED
      BY <3>1
  <2>2. CASE q # r
    <3>1. pc'[q] = pc[q] /\ call'[q] = call[q]
      BY <2>2 DEF GotoWith, TypeOK
    <3>2. Fits(call[q], pc[q])
      BY <3>1 DEF InFlight, TypeOK
    <3> QED
      BY <3>1, <3>2 DEF Fits, HasNew
  <2> QED
    BY <2>1, <2>2
<1> QED
  BY <1>1, <1>2, StepNames DEF GotoWith, TypeOK

\* A request at a step has a frame.
LEMMA FrameOf ==
    ASSUME TypeOK, NEW r \in Reqs, pc[r] \in Steps
    PROVE  /\ Fits(call[r], pc[r])
           /\ call[r].op \in Operations
           /\ call[r].browser \in Browsers \cup {None}
           /\ call[r].who \in People \cup {None}
           /\ call[r].ident \in People \cup Names \cup {None}
           /\ call[r].owner \in People \cup {None}
           /\ call[r].sent \in Nat
           /\ call[r].new \in Nat
           /\ call[r].link \in Nat
BY DEF TypeOK, Fits, Frame, InFlight

\* Only the handler moves on.
LEMMA StaysTyped ==
    ASSUME TypeOK, NEW r \in Reqs, NEW step \in Steps \cup Answers, NEW f,
           step \in Steps => Fits(f, step), GotoWith(r, step, f),
           account' \in [People -> Names \cup {None}],
           jar' \in [Browsers -> Rows \cup {0}],
           UNCHANGED <<token, careful>>
    PROVE  TypeOK'
<1>1. Rows' = Rows
  BY DEF Rows
<1>2. step \in Steps => Fits(f, step)'
  BY <1>1 DEF Fits, HasNew
<1> QED
  BY <1>1, <1>2, GotoTyped DEF TypeOK

\* What a request that arrives is given: a frame that fits its first step.
FirstFrame(r, f, step) ==
    /\ GotoWith(r, step, f)
    /\ step \in Steps
    /\ step \in {"find", "consume", "reply", "revoke", "check"}
    /\ Fits(f, step)
    /\ f.op = "refresh" => step = "consume"
    /\ step \in {"reply", "revoke"} => f.op = "logout"
    /\ step = "reply" => f.sent = 0
    /\ f.link = 0
    /\ f.sent # 0 => f.browser \in Browsers /\ f.sent = jar[f.browser]
    /\ f.browser \in careful => \A q \in Reqs : ~Uses(q, f.browser)

\* A request that arrives gets such a frame.
LEMMA ReceiveGoes ==
    ASSUME AccountsAssumption, TypeOK, NEW r \in Reqs, Receive(r)
    PROVE  \E f, step : FirstFrame(r, f, step)
<1> DEFINE Sent(op, x) == IF op \in {"refresh", "logout"} THEN jar[x.browser] ELSE 0
           New(op, x) == [op |-> op, browser |-> x.browser, who |-> x.who,
                          ident |-> x.ident, owner |-> None, sent |-> Sent(op, x),
                          new |-> 0, link |-> 0]
<1>a. PICK op \in Operations : \E x \in Inputs(op) :
        /\ x.browser \in careful => \A q \in Reqs : ~Uses(q, x.browser)
        /\ GotoWith(r, FirstStep(op, Sent(op, x)), New(op, x))
  BY DEF Receive
<1>1. PICK x \in Inputs(op) :
        /\ x.browser \in careful => \A q \in Reqs : ~Uses(q, x.browser)
        /\ GotoWith(r, FirstStep(op, Sent(op, x)), New(op, x))
  BY <1>a
<1> DEFINE sent == Sent(op, x)
           step == FirstStep(op, sent)
           f == New(op, x)
<1>2. /\ x.browser \in Browsers \cup {None}
      /\ x.who \in People \cup {None}
      /\ x.ident \in People \cup Names \cup {None}
      /\ x.browser = None <=> op = "rename"
      /\ x.who = None <=> op \in {"refresh", "logout"}
  BY DEF Inputs, Input
<1>3. sent \in Rows \cup {0} /\ sent \in Nat
  BY <1>2, TokenRows DEF TypeOK, Operations
<1>4. /\ step \in StepsOf(op)
      /\ step \in Steps
      /\ step \in {"find", "consume", "reply", "revoke", "check"}
      /\ op = "logout" /\ step = "revoke" => sent # 0
      /\ op = "refresh" => step = "consume"
      /\ step = "reply" => op = "logout" /\ sent = 0
      /\ step = "revoke" => op = "logout"
  <2> HIDE DEF sent
  <2>1. op = "login" => step = "find"
    BY DEF FirstStep
  <2>2. op = "refresh" => step = "consume"
    BY DEF FirstStep
  <2>3. op = "logout" => step = IF sent = 0 THEN "reply" ELSE "revoke"
    BY DEF FirstStep
  <2>4. op \in {"register", "rename"} => step = "check"
    BY DEF FirstStep
  <2>5. op \in {"login", "refresh", "logout", "register", "rename"}
    BY DEF Operations
  <2>6. /\ step \in {"find", "consume", "reply", "revoke", "check"}
        /\ op = "logout" /\ step = "revoke" => sent # 0
        /\ op = "refresh" => step = "consume"
        /\ step = "reply" => op = "logout" /\ sent = 0
        /\ step = "revoke" => op = "logout"
    BY <2>1, <2>2, <2>3, <2>4, <2>5
  <2>7. step \in StepsOf(op)
    BY <2>1, <2>2, <2>3, <2>4, <2>5 DEF StepsOf
  <2> QED
    BY <2>6, <2>7, StepNames
<1>5. Fits(f, step)
  <2> HIDE DEF step
  <2>1. f \in Frame
    BY <1>2, <1>3 DEF Frame
  <2>2. op \notin {"refresh", "logout"} => sent = 0
    OBVIOUS
  <2>3. /\ f.op = op /\ f.browser = x.browser /\ f.who = x.who
        /\ f.sent = sent /\ f.link = 0 /\ f.ident = x.ident
    OBVIOUS
  <2>4. op \in {"register", "rename"} => x.ident \in Names
    BY DEF Inputs
  <2> HIDE DEF sent, f
  <2> QED
    BY <1>2, <1>3, <1>4, <2>1, <2>2, <2>3, <2>4 DEF Fits, HasNew
<1>6. /\ GotoWith(r, step, f)
      /\ f.op = op /\ f.sent = sent /\ f.browser = x.browser /\ f.link = 0
  BY <1>1
<1>7. sent # 0 => x.browser \in Browsers /\ sent = jar[x.browser]
  BY <1>2
<1> HIDE DEF f, step, sent
<1>8. FirstFrame(r, f, step)
  BY <1>1, <1>4, <1>5, <1>6, <1>7 DEF FirstFrame
<1> QED
  BY <1>8

\* Arrivals keep the types.
LEMMA ReceiveTyped ==
    ASSUME AccountsAssumption, TypeOK, NEW r \in Reqs, Receive(r)
    PROVE  TypeOK'
<1>1. PICK f, step : FirstFrame(r, f, step)
  BY ReceiveGoes
<1> QED
  BY <1>1, StaysTyped DEF FirstFrame, Receive, TypeOK

\* What the writes do to the table, row by row.

\* A row is appended.
LEMMA AppendedRow ==
    ASSUME TypeOK, NEW row \in Row, token' = Append(token, row)
    PROVE  /\ token' \in Seq(Row)
           /\ Rows' = Rows \cup {Len(token) + 1}
           /\ Len(token) + 1 \notin Rows
           /\ token'[Len(token) + 1] = row
           /\ \A i \in Rows : token'[i] = token[i]
BY TokenRows DEF TypeOK, Rows

\* Rows are marked; whose they are and where they come from stays.
Same(i) ==
    /\ token'[i].owner = token[i].owner
    /\ token'[i].browser = token[i].browser
    /\ token'[i].person = token[i].person
    /\ token'[i].from = token[i].from

\* Tokens are revoked, and their links perhaps written, in the rows of S.
Marks(S, by) ==
    /\ token' \in Seq(Row)
    /\ Rows' = Rows
    /\ \A i \in Rows : /\ Same(i)
                       /\ token'[i].expired = token[i].expired
                       /\ token'[i].revoked = (token[i].revoked \/ i \in S)
                       /\ token'[i].by = IF i \in S /\ by # 0 THEN by ELSE token[i].by

\* The rotated token is marked, with the link that was found.
LEMMA RevokeOldMarks ==
    ASSUME TypeOK, NEW r \in Reqs, RevokeOld(r)
    PROVE  Marks({call[r].sent}, call[r].link)
<1> DEFINE s == call[r].sent
           k == call[r].link
           row == [[token[s] EXCEPT !.revoked = TRUE] EXCEPT !.by = IF k # 0 THEN k ELSE @]
<1>1. s \in Rows /\ k \in Nat /\ call[r].op = "refresh" /\ pc[r] = "revoke"
  BY FrameOf, StepNames DEF RevokeOld, At, Fits
<1>2. token[s] \in Row
  BY <1>1, TokenRows
<1>3. row \in Row
  BY <1>1, <1>2 DEF Row
<1>4. token' = [token EXCEPT ![s] = row]
  BY <1>1, TokenRows DEF RevokeOld
<1>5. token' \in Seq(Row) /\ Rows' = Rows
  BY <1>1, <1>3, <1>4, TokenRows, FunctionIsTable DEF Rows
<1>6. \A i \in Rows : token'[i] = IF i = s THEN row ELSE token[i]
  BY <1>1, <1>4 DEF Rows
<1>7. /\ row.owner = token[s].owner /\ row.browser = token[s].browser
      /\ row.person = token[s].person /\ row.from = token[s].from
      /\ row.expired = token[s].expired /\ row.revoked = TRUE
      /\ row.by = IF k # 0 THEN k ELSE token[s].by
  BY <1>2 DEF Row
<1> HIDE DEF row
<1>8. \A i \in Rows : token[i].revoked \in BOOLEAN
  BY TokenRows DEF Row
<1> QED
  BY <1>5, <1>6, <1>7, <1>8 DEF Marks, Same

\* Logging out marks the token that was sent.
LEMMA LogoutMarks ==
    ASSUME TypeOK, NEW r \in Reqs, RevokeOnLogout(r)
    PROVE  Marks({call[r].sent}, 0)
<1> DEFINE s == call[r].sent
           row == [token[s] EXCEPT !.revoked = TRUE]
<1>1. s \in Rows /\ call[r].op = "logout" /\ pc[r] = "revoke"
  BY FrameOf, StepNames DEF RevokeOnLogout, At, Fits
<1>2. token[s] \in Row
  BY <1>1, TokenRows
<1>3. row \in Row
  BY <1>2 DEF Row
<1>4. token' = [token EXCEPT ![s] = row]
  BY <1>1, TokenRows DEF RevokeOnLogout
<1>5. token' \in Seq(Row) /\ Rows' = Rows
  BY <1>1, <1>3, <1>4, TokenRows, FunctionIsTable DEF Rows
<1>6. \A i \in Rows : token'[i] = IF i = s THEN row ELSE token[i]
  BY <1>1, <1>4 DEF Rows
<1>7. /\ row.owner = token[s].owner /\ row.browser = token[s].browser
      /\ row.person = token[s].person /\ row.from = token[s].from
      /\ row.expired = token[s].expired /\ row.revoked = TRUE
      /\ row.by = token[s].by
  BY <1>2 DEF Row
<1> HIDE DEF row
<1>8. \A i \in Rows : token[i].revoked \in BOOLEAN
  BY TokenRows DEF Row
<1> QED
  BY <1>5, <1>6, <1>7, <1>8 DEF Marks, Same

\* A sweep marks all tokens of one user.
LEMMA SweepMarks ==
    ASSUME TypeOK, NEW r \in Reqs, SweepFamily(r)
    PROVE  Marks({i \in Rows : token[i].owner = call[r].owner}, 0)
<1> DEFINE p == call[r].owner
           row(i) == [token[i] EXCEPT !.revoked = @ \/ token[i].owner = p]
<1>1. ASSUME NEW i \in Rows
      PROVE  /\ row(i) \in Row
             /\ row(i).owner = token[i].owner /\ row(i).browser = token[i].browser
             /\ row(i).person = token[i].person /\ row(i).from = token[i].from
             /\ row(i).expired = token[i].expired /\ row(i).by = token[i].by
             /\ row(i).revoked = (token[i].revoked \/ token[i].owner = p)
  <2>1. token[i] \in Row
    BY TokenRows
  <2> QED
    BY <2>1 DEF Row
<1>2. token' = [i \in Rows |-> row(i)]
  BY DEF SweepFamily
<1> HIDE DEF row
<1>3. token' \in [Rows -> Row] /\ Rows' = Rows
  BY <1>1, <1>2 DEF Rows
<1>4. \A i \in Rows : token'[i] = row(i)
  BY <1>2
<1>5. token' \in Seq(Row)
  BY <1>3, FunctionIsTable
<1> QED
  BY <1>1, <1>3, <1>4, <1>5 DEF Marks, Same

\* A row expires.
LEMMA ExpireMarks ==
    ASSUME TypeOK, NEW i \in Rows, Expire(i)
    PROVE  /\ token' \in Seq(Row)
           /\ Rows' = Rows
           /\ \A j \in Rows : /\ Same(j)
                              /\ token'[j].revoked = token[j].revoked
                              /\ token'[j].by = token[j].by
                              /\ token'[j].expired = (token[j].expired \/ j = i)
<1> DEFINE row == [token[i] EXCEPT !.expired = TRUE]
<1>1. token[i] \in Row
  BY TokenRows
<1>2. row \in Row
  BY <1>1 DEF Row
<1>3. token' = [token EXCEPT ![i] = row]
  BY TokenRows DEF Expire
<1>4. token' \in Seq(Row) /\ Rows' = Rows
  BY <1>2, <1>3, TokenRows, FunctionIsTable DEF Rows
<1>5. \A j \in Rows : token'[j] = IF j = i THEN row ELSE token[j]
  BY <1>3 DEF Rows
<1>6. /\ row.owner = token[i].owner /\ row.browser = token[i].browser
      /\ row.person = token[i].person /\ row.from = token[i].from
      /\ row.revoked = token[i].revoked /\ row.expired = TRUE /\ row.by = token[i].by
  BY <1>1 DEF Row
<1> HIDE DEF row
<1>7. \A j \in Rows : token[j].expired \in BOOLEAN
  BY TokenRows DEF Row
<1> QED
  BY <1>4, <1>5, <1>6, <1>7 DEF Same

\* Handlers that only move on, with their frame or one that names the owner.
LEMMA LookupsTyped ==
    ASSUME AccountsAssumption, TypeOK, NEW r \in Reqs,
           CheckFree(r) \/ CheckName(r) \/ FindUser(r) \/ LoadUser(r) \/ Consume(r)
    PROVE  TypeOK'
<1> USE FrameOf, StepNames
<1> USE DEF Answers
<1>1. CASE CheckFree(r)
  <2>1. Fits(call[r], "create")
    BY <1>1 DEF CheckFree, At, Fits, HasNew, StepsOf
  <2> QED
    BY <1>1, <2>1, StaysTyped DEF CheckFree, At, Goto, TypeOK
<1>2. CASE CheckName(r)
  <2>1. Fits(call[r], "update")
    BY <1>2 DEF CheckName, At, Fits, HasNew, StepsOf
  <2> QED
    BY <1>2, <2>1, StaysTyped DEF CheckName, At, Goto, TypeOK
<1>3. CASE FindUser(r)
  <2>1. ASSUME NEW p \in People, NEW step \in {"issue", "load"},
               GotoWith(r, step, [call[r] EXCEPT !.owner = p])
        PROVE  TypeOK'
    <3> DEFINE f == [call[r] EXCEPT !.owner = p]
    <3>1. /\ f \in Frame /\ f.op = "login" /\ f.browser = call[r].browser
          /\ f.who = call[r].who /\ f.ident = call[r].ident /\ f.sent = call[r].sent
          /\ f.link = call[r].link
          /\ f.owner = p
      BY <1>3 DEF FindUser, At, Fits, Frame
    <3> HIDE DEF f
    <3>2. Fits(f, step)
      BY <1>3, <3>1 DEF FindUser, At, Fits, HasNew, StepsOf
    <3> QED
      BY <1>3, <2>1, <3>2, StaysTyped DEF FindUser, TypeOK, f
  <2>2. CASE Goto(r, "refused")
    BY <1>3, <2>2, StaysTyped DEF FindUser, Goto, TypeOK
  <2>3. pc[r] = "find" /\ call[r].op = "login" /\ pc[r] \in Steps
    BY <1>3 DEF FindUser, At
  <2>4. call[r].who \in People
    BY <2>3, FrameOf DEF Fits
  <2>5. \/ \E p \in People, step \in {"issue", "load"} :
              GotoWith(r, step, [call[r] EXCEPT !.owner = p])
        \/ Goto(r, "refused")
    BY <1>3, <2>4 DEF FindUser
  <2>6. CASE ~Goto(r, "refused")
    <3>1. PICK p \in People, step \in {"issue", "load"} :
            GotoWith(r, step, [call[r] EXCEPT !.owner = p])
      BY <2>5, <2>6
    <3> QED
      BY ONLY <3>1, <2>1, p \in People, step \in {"issue", "load"}
  <2> QED
    BY <2>2, <2>6
<1>4. CASE LoadUser(r)
  <2>1. Fits(call[r], "issue")
    BY <1>4 DEF LoadUser, At, Fits, HasNew, StepsOf
  <2> QED
    BY <1>4, <2>1, StaysTyped DEF LoadUser, At, Goto, TypeOK
<1>5. CASE Consume(r)
  <2>1. CASE Goto(r, "refused")
    BY <1>5, <2>1, StaysTyped DEF Consume, Goto, TypeOK
  <2>2. ASSUME call[r].sent \in Rows,
               NEW step \in {"sweep", "issue"},
               GotoWith(r, step, [call[r] EXCEPT !.owner = token[call[r].sent].owner])
        PROVE  TypeOK'
    <3> DEFINE f == [call[r] EXCEPT !.owner = token[call[r].sent].owner]
    <3>0. token[call[r].sent].owner \in People
      BY <2>2, TokenRows DEF Row
    <3>1. /\ f \in Frame /\ f.op = "refresh" /\ f.browser = call[r].browser
          /\ f.who = call[r].who /\ f.ident = call[r].ident /\ f.sent = call[r].sent
          /\ f.link = call[r].link
          /\ f.owner \in People
      BY <1>5, <3>0 DEF Consume, At, Fits, Frame
    <3> HIDE DEF f
    <3>2. Fits(f, step)
      BY <1>5, <2>2, <3>1 DEF Consume, At, Fits, HasNew, StepsOf
    <3> QED
      BY <1>5, <2>2, <3>2, StaysTyped DEF Consume, TypeOK, f
  <2>3. \/ Goto(r, "refused")
        \/ call[r].sent \in Rows /\ \E step \in {"sweep", "issue"} :
             GotoWith(r, step, [call[r] EXCEPT !.owner = token[call[r].sent].owner])
    BY <1>5 DEF Consume
  <2> QED
    BY <2>1, <2>2, <2>3
<1> QED
  BY <1>1, <1>2, <1>3, <1>4, <1>5

\* Writes to the table of users.
LEMMA AccountsTyped ==
    ASSUME AccountsAssumption, TypeOK, NEW r \in Reqs, CreateUser(r) \/ UpdateName(r)
    PROVE  TypeOK'
<1> USE FrameOf, StepNames
<1> USE DEF Answers
<1>1. CASE CreateUser(r)
  <2> DEFINE f == [call[r] EXCEPT !.owner = call[r].who]
  <2>1. /\ call[r].op = "register" /\ pc[r] = "create" /\ call[r].who \in People
    BY <1>1 DEF CreateUser, At, Fits
  <2>2. /\ f \in Frame /\ f.op = "register" /\ f.browser = call[r].browser
        /\ f.who = call[r].who /\ f.ident = call[r].ident /\ f.sent = call[r].sent
        /\ f.link = call[r].link
        /\ f.owner \in People
    BY <2>1 DEF Fits, Frame
  <2>3. CASE Goto(r, "refused") /\ UNCHANGED account
    BY <1>1, <2>3, StaysTyped DEF CreateUser, Goto, TypeOK
  <2>4. CASE /\ GotoWith(r, "issue", f)
             /\ account' = [account EXCEPT ![call[r].who] = call[r].ident]
    <3>1. call[r].ident \in Names
      BY <1>1, <2>1 DEF CreateUser, Fits
    <3>2. account' \in [People -> Names \cup {None}]
      BY <2>4, <3>1 DEF TypeOK
    <3> HIDE DEF f
    <3>3. Fits(f, "issue")
      BY <2>1, <2>2 DEF Fits, HasNew, StepsOf
    <3> QED
      BY <1>1, <2>4, <3>2, <3>3, StaysTyped DEF CreateUser, TypeOK
  <2> QED
    BY <1>1, <2>3, <2>4 DEF CreateUser
<1>2. CASE UpdateName(r)
  <2>1. call[r].ident \in Names
    BY <1>2 DEF UpdateName, At, Fits
  <2>2. account' \in [People -> Names \cup {None}]
    BY <1>2, <2>1 DEF UpdateName, TypeOK
  <2>3. \E step \in {"ok", "refused"} : Goto(r, step)
    BY <1>2 DEF UpdateName
  <2> QED
    BY <1>2, <2>2, <2>3, StaysTyped DEF UpdateName, Goto, TypeOK
<1> QED
  BY <1>1, <1>2

\* A handler goes on after the table has changed: no row goes away.
LEMMA WritesTyped ==
    ASSUME TypeOK, NEW r \in Reqs, NEW step \in Steps \cup Answers, NEW f,
           step \in Steps => Fits(f, step)', GotoWith(r, step, f),
           token' \in Seq(Row), Rows \subseteq Rows',
           UNCHANGED <<account, jar, careful>>
    PROVE  TypeOK'
<1>1. jar' \in [Browsers -> Rows' \cup {0}]
  BY DEF TypeOK
<1> QED
  BY <1>1, GotoTyped DEF TypeOK

\* The frame still fits when the table has not lost a row.
LEMMA FitsStill ==
    ASSUME NEW f, NEW step, Fits(f, step), Rows \subseteq Rows'
    PROVE  Fits(f, step)'
BY DEF Fits, HasNew

\* What IssueTokens does: row n is new, and the handler holds it.
Issued(r, n, f, step) ==
    /\ n \in Nat /\ n = Len(token) + 1
    /\ Rows' = Rows \cup {n}
    /\ \A i \in Rows \cup {0} : i \in Nat /\ i < n
    /\ token' \in Seq(Row)
    /\ \A i \in Rows : token'[i] = token[i]
    /\ token'[n].owner = call[r].owner /\ token'[n].browser = call[r].browser
    /\ token'[n].from = call[r].sent /\ token'[n].by = 0
    /\ ~token'[n].revoked /\ ~token'[n].expired
    /\ token'[n].person =
          IF call[r].op = "refresh" THEN token[call[r].sent].person ELSE call[r].who
    /\ GotoWith(r, step, f)
    /\ step \in Steps /\ step \in {"link", "reply"}
    /\ step = "link" <=> call[r].op = "refresh"
    /\ f \in Frame
    /\ f.op = call[r].op /\ f.browser = call[r].browser /\ f.who = call[r].who
    /\ f.ident = call[r].ident /\ f.owner = call[r].owner /\ f.sent = call[r].sent
    /\ f.link = call[r].link /\ f.new = n
    /\ pc[r] = "issue" /\ f.op \in {"register", "login", "refresh"}
    /\ f.op = "refresh" => f.sent \in Rows
    /\ f.op \in {"register", "login"} => f.who \in People
    /\ f.browser \in Browsers

\* Issuing appends such a row.
LEMMA IssueGoes ==
    ASSUME AccountsAssumption, TypeOK, NEW r \in Reqs, IssueTokens(r)
    PROVE  \E n, f, step : Issued(r, n, f, step)
<1> DEFINE g == call[r]
           n == Len(token) + 1
           row == [owner |-> g.owner, browser |-> g.browser,
                   person |-> IF g.op = "refresh" THEN token[g.sent].person ELSE g.who,
                   from |-> g.sent, by |-> 0, revoked |-> FALSE, expired |-> FALSE]
           f == [g EXCEPT !.new = n]
           step == IF g.op = "refresh" THEN "link" ELSE "reply"
<1>1. /\ pc[r] = "issue" /\ g.owner \in People /\ g.sent \in Nat
      /\ g.op \in {"register", "login", "refresh"}
      /\ g.op = "refresh" => g.sent \in Rows
      /\ g.op \in {"register", "login"} => g.who \in People
      /\ g.browser \in Browsers
  <2>1. pc[r] = "issue" /\ Fits(g, "issue")
    BY FrameOf, StepNames DEF IssueTokens
  <2>2. g.op \in {"register", "login", "refresh"}
    BY <2>1 DEF Fits, StepsOf, Operations, Frame
  <2> QED
    BY <2>1, <2>2, FrameOf, StepNames DEF Fits
<1>2. row \in Row
  <2>1. g.op = "refresh" => token[g.sent].person \in People
    BY <1>1, TokenRows DEF Row
  <2> QED
    BY <1>1, <2>1 DEF Row
<1>3. /\ row.owner = g.owner /\ row.browser = g.browser /\ row.from = g.sent
      /\ row.by = 0 /\ ~row.revoked /\ ~row.expired
      /\ row.person = IF g.op = "refresh" THEN token[g.sent].person ELSE g.who
  OBVIOUS
<1>4. token' = Append(token, row) /\ GotoWith(r, step, f)
  BY DEF IssueTokens
<1> HIDE DEF row
<1>5. /\ token' \in Seq(Row) /\ Rows' = Rows \cup {n} /\ n \in Nat
      /\ token'[n] = row /\ \A i \in Rows : token'[i] = token[i]
      /\ \A i \in Rows \cup {0} : i \in Nat /\ i < n
  BY <1>2, <1>4, AppendedRow, TokenRows
<1>6. g \in Frame
  BY <1>1, FrameOf, StepNames DEF Fits
<1>7. /\ f \in Frame /\ f.op = g.op /\ f.browser = g.browser /\ f.ident = g.ident
      /\ f.who = g.who /\ f.sent = g.sent /\ f.link = g.link /\ f.owner = g.owner
      /\ f.new = n
  BY <1>5, <1>6 DEF Frame
<1>8. step \in {"link", "reply"} /\ step \in Steps /\ (step = "link" <=> g.op = "refresh")
  BY StepNames
<1> HIDE DEF f, step, n
<1>9. Issued(r, n, f, step)
  BY <1>1, <1>3, <1>4, <1>5, <1>7, <1>8 DEF Issued, n
<1> QED
  BY <1>9

\* Tokens that are issued, found, revoked and swept.
LEMMA TokensTyped ==
    ASSUME AccountsAssumption, TypeOK, NEW r \in Reqs,
           \/ IssueTokens(r) \/ SweepFamily(r) \/ FindNewest(r)
           \/ RevokeOld(r) \/ RevokeOnLogout(r)
    PROVE  TypeOK'
<1> USE FrameOf, StepNames
<1> USE DEF Answers
<1>1. CASE IssueTokens(r)
  <2>1. PICK n, f, step : Issued(r, n, f, step)
    BY <1>1, IssueGoes
  <2>2. Fits(call[r], "issue") /\ Rows \subseteq Rows' /\ n \in Rows'
    BY <2>1 DEF Issued
  <2>3. step \in StepsOf(f.op)
    BY <2>1 DEF Issued, StepsOf
  <2>4. Fits(f, step)'
    BY <2>1, <2>2, <2>3 DEF Fits, HasNew, Issued
  <2> QED
    BY <1>1, <2>1, <2>2, <2>4, WritesTyped DEF IssueTokens, Issued
<1>2. CASE SweepFamily(r)
  <2>1. token' \in Seq(Row) /\ Rows' = Rows
    BY <1>2, SweepMarks DEF Marks
  <2> QED
    BY <1>2, <2>1, WritesTyped DEF SweepFamily, Goto
<1>3. CASE FindNewest(r)
  <2>1. /\ pc[r] = "link" /\ call[r].op = "refresh" /\ Fits(call[r], "link")
        /\ UNCHANGED <<account, token, jar, careful>>
    BY <1>3 DEF FindNewest, At
  <2>a. PICK k \in Rows \cup {0} :
                 GotoWith(r, "revoke", [call[r] EXCEPT !.link = k])
    <3>1. CASE Goto(r, "revoke")
      <4>1. call[r] = [call[r] EXCEPT !.link = call[r].link]
        BY <2>1 DEF Fits, Frame
      <4>2. call[r].link \in Rows \cup {0}
        BY <2>1 DEF Fits
      <4> QED
        BY <3>1, <4>1, <4>2 DEF Goto
    <3>2. CASE \E i \in LiveTokens(call[r].owner) :
                   GotoWith(r, "revoke", [call[r] EXCEPT !.link = i])
      BY <3>2 DEF LiveTokens
    <3> QED
      BY <1>3, <3>1, <3>2 DEF FindNewest
  <2>2. PICK f : /\ f = [call[r] EXCEPT !.link = k]
                 /\ GotoWith(r, "revoke", f)
    BY <2>a
  <2>3. k \in Nat
    BY TokenRows
  <2>4. /\ f \in Frame /\ f.op = "refresh" /\ f.browser = call[r].browser
        /\ f.ident = call[r].ident /\ f.who = call[r].who /\ f.sent = call[r].sent
        /\ f.owner = call[r].owner /\ f.new = call[r].new /\ f.link = k
    BY <2>1, <2>2, <2>3 DEF Fits, Frame
  <2>5. Fits(f, "revoke")
    BY SMTT(30), <2>1, <2>4 DEF Fits, HasNew, StepsOf
  <2> QED
    BY <2>1, <2>2, <2>5, StaysTyped DEF TypeOK
<1>4. CASE RevokeOld(r)
  <2>1. PICK f : f = call[r]
    OBVIOUS
  <2>2. token' \in Seq(Row) /\ Rows' = Rows
    BY <1>4, RevokeOldMarks DEF Marks
  <2>3. Fits(f, "reply")
    BY <1>4, <2>1 DEF RevokeOld, At, Fits, HasNew, StepsOf
  <2>4. GotoWith(r, "reply", f)
    BY <1>4, <2>1 DEF RevokeOld, Goto
  <2> QED
    BY <1>4, <2>2, <2>3, <2>4, FitsStill, WritesTyped DEF RevokeOld
<1>5. CASE RevokeOnLogout(r)
  <2>1. PICK f : f = call[r]
    OBVIOUS
  <2>2. token' \in Seq(Row) /\ Rows' = Rows
    BY <1>5, LogoutMarks DEF Marks
  <2>3. Fits(f, "reply")
    BY <1>5, <2>1 DEF RevokeOnLogout, At, Fits, HasNew, StepsOf
  <2>4. GotoWith(r, "reply", f)
    BY <1>5, <2>1 DEF RevokeOnLogout, Goto
  <2> QED
    BY <1>5, <2>2, <2>3, <2>4, FitsStill, WritesTyped DEF RevokeOnLogout
<1> QED
  BY SMTT(30), <1>1, <1>2, <1>3, <1>4, <1>5

\* Answers arrive or not, and time passes.
LEMMA AnswersTyped ==
    ASSUME AccountsAssumption, TypeOK, NEW r \in Reqs, Reply(r) \/ Lose(r)
    PROVE  TypeOK'
<1>1. pc[r] = "reply" /\ Fits(call[r], "reply")
  BY FrameOf, StepNames DEF Reply, Lose
<1>2. jar' \in [Browsers -> Rows \cup {0}]
  <2>1. CASE Reply(r)
    <3>1. call[r].op # "logout" => call[r].new \in Rows
      BY <1>1 DEF Fits, HasNew
    <3> QED
      BY <2>1, <3>1 DEF Reply, TypeOK
  <2>2. CASE Lose(r)
    BY <2>2 DEF Lose, TypeOK
  <2> QED
    BY <2>1, <2>2
<1> QED
  BY <1>2, StaysTyped, StepNames DEF Reply, Lose, Goto, TypeOK, Answers

\* The expiry of a token keeps the types.
LEMMA ExpireTyped ==
    ASSUME TypeOK, NEW i \in Rows, Expire(i)
    PROVE  TypeOK'
<1>1. token' \in Seq(Row) /\ Rows' = Rows
  BY ExpireMarks
<1>2. jar' \in [Browsers -> Rows \cup {0}]
  BY DEF Expire, TypeOK
<1>3. \A q \in Reqs : InFlight(q)' => Fits(call[q], pc[q])'
  <2> SUFFICES ASSUME NEW q \in Reqs, InFlight(q)'
               PROVE  Fits(call[q], pc[q])'
    OBVIOUS
  <2>1. Fits(call[q], pc[q])
    BY DEF Expire, InFlight, TypeOK
  <2> QED
    BY <1>1, <2>1 DEF Fits, HasNew, Expire
<1> QED
  BY <1>1, <1>2, <1>3 DEF Expire, TypeOK

\* The first states are well typed.
LEMMA InitTyped ==
    ASSUME AccountsAssumption, Init
    PROVE  TypeOK
<1>a. PICK n \in 0 .. Cardinality(Browsers) :
        \E place \in [1 .. n -> Browsers], who \in [1 .. n -> People] :
          /\ \A i, j \in 1 .. n : place[i] = place[j] => i = j
          /\ \A i \in 1 .. n : account[who[i]] # None
          /\ token = LoginTokens(n, place, who)
          /\ jar \in [Browsers -> 0 .. n]
          /\ \A b \in Browsers, i \in 1 .. n : jar[b] = i <=> place[i] = b
  BY Zenon DEF Init
<1>1. PICK place \in [1 .. n -> Browsers], who \in [1 .. n -> People] :
        token = LoginTokens(n, place, who) /\ jar \in [Browsers -> 0 .. n]
  BY <1>a
<1>2. n \in Nat
  OBVIOUS
<1>3. token \in [1 .. n -> Row]
  BY <1>1 DEF Row, LoginTokens
<1>4. token \in Seq(Row) /\ Rows = 1 .. n
  BY <1>2, <1>3 DEF Rows
<1>5. jar \in [Browsers -> Rows \cup {0}]
  BY <1>1, <1>2, <1>4
<1>6. \A r \in Reqs : ~InFlight(r)
  BY StepNames DEF Init, InFlight
<1> QED
  BY <1>4, <1>5, <1>6 DEF Init, TypeOK

\* Every step keeps the types.
LEMMA StepTyped ==
    ASSUME AccountsAssumption, TypeOK, [Next]_vars
    PROVE  TypeOK'
<1>1. CASE UNCHANGED vars
  BY <1>1 DEF vars, TypeOK, InFlight, Fits, HasNew, Rows
<1>2. ASSUME NEW r \in Reqs, Receive(r) \/ Handle(r) \/ Reply(r) \/ Lose(r)
      PROVE  TypeOK'
  BY <1>2, ReceiveTyped, LookupsTyped, AccountsTyped, TokensTyped, AnswersTyped DEF Handle
<1>3. ASSUME NEW i \in Rows, Expire(i)
      PROVE  TypeOK'
  BY <1>3, ExpireTyped
<1> QED
  BY <1>1, <1>2, <1>3 DEF Next, AllAnswered

\* The tables, the cookies and the frames of the handlers keep their types, and
\* a handler's tokens are rows of the table (AuthService, TokenService).
THEOREM AccountsTypeCorrect ==
    ASSUME AccountsAssumption
    PROVE  Spec => []TypeOK
<1>1. Init => TypeOK
  BY InitTyped
<1>2. TypeOK /\ [Next]_vars => TypeOK'
  BY StepTyped
<1> QED
  BY <1>1, <1>2, PTL DEF Spec

-----------------------------------------------------------------------------
(* Everyone is signed in to his own account.  The invariant follows a       *)
(* token through the handlers that hold it and the cookie that gets it.     *)

\* The tokens of a handler were issued for its browser, and a rotation stays
\* with one user.
Belongs(f, step) ==
    /\ f.sent # 0 => token[f.sent].browser = f.browser
    /\ f.op = "refresh" /\ step # "consume" => f.owner = token[f.sent].owner
    /\ f.op \in {"register", "login"} /\ step = "issue" => f.owner = f.who
    /\ HasNew(f, step) => /\ token[f.new].browser = f.browser
                          /\ token[f.new].owner = f.owner
                          /\ token[f.new].from = f.sent
                          /\ ~token[f.new].expired
                          /\ f.sent < f.new

\* A handler goes on with the tokens it has.
SameTokens(f, g) ==
    /\ f.op = g.op /\ f.browser = g.browser /\ f.who = g.who
    /\ f.sent = g.sent /\ f.new = g.new

TokensMatch ==
    /\ \A r \in Reqs : InFlight(r) => Belongs(call[r], pc[r])
    /\ \A b \in Browsers : jar[b] # 0 => /\ token[jar[b]].browser = b
                                         /\ ~token[jar[b]].expired
    /\ SessionIsOwn

\* What no step of a handler changes in the table.
TableKept ==
    /\ Rows \subseteq Rows'
    /\ \A i \in Rows : Same(i) /\ token'[i].expired = token[i].expired

\* Marking keeps the table.
LEMMA MarksKeep ==
    ASSUME NEW S, NEW by, Marks(S, by)
    PROVE  TableKept
BY DEF Marks, TableKept

\* Appending a row keeps the table.
LEMMA AppendKeeps ==
    ASSUME TypeOK, NEW row \in Row, token' = Append(token, row)
    PROVE  TableKept
BY AppendedRow DEF TableKept, Same

\* A table that is not written is kept.
LEMMA UnwrittenKept ==
    ASSUME UNCHANGED token
    PROVE  TableKept
BY DEF TableKept, Same, Rows

\* What a handler holds still belongs together when the table is kept.
LEMMA BelongsStill ==
    ASSUME TableKept, NEW f, NEW step, Fits(f, step), Belongs(f, step)
    PROVE  Belongs(f, step)'
<1>1. f.sent # 0 => f.sent \in Rows
  BY DEF Fits
<1>2. f.op = "refresh" /\ step # "consume" => f.sent \in Rows
  BY DEF Fits
<1>3. HasNew(f, step) => f.new \in Rows
  BY DEF Fits
<1>4. HasNew(f, step)' <=> HasNew(f, step)
  BY DEF HasNew
<1> QED
  BY <1>1, <1>2, <1>3, <1>4 DEF Belongs, TableKept, Same

\* One handler moves on and the others keep what they hold.
LEMMA MoveBelongs ==
    ASSUME TypeOK, TokensMatch, TableKept, NEW r \in Reqs,
           NEW step \in Steps \cup Answers, NEW f, GotoWith(r, step, f),
           step \in Steps => Belongs(f, step)'
    PROVE  \A q \in Reqs : InFlight(q)' => Belongs(call[q], pc[q])'
<1> SUFFICES ASSUME NEW q \in Reqs, InFlight(q)'
             PROVE  Belongs(call[q], pc[q])'
  OBVIOUS
<1>1. CASE q = r
  <2>1. pc'[q] = step /\ step \in Steps /\ call'[q] = f
    BY <1>1, StepNames DEF GotoWith, TypeOK, InFlight
  <2> QED
    BY <2>1 DEF Belongs, HasNew
<1>2. CASE q # r
  <2>1. pc'[q] = pc[q] /\ call'[q] = call[q]
    BY <1>2 DEF GotoWith, TypeOK
  <2>2. PICK f1, step1 : f1 = call[q] /\ step1 = pc[q]
    OBVIOUS
  <2>3. Fits(f1, step1) /\ Belongs(f1, step1)
    BY <2>1, <2>2 DEF InFlight, TypeOK, TokensMatch
  <2>4. Belongs(f1, step1)'
    BY <2>3, BelongsStill
  <2> QED
    BY <2>1, <2>2, <2>4 DEF Belongs, HasNew
<1> QED
  BY <1>1, <1>2

\* Cookies keep tokens of their browser when the table is kept.
LEMMA JarMatches ==
    ASSUME TypeOK, TokensMatch, TableKept, UNCHANGED jar
    PROVE  \A b \in Browsers : jar'[b] # 0 => /\ token'[jar'[b]].browser = b
                                              /\ ~token'[jar'[b]].expired
<1>1. \A b \in Browsers : jar[b] # 0 => jar[b] \in Rows
  BY DEF TypeOK
<1> QED
  BY <1>1 DEF TokensMatch, TableKept, Same

\* Requests arrive: what they bring is in their browser's cookie.
LEMMA ReceiveBelongs ==
    ASSUME AccountsAssumption, TypeOK, TokensMatch, NEW r \in Reqs, Receive(r)
    PROVE  TokensMatch'
<1>1. PICK f, step : FirstFrame(r, f, step)
  BY ReceiveGoes
<1>2. UNCHANGED <<token, jar>>
  BY DEF Receive
<1>3. Belongs(f, step)
  <2>1. step # "issue" /\ ~HasNew(f, step) /\ (f.op = "refresh" => step = "consume")
    BY <1>1 DEF FirstFrame, HasNew
  <2>2. f.sent # 0 => token[f.sent].browser = f.browser
    BY <1>1 DEF FirstFrame, TokensMatch
  <2> QED
    BY <2>1, <2>2 DEF Belongs
<1>4. TableKept
  BY <1>2, UnwrittenKept
<1>5. Belongs(f, step)'
  BY <1>1, <1>3, <1>4, BelongsStill DEF FirstFrame
<1>6. \A q \in Reqs : InFlight(q)' => Belongs(call[q], pc[q])'
  BY <1>1, <1>4, <1>5, MoveBelongs DEF FirstFrame
<1> QED
  BY <1>2, <1>6 DEF TokensMatch, SessionIsOwn, Rows

\* Lookups and changes of usernames.
LEMMA LookupsBelong ==
    ASSUME AccountsAssumption, TypeOK, TokensMatch, NEW r \in Reqs,
           \/ CheckFree(r) \/ CreateUser(r) \/ CheckName(r) \/ UpdateName(r)
           \/ FindUser(r) \/ LoadUser(r) \/ Consume(r) \/ FindNewest(r)
    PROVE  TokensMatch'
<1> DEFINE g == call[r]
<1>1. UNCHANGED <<token, jar>>
  BY DEF CheckFree, CreateUser, CheckName, UpdateName, FindUser, LoadUser, Consume,
         FindNewest
<1>2. TableKept
  BY <1>1, UnwrittenKept
<1>3. /\ pc[r] \in Steps /\ Fits(g, pc[r]) /\ Belongs(g, pc[r])
  <2>1. pc[r] \in Steps
    BY StepNames DEF CheckFree, CreateUser, CheckName, UpdateName, FindUser, LoadUser,
         Consume, FindNewest, At
  <2> QED
    BY <2>1, FrameOf DEF TokensMatch, InFlight
<1> DEFINE Goes == \E step \in Steps \cup Answers : \E f :
                     GotoWith(r, step, f) /\ (step \in Steps => Belongs(f, step)')
<1>4. ASSUME NEW step \in Answers, Goto(r, step)
      PROVE  Goes
  <2>1. step \notin Steps
    BY StepNames
  <2> QED
    BY <1>4, <2>1 DEF Goto
<1>5. ASSUME NEW step \in Steps, NEW f, GotoWith(r, step, f), Fits(f, step),
             Belongs(f, step)
      PROVE  Goes
  BY <1>2, <1>5, BelongsStill
<1>6. Goes
  <2> HIDE DEF Goes
  <2> USE StepNames
  <2> USE DEF Answers
  <2>1. CASE CheckFree(r)
    <3>1. Fits(g, "create") /\ Belongs(g, "create")
      BY <1>3, <2>1 DEF CheckFree, At, Fits, HasNew, StepsOf, Belongs
    <3> QED
      BY <1>4, <1>5, <2>1, <3>1 DEF CheckFree, Goto
  <2>2. CASE CreateUser(r)
    <3> DEFINE f == [g EXCEPT !.owner = g.who]
    <3>0. pc[r] = "create" /\ g.op = "register"
      BY <2>2 DEF CreateUser, At
    <3>1. pc[r] = "create" /\ g.op = "register" /\ g.who \in People
      BY <1>3, <3>0, FrameOf DEF Fits
    <3>2. SameTokens(f, g) /\ f.owner = g.who /\ f.link = g.link /\ f.ident = g.ident
          /\ f \in Frame
      BY <1>3, <3>1 DEF SameTokens, Fits, Frame
    <3>3. Goto(r, "refused") \/ GotoWith(r, "issue", f)
      BY <2>2 DEF CreateUser
    <3> HIDE DEF f
    <3>4. Fits(f, "issue") /\ Belongs(f, "issue")
      BY <1>3, <3>1, <3>2 DEF Fits, HasNew, StepsOf, Belongs, SameTokens
    <3> QED
      BY <1>4, <1>5, <3>3, <3>4
  <2>3. CASE CheckName(r)
    <3>1. Fits(g, "update") /\ Belongs(g, "update")
      BY <1>3, <2>3 DEF CheckName, At, Fits, HasNew, StepsOf, Belongs
    <3> QED
      BY <1>4, <1>5, <2>3, <3>1 DEF CheckName, Goto
  <2>4. CASE UpdateName(r)
    BY <1>4, <2>4 DEF UpdateName
  <2>5. CASE FindUser(r)
    <3>0. pc[r] = "find" /\ g.op = "login"
      BY <2>5 DEF FindUser, At
    <3>1. pc[r] = "find" /\ g.op = "login" /\ g.who \in People
      BY <1>3, <3>0, FrameOf DEF Fits
    <3>2. ASSUME NEW p \in People, NEW step \in {"issue", "load"},
                 step = "issue" => p = g.who,
                 GotoWith(r, step, [g EXCEPT !.owner = p])
          PROVE  Goes
      <4> DEFINE f == [g EXCEPT !.owner = p]
      <4>1. SameTokens(f, g) /\ f.owner = p /\ f.link = g.link /\ f.ident = g.ident
            /\ f \in Frame
        BY <1>3, <3>1 DEF SameTokens, Fits, Frame
      <4>2. GotoWith(r, step, f)
        BY <3>2
      <4> HIDE DEF f
      <4>3. Fits(f, step) /\ Belongs(f, step)
        BY <1>3, <3>1, <3>2, <4>1 DEF Fits, HasNew, StepsOf, Belongs, SameTokens
      <4> QED
        BY <1>5, <4>2, <4>3
    <3>3. \/ Goto(r, "refused")
          \/ GotoWith(r, "issue", [g EXCEPT !.owner = g.who])
          \/ \E p \in People : GotoWith(r, "load", [g EXCEPT !.owner = p])
      BY <2>5, Zenon DEF FindUser
    <3>4. CASE Goto(r, "refused")
      BY <1>4, <3>4
    <3>5. CASE GotoWith(r, "issue", [g EXCEPT !.owner = g.who])
      BY <3>1, <3>2, <3>5
    <3>6. CASE \E p \in People : GotoWith(r, "load", [g EXCEPT !.owner = p])
      BY <3>2, <3>6
    <3> QED
      BY <3>3, <3>4, <3>5, <3>6
  <2>6. CASE LoadUser(r)
    <3>1. (Fits(g, "issue") /\ Belongs(g, "issue")) \/ g.owner # g.who
      BY <1>3, <2>6 DEF LoadUser, At, Fits, HasNew, StepsOf, Belongs
    <3> QED
      BY <1>4, <1>5, <2>6, <3>1 DEF LoadUser, Goto
  <2>7. CASE Consume(r)
    <3> DEFINE f == [g EXCEPT !.owner = token[g.sent].owner]
    <3>1. pc[r] = "consume" /\ g.op = "refresh"
      BY <2>7 DEF Consume, At
    <3>2. \/ Goto(r, "refused")
          \/ g.sent \in Rows /\ \E step \in {"issue", "sweep"} : GotoWith(r, step, f)
      BY <2>7 DEF Consume
    <3>3. CASE g.sent \in Rows
      <4>1. token[g.sent].owner \in People
        BY <3>3, TokenRows DEF Row
      <4>2. SameTokens(f, g) /\ f.owner = token[g.sent].owner /\ f.link = g.link
            /\ f.ident = g.ident /\ f \in Frame
        BY <1>3, <3>1, <4>1 DEF SameTokens, Fits, Frame
      <4> HIDE DEF f
      <4>3. ASSUME NEW step \in {"issue", "sweep"}
            PROVE  Fits(f, step) /\ Belongs(f, step)
        BY <1>3, <3>1, <3>3, <4>1, <4>2 DEF Fits, HasNew, StepsOf, Belongs, SameTokens
      <4> QED
        BY <1>4, <1>5, <3>2, <4>3
    <3> QED
      BY <1>4, <3>2, <3>3
  <2>8. CASE FindNewest(r)
    <3>1. pc[r] = "link" /\ g.op = "refresh"
      BY <2>8 DEF FindNewest, At
    <3>2. ASSUME NEW k \in Rows, GotoWith(r, "revoke", [g EXCEPT !.link = k])
          PROVE  Goes
      <4> DEFINE f == [g EXCEPT !.link = k]
      <4>0. k \in Nat
        BY TokenRows
      <4>1. SameTokens(f, g) /\ f.owner = g.owner /\ f.link = k /\ f.ident = g.ident
            /\ f \in Frame
        BY <1>3, <3>1, <4>0 DEF SameTokens, Fits, Frame
      <4>2. GotoWith(r, "revoke", f)
        BY <3>2
      <4> HIDE DEF f
      <4>3. Fits(f, "revoke") /\ Belongs(f, "revoke")
        BY <1>3, <3>1, <4>1 DEF Fits, HasNew, StepsOf, Belongs, SameTokens
      <4> QED
        BY <1>5, <4>2, <4>3
    <3>3. CASE Goto(r, "revoke")
      <4>1. Fits(g, "revoke") /\ Belongs(g, "revoke")
        BY <1>3, <3>1 DEF Fits, HasNew, StepsOf, Belongs
      <4> QED
        BY <1>5, <3>3, <4>1 DEF Goto
    <3> QED
      BY <2>8, <3>2, <3>3 DEF FindNewest, LiveTokens
  <2> QED
    BY <2>1, <2>2, <2>3, <2>4, <2>5, <2>6, <2>7, <2>8
<1> QED
  <2>1. PICK step \in Steps \cup Answers : \E f :
               GotoWith(r, step, f) /\ (step \in Steps => Belongs(f, step)')
    BY <1>6
  <2>2. PICK f : GotoWith(r, step, f) /\ (step \in Steps => Belongs(f, step)')
    BY <2>1
  <2>3. \A q \in Reqs : InFlight(q)' => Belongs(call[q], pc[q])'
    BY <1>2, <2>2, MoveBelongs
  <2> QED
    BY <1>1, <2>3 DEF TokensMatch, SessionIsOwn, Rows

\* Tokens are issued, revoked and swept.
LEMMA WritesBelong ==
    ASSUME AccountsAssumption, TypeOK, TokensMatch, NEW r \in Reqs,
           \/ IssueTokens(r) \/ SweepFamily(r) \/ RevokeOld(r) \/ RevokeOnLogout(r)
    PROVE  TokensMatch'
<1>1. PICK g : g = call[r]
  OBVIOUS
<1>2. UNCHANGED jar
  BY DEF IssueTokens, SweepFamily, RevokeOld, RevokeOnLogout
<1>3. /\ pc[r] \in Steps /\ Fits(g, pc[r]) /\ Belongs(g, pc[r])
  <2>1. pc[r] \in Steps
    BY StepNames DEF IssueTokens, SweepFamily, RevokeOld, RevokeOnLogout, At
  <2> QED
    BY <1>1, <2>1, FrameOf DEF TokensMatch, InFlight
<1>4. ASSUME NEW step \in Steps \cup Answers, NEW f, GotoWith(r, step, f), TableKept,
             step \in Steps => Belongs(f, step)', SessionIsOwn'
      PROVE  TokensMatch'
  BY <1>2, <1>4, MoveBelongs, JarMatches DEF TokensMatch
<1>5. ASSUME NEW S, NEW by, Marks(S, by)
      PROVE  TableKept /\ SessionIsOwn'
  <2>1. TableKept
    BY <1>5, MarksKeep
  <2>2. Rows' = Rows /\ \A i \in Rows : Same(i)
    BY <1>5 DEF Marks
  <2>3. \A i \in Rows : token[i].owner = token[i].person
    BY DEF TokensMatch, SessionIsOwn
  <2>4. \A i \in Rows : token'[i].owner = token'[i].person
    BY <2>2, <2>3 DEF Same
  <2> QED
    BY <2>1, <2>2, <2>4 DEF SessionIsOwn
<1>6. CASE SweepFamily(r)
  <2>1. GotoWith(r, "refused", call[r]) /\ TableKept /\ SessionIsOwn'
    BY <1>5, <1>6, SweepMarks DEF SweepFamily, Goto
  <2> QED
    BY <1>4, <2>1, StepNames DEF Answers
<1>7. CASE RevokeOld(r) \/ RevokeOnLogout(r)
  <2>1. /\ GotoWith(r, "reply", g) /\ TableKept /\ SessionIsOwn'
        /\ pc[r] = "revoke" /\ g.op \in {"refresh", "logout"}
    BY <1>1, <1>5, <1>7, RevokeOldMarks, LogoutMarks DEF RevokeOld, RevokeOnLogout, Goto, At
  <2>2. Fits(g, "reply") /\ Belongs(g, "reply")
    BY <1>3, <2>1 DEF Fits, HasNew, StepsOf, Belongs
  <2> QED
    BY <1>4, <2>1, <2>2, BelongsStill, StepNames
<1>8. CASE IssueTokens(r)
  <2>1. PICK n, f, step : Issued(r, n, f, step)
    BY <1>8, IssueGoes
  <2>2. TableKept
    BY <2>1 DEF Issued, TableKept, Same
  <2>3. /\ f.sent # 0 => f.sent \in Rows /\ token[f.sent].browser = f.browser
        /\ f.op = "refresh" => f.owner = token[f.sent].owner
        /\ f.op \in {"register", "login"} => f.owner = f.who
        /\ f.sent \in Rows \cup {0}
    BY <1>1, <1>3, <2>1 DEF Fits, Belongs, Issued
  <2>4. token'[n].owner = token'[n].person
    BY <2>1, <2>3 DEF TokensMatch, SessionIsOwn, Issued
  <2>5. SessionIsOwn'
    BY <2>1, <2>4 DEF TokensMatch, SessionIsOwn, Issued
  <2>6. f.sent # 0 => token'[f.sent].browser = f.browser
    BY <2>1, <2>3 DEF Issued
  <2>7. f.op = "refresh" => f.owner = token'[f.sent].owner
    BY <2>1, <2>3 DEF Issued
  <2>8. Belongs(f, step)'
    BY <2>1, <2>3, <2>6, <2>7 DEF Belongs, Issued
  <2> QED
    BY <1>4, <2>1, <2>2, <2>5, <2>8 DEF Issued
<1> QED
  BY <1>6, <1>7, <1>8

\* Answers bring a browser a token of its own; lost ones bring none.
LEMMA AnswersBelong ==
    ASSUME AccountsAssumption, TypeOK, TokensMatch, NEW r \in Reqs, Reply(r) \/ Lose(r)
    PROVE  TokensMatch'
<1>1. /\ UNCHANGED token /\ GotoWith(r, "ok", call[r]) /\ pc[r] = "reply"
      /\ Fits(call[r], "reply") /\ Belongs(call[r], "reply")
  BY FrameOf, StepNames DEF Reply, Lose, Goto, TokensMatch, InFlight
<1>2. TableKept
  BY <1>1, UnwrittenKept
<1>3. \A q \in Reqs : InFlight(q)' => Belongs(call[q], pc[q])'
  BY <1>1, <1>2, MoveBelongs, StepNames DEF Answers
<1>4. \A b \in Browsers : jar'[b] # 0 => /\ token[jar'[b]].browser = b
                                         /\ ~token[jar'[b]].expired
  <2>1. CASE Lose(r)
    BY <2>1 DEF Lose, TokensMatch
  <2>2. CASE Reply(r)
    <3>1. call[r].op # "logout" => /\ token[call[r].new].browser = call[r].browser
                                   /\ ~token[call[r].new].expired
      BY <1>1 DEF Belongs, HasNew
    <3> QED
      BY <2>2, <3>1 DEF Reply, TokensMatch, TypeOK
  <2> QED
    BY <2>1, <2>2
<1> QED
  BY <1>1, <1>3, <1>4 DEF TokensMatch, SessionIsOwn, Rows

\* A token expires when no handler has a new one, and leaves its cookie.
LEMMA ExpireBelongs ==
    ASSUME TypeOK, TokensMatch, NEW i \in Rows, Expire(i)
    PROVE  TokensMatch'
<1>1. /\ Rows' = Rows
      /\ \A j \in Rows : /\ Same(j)
                         /\ token'[j].expired = (token[j].expired \/ j = i)
      /\ UNCHANGED <<pc, call>>
  BY ExpireMarks DEF Expire
<1>2. ASSUME NEW q \in Reqs, InFlight(q)'
      PROVE  Belongs(call[q], pc[q])'
  <2>1. PICK f : f = call[q]
    OBVIOUS
  <2>2. Fits(f, "consume") /\ Belongs(f, "consume") /\ pc'[q] = "consume" /\ call'[q] = f
    BY <1>1, <1>2, <2>1 DEF Expire, InFlight, TypeOK, TokensMatch
  <2>3. f.op = "refresh" /\ f.sent \in Rows \cup {0}
    BY <2>2 DEF Fits, StepsOf, Frame, Operations
  <2>4. Belongs(f, "consume")'
    BY <1>1, <2>2, <2>3 DEF Belongs, HasNew, Same
  <2> QED
    BY <2>2, <2>4 DEF Belongs, HasNew
<1>3. \A b \in Browsers : jar'[b] # 0 => /\ token'[jar'[b]].browser = b
                                         /\ ~token'[jar'[b]].expired
  BY <1>1 DEF Expire, TypeOK, TokensMatch, Same
<1> QED
  BY <1>1, <1>2, <1>3 DEF TokensMatch, SessionIsOwn, Same

\* In the first states every token is its owner's and no handler holds any.
LEMMA InitMatches ==
    ASSUME AccountsAssumption, Init
    PROVE  TokensMatch
<1>a. PICK n \in 0 .. Cardinality(Browsers) :
        \E place \in [1 .. n -> Browsers], who \in [1 .. n -> People] :
          /\ \A i, j \in 1 .. n : place[i] = place[j] => i = j
          /\ \A i \in 1 .. n : account[who[i]] # None
          /\ token = LoginTokens(n, place, who)
          /\ jar \in [Browsers -> 0 .. n]
          /\ \A b \in Browsers, i \in 1 .. n : jar[b] = i <=> place[i] = b
  BY Zenon DEF Init
<1>1. PICK place \in [1 .. n -> Browsers], who \in [1 .. n -> People] :
        /\ token = LoginTokens(n, place, who)
        /\ jar \in [Browsers -> 0 .. n]
        /\ \A b \in Browsers, i \in 1 .. n : jar[b] = i <=> place[i] = b
  BY <1>a
<1>2. /\ DOMAIN token = 1 .. n
      /\ \A i \in 1 .. n : /\ token[i].owner = who[i] /\ token[i].person = who[i]
                           /\ token[i].browser = place[i] /\ ~token[i].expired
  BY <1>1 DEF LoginTokens
<1>3. \A b \in Browsers : jar[b] # 0 => jar[b] \in 1 .. n
  BY <1>1
<1>4. \A r \in Reqs : ~InFlight(r)
  BY StepNames DEF Init, InFlight
<1> QED
  BY <1>1, <1>2, <1>3, <1>4 DEF TokensMatch, SessionIsOwn, Rows

\* Every step keeps tokens, cookies and handlers together.
LEMMA StepMatches ==
    ASSUME AccountsAssumption, TypeOK, TokensMatch, [Next]_vars
    PROVE  TokensMatch'
<1>1. CASE UNCHANGED vars
  BY <1>1 DEF vars, TokensMatch, InFlight, Belongs, HasNew, SessionIsOwn, Rows
<1>2. ASSUME NEW r \in Reqs, Receive(r) \/ Handle(r) \/ Reply(r) \/ Lose(r)
      PROVE  TokensMatch'
  BY <1>2, ReceiveBelongs, LookupsBelong, WritesBelong, AnswersBelong DEF Handle
<1>3. ASSUME NEW i \in Rows, Expire(i)
      PROVE  TokensMatch'
  BY <1>3, ExpireBelongs
<1> QED
  BY <1>1, <1>2, <1>3 DEF Next, AllAnswered

\* A session belongs to the account whose password was typed, through renames
\* between the two lookups of a login and through any number of rotations
\* (AuthService.login, TokenService.issueTokenPair, AuthService.refresh).
THEOREM SessionsAreOwn ==
    ASSUME AccountsAssumption
    PROVE  Spec => []SessionIsOwn
<1>1. Init => TokensMatch
  BY InitMatches
<1>2. TypeOK /\ TokensMatch /\ [Next]_vars => TokensMatch'
  BY StepMatches
<1>3. TokensMatch => SessionIsOwn
  BY DEF TokensMatch
<1> QED
  BY <1>1, <1>2, <1>3, AccountsTypeCorrect, PTL DEF Spec

-----------------------------------------------------------------------------
(* The link of a rotated token.                                             *)

\* A handler that issues no token goes on with those it has, or answers.
Moves(r, step, f) ==
    /\ GotoWith(r, step, f)
    /\ step \in Steps \cup Answers
    /\ step \in Steps => /\ SameTokens(f, call[r])
                         /\ HasNew(f, step) => HasNew(call[r], pc[r])
                         /\ step # "consume"
                         /\ step = "sweep" => pc[r] = "consume"
                         /\ step # "revoke" => f.link = call[r].link \/ step = "reply"
                         /\ step = "link" => pc[r] = "issue"

\* Every handler but the one that issues a token moves like this.
LEMMA HandlerMoves ==
    ASSUME AccountsAssumption, TypeOK, NEW r \in Reqs,
           Handle(r) \/ Reply(r) \/ Lose(r), ~IssueTokens(r)
    PROVE  pc[r] \in Steps /\ \E step, f : Moves(r, step, f)
<1> DEFINE g == call[r]
<1> USE StepNames
<1> USE DEF Answers
<1>0. pc[r] \in Steps
  BY DEF Handle, CheckFree, CreateUser, CheckName, UpdateName, FindUser, LoadUser, Consume,
         SweepFamily, FindNewest, RevokeOld, RevokeOnLogout, Reply, Lose, At
<1>1. g \in Frame /\ Fits(g, pc[r])
  BY <1>0, FrameOf DEF Fits
<1>2. ASSUME NEW step \in Answers, Goto(r, step)
      PROVE  \E s, f : Moves(r, s, f)
  <2>1. Moves(r, step, g)
    BY <1>2 DEF Goto, Moves
  <2> QED
    BY <2>1
<1>3. ASSUME NEW step \in Steps, Goto(r, step),
             HasNew(g, step) => HasNew(g, pc[r]), step \notin {"consume", "sweep", "link"}
      PROVE  \E s, f : Moves(r, s, f)
  <2>1. Moves(r, step, g)
    BY <1>3 DEF Goto, Moves, SameTokens
  <2> QED
    BY <2>1
<1>4. ASSUME NEW p \in People, NEW step \in {"issue", "load", "sweep"},
             GotoWith(r, step, [g EXCEPT !.owner = p]),
             step = "sweep" => pc[r] = "consume"
      PROVE  \E s, f : Moves(r, s, f)
  <2> DEFINE f == [g EXCEPT !.owner = p]
  <2>1. SameTokens(f, g) /\ f.link = g.link
    BY <1>1 DEF SameTokens, Frame
  <2>2. GotoWith(r, step, f)
    BY <1>4
  <2> HIDE DEF f
  <2>3. Moves(r, step, f)
    BY <1>4, <2>1, <2>2 DEF Moves, HasNew
  <2> QED
    BY <2>3
<1> USE <1>0
<1>5. CASE CheckFree(r) \/ CheckName(r) \/ UpdateName(r) \/ LoadUser(r)
  BY <1>2, <1>3, <1>5 DEF CheckFree, CheckName, UpdateName, LoadUser, HasNew
<1>6. CASE CreateUser(r)
  <2>1. g.who \in People
    BY <1>1, <1>6, FrameOf DEF CreateUser, At, Fits
  <2>2. Goto(r, "refused") \/ GotoWith(r, "issue", [g EXCEPT !.owner = g.who])
    BY <1>6 DEF CreateUser
  <2> QED
    BY <1>2, <1>4, <2>1, <2>2
<1>7. CASE FindUser(r)
  <2>0. pc[r] = "find" /\ g.op = "login"
    BY <1>7 DEF FindUser, At
  <2>1. g.who \in People
    BY <1>1, <2>0, FrameOf DEF Fits
  <2>2. \/ Goto(r, "refused")
        \/ GotoWith(r, "issue", [g EXCEPT !.owner = g.who])
        \/ \E p \in People : GotoWith(r, "load", [g EXCEPT !.owner = p])
    BY <1>7, Zenon DEF FindUser
  <2> QED
    BY <1>2, <1>4, <2>1, <2>2
<1>8. CASE Consume(r)
  <2>1. \/ Goto(r, "refused")
        \/ /\ g.sent \in Rows
           /\ \E step \in {"issue", "sweep"} :
                GotoWith(r, step, [g EXCEPT !.owner = token[g.sent].owner])
    BY <1>8 DEF Consume
  <2>2. g.sent \in Rows => token[g.sent].owner \in People
    BY TokenRows DEF Row
  <2>3. pc[r] = "consume"
    BY <1>8 DEF Consume, At
  <2> QED
    BY <1>2, <1>4, <2>1, <2>2, <2>3
<1>9. CASE SweepFamily(r) \/ Reply(r) \/ Lose(r)
  BY <1>2, <1>9 DEF SweepFamily, Reply, Lose
<1>10. CASE FindNewest(r)
  <2>1. pc[r] = "link" /\ g.op = "refresh"
    BY <1>10 DEF FindNewest, At
  <2>2. ASSUME NEW k \in Rows, GotoWith(r, "revoke", [g EXCEPT !.link = k])
        PROVE  \E s, f : Moves(r, s, f)
    <3> DEFINE f == [g EXCEPT !.link = k]
    <3>1. SameTokens(f, g)
      BY <1>1 DEF SameTokens, Frame
    <3>2. GotoWith(r, "revoke", f)
      BY <2>2
    <3> HIDE DEF f
    <3>3. Moves(r, "revoke", f)
      BY <2>1, <3>1, <3>2 DEF Moves, HasNew, SameTokens
    <3> QED
      BY <3>3
  <2> QED
    BY <1>3, <1>10, <2>1, <2>2 DEF FindNewest, LiveTokens, HasNew
<1>11. CASE RevokeOld(r) \/ RevokeOnLogout(r)
  BY <1>3, <1>11 DEF RevokeOld, RevokeOnLogout, At, HasNew
<1> QED
  BY <1>0, <1>5, <1>6, <1>7, <1>8, <1>9, <1>10, <1>11 DEF Handle

\* A token that is not delivered yet is known to nobody but its handler.
Undelivered ==
    \A r \in Reqs : InFlight(r) /\ HasNew(call[r], pc[r]) =>
        /\ \A b \in Browsers : jar[b] # call[r].new
        /\ \A q \in Reqs : InFlight(q) =>
              /\ call[q].sent # call[r].new
              /\ q # r /\ HasNew(call[q], pc[q]) => call[q].new # call[r].new

\* After a move every handler has the tokens it had.
LEMMA MovesKeepTokens ==
    ASSUME TypeOK, NEW r \in Reqs, pc[r] \in Steps, NEW step, NEW f, Moves(r, step, f),
           NEW q \in Reqs, InFlight(q)'
    PROVE  /\ InFlight(q)
           /\ SameTokens(call'[q], call[q])
           /\ HasNew(call[q], pc[q])' => HasNew(call[q], pc[q])
<1>1. CASE q = r
  <2>1. pc'[q] = step /\ step \in Steps /\ call'[q] = f
    BY <1>1, StepNames DEF Moves, GotoWith, TypeOK, InFlight
  <2> QED
    BY <1>1, <2>1 DEF InFlight, Moves, HasNew
<1>2. CASE q # r
  <2>1. pc'[q] = pc[q] /\ call'[q] = call[q]
    BY <1>2 DEF Moves, GotoWith, TypeOK
  <2> QED
    BY <2>1 DEF InFlight, SameTokens, HasNew
<1> QED
  BY <1>1, <1>2

\* Cookies lose tokens, and get them from the handlers that answer.
LEMMA JarsUndelivered ==
    ASSUME AccountsAssumption, TypeOK, Undelivered, NEW r \in Reqs,
           Handle(r) \/ Reply(r) \/ Lose(r),
           NEW q \in Reqs, InFlight(q), HasNew(call[q], pc[q]), InFlight(q)'
    PROVE  \A b \in Browsers : jar'[b] # call[q].new
<1>1. call[q].new \in Rows /\ 0 \notin Rows
  BY FrameOf, TokenRows DEF InFlight, Fits
<1>2. CASE Reply(r)
  <2>1. q # r
    BY <1>2, StepNames DEF Reply, Goto, GotoWith, TypeOK, InFlight, Answers
  <2>2. InFlight(r) /\ (call[r].op # "logout" => HasNew(call[r], pc[r]))
    BY <1>2, StepNames DEF Reply, InFlight, HasNew
  <2>3. call[r].op # "logout" => call[q].new # call[r].new
    BY <2>1, <2>2 DEF Undelivered
  <2> QED
    BY <1>1, <1>2, <2>3 DEF Reply, Undelivered, TypeOK
<1>3. CASE ~Reply(r)
  <2>1. UNCHANGED jar
    BY <1>3 DEF Handle, CheckFree, CreateUser, CheckName, UpdateName, FindUser, LoadUser,
         IssueTokens, Consume, SweepFamily, FindNewest, RevokeOld, RevokeOnLogout, Lose
  <2> QED
    BY <2>1 DEF Undelivered
<1> QED
  BY <1>2, <1>3

\* Every step keeps the new tokens of handlers to themselves.
LEMMA StepUndelivered ==
    ASSUME AccountsAssumption, TypeOK, Undelivered, [Next]_vars
    PROVE  Undelivered'
<1>1. CASE UNCHANGED vars
  BY <1>1 DEF vars, Undelivered, InFlight, HasNew
<1>2. ASSUME NEW r \in Reqs, Handle(r) \/ Reply(r) \/ Lose(r), ~IssueTokens(r)
      PROVE  Undelivered'
  <2>1. PICK step, f : pc[r] \in Steps /\ Moves(r, step, f)
    BY <1>2, HandlerMoves
  <2> SUFFICES ASSUME NEW q \in Reqs, InFlight(q)', HasNew(call[q], pc[q])'
               PROVE  /\ \A b \in Browsers : jar'[b] # call'[q].new
                      /\ \A p \in Reqs : InFlight(p)' =>
                            /\ call'[p].sent # call'[q].new
                            /\ p # q /\ HasNew(call[p], pc[p])'
                               => call'[p].new # call'[q].new
    BY DEF Undelivered
  <2>2. /\ InFlight(q) /\ HasNew(call[q], pc[q]) /\ call'[q].new = call[q].new
    BY <2>1, MovesKeepTokens DEF SameTokens
  <2>3. \A b \in Browsers : jar'[b] # call[q].new
    BY <1>2, <2>2, JarsUndelivered
  <2>4. ASSUME NEW p \in Reqs, InFlight(p)'
        PROVE  /\ InFlight(p) /\ call'[p].sent = call[p].sent
               /\ call'[p].new = call[p].new
               /\ HasNew(call[p], pc[p])' => HasNew(call[p], pc[p])
    BY <2>1, <2>4, MovesKeepTokens DEF SameTokens
  <2> QED
    BY <2>2, <2>3, <2>4 DEF Undelivered
<1>3. ASSUME NEW r \in Reqs, IssueTokens(r)
      PROVE  Undelivered'
  <2>1. PICK n, f, step : Issued(r, n, f, step)
    BY <1>3, IssueGoes
  <2>2. jar' = jar
    BY <1>3 DEF IssueTokens
  <2>3. pc'[r] = step /\ call'[r] = f /\ f.new = n /\ f.sent = call[r].sent /\ InFlight(r)
    BY <2>1, StepNames DEF Issued, GotoWith, TypeOK, InFlight
  <2>4. n \notin Rows \cup {0}
    BY <2>1 DEF Issued
  <2>5. \A q \in Reqs : q # r => pc'[q] = pc[q] /\ call'[q] = call[q]
    BY <2>1 DEF Issued, GotoWith, TypeOK
  <2>6. \A q \in Reqs : InFlight(q) => /\ call[q].sent \in Rows \cup {0}
                                       /\ HasNew(call[q], pc[q]) => call[q].new \in Rows
    BY FrameOf DEF Fits, InFlight
  <2>7. \A b \in Browsers : jar[b] \in Rows \cup {0}
    BY DEF TypeOK
  <2>8. ASSUME NEW q \in Reqs, q # r, InFlight(q)', HasNew(call[q], pc[q])'
        PROVE  /\ \A b \in Browsers : jar'[b] # call'[q].new
               /\ \A p \in Reqs : InFlight(p)' =>
                     /\ call'[p].sent # call'[q].new
                     /\ p # q /\ HasNew(call[p], pc[p])' => call'[p].new # call'[q].new
    <3>1. InFlight(q) /\ HasNew(call[q], pc[q]) /\ call'[q].new = call[q].new
      BY <2>5, <2>8 DEF InFlight, HasNew
    <3>2. \A p \in Reqs \ {r} : InFlight(p)' =>
            InFlight(p) /\ (HasNew(call[p], pc[p])' => HasNew(call[p], pc[p]))
      BY <2>5 DEF InFlight, HasNew
    <3> QED
      BY <2>2, <2>3, <2>4, <2>5, <2>6, <3>1, <3>2 DEF Undelivered
  <2>9. /\ \A b \in Browsers : jar'[b] # n
        /\ \A p \in Reqs : InFlight(p)' =>
              /\ call'[p].sent # n
              /\ p # r /\ HasNew(call[p], pc[p])' => call'[p].new # n
    <3>1. \A p \in Reqs \ {r} : InFlight(p)' =>
            InFlight(p) /\ (HasNew(call[p], pc[p])' => HasNew(call[p], pc[p]))
      BY <2>5 DEF InFlight, HasNew
    <3> QED
      BY <2>2, <2>3, <2>4, <2>5, <2>6, <2>7, <3>1
  <2> QED
    BY <2>3, <2>8, <2>9 DEF Undelivered
<1>4. ASSUME NEW r \in Reqs, Receive(r)
      PROVE  Undelivered'
  <2>1. PICK f, step : FirstFrame(r, f, step)
    BY <1>4, ReceiveGoes
  <2>2. jar' = jar
    BY <1>4 DEF Receive
  <2>3. pc'[r] = step /\ call'[r] = f /\ ~HasNew(f, step)
    BY <2>1, StepNames DEF FirstFrame, GotoWith, TypeOK, HasNew
  <2>4. \A q \in Reqs : q # r => pc'[q] = pc[q] /\ call'[q] = call[q]
    BY <2>1 DEF FirstFrame, GotoWith, TypeOK
  <2>5. \A q \in Reqs : InFlight(q) /\ HasNew(call[q], pc[q]) => call[q].new \in Rows
    BY FrameOf DEF Fits, InFlight
  <2>6. 0 \notin Rows /\ (f.sent # 0 => \E b \in Browsers : f.sent = jar[b])
    BY <2>1, TokenRows DEF FirstFrame
  <2>7. ASSUME NEW q \in Reqs, InFlight(q)', HasNew(call[q], pc[q])'
        PROVE  q # r /\ InFlight(q) /\ HasNew(call[q], pc[q]) /\ call'[q] = call[q]
    BY <2>3, <2>4, <2>7 DEF InFlight, HasNew
  <2>8. ASSUME NEW p \in Reqs, InFlight(p)'
        PROVE  p = r \/ (p # r /\ InFlight(p) /\ call'[p] = call[p])
    BY <2>4, <2>8 DEF InFlight
  <2> QED
    BY <2>2, <2>3, <2>5, <2>6, <2>7, <2>8 DEF Undelivered
<1>5. ASSUME NEW i \in Rows, Expire(i)
      PROVE  Undelivered'
  BY <1>5 DEF Expire, Undelivered, InFlight, HasNew
<1> QED
  BY <1>1, <1>2, <1>3, <1>4, <1>5 DEF Next, AllAnswered, Handle

\* A link from i to k that leads on.
Leads(i, k) ==
    /\ k \in Rows
    /\ token[k].owner = token[i].owner
    /\ \E j \in i + 1 .. k : token[j].from = i

\* A new token that was swept before its handler looked it up was swept with
\* everything older.
SweptAtOnce(f) ==
    token[f.new].revoked =>
        \A i \in Rows : i <= f.new /\ token[i].owner = f.owner => token[i].revoked

LinksLead ==
    /\ \A i \in Rows : token[i].by # 0 => Leads(i, token[i].by)
    /\ \A r \in Reqs : At(r, "refresh", "link") => SweptAtOnce(call[r])
    /\ \A r \in Reqs : At(r, "refresh", "revoke") /\ call[r].link # 0 =>
          Leads(call[r].sent, call[r].link)
    /\ \A r \in Reqs : InFlight(r) /\ pc[r] \notin {"revoke", "reply"} => call[r].link = 0

\* What leads on goes on leading on.
LEMMA StillLeads ==
    ASSUME TypeOK, TableKept, NEW i \in Rows, NEW k, Leads(i, k)
    PROVE  Leads(i, k)'
<1>1. \A j \in i + 1 .. k : j \in Rows
  BY TokenRows DEF Leads
<1> QED
  BY <1>1 DEF Leads, TableKept, Same

\* A step that keeps the table keeps what the other handlers are about to link.
LEMMA OthersLink ==
    ASSUME TypeOK, TableKept, LinksLead, NEW q \in Reqs,
           pc'[q] = pc[q], call'[q] = call[q]
    PROVE  /\ At(q, "refresh", "revoke")' /\ call'[q].link # 0 =>
                 Leads(call[q].sent, call[q].link)'
           /\ InFlight(q)' /\ pc'[q] \notin {"revoke", "reply"} => call'[q].link = 0
<1>1. PICK f : f = call[q]
  OBVIOUS
<1>2. CASE At(q, "refresh", "revoke")
  <2>1. f.sent \in Rows
    BY <1>1, <1>2, FrameOf, StepNames DEF At, Fits
  <2>2. f.link # 0 => Leads(f.sent, f.link)
    BY <1>1, <1>2 DEF LinksLead
  <2>3. f.link # 0 => Leads(f.sent, f.link)'
    BY <2>1, <2>2, StillLeads
  <2> QED
    BY <1>1, <1>2, <2>3 DEF At, Leads
<1>3. CASE ~At(q, "refresh", "revoke")
  BY <1>3 DEF At, LinksLead, InFlight
<1> QED
  BY <1>2, <1>3 DEF At, LinksLead, InFlight

\* Rows that are not written to, or marked in a sweep or for a handler whose
\* tokens are nobody's new ones, were swept at once as before.
LEMMA StillSwept ==
    ASSUME TypeOK, TokensMatch, Undelivered, LinksLead, NEW q \in Reqs,
           pc'[q] = pc[q], call'[q] = call[q], At(q, "refresh", "link"),
           NEW S, NEW by, Marks(S, by),
           \/ \A s \in S : s # call[q].new
           \/ \A i \in Rows : token[i].owner = call[q].owner => i \in S
    PROVE  SweptAtOnce(call[q])'
<1>1. PICK f : f = call[q]
  OBVIOUS
<1>2. f.new \in Rows /\ SweptAtOnce(f)
  BY <1>1, FrameOf, StepNames DEF At, Fits, HasNew, LinksLead
<1>3. Rows' = Rows /\ \A i \in Rows : /\ token'[i].owner = token[i].owner
                                      /\ token'[i].revoked = (token[i].revoked \/ i \in S)
  BY DEF Marks, Same
<1> QED
  BY ZenonT(40), <1>1, <1>2, <1>3 DEF SweptAtOnce

\* A handler marks rows and answers.
LEMMA MarkingLinks ==
    ASSUME AccountsAssumption, TypeOK, TokensMatch, Undelivered, LinksLead, NEW r \in Reqs,
           NEW S, NEW by, Marks(S, by),
           by # 0 => \A i \in S \cap Rows : Leads(i, by),
           \A q \in Reqs : q # r /\ At(q, "refresh", "link") =>
              \/ \A s \in S : s # call[q].new
              \/ \A i \in Rows : token[i].owner = call[q].owner => i \in S,
           NEW step \in {"reply"} \cup Answers, NEW f, GotoWith(r, step, f)
    PROVE  LinksLead'
<1>1. TableKept
  BY MarksKeep
<1>2. /\ Rows' = Rows
      /\ \A i \in Rows : token'[i].by = IF i \in S /\ by # 0 THEN by ELSE token[i].by
  BY DEF Marks
<1>3. ASSUME NEW i \in Rows', token'[i].by # 0
      PROVE  Leads(i, token[i].by)'
  <2>0. i \in Rows
    BY <1>2
  <2>1. PICK k : k = token'[i].by
    OBVIOUS
  <2>2. Leads(i, k)
    BY <1>2, <1>3, <2>0, <2>1 DEF LinksLead
  <2>3. Leads(i, k)'
    BY <1>1, <2>0, <2>2, StillLeads
  <2> QED
    BY <2>1, <2>3 DEF Leads
<1>4. /\ pc'[r] \notin Steps \ {"reply"}
      /\ \A q \in Reqs : q # r => pc'[q] = pc[q] /\ call'[q] = call[q]
  BY StepNames DEF GotoWith, TypeOK
<1>5. ASSUME NEW q \in Reqs
      PROVE  /\ At(q, "refresh", "link")' => SweptAtOnce(call[q])'
             /\ At(q, "refresh", "revoke")' /\ call'[q].link # 0
                => Leads(call[q].sent, call[q].link)'
             /\ InFlight(q)' /\ pc'[q] \notin {"revoke", "reply"} => call'[q].link = 0
  <2>1. CASE q = r
    BY <1>4, <2>1, StepNames DEF At, InFlight
  <2>2. CASE q # r
    <3>1. pc'[q] = pc[q] /\ call'[q] = call[q]
      BY <1>4, <2>2
    <3>2. At(q, "refresh", "link")' => SweptAtOnce(call[q])'
      BY <2>2, <3>1, StillSwept DEF At
    <3> QED
      BY <1>1, <3>1, <3>2, OthersLink
  <2> QED
    BY <2>1, <2>2
<1> QED
  BY <1>3, <1>5 DEF LinksLead

\* RevokeOld writes the link its handler found; a sweep takes all of a user's
\* tokens at once.
LEMMA WritesLink ==
    ASSUME AccountsAssumption, TypeOK, TokensMatch, Undelivered, LinksLead, NEW r \in Reqs,
           SweepFamily(r) \/ RevokeOld(r) \/ RevokeOnLogout(r)
    PROVE  LinksLead'
<1>1. \A q \in Reqs : At(q, "refresh", "link") =>
        /\ InFlight(q) /\ HasNew(call[q], pc[q])
        /\ token[call[q].new].owner = call[q].owner
  BY StepNames DEF At, InFlight, HasNew, TokensMatch, Belongs
<1>2. CASE SweepFamily(r)
  <2>1. PICK p : p = call[r].owner
    OBVIOUS
  <2>2. PICK S : S = {i \in Rows : token[i].owner = p}
    OBVIOUS
  <2>3. Marks(S, 0) /\ GotoWith(r, "refused", call[r])
    BY ZenonT(40), <1>2, <2>1, <2>2, SweepMarks DEF SweepFamily, Goto
  <2>4. \A q \in Reqs : q # r /\ At(q, "refresh", "link") =>
              \/ \A s \in S : s # call[q].new
              \/ \A i \in Rows : token[i].owner = call[q].owner => i \in S
    BY <1>1, <2>2
  <2> QED
    BY <2>3, <2>4, MarkingLinks DEF Answers
<1>3. CASE RevokeOld(r) \/ RevokeOnLogout(r)
  <2>1. PICK s, k : s = call[r].sent /\ k = IF RevokeOld(r) THEN call[r].link ELSE 0
    OBVIOUS
  <2>2. Marks({s}, k) /\ GotoWith(r, "reply", call[r])
    BY <1>3, <2>1, RevokeOldMarks, LogoutMarks DEF RevokeOld, RevokeOnLogout, Goto
  <2>3. k # 0 => Leads(s, k)
    BY <2>1 DEF RevokeOld, LinksLead
  <2>4. InFlight(r)
    BY <1>3, StepNames DEF RevokeOld, RevokeOnLogout, At, InFlight
  <2>5. \A q \in Reqs : q # r /\ At(q, "refresh", "link") => s # call[q].new
    BY <1>1, <2>1, <2>4 DEF Undelivered
  <2> QED
    BY <2>2, <2>3, <2>5, MarkingLinks
<1> QED
  BY <1>2, <1>3

\* The newest live token is the new one or younger; none older is live if the
\* new one is not.
LEMMA FoundLeads ==
    ASSUME AccountsAssumption, TypeOK, TokensMatch, LinksLead, NEW r \in Reqs,
           At(r, "refresh", "link"),
           NEW k \in LiveTokens(call[r].owner),
           \A j \in LiveTokens(call[r].owner) : j <= k
    PROVE  Leads(call[r].sent, k)
<1> DEFINE f == call[r]
<1>1. InFlight(r) /\ Fits(f, "link") /\ Belongs(f, "link")
  BY FrameOf, StepNames DEF At, InFlight, TokensMatch
<1>2. /\ f.new \in Rows /\ f.sent \in Rows /\ f.sent < f.new
      /\ token[f.new].owner = f.owner /\ token[f.sent].owner = f.owner
      /\ token[f.new].from = f.sent
  BY <1>1 DEF At, Fits, Belongs, HasNew
<1>3. k \in Rows /\ token[k].owner = f.owner /\ ~token[k].revoked
  BY DEF LiveTokens
<1>4. f.new <= k
  <2>1. CASE token[f.new].revoked
    BY <1>2, <1>3, <2>1, TokenRows DEF LinksLead, SweptAtOnce
  <2>2. CASE ~token[f.new].revoked
    BY <1>2, <2>2 DEF LiveTokens
  <2> QED
    BY <2>1, <2>2
<1>5. f.new \in f.sent + 1 .. k
  BY <1>2, <1>3, <1>4, TokenRows
<1> QED
  BY <1>2, <1>3, <1>5 DEF Leads

\* A handler that does not write the table goes on.
LEMMA UnwrittenLinks ==
    ASSUME AccountsAssumption, TypeOK, TokensMatch, LinksLead, NEW r \in Reqs,
           UNCHANGED token, NEW step, NEW f, GotoWith(r, step, f),
           step = "link" => f.op # "refresh",
           step = "revoke" /\ f.op = "refresh" /\ f.link # 0 => Leads(f.sent, f.link),
           step \in Steps /\ step \notin {"revoke", "reply"} => f.link = 0
    PROVE  LinksLead'
<1>1. pc'[r] = step /\ (step \in Steps => call'[r] = f)
  BY StepNames DEF GotoWith, TypeOK
<1>2. \A q \in Reqs : q # r => pc'[q] = pc[q] /\ call'[q] = call[q]
  BY DEF GotoWith, TypeOK
<1>3. ASSUME NEW q \in Reqs
      PROVE  /\ At(q, "refresh", "link")' => SweptAtOnce(call[q])'
             /\ At(q, "refresh", "revoke")' /\ call'[q].link # 0
                => Leads(call[q].sent, call[q].link)'
             /\ InFlight(q)' /\ pc'[q] \notin {"revoke", "reply"} => call'[q].link = 0
  <2>1. CASE q = r
    <3>1. ~At(q, "refresh", "link")'
      BY <1>1, <2>1, StepNames DEF At
    <3>2. At(q, "refresh", "revoke")' => /\ step = "revoke" /\ step \in Steps
                                         /\ call'[q] = f /\ f.op = "refresh"
      BY <1>1, <2>1, StepNames DEF At
    <3>3. At(q, "refresh", "revoke")' /\ call'[q].link # 0
          => Leads(call[q].sent, call[q].link)'
      BY <3>2 DEF Leads, Rows
    <3>4. InFlight(q)' /\ pc'[q] \notin {"revoke", "reply"} => call'[q].link = 0
      BY <1>1, <2>1 DEF InFlight
    <3> QED
      BY <3>1, <3>3, <3>4
  <2>2. CASE q # r
    BY <1>2, <2>2, UnwrittenKept, OthersLink DEF At, SweptAtOnce, LinksLead, Rows
  <2> QED
    BY <2>1, <2>2
<1> QED
  BY <1>3 DEF LinksLead, Leads, Rows

\* Lookups and answers leave the links as they are.
LEMMA LookupsLink ==
    ASSUME AccountsAssumption, TypeOK, TokensMatch, LinksLead, NEW r \in Reqs,
           \/ CheckFree(r) \/ CreateUser(r) \/ CheckName(r) \/ UpdateName(r)
           \/ FindUser(r) \/ LoadUser(r) \/ Consume(r) \/ Reply(r) \/ Lose(r)
    PROVE  LinksLead'
<1>1. PICK step, f : pc[r] \in Steps /\ Moves(r, step, f)
  BY HandlerMoves, StepNames DEF Handle, CheckFree, CreateUser, CheckName, UpdateName,
     FindUser, LoadUser, Consume, Reply, Lose, IssueTokens, At
<1>2. UNCHANGED token /\ pc[r] # "issue"
  BY DEF CheckFree, CreateUser, CheckName, UpdateName, FindUser, LoadUser, Consume, Reply,
     Lose, At
<1>3. pc'[r] \notin {"link", "revoke"} /\ pc[r] \notin {"link", "revoke"}
  BY StepNames DEF CheckFree, CreateUser, CheckName, UpdateName, FindUser, LoadUser,
     Consume, Reply, Lose, At, Goto, GotoWith, TypeOK
<1>4. step = pc'[r]
  BY <1>1 DEF Moves, GotoWith, TypeOK
<1>5. pc[r] = "reply" => step \notin Steps
  BY <1>4, StepNames DEF CheckFree, CreateUser, CheckName, UpdateName, FindUser, LoadUser,
     Consume, Reply, Lose, At, Goto, GotoWith, TypeOK, Answers
<1>6. step \in Steps /\ step \notin {"revoke", "reply"} => f.link = 0
  BY <1>1, <1>3, <1>5 DEF Moves, LinksLead, InFlight
<1> QED
  BY SMTT(30), <1>1, <1>2, <1>3, <1>4, <1>6, UnwrittenLinks DEF Moves

\* What FindNewest finds may be linked to.
LEMMA FindNewestLinks ==
    ASSUME AccountsAssumption, TypeOK, TokensMatch, LinksLead, NEW r \in Reqs,
           FindNewest(r)
    PROVE  LinksLead'
<1>1. /\ UNCHANGED token /\ At(r, "refresh", "link") /\ InFlight(r) /\ pc[r] = "link"
      /\ call[r] \in Frame
  BY FrameOf, StepNames DEF FindNewest, At, InFlight, Fits
<1>2. CASE Goto(r, "revoke")
  <2>1. call[r].link = 0
    BY <1>1 DEF LinksLead
  <2> QED
    BY <1>1, <1>2, <2>1, UnwrittenLinks DEF Goto
<1>3. CASE ~Goto(r, "revoke")
  <2>1. PICK k \in LiveTokens(call[r].owner) :
          /\ \A j \in LiveTokens(call[r].owner) : j <= k
          /\ GotoWith(r, "revoke", [call[r] EXCEPT !.link = k])
    BY <1>3 DEF FindNewest
  <2>2. PICK f : f = [call[r] EXCEPT !.link = k]
    OBVIOUS
  <2>3. f.sent = call[r].sent /\ f.link = k
    BY <1>1, <2>2 DEF Frame
  <2>4. Leads(f.sent, f.link)
    BY <1>1, <2>1, <2>3, FoundLeads
  <2> QED
    BY <1>1, <2>1, <2>2, <2>4, UnwrittenLinks
<1> QED
  BY <1>2, <1>3

\* A token that has just been issued is good and links to nothing.
LEMMA IssueLinks ==
    ASSUME AccountsAssumption, TypeOK, TokensMatch, LinksLead, NEW r \in Reqs,
           IssueTokens(r)
    PROVE  LinksLead'
<1>1. PICK n, f, step : Issued(r, n, f, step)
  BY IssueGoes
<1>2. TableKept
  BY <1>1 DEF Issued, TableKept, Same
<1>3. /\ pc'[r] = step /\ call'[r] = f
      /\ \A q \in Reqs : q # r => pc'[q] = pc[q] /\ call'[q] = call[q]
  BY <1>1, StepNames DEF Issued, GotoWith, TypeOK
<1>4. ASSUME NEW i \in Rows', token'[i].by # 0
      PROVE  Leads(i, token[i].by)'
  <2>1. i \in Rows /\ token'[i] = token[i]
    BY <1>1, <1>4 DEF Issued
  <2>2. PICK k : k = token[i].by
    OBVIOUS
  <2>3. Leads(i, k)
    BY <1>4, <2>1, <2>2 DEF LinksLead
  <2>4. Leads(i, k)'
    BY <1>2, <2>1, <2>3, StillLeads
  <2> QED
    BY <2>1, <2>2, <2>4 DEF Leads
<1>5. ASSUME NEW q \in Reqs
      PROVE  /\ At(q, "refresh", "link")' => SweptAtOnce(call[q])'
             /\ At(q, "refresh", "revoke")' /\ call'[q].link # 0
                => Leads(call[q].sent, call[q].link)'
             /\ InFlight(q)' /\ pc'[q] \notin {"revoke", "reply"} => call'[q].link = 0
  <2>1. CASE q = r
    <3>1. ~At(q, "refresh", "revoke")'
      BY <1>1, <1>3, <2>1 DEF Issued, At
    <3>2. SweptAtOnce(call[q])'
      BY <1>1, <1>3, <2>1 DEF Issued, SweptAtOnce
    <3>3. f.link = 0
      BY <1>1 DEF Issued, LinksLead, InFlight, Steps, StepsOf, Operations
    <3> QED
      BY <1>3, <2>1, <3>1, <3>2, <3>3
  <2>2. CASE q # r
    <3>1. At(q, "refresh", "link")' => SweptAtOnce(call[q])'
      <4> SUFFICES ASSUME At(q, "refresh", "link")'
                   PROVE  SweptAtOnce(call[q])'
        OBVIOUS
      <4>1. PICK g : g = call[q]
        OBVIOUS
      <4>2. g.new \in Rows /\ SweptAtOnce(g) /\ call'[q] = g
        BY <1>3, <2>2, <4>1, FrameOf, StepNames DEF At, Fits, HasNew, LinksLead
      <4>3. \A i \in Rows' : i <= g.new => i \in Rows /\ token'[i] = token[i]
        BY <1>1, <4>2 DEF Issued
      <4> QED
        BY <1>1, <4>2, <4>3 DEF SweptAtOnce, Issued
    <3> QED
      BY <1>2, <1>3, <2>2, <3>1, OthersLink
  <2> QED
    BY <2>1, <2>2
<1> QED
  BY <1>4, <1>5 DEF LinksLead

\* A request that arrives has found no token yet.
LEMMA ReceiveLinks ==
    ASSUME AccountsAssumption, TypeOK, TokensMatch, LinksLead, NEW r \in Reqs, Receive(r)
    PROVE  LinksLead'
<1>1. PICK f, step : FirstFrame(r, f, step)
  BY ReceiveGoes
<1> QED
  BY <1>1, UnwrittenLinks DEF FirstFrame, Receive

\* Expiry leaves the links as they are.
LEMMA ExpireLinks ==
    ASSUME AccountsAssumption, TypeOK, LinksLead, NEW i \in Rows, Expire(i)
    PROVE  LinksLead'
<1>1. /\ Rows' = Rows
      /\ \A j \in Rows : Same(j) /\ token'[j].by = token[j].by
      /\ UNCHANGED <<pc, call>>
  BY ExpireMarks DEF Expire
<1>2. ASSUME NEW j \in Rows, token[j].by # 0
      PROVE  Leads(j, token[j].by)'
  <2>1. PICK k : k = token[j].by
    OBVIOUS
  <2>2. Leads(j, k)
    BY <1>2, <2>1 DEF LinksLead
  <2>3. \A m \in j + 1 .. k : m \in Rows
    BY <2>2, TokenRows DEF Leads
  <2> QED
    BY <1>1, <2>1, <2>2, <2>3 DEF Leads, Same
<1>3. \A q \in Reqs : InFlight(q) => pc[q] = "consume"
  BY DEF Expire
<1> QED
  BY <1>1, <1>2, <1>3, StepNames DEF LinksLead, At, InFlight

\* In the first states there are no links and no handlers.
LEMMA InitLinks ==
    ASSUME AccountsAssumption, Init
    PROVE  LinksLead /\ Undelivered
<1>a. PICK n \in 0 .. Cardinality(Browsers) :
        \E place \in [1 .. n -> Browsers], who \in [1 .. n -> People] :
          /\ \A i, j \in 1 .. n : place[i] = place[j] => i = j
          /\ \A i \in 1 .. n : account[who[i]] # None
          /\ token = LoginTokens(n, place, who)
          /\ jar \in [Browsers -> 0 .. n]
          /\ \A b \in Browsers, i \in 1 .. n : jar[b] = i <=> place[i] = b
  BY Zenon DEF Init
<1>1. PICK place \in [1 .. n -> Browsers], who \in [1 .. n -> People] :
        token = LoginTokens(n, place, who)
  BY <1>a
<1>2. \A i \in Rows : token[i].by = 0
  BY <1>1 DEF LoginTokens, Rows
<1>3. \A r \in Reqs : pc[r] \notin Steps
  BY StepNames DEF Init
<1> QED
  BY <1>2, <1>3, StepNames DEF LinksLead, Undelivered, At, InFlight

\* Every step keeps the links leading on.
LEMMA StepLinks ==
    ASSUME AccountsAssumption, TypeOK, TokensMatch, Undelivered, LinksLead, [Next]_vars
    PROVE  LinksLead'
<1>1. CASE UNCHANGED vars
  BY <1>1 DEF vars, LinksLead, InFlight, At, Leads, SweptAtOnce, Rows
<1>2. ASSUME NEW r \in Reqs, Receive(r) \/ Handle(r) \/ Reply(r) \/ Lose(r)
      PROVE  LinksLead'
  BY <1>2, ReceiveLinks, LookupsLink, FindNewestLinks, IssueLinks, WritesLink DEF Handle
<1>3. ASSUME NEW i \in Rows, Expire(i)
      PROVE  LinksLead'
  BY <1>3, ExpireLinks
<1> QED
  BY <1>1, <1>2, <1>3 DEF Next, AllAnswered

\* The link written for the audit leads from a rotated token to a younger one of
\* the same user, no older than its first replacement, whatever logins, logouts
\* and sweeps come between the steps of the rotation (AuthService.refresh,
\* TokenService.revokeToken).
THEOREM LinksLeadOn ==
    ASSUME AccountsAssumption
    PROVE  Spec => []LinkLeadsOn
<1>1. Init => TokensMatch /\ Undelivered /\ LinksLead
  BY InitMatches, InitLinks
<1>2. TypeOK /\ TokensMatch /\ Undelivered /\ LinksLead /\ [Next]_vars
      => (TokensMatch /\ Undelivered /\ LinksLead)'
  BY StepMatches, StepUndelivered, StepLinks
<1>3. LinksLead => LinkLeadsOn
  BY DEF LinksLead, LinkLeadsOn, Leads
<1> QED
  BY <1>1, <1>2, <1>3, AccountsTypeCorrect, PTL DEF Spec

-----------------------------------------------------------------------------
(* Sessions survive.                                                        *)

\* A careful browser waits for its answer.
OneAtATime ==
    \A b \in careful, q, r \in Reqs : Uses(q, b) /\ Uses(r, b) => q = r

\* A token that is good, or its user was seen in a reckless browser.
Good(i) == ~token[i].revoked \/ Reckless(token[i].owner)

\* Only a reckless user's tokens are swept, and the tokens of a careful browser
\* are good until the handler that replaces them is about to answer.
SessionsGood ==
    /\ \A b \in careful : jar[b] # 0 =>
          \/ Good(jar[b])
          \/ \E r \in Reqs : Uses(r, b) /\ pc[r] = "reply"
    /\ \A r \in Reqs : InFlight(r) /\ call[r].browser \in careful =>
          /\ pc[r] = "consume" /\ call[r].sent # 0 => Good(call[r].sent)
          /\ HasNew(call[r], pc[r]) => Good(call[r].new)
    /\ \A r \in Reqs : At(r, "refresh", "sweep") => Reckless(token[call[r].sent].owner)

\* Nobody becomes careful again.
LEMMA StillReckless ==
    ASSUME TypeOK, TableKept, UNCHANGED careful, NEW p, Reckless(p)
    PROVE  Reckless(p)'
BY DEF TableKept, Same, Reckless

\* A token stays good when only reckless users' tokens are revoked.
LEMMA StillGood ==
    ASSUME TypeOK, TableKept, UNCHANGED careful, NEW i \in Rows, Good(i),
           token'[i].revoked => token[i].revoked \/ Reckless(token[i].owner)
    PROVE  Good(i)'
<1>1. PICK p : p = token[i].owner /\ p = token'[i].owner
  BY DEF TableKept, Same
<1>2. ~token'[i].revoked \/ Reckless(p)
  BY <1>1 DEF Good
<1>3. ~token'[i].revoked \/ Reckless(p)'
  BY <1>2, StillReckless
<1> QED
  BY <1>1, <1>3 DEF Good, Reckless

\* Careful browsers are browsers.
LEMMA CarefulBrowsers ==
    ASSUME AccountsAssumption, TypeOK
    PROVE  careful \subseteq Browsers
BY DEF AccountsAssumption, TypeOK

\* Every step leaves a careful browser at most one request.
LEMMA StepOneAtATime ==
    ASSUME AccountsAssumption, TypeOK, OneAtATime, [Next]_vars
    PROVE  OneAtATime'
<1>1. CASE UNCHANGED vars
  BY <1>1 DEF vars, OneAtATime, Uses, InFlight
<1>2. ASSUME NEW r \in Reqs, Handle(r) \/ Reply(r) \/ Lose(r)
      PROVE  OneAtATime'
  <2>1. careful' = careful
    BY <1>2 DEF Handle, CheckFree, CreateUser, CheckName, UpdateName, FindUser, LoadUser,
       IssueTokens, Consume, SweepFamily, FindNewest, RevokeOld, RevokeOnLogout, Reply, Lose
  <2>2. ASSUME NEW q \in Reqs, InFlight(q)'
        PROVE  InFlight(q) /\ call'[q].browser = call[q].browser
    <3>1. CASE IssueTokens(r)
      <4>1. PICK n, f, step : Issued(r, n, f, step)
        BY <3>1, IssueGoes
      <4>2. InFlight(r) /\ call'[r] = f /\ f.browser = call[r].browser
        BY <4>1, StepNames DEF Issued, GotoWith, TypeOK, InFlight
      <4>3. q # r => pc'[q] = pc[q] /\ call'[q] = call[q]
        BY <4>1 DEF Issued, GotoWith, TypeOK
      <4> QED
        BY <2>2, <4>2, <4>3 DEF InFlight
    <3>2. CASE ~IssueTokens(r)
      <4>1. PICK step, f : pc[r] \in Steps /\ Moves(r, step, f)
        BY <1>2, <3>2, HandlerMoves
      <4> QED
        BY <2>2, <4>1, MovesKeepTokens DEF SameTokens
    <3> QED
      BY <3>1, <3>2
  <2> QED
    BY <2>1, <2>2 DEF OneAtATime, Uses
<1>3. ASSUME NEW r \in Reqs, Receive(r)
      PROVE  OneAtATime'
  <2>1. PICK f, step : FirstFrame(r, f, step)
    BY <1>3, ReceiveGoes
  <2>2. /\ careful' = careful /\ call'[r] = f
        /\ \A q \in Reqs : q # r => pc'[q] = pc[q] /\ call'[q] = call[q]
    BY <1>3, <2>1, StepNames DEF FirstFrame, GotoWith, TypeOK, Receive
  <2>3. f.browser \in careful => \A q \in Reqs : ~Uses(q, f.browser)
    BY <2>1 DEF FirstFrame
  <2> QED
    BY <2>2, <2>3 DEF OneAtATime, Uses, InFlight
<1>4. ASSUME NEW i \in Rows, Expire(i)
      PROVE  OneAtATime'
  BY <1>4 DEF Expire, OneAtATime, Uses, InFlight
<1> QED
  BY <1>1, <1>2, <1>3, <1>4 DEF Next, AllAnswered

\* A handler goes on, and the rows of S are revoked with those of reckless users:
\* what the others hold stays good when they hold none of S.
LEMMA MovesGood ==
    ASSUME AccountsAssumption, TypeOK, SessionsGood, NEW r \in Reqs,
           pc[r] \in Steps, pc[r] # "reply", NEW step, NEW f, Moves(r, step, f),
           UNCHANGED <<jar, careful>>, TableKept, NEW S,
           \A i \in Rows : token'[i].revoked =>
              token[i].revoked \/ Reckless(token[i].owner) \/ i \in S,
           \A b \in careful : jar[b] # 0 /\ jar[b] \in S =>
              call[r].browser = b /\ step = "reply",
           \A q \in Reqs : InFlight(q) /\ call[q].browser \in careful =>
              /\ pc[q] = "consume" => call[q].sent \notin S
              /\ HasNew(call[q], pc[q]) => call[q].new \notin S,
           step = "sweep" => call[r].sent \in Rows /\ Reckless(token[call[r].sent].owner)
    PROVE  SessionsGood'
<1>1. ASSUME NEW i \in Rows, Good(i), i \notin S
      PROVE  Good(i)'
  BY <1>1, StillGood
<1>2. /\ pc'[r] = step /\ (step \in Steps => call'[r] = f)
      /\ \A q \in Reqs : q # r => pc'[q] = pc[q] /\ call'[q] = call[q]
  BY StepNames DEF Moves, GotoWith, TypeOK
<1>3. ASSUME NEW b \in careful, jar[b] # 0
      PROVE  \/ Good(jar[b])'
             \/ \E q \in Reqs : Uses(q, b)' /\ pc'[q] = "reply"
  <2>0. PICK i \in Rows : i = jar[b]
    BY <1>3, CarefulBrowsers DEF TypeOK
  <2>1. CASE i \in S
    <3>1. step = "reply" /\ f.browser = b
      BY <2>0, <2>1, <1>3, StepNames DEF Moves, SameTokens
    <3> QED
      BY <1>2, <3>1, StepNames DEF Uses, InFlight
  <2>2. CASE i \notin S /\ Good(i)
    BY <1>1, <2>0, <2>2 DEF Good, Reckless, Rows
  <2>3. CASE ~Good(i)
    <3>1. PICK q \in Reqs : Uses(q, b) /\ pc[q] = "reply"
      BY <1>3, <2>0, <2>3 DEF SessionsGood
    <3> QED
      BY <1>2, <3>1 DEF Uses, InFlight
  <2> QED
    BY <2>1, <2>2, <2>3
<1>4. ASSUME NEW q \in Reqs, InFlight(q)', call'[q].browser \in careful
      PROVE  /\ pc'[q] = "consume" /\ call'[q].sent # 0 => Good(call[q].sent)'
             /\ HasNew(call[q], pc[q])' => Good(call[q].new)'
  <2>1. PICK s, n : s = call[q].sent /\ n = call[q].new
    OBVIOUS
  <2>2. /\ InFlight(q) /\ call'[q].sent = s /\ call'[q].new = n
        /\ call[q].browser \in careful
        /\ HasNew(call[q], pc[q])' => HasNew(call[q], pc[q])
    BY <1>4, <2>1, MovesKeepTokens DEF SameTokens
  <2>3. s \in Rows \cup {0} /\ (HasNew(call[q], pc[q]) => n \in Rows)
    BY <2>1, <2>2, FrameOf DEF InFlight, Fits
  <2>4. pc'[q] = "consume" => pc[q] = "consume"
    BY <1>2 DEF Moves, Answers
  <2>5. pc'[q] = "consume" /\ s # 0 => Good(s)'
    BY <1>1, <2>1, <2>2, <2>3, <2>4 DEF SessionsGood
  <2>6. HasNew(call[q], pc[q])' => Good(n)'
    BY <1>1, <2>1, <2>2, <2>3 DEF SessionsGood
  <2> QED
    BY <2>2, <2>5, <2>6 DEF Good, Reckless, Rows
<1>5. ASSUME NEW q \in Reqs, At(q, "refresh", "sweep")'
      PROVE  Reckless(token[call[q].sent].owner)'
  <2>1. PICK s : s = call[q].sent
    OBVIOUS
  <2>2. call'[q].sent = s /\ s \in Rows /\ Reckless(token[s].owner)
    <3>1. CASE q = r
      BY <1>2, <1>5, <2>1, <3>1, StepNames DEF At, Moves, SameTokens
    <3>2. CASE q # r
      BY <1>2, <1>5, <2>1, <3>2, FrameOf, StepNames DEF At, Fits, SessionsGood
    <3> QED
      BY <3>1, <3>2
  <2>3. PICK p : p = token[s].owner /\ p = token'[s].owner
    BY <2>2 DEF TableKept, Same
  <2>4. Reckless(p)'
    BY <2>2, <2>3, StillReckless
  <2> QED
    BY <2>2, <2>3, <2>4 DEF Reckless
<1> QED
  BY <1>3, <1>4, <1>5 DEF SessionsGood

\* A used token that was revoked belongs to a reckless user.
LEMMA SweepsReckless ==
    ASSUME AccountsAssumption, TypeOK, TokensMatch, SessionsGood, NEW r \in Reqs,
           Consume(r), call[r].sent \in Rows, token[call[r].sent].revoked
    PROVE  Reckless(token[call[r].sent].owner)
<1> DEFINE s == call[r].sent
<1>1. InFlight(r) /\ pc[r] = "consume" /\ call[r].sent # 0
  BY TokenRows, StepNames DEF Consume, At, InFlight
<1>2. token[s].browser = call[r].browser
  BY <1>1 DEF TokensMatch, Belongs
<1>3. CASE call[r].browser \in careful
  BY <1>1, <1>3 DEF SessionsGood, Good
<1>4. CASE call[r].browser \notin careful
  BY <1>2, <1>4 DEF Reckless
<1> QED
  BY <1>3, <1>4

\* Handlers that write no token keep the sessions good.
LEMMA LookupsGood ==
    ASSUME AccountsAssumption, TypeOK, TokensMatch, SessionsGood, NEW r \in Reqs,
           \/ CheckFree(r) \/ CreateUser(r) \/ CheckName(r) \/ UpdateName(r)
           \/ FindUser(r) \/ LoadUser(r) \/ Consume(r) \/ FindNewest(r)
    PROVE  SessionsGood'
<1>1. PICK step, f : pc[r] \in Steps /\ Moves(r, step, f)
  BY HandlerMoves, StepNames DEF Handle, CheckFree, CreateUser, CheckName, UpdateName,
     FindUser, LoadUser, Consume, FindNewest, IssueTokens, At
<1>2. UNCHANGED <<token, jar, careful>> /\ pc[r] # "reply"
  BY DEF CheckFree, CreateUser, CheckName, UpdateName, FindUser, LoadUser, Consume,
     FindNewest, At
<1>3. TableKept /\ Rows' = Rows
  BY <1>2, UnwrittenKept DEF Rows
<1>4. step = "sweep" => call[r].sent \in Rows /\ Reckless(token[call[r].sent].owner)
  <2> SUFFICES ASSUME step = "sweep"
               PROVE  call[r].sent \in Rows /\ Reckless(token[call[r].sent].owner)
    OBVIOUS
  <2>1. pc'[r] = "sweep" /\ pc[r] = "consume"
    BY <1>1, StepNames DEF Moves, GotoWith, TypeOK
  <2>2. Consume(r)
    BY <2>1, StepNames DEF CheckFree, CreateUser, CheckName, UpdateName, FindUser, LoadUser,
       FindNewest, At
  <2>3. call[r].sent \in Rows /\ token[call[r].sent].revoked
    BY <2>1, <2>2 DEF Consume, Goto, GotoWith, TypeOK
  <2> QED
    BY <2>2, <2>3, SweepsReckless
<1>5. PICK S : S = {}
  OBVIOUS
<1> QED
  BY <1>1, <1>2, <1>3, <1>4, <1>5, MovesGood

\* A sweep revokes the tokens of a reckless user only.
LEMMA SweepGood ==
    ASSUME AccountsAssumption, TypeOK, TokensMatch, SessionsGood, NEW r \in Reqs,
           SweepFamily(r)
    PROVE  SessionsGood'
<1>1. PICK step, f : pc[r] \in Steps /\ Moves(r, step, f)
  BY HandlerMoves DEF Handle, SweepFamily, IssueTokens, At
<1>2. UNCHANGED <<jar, careful>> /\ pc[r] # "reply" /\ pc'[r] = "refused" /\ step = "refused"
  BY <1>1, StepNames DEF SweepFamily, At, Goto, GotoWith, TypeOK, Moves
<1>3. InFlight(r) /\ call[r].owner = token[call[r].sent].owner
  BY StepNames DEF SweepFamily, At, InFlight, TokensMatch, Belongs
<1>4. Reckless(call[r].owner)
  BY <1>3 DEF SweepFamily, SessionsGood
<1>5. Marks({i \in Rows : token[i].owner = call[r].owner}, 0)
  BY SweepMarks
<1>6. \A i \in Rows : token'[i].revoked => token[i].revoked \/ Reckless(token[i].owner)
  BY <1>4, <1>5 DEF Marks
<1>7. TableKept
  BY <1>5, MarksKeep
<1>8. PICK S : S = {}
  OBVIOUS
<1> QED
  BY <1>1, <1>2, <1>6, <1>7, <1>8, MovesGood

\* The token that is revoked is this browser's, and its handler answers next.
LEMMA RevokeGood ==
    ASSUME AccountsAssumption, TypeOK, TokensMatch, Undelivered, OneAtATime, SessionsGood,
           NEW r \in Reqs, RevokeOld(r) \/ RevokeOnLogout(r)
    PROVE  SessionsGood'
<1>1. PICK step, f : pc[r] \in Steps /\ Moves(r, step, f)
  BY HandlerMoves DEF Handle, RevokeOld, RevokeOnLogout, IssueTokens, At
<1>2. UNCHANGED <<jar, careful>> /\ pc[r] = "revoke" /\ step = "reply" /\ InFlight(r)
  BY <1>1, StepNames
  DEF RevokeOld, RevokeOnLogout, At, Goto, GotoWith, TypeOK, Moves, InFlight
<1>3. PICK s : s = call[r].sent
  OBVIOUS
<1>4. s # 0 /\ s \in Rows
  <2>1. call[r].op \in {"refresh", "logout"} /\ Fits(call[r], "revoke")
    BY <1>2, FrameOf, StepNames DEF RevokeOld, RevokeOnLogout, At
  <2>2. s \in Rows
    BY <1>3, <2>1 DEF Fits
  <2> QED
    BY <2>2, TokenRows
<1>5. token[s].browser = call[r].browser
  BY <1>2, <1>3, <1>4 DEF TokensMatch, Belongs
<1>6. \E k : Marks({s}, k)
  BY <1>3, RevokeOldMarks, LogoutMarks
<1>7. TableKept /\ \A i \in Rows : token'[i].revoked => token[i].revoked \/ i \in {s}
  <2>1. PICK k : Marks({s}, k)
    BY <1>6
  <2>2. TableKept
    BY <2>1, MarksKeep
  <2>3. \A i \in Rows : token'[i].revoked = (token[i].revoked \/ i \in {s})
    BY <2>1 DEF Marks
  <2> QED
    BY <2>2, <2>3
<1>8. \A b \in careful : jar[b] # 0 /\ jar[b] \in {s} => call[r].browser = b
  BY <1>5, CarefulBrowsers DEF TokensMatch
<1>9. ASSUME NEW q \in Reqs, InFlight(q), call[q].browser \in careful
      PROVE  /\ pc[q] = "consume" => call[q].sent \notin {s}
             /\ HasNew(call[q], pc[q]) => call[q].new \notin {s}
  <2>1. HasNew(call[q], pc[q]) => call[q].new # s
    BY <1>2, <1>3, <1>9 DEF Undelivered
  <2>2. ASSUME pc[q] = "consume", call[q].sent = s
        PROVE  FALSE
    <3>1. token[s].browser = call[q].browser
      BY <1>4, <1>9, <2>2 DEF TokensMatch, Belongs
    <3>2. q = r
      BY <1>2, <1>5, <1>9, <3>1 DEF OneAtATime, Uses
    <3> QED
      BY <1>2, <2>2, <3>2
  <2> QED
    BY <2>1, <2>2
<1> QED
  BY <1>1, <1>2, <1>7, <1>8, <1>9, MovesGood

\* A new token is good, and the others stay good.
LEMMA IssueGood ==
    ASSUME AccountsAssumption, TypeOK, SessionsGood, NEW r \in Reqs, IssueTokens(r)
    PROVE  SessionsGood'
<1>1. PICK n, f, step : Issued(r, n, f, step)
  BY IssueGoes
<1>2. TableKept /\ UNCHANGED <<jar, careful>>
  BY <1>1 DEF Issued, TableKept, Same, IssueTokens
<1>3. /\ pc'[r] = step /\ call'[r] = f /\ pc[r] = "issue"
      /\ \A q \in Reqs : q # r => pc'[q] = pc[q] /\ call'[q] = call[q]
  BY <1>1, StepNames DEF Issued, GotoWith, TypeOK
<1>4. ASSUME NEW i \in Rows, Good(i)
      PROVE  Good(i)'
  BY <1>1, <1>2, <1>4, StillGood DEF Issued
<1>5. Good(n)'
  BY <1>1 DEF Issued, Good
<1>6. ASSUME NEW b \in careful, jar[b] # 0
      PROVE  \/ Good(jar[b])'
             \/ \E q \in Reqs : Uses(q, b)' /\ pc'[q] = "reply"
  <2>1. PICK i \in Rows : i = jar[b]
    BY <1>6, CarefulBrowsers DEF TypeOK
  <2>2. CASE Good(i)
    BY <1>2, <1>4, <2>1, <2>2 DEF Good, Reckless, Rows
  <2>3. CASE ~Good(i)
    <3>1. PICK q \in Reqs : Uses(q, b) /\ pc[q] = "reply"
      BY <1>6, <2>1, <2>3 DEF SessionsGood
    <3> QED
      BY <1>3, <3>1 DEF Uses, InFlight
  <2> QED
    BY <2>2, <2>3
<1>7. ASSUME NEW q \in Reqs, InFlight(q)', call'[q].browser \in careful
      PROVE  /\ pc'[q] = "consume" /\ call'[q].sent # 0 => Good(call[q].sent)'
             /\ HasNew(call[q], pc[q])' => Good(call[q].new)'
  <2>1. CASE q = r
    <3>1. pc'[q] # "consume" /\ call'[q].new = n
      BY <1>1, <1>3, <2>1 DEF Issued
    <3> QED
      BY <1>5, <3>1 DEF Good, Reckless, Rows
  <2>2. CASE q # r
    <3>1. PICK g : g = call[q] /\ call'[q] = g /\ pc'[q] = pc[q] /\ InFlight(q)
      BY <1>3, <1>7, <2>2 DEF InFlight
    <3>2. g.sent \in Rows \cup {0} /\ (HasNew(g, pc[q]) => g.new \in Rows)
      BY <3>1, FrameOf DEF InFlight, Fits
    <3>3. /\ pc[q] = "consume" /\ g.sent # 0 => Good(g.sent)
          /\ HasNew(g, pc[q]) => Good(g.new)
      BY <1>7, <3>1 DEF SessionsGood
    <3>4. /\ pc[q] = "consume" /\ g.sent # 0 => Good(g.sent)'
          /\ HasNew(g, pc[q]) => Good(g.new)'
      BY <1>4, <3>2, <3>3
    <3> QED
      BY <3>1, <3>4 DEF Good, Reckless, Rows, HasNew
  <2> QED
    BY <2>1, <2>2
<1>8. ASSUME NEW q \in Reqs, At(q, "refresh", "sweep")'
      PROVE  Reckless(token[call[q].sent].owner)'
  <2>1. q # r
    BY <1>1, <1>3, <1>8 DEF Issued, At
  <2>2. PICK s : /\ s = call[q].sent /\ s \in Rows /\ call'[q].sent = s
                 /\ Reckless(token[s].owner)
    BY <1>3, <1>8, <2>1, FrameOf, StepNames DEF At, Fits, SessionsGood
  <2>3. PICK p : p = token[s].owner /\ p = token'[s].owner
    BY <1>2, <2>2 DEF TableKept, Same
  <2>4. Reckless(p)'
    BY <1>2, <2>2, <2>3, StillReckless
  <2> QED
    BY <2>2, <2>3, <2>4 DEF Reckless
<1> QED
  BY <1>2, <1>6, <1>7, <1>8 DEF SessionsGood

\* A new token reaches its browser good; a lost answer was not for a careful one.
LEMMA AnswersGood ==
    ASSUME AccountsAssumption, TypeOK, SessionsGood, NEW r \in Reqs, Reply(r) \/ Lose(r)
    PROVE  SessionsGood'
<1>1. /\ UNCHANGED <<token, careful>> /\ pc[r] = "reply" /\ InFlight(r) /\ pc'[r] = "ok"
      /\ \A q \in Reqs : q # r => pc'[q] = pc[q] /\ call'[q] = call[q]
      /\ Rows' = Rows
  BY StepNames DEF Reply, Lose, Goto, GotoWith, TypeOK, InFlight, Rows
<1>2. \A i : Good(i)' <=> Good(i)
  BY <1>1 DEF Good, Reckless
<1>3. ASSUME NEW b \in careful, jar'[b] # 0
      PROVE  \/ Good(jar'[b])
             \/ \E q \in Reqs : Uses(q, b)' /\ pc'[q] = "reply"
  <2>1. CASE call[r].browser = b
    <3>1. Reply(r)
      BY <2>1 DEF Lose
    <3>2. call[r].op # "logout" /\ jar'[b] = call[r].new
      BY <1>3, <2>1, <3>1, CarefulBrowsers DEF Reply, TypeOK
    <3> QED
      BY <1>1, <2>1, <3>2 DEF SessionsGood, HasNew
  <2>2. CASE call[r].browser # b
    <3>1. jar'[b] = jar[b]
      BY <2>2, CarefulBrowsers DEF Reply, Lose, TypeOK
    <3>2. CASE ~Good(jar[b])
      <4>1. PICK q \in Reqs : Uses(q, b) /\ pc[q] = "reply"
        BY <1>3, <3>1, <3>2 DEF SessionsGood
      <4>2. q # r
        BY <2>2, <4>1 DEF Uses
      <4> QED
        BY <1>1, <4>1, <4>2 DEF Uses, InFlight
    <3> QED
      BY <3>1, <3>2
  <2> QED
    BY <2>1, <2>2
<1>4. \A q \in Reqs : InFlight(q)' => q # r
  BY <1>1, StepNames DEF InFlight, Answers
<1> QED
  BY <1>1, <1>2, <1>3, <1>4, StepNames
  DEF SessionsGood, InFlight, At, HasNew, Good, Reckless, Answers

\* A careful browser sends a good token: none of its handlers is about to answer.
LEMMA ReceiveGood ==
    ASSUME AccountsAssumption, TypeOK, SessionsGood, NEW r \in Reqs, Receive(r)
    PROVE  SessionsGood'
<1>1. PICK f, step : FirstFrame(r, f, step)
  BY ReceiveGoes
<1>2. /\ UNCHANGED <<token, jar, careful>> /\ Rows' = Rows
      /\ pc[r] = "idle" /\ pc'[r] = step /\ call'[r] = f
      /\ \A q \in Reqs : q # r => pc'[q] = pc[q] /\ call'[q] = call[q]
  BY <1>1, StepNames DEF Receive, FirstFrame, GotoWith, TypeOK, Rows
<1>3. \A i : Good(i)' <=> Good(i)
  BY <1>2 DEF Good, Reckless
<1>4. \A b \in careful, q \in Reqs : Uses(q, b) /\ pc[q] = "reply" =>
         Uses(q, b)' /\ pc'[q] = "reply"
  BY <1>2, StepNames DEF Uses, InFlight
<1>5. ASSUME f.browser \in careful, f.sent # 0
      PROVE  Good(f.sent)
  <2>1. jar[f.browser] = f.sent /\ \A q \in Reqs : ~Uses(q, f.browser)
    BY <1>1, <1>5 DEF FirstFrame
  <2> QED
    BY <1>5, <2>1 DEF SessionsGood
<1>6. ~HasNew(f, step) /\ step # "sweep"
  BY <1>1 DEF FirstFrame, HasNew
<1>7. ASSUME NEW q \in Reqs, InFlight(q)', call'[q].browser \in careful
      PROVE  /\ pc'[q] = "consume" /\ call'[q].sent # 0 => Good(call'[q].sent)
             /\ HasNew(call[q], pc[q])' => Good(call'[q].new)
  <2>1. CASE q = r
    BY <1>2, <1>5, <1>6, <1>7, <2>1 DEF HasNew
  <2>2. CASE q # r
    BY <1>2, <1>7, <2>2 DEF SessionsGood, HasNew, InFlight
  <2> QED
    BY <2>1, <2>2
<1>8. ASSUME NEW q \in Reqs, At(q, "refresh", "sweep")'
      PROVE  Reckless(token[call'[q].sent].owner)
  BY <1>2, <1>6, <1>8 DEF SessionsGood, At
<1> QED
  BY <1>2, <1>3, <1>4, <1>7, <1>8 DEF SessionsGood, Good, Reckless

\* Expiry takes tokens out of the cookies and revokes none.
LEMMA ExpireGood ==
    ASSUME AccountsAssumption, TypeOK, SessionsGood, NEW i \in Rows, Expire(i)
    PROVE  SessionsGood'
<1>1. /\ Rows' = Rows /\ UNCHANGED <<careful, pc, call>>
      /\ \A j \in Rows : Same(j) /\ token'[j].revoked = token[j].revoked
  BY ExpireMarks DEF Expire
<1>2. ASSUME NEW j \in Rows, Good(j)
      PROVE  Good(j)'
  BY <1>1, <1>2 DEF Good, Reckless, Same
<1>3. ASSUME NEW q \in Reqs, InFlight(q)
      PROVE  pc[q] = "consume" /\ call[q].sent \in Rows \cup {0}
  BY <1>3, FrameOf DEF Expire, InFlight, Fits
<1>4. ASSUME NEW b \in careful, jar'[b] # 0
      PROVE  jar'[b] = jar[b] /\ jar[b] \in Rows /\ Good(jar[b])'
  <2>1. jar'[b] = jar[b] /\ jar[b] \in Rows
    BY <1>4, CarefulBrowsers DEF Expire, TypeOK
  <2>2. PICK j : j = jar[b]
    OBVIOUS
  <2>3. Good(j)
    BY <1>3, <1>4, <2>1, <2>2 DEF SessionsGood, Uses
  <2>4. Good(j)'
    BY <1>2, <2>1, <2>2, <2>3
  <2> QED
    BY <2>1, <2>2, <2>4 DEF Good, Reckless
<1>5. ASSUME NEW q \in Reqs, InFlight(q)', call'[q].browser \in careful, call'[q].sent # 0
      PROVE  Good(call[q].sent)'
  <2>1. PICK s : s = call[q].sent
    OBVIOUS
  <2>2. Good(s) /\ s \in Rows /\ call'[q].sent = s
    BY <1>1, <1>3, <1>5, <2>1 DEF SessionsGood, InFlight
  <2>3. Good(s)'
    BY <1>2, <2>2
  <2> QED
    BY <2>2, <2>3 DEF Good, Reckless
<1> QED
  BY <1>1, <1>3, <1>4, <1>5, StepNames DEF SessionsGood, InFlight, HasNew, At

\* In the first states every token is good.
LEMMA InitGood ==
    ASSUME AccountsAssumption, Init
    PROVE  SessionsGood /\ OneAtATime
<1>a. PICK n \in 0 .. Cardinality(Browsers) :
        \E place \in [1 .. n -> Browsers], who \in [1 .. n -> People] :
          /\ \A i, j \in 1 .. n : place[i] = place[j] => i = j
          /\ \A i \in 1 .. n : account[who[i]] # None
          /\ token = LoginTokens(n, place, who)
          /\ jar \in [Browsers -> 0 .. n]
          /\ \A b \in Browsers, i \in 1 .. n : jar[b] = i <=> place[i] = b
  BY Zenon DEF Init
<1>1. PICK place \in [1 .. n -> Browsers], who \in [1 .. n -> People] :
        token = LoginTokens(n, place, who) /\ jar \in [Browsers -> 0 .. n]
  BY <1>a
<1>2. \A i \in 1 .. n : ~token[i].revoked
  BY <1>1 DEF LoginTokens
<1>3. \A r \in Reqs : pc[r] \notin Steps
  BY StepNames DEF Init
<1>4. careful \subseteq Browsers
  BY InitTyped, CarefulBrowsers
<1> QED
  BY <1>1, <1>2, <1>3, <1>4, StepNames DEF SessionsGood, OneAtATime, Uses, At, InFlight, Good

\* Every step keeps the sessions good.
LEMMA StepGood ==
    ASSUME AccountsAssumption, TypeOK, TokensMatch, Undelivered, OneAtATime, SessionsGood,
           [Next]_vars
    PROVE  SessionsGood'
<1>1. CASE UNCHANGED vars
  BY <1>1 DEF vars, SessionsGood, InFlight, At, Uses, HasNew, Good, Reckless, Rows
<1>2. ASSUME NEW r \in Reqs, Receive(r) \/ Handle(r) \/ Reply(r) \/ Lose(r)
      PROVE  SessionsGood'
  BY <1>2, ReceiveGood, LookupsGood, SweepGood, RevokeGood, IssueGood, AnswersGood DEF Handle
<1>3. ASSUME NEW i \in Rows, Expire(i)
      PROVE  SessionsGood'
  BY <1>3, ExpireGood
<1> QED
  BY <1>1, <1>2, <1>3 DEF Next, AllAnswered

\* Who uses careful browsers only stays signed in, in each of them, until he signs
\* out there or the token expires: no rotation, logout or sweep elsewhere takes his
\* session away (AuthService.refresh, AuthService.logout, TokenService).
THEOREM SessionsLast ==
    ASSUME AccountsAssumption
    PROVE  Spec => []SessionsSurvive
<1>1. Init => TokensMatch /\ Undelivered /\ OneAtATime /\ SessionsGood
  BY InitMatches, InitLinks, InitGood
<1>2. TypeOK /\ TokensMatch /\ Undelivered /\ OneAtATime /\ SessionsGood /\ [Next]_vars
      => (TokensMatch /\ Undelivered /\ OneAtATime /\ SessionsGood)'
  BY StepMatches, StepUndelivered, StepOneAtATime, StepGood
<1>3. SessionsGood => SessionsSurvive
  BY DEF SessionsGood, SessionsSurvive, Good
<1> QED
  BY <1>1, <1>2, <1>3, AccountsTypeCorrect, PTL DEF Spec
=====
