----------------------------- MODULE ListsProofs -----------------------------
(***************************************************************************)
(* Theorems about Lists, for any number of rows, keys and page sizes.      *)
(***************************************************************************)
EXTENDS Lists, FiniteSetTheorems, TLAPS

(* The types.                                                              *)

\* What Take gives: some of the rows, all of them if there are no more.
LEMMA TakeFacts ==
    ASSUME NEW R, IsFiniteSet(R), NEW n \in Nat, NEW P \in Take(R, n)
    PROVE  /\ P \subseteq R /\ IsFiniteSet(P)
           /\ Cardinality(P) \in Nat /\ Cardinality(R) \in Nat
           /\ Cardinality(P) <= n
           /\ Cardinality(P) < n => P = R
           /\ \A i \in P, j \in R \ P : ~Before(j, i)
<1>1. P \subseteq R /\ IsFiniteSet(P)
  BY FS_Subset DEF Take
<1>2. Cardinality(P) \in Nat /\ Cardinality(R) \in Nat
  BY <1>1, FS_CardinalityType
<1>3. Cardinality(R) = Cardinality(P) => P = R
  BY <1>1, FS_Subset
<1> QED
  BY <1>1, <1>2, <1>3 DEF Take

\* The rows are finitely many.
LEMMA RowsFinite == TypeOK => IsFiniteSet(shown) /\ IsFiniteSet(kept)
<1> SUFFICES ASSUME TypeOK PROVE IsFiniteSet(shown) /\ IsFiniteSet(kept)
  OBVIOUS
<1>1. shown \in SUBSET Ids /\ kept \in SUBSET Ids
  BY DEF TypeOK
<1> QED
  BY <1>1, ListsAssumption, FS_Subset

\* A walk starts with the types.
LEMMA ListsInitTyped == Init => TypeOK
BY DEF Init, TypeOK, Settled, Keyset, ByCursor, ByNumber

\* A page of the keyset lists holds rows, and its cursor is one.
LEMMA GivePageTyped ==
    ASSUME TypeOK, GivePage
    PROVE  /\ seen' \subseteq known /\ twice' \subseteq seen'
           /\ token' \in Cursor \cup {NoCursor}
           /\ step' \in {"ask", "end"}
<1> DEFINE R == After(Decode(token))
<1>1. R \subseteq shown /\ IsFiniteSet(R)
  BY RowsFinite, FS_Subset DEF After
<1>2. PICK taken \in Take(R, limit + 1) :
        IF Cardinality(taken) > limit
        THEN \E P \in Take(taken, limit), last \in taken :
                /\ last \in P /\ \A i \in P \ {last} : Before(i, last)
                /\ Give(P)
                /\ token' = Encode(last)
                /\ step' = "ask"
        ELSE Give(taken) /\ token' = NoCursor /\ step' = "end"
  BY DEF GivePage
<1>3. limit \in Nat /\ limit + 1 \in Nat
  BY ListsAssumption DEF TypeOK
<1>4. taken \subseteq shown /\ IsFiniteSet(taken)
  BY <1>1, <1>3, TakeFacts
<1>5. ASSUME Cardinality(taken) > limit,
             NEW P \in Take(taken, limit), NEW last \in taken,
             Give(P), token' = Encode(last), step' = "ask"
      PROVE  /\ seen' \subseteq known /\ twice' \subseteq seen'
             /\ token' \in Cursor /\ step' \in {"ask", "end"}
  <2>1. P \subseteq taken
    BY <1>3, <1>4, TakeFacts
  <2> QED
    BY <1>4, <1>5, <2>1 DEF Give, Encode, Cursor, TypeOK
<1> QED
  BY <1>2, <1>4, <1>5 DEF Give, TypeOK

\* A change to a row keeps the types.
LEMMA ChangeTyped ==
    ASSUME TypeOK, NEW i \in Ids, NEW k \in Keys, Change(i, k, TRUE) \/ Change(i, k, FALSE)
    PROVE  TypeOK'
BY DEF TypeOK, Change, client, Keyset, Cursor

\* What moves or hides a row, or brings one, is a change.
LEMMA ChangesOnly ==
    /\ \A i \in Ids, k \in Keys : Insert(i, k) \/ Move(i, k) => Change(i, k, TRUE) \/ Change(i, k, FALSE)
    /\ \A i \in Ids : Hide(i) \/ Show(i) => Change(i, key[i], TRUE) \/ Change(i, key[i], FALSE)
<1>1. ASSUME NEW i \in Ids, NEW k \in Keys, Move(i, k)
      PROVE  Change(i, k, TRUE) \/ Change(i, k, FALSE)
  <2>1. CASE i \in shown
    BY <1>1, <2>1 DEF Move, Change
  <2>2. CASE i \notin shown
    BY <1>1, <2>2 DEF Move, Change
  <2> QED
    BY <2>1, <2>2
<1> QED
  BY <1>1 DEF Insert, Hide, Show

\* Every step keeps the types: one step of the proof per action.
LEMMA ListsStepTyped == TypeOK /\ [Next]_vars => TypeOK'
<1> SUFFICES ASSUME TypeOK, [Next]_vars PROVE TypeOK'
  OBVIOUS
<1>1. CASE AskForMessages
  BY <1>1 DEF AskForMessages, TypeOK, rows, history, Cursor
<1>2. CASE ListMessages
  BY <1>2, GivePageTyped DEF ListMessages, TypeOK, rows, Cursor
<1>3. CASE ListConversations
  BY <1>3, GivePageTyped DEF ListConversations, TypeOK, rows, Cursor
<1>4. CASE ListNotifications
  BY <1>4, GivePageTyped DEF ListNotifications, TypeOK, rows, Cursor
<1>5. CASE Query
  <2>1. ASSUME Rows PROVE seen' \subseteq known /\ twice' \subseteq seen'
    <3>1. PICK skipped \in Take(shown, Skip) : \E P \in Take(shown \ skipped, limit) : Give(P)
      BY <2>1 DEF Rows
    <3> QED
      BY <3>1 DEF Take, Give, TypeOK
  <2>2. Cardinality(shown) \in Nat
    BY RowsFinite, FS_CardinalityType
  <2> QED
    BY <1>5, <2>1, <2>2 DEF Query, Rows, Total, TypeOK, rows, Cursor
<1>6. CASE TurnPage
  BY <1>6 DEF TurnPage, TypeOK, rows, history, Cursor
<1>7. ASSUME NEW i \in Ids, NEW k \in Keys, Insert(i, k) \/ Move(i, k) PROVE TypeOK'
  BY <1>7, ChangesOnly, ChangeTyped
<1>8. ASSUME NEW i \in Ids, Hide(i) \/ Show(i) PROVE TypeOK'
  <2>1. key[i] \in Keys
    BY DEF TypeOK
  <2> QED
    BY <1>8, <2>1, ChangesOnly, ChangeTyped
<1>9. CASE Expel
  BY <1>9 DEF Expel, TypeOK, client, history, Cursor
<1>10. CASE UNCHANGED vars
  BY <1>10 DEF vars, TypeOK, rows, client, history, Cursor
<1> QED
  BY <1>1, <1>2, <1>3, <1>4, <1>5, <1>6, <1>7, <1>8, <1>9, <1>10
     DEF Next, Serve, ListUsers, SearchUsers, SearchMessages, Over

\* The types hold of every walk.
THEOREM ListsTyped == Spec => []TypeOK
BY ListsInitTyped, ListsStepTyped, PTL DEF Spec
-----------------------------------------------------------------------------
(* Walks by cursor.                                                        *)

\* Row i comes after the cursor c.
Beyond(i, c) == key[i] < c.at \/ (key[i] = c.at /\ i < c.id)

\* What the walk has not given lies after the cursor; what it has given, and has
\* not sunk since, does not.
WalkInv ==
    /\ step \in {"ask", "rows", "end", "refused"}
    /\ step \in {"ask", "rows"} /\ token \notin Cursor => seen = {}
    /\ token \in Cursor => \A i \in seen \ sunk : ~Beyond(i, token)
    /\ step # "end" => kept \ seen \subseteq After(Decode(token))
    /\ step = "end" => kept \subseteq seen /\ token = NoCursor
    /\ twice \subseteq sunk
KeysetInv == Keyset => WalkInv

\* NoCursor and Garbage are no cursors.
LEMMA NotCursors == NoCursor \notin Cursor /\ Garbage \notin Cursor /\ NoCursor # Garbage
BY ListsAssumption DEF Cursor

\* A walk starts with all rows before it.
LEMMA KeysetInit == Init => KeysetInv
BY NotCursors DEF Init, KeysetInv, WalkInv, Settled, After, Decode

\* The order of the keyset lists is the one the cursor speaks of.
LEMMA KeysetOrder ==
    ASSUME Keyset, NEW i \in Ids, NEW j \in Ids
    PROVE  Before(i, j) <=> key[i] > key[j] \/ (key[i] = key[j] /\ i > j)
BY DEF Keyset, ByCursor, Before, ListedBefore

\* What decodes is the first page, or the cursor that was sent.
LEMMA AfterToken ==
    ASSUME TypeOK
    PROVE  /\ token \in Cursor => After(Decode(token)) = {i \in shown : Beyond(i, token)}
           /\ token \notin Cursor => After(Decode(token)) = shown
BY NotCursors DEF TypeOK, After, Decode, Beyond

\* A page of a walk by cursor: what it leaves out lies after its last row.
LEMMA GivePageKeyset ==
    ASSUME TypeOK, Keyset, WalkInv, GivePage, step \in {"ask", "rows"},
           UNCHANGED <<list, limit, rows, kept, sunk>>
    PROVE  WalkInv'
<1> DEFINE R == After(Decode(token))
<1>1. R \subseteq shown /\ IsFiniteSet(R) /\ R \subseteq Ids
  BY RowsFinite, FS_Subset DEF After, TypeOK
<1>2. PICK taken \in Take(R, limit + 1) :
        IF Cardinality(taken) > limit
        THEN \E P \in Take(taken, limit), last \in taken :
                /\ last \in P /\ \A i \in P \ {last} : Before(i, last)
                /\ Give(P)
                /\ token' = Encode(last)
                /\ step' = "ask"
        ELSE Give(taken) /\ token' = NoCursor /\ step' = "end"
  BY DEF GivePage
<1>3. limit \in Nat /\ limit + 1 \in Nat /\ limit < limit + 1
  BY ListsAssumption DEF TypeOK
<1>4. /\ taken \subseteq R /\ IsFiniteSet(taken) /\ Cardinality(taken) \in Nat
      /\ Cardinality(taken) < limit + 1 => taken = R
      /\ \A i \in taken, j \in R \ taken : ~Before(j, i)
  BY <1>1, <1>3, TakeFacts
<1>5. \A i \in R \ sunk : i \notin seen
  BY AfterToken DEF WalkInv
<1>6. kept \ seen \subseteq R
  BY DEF WalkInv
<1>7. CASE Cardinality(taken) <= limit
  <2>1. taken = R /\ Give(R) /\ token' = NoCursor /\ step' = "end"
    BY <1>2, <1>3, <1>4, <1>7
  <2> QED
    BY <2>1, <1>5, <1>6, NotCursors DEF WalkInv, Give
<1>8. ASSUME NEW P \in Take(taken, limit), NEW last \in taken, last \in P,
             \A i \in P \ {last} : Before(i, last),
             Give(P), token' = Encode(last), step' = "ask"
      PROVE  WalkInv'
  <2>1. P \subseteq taken /\ \A i \in P, j \in taken \ P : ~Before(j, i)
    BY <1>3, <1>4, TakeFacts
  <2>2. /\ token' \in Cursor /\ token'.at = key[last] /\ token'.id = last
        /\ Decode(token)' = token'
    BY <1>1, <1>4, <1>8, NotCursors DEF Encode, Cursor, TypeOK, Decode
  <2>3. \A i \in Ids : key[i] \in Int /\ i \in Int
    BY ListsAssumption DEF TypeOK
  <2>4. \A i \in R \ P : ~Before(i, last)
    BY <1>4, <1>8, <2>1
  <2>5. \A i \in R \ P : Beyond(i, token)'
    <3> SUFFICES ASSUME NEW i \in R \ P PROVE Beyond(i, token)'
      OBVIOUS
    <3>1. i \in Ids /\ last \in Ids /\ i # last /\ key' = key
      BY <1>1, <1>4, <1>8 DEF rows
    <3>2. ~(key[i] > key[last] \/ (key[i] = key[last] /\ i > last))
      BY <2>4, <3>1, KeysetOrder
    <3> QED
      BY <2>2, <2>3, <3>1, <3>2 DEF Beyond
  <2>6. \A i \in P : ~(Beyond(i, token)')
    BY <2>2, <2>3, <1>1, <1>4, <1>8, <2>1, KeysetOrder DEF Beyond, rows
  <2>7. \A i \in seen \ sunk : ~(Beyond(i, token)')
    <3> SUFFICES ASSUME NEW i \in seen \ sunk PROVE ~(Beyond(i, token)')
      OBVIOUS
    <3>1. i \in Ids /\ last \in Ids /\ last \in R
      BY <1>1, <1>4 DEF TypeOK
    <3>2. CASE token \notin Cursor
      BY <3>2 DEF WalkInv
    <3>3. CASE token \in Cursor
      <4>1. ~Beyond(i, token) /\ Beyond(last, token)
        BY <3>1, <3>3, AfterToken DEF WalkInv
      <4>2. token.at \in Int /\ token.id \in Int
        BY <3>3, ListsAssumption DEF Cursor
      <4> QED
        BY <2>2, <2>3, <3>1, <4>1, <4>2 DEF Beyond, rows
    <3> QED
      BY <3>2, <3>3
  <2>8. seen' = seen \cup P /\ twice' = twice \cup (seen \cap P)
    BY <1>8 DEF Give
  <2>9. twice' \subseteq sunk'
    BY <2>8, <2>1, <1>4, <1>5 DEF WalkInv
  <2>10. (kept \ seen)' \subseteq After(Decode(token))'
    BY <2>2, <2>5, <2>8, <1>1, <1>6 DEF After, Beyond, rows
  <2> QED
    BY <1>8, <2>2, <2>6, <2>7, <2>8, <2>9, <2>10 DEF WalkInv
<1> QED
  BY <1>2, <1>3, <1>4, <1>7, <1>8

\* A change to a row: the others are where they were, and it is not counted on.
LEMMA ChangeKeyset ==
    ASSUME TypeOK, Keyset, WalkInv, step \notin {"end", "refused"},
           NEW i \in Ids, NEW k \in Keys, Change(i, k, TRUE) \/ Change(i, k, FALSE)
    PROVE  WalkInv'
<1>1. /\ key' = [key EXCEPT ![i] = k] /\ kept' = kept \ {i}
      /\ shown' \in {shown \cup {i}, shown \ {i}}
      /\ sunk' = IF i \in known /\ k < key[i] THEN sunk \cup {i} ELSE sunk
      /\ UNCHANGED <<step, token, seen, twice>>
  BY DEF Change, client
<1>2. \A j \in Ids : j # i => key'[j] = key[j]
  BY <1>1 DEF TypeOK
<1>3. key'[i] = k /\ k \in Int /\ key[i] \in Int
  BY <1>1, ListsAssumption DEF TypeOK
<1>4. token \in Cursor => \A j \in seen' \ sunk' : ~(Beyond(j, token)')
  <2> SUFFICES ASSUME token \in Cursor, NEW j \in seen \ sunk' PROVE ~(Beyond(j, token)')
    BY <1>1
  <2>1. j \in known /\ j \in Ids /\ j \notin sunk /\ ~Beyond(j, token)
    BY <1>1 DEF TypeOK, WalkInv
  <2>2. token.at \in Int /\ token.id \in Int /\ token' = token
    BY <1>1, ListsAssumption DEF Cursor
  <2> QED
    BY <1>1, <1>2, <1>3, <2>1, <2>2 DEF Beyond
<1>5. (kept \ seen)' \subseteq After(Decode(token))'
  BY <1>1, <1>2 DEF WalkInv, After, Decode, TypeOK
<1> QED
  BY <1>1, <1>4, <1>5 DEF WalkInv

\* The invariant is inductive: one step per action.
LEMMA KeysetStep == TypeOK /\ KeysetInv /\ [Next]_vars => KeysetInv'
<1>0. [Next]_vars => list' = list
  BY DEF Next, Serve, AskForMessages, ListMessages, ListConversations, ListNotifications,
         ListUsers, SearchUsers, SearchMessages, Query, TurnPage, Insert, Move, Hide, Show,
         Change, Expel, Over, vars
<1> SUFFICES ASSUME TypeOK, Keyset, WalkInv, [Next]_vars PROVE WalkInv'
  BY <1>0 DEF KeysetInv, Keyset
<1>1. CASE AskForMessages
  BY <1>1 DEF AskForMessages, WalkInv, rows, history, After, Decode, Beyond
<1>2. CASE ListMessages
  BY <1>2, GivePageKeyset DEF ListMessages
<1>3. CASE ListConversations
  BY <1>3, GivePageKeyset DEF ListConversations
<1>4. CASE ListNotifications
  BY <1>4, GivePageKeyset DEF ListNotifications
<1>5. ~ListUsers /\ ~SearchUsers /\ ~SearchMessages /\ ~TurnPage
  BY DEF ListUsers, SearchUsers, SearchMessages, TurnPage, Keyset, ByCursor, WalkInv
<1>6. ASSUME step \notin {"end", "refused"}, NEW i \in Ids, NEW k \in Keys,
             Insert(i, k) \/ Move(i, k)
      PROVE  WalkInv'
  BY <1>6, ChangesOnly, ChangeKeyset
<1>7. ASSUME step \notin {"end", "refused"}, NEW i \in Ids, Hide(i) \/ Show(i) PROVE WalkInv'
  <2>1. key[i] \in Keys
    BY DEF TypeOK
  <2> QED
    BY <1>7, <2>1, ChangesOnly, ChangeKeyset
<1>8. CASE Expel
  BY <1>8 DEF Expel, WalkInv, client, history, After, Decode, Beyond
<1>9. CASE UNCHANGED vars
  BY <1>9 DEF vars, WalkInv, rows, client, history, After, Decode, Beyond
<1> QED
  BY <1>1, <1>2, <1>3, <1>4, <1>5, <1>6, <1>7, <1>8, <1>9 DEF Next, Serve, Over

\* The invariant behind the next two theorems.
THEOREM KeysetCorrect == Spec => [](TypeOK /\ KeysetInv)
<1>1. TypeOK /\ KeysetInv /\ [Next]_vars => (TypeOK /\ KeysetInv)'
  BY ListsStepTyped, KeysetStep
<1> QED
  BY <1>1, ListsInitTyped, KeysetInit, PTL DEF Spec

\* A walk by cursor over any number of rows, with any page size, ends with every
\* row that stayed where it was, whatever changed around it.
THEOREM NothingSkipped == Spec => []CursorSkipsNothing
<1>1. KeysetInv => CursorSkipsNothing
  BY DEF KeysetInv, WalkInv, CursorSkipsNothing
<1> QED
  BY <1>1, KeysetCorrect, PTL

\* It repeats no row but a conversation whose lastMessageAt went back.
THEOREM NothingRepeated == Spec => []CursorRepeatsNothing
<1>1. KeysetInv => CursorRepeatsNothing
  BY DEF KeysetInv, WalkInv, CursorRepeatsNothing
<1> QED
  BY <1>1, KeysetCorrect, PTL

\* The page that gives a cursor has left a row out, and that row lies after it.
LEMMA GivePageLeadsOn ==
    ASSUME TypeOK, Keyset, GivePage, token' \in Cursor, UNCHANGED <<list, limit, rows>>
    PROVE  After(token)' # {}
<1> DEFINE R == After(Decode(token))
<1>1. R \subseteq shown /\ IsFiniteSet(R) /\ R \subseteq Ids
  BY RowsFinite, FS_Subset DEF After, TypeOK
<1>2. limit \in Nat /\ limit + 1 \in Nat
  BY ListsAssumption DEF TypeOK
<1>3. PICK taken \in Take(R, limit + 1) :
        /\ Cardinality(taken) > limit
        /\ \E P \in Take(taken, limit), last \in taken :
              /\ last \in P /\ \A i \in P \ {last} : Before(i, last)
              /\ token' = Encode(last)
  BY NotCursors DEF GivePage
<1>4. PICK P \in Take(taken, limit), last \in taken :
        /\ last \in P /\ \A i \in P \ {last} : Before(i, last)
        /\ token' = Encode(last)
  BY <1>3
<1>5. taken \subseteq R /\ IsFiniteSet(taken) /\ Cardinality(taken) \in Nat
  BY <1>1, <1>2, TakeFacts
<1>6. /\ P \subseteq taken /\ Cardinality(P) \in Nat /\ Cardinality(P) <= limit
      /\ \A i \in P, j \in taken \ P : ~Before(j, i)
  BY <1>2, <1>5, TakeFacts
<1>7. PICK j \in taken : j \notin P
  BY <1>2, <1>3, <1>5, <1>6
<1>8. /\ j \in shown /\ j \in Ids /\ last \in Ids /\ j # last /\ ~Before(j, last)
      /\ key[j] \in Int /\ key[last] \in Int /\ j \in Int /\ last \in Int
  BY <1>1, <1>4, <1>5, <1>6, <1>7, ListsAssumption DEF TypeOK
<1>9. key[j] < key[last] \/ (key[j] = key[last] /\ j < last)
  BY <1>8, KeysetOrder
<1>10. token'.at = key[last] /\ token'.id = last /\ key' = key /\ shown' = shown
  BY <1>4 DEF Encode, rows
<1> QED
  BY <1>8, <1>9, <1>10 DEF After

\* A next cursor is a promise of another row, whatever the page size: a client
\* that follows it at once is never given an empty page.
THEOREM CursorsLeadOn == Spec => CursorLeadsOn
<1>1. TypeOK /\ [Next]_vars =>
        [token' \in Cursor /\ token' # token => After(token)' # {}]_vars
  <2> SUFFICES ASSUME TypeOK, [Next]_vars, token' \in Cursor, token' # token
               PROVE  After(token)' # {}
    OBVIOUS
  <2>1. ListMessages \/ ListConversations \/ ListNotifications
    BY DEF Next, Serve, AskForMessages, ListUsers, SearchUsers, SearchMessages, Query, TurnPage,
           Insert, Move, Hide, Show, Change, Expel, Over, vars, client
  <2>2. Keyset /\ GivePage /\ UNCHANGED <<list, limit, rows>>
    BY <2>1 DEF ListMessages, ListConversations, ListNotifications, Keyset, ByCursor
  <2> QED
    BY <2>2, GivePageLeadsOn
<1> QED
  BY <1>1, ListsTyped, PTL DEF Spec, CursorLeadsOn
-----------------------------------------------------------------------------
(* Walks by page number.                                                   *)

\* The place of row i in the list.
Ahead(i) == {j \in shown : Before(j, i)}
Rank(i) == Cardinality(Ahead(i))

\* How many rows the pages answered so far are.
Done == IF step \in {"rows", "both", "end"} THEN Skip + limit ELSE Skip

\* Rows that are counted on share no key; they were given, once, if their place
\* lies in the pages answered so far, and a total counts them.
NumberInv ==
    /\ step \in {"ask", "rows", "total", "both", "end"}
    /\ \A i \in kept : \A j \in shown \ {i} : Before(i, j) \/ Before(j, i)
    /\ \A i \in kept : i \in seen <=> Rank(i) < Done
    /\ step \in {"total", "both"} => \A i \in kept : Rank(i) < total
    /\ step = "end" => kept \subseteq seen
    /\ kept \cap twice = {}
OffsetInv == ~Keyset => NumberInv

\* The numbered lists are sorted by key alone.
LEMMA NumberOrder ==
    ASSUME TypeOK, ~Keyset, NEW i \in Ids, NEW j \in Ids
    PROVE  /\ Before(i, j) <=> IF list = "messageSearch" THEN key[i] > key[j] ELSE key[i] < key[j]
           /\ ~(Before(i, j) /\ Before(j, i))
<1>1. key[i] \in Int /\ key[j] \in Int
  BY ListsAssumption DEF TypeOK
<1> QED
  BY <1>1 DEF Before, ListedBefore, Keyset

\* Which rows are taken: those whose place is among the first n.
LEMMA TakeByRank ==
    ASSUME TypeOK, ~Keyset, NEW R \in SUBSET shown, NEW n \in Nat, NEW P \in Take(R, n),
           NEW i \in R, \A j \in R \ {i} : Before(i, j) \/ Before(j, i)
    PROVE  i \in P <=> Cardinality({j \in R : Before(j, i)}) < n
<1> DEFINE A == {j \in R : Before(j, i)}
<1>1. IsFiniteSet(R) /\ IsFiniteSet(A) /\ Cardinality(A) \in Nat /\ i \notin A
  <2>1. IsFiniteSet(R)
    BY RowsFinite, FS_Subset
  <2>2. A \in SUBSET R /\ i \in Ids
    BY DEF TypeOK
  <2> QED
    BY <2>1, <2>2, FS_Subset, FS_CardinalityType, NumberOrder
<1>2. /\ P \subseteq R /\ IsFiniteSet(P) /\ Cardinality(P) \in Nat /\ Cardinality(P) <= n
      /\ Cardinality(P) < n => P = R
      /\ \A p \in P, j \in R \ P : ~Before(j, p)
  BY <1>1, TakeFacts
<1>3. ASSUME i \in P PROVE Cardinality(A) < n
  <2>1. A \cup {i} \in SUBSET P
    BY <1>2, <1>3
  <2>2. Cardinality(A \cup {i}) = Cardinality(A) + 1
    BY <1>1, FS_AddElement
  <2>3. Cardinality(A \cup {i}) <= Cardinality(P)
    BY <1>2, <2>1, FS_Subset
  <2> QED
    BY <1>1, <1>2, <2>2, <2>3
<1>4. ASSUME i \notin P PROVE n <= Cardinality(A)
  <2>1. P \in SUBSET A
    BY <1>2, <1>4
  <2>2. Cardinality(P) <= Cardinality(A)
    BY <1>1, <2>1, FS_Subset
  <2> QED
    BY <1>1, <1>2, <1>4, <2>2
<1> QED
  BY <1>1, <1>3, <1>4

\* A page gives a row that is counted on if its place lies in the page.
LEMMA PageByRank ==
    ASSUME TypeOK, ~Keyset, NEW skipped \in Take(shown, Skip),
           NEW P \in Take(shown \ skipped, limit), Skip \in Nat, NEW i \in shown,
           \A j \in shown \ {i} : Before(i, j) \/ Before(j, i)
    PROVE  i \in P <=> Skip <= Rank(i) /\ Rank(i) < Skip + limit
<1> DEFINE R == shown \ skipped
           B == {j \in R : Before(j, i)}
<1>1. /\ limit \in Nat /\ IsFiniteSet(shown) /\ R \in SUBSET shown
      /\ Ahead(i) \in SUBSET shown
  BY RowsFinite, ListsAssumption DEF TypeOK, Ahead
<1>2. IsFiniteSet(Ahead(i)) /\ Rank(i) \in Nat
  BY <1>1, FS_Subset, FS_CardinalityType DEF Rank
<1>3. i \in skipped <=> Rank(i) < Skip
  BY <1>1, TakeByRank DEF Rank, Ahead
<1>4. /\ skipped \subseteq shown /\ IsFiniteSet(skipped) /\ Cardinality(skipped) \in Nat
      /\ Cardinality(skipped) <= Skip
      /\ Cardinality(skipped) < Skip => skipped = shown
      /\ \A p \in skipped, j \in shown \ skipped : ~Before(j, p)
  BY <1>1, TakeFacts
<1>5. P \subseteq R
  BY DEF Take
<1>6. ASSUME i \notin skipped PROVE i \in P <=> Rank(i) < Skip + limit
  <2>1. i \in P <=> Cardinality(B) < limit
    BY <1>1, <1>6, TakeByRank
  <2>2. skipped \in SUBSET Ahead(i)
    BY <1>4, <1>6 DEF Ahead
  <2>3. B = Ahead(i) \ skipped
    BY DEF Ahead
  <2>4. Cardinality(B) = Rank(i) - Cardinality(skipped)
    <3>1. Ahead(i) \cap skipped = skipped
      BY <2>2
    <3> QED
      BY <1>2, <2>3, <3>1, FS_Difference DEF Rank
  <2>5. Cardinality(skipped) = Skip
    BY <1>4, <1>6
  <2> QED
    BY <1>1, <1>2, <2>1, <2>4, <2>5
<1> QED
  BY <1>2, <1>3, <1>5, <1>6

\* Skip is a number of rows, and grows by a page.
LEMMA SkipFacts ==
    ASSUME TypeOK
    PROVE  /\ Skip \in Nat /\ limit \in Nat /\ Skip + limit = page * limit
           /\ ((page + 1) - 1) * limit = Skip + limit
<1>1. limit \in Nat /\ page \in Nat /\ page >= 1 /\ page - 1 \in Nat
  BY ListsAssumption DEF TypeOK
<1>2. (page - 1) * limit \in Nat /\ (page - 1) * limit + limit = page * limit
  BY <1>1
<1>3. (page + 1) - 1 = page
  BY <1>1
<1> QED
  BY <1>1, <1>2, <1>3 DEF Skip

\* Ranks are numbers.
LEMMA RankType == TypeOK => \A i \in kept : Rank(i) \in Nat
<1> SUFFICES ASSUME TypeOK, NEW i \in kept PROVE Rank(i) \in Nat
  OBVIOUS
<1>1. Ahead(i) \in SUBSET shown
  BY DEF Ahead
<1> QED
  BY <1>1, RowsFinite, FS_Subset, FS_CardinalityType DEF Rank

\* A walk starts with nothing given.
LEMMA OffsetInit == Init => OffsetInv
<1> SUFFICES ASSUME Init, ~Keyset PROVE NumberInv
  BY DEF OffsetInv
<1>1. TypeOK
  BY ListsInitTyped
<1>2. Skip = 0
  <2>1. limit \in Nat /\ page = 1
    BY <1>1, SkipFacts DEF Init
  <2> QED
    BY <2>1 DEF Skip
<1> QED
  BY <1>1, <1>2, RankType DEF Init, NumberInv, Settled, Done

\* The rows of a page.
LEMMA RowsNumbered ==
    ASSUME TypeOK, ~Keyset, NumberInv, Rows,
           UNCHANGED <<list, limit, rows, token, page, kept, sunk>>
    PROVE  NumberInv'
<1>0. PICK skipped \in Take(shown, Skip) : \E P \in Take(shown \ skipped, limit) : Give(P)
  BY DEF Rows
<1>1. PICK P \in Take(shown \ skipped, limit) : Give(P)
  BY <1>0
<1>2. Skip \in Nat /\ limit \in Nat
  BY SkipFacts
<1>3. \A i \in kept : /\ i \in P <=> Skip <= Rank(i) /\ Rank(i) < Skip + limit
                      /\ i \in seen <=> Rank(i) < Skip
  BY <1>2, PageByRank DEF NumberInv, Rows, Done, TypeOK
<1>4. \A i \in kept : i \in seen' <=> Rank(i) < Skip + limit
  BY <1>1, <1>2, <1>3, RankType DEF Give
<1>5. kept \cap (seen \cap P) = {}
  BY <1>2, <1>3, RankType
<1>6. Skip' = Skip /\ \A i \in kept : Rank(i)' = Rank(i)
  BY DEF Skip, Rank, Ahead, Before, ListedBefore, Keyset, rows
<1>7. \A i \in kept : \A j \in shown \ {i} : Before(i, j)' \/ Before(j, i)'
  BY DEF NumberInv, Before, ListedBefore, Keyset, rows
<1> QED
  BY <1>1, <1>4, <1>5, <1>6, <1>7 DEF NumberInv, Rows, Give, Done, rows

\* The total counts whoever has a place.
LEMMA TotalNumbered ==
    ASSUME TypeOK, ~Keyset, NumberInv, Total,
           UNCHANGED <<list, limit, rows, token, page, kept, sunk>>
    PROVE  NumberInv'
<1>1. \A i \in kept : Rank(i) < Cardinality(shown)
  <2> SUFFICES ASSUME NEW i \in kept PROVE Rank(i) < Cardinality(shown)
    OBVIOUS
  <2>1. i \in shown /\ i \in Ids /\ Ahead(i) \in SUBSET shown
    BY DEF TypeOK, Ahead
  <2>2. i \notin Ahead(i)
    BY <2>1, NumberOrder DEF Ahead
  <2>3. IsFiniteSet(shown) /\ Cardinality(shown) \in Nat
    BY RowsFinite, FS_CardinalityType
  <2> QED
    BY <2>1, <2>2, <2>3, FS_Subset, RankType DEF Rank
<1>2. Skip' = Skip /\ \A i \in kept : Rank(i)' = Rank(i)
  BY DEF Skip, Rank, Ahead, Before, ListedBefore, Keyset, rows
<1>3. \A i \in kept : \A j \in shown \ {i} : Before(i, j)' \/ Before(j, i)'
  BY DEF NumberInv, Before, ListedBefore, Keyset, rows
<1> QED
  BY <1>1, <1>2, <1>3 DEF NumberInv, Total, Done, rows

\* A change after a row leaves its place alone.
LEMMA ChangeNumbered ==
    ASSUME TypeOK, ~Keyset, NumberInv, step \notin {"end", "refused"},
           NEW i \in Ids, NEW k \in Keys, Change(i, k, TRUE) \/ Change(i, k, FALSE)
    PROVE  NumberInv'
<1>1. /\ key' = [key EXCEPT ![i] = k] /\ kept' \subseteq kept \ {i} /\ list' = list
      /\ shown' \in {shown \cup {i}, shown \ {i}}
      /\ UNCHANGED <<step, page, limit, total, seen, twice>>
      /\ \A j \in kept' : i \in shown => Before(j, i)
      /\ \A j \in kept' : i \in shown' => Before(j, i)'
  BY DEF Change, client, Before, ListedBefore, Keyset
<1>2. \A j, m \in Ids : j # i /\ m # i => (Before(m, j)' <=> Before(m, j))
  BY <1>1 DEF Before, ListedBefore, Keyset, TypeOK
<1>3. TypeOK' /\ ~Keyset'
  BY <1>1, ChangeTyped DEF Keyset
<1>4. ASSUME NEW j \in kept' PROVE Ahead(j)' = Ahead(j)
  <2>1. j \in Ids /\ j # i /\ shown \subseteq Ids /\ shown' \subseteq Ids
    BY <1>1, <1>3 DEF TypeOK
  <2>2. i \in shown => ~Before(i, j)
    BY <1>1, <1>4, <2>1, NumberOrder
  <2>3. i \in shown' => ~Before(i, j)'
    <3>1. list' = list /\ key' \in [Ids -> Keys]
      BY <1>1, <1>3 DEF TypeOK
    <3>2. key'[i] \in Int /\ key'[j] \in Int
      BY <2>1, <3>1, ListsAssumption
    <3> QED
      BY <1>1, <1>3, <1>4, <3>1, <3>2 DEF Before, ListedBefore
  <2> QED
    BY <1>1, <1>2, <2>1, <2>2, <2>3 DEF Ahead
<1>5. \A j \in kept' : Rank(j)' = Rank(j)
  BY <1>4 DEF Rank
<1>6. \A j \in kept' : \A m \in shown' \ {j} : Before(j, m)' \/ Before(m, j)'
  BY <1>1, <1>2, <1>3 DEF NumberInv, TypeOK
<1>7. Skip' = Skip /\ Done' = Done
  BY <1>1 DEF Skip, Done
<1> QED
  BY <1>1, <1>5, <1>6, <1>7 DEF NumberInv

\* The invariant is inductive: one step per action.
LEMMA OffsetStep == TypeOK /\ OffsetInv /\ [Next]_vars => OffsetInv'
<1>0. [Next]_vars => list' = list
  BY DEF Next, Serve, AskForMessages, ListMessages, ListConversations, ListNotifications,
         ListUsers, SearchUsers, SearchMessages, Query, TurnPage, Insert, Move, Hide, Show,
         Change, Expel, Over, vars
<1> SUFFICES ASSUME TypeOK, ~Keyset, NumberInv, [Next]_vars PROVE NumberInv'
  BY <1>0 DEF OffsetInv, Keyset
<1>1. ~AskForMessages /\ ~ListMessages /\ ~ListConversations /\ ~ListNotifications /\ ~Expel
  BY DEF AskForMessages, ListMessages, ListConversations, ListNotifications, Expel, Keyset, ByCursor
<1>2. CASE Query
  BY <1>2, RowsNumbered, TotalNumbered DEF Query
<1>3. CASE TurnPage
  <2>1. \A i \in kept : Rank(i)' = Rank(i)
    BY <1>3 DEF TurnPage, Rank, Ahead, Before, ListedBefore, Keyset, rows
  <2>2. \A i \in kept : \A j \in shown \ {i} : Before(i, j)' \/ Before(j, i)'
    BY <1>3 DEF TurnPage, NumberInv, Before, ListedBefore, Keyset, rows
  <2>3. Done' = Skip + limit
    BY <1>3, SkipFacts DEF TurnPage, Done, Skip
  <2>4. \A i \in kept : Rank(i) < total /\ (i \in seen <=> Rank(i) < Skip + limit)
    BY <1>3 DEF TurnPage, NumberInv, Done
  <2>5. step' = "end" => \A i \in kept : Rank(i) < Skip + limit
    BY <1>3, <2>4, SkipFacts, RankType DEF TurnPage, TypeOK
  <2> QED
    BY <1>3, <2>1, <2>2, <2>3, <2>4, <2>5 DEF TurnPage, NumberInv, rows, history
<1>4. ASSUME step \notin {"end", "refused"}, NEW i \in Ids, NEW k \in Keys,
             Insert(i, k) \/ Move(i, k)
      PROVE  NumberInv'
  BY <1>4, ChangesOnly, ChangeNumbered
<1>5. ASSUME step \notin {"end", "refused"}, NEW i \in Ids, Hide(i) \/ Show(i) PROVE NumberInv'
  <2>1. key[i] \in Keys
    BY DEF TypeOK
  <2> QED
    BY <1>5, <2>1, ChangesOnly, ChangeNumbered
<1>6. CASE UNCHANGED vars
  <2>1. \A i \in kept : Rank(i)' = Rank(i)
    BY <1>6 DEF vars, rows, Rank, Ahead, Before, ListedBefore, Keyset
  <2>2. \A i \in kept : \A j \in shown \ {i} : Before(i, j)' \/ Before(j, i)'
    BY <1>6 DEF vars, rows, NumberInv, Before, ListedBefore, Keyset
  <2> QED
    BY <1>6, <2>1, <2>2 DEF vars, rows, client, history, NumberInv, Done, Skip
<1> QED
  BY <1>1, <1>2, <1>3, <1>4, <1>5, <1>6
     DEF Next, Serve, ListUsers, SearchUsers, SearchMessages, Over

\* A walk by page number gives, exactly once, the rows that stayed where they
\* were and had nothing change before them, whatever came and went after them.
THEOREM NumbersAgree == Spec => []NumberedPagesAgree
<1>1. OffsetInv => NumberedPagesAgree
  BY DEF OffsetInv, NumberInv, NumberedPagesAgree
<1>2. TypeOK /\ OffsetInv /\ [Next]_vars => (TypeOK /\ OffsetInv)'
  BY ListsStepTyped, OffsetStep
<1> QED
  BY <1>1, <1>2, ListsInitTyped, OffsetInit, PTL DEF Spec
=============================================================================
