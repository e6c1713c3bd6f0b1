-------------------------------- MODULE Lists --------------------------------
(***************************************************************************)
(* The lists of the API, read page by page while their rows change: three  *)
(* by cursor (messages, conversations, notifications) and three by page    *)
(* number (the user directory, the search for users and for messages).     *)
(*                                                                         *)
(* One client walks one list from its first page to its last; walks write  *)
(* nothing, so that two of them do not meet.  Each action is one database  *)
(* query, or one change to the rows by the rest of the system.             *)
(***************************************************************************)
EXTENDS Integers, FiniteSets

CONSTANTS
    Ids,        \* row ids; cuids are compared as strings, any order will do
    Keys,       \* what lists are sorted by: milliseconds, or usernames
    Limits,     \* the page sizes a client asks for
    NoCursor,   \* no cursor: the first page is asked for, or none is left
    Garbage     \* a string that encodes no cursor

ByCursor == {"messages", "conversations", "notifications"}
ByNumber == {"directory", "userSearch", "messageSearch"}

ASSUME ListsAssumption ==
    /\ Ids \subseteq Int /\ IsFiniteSet(Ids)
    /\ Keys \subseteq Int
    /\ Limits \subseteq Nat \ {0}
    /\ NoCursor # Garbage
    /\ {NoCursor, Garbage} \cap [at : Keys, id : Ids] = {}

VARIABLES
    list,       \* which list is walked
    limit,      \* how many rows a page has
    known,      \* the rows of the table
    shown,      \* those the query's where clause lets through
    key,        \* createdAt, lastMessageAt or username of each row
    admitted,   \* is the client still a member of the conversation?
    step,       \* "ask", "rows", "total", "both", "end" or "refused"
    token,      \* the cursor the client sends next
    page,       \* the page number the client asks for
    total,      \* the number of rows the last answer gave
    seen,       \* the rows the client was given,
    twice,      \* and those he was given more than once
    kept,       \* the rows he may count on: nothing has moved them in the list
    sunk        \* the rows whose key went back

rows == <<known, shown, key, admitted>>
client == <<step, token, page, total>>
history == <<seen, twice, kept, sunk>>
vars == <<list, limit, rows, client, history>>

Cursor == [at : Keys, id : Ids]
Keyset == list \in ByCursor

\* The types of rows and client; a row that was given had been there.
TypeOK ==
    /\ list \in ByCursor \cup ByNumber
    /\ limit \in Limits
    /\ known \subseteq Ids /\ shown \subseteq known
    /\ key \in [Ids -> Keys]
    /\ admitted \in BOOLEAN
    /\ step \in {"ask", "rows", "total", "both", "end", "refused"}
    /\ token \in Cursor \cup {NoCursor, Garbage}
    /\ page \in Nat \ {0}
    /\ total \in Nat
    /\ seen \subseteq known /\ twice \subseteq seen
    /\ kept \subseteq shown /\ sunk \subseteq known

\* orderBy: newest first with the id to break ties; newest first; oldest first
\* or by name.  Without the id, rows of one key come in any order.
ListedBefore(k, i, j) ==
    CASE Keyset -> k[i] > k[j] \/ (k[i] = k[j] /\ i > j)
      [] list = "messageSearch" -> k[i] > k[j]
      [] OTHER -> k[i] < k[j]
Before(i, j) == ListedBefore(key, i, j)

\* take: the first n rows of R, as far as the order decides.
Take(R, n) ==
    {P \in SUBSET R : /\ Cardinality(P) = IF n < Cardinality(R) THEN n ELSE Cardinality(R)
                      /\ \A i \in P, j \in R \ P : ~Before(j, i)}

\* How rows may lie when the walk starts.
Settled(S) == IF Keyset THEN S
              ELSE {i \in S : \A j \in S \ {i} : Before(i, j) \/ Before(j, i)}

Init ==
    /\ list \in ByCursor \cup ByNumber
    /\ limit \in Limits
    /\ known \in SUBSET Ids
    /\ shown \in SUBSET known
    /\ list \in {"messages", "directory"} => shown = known
    /\ key \in [Ids -> Keys]
    /\ \A i \in Ids \ known : key[i] = CHOOSE k \in Keys : TRUE
    /\ list = "userSearch" => \A i, j \in known : key[i] = key[j] => i = j
    /\ admitted = TRUE
    /\ step = "ask"
    /\ token \in {NoCursor, Garbage}
    /\ page = 1
    /\ total = 0
    /\ seen = {} /\ twice = {} /\ sunk = {}
    /\ kept = Settled(shown)

-----------------------------------------------------------------------------
(* Pages by cursor.                                                        *)

\* What does not parse as a cursor asks for the first page.
Decode(t) == IF t = Garbage THEN NoCursor ELSE t

\* toISOString keeps the milliseconds the column has: nothing is lost.
Encode(i) == [at |-> key[i], id |-> i]

\* Mutants: the row's time alone makes the cursor; the row itself comes again.
AfterTime(c) == {i \in shown : c = NoCursor \/ key[i] < c.at}
AfterOrAt(c) == {i \in shown : c = NoCursor \/ key[i] < c.at \/ (key[i] = c.at /\ i <= c.id)}

\* where: the rows after the cursor.
After(c) == {i \in shown : \/ c = NoCursor
                           \/ key[i] < c.at
                           \/ key[i] = c.at /\ i < c.id}

Give(P) ==
    /\ seen' = seen \cup P
    /\ twice' = twice \cup (seen \cap P)

\* Mutant: takes no row more than the page has, and ends on a short page only.
GivePageBlind ==
    \E P \in Take(After(Decode(token)), limit) :
        /\ Give(P)
        /\ IF Cardinality(P) = limit
           THEN \E last \in P : /\ \A i \in P \ {last} : Before(i, last)
                                /\ token' = Encode(last)
                                /\ step' = "ask"
           ELSE token' = NoCursor /\ step' = "end"

\* One row more than the page has tells whether there is a next page.
GivePage ==
    \E taken \in Take(After(Decode(token)), limit + 1) :
        IF Cardinality(taken) > limit
        THEN \E P \in Take(taken, limit), last \in taken :
                /\ last \in P /\ \A i \in P \ {last} : Before(i, last)
                /\ Give(P)
                /\ token' = Encode(last)
                /\ step' = "ask"
        ELSE Give(taken) /\ token' = NoCursor /\ step' = "end"

\* MessagesService.list: assertMembership comes first.
AskForMessages ==
    /\ list = "messages" /\ step = "ask"
    /\ step' = IF admitted THEN "rows" ELSE "refused"
    /\ UNCHANGED <<list, limit, rows, token, page, total, history>>

ListMessages ==
    /\ list = "messages" /\ step = "rows"
    /\ GivePage
    /\ UNCHANGED <<list, limit, rows, page, total, kept, sunk>>

\* ConversationsService.list: the where clause asks for membership; the unread
\* counts that follow concern the rows of the page only.
ListConversations ==
    /\ list = "conversations" /\ step = "ask"
    /\ GivePage
    /\ UNCHANGED <<list, limit, rows, page, total, kept, sunk>>

\* NotificationsService.list, with unreadOnly or without.
ListNotifications ==
    /\ list = "notifications" /\ step = "ask"
    /\ GivePage
    /\ UNCHANGED <<list, limit, rows, page, total, kept, sunk>>

-----------------------------------------------------------------------------
(* Pages by number: the rows and their total are two queries, started       *)
(* together and answered in either order.                                  *)

\* Mutant: the first page is page 0.
SkipWholePages == page * limit

Skip == (page - 1) * limit

\* findMany { skip, take }.
Rows ==
    /\ step \in {"ask", "total"}
    /\ \E skipped \in Take(shown, Skip) : \E P \in Take(shown \ skipped, limit) : Give(P)
    /\ step' = IF step = "ask" THEN "rows" ELSE "both"
    /\ UNCHANGED total

\* count.
Total ==
    /\ step \in {"ask", "rows"}
    /\ total' = Cardinality(shown)
    /\ step' = IF step = "ask" THEN "total" ELSE "both"
    /\ UNCHANGED <<seen, twice>>

Query == (Rows \/ Total) /\ UNCHANGED <<list, limit, rows, token, page, kept, sunk>>

ListUsers == list = "directory" /\ Query
SearchUsers == list = "userSearch" /\ Query
SearchMessages == list = "messageSearch" /\ Query

\* The client goes on while page < totalPages.
TurnPage ==
    /\ step = "both"
    /\ IF page * limit < total THEN page' = page + 1 /\ step' = "ask"
                               ELSE step' = "end" /\ UNCHANGED page
    /\ UNCHANGED <<list, limit, rows, token, total, history>>

-----------------------------------------------------------------------------
(* The rows change.                                                        *)

\* Row i is at k from now on, shown or not: what can be counted on are the
\* other rows, or those before it, both where it was and where it is.
Change(i, k, visible) ==
    LET moved == [key EXCEPT ![i] = k]
        ahead == {j \in kept \ {i} : (i \in shown => ListedBefore(key, j, i))
                                     /\ (visible => ListedBefore(moved, j, i))}
    IN
    /\ known' = known \cup {i}
    /\ shown' = IF visible THEN shown \cup {i} ELSE shown \ {i}
    /\ key' = moved
    /\ kept' = IF Keyset THEN kept \ {i} ELSE ahead
    /\ sunk' = IF i \in known /\ k < key[i] THEN sunk \cup {i} ELSE sunk
    /\ UNCHANGED <<list, limit, admitted, client, seen, twice>>

Taken(k) == \E j \in known : key[j] = k

\* A row is inserted.  createdAt is taken before the insert commits: a row may
\* appear after one that is a little younger.  One is added to conversations of
\* any age, and users have any name that is free.
Insert(i, k) ==
    /\ i \notin known
    /\ list \notin {"conversations", "userSearch"} => \A j \in known : key[j] <= k + 1
    /\ list = "userSearch" => ~Taken(k)
    /\ Change(i, k, TRUE)

\* lastMessageAt follows the messages, back too when two sends overlap; a user
\* takes another name.
Move(i, k) ==
    /\ i \in known
    /\ list \in {"conversations", "userSearch"}
    /\ list = "userSearch" => ~Taken(k)
    /\ Change(i, k, i \in shown)

\* A notification is read (unreadOnly), a conversation left or deleted, a
\* message deleted or edited, a name changed: the row does not match any more.
\* A deleted message keeps its place in its own list.
Hide(i) ==
    /\ i \in shown
    /\ list \notin {"messages", "directory"}
    /\ Change(i, key[i], FALSE)

\* One is added again, an edit or a new name matches again; nobody unreads.
Show(i) ==
    /\ i \in known \ shown
    /\ list \in {"conversations", "userSearch", "messageSearch"}
    /\ Change(i, key[i], TRUE)

\* The client is removed from the conversation, or it is deleted.
Expel ==
    /\ list = "messages" /\ admitted
    /\ admitted' = FALSE
    /\ UNCHANGED <<list, limit, known, shown, key, client, history>>

Over == step \in {"end", "refused"} /\ UNCHANGED vars

Serve == \/ AskForMessages \/ ListMessages \/ ListConversations \/ ListNotifications
         \/ ListUsers \/ SearchUsers \/ SearchMessages \/ TurnPage

\* Bound: what changes after the walk has ended concerns nobody.
Next ==
    \/ Serve
    \/ /\ step \notin {"end", "refused"}
       /\ \/ \E i \in Ids, k \in Keys : Insert(i, k) \/ Move(i, k)
          \/ \E i \in Ids : Hide(i) \/ Show(i)
          \/ Expel
    \/ Over

Spec == Init /\ [][Next]_vars
-----------------------------------------------------------------------------
(* What must hold.                                                         *)

\* A walk by cursor ends with every row that was in the list from its first page
\* to its last and stayed where it was, whatever came, moved and went around it:
\* "two messages written in the same millisecond never get skipped ...
CursorSkipsNothing == Keyset /\ step = "end" => kept \subseteq seen

\* ... or duplicated across page boundaries": only a conversation whose
\* lastMessageAt went back can be given again.
CursorRepeatsNothing == Keyset => twice \subseteq sunk

\* A next cursor is given only if there is something after it: no empty page.
CursorLeadsOn ==
    [][token' \in Cursor /\ token' # token => After(token)' # {}]_vars

\* A walk by number gives, exactly once, the rows that stayed where they were
\* and had nothing change before them, although the total comes from a query of
\* its own.  A directory whose users register in order is such a list; one whose
\* users share a createdAt is not.
NumberedPagesAgree ==
    ~Keyset => /\ step = "end" => kept \subseteq seen
               /\ kept \cap twice = {}
=============================================================================
