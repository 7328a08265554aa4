------------------------------- MODULE Pages --------------------------------
(***************************************************************************)
(* The four lists a client reads page by page, while their rows change:    *)
(* the audit events, the staff, the products of the catalogue and those of *)
(* them that are published.  A page is one query: the rows after a cursor, *)
(* in the order of the list, one more than the client wants.  The cursor   *)
(* of the next page is made of the last row of this one.                   *)
(*                                                                         *)
(* Time is in ticks, PerMillisecond of them to a millisecond.  The         *)
(* database stamps rows with ticks; a Date, and a cursor that is made of   *)
(* one, keeps milliseconds.  A filter leaves rows out of the list, which   *)
(* is as if they were not present.                                         *)
(***************************************************************************)
EXTENDS Naturals, FiniteSets

CONSTANTS
  Ids,              \* of the rows, in the order of the database
  PerMillisecond,
  Limits,           \* the sizes of a page a client may ask for
  LastTick          \* bound: the clock stops here

ASSUME PagesAssumption ==
  /\ Ids \subseteq Nat /\ IsFiniteSet(Ids)
  /\ PerMillisecond \in Nat \ {0}
  /\ Limits \subseteq Nat \ {0}
  /\ LastTick \in Nat

VARIABLES
  list,       \* the list that is read
  limit,      \* the size of its pages
  clock,
  present,    \* the ids in the list
  stamp,      \* stamp[i]: the column row i is ordered by, 0 if absent
  moved,      \* the ids that were stamped, or came or left, since the first page
  phase,      \* "first" or "next": the page to be read, or "ended"
  cursor,     \* the cursor of the next page
  returned,   \* the rows of the pages so far
  lasts,      \* the last row of each
  twice       \* the ids that were returned again

table  == <<present, stamp, moved>>
client == <<phase, cursor, returned, lasts, twice>>
vars   == <<list, limit, clock, table, client>>

Lists == {"audit", "staff", "products", "published"}
Ticks == 0 .. LastTick
Keys  == [id : Ids \cup {0}, at : Ticks]
NoCursor == [id |-> 0, at |-> 0]

\* Mutation: the next millisecond.
RoundedUp(t) == t + PerMillisecond - (t % PerMillisecond)

\* toISOString
Truncated(t) == t - (t % PerMillisecond)

\* How a row is stamped at t: staff are ordered by id alone, and publishedAt
\* is a Date.
Stamped(l, t) ==
  CASE l = "staff"     -> 0
    [] l = "published" -> Truncated(t)
    [] OTHER           -> t
-----------------------------------------------------------------------------
(* One page *)

Rows == {[id |-> i, at |-> stamp[i]] : i \in present}

\* ORDER BY
Before(x, y) ==
  IF list = "staff" THEN x.id < y.id
  ELSE x.at > y.at \/ (x.at = y.at /\ x.id > y.id)

\* Mutation: the row of the cursor is not excluded.
AfterOrAt(row) ==
  IF list = "staff" THEN row.id >= cursor.id
  ELSE row.at < cursor.at \/ (row.at = cursor.at /\ row.id <= cursor.id)

\* WHERE
After(row) ==
  IF list = "staff" THEN row.id > cursor.id
  ELSE row.at < cursor.at \/ (row.at = cursor.at /\ row.id < cursor.id)

\* The first n of a set of rows, and the last of them.
First(n, rows) ==
  {x \in rows : Cardinality({y \in rows : Before(y, x)}) < n}
Final(rows) == CHOOSE x \in rows : \A y \in rows : y = x \/ Before(y, x)

\* Mutation: no more rows are taken than the client wants.
FetchedNoMore == First(limit, {row \in Rows : phase = "next" => After(row)})

Fetched == First(limit + 1, {row \in Rows : phase = "next" => After(row)})
Page    == First(limit, Fetched)
HasNext == Cardinality(Fetched) > limit

\* encodeCursor
Cursor(row) ==
  IF list = "staff" THEN row ELSE [row EXCEPT !.at = Truncated(@)]

ReadPage ==
  /\ phase # "ended"
  /\ phase' = IF HasNext THEN "next" ELSE "ended"
  /\ cursor' = IF HasNext THEN Cursor(Final(Page)) ELSE NoCursor
  /\ returned' = returned \cup Page
  /\ lasts' = IF HasNext THEN lasts \cup {Final(Page)} ELSE lasts
  /\ twice' = twice \cup ({x.id : x \in returned} \cap {x.id : x \in Page})
  /\ UNCHANGED <<list, limit, clock, table>>
-----------------------------------------------------------------------------
(* The rows meanwhile *)

Tick ==
  /\ phase # "ended" /\ clock < LastTick
  /\ clock' = clock + 1
  /\ UNCHANGED <<list, limit, table, client>>

Moves(i) == moved' = IF phase = "first" THEN moved ELSE moved \cup {i}
Stamp(i, t) == stamp' = [stamp EXCEPT ![i] = Stamped(list, t)]

\* A row comes into the list.  Its stamp is of the time its transaction or its
\* command began, which may be long before it commits, or the one it had when it
\* was in the list last.
Enter(i) ==
  /\ phase # "ended" /\ i \notin present
  /\ \E t \in 0 .. clock : Stamp(i, t)
  /\ present' = present \cup {i}
  /\ Moves(i)
  /\ UNCHANGED <<list, limit, clock, client>>

\* A product is archived, or is no longer what the filter asks for.
Leave(i) ==
  /\ phase # "ended" /\ i \in present
  /\ list \in {"products", "published"}
  /\ present' = present \ {i}
  /\ stamp' = [stamp EXCEPT ![i] = 0]
  /\ Moves(i)
  /\ UNCHANGED <<list, limit, clock, client>>

\* A command on a product sets updatedAt, a publication publishedAt.  The last
\* command to commit need not be the last to have begun: a row may move back.
Update(i) ==
  /\ phase # "ended" /\ i \in present
  /\ list \in {"products", "published"}
  /\ \E t \in 0 .. clock : Stamp(i, t)
  /\ Moves(i)
  /\ UNCHANGED <<list, limit, clock, present, client>>

Finished == phase = "ended" /\ UNCHANGED vars

Init ==
  /\ list \in Lists
  /\ limit \in Limits
  /\ clock \in Ticks
  /\ present \in SUBSET Ids
  /\ \E times \in [Ids -> 0 .. clock] :
       stamp = [i \in Ids |-> IF i \in present THEN Stamped(list, times[i]) ELSE 0]
  /\ moved = {}
  /\ phase = "first"
  /\ cursor = NoCursor
  /\ returned = {} /\ lasts = {} /\ twice = {}

Next ==
  \/ ReadPage
  \/ Tick
  \/ \E i \in Ids : Enter(i) \/ Leave(i) \/ Update(i)
  \/ Finished

\* The client asks for the next page as long as there is one.
Spec == Init /\ [][Next]_vars /\ WF_vars(ReadPage)
-----------------------------------------------------------------------------
(* Correctness *)

TypeOK ==
  /\ list \in Lists /\ limit \in Limits
  /\ clock \in Ticks
  /\ present \subseteq Ids /\ moved \subseteq Ids /\ twice \subseteq Ids
  /\ stamp \in [Ids -> 0 .. clock]
  /\ phase \in {"first", "next", "ended"}
  /\ cursor \in Keys
  /\ returned \subseteq Keys /\ lasts \subseteq returned

\* A row that stayed where it was is never returned by two pages, nor is one of
\* a list whose rows only come, however many come in between and whatever a
\* cursor lost of a stamp.
NoRowTwice ==
  twice \subseteq (IF list \in {"products", "published"} THEN moved ELSE {})

Stable == present \ moved
Returned(i) == \E x \in returned : x.id = i

\* A row that stayed where it was from the first page to the last was returned,
\* unless the cursor of a page lost the part of its stamp that put this row
\* behind: a row of the same millisecond, in the two lists ordered by a column
\* that is finer than that.
NothingSkipped ==
  phase = "ended" =>
    \A i \in Stable :
      \/ Returned(i)
      \/ /\ list \in {"audit", "products"}
         /\ \E x \in lasts : /\ Truncated(x.at) = Truncated(stamp[i])
                             /\ Before(x, [id |-> i, at |-> stamp[i]])

\* A client that keeps asking reaches the last page, although rows keep coming.
PagingEnds == <>(phase = "ended")
-----------------------------------------------------------------------------
(* What the documents say and the code does not keep *)

\* Contract of the catalogue, 29: pages do not skip stable rows.
StableRowsReturned ==
  list = "products" /\ phase = "ended" => \A i \in Stable : Returned(i)
=============================================================================
