----------------------------- MODULE PagesProofs -----------------------------
(***************************************************************************)
(* Proofs about Pages, for every finite set of rows, every size of a page  *)
(* and every precision of the clock.                                       *)
(***************************************************************************)
EXTENDS Pages, FiniteSetTheorems, WellFoundedInduction, TLAPS

-----------------------------------------------------------------------------
(* Times *)

LEMMA Divided ==
  ASSUME NEW t \in Nat
  PROVE  \E q \in Nat, r \in Nat :
           t = PerMillisecond * q + r /\ r < PerMillisecond /\ Truncated(t) = PerMillisecond * q
<1> DEFINE p == PerMillisecond
<1>1. p \in Nat \ {0}
  BY PagesAssumption
<1>2. t - (t % p) = p * (t \div p)
  BY <1>1
<1>3. t \div p \in Nat /\ t % p \in Nat /\ t % p < p
  BY <1>1
<1>4. PICK q \in Nat, r \in Nat : q = t \div p /\ r = t % p
  BY <1>3
<1>5. Truncated(t) = p * q /\ t - r = p * q
  BY <1>2, <1>4 DEF Truncated
<1>6. p * q \in Nat
  BY <1>1
<1>7. t = p * q + r
  BY <1>5, <1>6
<1> QED
  BY <1>3, <1>4, <1>5, <1>7

LEMMA TruncatedType ==
  ASSUME NEW t \in Nat
  PROVE  Truncated(t) \in Nat /\ Truncated(t) <= t
<1>1. t % PerMillisecond \in 0 .. t
  <2>1. PerMillisecond \in Nat \ {0}
    BY PagesAssumption
  <2> QED
    BY <2>1
<1> QED
  BY <1>1 DEF Truncated

\* Times between a time and its millisecond are of that millisecond.
LEMMA SameMillisecond ==
  ASSUME NEW s \in Nat, NEW t \in Nat, Truncated(t) <= s, s <= t
  PROVE  Truncated(s) = Truncated(t)
<1> DEFINE p == PerMillisecond
<1>1. p \in Nat \ {0}
  BY PagesAssumption
<1>2. PICK q \in Nat, r \in Nat : t = p * q + r /\ r < p /\ Truncated(t) = p * q
  BY Divided
<1>3. PICK u \in Nat, v \in Nat : s = p * u + v /\ v < p /\ Truncated(s) = p * u
  BY Divided
<1>4. u = q
  <2>1. ~ (u <= q - 1)
    <3>1. u <= q - 1 => p * u + p <= p * q
      BY <1>1, <1>2, <1>3
    <3> QED
      BY <1>1, <1>2, <1>3, <3>1
  <2>2. ~ (q <= u - 1)
    <3>1. q <= u - 1 => p * q + p <= p * u
      BY <1>1, <1>2, <1>3
    <3> QED
      BY <1>1, <1>2, <1>3, <3>1
  <2> QED
    BY <1>2, <1>3, <2>1, <2>2
<1> QED
  BY <1>2, <1>3, <1>4

LEMMA StampedType ==
  ASSUME NEW l \in Lists, NEW t \in Nat
  PROVE  /\ Stamped(l, t) \in Nat /\ Stamped(l, t) <= t
         /\ l = "published" => Truncated(Stamped(l, t)) = Stamped(l, t)
<1>1. Truncated(t) \in Nat /\ Truncated(t) <= t
  BY TruncatedType
<1>2. Truncated(Truncated(t)) = Truncated(t)
  BY <1>1, SameMillisecond
<1> QED
  BY <1>1, <1>2 DEF Stamped, Lists
-----------------------------------------------------------------------------
(* The order of a list *)

Ordered(R) ==
  /\ IsFiniteSet(R)
  /\ \A x \in R : ~ Before(x, x)
  /\ \A x, y \in R : x = y \/ Before(x, y) \/ Before(y, x)
  /\ \A x, y, z \in R : Before(x, y) /\ Before(y, z) => Before(x, z)

Ahead(R, x) == {y \in R : Before(y, x)}

LEMMA RowType ==
  ASSUME TypeOK, NEW x \in Rows
  PROVE  /\ x = [id |-> x.id, at |-> x.at] /\ x.id \in present /\ x.at = stamp[x.id]
         /\ x.id \in Ids /\ x.id \in Nat /\ x.at \in Nat /\ x.at <= clock /\ x \in Keys
<1>1. PICK i \in present : x = [id |-> i, at |-> stamp[i]]
  BY DEF Rows
<1>2. i \in Ids /\ i \in Nat /\ stamp[i] \in 0 .. clock
  BY PagesAssumption DEF TypeOK
<1>3. clock \in Nat /\ clock <= LastTick
  BY PagesAssumption DEF TypeOK, Ticks
<1> QED
  BY <1>1, <1>2, <1>3, PagesAssumption DEF Keys, Ticks

LEMMA RowsOrdered ==
  ASSUME TypeOK
  PROVE  Ordered(Rows)
<1>1. IsFiniteSet(Rows)
  <2>1. IsFiniteSet(present)
    BY PagesAssumption, FS_Subset DEF TypeOK
  <2>2. [i \in present |-> [id |-> i, at |-> stamp[i]]] \in Surjection(present, Rows)
    BY DEF Surjection, Rows
  <2> QED
    BY <2>1, <2>2, FS_Surjection
<1>2. \A x \in Rows : x.id \in Nat /\ x.at \in Nat
  BY RowType
<1>3. \A x, y \in Rows : x.id = y.id => x = y
  BY RowType
<1>4. \A x \in Rows : ~ Before(x, x)
  BY <1>2 DEF Before
<1>5. \A x, y \in Rows : x = y \/ Before(x, y) \/ Before(y, x)
  BY <1>2, <1>3 DEF Before
<1>6. \A x, y, z \in Rows : Before(x, y) /\ Before(y, z) => Before(x, z)
  BY <1>2 DEF Before
<1> QED
  BY <1>1, <1>4, <1>5, <1>6 DEF Ordered

LEMMA PartOrdered ==
  ASSUME NEW R, Ordered(R), NEW S, S \subseteq R
  PROVE  Ordered(S)
BY FS_Subset DEF Ordered

LEMMA AheadFinite ==
  ASSUME NEW R, Ordered(R), NEW x
  PROVE  IsFiniteSet(Ahead(R, x)) /\ Cardinality(Ahead(R, x)) \in Nat
BY FS_Subset, FS_CardinalityType DEF Ordered, Ahead

\* Fewer rows are ahead of what is ahead.
LEMMA AheadFewer ==
  ASSUME NEW R, Ordered(R), NEW x \in R, NEW y \in R, Before(x, y)
  PROVE  Cardinality(Ahead(R, x)) < Cardinality(Ahead(R, y))
<1>1. Ahead(R, x) \subseteq Ahead(R, y)
  BY DEF Ahead, Ordered
<1>2. x \in Ahead(R, y) /\ x \notin Ahead(R, x)
  BY DEF Ahead, Ordered
<1>3. /\ Cardinality(Ahead(R, x)) <= Cardinality(Ahead(R, y))
      /\ Cardinality(Ahead(R, x)) # Cardinality(Ahead(R, y))
  BY <1>1, <1>2, AheadFinite, FS_Subset
<1> QED
  BY <1>3, AheadFinite

\* Rows have a first and a last one.
LEMMA FirstOfAll ==
  ASSUME NEW R, Ordered(R), R # {}
  PROVE  \E x \in R : \A y \in R : ~ Before(y, x)
<1> DEFINE S == {Ahead(R, x) : x \in R}
<1>1. S \subseteq FiniteSubsetsOf(R) /\ S # {}
  <2>1. \A x \in R : Ahead(R, x) \subseteq R /\ IsFiniteSet(Ahead(R, x))
    BY AheadFinite DEF Ahead
  <2> QED
    BY <2>1 DEF FiniteSubsetsOf
<1>2. PICK s \in S : \A t \in S : <<t, s>> \notin StrictSubsetOrdering(R)
  BY <1>1, WFMin, FS_StrictSubsetOrderingWellFounded
<1>3. PICK x \in R : s = Ahead(R, x)
  BY <1>2
<1>4. ASSUME NEW y \in R, Before(y, x)
      PROVE  FALSE
  <2>1. Ahead(R, y) \subseteq Ahead(R, x) /\ Ahead(R, y) # Ahead(R, x)
    BY <1>4 DEF Ahead, Ordered
  <2>2. <<Ahead(R, y), s>> \in StrictSubsetOrdering(R)
    BY <1>3, <2>1 DEF StrictSubsetOrdering, Ahead
  <2> QED
    BY <1>2, <2>2
<1> QED
  BY <1>4

LEMMA LastOfAll ==
  ASSUME NEW R, Ordered(R), R # {}
  PROVE  \E x \in R : \A y \in R : y = x \/ Before(y, x)
<1> DEFINE Behind(x) == {y \in R : Before(x, y)}
           S == {Behind(x) : x \in R}
<1>1. S \subseteq FiniteSubsetsOf(R) /\ S # {}
  <2>1. \A x \in R : Behind(x) \subseteq R /\ IsFiniteSet(Behind(x))
    BY FS_Subset DEF Ordered
  <2> QED
    BY <2>1 DEF FiniteSubsetsOf
<1>2. PICK s \in S : \A t \in S : <<t, s>> \notin StrictSubsetOrdering(R)
  BY <1>1, WFMin, FS_StrictSubsetOrderingWellFounded
<1>3. PICK x \in R : s = Behind(x)
  BY <1>2
<1>4. ASSUME NEW y \in R, Before(x, y)
      PROVE  FALSE
  <2>1. Behind(y) \subseteq Behind(x) /\ Behind(y) # Behind(x)
    BY <1>4 DEF Ordered
  <2>2. <<Behind(y), s>> \in StrictSubsetOrdering(R)
    BY <1>3, <2>1 DEF StrictSubsetOrdering
  <2> QED
    BY <1>2, <2>2
<1> QED
  BY <1>4 DEF Ordered

LEMMA FirstClosed ==
  ASSUME NEW R, Ordered(R), NEW n \in Nat, NEW y \in First(n, R),
         NEW x \in R, Before(x, y)
  PROVE  x \in First(n, R)
<1>1. y \in R /\ Cardinality(Ahead(R, y)) < n
  BY DEF First, Ahead
<1>2. Cardinality(Ahead(R, x)) < Cardinality(Ahead(R, y))
  BY <1>1, AheadFewer
<1>3. Cardinality(Ahead(R, x)) < n
  BY <1>1, <1>2, AheadFinite
<1> QED
  BY <1>3 DEF First, Ahead
-----------------------------------------------------------------------------
(* A page *)

\* The rows that are left for this page.
Candidates == {row \in Rows : phase = "next" => After(row)}

LEMMA PageParts ==
  ASSUME TypeOK
  PROVE  /\ Page \subseteq Candidates
         /\ \A y \in Page : \A x \in Candidates \ Page : Before(y, x)
         /\ HasNext => /\ Final(Page) \in Page
                       /\ \A y \in Page : y = Final(Page) \/ Before(y, Final(Page))
         /\ ~ HasNext => Page = Candidates
<1>1. Ordered(Candidates)
  BY RowsOrdered, PartOrdered DEF Candidates
<1>2. Fetched = First(limit + 1, Candidates) /\ Page = First(limit, Fetched)
  BY DEF Fetched, Page, Candidates
<1>3. Page \subseteq Fetched /\ Fetched \subseteq Candidates
  BY <1>2 DEF First
<1>4. Ordered(Fetched) /\ Ordered(Page)
  BY <1>1, <1>3, PartOrdered
<1>5. limit \in Nat \ {0} /\ limit + 1 \in Nat
  BY PagesAssumption DEF TypeOK
<1>6. ASSUME NEW y \in Page, NEW x \in Candidates, x \notin Page
      PROVE  Before(y, x)
  <2>1. y \in Fetched /\ y \in Candidates /\ x # y
    BY <1>3, <1>6
  <2>2. ~ Before(x, y)
    <3> SUFFICES ASSUME Before(x, y)
                 PROVE  FALSE
      OBVIOUS
    <3>1. x \in Fetched
      BY <1>1, <1>2, <1>5, <2>1, FirstClosed
    <3>2. x \in Page
      BY <1>2, <1>4, <1>5, <3>1, FirstClosed
    <3> QED
      BY <1>6, <3>2
  <2> QED
    BY <1>1, <2>1, <2>2 DEF Ordered
<1>7. ASSUME HasNext
      PROVE  /\ Final(Page) \in Page
             /\ \A y \in Page : y = Final(Page) \/ Before(y, Final(Page))
  <2>1. Fetched # {}
    BY <1>5, <1>7, FS_EmptySet DEF HasNext
  <2>2. PICK x \in Fetched : \A y \in Fetched : ~ Before(y, x)
    BY <1>4, <2>1, FirstOfAll
  <2>3. Ahead(Fetched, x) = {}
    BY <2>2 DEF Ahead
  <2>4. Cardinality(Ahead(Fetched, x)) < limit
    BY <1>5, <2>3, FS_EmptySet
  <2>5. x \in Page
    BY <1>2, <2>4 DEF First, Ahead
  <2> QED
    BY <1>4, <2>5, LastOfAll DEF Final
<1>8. ASSUME ~ HasNext
      PROVE  Page = Candidates
  <2>1. IsFiniteSet(Fetched) /\ Cardinality(Fetched) \in Nat /\ Cardinality(Fetched) <= limit
    BY <1>4, <1>5, <1>8, FS_CardinalityType DEF Ordered, HasNext
  <2>2. ASSUME NEW x \in Fetched
        PROVE  x \in Page
    <3>1. Ahead(Fetched, x) \subseteq Fetched /\ x \notin Ahead(Fetched, x)
      BY <1>4 DEF Ahead, Ordered
    <3>2. /\ Cardinality(Ahead(Fetched, x)) <= Cardinality(Fetched)
          /\ Cardinality(Ahead(Fetched, x)) # Cardinality(Fetched)
      BY <2>1, <3>1, FS_Subset
    <3>3. Cardinality(Ahead(Fetched, x)) < limit
      BY <1>4, <1>5, <2>1, <3>2, AheadFinite
    <3> QED
      BY <1>2, <3>3 DEF First, Ahead
  <2>3. Candidates \subseteq Fetched
    <3> SUFFICES ASSUME Candidates \ Fetched # {}
                 PROVE  FALSE
      OBVIOUS
    <3>1. Ordered(Candidates \ Fetched)
      BY <1>1, PartOrdered
    <3>2. PICK x \in Candidates \ Fetched : \A y \in Candidates \ Fetched : ~ Before(y, x)
      BY <3>1, FirstOfAll
    <3>3. Ahead(Candidates, x) \subseteq Fetched
      BY <3>2 DEF Ahead
    <3>4. Cardinality(Ahead(Candidates, x)) <= Cardinality(Fetched)
      BY <2>1, <3>3, FS_Subset
    <3>5. Cardinality(Ahead(Candidates, x)) < limit + 1
      BY <1>1, <1>5, <2>1, <3>4, AheadFinite
    <3>6. x \in Fetched
      BY <1>2, <3>2, <3>5 DEF First, Ahead
    <3> QED
      BY <3>2, <3>6
  <2> QED
    BY <1>3, <2>2, <2>3
<1> QED
  BY <1>2, <1>3, <1>6, <1>7, <1>8
-----------------------------------------------------------------------------
(* Types *)

LEMMA ClockType ==
  ASSUME TypeOK
  PROVE  clock \in Nat /\ clock <= LastTick /\ LastTick \in Nat
BY PagesAssumption DEF TypeOK, Ticks

LEMMA CursorType ==
  ASSUME TypeOK, NEW x \in Rows, NEW c, c = Cursor(x)
  PROVE  /\ c \in Keys /\ c.id = x.id
         /\ c.at = IF list = "staff" THEN x.at ELSE Truncated(x.at)
<1>1. x = [id |-> x.id, at |-> x.at] /\ x.at \in Nat /\ x.at <= clock /\ x \in Keys
  BY RowType
<1>2. Truncated(x.at) \in Ticks
  BY <1>1, TruncatedType, ClockType DEF Ticks
<1> QED
  BY <1>1, <1>2 DEF Cursor, Keys

LEMMA PageType ==
  ASSUME TypeOK, ReadPage
  PROVE  TypeOK'
<1>1. Page \subseteq Rows
  BY PageParts DEF Candidates
<1>2. \A x \in Page : x \in Keys /\ x.id \in Ids
  BY <1>1, RowType
<1>3. returned' \subseteq Keys
  BY <1>2 DEF ReadPage, TypeOK
<1>4. lasts' \subseteq returned'
  BY PageParts DEF ReadPage, TypeOK
<1>5. cursor' \in Keys
  <2>1. CASE HasNext
    <3>1. Final(Page) \in Rows
      BY <1>1, <2>1, PageParts
    <3>2. PICK c : c = Cursor(Final(Page))
      OBVIOUS
    <3>3. cursor' = c
      BY <2>1, <3>2 DEF ReadPage
    <3> QED
      BY <3>1, <3>2, <3>3, CursorType
  <2>2. CASE ~ HasNext
    BY <2>2, PagesAssumption DEF ReadPage, NoCursor, Keys, Ticks
  <2> QED
    BY <2>1, <2>2
<1>6. twice' \subseteq Ids
  BY <1>2 DEF ReadPage, TypeOK
<1> QED
  BY <1>3, <1>4, <1>5, <1>6 DEF ReadPage, table, TypeOK

\* What a write leaves in the column the list is ordered by.
LEMMA StampType ==
  ASSUME TypeOK, NEW i \in Ids, NEW t \in 0 .. clock, Stamp(i, t)
  PROVE  /\ stamp' \in [Ids -> 0 .. clock]
         /\ list = "published" => Truncated(stamp'[i]) = stamp'[i]
         /\ \A j \in Ids \ {i} : stamp'[j] = stamp[j]
<1>1. t \in Nat /\ t <= clock /\ clock \in Nat /\ list \in Lists
  BY ClockType DEF TypeOK
<1>2. PICK s \in 0 .. clock : /\ s = Stamped(list, t)
                              /\ list = "published" => Truncated(s) = s
  BY <1>1, StampedType
<1>3. stamp' = [stamp EXCEPT ![i] = s] /\ stamp \in [Ids -> 0 .. clock]
  BY <1>2 DEF Stamp, TypeOK
<1> QED
  BY <1>2, <1>3

LEMMA ClearedType ==
  ASSUME TypeOK, NEW i \in Ids, stamp' = [stamp EXCEPT ![i] = 0]
  PROVE  /\ stamp' \in [Ids -> 0 .. clock]
         /\ Truncated(stamp'[i]) = stamp'[i]
         /\ \A j \in Ids \ {i} : stamp'[j] = stamp[j]
<1>1. stamp \in [Ids -> 0 .. clock] /\ 0 \in 0 .. clock
  BY ClockType DEF TypeOK
<1>2. stamp'[i] = 0
  BY <1>1
<1>3. Truncated(0) = 0
  BY TruncatedType
<1> QED
  BY <1>1, <1>2, <1>3

\* A row that comes, leaves or is written.
Writes(i) ==
  /\ phase # "ended" /\ UNCHANGED <<list, limit, clock, client>> /\ Moves(i)
  /\ present' \subseteq Ids /\ stamp' \in [Ids -> 0 .. clock]
  /\ list = "published" => Truncated(stamp'[i]) = stamp'[i]
  /\ \A j \in Ids \ {i} : stamp'[j] = stamp[j] /\ (j \in present' <=> j \in present)
  /\ i \in present => list \in {"products", "published"}

LEMMA RowWrites ==
  ASSUME TypeOK, NEW i \in Ids, Enter(i) \/ Leave(i) \/ Update(i)
  PROVE  Writes(i)
<1>1. present \subseteq Ids
  BY DEF TypeOK
<1>2. CASE Enter(i)
  <2>1. PICK t \in 0 .. clock : Stamp(i, t)
    BY <1>2 DEF Enter
  <2> QED
    BY <1>1, <1>2, <2>1, StampType DEF Enter, Writes
<1>3. CASE Leave(i)
  BY <1>1, <1>3, ClearedType DEF Leave, Writes
<1>4. CASE Update(i)
  <2>1. PICK t \in 0 .. clock : Stamp(i, t)
    BY <1>4 DEF Update
  <2> QED
    BY <1>1, <1>4, <2>1, StampType DEF Update, Writes
<1> QED
  BY <1>2, <1>3, <1>4

LEMMA TypeStep ==
  ASSUME TypeOK, Next
  PROVE  TypeOK'
<1>1. CASE Tick
  <2>1. clock' \in Ticks /\ \A t \in 0 .. clock : t \in 0 .. clock'
    BY <1>1, ClockType DEF Tick, Ticks
  <2>2. stamp' \in [Ids -> 0 .. clock']
    BY <1>1, <2>1 DEF Tick, table, TypeOK
  <2> QED
    BY <1>1, <2>1, <2>2 DEF Tick, table, client, TypeOK
<1>2. ASSUME NEW i \in Ids, Writes(i)
      PROVE  TypeOK'
  <2>1. moved' \subseteq Ids
    BY <1>2 DEF Writes, Moves, TypeOK
  <2> QED
    BY <1>2, <2>1 DEF Writes, client, TypeOK
<1>3. CASE Finished
  BY <1>3 DEF Finished, vars, table, client, TypeOK
<1> QED
  BY <1>1, <1>2, <1>3, PageType, RowWrites DEF Next

LEMMA InitStamps ==
  ASSUME Init
  PROVE  /\ stamp \in [Ids -> 0 .. clock]
         /\ list = "published" => \A i \in Ids : Truncated(stamp[i]) = stamp[i]
<1>1. PICK times \in [Ids -> 0 .. clock] :
        stamp = [i \in Ids |-> IF i \in present THEN Stamped(list, times[i]) ELSE 0]
  BY DEF Init
<1>2. clock \in Nat /\ list \in Lists
  BY PagesAssumption DEF Init, Ticks
<1>3. \A i \in Ids : times[i] \in Nat /\ times[i] <= clock
  BY <1>2
<1>4. Truncated(0) = 0
  BY TruncatedType
<1>5. ASSUME NEW i \in Ids
      PROVE  /\ stamp[i] \in 0 .. clock
             /\ list = "published" => Truncated(stamp[i]) = stamp[i]
  <2>1. CASE i \in present
    <3>1. stamp[i] = Stamped(list, times[i])
      BY <1>1, <2>1
    <3>2. PICK t \in Nat : t = times[i] /\ t <= clock
      BY <1>3
    <3> QED
      BY <1>2, <3>1, <3>2, StampedType
  <2>2. CASE i \notin present
    BY <1>1, <1>2, <1>4, <2>2
  <2> QED
    BY <2>1, <2>2
<1> QED
  BY <1>1, <1>5

\* Rows, cursors and pages are what they should be, whatever the rows do.
THEOREM TypeCorrect == Spec => []TypeOK
<1>1. Init => TypeOK
  BY InitStamps, PagesAssumption DEF Init, TypeOK, NoCursor, Keys, Ticks
<1>2. TypeOK /\ [Next]_vars => TypeOK'
  <2>1. TypeOK /\ UNCHANGED vars => TypeOK'
    BY DEF vars, table, client, TypeOK
  <2> QED
    BY <2>1, TypeStep
<1> QED
  BY <1>1, <1>2, PTL DEF Spec
-----------------------------------------------------------------------------
(* Pages follow each other *)

RowOf(i) == [id |-> i, at |-> stamp[i]]

\* After, of any cursor.
Past(c, row) ==
  IF list = "staff" THEN row.id > c.id
  ELSE row.at < c.at \/ (row.at = c.at /\ row.id < c.id)

\* A row of the millisecond of a cursor, which the cursor passed over.
Lost(i) ==
  /\ list \in {"audit", "products"}
  /\ \E x \in lasts : Truncated(x.at) = Truncated(stamp[i]) /\ Before(x, RowOf(i))

\* The rows that may be returned again.
Written == IF list \in {"products", "published"} THEN moved ELSE {}

\* What was returned lies behind the cursor, and is still there unless it was
\* written; what stayed where it was lies ahead, was returned or is lost.
PagedInv ==
  /\ list = "published" => \A i \in Ids : Truncated(stamp[i]) = stamp[i]
  /\ phase = "first" => returned = {}
  /\ phase = "next" => \A x \in returned : ~ Past(cursor, x)
  /\ \A x \in returned : x.id \in Written \/ (x.id \in present /\ stamp[x.id] = x.at)
  /\ twice \subseteq Written
  /\ phase # "first" =>
       \A i \in Stable : Returned(i) \/ Lost(i) \/ (phase = "next" /\ Past(cursor, RowOf(i)))

LEMMA KeyType ==
  ASSUME TypeOK, NEW x \in Keys
  PROVE  x = [id |-> x.id, at |-> x.at] /\ x.id \in Nat /\ x.at \in Nat
<1>1. PICK i \in Ids \cup {0}, t \in 0 .. LastTick : x = [id |-> i, at |-> t]
  BY DEF Keys, Ticks
<1>2. i \in Nat /\ t \in Nat
  BY PagesAssumption
<1> QED
  BY <1>1, <1>2

\* What was returned stays behind the cursor of the next page.
LEMMA ReturnedBehind ==
  ASSUME TypeOK, NEW l \in Rows, NEW c, c = Cursor(l), NEW x \in Keys,
         x = l \/ Before(x, l) \/ (~ Past(cursor, x) /\ Past(cursor, l))
  PROVE  ~ Past(c, x)
<1>1. /\ c \in Keys /\ c.id = l.id
      /\ c.at = IF list = "staff" THEN l.at ELSE Truncated(l.at)
  BY CursorType
<1>2. l \in Keys /\ cursor \in Keys
  BY RowType DEF TypeOK
<1>3. /\ l.id \in Nat /\ l.at \in Nat /\ x.id \in Nat /\ x.at \in Nat
      /\ c.id \in Nat /\ c.at \in Nat /\ cursor.id \in Nat /\ cursor.at \in Nat
  BY <1>1, <1>2, KeyType
<1>4. c.at <= l.at
  BY <1>1, <1>3, TruncatedType
<1>5. CASE x = l \/ Before(x, l)
  BY <1>1, <1>3, <1>4, <1>5 DEF Past, Before
<1>6. CASE ~ Past(cursor, x) /\ Past(cursor, l)
  BY <1>1, <1>3, <1>4, <1>6 DEF Past
<1> QED
  BY <1>5, <1>6

\* What comes after the last row comes after its cursor, unless both are of one
\* millisecond and the column is finer.
LEMMA RestAhead ==
  ASSUME TypeOK, NEW l \in Rows, NEW c, c = Cursor(l), NEW r \in Rows, Before(l, r),
         list = "published" => Truncated(l.at) = l.at
  PROVE  \/ Past(c, r)
         \/ list \in {"audit", "products"} /\ Truncated(l.at) = Truncated(r.at)
<1>1. c.id = l.id /\ c.at = IF list = "staff" THEN l.at ELSE Truncated(l.at)
  BY CursorType
<1>2. l.id \in Nat /\ l.at \in Nat /\ r.id \in Nat /\ r.at \in Nat
  BY RowType
<1>3. Truncated(l.at) \in Nat
  BY <1>2, TruncatedType
<1>4. list \in Lists
  BY DEF TypeOK
<1>5. CASE list = "staff"
  BY <1>1, <1>5 DEF Past, Before
<1>6. CASE list = "published"
  BY <1>1, <1>2, <1>6 DEF Past, Before
<1>7. CASE list \in {"audit", "products"}
  <2>1. list # "staff"
    BY <1>7
  <2>2. r.at <= l.at
    BY <1>2, <2>1 DEF Before
  <2>3. CASE r.at < Truncated(l.at)
    BY <1>1, <2>1, <2>3 DEF Past
  <2>4. CASE Truncated(l.at) <= r.at
    <3>1. Truncated(r.at) = Truncated(l.at)
      BY <1>2, <2>2, <2>4, SameMillisecond
    <3> QED
      BY <1>7, <3>1
  <2> QED
    BY <1>2, <1>3, <2>3, <2>4
<1> QED
  BY <1>4, <1>5, <1>6, <1>7 DEF Lists

\* A page leaves it so, and so does whatever happens to a row in between.
LEMMA ReadPaged ==
  ASSUME TypeOK, PagedInv, ReadPage
  PROVE  PagedInv'
<1>1. /\ UNCHANGED <<list, limit, clock, present, stamp, moved>>
      /\ returned' = returned \cup Page
      /\ phase \in {"first", "next"} /\ phase' = IF HasNext THEN "next" ELSE "ended"
  BY DEF ReadPage, table, TypeOK
<1>2. /\ Page \subseteq Rows
      /\ \A x \in Page : phase = "next" => Past(cursor, x)
  BY PageParts DEF Candidates, After, Past
<1>3. \A x \in Page : /\ x = [id |-> x.id, at |-> x.at] /\ x \in Keys
                      /\ x.id \in present /\ stamp[x.id] = x.at
  BY <1>2, RowType
<1>4. \A x \in returned : /\ x = [id |-> x.id, at |-> x.at] /\ x \in Keys
                          /\ x.id \in Written \/ (x.id \in present /\ stamp[x.id] = x.at)
  BY KeyType DEF TypeOK, PagedInv
<1>5. Written' = Written
  BY <1>1 DEF Written
<1>6. \A x \in returned' : x.id \in Written \/ (x.id \in present /\ stamp[x.id] = x.at)
  BY <1>1, <1>3, <1>4
<1>7. twice' \subseteq Written
  <2>1. ASSUME NEW x \in returned, NEW y \in Page, x.id = y.id
        PROVE  x.id \in Written
    <3>1. phase = "next" /\ ~ Past(cursor, x) /\ Past(cursor, y)
      BY <1>1, <1>2, <2>1 DEF PagedInv
    <3>2. x # y
      BY <3>1
    <3> QED
      BY <1>3, <1>4, <2>1, <3>2
  <2>2. twice \subseteq Written
    BY DEF PagedInv
  <2> QED
    BY <2>1, <2>2 DEF ReadPage
<1>8. CASE HasNext
  <2>1. PICK l \in Page : l = Final(Page) /\ \A y \in Page : y = l \/ Before(y, l)
    BY <1>8, PageParts
  <2>2. PICK c : c = Cursor(l)
    OBVIOUS
  <2>3. phase' = "next" /\ cursor' = c /\ lasts' = lasts \cup {l}
    BY <1>8, <2>1, <2>2 DEF ReadPage
  <2>4. l \in Rows /\ (phase = "next" => Past(cursor, l))
    BY <1>2
  <2>5. ASSUME NEW x \in returned'
        PROVE  ~ Past(c, x)
    <3>1. x \in Keys
      BY <1>1, <1>3, <1>4, <2>5
    <3>2. x = l \/ Before(x, l) \/ (~ Past(cursor, x) /\ Past(cursor, l))
      BY <1>1, <2>1, <2>4, <2>5 DEF PagedInv
    <3> QED
      BY <2>2, <2>4, <3>1, <3>2, ReturnedBehind
  <2>6. ASSUME NEW i \in Stable
        PROVE  \/ Returned(i)' \/ Past(c, RowOf(i))
               \/ /\ list \in {"audit", "products"}
                  /\ \E x \in lasts' : /\ Truncated(x.at) = Truncated(stamp[i])
                                       /\ Before(x, RowOf(i))
    <3>1. RowOf(i) \in Rows /\ RowOf(i).id = i /\ RowOf(i).at = stamp[i]
      BY DEF RowOf, Rows, Stable
    <3>2. CASE Returned(i)
      BY <1>1, <3>2 DEF Returned
    <3>3. CASE Lost(i)
      BY <2>3, <3>3 DEF Lost
    <3>4. CASE phase = "next" => Past(cursor, RowOf(i))
      <4>1. RowOf(i) \in Candidates
        BY <3>1, <3>4 DEF Candidates, After, Past
      <4>2. CASE RowOf(i) \in Page
        BY <1>1, <3>1, <4>2 DEF Returned
      <4>3. CASE RowOf(i) \notin Page
        <5>1. Before(l, RowOf(i))
          BY <4>1, <4>3, PageParts
        <5>2. list = "published" => Truncated(l.at) = l.at
          BY <2>4, RowType DEF PagedInv
        <5>3. \/ Past(c, RowOf(i))
              \/ list \in {"audit", "products"} /\ Truncated(l.at) = Truncated(RowOf(i).at)
          BY <2>2, <2>4, <3>1, <5>1, <5>2, RestAhead
        <5> QED
          BY <2>3, <3>1, <5>1, <5>3
      <4> QED
        BY <4>2, <4>3
    <3> QED
      BY <1>1, <3>2, <3>3, <3>4 DEF PagedInv
  <2>7. \A x \in returned' : ~ Past(cursor, x)'
    BY <1>1, <2>3, <2>5 DEF Past
  <2>8. \A i \in Stable' : \/ Returned(i)' \/ Lost(i)' \/ Past(cursor, RowOf(i))'
    BY <1>1, <2>3, <2>6 DEF Stable, Lost, Past, Before, RowOf
  <2> QED
    BY <1>1, <1>5, <1>6, <1>7, <2>3, <2>7, <2>8 DEF PagedInv
<1>9. CASE ~ HasNext
  <2>1. phase' = "ended" /\ lasts' = lasts /\ Page = Candidates
    BY <1>9, PageParts DEF ReadPage
  <2>2. ASSUME NEW i \in Stable
        PROVE  Returned(i)' \/ Lost(i)
    <3>1. RowOf(i) \in Rows /\ RowOf(i).id = i
      BY DEF RowOf, Rows, Stable
    <3>2. CASE phase = "next" => Past(cursor, RowOf(i))
      BY <1>1, <2>1, <3>1, <3>2 DEF Candidates, After, Past, Returned
    <3> QED
      BY <1>1, <3>2 DEF PagedInv, Returned
  <2>3. \A i \in Stable' : Returned(i)' \/ Lost(i)'
    BY <1>1, <2>1, <2>2 DEF Stable, Lost, Before, RowOf
  <2> QED
    BY <1>1, <1>5, <1>6, <1>7, <2>1, <2>3 DEF PagedInv
<1> QED
  BY <1>8, <1>9

LEMMA WritePaged ==
  ASSUME TypeOK, PagedInv, NEW i \in Ids, Writes(i)
  PROVE  PagedInv'
<1>1. /\ UNCHANGED <<list, limit, clock, phase, cursor, returned, lasts, twice>>
      /\ phase # "ended"
      /\ moved' = IF phase = "first" THEN moved ELSE moved \cup {i}
      /\ \A j \in Ids \ {i} : stamp'[j] = stamp[j] /\ (j \in present' <=> j \in present)
      /\ i \in present => list \in {"products", "published"}
  BY DEF Writes, Moves, client
<1>2. list' = "published" => \A j \in Ids : Truncated(stamp'[j]) = stamp'[j]
  BY <1>1 DEF Writes, PagedInv
<1>3. Written \subseteq Written'
  BY <1>1 DEF Written
<1>4. phase = "next" => \A x \in returned : ~ Past(cursor, x)'
  BY <1>1 DEF PagedInv, Past
<1>5. ASSUME NEW x \in returned
      PROVE  x.id \in Written' \/ (x.id \in present' /\ stamp'[x.id] = x.at)
  <2>1. phase # "first" /\ (x.id \in Written \/ (x.id \in present /\ stamp[x.id] = x.at))
    BY DEF PagedInv
  <2>2. present \subseteq Ids
    BY DEF TypeOK
  <2>3. CASE x.id = i /\ x.id \in present
    BY <1>1, <2>1, <2>3 DEF Written
  <2> QED
    BY <1>1, <1>3, <2>1, <2>2, <2>3
<1>6. ASSUME NEW j \in Stable', phase # "first"
      PROVE  Returned(j)' \/ Lost(j)' \/ (phase' = "next" /\ Past(cursor, RowOf(j))')
  <2>1. j # i /\ j \in Stable /\ stamp'[j] = stamp[j]
    BY <1>1, <1>6 DEF Stable, Writes
  <2>2. Returned(j) \/ Lost(j) \/ (phase = "next" /\ Past(cursor, RowOf(j)))
    BY <1>6, <2>1 DEF PagedInv
  <2> QED
    BY <1>1, <2>1, <2>2 DEF Returned, Lost, Past, Before, RowOf
<1> QED
  BY <1>1, <1>2, <1>3, <1>4, <1>5, <1>6 DEF PagedInv

LEMMA PagedStep ==
  ASSUME TypeOK, PagedInv, [Next]_vars
  PROVE  PagedInv'
<1>1. CASE ReadPage
  BY <1>1, ReadPaged
<1>2. CASE \E i \in Ids : Enter(i) \/ Leave(i) \/ Update(i)
  BY <1>2, RowWrites, WritePaged
<1>3. CASE UNCHANGED <<list, table, client>>
  BY <1>3 DEF table, client, PagedInv, Written, Stable, Returned, Lost, Past, Before, RowOf
<1> QED
  BY <1>1, <1>2, <1>3 DEF Next, Tick, Finished, vars

\* In every reachable state, pages follow each other.
LEMMA PagesAlwaysFollow == Spec => []PagedInv
<1>1. Init => PagedInv
  BY InitStamps DEF Init, PagedInv
<1> QED
  BY <1>1, TypeCorrect, PagedStep, PTL DEF Spec

\* No page repeats a row of an earlier one, unless the row was written in
\* between in a list whose rows are: the cursor, though it loses a part of the
\* stamp, never comes to lie before a row that was returned.
THEOREM NoRowReturnedTwice == Spec => []NoRowTwice
<1>1. PagedInv => NoRowTwice
  BY DEF PagedInv, Written, NoRowTwice
<1> QED
  BY <1>1, PagesAlwaysFollow, PTL

\* Once the last page is read, every row that stayed where it was has been
\* returned, or shares its millisecond with the last row of some page.
THEOREM NothingIsSkipped == Spec => []NothingSkipped
<1>1. PagedInv => NothingSkipped
  BY DEF PagedInv, Lost, RowOf, NothingSkipped
<1> QED
  BY <1>1, PagesAlwaysFollow, PTL
=============================================================================
