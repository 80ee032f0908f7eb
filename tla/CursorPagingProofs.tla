------------------------- MODULE CursorPagingProofs -------------------------
(***************************************************************************)
(* A client that walks through the pages sees every row that existed when  *)
(* it began, once.  The lemmas on Newest are about orderBy with take, for  *)
(* every finite set of rows; the invariant says how the cursor divides the *)
(* rows into those that were shown and those that follow.                  *)
(***************************************************************************)
EXTENDS CursorPaging, FiniteSetTheorems, TLAPS

Row == [id: Ids, createdAt: Times]

\* id is the primary key.
IdsUnique(rs) == \A a, b \in rs : a.id = b.id => a = b

\* A set of rows the database can hold, or one it can return.
Table(rs) == rs \subseteq Row /\ IsFiniteSet(rs) /\ IdsUnique(rs)

\* Rows that were not inserted were not shown.
ShownExist == \A i \in Ids : shown[i] > 0 => i \in IdsOf(rows)

\* Until the walk ends, no row that follows the cursor was shown.
NoneAheadShown == walk # "finished" => \A row \in AfterCursor(rows) : shown[row.id] = 0

\* During the walk, what existed when it began was shown or follows the cursor.
NoneBehindMissed ==
    walk = "walking" => \A row \in rows : row.id \in old => shown[row.id] > 0 \/ row \in AfterCursor(rows)

CursorWalks == cursor # NoCursor => walk = "walking"

PagingInv ==
    /\ PagingTypeOK
    /\ Table(rows)
    /\ old \subseteq IdsOf(rows)
    /\ ShownExist
    /\ EachRowOnce
    /\ NoneAheadShown
    /\ NoneBehindMissed
    /\ NothingSkipped
    /\ CursorWalks
    /\ CursorLeadsOn

-----------------------------------------------------------------------------
(* The order of the rows. *)

\* Newer is a strict order on rows, and total where ids are unique.
LEMMA NewerOrders ==
    /\ \A a \in Row : ~Newer(a, a)
    /\ \A a, b, c \in Row : Newer(a, b) /\ Newer(b, c) => Newer(a, c)
    /\ \A a, b \in Row : a.id # b.id => Newer(a, b) \/ Newer(b, a)
    /\ \A a, b \in Row : Newer(a, b) => ~Newer(b, a)
  <1>1. \A a \in Row : a.id \in Nat /\ a.createdAt \in Nat
    BY IdsAssumption, TimesAssumption DEF Row
  <1>2. QED  BY <1>1, SMT DEF Newer

\* The rows of rs that stand before row.
Before(rs, row) == {other \in rs : Newer(other, row)}

LEMMA BeforeFinite ==
    ASSUME NEW rs, IsFiniteSet(rs), NEW row
    PROVE  /\ Before(rs, row) \subseteq rs
           /\ IsFiniteSet(Before(rs, row))
           /\ Cardinality(Before(rs, row)) \in Nat
  BY FS_Subset, FS_CardinalityType DEF Before

\* Every nonempty set of rows has a newest and an oldest row: strictly increasing
\* chains of Before are chains of finite sets.
LEMMA NewestExists ==
    ASSUME NEW rs, Table(rs), rs # {}
    PROVE  \E row \in rs : Before(rs, row) = {}
  <1>1. IsFiniteSet(rs) /\ rs \subseteq Row  BY DEF Table
  <1> DEFINE befores == {Before(rs, row) : row \in rs}
  <1>2. befores \subseteq FiniteSubsetsOf(rs)
    BY <1>1, BeforeFinite DEF FiniteSubsetsOf
  <1>3. befores # {}  OBVIOUS
  <1>4. PICK s \in befores : \A t \in befores : <<t, s>> \notin StrictSubsetOrdering(rs)
    <2> HIDE DEF befores
    <2> QED  BY <1>2, <1>3, FS_StrictSubsetOrderingWellFounded, WFMin, Zenon
  <1>5. PICK row \in rs : s = Before(rs, row)  BY <1>4
  <1>6. ASSUME NEW other \in Before(rs, row)  PROVE FALSE
    <2>1. other \in rs /\ Newer(other, row)  BY <1>6 DEF Before
    <2>2. Before(rs, other) \subseteq s /\ other \in s /\ other \notin Before(rs, other)
      BY <1>1, <1>5, <2>1, NewerOrders DEF Before
    <2>3. <<Before(rs, other), s>> \in StrictSubsetOrdering(rs)
      BY <1>5, <2>2 DEF StrictSubsetOrdering, Before
    <2>4. QED  BY <1>4, <2>1, <2>3
  <1>7. QED  BY <1>6

OldestOf(rs, row) == \A other \in rs \ {row} : Newer(other, row)

LEMMA OldestExists ==
    ASSUME NEW rs, Table(rs), rs # {}
    PROVE  \E row \in rs : OldestOf(rs, row)
  <1>1. IsFiniteSet(rs) /\ rs \subseteq Row  BY DEF Table
  <1> DEFINE After(row) == {other \in rs : Newer(row, other)}
             afters == {After(row) : row \in rs}
  <1>2. afters \subseteq FiniteSubsetsOf(rs)
    BY <1>1, FS_Subset DEF FiniteSubsetsOf
  <1>3. afters # {}  OBVIOUS
  <1>4. PICK s \in afters : \A t \in afters : <<t, s>> \notin StrictSubsetOrdering(rs)
    <2> HIDE DEF afters
    <2> QED  BY <1>2, <1>3, FS_StrictSubsetOrderingWellFounded, WFMin, Zenon
  <1>5. PICK row \in rs : s = After(row)  BY <1>4
  <1>6. ASSUME NEW other \in After(row)  PROVE FALSE
    <2>1. other \in rs /\ Newer(row, other)  BY <1>6
    <2>2. After(other) \subseteq s /\ other \in s /\ other \notin After(other)
      BY <1>1, <1>5, <2>1, NewerOrders
    <2>3. <<After(other), s>> \in StrictSubsetOrdering(rs)
      BY <1>5, <2>2 DEF StrictSubsetOrdering
    <2>4. QED  BY <1>4, <2>1, <2>3
  <1>7. \A other \in rs \ {row} : other.id # row.id  BY DEF Table, IdsUnique
  <1>8. OldestOf(rs, row)  BY <1>1, <1>6, <1>7, NewerOrders DEF OldestOf
  <1>9. QED  BY <1>8

-----------------------------------------------------------------------------
(* orderBy with take. *)

LEMMA SubTable ==
    ASSUME NEW rs, Table(rs), NEW part, part \subseteq rs
    PROVE  Table(part)
  BY FS_Subset DEF Table, IdsUnique

\* take returns rows of the table.
LEMMA NewestSubset ==
    ASSUME NEW rs, Table(rs), NEW n
    PROVE  Newest(rs, n) \subseteq rs /\ Table(Newest(rs, n))
  BY SubTable DEF Newest

LEMMA NewestIs ==
    ASSUME NEW rs, NEW n
    PROVE  Newest(rs, n) = {row \in rs : Cardinality(Before(rs, row)) < n}
  BY DEF Newest, Before

\* take has no gaps: with a row it returns every newer one.
LEMMA NewestUpward ==
    ASSUME NEW rs, Table(rs), NEW n \in Nat,
           NEW row \in Newest(rs, n), NEW other \in rs, Newer(other, row)
    PROVE  other \in Newest(rs, n)
  <1>1. row \in rs /\ Cardinality(Before(rs, row)) < n  BY NewestIs
  <1>2. Before(rs, other) \subseteq Before(rs, row)
    BY <1>1, NewerOrders DEF Before, Table
  <1>3. IsFiniteSet(Before(rs, row)) /\ Cardinality(Before(rs, row)) \in Nat
    BY BeforeFinite DEF Table
  <1>4. Cardinality(Before(rs, other)) <= Cardinality(Before(rs, row))
    BY <1>2, <1>3, FS_Subset
  <1>5. Cardinality(Before(rs, other)) \in Nat
    BY BeforeFinite DEF Table
  <1>6. QED  BY <1>1, <1>3, <1>4, <1>5, NewestIs

\* take: n returns something if there is something.
LEMMA NewestNonempty ==
    ASSUME NEW rs, Table(rs), rs # {}, NEW n \in Nat \ {0}
    PROVE  Newest(rs, n) # {}
  <1>1. PICK row \in rs : Before(rs, row) = {}  BY NewestExists
  <1>2. Cardinality(Before(rs, row)) = 0  BY <1>1, FS_EmptySet
  <1>3. row \in Newest(rs, n)  BY <1>2, NewestIs
  <1>4. QED  BY <1>3

\* take: n returns no more than n rows.
LEMMA NewestAtMost ==
    ASSUME NEW rs, Table(rs), NEW n \in Nat
    PROVE  Cardinality(Newest(rs, n)) <= n
  <1> DEFINE page == Newest(rs, n)
  <1>1. page \subseteq rs /\ Table(page)  BY NewestSubset
  <1>2. CASE page = {}
    BY <1>2, FS_EmptySet
  <1>3. CASE page # {}
    <2>1. PICK row \in page : OldestOf(page, row)
      <3> HIDE DEF page
      <3> QED  BY <1>1, <1>3, OldestExists
    <2>2. row \in rs /\ Cardinality(Before(rs, row)) < n  BY <2>1, NewestIs
    <2>3. page \ {row} \subseteq Before(rs, row)
      BY <1>1, <2>1 DEF OldestOf, Before
    <2>4. IsFiniteSet(Before(rs, row)) /\ Cardinality(Before(rs, row)) \in Nat
      BY BeforeFinite DEF Table
    <2>5. IsFiniteSet(page) /\ Cardinality(page) \in Nat
      BY <1>1, FS_CardinalityType DEF Table
    <2>6. Cardinality(page \ {row}) = Cardinality(page) - 1
      BY <2>1, <2>5, FS_RemoveElement
    <2>7. Cardinality(page \ {row}) <= Cardinality(Before(rs, row))
      BY <2>3, <2>4, FS_Subset
    <2>8. QED  BY <2>2, <2>4, <2>5, <2>6, <2>7
  <1>4. QED  BY <1>2, <1>3

\* take: n leaves rows behind only if it returns n.
LEMMA NewestFull ==
    ASSUME NEW rs, Table(rs), NEW n \in Nat, rs \ Newest(rs, n) # {}
    PROVE  Cardinality(Newest(rs, n)) >= n
  <1> DEFINE page == Newest(rs, n)
             rest == rs \ page
  <1>1. Table(page) /\ Table(rest) /\ rest # {}  BY SubTable, NewestSubset
  <1>2. PICK row \in rest : Before(rest, row) = {}
    <2> HIDE DEF rest
    <2> QED  BY <1>1, NewestExists
  <1>3. Before(rs, row) \subseteq page  BY <1>2 DEF Before
  <1>4. /\ IsFiniteSet(Before(rs, row)) /\ Cardinality(Before(rs, row)) \in Nat
        /\ IsFiniteSet(page) /\ Cardinality(page) \in Nat
    BY <1>1, BeforeFinite, FS_CardinalityType DEF Table
  <1>5. Cardinality(Before(rs, row)) <= Cardinality(page)
    BY <1>3, <1>4, FS_Subset
  <1>6. row \in rs /\ ~(Cardinality(Before(rs, row)) < n)
    BY <1>2, NewestIs
  <1>7. QED  BY <1>4, <1>5, <1>6

-----------------------------------------------------------------------------
(* The pages of the walk. *)

LEMMA ItemsSubset ==
    ASSUME NEW rs, Table(rs)
    PROVE  /\ Table(Newest(rs, Limit + 1)) /\ Newest(rs, Limit + 1) \subseteq rs
           /\ Table(Page(Newest(rs, Limit + 1)))
           /\ Page(Newest(rs, Limit + 1)) \subseteq Newest(rs, Limit + 1)
  <1>1. Table(Newest(rs, Limit + 1)) /\ Newest(rs, Limit + 1) \subseteq rs
    BY NewestSubset
  <1>2. QED  BY <1>1, NewestSubset DEF Page

\* Without hasMore the page is all there is.
LEMMA LastPageIsAll ==
    ASSUME NEW rs, Table(rs), ~HasMore(Newest(rs, Limit + 1))
    PROVE  Page(Newest(rs, Limit + 1)) = rs
  <1> DEFINE items == Newest(rs, Limit + 1)
  <1>1. Table(items) /\ items \subseteq rs /\ Page(items) = items
    BY NewestSubset DEF Page
  <1>2. Cardinality(items) \in Nat  BY <1>1, FS_CardinalityType DEF Table
  <1>3. Limit \in Nat /\ Limit + 1 \in Nat /\ ~(Cardinality(items) > Limit)
    BY LimitAssumption DEF HasMore
  <1>4. rs \ items = {}
    BY <1>2, <1>3, NewestFull
  <1>5. QED  BY <1>1, <1>4

\* With hasMore, nextCursor is the id of a row of the page; the rows of rs that
\* are not on the page are exactly those that are older, and there are some.
LEMMA CursorSplits ==
    ASSUME NEW rs, Table(rs), HasMore(Newest(rs, Limit + 1))
    PROVE  \E last \in Page(Newest(rs, Limit + 1)) :
               /\ LastId(Newest(rs, Limit + 1)) = last.id
               /\ \A row \in rs :
                     row \notin Page(Newest(rs, Limit + 1)) <=> Newer(last, row)
               /\ \E row \in rs : Newer(last, row)
  <1> DEFINE items == Newest(rs, Limit + 1)
             page == Page(items)
  <1>1. Table(items) /\ items \subseteq rs /\ Table(page) /\ page \subseteq items
    BY ItemsSubset
  <1>2. page = Newest(items, Limit)  BY DEF Page
  <1>3. Limit \in Nat \ {0} /\ Limit + 1 \in Nat  BY LimitAssumption
  <1>4. Cardinality(items) > Limit /\ Cardinality(items) \in Nat
    BY <1>1, FS_CardinalityType DEF HasMore, Table
  <1>5. Cardinality(page) <= Limit
    BY <1>1, <1>2, <1>3, NewestAtMost
  <1>6. items # {}  BY <1>3, <1>4, FS_EmptySet
  <1>7. page # {}  BY <1>1, <1>2, <1>3, <1>6, NewestNonempty
  <1>8. \E row \in page : OldestOf(page, row)
    <2> HIDE DEF page
    <2> QED  BY <1>1, <1>7, OldestExists
  <1> DEFINE last == CHOOSE row \in page : OldestOf(page, row)
  <1>9. last \in page /\ OldestOf(page, last)
    <2> HIDE DEF page
    <2> QED  BY <1>8
  <1>10. LastId(items) = last.id
    BY DEF LastId, OldestOf
  <1> HIDE DEF last
  <1>11. \A row \in rs : Newer(row, last) => row \in page
    <2> TAKE row \in rs
    <2> HAVE Newer(row, last)
    <2>1. row \in items
      <3> last \in items  BY <1>1, <1>9
      <3> QED  BY <1>3, NewestUpward
    <2>2. QED
      <3> last \in Newest(items, Limit)  BY <1>2, <1>9
      <3> HIDE DEF items
      <3> QED  BY <1>1, <1>2, <1>3, <2>1, NewestUpward
  <1>12. \A row \in rs : row \notin page => Newer(last, row)
    <2> TAKE row \in rs
    <2> HAVE row \notin page
    <2>1. last \in rs /\ last # row  BY <1>1, <1>9
    <2>2. last.id # row.id  BY <2>1 DEF Table, IdsUnique
    <2>3. last \in Row /\ row \in Row  BY <2>1 DEF Table
    <2>4. QED  BY <1>11, <2>2, <2>3, NewerOrders
  <1>13. \A row \in page : ~Newer(last, row)
    <2> TAKE row \in page
    <2>1. row \in Row /\ last \in Row  BY <1>1, <1>9 DEF Table
    <2>2. QED  BY <1>9, <2>1, NewerOrders DEF OldestOf
  <1>14. \E row \in items : row \notin page
    BY <1>1, <1>3, <1>4, <1>5
  <1>15. QED
    <2>1. \A row \in rs : row \notin page <=> Newer(last, row)
      BY <1>12, <1>13
    <2>2. \E row \in rs : Newer(last, row)
      BY <1>1, <1>14, <2>1
    <2>3. QED  BY <1>9, <1>10, <2>1, <2>2

\* The query follows the row of the cursor.
LEMMA AfterCursorIs ==
    ASSUME NEW rs, IdsUnique(rs)
    PROVE  /\ AfterCursor(rs) \subseteq rs
           /\ cursor = NoCursor => AfterCursor(rs) = rs
           /\ \A row \in rs : row.id = cursor /\ cursor # NoCursor =>
                 AfterCursor(rs) = {other \in rs : Newer(row, other)}
  <1>1. ASSUME NEW row \in rs, row.id = cursor, cursor # NoCursor
        PROVE  AfterCursor(rs) = {other \in rs : Newer(row, other)}
    <2>1. (CHOOSE r \in rs : r.id = cursor) = row
      BY <1>1 DEF IdsUnique
    <2>2. QED  BY <1>1, <2>1 DEF AfterCursor
  <1>2. QED  BY <1>1 DEF AfterCursor

-----------------------------------------------------------------------------
(* The walk. *)

LEMMA PagingStarts == Init => PagingInv
  BY FS_EmptySet DEF Init, PagingInv, PagingTypeOK, Table, IdsUnique, IdsOf, ShownExist,
     EachRowOnce, NoneAheadShown, NoneBehindMissed, NothingSkipped, CursorWalks,
     CursorLeadsOn, AfterCursor

\* A row that appears, also in the middle of what was shown, disturbs nothing:
\* it was not there when the walk began and was not shown.
LEMMA InsertKeeps ==
    ASSUME PagingInv, NEW i \in Ids, NEW t \in Times, Insert(i, t)
    PROVE  PagingInv'
  <1> DEFINE new == [id |-> i, createdAt |-> t]
  <1>1. rows' = rows \cup {new} /\ new \in Row /\ new.id = i /\ i \notin IdsOf(rows)
    BY DEF Insert, Row
  <1>2. cursor' = cursor /\ shown' = shown /\ old' = old /\ walk' = walk
    BY DEF Insert
  <1>3. shown[i] = 0 /\ i \notin old
    BY <1>1 DEF PagingInv, PagingTypeOK, ShownExist
  <1> HIDE DEF new
  <1>4. PagingTypeOK'  BY <1>1, <1>2 DEF PagingInv, PagingTypeOK, Row
  <1>5. Table(rows)'
    <2>1. IsFiniteSet(rows \cup {new})  BY FS_AddElement DEF PagingInv, Table
    <2>2. QED  BY <1>1, <2>1 DEF PagingInv, Table, IdsUnique, IdsOf
  <1>6. (old \subseteq IdsOf(rows))' /\ ShownExist' /\ EachRowOnce'
    BY <1>1, <1>2 DEF PagingInv, ShownExist, EachRowOnce, IdsOf
  <1>7. AfterCursor(rows)' \ {new} = AfterCursor(rows)
    <2>1. IdsUnique(rows) /\ IdsUnique(rows') /\ new \notin rows
      BY <1>1, <1>5 DEF PagingInv, Table, IdsOf
    <2>2. CASE cursor = NoCursor
      BY <1>1, <1>2, <2>1, <2>2 DEF AfterCursor
    <2>3. CASE cursor # NoCursor
      <3>1. PICK row \in rows : row.id = cursor
        BY <2>3 DEF PagingInv, PagingTypeOK, ShownExist, IdsOf
      <3>2. AfterCursor(rows) = {other \in rows : Newer(row, other)}
        BY <2>1, <2>3, <3>1, AfterCursorIs
      <3>3. (CHOOSE r \in rows' : r.id = cursor') = row
        BY <1>1, <1>2, <2>1, <3>1 DEF IdsUnique
      <3>4. AfterCursor(rows)' = {other \in rows' : Newer(row, other)}
        BY <1>2, <2>3, <3>3 DEF AfterCursor
      <3>5. QED  BY <1>1, <2>1, <3>2, <3>4
    <2>4. QED  BY <2>2, <2>3
  <1>8. NoneAheadShown'
    BY <1>1, <1>2, <1>3, <1>7 DEF PagingInv, NoneAheadShown
  <1>9. NoneBehindMissed'
    BY <1>1, <1>2, <1>3, <1>7 DEF PagingInv, NoneBehindMissed
  <1>10. NothingSkipped' /\ CursorWalks' /\ CursorLeadsOn'
    BY <1>2, <1>7 DEF PagingInv, NothingSkipped, CursorWalks, CursorLeadsOn
  <1>11. QED
    BY <1>4, <1>5, <1>6, <1>8, <1>9, <1>10 DEF PagingInv

LEMMA StartWalkKeeps ==
    ASSUME PagingInv, StartWalk
    PROVE  PagingInv'
  <1>1. /\ walk = "ready" /\ walk' = "walking" /\ old' = IdsOf(rows)
        /\ rows' = rows /\ cursor' = cursor /\ shown' = shown
    BY DEF StartWalk
  <1>2. cursor = NoCursor  BY <1>1 DEF PagingInv, CursorWalks
  <1>3. AfterCursor(rows) = rows /\ AfterCursor(rows)' = rows
    BY <1>1, <1>2 DEF AfterCursor
  <1>4. PagingTypeOK'
    BY <1>1 DEF PagingInv, PagingTypeOK, IdsOf
  <1>5. QED
    BY <1>1, <1>2, <1>3, <1>4 DEF PagingInv, Table, IdsUnique, IdsOf, ShownExist, EachRowOnce,
       NoneAheadShown, NoneBehindMissed, NothingSkipped, CursorWalks, CursorLeadsOn

\* A page shows rows that follow the cursor, which were not shown before, and
\* leaves behind exactly those that follow the new cursor.
LEMMA FetchPageKeeps ==
    ASSUME PagingInv, FetchPage
    PROVE  PagingInv'
  <1> DEFINE after == AfterCursor(rows)
             page == Page(Items)
  <1>1. walk = "walking" /\ rows' = rows /\ old' = old  BY DEF FetchPage
  <1>2. shown' = [i \in Ids |-> IF i \in IdsOf(page) THEN shown[i] + 1 ELSE shown[i]]
    BY DEF FetchPage
  <1>3. /\ Table(rows) /\ IdsUnique(rows) /\ shown \in [Ids -> Nat]
        /\ \A row \in rows : row.id \in Ids
    BY DEF PagingInv, PagingTypeOK, Table, Row
  <1>4. after \subseteq rows /\ Table(after)
    BY <1>3, AfterCursorIs, SubTable
  <1>5. page \subseteq after
    BY <1>4, ItemsSubset DEF Items
  <1>6. shown' \in [Ids -> Nat]  BY <1>2, <1>3
  <1>7. \A row \in page : shown[row.id] = 0 /\ shown'[row.id] = 1
    <2>1. \A row \in page : shown[row.id] = 0
      BY <1>1, <1>5 DEF PagingInv, NoneAheadShown
    <2>2. QED  BY <1>2, <1>3, <1>4, <1>5, <2>1 DEF IdsOf
  <1>8. \A row \in rows \ page : shown'[row.id] = shown[row.id]
    <2>1. \A row \in rows \ page : row.id \notin IdsOf(page)
      BY <1>3, <1>4, <1>5 DEF IdsOf, IdsUnique
    <2>2. QED  BY <1>2, <1>3, <2>1
  <1>9. \A i \in Ids : i \notin IdsOf(page) => shown'[i] = shown[i]
    BY <1>2
  <1>10. ShownExist'
    <2>1. IdsOf(page) \subseteq IdsOf(rows)  BY <1>4, <1>5 DEF IdsOf
    <2>2. QED  BY <1>1, <1>9, <2>1 DEF PagingInv, ShownExist, IdsOf
  <1>11. EachRowOnce'
    <2>1. \A i \in IdsOf(page) : shown'[i] = 1  BY <1>7 DEF IdsOf
    <2>2. QED  BY <1>9, <2>1 DEF PagingInv, EachRowOnce
  <1>12. Table(rows)' /\ (old \subseteq IdsOf(rows))'
    BY <1>1 DEF PagingInv, Table, IdsUnique, IdsOf
  <1>13. rows \subseteq [id: Ids, createdAt: Times] /\ old \subseteq Ids
    BY DEF PagingInv, PagingTypeOK
  <1>14. \A row \in rows : row.id \in old =>
             shown'[row.id] > 0 \/ row \in after \ page
    <2>1. \A row \in rows \ page : row.id \in old => shown'[row.id] > 0 \/ row \in after
      BY <1>1, <1>8 DEF PagingInv, NoneBehindMissed
    <2>2. \A row \in page : shown'[row.id] > 0  BY <1>7
    <2>3. QED  BY <2>1, <2>2
  <1>15. CASE HasMore(Items)
    <2>1. cursor' = LastId(Items) /\ walk' = "walking"  BY <1>15 DEF FetchPage
    <2>2. PICK last \in page :
             /\ LastId(Items) = last.id
             /\ \A row \in after : row \notin page <=> Newer(last, row)
             /\ \E row \in after : Newer(last, row)
      BY <1>4, <1>15, CursorSplits DEF Items
    <2>3. last \in rows /\ last.id \in Ids /\ last.id # NoCursor
      BY <1>3, <1>4, <1>5, IdsAssumption
    <2>4. AfterCursor(rows)' = {row \in rows : Newer(last, row)}
      <3>1. (CHOOSE r \in rows : r.id = cursor') = last
        BY <1>3, <2>1, <2>2, <2>3 DEF IdsUnique
      <3>2. QED  BY <1>1, <2>1, <2>2, <2>3, <3>1 DEF AfterCursor
    <2>5. AfterCursor(rows)' = after \ page
      <3>1. \A row \in rows : Newer(last, row) => row \in after
        <4> TAKE row \in rows
        <4> HAVE Newer(last, row)
        <4>1. CASE cursor = NoCursor
          BY <1>3, <4>1, AfterCursorIs
        <4>2. CASE cursor # NoCursor
          <5>1. PICK c \in rows : c.id = cursor
            BY <4>2 DEF PagingInv, PagingTypeOK, ShownExist, IdsOf
          <5>2. after = {other \in rows : Newer(c, other)}
            BY <1>3, <4>2, <5>1, AfterCursorIs
          <5>3. Newer(c, last)  BY <1>5, <5>2
          <5>4. c \in Row /\ last \in Row /\ row \in Row
            BY <1>3, <2>3, <5>1 DEF Table
          <5>5. Newer(c, row)  BY <5>3, <5>4, NewerOrders
          <5>6. QED  BY <5>2, <5>5
        <4>3. QED  BY <4>1, <4>2
      <3>2. QED  BY <1>4, <2>2, <2>4, <3>1
    <2>6. PagingTypeOK'
      <3>1. shown'[last.id] > 0  BY <1>7
      <3>2. QED  BY <1>1, <1>6, <1>13, <2>1, <2>2, <2>3, <3>1 DEF PagingTypeOK
    <2>7. NoneAheadShown'
      BY <1>1, <1>4, <1>8, <2>5 DEF PagingInv, NoneAheadShown
    <2>8. NoneBehindMissed'
      BY <1>1, <1>14, <2>5 DEF NoneBehindMissed
    <2>9. NothingSkipped' /\ CursorWalks'
      BY <2>1 DEF NothingSkipped, CursorWalks
    <2>10. CursorLeadsOn'
      BY <2>2, <2>5 DEF CursorLeadsOn
    <2>11. QED
      BY <1>10, <1>11, <1>12, <2>6, <2>7, <2>8, <2>9, <2>10 DEF PagingInv
  <1>16. CASE ~HasMore(Items)
    <2>1. cursor' = NoCursor /\ walk' = "finished"  BY <1>16 DEF FetchPage
    <2>2. page = after
      BY <1>4, <1>16, LastPageIsAll DEF Items
    <2>3. PagingTypeOK'
      BY <1>1, <1>6, <1>13, <2>1 DEF PagingTypeOK
    <2>4. \A i \in old : shown'[i] > 0
      BY <1>14, <2>2 DEF PagingInv, IdsOf
    <2>5. NoneAheadShown' /\ NoneBehindMissed' /\ CursorWalks' /\ CursorLeadsOn'
      BY <2>1 DEF NoneAheadShown, NoneBehindMissed, CursorWalks, CursorLeadsOn
    <2>6. NothingSkipped'
      BY <1>1, <2>4 DEF NothingSkipped
    <2>7. QED
      BY <1>10, <1>11, <1>12, <2>3, <2>5, <2>6 DEF PagingInv
  <1>17. QED  BY <1>15, <1>16

LEMMA PagingInvariant == Spec => []PagingInv
  <1>1. PagingInv /\ [Next]_vars => PagingInv'
    <2> SUFFICES ASSUME PagingInv, [Next]_vars  PROVE PagingInv'
      OBVIOUS
    <2>1. CASE \E i \in Ids, t \in Times : Insert(i, t)
      BY <2>1, InsertKeeps
    <2>2. CASE StartWalk  BY <2>2, StartWalkKeeps
    <2>3. CASE FetchPage  BY <2>3, FetchPageKeeps
    <2>4. CASE UNCHANGED vars
      BY <2>4 DEF vars, PagingInv, PagingTypeOK, Table, IdsUnique, IdsOf, ShownExist, EachRowOnce,
         NoneAheadShown, NoneBehindMissed, NothingSkipped, CursorWalks, CursorLeadsOn,
         AfterCursor
    <2>5. QED  BY <2>1, <2>2, <2>3, <2>4 DEF Next
  <1>2. QED  BY <1>1, PagingStarts, PTL DEF Spec

\* The state has its types; in particular, the cursor is NoCursor or names a row
\* that some page has shown.
THEOREM PagingTypeCorrect == Spec => []PagingTypeOK
  BY PagingInvariant, PTL DEF PagingInv

\* findMine never shows a row twice to a client that follows nextCursor, for any
\* number of rows and ties, any page size, and inserts anywhere in the order.
THEOREM RowsShownOnce == Spec => []EachRowOnce
  BY PagingInvariant, PTL DEF PagingInv

\* A client that follows nextCursor to the end has seen every row that existed
\* when it sent its first request.
THEOREM NoRowMissed == Spec => []NothingSkipped
  BY PagingInvariant, PTL DEF PagingInv

\* buildCursorResponse hands out a nextCursor only if another row follows it.
THEOREM CursorHasNext == Spec => []CursorLeadsOn
  BY PagingInvariant, PTL DEF PagingInv
=============================================================================
