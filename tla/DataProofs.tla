----------------------------- MODULE DataProofs -----------------------------
(***************************************************************************)
(* What holds of the data the library exchanges with others: the rows a    *)
(* table cursor returns while the table changes between the pages, for any *)
(* bounds, limits and number of pages; the transaction and the proof a     *)
(* dapp gets back from a wallet for its signing request, for any request,  *)
(* signer, context and loss of fields on the way; the messages a P2P       *)
(* client makes of a byte stream, for any messages, pieces and limits; the *)
(* pages of the msigs service, for any lists and limits; the order of an   *)
(* authority's entries, for any keys and edits; and the sums, differences, *)
(* products and quotients of 128 bits, for any operands and size of limb.  *)
(***************************************************************************)
EXTENDS P2P, TableCursor, SigningRequest, Msigs, Authority, ChainTypes, FiniteSetTheorems,
        SequenceTheorems, WellFoundedInduction, TLAPS

-----------------------------------------------------------------------------
(* Table cursors: the invariant *)

TableSpec == TableInit /\ [][TableNext]_tableVars

Bounds == Keys \cup {Null}
Requests == [kind: {"row", "scope"}, lower: Bounds, upper: Bounds, limit: Nat, reverse: BOOLEAN]
Cursors == [query: Requests, maxRows: Nat, nextKey: Bounds, endReached: BOOLEAN,
            rowsCount: Nat, pages: Nat]
Pages == [rows: Seq(Keys), next: Bounds]

\* The rows a walk has, returned to the caller or still inside all().
Walk == IF collecting = NoAll THEN walked ELSE walked \o collecting
Backwards == cursor.query.reverse /\ cursor.query.kind = "row"

Rising(s) == \A i, j \in 1..Len(s) : i < j => s[i] < s[j]
Falling(s) == \A i, j \in 1..Len(s) : i < j => s[i] > s[j]
Holds(s, k) == \E i \in 1..Len(s) : s[i] = k

TableTypes ==
    /\ rows \subseteq Keys /\ steady \subseteq rows
    /\ cursor \in Cursors \cup {NoCursor}
    /\ cursor # NoCursor => cursor.query.limit >= 1
    /\ collecting \in Seq(Keys) \cup {NoAll}
    /\ walked \in Seq(Keys)
    /\ lost \subseteq Keys /\ IsFiniteSet(lost)
    /\ cursor = NoCursor => collecting = NoAll /\ walked = <<>> /\ lost = {}

\* The counter of the cursor covers the rows of the walk and those an all() lost.
Counted ==
    cursor # NoCursor =>
        /\ Len(Walk) + Cardinality(lost) <= cursor.rowsCount
        /\ cursor.rowsCount <= cursor.maxRows
        /\ cursor.pages = 0 => /\ Walk = <<>> /\ lost = {}
                               /\ cursor.nextKey = Null /\ ~cursor.endReached
        /\ cursor.pages > 0 /\ ~cursor.endReached => cursor.nextKey # Null
        /\ cursor.endReached /\ cursor.rowsCount < cursor.maxRows => cursor.nextKey = Null

\* Every row is within the bounds, the key to go on from is, too.
InBounds ==
    cursor # NoCursor =>
        /\ \A i \in 1..Len(Walk) : Within(cursor.query, Walk[i])
        /\ cursor.nextKey # Null => Within(cursor.query, cursor.nextKey)

\* Forward, all rows of the walk lie below the key to go on from, and it has every
\* row below that key that stayed in the table.
Forwards ==
    cursor # NoCursor /\ ~Backwards =>
        /\ Rising(Walk)
        /\ cursor.nextKey # Null => \A i \in 1..Len(Walk) : Walk[i] < cursor.nextKey
        /\ cursor.pages > 0 =>
              \A k \in steady : /\ Within(cursor.query, k)
                                /\ cursor.nextKey # Null => k < cursor.nextKey
                                => Holds(Walk, k) \/ k \in lost

\* In reverse the first page falls, and has every row that stayed if it is the last.
FirstBackwards ==
    cursor # NoCursor /\ Backwards /\ cursor.pages = 1 =>
        /\ Falling(Walk)
        /\ cursor.nextKey = Null =>
              \A k \in steady : Within(cursor.query, k) => Holds(Walk, k) \/ k \in lost

\* What get() answered with is the first row within its bounds.
GotFirst ==
    got.query.kind = "row" =>
        LET found == {k \in got.of : Within(got.query, k)}
        IN  got.rows = IF found = {} THEN <<>>
                       ELSE <<IF got.query.reverse THEN Max(found) ELSE Min(found)>>

TableInv == TableTypes /\ Counted /\ InBounds /\ Forwards /\ FirstBackwards /\ GotFirst

-----------------------------------------------------------------------------
(* Table cursors: what the node answers *)

\* The assumption on the constants, with what it says of keys and bounds.
LEMMA TableConstants ==
  /\ KeyWord \in Nat /\ KeyWord >= 1 /\ Keys \subseteq Nat /\ Null \notin Keys /\ Null \in Int
  /\ RowLimits \subseteq Nat \ {0} /\ MaxRowss \subseteq Nat
  /\ \A k \in Keys : k \in Nat /\ k < KeyWord
  BY TableAssumption DEF Keys, Null

\* A nonempty set of keys has a first.
LEMMA HasFirst ==
  ASSUME NEW S \in SUBSET Nat, S # {}
  PROVE  Min(S) \in S /\ \A y \in S : Min(S) <= y
<1>1. PICK x \in S : \A y \in S : ~ (<<y, x>> \in OpToRel(<, Nat))
  BY NatLessThanWellFounded, WFMin
<1>2. \A y \in S : x <= y
  <2> SUFFICES ASSUME NEW y \in S PROVE x <= y
    OBVIOUS
  <2>1. x \in Nat /\ y \in Nat
    OBVIOUS
  <2>2. ~ (y < x)
    BY <1>1, <2>1 DEF OpToRel
  <2> QED BY <2>1, <2>2
<1> QED BY <1>2 DEF Min

\* A nonempty set of keys has a last: keys are below KeyWord.
LEMMA HasLast ==
  ASSUME NEW S \in SUBSET Keys, S # {}
  PROVE  Max(S) \in S /\ \A y \in S : Max(S) >= y
<1> DEFINE T == {KeyWord - x : x \in S}
<1>1. T \in SUBSET Nat /\ T # {}
  <2>1. \A x \in S : x \in Nat /\ x < KeyWord /\ KeyWord \in Nat
    BY TableConstants
  <2>2. \A x \in S : KeyWord - x \in Nat
    BY <2>1
  <2>3. T # {}
    OBVIOUS
  <2> QED BY <2>2, <2>3
<1>2. Min(T) \in T /\ \A z \in T : Min(T) <= z
  BY <1>1, HasFirst
<1>3. PICK x \in S : Min(T) = KeyWord - x
  BY <1>2
<1>4. \A y \in S : x >= y
  <2> SUFFICES ASSUME NEW y \in S PROVE x >= y
    OBVIOUS
  <2>1. KeyWord - x <= KeyWord - y
    BY <1>2, <1>3
  <2> QED BY <2>1, TableConstants
<1> QED BY <1>4 DEF Max

\* A page of the answer to a request: rows of the table within the bounds, the first
\* of them in the order asked for, and where the next page begins.
PageOf(q, answer) ==
    /\ answer \in Pages
    /\ Len(answer.rows) <= q.limit
    /\ \A i \in 1..Len(answer.rows) : answer.rows[i] \in rows /\ Within(q, answer.rows[i])
    /\ IF q.reverse THEN Falling(answer.rows) ELSE Rising(answer.rows)
    /\ \A i \in 1..Len(answer.rows), k \in rows :
          Within(q, k) => \/ Holds(answer.rows, k)
                          \/ IF q.reverse THEN answer.rows[i] > k ELSE answer.rows[i] < k
    /\ answer.rows = <<>> => q.limit = 0 \/ answer.next = Null
    /\ answer.next = Null =>
          \A k \in rows : Within(q, k) => Holds(answer.rows, k)
    /\ answer.next # Null =>
          /\ Within(q, answer.next)
          /\ ~q.reverse => \A i \in 1..Len(answer.rows) : answer.rows[i] < answer.next
          /\ ~q.reverse => \A k \in rows : Within(q, k) /\ k < answer.next => Holds(answer.rows, k)

\* What the node answers is a page (get_table_rows, as the cursor uses it).
LEMMA AnswerIsPage ==
  ASSUME rows \subseteq Keys, NEW q, q.limit \in Nat, q.reverse \in BOOLEAN,
         NEW answer \in Answers(q)
  PROVE  PageOf(q, answer)
<1> DEFINE found == {k \in rows : Within(q, k)}
           Preceding(a, b) == IF q.reverse THEN a > b ELSE a < b
           First(page) ==
               /\ \A i, j \in DOMAIN page : i < j => Preceding(page[i], page[j])
               /\ \A k \in found \ Range(page), i \in DOMAIN page : Preceding(page[i], k)
               /\ page # <<>> \/ q.limit = 0 \/ found = {}
           next(left) == IF left = {} THEN Null ELSE IF q.reverse THEN Max(left) ELSE Min(left)
           sizes == {n \in 0..Cardinality(found) : n <= q.limit}
<1>1. PICK page \in {s \in UNION {[1..n -> found] : n \in sizes} : First(s)} :
         answer = [rows |-> page, next |-> next(found \ Range(page))]
  BY DEF Answers
<1>2. PICK n \in sizes : page \in [1..n -> found]
  OBVIOUS
<1>3. n \in Nat /\ n <= q.limit
  <2>1. found \subseteq 0..(KeyWord - 1)
    BY DEF Keys
  <2>2. IsFiniteSet(0..(KeyWord - 1))
    BY TableConstants, FS_Interval
  <2>3. Cardinality(found) \in Nat
    BY <2>1, <2>2, FS_Subset, FS_CardinalityType
  <2> QED BY <2>3
<1>4. found \subseteq Keys /\ Keys \subseteq Nat
  BY TableConstants
<1>5. page \in Seq(Keys) /\ Len(page) = n /\ DOMAIN page = 1..n
  BY <1>2, <1>3, <1>4
<1>6. \A i \in 1..n : page[i] \in found /\ page[i] \in Nat
  BY <1>2, <1>4
<1> DEFINE left == found \ Range(page)
           x == next(left)
<1>7. answer.rows = page /\ answer.next = x
  BY <1>1
<1>8. left = {} => x = Null
  OBVIOUS
<1>9. left # {} => x \in left /\ x \in Keys /\ (~q.reverse => \A k \in left : x <= k)
  <2> SUFFICES ASSUME left # {} PROVE x \in left /\ x \in Keys /\ (~q.reverse => \A k \in left : x <= k)
    OBVIOUS
  <2>1. left \in SUBSET Keys /\ left \in SUBSET Nat
    BY <1>4
  <2>2. CASE q.reverse
    BY <2>1, <2>2, HasLast
  <2>3. CASE ~q.reverse
    BY <2>1, <2>3, HasFirst
  <2> QED BY <2>2, <2>3
<1>10. \A k \in found : k \in left \/ Holds(page, k)
  BY <1>5 DEF Range, Holds
<1>11. First(page)
  BY <1>1
<1>12. answer \in Pages
  <2>1. x \in Bounds
    BY <1>8, <1>9 DEF Bounds
  <2> HIDE DEF x
  <2> QED BY <1>1, <1>5, <2>1 DEF Pages, x
<1>13. IF q.reverse THEN Falling(page) ELSE Rising(page)
  BY <1>5, <1>11 DEF Falling, Rising
<1>14. page = <<>> => q.limit = 0 \/ x = Null
  BY <1>8, <1>11
<1>15. x = Null => \A k \in rows : Within(q, k) => Holds(page, k)
  <2>1. x = Null => left = {}
    BY <1>9, TableConstants
  <2> HIDE DEF x, left
  <2> QED BY <1>10, <2>1
<1>16. x # Null => x \in left /\ x \in Keys /\ (~q.reverse => \A k \in left : x <= k)
  BY <1>8, <1>9
<1>17. x # Null => Within(q, x)
  BY <1>16
<1>18. x # Null /\ ~q.reverse => \A i \in 1..Len(page) : page[i] < x
  BY <1>5, <1>11, <1>16
<1>19. x # Null /\ ~q.reverse => \A k \in rows : Within(q, k) /\ k < x => Holds(page, k)
  <2> SUFFICES ASSUME x # Null, ~q.reverse, NEW k \in rows, Within(q, k), k < x
               PROVE  Holds(page, k)
    OBVIOUS
  <2>1. k \in found /\ k \in Nat /\ x \in Nat
    BY <1>4, <1>16
  <2>2. k \notin left
    BY <1>16, <2>1
  <2> QED BY <1>10, <2>1, <2>2
<1>20. \A i \in 1..Len(page), k \in rows :
          Within(q, k) => Holds(page, k) \/ IF q.reverse THEN page[i] > k ELSE page[i] < k
  BY <1>5, <1>10, <1>11
<1> HIDE DEF x, left, found, First
<1> QED BY <1>3, <1>5, <1>6, <1>7, <1>12, <1>13, <1>14, <1>15, <1>17, <1>18, <1>19, <1>20
        DEF PageOf, found

-----------------------------------------------------------------------------
(* Table cursors: one more page *)

\* std::min of the rows left, the rows per request and the limit (table.cpp:60-61).
LEMMA LeastOfThree ==
  ASSUME NEW a \in Int, NEW b \in Int, NEW c \in Int
  PROVE  /\ Min({a, b, c}) \in {a, b, c}
         /\ Min({a, b, c}) <= a /\ Min({a, b, c}) <= b /\ Min({a, b, c}) <= c
<1>1. \E x \in {a, b, c} : \A y \in {a, b, c} : x <= y
  <2>1. CASE a <= b /\ a <= c
    BY <2>1
  <2>2. CASE b <= a /\ b <= c
    BY <2>2
  <2>3. CASE c <= a /\ c <= b
    BY <2>3
  <2> QED BY <2>1, <2>2, <2>3
<1> QED BY <1>1 DEF Min

\* The next request of a cursor: the bounds of the query from the key the last page
\* named on, and never more rows than are left.
LEMMA NextRequest ==
  ASSUME TableTypes, Counted, cursor # NoCursor, NEW per \in {1, Unlimited}
  PROVE  LET q == ParamsOf(cursor, per)
         IN  /\ q.limit \in Nat /\ q.reverse = Backwards /\ q.reverse \in BOOLEAN
             /\ q.limit <= cursor.maxRows - cursor.rowsCount
             /\ q.limit = 0 => cursor.rowsCount = cursor.maxRows
             /\ q.upper = cursor.query.upper
             /\ q.lower = IF cursor.nextKey # Null THEN cursor.nextKey ELSE cursor.query.lower
<1> DEFINE c == cursor
           m == Min({RowsRemaining(c), per, c.query.limit})
           r == getTableRowsParams(c, per)
<1>1. /\ c \in Cursors /\ c.query \in Requests /\ c.query.limit \in Nat /\ c.query.limit >= 1
      /\ c.maxRows \in Nat /\ c.rowsCount \in Nat /\ c.rowsCount <= c.maxRows
  BY DEF TableTypes, Counted, Cursors, Requests
<1>2. c.maxRows - c.rowsCount \in Nat /\ per \in Int /\ per >= 1
  BY <1>1 DEF Unlimited
<1>3. /\ m \in {c.maxRows - c.rowsCount, per, c.query.limit}
      /\ m <= c.maxRows - c.rowsCount
  <2>1. m = Min({c.maxRows - c.rowsCount, per, c.query.limit})
    BY DEF RowsRemaining
  <2>2. c.maxRows - c.rowsCount \in Int /\ per \in Int /\ c.query.limit \in Int
    BY <1>1, <1>2
  <2> HIDE DEF m, c
  <2> QED BY <2>1, <2>2, LeastOfThree
<1>4. m \in Nat /\ (m = 0 => c.rowsCount = c.maxRows)
  BY <1>1, <1>2, <1>3
<1> HIDE DEF m
<1>5. r = [c.query EXCEPT !.lower = IF c.nextKey # Null THEN c.nextKey ELSE @, !.limit = m]
  BY DEF getTableRowsParams, m
<1>6. /\ r.limit = m /\ r.reverse = c.query.reverse /\ r.kind = c.query.kind
      /\ r.upper = c.query.upper
      /\ r.lower = IF c.nextKey # Null THEN c.nextKey ELSE c.query.lower
      /\ r \in [kind: {"row", "scope"}, lower: Bounds, upper: Bounds, limit: Nat, reverse: BOOLEAN]
  BY <1>1, <1>4, <1>5 DEF Requests, Cursors
<1> HIDE DEF r
<1>7. /\ [r EXCEPT !.reverse = FALSE].limit = m /\ [r EXCEPT !.reverse = FALSE].reverse = FALSE
      /\ [r EXCEPT !.reverse = FALSE].upper = r.upper
      /\ [r EXCEPT !.reverse = FALSE].lower = r.lower
  BY <1>6
<1>8. CASE c.query.kind = "row"
  <2>1. ParamsOf(cursor, per) = r
    BY <1>8 DEF ParamsOf, r
  <2>2. c.query.reverse \in BOOLEAN
    BY <1>1 DEF Requests
  <2> QED BY <1>3, <1>4, <1>6, <1>8, <2>1, <2>2 DEF Backwards
<1>9. CASE c.query.kind # "row"
  <2>1. ParamsOf(cursor, per) = [r EXCEPT !.reverse = FALSE]
    BY <1>9 DEF ParamsOf, ScopeParams, r
  <2> QED BY <1>3, <1>4, <1>6, <1>7, <1>9, <2>1 DEF Backwards
<1> QED BY <1>8, <1>9

\* What holds of the cursor and its walk, beside the types.
WalkInv == Counted /\ InBounds /\ Forwards /\ FirstBackwards

\* next() takes the page into the walk: it begins at the key the last page named,
\* so nothing of it was returned before and no row that stayed lies in between.
LEMMA PageTaken ==
  ASSUME TableTypes, WalkInv, cursor # NoCursor, ~cursor.endReached,
         NEW per \in {1, Unlimited}, NEW answer \in Answers(ParamsOf(cursor, per)),
         cursor' = Advance(cursor, answer), Walk \in Seq(Keys),
         Walk' = Walk \o answer.rows, UNCHANGED <<rows, steady, lost>>
  PROVE  /\ cursor' \in Cursors /\ cursor'.query = cursor.query
         /\ answer.rows \in Seq(Keys)
         /\ WalkInv'
<1> DEFINE q == ParamsOf(cursor, per)
           c == cursor
           d == cursor'
           W == Walk
           p == answer.rows
           V == W \o p
<1>1. /\ q.limit \in Nat /\ q.reverse = Backwards /\ q.reverse \in BOOLEAN
      /\ q.limit <= c.maxRows - c.rowsCount
      /\ q.limit = 0 => c.rowsCount = c.maxRows
      /\ q.upper = c.query.upper
      /\ q.lower = IF c.nextKey # Null THEN c.nextKey ELSE c.query.lower
  BY NextRequest DEF WalkInv
<1>2. PageOf(q, answer)
  BY <1>1, AnswerIsPage DEF TableTypes
<1> HIDE DEF q
<1>3. /\ c \in Cursors /\ c.query \in Requests /\ c.maxRows \in Nat /\ c.rowsCount \in Nat
      /\ c.pages \in Nat /\ c.nextKey \in Bounds
  BY DEF TableTypes, Cursors
<1>4. /\ p \in Seq(Keys) /\ answer.next \in Bounds /\ Len(p) \in Nat /\ Len(W) \in Nat
      /\ Keys \subseteq Nat /\ Null \notin Keys
      /\ Cardinality(lost) \in Nat
  BY <1>2, TableConstants, FS_CardinalityType DEF PageOf, Pages, TableTypes
<1>5. /\ d = [c EXCEPT !.nextKey = answer.next, !.rowsCount = c.rowsCount + Len(p), !.pages = @ + 1,
                       !.endReached = answer.next = Null \/ p = <<>>
                                        \/ c.rowsCount + Len(p) = c.maxRows]
  BY DEF Advance
<1>6. /\ d.query = c.query /\ d.maxRows = c.maxRows /\ d.nextKey = answer.next
      /\ d.rowsCount = c.rowsCount + Len(p) /\ d.pages = c.pages + 1
      /\ d.endReached = (answer.next = Null \/ p = <<>> \/ c.rowsCount + Len(p) = c.maxRows)
  BY <1>3, <1>5 DEF Cursors
<1>7. d \in Cursors
  <2>1. c.rowsCount + Len(p) \in Nat /\ c.pages + 1 \in Nat
    BY <1>3, <1>4
  <2> QED BY <1>3, <1>4, <1>5, <2>1 DEF Cursors
<1>8. /\ V \in Seq(Keys) /\ Len(V) = Len(W) + Len(p)
      /\ \A i \in 1..Len(W) + Len(p) : V[i] = IF i <= Len(W) THEN W[i] ELSE p[i - Len(W)]
  BY <1>4, ConcatProperties
<1>9. /\ \A i \in 1..Len(W) : W[i] \in Nat
      /\ \A i \in 1..Len(p) : p[i] \in Nat /\ Within(q, p[i])
  <2>1. W \in Seq(Keys)
    OBVIOUS
  <2> HIDE DEF W
  <2>2. \A i \in 1..Len(W) : W[i] \in Keys
    BY <2>1
  <2>3. \A i \in 1..Len(p) : Within(q, p[i])
    BY <1>2 DEF PageOf
  <2> HIDE DEF p
  <2>4. \A i \in 1..Len(p) : p[i] \in Keys
    BY <1>4
  <2> QED BY <1>4, <2>2, <2>3, <2>4
<1>10. Walk' = V /\ d # NoCursor /\ lost' = lost /\ steady' = steady
       /\ Backwards' = Backwards
  <2>1. DOMAIN d # DOMAIN NoCursor
    BY <1>7 DEF Cursors, NoCursor
  <2> QED BY <1>6, <2>1 DEF Backwards
<1>11. \A k : Holds(W, k) \/ Holds(p, k) => Holds(V, k)
  <2>1. ASSUME NEW k, Holds(W, k) PROVE Holds(V, k)
    <3>1. PICK i \in 1..Len(W) : W[i] = k
      BY <2>1 DEF Holds
    <3>2. i \in 1..Len(W) + Len(p) /\ i <= Len(W)
      BY <1>4
    <3> QED BY <1>8, <3>1, <3>2 DEF Holds
  <2>2. ASSUME NEW k, Holds(p, k) PROVE Holds(V, k)
    <3>1. PICK i \in 1..Len(p) : p[i] = k
      BY <2>2 DEF Holds
    <3>2. /\ i + Len(W) \in 1..Len(W) + Len(p) /\ ~(i + Len(W) <= Len(W))
          /\ (i + Len(W)) - Len(W) = i
      BY <1>4
    <3> QED BY <1>8, <3>1, <3>2 DEF Holds
  <2> QED BY <2>1, <2>2
<1> HIDE DEF d, V
<1>12. Counted'
  <2>1. Len(W) + Cardinality(lost) <= c.rowsCount /\ Len(p) <= c.maxRows - c.rowsCount
    BY <1>1, <1>2, <1>3, <1>4 DEF WalkInv, Counted, PageOf
  <2>2. /\ Len(V) + Cardinality(lost) <= d.rowsCount
        /\ d.rowsCount <= d.maxRows
    BY <1>3, <1>4, <1>6, <1>8, <2>1
  <2>3. d.pages # 0
    BY <1>3, <1>6
  <2>4. d.endReached /\ d.rowsCount < d.maxRows => d.nextKey = Null
    <3>1. ASSUME p = <<>>, d.rowsCount < d.maxRows PROVE answer.next = Null
      <4>1. Len(p) = 0
        BY <3>1
      <4>2. q.limit # 0
        BY <1>1, <1>3, <1>6, <3>1, <4>1
      <4> QED BY <1>2, <3>1, <4>2 DEF PageOf
    <3>2. d.rowsCount < d.maxRows => c.rowsCount + Len(p) # c.maxRows
      BY <1>3, <1>4, <1>6
    <3> QED BY <1>6, <3>1, <3>2
  <2>5. d.pages > 0 /\ ~d.endReached => d.nextKey # Null
    BY <1>6
  <2> QED BY <1>10, <2>2, <2>3, <2>4, <2>5 DEF Counted, d
<1>13. ASSUME NEW k \in Nat, Within(q, k) PROVE Within(c.query, k)
  <2>1. c.nextKey # Null => Within(c.query, c.nextKey) /\ c.nextKey \in Nat
    BY <1>3, <1>4 DEF WalkInv, InBounds, Bounds
  <2>2. c.query.lower \in Bounds
    BY <1>3 DEF Requests
  <2>3. (q.lower = Null \/ q.lower <= k) /\ (q.upper = Null \/ k <= q.upper)
    BY <1>13 DEF Within
  <2>4. c.query.lower = Null \/ c.query.lower <= k
    <3>1. CASE c.nextKey = Null
      BY <1>1, <2>3, <3>1
    <3>2. CASE c.nextKey # Null
      <4>1. q.lower = c.nextKey /\ c.nextKey <= k
        BY <1>1, <2>3, <3>2
      <4>2. c.query.lower = Null \/ c.query.lower <= c.nextKey
        BY <2>1, <3>2 DEF Within
      <4>3. c.query.lower # Null => c.query.lower \in Nat
        BY <1>4, <2>2 DEF Bounds
      <4> QED BY <2>1, <3>2, <4>1, <4>2, <4>3
    <3> QED BY <3>1, <3>2
  <2> QED BY <1>1, <2>3, <2>4 DEF Within
<1>14. InBounds'
  <2>1. \A i \in 1..Len(V) : Within(c.query, V[i])
    <3> SUFFICES ASSUME NEW i \in 1..Len(V) PROVE Within(c.query, V[i])
      OBVIOUS
    <3>1. CASE i <= Len(W)
      <4>1. i \in 1..Len(W) /\ V[i] = W[i]
        BY <1>4, <1>8, <3>1
      <4> QED BY <4>1 DEF WalkInv, InBounds
    <3>2. CASE ~(i <= Len(W))
      <4>1. i - Len(W) \in 1..Len(p) /\ V[i] = p[i - Len(W)]
        BY <1>4, <1>8, <3>2
      <4> QED BY <1>9, <1>13, <4>1
    <3> QED BY <3>1, <3>2
  <2>2. answer.next # Null => Within(c.query, answer.next)
    <3>1. answer.next # Null => answer.next \in Nat /\ Within(q, answer.next)
      BY <1>2, <1>4 DEF PageOf, Bounds
    <3> QED BY <1>13, <3>1
  <2> QED BY <1>6, <1>10, <2>1, <2>2 DEF InBounds, d
<1>15. ASSUME ~Backwards
       PROVE  /\ Rising(V)
              /\ answer.next # Null => \A i \in 1..Len(V) : V[i] < answer.next
              /\ \A k \in steady : /\ Within(c.query, k)
                                   /\ answer.next # Null => k < answer.next
                                   => Holds(V, k) \/ k \in lost
  <2>1. /\ Rising(p) /\ ~q.reverse
        /\ answer.next # Null => \A i \in 1..Len(p) : p[i] < answer.next
    BY <1>1, <1>2, <1>15 DEF PageOf
  <2>2. Rising(W) /\ (c.nextKey # Null => \A i \in 1..Len(W) : W[i] < c.nextKey)
    BY <1>15 DEF WalkInv, Forwards
  <2>3. c.nextKey = Null => c.pages = 0 /\ Len(W) = 0
    BY <1>3 DEF WalkInv, Counted
  <2>4. c.nextKey # Null => c.nextKey \in Nat /\ \A k \in Nat : Within(q, k) => c.nextKey <= k
    BY <1>1, <1>3, <1>4 DEF Bounds, Within
  <2>5. \A i \in 1..Len(W), j \in 1..Len(p) : W[i] < p[j]
    <3> SUFFICES ASSUME NEW i \in 1..Len(W), NEW j \in 1..Len(p) PROVE W[i] < p[j]
      OBVIOUS
    <3>1. c.nextKey # Null
      BY <1>4, <2>3
    <3> QED BY <1>9, <2>2, <2>4, <3>1
  <2>6. Rising(V)
    <3> SUFFICES ASSUME NEW i \in 1..Len(V), NEW j \in 1..Len(V), i < j PROVE V[i] < V[j]
      BY DEF Rising
    <3>1. CASE j <= Len(W)
      <4>1. i \in 1..Len(W) /\ j \in 1..Len(W) /\ V[i] = W[i] /\ V[j] = W[j]
        BY <1>4, <1>8, <3>1
      <4> QED BY <2>2, <4>1 DEF Rising
    <3>2. CASE i <= Len(W) /\ ~(j <= Len(W))
      <4>1. /\ i \in 1..Len(W) /\ j - Len(W) \in 1..Len(p)
            /\ V[i] = W[i] /\ V[j] = p[j - Len(W)]
        BY <1>4, <1>8, <3>2
      <4> QED BY <2>5, <4>1
    <3>3. CASE ~(i <= Len(W))
      <4>1. /\ i - Len(W) \in 1..Len(p) /\ j - Len(W) \in 1..Len(p) /\ i - Len(W) < j - Len(W)
            /\ V[i] = p[i - Len(W)] /\ V[j] = p[j - Len(W)]
        BY <1>4, <1>8, <3>3
      <4> QED BY <2>1, <4>1 DEF Rising
    <3> QED BY <3>1, <3>2, <3>3
  <2>7. ASSUME answer.next # Null, NEW i \in 1..Len(V) PROVE V[i] < answer.next
    <3>1. answer.next \in Nat /\ Within(q, answer.next)
      BY <1>2, <1>4, <2>7 DEF PageOf, Bounds
    <3>2. CASE i <= Len(W)
      <4>1. i \in 1..Len(W) /\ V[i] = W[i]
        BY <1>4, <1>8, <3>2
      <4>2. c.nextKey # Null
        BY <1>4, <2>3, <4>1
      <4> QED BY <1>9, <2>2, <2>4, <3>1, <4>1, <4>2
    <3>3. CASE ~(i <= Len(W))
      <4>1. i - Len(W) \in 1..Len(p) /\ V[i] = p[i - Len(W)]
        BY <1>4, <1>8, <3>3
      <4> QED BY <2>1, <2>7, <4>1
    <3> QED BY <3>2, <3>3
  <2>8. ASSUME NEW k \in steady, Within(c.query, k), answer.next # Null => k < answer.next
        PROVE  Holds(V, k) \/ k \in lost
    <3>1. k \in rows /\ k \in Keys /\ k \in Nat
      BY <1>4 DEF TableTypes
    <3>2. CASE c.nextKey # Null /\ k < c.nextKey
      <4>1. c.pages > 0
        BY <1>3, <3>2 DEF WalkInv, Counted
      <4>2. Holds(W, k) \/ k \in lost
        BY <1>15, <2>8, <3>2, <4>1 DEF WalkInv, Forwards
      <4> QED BY <1>11, <4>2
    <3>3. CASE ~(c.nextKey # Null /\ k < c.nextKey)
      <4>1. Within(q, k)
        BY <1>1, <1>3, <1>4, <2>4, <2>8, <3>1, <3>3 DEF Within, Bounds
      <4>2. Holds(p, k)
        BY <1>2, <2>1, <2>8, <3>1, <4>1 DEF PageOf
      <4> QED BY <1>11, <4>2
    <3> QED BY <3>2, <3>3
  <2> QED BY <2>6, <2>7, <2>8
<1>16. Forwards'
  BY <1>6, <1>10, <1>15 DEF Forwards, d
<1>17. ASSUME Backwards, d.pages = 1
       PROVE  /\ Falling(V)
              /\ answer.next = Null =>
                   \A k \in steady : Within(c.query, k) => Holds(V, k) \/ k \in lost
  <2>1. c.pages = 0 /\ Len(W) = 0 /\ c.nextKey = Null
    BY <1>3, <1>6, <1>17 DEF WalkInv, Counted
  <2>2. Falling(p) /\ q.reverse
    BY <1>1, <1>2, <1>17 DEF PageOf
  <2>3. Len(V) = Len(p) /\ \A i \in 1..Len(p) : V[i] = p[i]
    BY <1>4, <1>8, <2>1
  <2>4. Falling(V)
    BY <2>2, <2>3 DEF Falling
  <2>5. ASSUME answer.next = Null, NEW k \in steady, Within(c.query, k) PROVE Holds(V, k)
    <3>1. k \in rows /\ Within(q, k)
      BY <1>1, <2>1, <2>5 DEF TableTypes, Within
    <3> QED BY <1>2, <1>11, <2>5, <3>1 DEF PageOf
  <2> QED BY <2>4, <2>5
<1>18. FirstBackwards'
  BY <1>6, <1>10, <1>17 DEF FirstBackwards, d
<1> QED BY <1>4, <1>6, <1>7, <1>12, <1>14, <1>16, <1>18 DEF WalkInv, d

-----------------------------------------------------------------------------
(* Table cursors: the steps *)

\* A row is a key, and what all() keeps outside of it is not.
LEMMA NotOutside ==
  ASSUME NEW s \in Seq(Keys)
  PROVE  s # NoAll
<1>1. Len(NoAll) = 1 /\ NoAll[1] = Null
  BY DEF NoAll
<1>2. \A i \in 1..Len(s) : s[i] \in Keys
  OBVIOUS
<1> QED BY <1>1, <1>2, TableConstants

\* A cursor is not the absence of one.
LEMMA ACursor == \A c \in Cursors : c # NoCursor
<1>1. \A c \in Cursors : DOMAIN c # DOMAIN NoCursor
  BY DEF Cursors, NoCursor
<1> QED BY <1>1

\* The walk is a sequence of rows.
LEMMA WalkTypes ==
  ASSUME TableTypes
  PROVE  /\ Walk \in Seq(Keys) /\ Len(Walk) \in Nat
         /\ collecting # NoAll => collecting \in Seq(Keys)
  BY DEF TableTypes, Walk

\* A walk that has not begun.
LEMMA FreshWalk ==
  ASSUME cursor' \in Cursors, cursor'.nextKey = Null, ~cursor'.endReached,
         cursor'.rowsCount = 0, cursor'.pages = 0, Walk' = <<>>, lost' = {}
  PROVE  WalkInv'
<1>1. cursor'.maxRows \in Nat /\ Len(Walk') = 0 /\ Cardinality(lost') = 0
  BY FS_EmptySet DEF Cursors
<1>2. Counted'
  BY <1>1 DEF Counted
<1>3. InBounds'
  BY <1>1 DEF InBounds
<1>4. Forwards'
  BY <1>1 DEF Forwards, Rising
<1>5. FirstBackwards'
  BY DEF FirstBackwards
<1> QED BY <1>2, <1>3, <1>4, <1>5 DEF WalkInv

\* Nothing happens to the walk; rows that stayed may leave the table.
LEMMA SameWalk ==
  ASSUME WalkInv, cursor' = cursor, Walk' = Walk, lost' = lost, steady' \subseteq steady
  PROVE  WalkInv'
<1>1. Backwards' = Backwards
  BY DEF Backwards
<1>2. Counted'
  BY DEF WalkInv, Counted
<1>3. InBounds'
  BY DEF WalkInv, InBounds
<1>4. Forwards'
  BY <1>1 DEF WalkInv, Forwards
<1>5. FirstBackwards'
  BY <1>1 DEF WalkInv, FirstBackwards
<1> QED BY <1>2, <1>3, <1>4, <1>5 DEF WalkInv

\* Before a cursor exists.
LEMMA InitTable == TableInit => TableInv
<1> SUFFICES ASSUME TableInit PROVE TableInv
  OBVIOUS
<1>1. TableTypes
  <2>1. IsFiniteSet({})
    BY FS_EmptySet
  <2>2. <<>> \in Seq(Keys)
    OBVIOUS
  <2> QED BY <2>1, <2>2 DEF TableInit, TableTypes
<1>2. cursor = NoCursor /\ got.query.kind = "none"
  BY DEF TableInit, NoAnswer
<1> QED BY <1>1, <1>2 DEF TableInv, Counted, InBounds, Forwards, FirstBackwards, GotFirst

\* Bounds are words, or none.
LEMMA WordBounds == \A v \in Froms \cup Tos : wrapIndexValue(v) \in Bounds
<1> SUFFICES ASSUME NEW v \in Froms \cup Tos PROVE wrapIndexValue(v) \in Bounds
  OBVIOUS
<1>1. v \in Int /\ KeyWord \in Nat /\ KeyWord >= 1
  BY TableAssumption
<1>2. v % KeyWord \in 0..(KeyWord - 1)
  BY <1>1
<1> QED BY <1>2 DEF wrapIndexValue, Bounds, Keys

\* Table::query and scopes start a walk that has not begun.
LEMMA TableQueries ==
  ASSUME TableTypes, WalkInv, Query
  PROVE  TableTypes' /\ WalkInv'
<1>1. /\ cursor = NoCursor /\ collecting = NoAll /\ walked = <<>> /\ lost = {}
      /\ UNCHANGED <<rows, collecting, walked, lost>> /\ Walk' = <<>>
  BY DEF Query, TableTypes, Walk
<1>2. CASE ~known
  <2>1. UNCHANGED <<cursor, steady>>
    BY <1>2 DEF Query
  <2>2. Walk' = Walk
    BY <1>1 DEF Walk
  <2>3. TableTypes'
    BY <1>1, <2>1 DEF TableTypes
  <2> QED BY <1>1, <2>1, <2>2, <2>3, SameWalk
<1>3. CASE known
  <2>0. PICK from \in Froms, to \in Tos, limit \in RowLimits, max \in MaxRowss, reverse \in BOOLEAN :
          /\ \E q \in {buildParams(from, to, limit, reverse), scopes(from, to, limit, reverse)} :
                cursor' = init(q, max)
          /\ steady' = rows
    BY <1>3 DEF Query
  <2>1. PICK q \in {buildParams(from, to, limit, reverse), scopes(from, to, limit, reverse)} :
          cursor' = init(q, max) /\ steady' = rows
    BY <2>0
  <2>2. wrapIndexValue(from) \in Bounds /\ wrapIndexValue(to) \in Bounds
    BY WordBounds
  <2>3. limit \in Nat /\ limit >= 1 /\ max \in Nat
    BY TableConstants
  <2>4. q \in Requests /\ q.limit >= 1
    BY <2>2, <2>3 DEF buildParams, scopes, Requests
  <2>5. /\ cursor' \in Cursors /\ cursor'.nextKey = Null /\ ~cursor'.endReached
        /\ cursor'.rowsCount = 0 /\ cursor'.pages = 0 /\ cursor'.query = q
    BY <2>1, <2>3, <2>4 DEF init, Cursors, Bounds
  <2>6. TableTypes'
    BY <1>1, <2>1, <2>4, <2>5, ACursor DEF TableTypes
  <2> QED BY <1>1, <2>5, <2>6, FreshWalk
<1> QED BY <1>2, <1>3

\* TableCursor::reset starts the walk again, with the rows there are now.
LEMMA TableResets ==
  ASSUME TableTypes, WalkInv, Reset
  PROVE  TableTypes' /\ WalkInv'
<1>1. /\ cursor \in Cursors /\ collecting = NoAll
      /\ cursor' = [cursor EXCEPT !.nextKey = Null, !.endReached = FALSE, !.rowsCount = 0,
                                  !.pages = 0]
      /\ walked' = <<>> /\ lost' = {} /\ steady' = rows
      /\ UNCHANGED <<rows, collecting>>
  BY DEF Reset, TableTypes
<1>2. /\ cursor' \in Cursors /\ cursor'.nextKey = Null /\ ~cursor'.endReached
      /\ cursor'.rowsCount = 0 /\ cursor'.pages = 0 /\ cursor'.query = cursor.query
  BY <1>1 DEF Cursors, Bounds
<1>3. Walk' = <<>>
  BY <1>1 DEF Walk
<1>4. TableTypes'
  <2>1. IsFiniteSet({}) /\ <<>> \in Seq(Keys)
    BY FS_EmptySet
  <2>2. cursor # NoCursor /\ cursor' # NoCursor
    BY <1>1, <1>2, ACursor
  <2> QED BY <1>1, <1>2, <2>1, <2>2 DEF TableTypes
<1> QED BY <1>1, <1>2, <1>3, <1>4, FreshWalk

\* Table::get answers with the first row within its bounds, or none.
LEMMA TableGets ==
  ASSUME TableTypes, WalkInv, Get
  PROVE  TableTypes' /\ WalkInv' /\ GotFirst'
<1>1. PICK from \in Froms, to \in Tos, reverse \in BOOLEAN :
        LET q == buildParams(from, to, 1, reverse)
        IN  \E answer \in Answers(q) : got' = [rows |-> answer.rows, query |-> q, of |-> rows]
  BY DEF Get
<1> DEFINE q == buildParams(from, to, 1, reverse)
           found == {k \in rows : Within(q, k)}
<1>2. PICK answer \in Answers(q) : got' = [rows |-> answer.rows, query |-> q, of |-> rows]
  BY <1>1
<1>3. UNCHANGED <<rows, cursor, collecting, walked, lost, steady>>
  BY DEF Get
<1>4. q.limit = 1 /\ q.reverse = reverse /\ rows \subseteq Keys /\ found \subseteq Keys /\ Keys \subseteq Nat
  BY TableConstants DEF buildParams, TableTypes
<1> HIDE DEF q
<1>5. PageOf(q, answer)
  BY <1>2, <1>4, AnswerIsPage
<1> DEFINE p == answer.rows
<1>6. p \in Seq(Keys) /\ Len(p) \in Nat /\ Len(p) <= 1 /\ (\A i \in 1..Len(p) : p[i] \in found)
  BY <1>4, <1>5 DEF PageOf, Pages
<1>7. /\ p = <<>> => found = {}
      /\ \A k \in found, i \in 1..Len(p) :
            Holds(p, k) \/ IF q.reverse THEN p[i] > k ELSE p[i] < k
  <2>1. p = <<>> => answer.next = Null
    BY <1>4, <1>5 DEF PageOf
  <2>2. answer.next = Null => \A k \in found : Holds(p, k)
    BY <1>5 DEF PageOf
  <2>3. p = <<>> => \A k \in found : ~Holds(p, k)
    BY DEF Holds
  <2>4. \A k \in found, i \in 1..Len(p) :
           Holds(p, k) \/ IF q.reverse THEN p[i] > k ELSE p[i] < k
    BY <1>5 DEF PageOf
  <2> HIDE DEF p, found
  <2> QED BY <2>1, <2>2, <2>3, <2>4
<1> HIDE DEF p
<1>8. p = IF found = {} THEN <<>> ELSE <<IF q.reverse THEN Max(found) ELSE Min(found)>>
  <2>1. CASE Len(p) = 0
    <3>1. p = <<>>
      BY <1>6, <2>1
    <3> QED BY <1>7, <3>1
  <2>2. CASE Len(p) = 1
    <3>1. p[1] \in found /\ p = <<p[1]>> /\ 1 \in 1..Len(p)
      BY <1>6, <2>2
    <3>2. \A k \in found : k = p[1] \/ IF q.reverse THEN p[1] > k ELSE p[1] < k
      BY <1>7, <2>2, <3>1 DEF Holds
    <3>3. found \in SUBSET Keys /\ found \in SUBSET Nat /\ found # {}
      BY <1>4, <3>1
    <3> HIDE DEF found
    <3>4. CASE q.reverse
      <4>1. Max(found) \in found /\ Max(found) >= p[1]
        BY <3>1, <3>3, HasLast
      <4>2. Max(found) = p[1]
        BY <3>1, <3>2, <3>3, <3>4, <4>1
      <4> QED BY <3>1, <3>3, <3>4, <4>2
    <3>5. CASE ~q.reverse
      <4>1. Min(found) \in found /\ Min(found) <= p[1]
        BY <3>1, <3>3, HasFirst
      <4>2. Min(found) = p[1]
        BY <3>1, <3>2, <3>3, <3>5, <4>1
      <4> QED BY <3>1, <3>3, <3>5, <4>2
    <3> QED BY <3>4, <3>5
  <2>3. \A n \in Nat : n <= 1 => n = 0 \/ n = 1
    OBVIOUS
  <2>4. Len(p) = 0 \/ Len(p) = 1
    BY <1>6, <2>3, Zenon
  <2> QED BY <2>1, <2>2, <2>4
<1>9. GotFirst'
  BY <1>2, <1>8 DEF GotFirst, p
<1>10. Walk' = Walk
  BY <1>3 DEF Walk
<1>11. TableTypes'
  BY <1>3 DEF TableTypes
<1> QED BY <1>3, <1>9, <1>10, <1>11, SameWalk

\* Rows that others add and erase leave the walk as it is.
LEMMA TableIsChanged ==
  ASSUME TableTypes, WalkInv, TableChanges
  PROVE  TableTypes' /\ WalkInv'
<1>1. PICK k \in Keys : rows' = IF k \in rows THEN rows \ {k} ELSE rows \cup {k}
  BY DEF TableChanges
<1>2. steady' = steady \cap rows' /\ UNCHANGED <<cursor, collecting, walked, lost>>
  BY DEF TableChanges
<1>3. Walk' = Walk
  BY <1>2 DEF Walk
<1>4. TableTypes'
  <2>1. rows' \subseteq Keys /\ steady' \subseteq rows'
    BY <1>1, <1>2 DEF TableTypes
  <2> QED BY <1>2, <2>1 DEF TableTypes
<1> QED BY <1>2, <1>3, <1>4, SameWalk

\* next() by the caller.
LEMMA NextPageTaken ==
  ASSUME TableTypes, WalkInv, NextPage
  PROVE  TableTypes' /\ WalkInv'
<1>1. /\ cursor # NoCursor /\ collecting = NoAll /\ ~cursor.endReached
      /\ UNCHANGED <<rows, collecting, lost, steady>>
  BY DEF NextPage
<1>2. PICK per \in {1, Unlimited} : \E answer \in Answers(ParamsOf(cursor, per)) :
        cursor' = Advance(cursor, answer) /\ walked' = walked \o answer.rows
  BY DEF NextPage
<1>3. PICK answer \in Answers(ParamsOf(cursor, per)) :
        cursor' = Advance(cursor, answer) /\ walked' = walked \o answer.rows
  BY <1>2
<1>4. Walk \in Seq(Keys) /\ Walk = walked /\ Walk' = Walk \o answer.rows
  BY <1>1, <1>3, WalkTypes DEF Walk
<1>5. /\ cursor' \in Cursors /\ cursor'.query = cursor.query
      /\ answer.rows \in Seq(Keys) /\ WalkInv'
  BY <1>1, <1>2, <1>3, <1>4, PageTaken
<1>6. walked' \in Seq(Keys)
  BY <1>3, <1>4, <1>5, ConcatProperties
<1>7. cursor' # NoCursor
  BY <1>5, ACursor
<1> QED BY <1>1, <1>5, <1>6, <1>7 DEF TableTypes

\* all() begins with nothing.
LEMMA AllHasBegun ==
  ASSUME TableTypes, WalkInv, AllBegins
  PROVE  TableTypes' /\ WalkInv'
<1>1. /\ cursor # NoCursor /\ collecting = NoAll /\ collecting' = <<>>
      /\ UNCHANGED <<rows, cursor, walked, lost, steady>>
  BY DEF AllBegins
<1>2. <<>> \in Seq(Keys) /\ <<>> # NoAll
  <2>1. <<>> \in Seq(Keys)
    OBVIOUS
  <2> QED BY <2>1, NotOutside
<1>3. Walk' = Walk
  <2>1. walked \in Seq(Keys)
    BY DEF TableTypes
  <2>2. walked \o <<>> = walked
    BY <2>1, ConcatEmptySeq
  <2> QED BY <1>1, <1>2, <2>2 DEF Walk
<1>4. TableTypes'
  BY <1>1, <1>2 DEF TableTypes
<1> QED BY <1>1, <1>3, <1>4, SameWalk

\* all() takes a page, or finds the cursor at its end.
LEMMA AllPageTaken ==
  ASSUME TableTypes, WalkInv, AllPage
  PROVE  TableTypes' /\ WalkInv'
<1>1. /\ collecting # NoAll /\ collecting \in Seq(Keys) /\ walked \in Seq(Keys)
      /\ cursor # NoCursor /\ UNCHANGED <<rows, lost, steady>>
      /\ Walk = walked \o collecting /\ Walk \in Seq(Keys)
  BY WalkTypes DEF AllPage, TableTypes, Walk
<1>2. ASSUME NEW p \in Seq(Keys),
             \/ walked' = walked \o collecting \o p /\ collecting' = NoAll
             \/ collecting' = collecting \o p /\ walked' = walked
      PROVE  /\ Walk' = Walk \o p /\ walked' \in Seq(Keys)
             /\ collecting' \in Seq(Keys) \cup {NoAll}
  <2>1. CASE walked' = walked \o collecting \o p /\ collecting' = NoAll
    <3>1. walked' = Walk \o p
      BY <1>1, <2>1
    <3>2. Walk \o p \in Seq(Keys)
      BY <1>1, ConcatProperties
    <3>3. Walk' = walked'
      BY <2>1 DEF Walk
    <3> QED BY <2>1, <3>1, <3>2, <3>3
  <2>2. CASE collecting' = collecting \o p /\ walked' = walked
    <3>1. collecting \o p \in Seq(Keys)
      BY <1>1, ConcatProperties
    <3>2. (walked \o collecting) \o p = walked \o (collecting \o p)
      BY <1>1, ConcatAssociative
    <3>3. collecting' # NoAll
      BY <2>2, <3>1, NotOutside
    <3>4. Walk' = walked' \o collecting'
      BY <3>3 DEF Walk
    <3> QED BY <1>1, <2>2, <3>1, <3>2, <3>4
  <2> QED BY <1>2, <2>1, <2>2
<1>3. CASE cursor.endReached
  <2>1. cursor' = cursor
    BY <1>3 DEF AllPage
  <2>2. <<>> \in Seq(Keys)
    OBVIOUS
  <2>3. walked' = walked \o collecting \o <<>> /\ collecting' = NoAll
    <3> DEFINE e == [rows |-> <<>>, next |-> cursor.nextKey]
    <3>1. e.rows = <<>>
      OBVIOUS
    <3> HIDE DEF e
    <3>2. IF e.rows = <<>> \/ e.next = Null
          THEN walked' = walked \o collecting \o e.rows /\ collecting' = NoAll
          ELSE collecting' = collecting \o e.rows /\ UNCHANGED walked
      <4>1. PICK answer \in {e} :
               IF answer.rows = <<>> \/ answer.next = Null
               THEN walked' = walked \o collecting \o answer.rows /\ collecting' = NoAll
               ELSE collecting' = collecting \o answer.rows /\ UNCHANGED walked
        BY <1>3, Zenon DEF AllPage, e
      <4> QED BY <4>1
    <3> QED BY <3>1, <3>2
  <2>4. /\ Walk' = Walk \o <<>> /\ walked' \in Seq(Keys)
        /\ collecting' \in Seq(Keys) \cup {NoAll}
    BY <1>2, <2>2, <2>3
  <2>5. Walk' = Walk
    BY <1>1, <2>4, ConcatEmptySeq
  <2>6. TableTypes'
    BY <1>1, <2>1, <2>4 DEF TableTypes
  <2> QED BY <1>1, <2>1, <2>5, <2>6, SameWalk
<1>4. CASE ~cursor.endReached
  <2>1. PICK answer \in Answers(ParamsOf(cursor, Unlimited)) :
          /\ cursor' = Advance(cursor, answer)
          /\ IF answer.rows = <<>> \/ answer.next = Null
             THEN walked' = walked \o collecting \o answer.rows /\ collecting' = NoAll
             ELSE collecting' = collecting \o answer.rows /\ UNCHANGED walked
    BY <1>4 DEF AllPage
  <2>2. answer.rows \in Seq(Keys)
    <3>1. ParamsOf(cursor, Unlimited).limit \in Nat /\ ParamsOf(cursor, Unlimited).reverse \in BOOLEAN
      BY <1>1, NextRequest DEF WalkInv
    <3>2. PageOf(ParamsOf(cursor, Unlimited), answer)
      BY <3>1, AnswerIsPage DEF TableTypes
    <3> QED BY <3>2 DEF PageOf, Pages
  <2>3. \/ walked' = walked \o collecting \o answer.rows /\ collecting' = NoAll
        \/ collecting' = collecting \o answer.rows /\ walked' = walked
    BY <2>1
  <2>4. /\ Walk' = Walk \o answer.rows /\ walked' \in Seq(Keys)
        /\ collecting' \in Seq(Keys) \cup {NoAll}
    BY <1>2, <2>2, <2>3
  <2>5. cursor' \in Cursors /\ cursor'.query = cursor.query /\ WalkInv'
    BY <1>1, <1>4, <2>1, <2>4, PageTaken
  <2>6. cursor' # NoCursor
    BY <2>5, ACursor
  <2>7. TableTypes'
    BY <1>1, <2>4, <2>5, <2>6 DEF TableTypes
  <2> QED BY <2>5, <2>7
<1> QED BY <1>3, <1>4

\* A sequence has no more elements than places.
LEMMA RangeSize ==
  ASSUME NEW s \in Seq(Keys)
  PROVE  /\ IsFiniteSet(Range(s)) /\ Cardinality(Range(s)) <= Len(s)
         /\ Range(s) \subseteq Keys /\ \A k : k \in Range(s) <=> Holds(s, k)
<1>1. Len(s) \in Nat /\ s \in [1..Len(s) -> Keys] /\ DOMAIN s = 1..Len(s)
  OBVIOUS
<1>2. Range(s) \subseteq Keys /\ \A k : k \in Range(s) <=> Holds(s, k)
  BY <1>1 DEF Range, Holds
<1>3. s \in Surjection(1..Len(s), Range(s))
  BY <1>1 DEF Surjection, Range
<1>4. IsFiniteSet(1..Len(s)) /\ Cardinality(1..Len(s)) = Len(s)
  BY <1>1, FS_Interval
<1>5. IsFiniteSet(Range(s)) /\ Cardinality(Range(s)) <= Cardinality(1..Len(s))
  BY <1>3, <1>4, FS_Surjection
<1> QED BY <1>2, <1>4, <1>5

\* all() fails: what it collected is lost, the cursor stays where it was.
LEMMA AllHasFailed ==
  ASSUME TableTypes, WalkInv, AllFails
  PROVE  TableTypes' /\ WalkInv'
<1>1. /\ collecting # NoAll /\ collecting \in Seq(Keys) /\ walked \in Seq(Keys)
      /\ cursor # NoCursor /\ UNCHANGED <<rows, cursor, walked, steady>>
      /\ collecting' = NoAll /\ lost' = lost \cup Range(collecting)
      /\ Walk = walked \o collecting /\ Walk' = walked /\ ~cursor.endReached
  BY WalkTypes DEF AllFails, TableTypes, Walk
<1> DEFINE a == walked
           b == collecting
<1>2. /\ Len(a) \in Nat /\ Len(b) \in Nat /\ Len(Walk) = Len(a) + Len(b)
      /\ \A i \in 1..Len(a) + Len(b) : Walk[i] = IF i <= Len(a) THEN a[i] ELSE b[i - Len(a)]
  BY <1>1, ConcatProperties
<1>3. \A i \in 1..Len(a) : i \in 1..Len(Walk) /\ Walk[i] = a[i]
  BY <1>2
<1>4. /\ IsFiniteSet(Range(b)) /\ Cardinality(Range(b)) <= Len(b) /\ Range(b) \subseteq Keys
      /\ \A k : k \in Range(b) <=> Holds(b, k)
  BY <1>1, RangeSize
<1>5. /\ IsFiniteSet(lost') /\ Cardinality(lost') <= Cardinality(lost) + Len(b)
      /\ Cardinality(lost') \in Nat /\ Cardinality(lost) \in Nat /\ lost' \subseteq Keys
  <2>1. IsFiniteSet(lost) /\ lost \subseteq Keys
    BY DEF TableTypes
  <2>2. IsFiniteSet(lost \cap Range(b))
    BY <1>4, FS_Subset
  <2>3. /\ Cardinality(lost) \in Nat /\ Cardinality(Range(b)) \in Nat
        /\ Cardinality(lost \cap Range(b)) \in Nat
    BY <1>4, <2>1, <2>2, FS_CardinalityType
  <2>4. /\ IsFiniteSet(lost')
        /\ Cardinality(lost') = Cardinality(lost) + Cardinality(Range(b))
                                - Cardinality(lost \cap Range(b))
    BY <1>1, <1>4, <2>1, FS_Union
  <2>5. Cardinality(lost') \in Nat
    BY <2>4, FS_CardinalityType
  <2> QED BY <1>1, <1>2, <1>4, <2>1, <2>3, <2>4, <2>5
<1>6. \A k : Holds(Walk, k) => Holds(a, k) \/ k \in lost'
  <2> SUFFICES ASSUME NEW k, Holds(Walk, k) PROVE Holds(a, k) \/ k \in lost'
    OBVIOUS
  <2>1. PICK i \in 1..Len(Walk) : Walk[i] = k
    BY DEF Holds
  <2>2. CASE i <= Len(a)
    BY <1>2, <2>1, <2>2 DEF Holds
  <2>3. CASE ~(i <= Len(a))
    <3>1. i - Len(a) \in 1..Len(b) /\ b[i - Len(a)] = k
      BY <1>2, <2>1, <2>3
    <3>2. Holds(b, k)
      BY <3>1 DEF Holds
    <3> QED BY <1>1, <1>4, <3>2
  <2> QED BY <2>2, <2>3
<1>7. lost \subseteq lost' /\ Backwards' = Backwards
  BY <1>1 DEF Backwards
<1> HIDE DEF a, b
<1>8. Walk' = a
  BY <1>1 DEF a
<1>9. Counted'
  <2>1. /\ Len(Walk) + Cardinality(lost) <= cursor.rowsCount
        /\ cursor.rowsCount <= cursor.maxRows
    BY <1>1 DEF WalkInv, Counted
  <2>2. cursor.rowsCount \in Nat
    BY <1>1 DEF TableTypes, Cursors
  <2>3. Len(a) + Cardinality(lost') <= cursor.rowsCount
    BY <1>2, <1>5, <2>1, <2>2
  <2>4. cursor.pages = 0 => a = <<>> /\ lost' = {} /\ cursor.nextKey = Null
    <3> SUFFICES ASSUME cursor.pages = 0 PROVE a = <<>> /\ lost' = {} /\ cursor.nextKey = Null
      OBVIOUS
    <3>1. Len(Walk) = 0 /\ lost = {} /\ cursor.nextKey = Null
      BY <1>1 DEF WalkInv, Counted
    <3>2. Len(a) = 0 /\ Len(b) = 0
      <4>1. Len(a) \in Nat /\ Len(b) \in Nat /\ Len(Walk) = Len(a) + Len(b)
        BY <1>2
      <4> QED BY <3>1, <4>1
    <3>3. a = <<>>
      BY <1>1, <3>2 DEF a
    <3>4. Range(b) = {}
      BY <1>4, <3>2 DEF Holds
    <3> QED BY <1>1, <3>1, <3>3, <3>4 DEF b
  <2>5. cursor.pages > 0 => cursor.nextKey # Null
    BY <1>1 DEF WalkInv, Counted
  <2> QED BY <1>1, <1>8, <2>1, <2>3, <2>4, <2>5 DEF Counted
<1>10. InBounds'
  BY <1>1, <1>3, <1>8 DEF WalkInv, InBounds
<1>11. Forwards'
  <2> SUFFICES ASSUME ~Backwards
               PROVE  /\ Rising(a)
                      /\ cursor.nextKey # Null => \A i \in 1..Len(a) : a[i] < cursor.nextKey
                      /\ cursor.pages > 0 =>
                            \A k \in steady : /\ Within(cursor.query, k)
                                              /\ cursor.nextKey # Null => k < cursor.nextKey
                                              => Holds(a, k) \/ k \in lost'
    BY <1>1, <1>7, <1>8 DEF Forwards
  <2>1. Rising(a)
    BY <1>1, <1>3 DEF WalkInv, Forwards, Rising
  <2>2. cursor.nextKey # Null => \A i \in 1..Len(a) : a[i] < cursor.nextKey
    BY <1>1, <1>3 DEF WalkInv, Forwards
  <2>3. cursor.pages > 0 =>
           \A k \in steady : /\ Within(cursor.query, k)
                             /\ cursor.nextKey # Null => k < cursor.nextKey
                             => Holds(Walk, k) \/ k \in lost
    BY <1>1 DEF WalkInv, Forwards
  <2> QED BY <1>6, <1>7, <2>1, <2>2, <2>3
<1>12. FirstBackwards'
  <2> SUFFICES ASSUME Backwards, cursor.pages = 1
               PROVE  /\ Falling(a)
                      /\ cursor.nextKey = Null =>
                            \A k \in steady : Within(cursor.query, k) => Holds(a, k) \/ k \in lost'
    BY <1>1, <1>7, <1>8 DEF FirstBackwards
  <2>1. /\ Falling(Walk)
        /\ cursor.nextKey = Null =>
              \A k \in steady : Within(cursor.query, k) => Holds(Walk, k) \/ k \in lost
    BY <1>1 DEF WalkInv, FirstBackwards
  <2>2. Falling(a)
    BY <1>3, <2>1 DEF Falling
  <2> QED BY <1>6, <1>7, <2>1, <2>2
<1>13. TableTypes'
  BY <1>1, <1>5 DEF TableTypes
<1> QED BY <1>9, <1>10, <1>11, <1>12, <1>13 DEF WalkInv

-----------------------------------------------------------------------------
(* Table cursors: the theorem *)

\* Every step keeps the invariant.
LEMMA NextTable ==
  ASSUME TableInv, [TableNext]_tableVars
  PROVE  TableInv'
<1>1. TableTypes /\ WalkInv /\ GotFirst
  BY DEF TableInv, WalkInv
<1> SUFFICES TableTypes' /\ WalkInv' /\ GotFirst'
  BY DEF TableInv, WalkInv
<1>2. CASE Query
  <2>1. GotFirst'
    BY <1>1, <1>2 DEF Query, GotFirst
  <2> QED BY <1>1, <1>2, <2>1, TableQueries
<1>3. CASE NextPage
  <2>1. GotFirst'
    BY <1>1, <1>3 DEF NextPage, GotFirst
  <2> QED BY <1>1, <1>3, <2>1, NextPageTaken
<1>4. CASE AllBegins
  <2>1. GotFirst'
    BY <1>1, <1>4 DEF AllBegins, GotFirst
  <2> QED BY <1>1, <1>4, <2>1, AllHasBegun
<1>5. CASE AllPage
  <2>1. GotFirst'
    BY <1>1, <1>5 DEF AllPage, GotFirst
  <2> QED BY <1>1, <1>5, <2>1, AllPageTaken
<1>6. CASE AllFails
  <2>1. GotFirst'
    BY <1>1, <1>6 DEF AllFails, GotFirst
  <2> QED BY <1>1, <1>6, <2>1, AllHasFailed
<1>7. CASE Reset
  <2>1. GotFirst'
    BY <1>1, <1>7 DEF Reset, GotFirst
  <2> QED BY <1>1, <1>7, <2>1, TableResets
<1>8. CASE Get
  BY <1>1, <1>8, TableGets
<1>9. CASE TableChanges
  <2>1. GotFirst'
    BY <1>1, <1>9 DEF TableChanges, GotFirst
  <2> QED BY <1>1, <1>9, <2>1, TableIsChanged
<1>10. CASE UNCHANGED tableVars
  <2>1. TableTypes' /\ GotFirst'
    BY <1>1, <1>10 DEF tableVars, TableTypes, GotFirst
  <2>2. Walk' = Walk
    BY <1>10 DEF tableVars, Walk
  <2>3. cursor' = cursor /\ lost' = lost /\ steady' = steady
    BY <1>10 DEF tableVars
  <2> QED BY <1>1, <2>1, <2>2, <2>3, SameWalk
<1> QED
  BY <1>2, <1>3, <1>4, <1>5, <1>6, <1>7, <1>8, <1>9, <1>10 DEF TableNext

\* A walk that falls rises when it is turned round.
LEMMA TurnedRound ==
  ASSUME NEW s \in Seq(Keys)
  PROVE  /\ Rising(s) => Ascending(s)
         /\ Falling(s) => Ascending(Reverse(s))
<1>1. Len(s) \in Nat /\ \A i \in 1..Len(s) : s[i] \in Nat
  <2>1. Len(s) \in Nat /\ \A i \in 1..Len(s) : s[i] \in Keys
    OBVIOUS
  <2>2. \A k \in Keys : k \in Nat
    BY TableConstants
  <2> QED BY <2>1, <2>2
<1>2. ASSUME Rising(s) PROVE Ascending(s)
  BY <1>1, <1>2 DEF Rising, Ascending
<1> DEFINE r == Reverse(s)
<1>3. r = [i \in 1..Len(s) |-> s[(Len(s) - i) + 1]]
  BY DEF Reverse
<1>4. Len(r) = Len(s) /\ \A i \in 1..Len(s) : r[i] = s[(Len(s) - i) + 1]
  <2>1. \A i \in 1..Len(s) : (Len(s) - i) + 1 \in 1..Len(s)
    BY <1>1
  <2>2. r \in [1..Len(s) -> Nat]
    BY <1>1, <1>3, <2>1
  <2>3. r \in Seq(Nat) /\ Len(r) = Len(s)
    BY <1>1, <2>2
  <2> HIDE DEF r
  <2> QED BY <1>3, <2>3
<1> HIDE DEF r
<1>5. ASSUME Falling(s) PROVE Ascending(r)
  <2> SUFFICES ASSUME NEW i \in 1..(Len(r) - 1) PROVE r[i] < r[i + 1]
    BY DEF Ascending
  <2> DEFINE j == (Len(s) - (i + 1)) + 1
             k == (Len(s) - i) + 1
  <2>1. i \in 1..Len(s) /\ i + 1 \in 1..Len(s) /\ j \in 1..Len(s) /\ k \in 1..Len(s) /\ j < k
    BY <1>1, <1>4
  <2>2. r[i] = s[k] /\ r[i + 1] = s[j]
    BY <1>4, <2>1
  <2> HIDE DEF j, k
  <2>3. s[j] > s[k]
    BY <1>5, <2>1 DEF Falling
  <2> QED BY <1>1, <2>1, <2>2, <2>3
<1> QED BY <1>2, <1>5 DEF r

\* The invariant says that the walk is whole.
LEMMA WholeTable ==
  ASSUME TableInv
  PROVE  WalkWhole
<1>1. TableTypes /\ Counted /\ InBounds /\ Forwards /\ FirstBackwards /\ GotFirst
  BY DEF TableInv
<1> DEFINE bounded == [cursor.query EXCEPT !.limit = 0]
           Bounded(k) == Within(bounded, k)
<1>2. ASSUME cursor # NoCursor
      PROVE  /\ \A i \in DOMAIN Walk : Within(bounded, Walk[i])
             /\ Len(Walk) + Cardinality(lost) <= cursor.maxRows
             /\ (~Backwards \/ cursor.pages <= 1) =>
                  /\ Ascending(IF Backwards THEN Reverse(Walk) ELSE Walk)
                  /\ cursor.endReached /\ cursor.rowsCount < cursor.maxRows =>
                       \A k \in steady : Within(bounded, k) => k \in Range(Walk) \cup lost
  <2>1. /\ cursor \in Cursors /\ cursor.query \in Requests
        /\ cursor.maxRows \in Nat /\ cursor.rowsCount \in Nat /\ cursor.pages \in Nat
    BY <1>1, <1>2 DEF TableTypes, Cursors
  <2>2. bounded.lower = cursor.query.lower /\ bounded.upper = cursor.query.upper
    BY <2>1 DEF Requests
  <2>3. \A k : Within(bounded, k) <=> Within(cursor.query, k)
    BY <2>2 DEF Within
  <2> HIDE DEF bounded
  <2>4. /\ Walk \in Seq(Keys) /\ Len(Walk) \in Nat /\ DOMAIN Walk = 1..Len(Walk)
        /\ \A k : k \in Range(Walk) <=> Holds(Walk, k)
        /\ Cardinality(lost) \in Nat
    BY <1>1, WalkTypes, RangeSize, FS_CardinalityType DEF TableTypes
  <2>5. \A i \in DOMAIN Walk : Within(bounded, Walk[i])
    BY <1>1, <1>2, <2>3, <2>4 DEF InBounds
  <2>6. Len(Walk) + Cardinality(lost) <= cursor.maxRows
    <3>1. /\ Len(Walk) + Cardinality(lost) <= cursor.rowsCount
          /\ cursor.rowsCount <= cursor.maxRows
      BY <1>1, <1>2 DEF Counted
    <3> QED BY <2>1, <2>4, <3>1
  <2>7. cursor.pages = 0 => Walk = <<>> /\ ~cursor.endReached
    BY <1>1, <1>2 DEF Counted
  <2>8. cursor.endReached /\ cursor.rowsCount < cursor.maxRows => cursor.nextKey = Null /\ cursor.pages > 0
    BY <1>1, <1>2, <2>1, <2>7 DEF Counted
  <2>9. CASE ~Backwards
    <3>1. Rising(Walk)
      BY <1>1, <1>2, <2>9 DEF Forwards
    <3>2. Ascending(Walk)
      BY <2>4, <3>1, TurnedRound
    <3>3. cursor.endReached /\ cursor.rowsCount < cursor.maxRows =>
             \A k \in steady : Within(cursor.query, k) => Holds(Walk, k) \/ k \in lost
      BY <1>1, <1>2, <2>8, <2>9 DEF Forwards
    <3> QED BY <2>3, <2>4, <2>5, <2>6, <2>9, <3>2, <3>3
  <2>10. CASE Backwards /\ cursor.pages <= 1
    <3>1. cursor.pages = 0 \/ cursor.pages = 1
      BY <2>1, <2>10
    <3>2. Falling(Walk)
      <4>1. CASE cursor.pages = 0
        BY <2>4, <2>7, <4>1 DEF Falling
      <4>2. CASE cursor.pages = 1
        BY <1>1, <1>2, <2>10, <4>2 DEF FirstBackwards
      <4> QED BY <3>1, <4>1, <4>2
    <3>3. Ascending(Reverse(Walk))
      BY <2>4, <3>2, TurnedRound
    <3>4. cursor.endReached /\ cursor.rowsCount < cursor.maxRows =>
             \A k \in steady : Within(cursor.query, k) => Holds(Walk, k) \/ k \in lost
      BY <1>1, <1>2, <2>8, <2>10, <3>1 DEF FirstBackwards
    <3> QED BY <2>3, <2>4, <2>5, <2>6, <2>10, <3>3, <3>4
  <2> QED BY <2>5, <2>6, <2>9, <2>10
<1>3. got.query.kind = "row" =>
        LET found == {k \in got.of : Within(got.query, k)}
        IN  got.rows = IF found = {} THEN <<>>
                       ELSE <<IF got.query.reverse THEN Max(found) ELSE Min(found)>>
  BY <1>1 DEF GotFirst
<1> QED BY <1>2, <1>3 DEF WalkWhole, Walk, Backwards

\* Table cursors: whatever the bounds, the limits and the number of pages, and
\* whatever rows others add and erase between the pages, a walk returns rows within
\* its bounds, at most maxRows, in order and none twice, and one that reached its end
\* below maxRows has every row that was there throughout (TableCursor::next and
\* all()); get() returns the first row within its bounds.
THEOREM WalkAlwaysWhole == TableSpec => []WalkWhole
<1>1. TableInit => TableInv
  BY InitTable
<1>2. TableInv /\ [TableNext]_tableVars => TableInv'
  BY NextTable
<1>3. TableInv => WalkWhole
  BY WholeTable
<1> QED BY <1>1, <1>2, <1>3, PTL DEF TableSpec

-----------------------------------------------------------------------------
(* Signing requests: the invariant *)

RequestSpec == RequestInit /\ [][RequestNext]_requestVars

\* A request as create() and fromTransaction() make it, or fromData() reads it.
Wellmade(r) ==
    /\ r = [version |-> r.version, kind |-> r.kind, chain |-> r.chain, actions |-> r.actions,
            tapos |-> r.tapos, perm |-> r.perm, scope |-> r.scope, broadcast |-> r.broadcast,
            callback |-> r.callback, info |-> r.info, sig |-> r.sig]
    /\ r.version \in {2, 3} /\ r.scope \notin {"P1", "P2"}
Declined(r) == isIdentity(r) /\ r.broadcast
IsResult(x) == x = Fail \/ x = Ok(x.is)

RequestTypes ==
    /\ IsResult(request) /\ IsResult(received) /\ IsResult(resolved)
    /\ IsResult(rebuilt) /\ IsResult(proof)
    /\ edits \in Nat

\* The dapp's request: its signature covers it unless a setter ran since, and
\* until one ran it is for the chains it was created for.
RequestMade ==
    request.ok =>
        /\ Wellmade(request.is)
        /\ request.is.sig # NoSig => stale \/ request.is.sig = {Signable(request.is)}
        /\ edits = 0 =>
              /\ ~Declined(request.is)
              /\ \A a \in args :
                    /\ ~a.anyChain => request.is.chain = chainVariant(a.chainId)
                    /\ a.anyChain /\ a.chainIds # {} /\ a.info = <<>> =>
                          /\ request.is.chain = AnyChain
                          /\ getChainIds(request.is) = a.chainIds

\* The wallet has the dapp's request, or refused it.
RequestSent ==
    /\ uri # {} => request.ok /\ IF Declined(request.is) THEN ~received.ok ELSE received = request
    /\ received.ok => uri # {} /\ ~Declined(request.is)

\* Everything later was computed from it, and from the callback.
RequestAnswered ==
    /\ resolved.ok =>
          /\ received.ok
          /\ \E s \in Signers, ctx \in Contexts : resolved = resolve(received.is, s, ctx, 7)
    /\ payload # {} => resolved.ok /\ payload = {getCallback(resolved.is)}
    /\ rebuilt.ok => payload # {} /\ rebuilt = fromPayload(getCallback(resolved.is), dropped, 9)
    /\ proof.ok =>
          /\ resolved.ok
          /\ \/ /\ isIdentity(received.is)
                /\ proof = Ok(getIdentityProof(resolved.is, SigningDigest(resolved.is.chain, resolved.is.tx)))
             \/ payload # {} /\ proof = proofFromPayload(getCallback(resolved.is), dropped)

RequestInv == RequestTypes /\ RequestMade /\ RequestSent /\ RequestAnswered

-----------------------------------------------------------------------------
(* Signing requests: what the operations compute *)

\* encode() and fromData() give the request back, or refuse it.
LEMMA ReadBack ==
  ASSUME NEW r, Wellmade(r)
  PROVE  /\ [r EXCEPT !.version = r.version] = r
         /\ fromData(encode(r)) = IF Declined(r) THEN Fail ELSE Ok(r)
<1>1. [r EXCEPT !.version = r.version] = r
  BY DEF Wellmade
<1>2. encode(r).header = r.version /\ encode(r).body = r
  BY DEF encode
<1> QED BY <1>1, <1>2 DEF fromData, Declined

\* What resolve() gives when it succeeds.
LEMMA Resolves ==
  ASSUME NEW r, NEW s, NEW ctx, NEW now, resolve(r, s, ctx, now).ok
  PROVE  LET x == resolve(r, s, ctx, now).is
         IN  /\ hasAbis(r) /\ taposOf(r, ctx, now).ok /\ chainOf(r, ctx).ok
             /\ resolve(r, s, ctx, now) = Ok(x)
             /\ x = [request |-> r, signer |-> s, chain |-> chainOf(r, ctx).is,
                     tx |-> [tapos |-> taposOf(r, ctx, now).is, actions |-> resolveActions(r, s)]]
<1> DEFINE y == [request |-> r, signer |-> s, chain |-> chainOf(r, ctx).is,
                 tx |-> [tapos |-> taposOf(r, ctx, now).is, actions |-> resolveActions(r, s)]]
<1> HIDE DEF y
<1>1. resolve(r, s, ctx, now) =
        IF ~hasAbis(r) \/ ~taposOf(r, ctx, now).ok \/ ~chainOf(r, ctx).ok THEN Fail ELSE Ok(y)
  BY DEF resolve, y
<1>2. ~Fail.ok
  BY DEF Fail
<1>3. hasAbis(r) /\ taposOf(r, ctx, now).ok /\ chainOf(r, ctx).ok
  BY <1>1, <1>2
<1>4. resolve(r, s, ctx, now) = Ok(y) /\ Ok(y).is = y
  BY <1>1, <1>3 DEF Ok
<1> QED BY <1>3, <1>4 DEF y

\* The transaction a wallet resolves has numbers a callback carries.
LEMMA ResolvedTapos ==
  ASSUME NEW r, NEW ctx \in Contexts, NEW now \in Nat, taposOf(r, ctx, now).ok
  PROVE  LET t == taposOf(r, ctx, now).is
         IN  /\ isIdentity(r) => /\ t = [NoTapos EXCEPT !.expiration = t.expiration]
                                 /\ t.expiration \in Nat
                                 /\ r.version = 2 => t.expiration = 0
             /\ ~isIdentity(r) /\ hasTapos(r.tapos) => t = r.tapos
             /\ ~isIdentity(r) /\ ~hasTapos(r.tapos) =>
                   /\ t = [expiration |-> t.expiration, num |-> t.num, prefix |-> t.prefix]
                   /\ t.num \in RefBlocks
<1> DEFINE t == taposOf(r, ctx, now).is
<1>1. ctx \in CallerContexts /\ RefWord \in Nat /\ RefWord >= 1
  BY RequestAssumption
<1>2. /\ ctx.expiration \in Nat \cup {None} /\ ctx.timestamp \in Nat \cup {None}
      /\ ctx.block \in Nat \cup {None} /\ ctx.num \in RefBlocks \cup {None}
  BY <1>1 DEF CallerContexts
<1>3. expirationTime(ctx, now) \in Nat
  BY <1>2 DEF expirationTime, ExpireSeconds, None
<1>4. CASE isIdentity(r)
  <2> DEFINE e == IF r.version = 2 THEN 0
                  ELSE IF ctx.expiration # None THEN ctx.expiration ELSE expirationTime(ctx, now)
  <2>1. t = [NoTapos EXCEPT !.expiration = e]
    BY <1>4 DEF taposOf, Ok
  <2>2. e \in Nat /\ (r.version = 2 => e = 0)
    BY <1>2, <1>3
  <2> HIDE DEF e, t
  <2>3. t.expiration = e
    BY <2>1 DEF NoTapos
  <2> QED BY <1>4, <2>1, <2>2, <2>3 DEF t
<1>5. CASE ~isIdentity(r) /\ hasTapos(r.tapos)
  BY <1>5 DEF taposOf, Ok
<1>6. CASE ~isIdentity(r) /\ ~hasTapos(r.tapos)
  <2>1. CASE ctx.expiration # None /\ ctx.num # None /\ ctx.prefix # None
    <3>1. t = [expiration |-> ctx.expiration, num |-> ctx.num, prefix |-> ctx.prefix]
      BY <1>6, <2>1 DEF taposOf, Ok
    <3>2. ctx.num \in RefBlocks
      BY <1>2, <2>1
    <3> HIDE DEF t
    <3> QED BY <1>6, <3>1, <3>2 DEF t
  <2>2. CASE /\ ~(ctx.expiration # None /\ ctx.num # None /\ ctx.prefix # None)
             /\ ctx.block # None /\ ctx.prefix # None /\ ctx.timestamp # None
    <3>1. t = [expiration |-> expirationTime(ctx, now), num |-> ctx.block % RefWord, prefix |-> ctx.prefix]
      BY <1>6, <2>2 DEF taposOf, Ok
    <3>2. ctx.block % RefWord \in RefBlocks
      BY <1>1, <1>2, <2>2 DEF RefBlocks
    <3> HIDE DEF t
    <3> QED BY <1>6, <3>1, <3>2 DEF t
  <2>3. CASE /\ ~(ctx.expiration # None /\ ctx.num # None /\ ctx.prefix # None)
             /\ ~(ctx.block # None /\ ctx.prefix # None /\ ctx.timestamp # None)
    <3>1. taposOf(r, ctx, now) = Fail
      BY <1>6, <2>3 DEF taposOf
    <3> QED BY <3>1 DEF Fail
  <2> QED BY <2>1, <2>2, <2>3
<1> QED BY <1>4, <1>5, <1>6

\* The chain of a context that comes from a callback is the chain resolved for.
LEMMA RebuiltChain ==
  ASSUME NEW r, NEW ctx, NEW ctx2, NEW gone, chainOf(r, ctx).ok, chainOf(r, ctx2).ok,
         "cid" \in gone => variantChainId(r.chain).ok,
         ctx2.chain = IF "cid" \in gone THEN variantChainId(r.chain).is ELSE chainOf(r, ctx).is
  PROVE  chainOf(r, ctx2).is = chainOf(r, ctx).is
<1>1. CASE isMultiChain(r)
  <2>1. variantChainId(r.chain) = Fail
    BY <1>1 DEF isMultiChain, variantChainId
  <2>2. "cid" \notin gone
    BY <2>1 DEF Fail
  <2>3. chainOf(r, ctx2) = IF ctx2.chain \in getChainIds(r) THEN Ok(ctx2.chain) ELSE Fail
    BY <1>1 DEF chainOf
  <2>4. ctx2.chain \in getChainIds(r)
    BY <2>3 DEF Fail
  <2> QED BY <2>2, <2>3, <2>4 DEF Ok
<1>2. CASE ~isMultiChain(r)
  BY <1>2 DEF chainOf
<1> QED BY <1>1, <1>2

\* What fromPayload() rebuilds from the callback of a resolved request.
LEMMA Rebuilt ==
  ASSUME NEW r, Wellmade(r), NEW s, NEW ctx \in Contexts, NEW now \in Nat, NEW then \in Nat,
         resolve(r, s, ctx, now).ok, NEW gone,
         LET x == resolve(r, s, ctx, now).is
         IN  fromPayload(getCallback(x), gone, then).ok
  PROVE  LET x == resolve(r, s, ctx, now).is
         IN  fromPayload(getCallback(x), gone, then).is = x \/ (isIdentity(r) /\ "ex" \in gone)
<1> DEFINE x == resolve(r, s, ctx, now).is
           p == getCallback(x)
           own == variantChainId(r.chain)
           ctx2 == [expiration |-> IF "ex" \in gone THEN None ELSE p.tapos.expiration,
                    num |-> IF "rbn" \in gone THEN None ELSE p.tapos.num % RefWord,
                    prefix |-> IF "rid" \in gone THEN None ELSE p.tapos.prefix,
                    block |-> None, timestamp |-> None,
                    chain |-> IF "cid" \in gone THEN own.is ELSE p.chain]
           y == fromPayload(p, gone, then)
           t == taposOf(r, ctx, now).is
           t2 == taposOf(r, ctx2, then).is
<1>1. /\ taposOf(r, ctx, now).ok /\ chainOf(r, ctx).ok
      /\ x = [request |-> r, signer |-> s, chain |-> chainOf(r, ctx).is,
              tx |-> [tapos |-> t, actions |-> resolveActions(r, s)]]
  BY Resolves
<1>2. p = [req |-> encode(r), signer |-> s, tapos |-> t, chain |-> chainOf(r, ctx).is,
           sig |-> SigningDigest(chainOf(r, ctx).is, x.tx)]
  <2> HIDE DEF x, t
  <2> QED BY <1>1 DEF getCallback, p
<1> HIDE DEF x, t
<1>3. p.req = encode(r) /\ p.signer = s /\ p.tapos = t /\ p.chain = chainOf(r, ctx).is
  BY <1>2
<1> HIDE DEF p
<1>4. y.ok
  BY DEF x, p
<1>5. fromData(p.req) = IF Declined(r) THEN Fail ELSE Ok(r)
  BY <1>3, ReadBack
<1>6. /\ ~Declined(r) /\ ("cid" \in gone => own.ok)
      /\ y = resolve(r, s, ctx2, then)
  <2>1. fromData(p.req) # Fail
    BY <1>4 DEF fromPayload, Fail
  <2>2. ~Declined(r) /\ fromData(p.req) = Ok(r)
    BY <1>5, <2>1
  <2>3. fromData(p.req).ok /\ fromData(p.req).is = r
    BY <2>2 DEF Ok
  <2>4. "cid" \in gone => own.ok
    BY <1>4, <2>3 DEF fromPayload, Fail
  <2>5. y = resolve(r, s, ctx2, then)
    BY <1>3, <2>3, <2>4 DEF fromPayload
  <2> QED BY <2>2, <2>4, <2>5
<1> HIDE DEF y, ctx2
<1>7. /\ taposOf(r, ctx2, then).ok /\ chainOf(r, ctx2).ok
      /\ y.is = [request |-> r, signer |-> s, chain |-> chainOf(r, ctx2).is,
                 tx |-> [tapos |-> t2, actions |-> resolveActions(r, s)]]
  BY <1>4, <1>6, Resolves
<1>8. /\ ctx2.expiration = IF "ex" \in gone THEN None ELSE t.expiration
      /\ ctx2.num = IF "rbn" \in gone THEN None ELSE t.num % RefWord
      /\ ctx2.prefix = IF "rid" \in gone THEN None ELSE t.prefix
      /\ ctx2.block = None
      /\ ctx2.chain = IF "cid" \in gone THEN own.is ELSE chainOf(r, ctx).is
  BY <1>3 DEF ctx2
<1>9. chainOf(r, ctx2).is = chainOf(r, ctx).is
  BY <1>1, <1>6, <1>7, <1>8, RebuiltChain
<1>10. ASSUME ~(isIdentity(r) /\ "ex" \in gone) PROVE t2 = t
  <2>1. /\ isIdentity(r) => /\ t = [NoTapos EXCEPT !.expiration = t.expiration]
                            /\ t.expiration \in Nat
                            /\ r.version = 2 => t.expiration = 0
        /\ ~isIdentity(r) /\ hasTapos(r.tapos) => t = r.tapos
        /\ ~isIdentity(r) /\ ~hasTapos(r.tapos) =>
              /\ t = [expiration |-> t.expiration, num |-> t.num, prefix |-> t.prefix]
              /\ t.num \in RefBlocks
    BY <1>1, ResolvedTapos DEF t
  <2>2. CASE isIdentity(r)
    <3>1. t2 = [NoTapos EXCEPT !.expiration =
                  IF r.version = 2 THEN 0
                  ELSE IF ctx2.expiration # None THEN ctx2.expiration ELSE expirationTime(ctx2, then)]
      BY <2>2 DEF taposOf, Ok
    <3>2. ctx2.expiration = t.expiration /\ t.expiration # None
      BY <1>8, <1>10, <2>1, <2>2 DEF None
    <3> QED BY <2>1, <2>2, <3>1, <3>2
  <2>3. CASE ~isIdentity(r) /\ hasTapos(r.tapos)
    <3>1. t2 = r.tapos
      BY <2>3 DEF taposOf, Ok
    <3> QED BY <2>1, <2>3, <3>1
  <2>4. CASE ~isIdentity(r) /\ ~hasTapos(r.tapos)
    <3>1. ctx2.expiration # None /\ ctx2.num # None /\ ctx2.prefix # None
      <4> SUFFICES ASSUME ~(ctx2.expiration # None /\ ctx2.num # None /\ ctx2.prefix # None)
                   PROVE  FALSE
        OBVIOUS
      <4>1. taposOf(r, ctx2, then) = Fail
        BY <1>8, <2>4 DEF taposOf
      <4> QED BY <1>7, <4>1 DEF Fail
    <3>2. t2 = [expiration |-> ctx2.expiration, num |-> ctx2.num, prefix |-> ctx2.prefix]
      BY <2>4, <3>1 DEF taposOf, Ok
    <3>3. ctx2.expiration = t.expiration /\ ctx2.num = t.num % RefWord /\ ctx2.prefix = t.prefix
      BY <1>8, <3>1
    <3>4. t.num % RefWord = t.num
      BY <2>1, <2>4, RequestAssumption DEF RefBlocks
    <3> QED BY <2>1, <2>4, <3>2, <3>3, <3>4
  <2> QED BY <2>2, <2>3, <2>4
<1>11. ASSUME t2 = t PROVE y.is = x
  BY <1>1, <1>7, <1>9, <1>11
<1> QED BY <1>10, <1>11 DEF x, y, p

\* The proof transaction of an identity.
LEMMA IdentityResolves ==
  ASSUME NEW r, Wellmade(r), isIdentity(r), NEW s \in Signers
  PROVE  LET a == resolveActions(r, s)
             auth == resolveAuth(identityPerm(r), s)
         IN  /\ Len(a) = 1 /\ a[1].auth = auth
             /\ r.version = 2 => Len(a[1].data) = 2
             /\ r.version = 3 /\ auth = s /\ identityPerm(r) \in {PlaceholderAuth, s}
                  => a = <<IdentityAction(3, r.scope, s)>>
<1> DEFINE q == identityPerm(r)
           raw == IdentityAction(r.version, r.scope, q)
           auth == resolveAuth(q, s)
           d == raw.data
           e == [j \in DOMAIN d |-> resolveName(d[j], s)]
           a == resolveActions(r, s)
<1>1. r.version \in {2, 3} /\ r.scope \notin {"P1", "P2"}
  BY DEF Wellmade
<1>2. raw = [account |-> "", auth |-> q, bytes |-> TRUE, data |-> d]
  BY DEF IdentityAction
<1>3. /\ r.version = 2 => d = <<q.actor, q.permission>>
      /\ r.version = 3 => d = <<r.scope, q.actor, q.permission>>
  BY DEF IdentityAction
<1> HIDE DEF raw, d
<1>4. a = <<[raw EXCEPT !.auth = auth, !.bytes = TRUE, !.data = e]>>
  <2>1. getRawActions(r) = <<raw>>
    BY DEF getRawActions, raw
  <2> DEFINE g == getRawActions(r)
             F(x) == [x EXCEPT !.auth = resolveAuth(@, s), !.bytes = TRUE,
                               !.data = [j \in DOMAIN @ |-> resolveName(@[j], s)]]
  <2>2. a = [i \in DOMAIN g |-> F(g[i])]
    BY DEF resolveActions
  <2>3. raw.auth = q /\ raw.data = d
    BY <1>2
  <2>4. F(raw) = [raw EXCEPT !.auth = auth, !.bytes = TRUE, !.data = e]
    BY <2>3
  <2> HIDE DEF a, F, g
  <2>5. g = <<raw>>
    BY <2>1 DEF g
  <2>6. DOMAIN g = 1..1 /\ g[1] = raw
    BY <2>5
  <2>7. a = <<F(raw)>>
    BY <2>2, <2>6
  <2> HIDE DEF e, auth
  <2> QED BY <2>4, <2>7
<1> HIDE DEF a
<1>5. /\ [raw EXCEPT !.auth = auth, !.bytes = TRUE, !.data = e]
           = [account |-> "", auth |-> auth, bytes |-> TRUE, data |-> e]
      /\ Len(a) = 1 /\ a[1] = [account |-> "", auth |-> auth, bytes |-> TRUE, data |-> e]
  <2> HIDE DEF e, auth, q
  <2>1. [raw EXCEPT !.auth = auth, !.bytes = TRUE, !.data = e]
           = [account |-> "", auth |-> auth, bytes |-> TRUE, data |-> e]
    <3> DEFINE y == [raw EXCEPT !.auth = auth, !.bytes = TRUE, !.data = e]
    <3>1. DOMAIN raw = {"account", "auth", "bytes", "data"} /\ raw.account = ""
      BY <1>2
    <3>2. DOMAIN y = {"account", "auth", "bytes", "data"} /\ y = [k \in DOMAIN y |-> y[k]]
      BY <3>1
    <3>3. y.account = "" /\ y.auth = auth /\ y.bytes = TRUE /\ y.data = e
      BY <3>1
    <3> HIDE DEF y
    <3>4. y = [account |-> "", auth |-> auth, bytes |-> TRUE, data |-> e]
      BY <3>2, <3>3
    <3> QED BY <3>4 DEF y
  <2> QED BY <1>4, <2>1
<1>6. r.version = 2 => Len(e) = 2
  <2> SUFFICES ASSUME r.version = 2 PROVE Len(e) = 2
    OBVIOUS
  <2>1. DOMAIN d = 1..2
    BY <1>3
  <2>2. e = [j \in 1..2 |-> resolveName(d[j], s)]
    BY <2>1
  <2> QED BY <2>2
<1>7. ASSUME r.version = 3, auth = s, q \in {PlaceholderAuth, s}
      PROVE  e = <<r.scope, s.actor, s.permission>>
  <2>1. d = <<r.scope, q.actor, q.permission>> /\ DOMAIN d = 1..3
    BY <1>3, <1>7
  <2>2. s.actor \notin {"P1", "P2"} /\ s.permission \notin {"P1", "P2"} /\ r.scope \notin {"P1", "P2"}
    BY <1>1, RequestAssumption DEF PlainNames
  <2>3. resolveName(r.scope, s) = r.scope
    BY <2>2 DEF resolveName
  <2>4. resolveName(q.actor, s) = s.actor /\ resolveName(q.permission, s) = s.permission
    BY <1>7, <2>2 DEF resolveName, PlaceholderAuth
  <2>5. e = [j \in 1..3 |-> resolveName(d[j], s)]
    BY <2>1
  <2>6. /\ resolveName(d[1], s) = r.scope /\ resolveName(d[2], s) = s.actor
        /\ resolveName(d[3], s) = s.permission
    BY <2>1, <2>3, <2>4
  <2> HIDE DEF e
  <2>7. e = <<resolveName(d[1], s), resolveName(d[2], s), resolveName(d[3], s)>>
    BY <2>5
  <2> QED BY <2>6, <2>7
<1>8. ASSUME r.version = 3, auth = s, q \in {PlaceholderAuth, s}
      PROVE  a = <<IdentityAction(3, r.scope, s)>>
  <2>1. IdentityAction(3, r.scope, s) = [account |-> "", auth |-> s, bytes |-> TRUE,
                                         data |-> <<r.scope, s.actor, s.permission>>]
    BY DEF IdentityAction
  <2> HIDE DEF e, auth, q
  <2> QED BY <1>4, <1>5, <1>7, <1>8, <2>1
<1> QED BY <1>5, <1>6, <1>8 DEF a

RequestFields == {"version", "kind", "chain", "actions", "tapos", "perm", "scope", "broadcast",
                  "callback", "info", "sig"}

\* A request has its fields.
LEMMA HasFields == \A r : Wellmade(r) => DOMAIN r = RequestFields
  BY DEF Wellmade, RequestFields

\* What has the fields of a request is one.
LEMMA OfFields ==
  ASSUME NEW r, DOMAIN r = RequestFields, r = [k \in DOMAIN r |-> r[k]],
         r.version \in {2, 3}, r.scope \notin {"P1", "P2"}
  PROVE  Wellmade(r)
  BY DEF Wellmade, RequestFields

\* A setter changes a field that is not the signature.
LEMMA Sets ==
  ASSUME NEW n, Wellmade(n), NEW m \in Setters(n)
  PROVE  Wellmade(m) /\ m.sig = n.sig
<1>0. DOMAIN n = RequestFields
  BY HasFields
<1>1. \/ m = [n EXCEPT !.callback = "url2"] \/ m = [n EXCEPT !.broadcast = ~@]
      \/ \E cs : m = setRawInfoKey(n, "chain_ids", cs)
  BY DEF Setters
<1>2. DOMAIN m = DOMAIN n /\ m = [k \in DOMAIN m |-> m[k]] /\ m.version = n.version
      /\ m.scope = n.scope /\ m.sig = n.sig
  <2>1. CASE m = [n EXCEPT !.callback = "url2"]
    BY <1>0, <2>1 DEF RequestFields
  <2>2. CASE m = [n EXCEPT !.broadcast = ~@]
    BY <1>0, <2>2 DEF RequestFields
  <2>3. ASSUME NEW cs, m = setRawInfoKey(n, "chain_ids", cs)
        PROVE  DOMAIN m = DOMAIN n /\ m = [k \in DOMAIN m |-> m[k]] /\ m.version = n.version
               /\ m.scope = n.scope /\ m.sig = n.sig
    <3>1. PICK v : m = [n EXCEPT !.info = v]
      <4>1. CASE InfoAt(n, "chain_ids") = 0
        BY <2>3, <4>1 DEF setRawInfoKey
      <4>2. CASE InfoAt(n, "chain_ids") # 0
        BY <2>3, <4>2 DEF setRawInfoKey
      <4> QED BY <4>1, <4>2
    <3> QED BY <1>0, <3>1 DEF RequestFields
  <2> QED BY <1>1, <2>1, <2>2, <2>3
<1> QED BY <1>0, <1>2, OfFields DEF Wellmade

\* A change of one field leaves the others.
LEMMA SignChange ==
  ASSUME NEW n, Wellmade(n), NEW x
  PROVE  LET m == [n EXCEPT !.sig = x]
         IN  /\ Wellmade(m) /\ m.sig = x /\ Signable(m) = Signable(n)
             /\ m.version = n.version /\ m.kind = n.kind /\ m.chain = n.chain
             /\ m.broadcast = n.broadcast /\ m.info = n.info
<1> DEFINE m == [n EXCEPT !.sig = x]
           fields == {"version", "kind", "chain", "actions", "tapos", "perm", "scope", "broadcast",
                      "callback", "info", "sig"}
<1>1. DOMAIN n = fields
  BY DEF Wellmade
<1>2. /\ DOMAIN m = fields /\ m.sig = x
      /\ m.version = n.version /\ m.kind = n.kind /\ m.chain = n.chain /\ m.actions = n.actions
      /\ m.tapos = n.tapos /\ m.perm = n.perm /\ m.scope = n.scope /\ m.broadcast = n.broadcast
      /\ m.callback = n.callback /\ m.info = n.info
      /\ m = [k \in DOMAIN m |-> m[k]]
  BY <1>1
<1>3. Signable(m) = Signable(n)
  BY <1>1 DEF Signable
<1> HIDE DEF m
<1>4. m = [version |-> m.version, kind |-> m.kind, chain |-> m.chain, actions |-> m.actions,
           tapos |-> m.tapos, perm |-> m.perm, scope |-> m.scope, broadcast |-> m.broadcast,
           callback |-> m.callback, info |-> m.info, sig |-> m.sig]
  BY <1>2
<1>5. Wellmade(m)
  BY <1>2, <1>4 DEF Wellmade
<1> QED BY <1>2, <1>3, <1>5 DEF m

-----------------------------------------------------------------------------
(* Signing requests: what the dapp makes *)

\* The first pair of a list of one.
LEMMA OnlyPair ==
  ASSUME NEW r, NEW cs, r.info = <<[key |-> "chain_ids", chains |-> cs]>>
  PROVE  getChainIds(r) = cs
<1> DEFINE pair == [key |-> "chain_ids", chains |-> cs]
<1>1. pair.key = "chain_ids" /\ pair.chains = cs
  OBVIOUS
<1> HIDE DEF pair
<1>2. r.info = <<pair>>
  BY DEF pair
<1>3. Len(r.info) = 1 /\ r.info[1] = pair
  BY <1>2
<1>4. {i \in 1..Len(r.info) : r.info[i].key = "chain_ids"} = {1}
  BY <1>1, <1>3
<1>5. InfoAt(r, "chain_ids") = IF {1} # {} THEN Min({1}) ELSE 0
  BY <1>4 DEF InfoAt, SelectInSeq
<1>6. Min({1}) = 1
  BY DEF Min
<1> QED BY <1>1, <1>3, <1>5, <1>6 DEF getChainIds

\* What create() makes.
LEMMA Created ==
  ASSUME NEW a, a.scope \notin {"P1", "P2"}, NEW signs \in BOOLEAN, create(a, signs).ok
  PROVE  LET r == create(a, signs).is
         IN  /\ create(a, signs) = Ok(r) /\ Wellmade(r) /\ ~Declined(r)
             /\ r.sig # NoSig => r.sig = {Signable(r)}
             /\ ~signs => r.sig = NoSig
             /\ r.kind = KindOf(a)
             /\ r.chain = IF a.anyChain THEN AnyChain ELSE chainVariant(a.chainId)
             /\ a.anyChain /\ a.chainIds # {} /\ a.info = <<>> => getChainIds(r) = a.chainIds
<1> DEFINE kind == KindOf(a)
           ident == kind = "identity"
           version == versionOf(a)
           chain == IF a.anyChain THEN AnyChain ELSE chainVariant(a.chainId)
           info == a.info \o IF a.anyChain /\ a.chainIds # {}
                             THEN <<[key |-> "chain_ids", chains |-> a.chainIds]>> ELSE <<>>
           scope == IF ident THEN a.scope ELSE ""
           broadcast == IF a.broadcast = "unset" THEN ~ident ELSE a.broadcast = "yes"
           n == [version |-> version, kind |-> kind, chain |-> chain,
                 actions |-> IF ident THEN <<>> ELSE a.actions,
                 tapos |-> IF kind = "transaction" THEN a.tapos ELSE NoTapos,
                 perm |-> IF ident THEN a.perm ELSE NoPerm, scope |-> scope,
                 broadcast |-> broadcast, callback |-> a.callback, info |-> info, sig |-> NoSig]
           needsAbi == a.kinds # {"identity"} /\ \E i \in DOMAIN a.actions : ~Encodes(a.actions[i])
           r == create(a, signs).is
<1>1. create(a, signs) =
        IF needsAbi \/ kind = "invalid" \/ (ident /\ version = 3 /\ a.scope = "") \/ (ident /\ n.broadcast)
        THEN Fail ELSE Ok(IF signs THEN sign(n) ELSE n)
  BY DEF create
<1>2. /\ version \in {2, 3} /\ scope \notin {"P1", "P2"}
      /\ info = a.info \o IF a.anyChain /\ a.chainIds # {}
                          THEN <<[key |-> "chain_ids", chains |-> a.chainIds]>> ELSE <<>>
  <2>1. version \in {2, 3}
    BY DEF versionOf
  <2>2. scope \notin {"P1", "P2"}
    OBVIOUS
  <2> QED BY <2>1, <2>2
<1> HIDE DEF kind, version, chain, info, scope, needsAbi
<1>3. ~Fail.ok
  BY DEF Fail
<1> DEFINE m == IF signs THEN sign(n) ELSE n
<1>4. ~(ident /\ n.broadcast) /\ create(a, signs) = Ok(m)
  BY <1>1, <1>3
<1>5. r = m
  BY <1>4 DEF Ok
<1>6. /\ n.version = version /\ n.kind = kind /\ n.chain = chain /\ n.scope = scope /\ n.info = info
      /\ n.sig = NoSig
      /\ n = [version |-> n.version, kind |-> n.kind, chain |-> n.chain, actions |-> n.actions,
              tapos |-> n.tapos, perm |-> n.perm, scope |-> n.scope, broadcast |-> n.broadcast,
              callback |-> n.callback, info |-> n.info, sig |-> n.sig]
  OBVIOUS
<1> HIDE DEF n
<1>7. Wellmade(n) /\ ~Declined(n)
  BY <1>2, <1>4, <1>6 DEF Wellmade, Declined, isIdentity
<1>8. ASSUME signs
      PROVE  /\ Wellmade(m) /\ ~Declined(m) /\ m.sig = {Signable(m)}
             /\ m.chain = n.chain /\ m.info = n.info /\ m.kind = n.kind
  <2> DEFINE w == [n EXCEPT !.sig = {Signable(n)}]
  <2>1. m = w
    BY <1>8 DEF sign
  <2>2. /\ Wellmade(w) /\ w.sig = {Signable(n)} /\ Signable(w) = Signable(n)
        /\ w.kind = n.kind /\ w.broadcast = n.broadcast /\ w.chain = n.chain /\ w.info = n.info
    BY <1>7, SignChange
  <2> HIDE DEF m, w
  <2> QED BY <1>7, <2>1, <2>2 DEF Declined, isIdentity
<1>9. ~signs => m = n
  OBVIOUS
<1>10. n.chain = chain /\ n.info = info /\ n.sig = NoSig /\ n.kind = kind
  BY <1>6
<1>11. /\ Wellmade(r) /\ ~Declined(r) /\ r.chain = chain /\ r.info = info /\ r.kind = kind
       /\ r.sig # NoSig => r.sig = {Signable(r)}
       /\ ~signs => r.sig = NoSig
  <2>1. CASE signs
    BY <1>5, <1>8, <1>10, <2>1
  <2>2. CASE ~signs
    BY <1>5, <1>7, <1>9, <1>10, <2>2
  <2> QED BY <2>1, <2>2
<1>12. ASSUME a.anyChain, a.chainIds # {}, a.info = <<>> PROVE getChainIds(r) = a.chainIds
  <2> DEFINE pair == [key |-> "chain_ids", chains |-> a.chainIds]
             one == <<pair>>
  <2>1. one \in Seq({pair})
    <3> HIDE DEF pair
    <3> QED OBVIOUS
  <2>2. info = <<>> \o one
    BY <1>2, <1>12
  <2>3. info = one
    BY <2>1, <2>2, ConcatEmptySeq
  <2> QED BY <1>11, <2>3, OnlyPair
<1> QED BY <1>4, <1>5, <1>11, <1>12 DEF chain, kind

-----------------------------------------------------------------------------
(* Signing requests: the steps *)

\* Results, good and bad.
LEMMA Results ==
  /\ \A x : Ok(x).ok /\ Ok(x).is = x /\ IsResult(Ok(x))
  /\ ~Fail.ok /\ IsResult(Fail)
  /\ \A r, s, ctx, now : IsResult(resolve(r, s, ctx, now))
  /\ \A p, gone, now : IsResult(fromPayload(p, gone, now))
  /\ \A p, gone : IsResult(proofFromPayload(p, gone))
<1>1. \A x : Ok(x).ok /\ Ok(x).is = x
  BY DEF Ok
<1>2. \A x : IsResult(Ok(x))
  BY <1>1 DEF IsResult
<1>3. ~Fail.ok /\ IsResult(Fail)
  BY DEF Fail, IsResult
<1>4. \A r, s, ctx, now : IsResult(resolve(r, s, ctx, now))
  BY <1>2, <1>3 DEF resolve
<1>5. \A p, gone, now : IsResult(fromPayload(p, gone, now))
  BY <1>3, <1>4 DEF fromPayload
<1>6. \A p, gone : IsResult(proofFromPayload(p, gone))
  BY <1>2, <1>3 DEF proofFromPayload
<1> QED BY <1>1, <1>2, <1>3, <1>4, <1>5, <1>6

\* Before create() there is no request, and nothing came of one.
LEMMA RequestInits == RequestInit => RequestInv
<1> SUFFICES ASSUME RequestInit PROVE RequestInv
  OBVIOUS
<1>1. /\ request = Fail /\ received = Fail /\ resolved = Fail /\ rebuilt = Fail /\ proof = Fail
      /\ edits = 0 /\ uri = {} /\ payload = {}
  BY DEF RequestInit
<1>2. RequestTypes
  BY <1>1, Results DEF RequestTypes
<1>3. ~request.ok /\ ~received.ok /\ ~resolved.ok /\ ~rebuilt.ok /\ ~proof.ok
  BY <1>1, Results
<1> QED BY <1>1, <1>2, <1>3 DEF RequestInv, RequestMade, RequestSent, RequestAnswered

\* While nothing was sent, nothing came of it.
LEMMA NothingYet ==
  ASSUME RequestInv, uri = {}
  PROVE  ~received.ok /\ ~resolved.ok /\ payload = {} /\ ~rebuilt.ok /\ ~proof.ok
  BY DEF RequestInv, RequestSent, RequestAnswered

\* The dapp's own steps: creating, setting and signing.
LEMMA DappSteps ==
  ASSUME RequestInv, UNCHANGED <<uri, later>>, uri = {}, IsResult(request'), edits' \in Nat, RequestMade'
  PROVE  RequestInv'
<1>1. UNCHANGED <<uri, received, resolved, payload, dropped, rebuilt, proof>>
  BY DEF later
<1>2. ~received.ok /\ ~resolved.ok /\ payload = {} /\ ~rebuilt.ok /\ ~proof.ok
  BY NothingYet
<1>3. RequestTypes'
  BY <1>1 DEF RequestInv, RequestTypes, IsResult
<1>4. RequestSent' /\ RequestAnswered'
  BY <1>1, <1>2 DEF RequestSent, RequestAnswered
<1> QED BY <1>3, <1>4 DEF RequestInv

\* What a dapp creates a request from has no placeholder for a scope.
LEMMA Scopes ==
  /\ \A a \in CreateArgs : a \in CallerArgs /\ a.scope \notin {"P1", "P2"}
  /\ \A a \in CreateArgs : identity(a).scope \notin {"P1", "P2"}
<1>1. \A a \in CreateArgs : a \in CallerArgs /\ a.scope \notin {"P1", "P2"}
  BY RequestAssumption DEF CallerArgs, PlainNames
<1>2. ASSUME NEW a \in CreateArgs PROVE identity(a).scope \notin {"P1", "P2"}
  <2>1. DOMAIN a = {"kinds", "actions", "tapos", "perm", "scope", "anyChain", "chainId", "chainIds",
                    "broadcast", "callback", "info"}
    BY <1>1 DEF CallerArgs
  <2>2. identity(a).scope = a.scope
    BY <2>1 DEF identity
  <2> QED BY <1>1, <2>2
<1> QED BY <1>1, <1>2

\* create() and identity() make a request for the chains given, signed or not.
LEMMA Creates ==
  ASSUME RequestInv, Create
  PROVE  RequestInv'
<1>1. PICK a \in CreateArgs \cup {identity(b) : b \in {c \in CreateArgs : "identity" \in c.kinds}},
           signs \in BOOLEAN : request' = create(a, signs) /\ args' = {a}
  BY DEF Create
<1>2. ~request.ok /\ UNCHANGED <<edits, stale, uri, later>>
  BY DEF Create
<1>3. uri = {} /\ edits' \in Nat
  BY <1>2 DEF RequestInv, RequestSent, RequestTypes
<1>4. a.scope \notin {"P1", "P2"}
  BY Scopes
<1> DEFINE r == create(a, signs).is
<1>5. create(a, signs).ok =>
        /\ create(a, signs) = Ok(r) /\ Wellmade(r) /\ ~Declined(r)
        /\ r.sig # NoSig => r.sig = {Signable(r)}
        /\ r.chain = IF a.anyChain THEN AnyChain ELSE chainVariant(a.chainId)
        /\ a.anyChain /\ a.chainIds # {} /\ a.info = <<>> => getChainIds(r) = a.chainIds
  BY <1>4, Created
<1>6. IsResult(request')
  <2>1. create(a, signs) = Fail \/ create(a, signs).ok
    BY Results, ZenonT(40) DEF create
  <2>2. create(a, signs) = Fail \/ create(a, signs) = Ok(r)
    BY <1>5, <2>1
  <2> HIDE DEF r
  <2> QED BY <1>1, <2>2, Results
<1> HIDE DEF r
<1>7. request'.ok => request'.is = r
  BY <1>1 DEF r
<1>8. RequestMade'
  BY <1>1, <1>2, <1>5, <1>7 DEF RequestMade
<1> QED BY <1>2, <1>3, <1>6, <1>8, DappSteps

\* setCallback, setBroadcast and setChainIds keep the signature, which is then stale.
LEMMA Edits ==
  ASSUME RequestInv, Edit
  PROVE  RequestInv'
<1>1. PICK r \in Setters(request.is) : request' = Ok(r)
  BY DEF Edit
<1>2. /\ request.ok /\ uri = {} /\ stale' = (request.is.sig # NoSig) /\ edits' = edits + 1
      /\ edits \in Nat /\ UNCHANGED <<args, uri, later>>
  BY DEF Edit, RequestInv, RequestTypes
<1>3. Wellmade(r) /\ r.sig = request.is.sig
  BY <1>1, <1>2, Sets DEF RequestInv, RequestMade
<1>4. request'.is = r /\ IsResult(request') /\ edits' \in Nat /\ edits' # 0
  BY <1>1, <1>2, Results
<1>5. RequestMade'
  BY <1>2, <1>3, <1>4 DEF RequestMade
<1> QED BY <1>2, <1>4, <1>5, DappSteps

\* sign() covers the request as it is.
LEMMA Signs ==
  ASSUME RequestInv, SignRequest
  PROVE  RequestInv'
<1> DEFINE n == request.is
           m == [n EXCEPT !.sig = {Signable(n)}]
<1>1. /\ request.ok /\ uri = {} /\ request' = Ok(m) /\ edits' = edits + 1
      /\ edits \in Nat /\ UNCHANGED <<args, uri, later>>
  BY DEF SignRequest, RequestInv, RequestTypes, sign
<1>2. Wellmade(m) /\ m.sig = {Signable(n)} /\ Signable(m) = Signable(n)
  BY <1>1, SignChange DEF RequestInv, RequestMade
<1> HIDE DEF m, n
<1>3. request'.is = m /\ IsResult(request') /\ edits' \in Nat /\ edits' # 0
  BY <1>1, Results
<1>4. RequestMade'
  BY <1>2, <1>3 DEF RequestMade
<1> QED BY <1>1, <1>3, <1>4, DappSteps

\* A serialized transaction asks for no identity, so it is read back.
LEMMA Transactions ==
  ASSUME RequestInv, FromTransaction
  PROVE  RequestInv'
<1>1. PICK a \in CreateArgs :
        /\ a.kinds = {"transaction"} /\ ~a.anyChain /\ create(a, FALSE).ok
        /\ request' = fromData(encode([create(a, FALSE).is EXCEPT !.broadcast = TRUE,
                                       !.callback = "", !.info = <<>>]))
        /\ args' = {a}
  BY DEF FromTransaction
<1> DEFINE n == create(a, FALSE).is
           m == [n EXCEPT !.broadcast = TRUE, !.callback = "", !.info = <<>>]
<1>2. ~request.ok /\ UNCHANGED <<edits, stale, uri, later>>
  BY DEF FromTransaction
<1>3. uri = {} /\ edits' \in Nat
  BY <1>2 DEF RequestInv, RequestSent, RequestTypes
<1>4. /\ Wellmade(n) /\ n.sig = NoSig /\ n.kind = KindOf(a)
      /\ n.chain = chainVariant(a.chainId)
  BY <1>1, Created, Scopes
<1>5. KindOf(a) # "identity"
  <2>1. "identity" \notin a.kinds
    BY <1>1
  <2>2. (CHOOSE k \in a.kinds : TRUE) \in {"transaction"}
    BY <1>1
  <2> QED BY <2>1, <2>2 DEF KindOf
<1>6. request' = fromData(encode(m))
  BY <1>1
<1> HIDE DEF n
<1>7. /\ DOMAIN m = RequestFields /\ m = [k \in DOMAIN m |-> m[k]]
      /\ m.version = n.version /\ m.scope = n.scope /\ m.kind = n.kind /\ m.sig = n.sig
      /\ m.chain = n.chain
  <2>1. DOMAIN n = RequestFields
    BY <1>4, HasFields
  <2> QED BY <2>1 DEF RequestFields
<1> HIDE DEF m
<1>8. Wellmade(m) /\ ~Declined(m)
  BY <1>4, <1>5, <1>7, OfFields DEF Wellmade, Declined, isIdentity
<1>9. request' = Ok(m)
  BY <1>6, <1>8, ReadBack
<1>10. request'.is = m /\ IsResult(request')
  BY <1>9, Results
<1>11. RequestMade'
  BY <1>1, <1>4, <1>7, <1>8, <1>10 DEF RequestMade
<1> QED BY <1>2, <1>3, <1>10, <1>11, DappSteps

\* The request reaches the wallet, or is refused there.
LEMMA Sends ==
  ASSUME RequestInv, Send
  PROVE  RequestInv'
<1>1. /\ request.ok /\ uri = {} /\ uri' # {} /\ received' = fromData(encode(request.is))
      /\ UNCHANGED <<request, args, edits, stale, resolved, payload, dropped, rebuilt, proof>>
  BY DEF Send
<1>2. request = Ok(request.is) /\ Wellmade(request.is)
  BY <1>1, Results DEF RequestInv, RequestTypes, RequestMade, IsResult
<1>3. received' = IF Declined(request.is) THEN Fail ELSE request
  BY <1>1, <1>2, ReadBack
<1>4. ~received.ok /\ ~resolved.ok /\ payload = {} /\ ~rebuilt.ok /\ ~proof.ok
  BY <1>1, NothingYet
<1>5. RequestTypes'
  <2>1. IsResult(received')
    BY <1>3, Results DEF RequestInv, RequestTypes
  <2> QED BY <1>1, <2>1 DEF RequestInv, RequestTypes, IsResult
<1>6. RequestMade'
  BY <1>1 DEF RequestInv, RequestMade
<1>7. RequestSent'
  BY <1>1, <1>3, Results DEF RequestSent
<1>8. RequestAnswered'
  BY <1>1, <1>4 DEF RequestAnswered
<1> QED BY <1>5, <1>6, <1>7, <1>8 DEF RequestInv

\* The wallet's steps and the dapp's on its answer leave the request as it is.
LEMMA LaterSteps ==
  ASSUME RequestInv, UNCHANGED <<request, args, edits, stale, uri, received>>,
         IsResult(resolved'), IsResult(rebuilt'), IsResult(proof'), RequestAnswered'
  PROVE  RequestInv'
<1>1. RequestTypes'
  BY DEF RequestInv, RequestTypes, IsResult
<1>2. RequestMade'
  BY DEF RequestInv, RequestMade
<1>3. RequestSent'
  BY DEF RequestInv, RequestSent
<1> QED BY <1>1, <1>2, <1>3 DEF RequestInv

\* The wallet resolves what it received for one of its signers.
LEMMA Resolving ==
  ASSUME RequestInv, WalletResolves
  PROVE  RequestInv'
<1>1. PICK s \in Signers, ctx \in Contexts : resolved' = resolve(received.is, s, ctx, 7)
  BY DEF WalletResolves
<1>2. /\ received.ok /\ ~resolved.ok
      /\ UNCHANGED <<request, args, edits, stale, uri, received, payload, dropped, rebuilt, proof>>
  BY DEF WalletResolves
<1>3. payload = {} /\ ~rebuilt.ok /\ ~proof.ok
  BY <1>2 DEF RequestInv, RequestAnswered
<1>4. RequestAnswered'
  BY <1>1, <1>2, <1>3 DEF RequestAnswered
<1>5. IsResult(resolved') /\ IsResult(rebuilt') /\ IsResult(proof')
  BY <1>1, <1>2, Results DEF RequestInv, RequestTypes, IsResult
<1> QED BY <1>2, <1>4, <1>5, LaterSteps

\* getIdentityProof() takes the signature of the resolved transaction.
LEMMA Proving ==
  ASSUME RequestInv, WalletProves
  PROVE  RequestInv'
<1>1. /\ resolved.ok /\ isIdentity(received.is)
      /\ proof' = Ok(getIdentityProof(resolved.is, SigningDigest(resolved.is.chain, resolved.is.tx)))
      /\ UNCHANGED <<request, args, edits, stale, uri, received, resolved, payload, dropped, rebuilt>>
  BY DEF WalletProves
<1>2. RequestAnswered'
  BY <1>1 DEF RequestInv, RequestAnswered
<1>3. IsResult(resolved') /\ IsResult(rebuilt') /\ IsResult(proof')
  BY <1>1, Results DEF RequestInv, RequestTypes, IsResult
<1> QED BY <1>1, <1>2, <1>3, LaterSteps

\* getCallback() is computed from the resolved request.
LEMMA Answering ==
  ASSUME RequestInv, WalletAnswers
  PROVE  RequestInv'
<1>1. /\ resolved.ok /\ payload = {} /\ payload' = {getCallback(resolved.is)}
      /\ UNCHANGED <<request, args, edits, stale, uri, received, resolved, rebuilt, proof>>
  BY DEF WalletAnswers
<1>2. ~rebuilt.ok
  BY <1>1 DEF RequestInv, RequestAnswered
<1>3. RequestAnswered'
  BY <1>1, <1>2 DEF RequestInv, RequestAnswered
<1>4. IsResult(resolved') /\ IsResult(rebuilt') /\ IsResult(proof')
  BY <1>1 DEF RequestInv, RequestTypes, IsResult
<1> QED BY <1>1, <1>3, <1>4, LaterSteps

\* ResolvedSigningRequest::fromPayload computes from the payload that arrived.
LEMMA Rebuilding ==
  ASSUME RequestInv, DappRebuilds
  PROVE  RequestInv'
<1>1. PICK p \in payload : rebuilt' = fromPayload(p, dropped, 9)
  BY DEF DappRebuilds
<1>2. UNCHANGED <<request, args, edits, stale, uri, received, resolved, payload, dropped, proof>>
  BY DEF DappRebuilds
<1>3. resolved.ok /\ p = getCallback(resolved.is)
  BY DEF RequestInv, RequestAnswered
<1>4. RequestAnswered'
  BY <1>1, <1>2, <1>3 DEF RequestInv, RequestAnswered
<1>5. IsResult(resolved') /\ IsResult(rebuilt') /\ IsResult(proof')
  BY <1>1, <1>2, Results DEF RequestInv, RequestTypes, IsResult
<1> QED BY <1>2, <1>4, <1>5, LaterSteps

\* IdentityProof::fromPayload computes from the payload that arrived.
LEMMA DappProving ==
  ASSUME RequestInv, DappProves
  PROVE  RequestInv'
<1>1. PICK p \in payload : proof' = proofFromPayload(p, dropped)
  BY DEF DappProves
<1>2. UNCHANGED <<request, args, edits, stale, uri, received, resolved, payload, dropped, rebuilt>>
  BY DEF DappProves
<1>3. resolved.ok /\ p = getCallback(resolved.is)
  BY DEF RequestInv, RequestAnswered
<1>4. RequestAnswered'
  BY <1>1, <1>2, <1>3 DEF RequestInv, RequestAnswered
<1>5. IsResult(resolved') /\ IsResult(rebuilt') /\ IsResult(proof')
  BY <1>1, <1>2, Results DEF RequestInv, RequestTypes, IsResult
<1> QED BY <1>2, <1>4, <1>5, LaterSteps

\* Every step keeps the invariant.
LEMMA NextExchange ==
  ASSUME RequestInv, [RequestNext]_requestVars
  PROVE  RequestInv'
<1>1. CASE UNCHANGED requestVars
  BY <1>1 DEF requestVars, RequestInv, RequestTypes, IsResult, RequestMade, RequestSent, RequestAnswered
<1> QED
  BY <1>1, Creates, Transactions, Edits, Signs, Sends, Resolving, Proving, Answering, Rebuilding,
     DappProving DEF RequestNext

-----------------------------------------------------------------------------
(* Signing requests: the theorems *)

\* The wallet resolved the dapp's request.
LEMMA WalletHas ==
  ASSUME RequestInv, resolved.ok
  PROVE  /\ received = request /\ request.ok /\ Wellmade(received.is)
         /\ \E s \in Signers, ctx \in Contexts : resolved = resolve(received.is, s, ctx, 7)
<1>1. received.ok /\ \E s \in Signers, ctx \in Contexts : resolved = resolve(received.is, s, ctx, 7)
  BY DEF RequestInv, RequestAnswered
<1>2. received = request /\ request.ok
  BY <1>1 DEF RequestInv, RequestSent
<1> QED BY <1>1, <1>2 DEF RequestInv, RequestMade

\* The invariant says that the dapp rebuilds what the wallet resolved.
LEMMA Agreed ==
  ASSUME RequestInv
  PROVE  AgreedTransaction
<1>1. ASSUME rebuilt.ok
      PROVE  rebuilt.is = resolved.is \/ (isIdentity(received.is) /\ "ex" \in dropped)
  <2>1. resolved.ok /\ rebuilt = fromPayload(getCallback(resolved.is), dropped, 9)
    BY <1>1 DEF RequestInv, RequestAnswered
  <2>2. PICK s \in Signers, ctx \in Contexts : resolved = resolve(received.is, s, ctx, 7)
    BY <2>1, WalletHas
  <2>3. Wellmade(received.is) /\ resolve(received.is, s, ctx, 7).ok
    BY <2>1, <2>2, WalletHas
  <2>4. fromPayload(getCallback(resolve(received.is, s, ctx, 7).is), dropped, 9).ok
    BY <1>1, <2>1, <2>2
  <2>5. LET x == resolve(received.is, s, ctx, 7).is
        IN  fromPayload(getCallback(x), dropped, 9).is = x \/ (isIdentity(received.is) /\ "ex" \in dropped)
    BY <2>3, <2>4, Rebuilt
  <2> QED BY <2>1, <2>2, <2>5
<1>2. ASSUME resolved.ok, edits = 0, NEW a \in args
      PROVE  /\ a.anyChain /\ a.chainIds # {} /\ a.info = <<>> => resolved.is.chain \in a.chainIds
             /\ ~a.anyChain => resolved.is.chain = a.chainId
  <2>1. PICK s \in Signers, ctx \in Contexts : resolved = resolve(received.is, s, ctx, 7)
    BY <1>2, WalletHas
  <2> DEFINE r == received.is
  <2>2. chainOf(r, ctx).ok /\ resolved.is.chain = chainOf(r, ctx).is
    <3>1. LET x == resolve(r, s, ctx, 7).is
          IN  /\ chainOf(r, ctx).ok
              /\ x = [request |-> r, signer |-> s, chain |-> chainOf(r, ctx).is,
                      tx |-> [tapos |-> taposOf(r, ctx, 7).is, actions |-> resolveActions(r, s)]]
      BY <1>2, <2>1, Resolves
    <3> HIDE DEF r
    <3> QED BY <2>1, <3>1 DEF r
  <2>3. /\ ~a.anyChain => r.chain = chainVariant(a.chainId)
        /\ a.anyChain /\ a.chainIds # {} /\ a.info = <<>> =>
              /\ r.chain = AnyChain
              /\ getChainIds(r) = a.chainIds
    BY <1>2, WalletHas DEF RequestInv, RequestMade
  <2> HIDE DEF r
  <2>4. ASSUME a.anyChain, a.chainIds # {}, a.info = <<>> PROVE resolved.is.chain \in a.chainIds
    <3>1. chainOf(r, ctx) = IF ctx.chain \in a.chainIds THEN Ok(ctx.chain) ELSE Fail
      BY <2>3, <2>4 DEF chainOf, isMultiChain
    <3>2. ctx.chain \in a.chainIds
      BY <2>2, <3>1, Results
    <3> QED BY <2>2, <3>1, <3>2, Results
  <2>5. ASSUME ~a.anyChain PROVE resolved.is.chain = a.chainId
    <3>1. r.chain # AnyChain /\ r.chain[2] = a.chainId
      BY <2>3, <2>5, RequestAssumption DEF chainVariant, AnyChain
    <3>2. chainOf(r, ctx) = Ok(r.chain[2])
      BY <3>1 DEF chainOf, isMultiChain, variantChainId
    <3> QED BY <2>2, <3>1, <3>2, Results
  <2> QED BY <2>4, <2>5
<1>3. ASSUME received.ok, received.is.sig # NoSig
      PROVE  stale \/ received.is.sig = {Signable(received.is)}
  BY <1>3 DEF RequestInv, RequestSent, RequestMade
<1>4. ASSUME uri # {}, ~received.ok PROVE edits > 0 /\ isIdentity(request.is)
  <2>1. request.ok /\ Declined(request.is)
    BY <1>4 DEF RequestInv, RequestSent
  <2>2. edits # 0 /\ edits \in Nat
    BY <2>1 DEF RequestInv, RequestMade, RequestTypes
  <2> QED BY <2>1, <2>2 DEF Declined
<1> QED BY <1>1, <1>2, <1>3, <1>4 DEF AgreedTransaction

\* Whoever makes it, a proof is of the scope asked for and the chain, signer and
\* signature of the resolved request.
LEMMA ProofOf ==
  ASSUME RequestInv, proof.ok, NEW s, NEW ctx, resolved = resolve(received.is, s, ctx, 7)
  PROVE  LET x == resolved.is
         IN  /\ isIdentity(received.is)
             /\ proof.is = [chain |-> x.chain, scope |-> received.is.scope,
                            expiration |-> x.tx.tapos.expiration, signer |-> x.signer,
                            sig |-> SigningDigest(x.chain, x.tx)]
<1> DEFINE x == resolved.is
           r == received.is
           p == getCallback(x)
           own == variantChainId(r.chain)
<1>1. resolved.ok /\ Wellmade(r)
  BY WalletHas DEF RequestInv, RequestAnswered
<1>2. x.request = r /\ chainOf(r, ctx).ok /\ x.chain = chainOf(r, ctx).is
  <2>1. LET y == resolve(r, s, ctx, 7).is
        IN  /\ chainOf(r, ctx).ok
            /\ y = [request |-> r, signer |-> s, chain |-> chainOf(r, ctx).is,
                    tx |-> [tapos |-> taposOf(r, ctx, 7).is, actions |-> resolveActions(r, s)]]
    BY <1>1, Resolves
  <2> HIDE DEF r
  <2> QED BY <2>1 DEF r
<1> HIDE DEF x, r
<1>3. CASE /\ isIdentity(r)
           /\ proof = Ok(getIdentityProof(x, SigningDigest(x.chain, x.tx)))
  BY <1>2, <1>3, Results DEF getIdentityProof, x, r
<1>4. CASE payload # {} /\ proof = proofFromPayload(p, dropped)
  <2>1. /\ p.req = encode(r) /\ p.signer = x.signer /\ p.tapos = x.tx.tapos /\ p.chain = x.chain
        /\ p.sig = SigningDigest(x.chain, x.tx)
    BY <1>2 DEF getCallback
  <2> HIDE DEF p
  <2>2. fromData(p.req) = IF Declined(r) THEN Fail ELSE Ok(r)
    BY <1>1, <2>1, ReadBack
  <2>3. fromData(p.req).ok
    BY <1>4, Results DEF proofFromPayload
  <2>4. fromData(p.req).is = r
    BY <2>2, <2>3, Results
  <2>5. /\ isIdentity(r) /\ ("cid" \in dropped => own.ok)
        /\ proof.is = [chain |-> IF "cid" \in dropped THEN own.is ELSE p.chain, scope |-> r.scope,
                       expiration |-> p.tapos.expiration, signer |-> p.signer, sig |-> p.sig]
    <3> DEFINE good == [chain |-> IF "cid" \in dropped THEN own.is ELSE p.chain, scope |-> r.scope,
                        expiration |-> p.tapos.expiration, signer |-> p.signer, sig |-> p.sig]
    <3> HIDE DEF good
    <3>1. proof = IF ~(fromData(p.req).ok /\ r.version >= 3 /\ isIdentity(r)) \/ "ex" \in dropped THEN Fail
                  ELSE IF "cid" \in dropped /\ ~own.ok THEN Fail ELSE Ok(good)
      BY <1>4, <2>4 DEF proofFromPayload, good
    <3>2. isIdentity(r) /\ ("cid" \in dropped => own.ok) /\ proof = Ok(good)
      BY <3>1, Results
    <3> QED BY <3>2, Results DEF good
  <2>6. ASSUME "cid" \in dropped PROVE own.is = x.chain
    <3>1. ~isMultiChain(r)
      BY <2>5, <2>6, Results DEF isMultiChain, variantChainId
    <3> QED BY <1>2, <3>1 DEF chainOf
  <2> QED BY <2>1, <2>5, <2>6 DEF x, r
<1> QED BY <1>3, <1>4 DEF RequestInv, RequestAnswered, x, r, p

\* The invariant says what a proof that verifies means.
LEMMA Meant ==
  ASSUME RequestInv
  PROVE  ProofMeansSigned
<1> SUFFICES ASSUME proof.ok
             PROVE  LET asked == received.is.perm
                        q == proof.is
                    IN  /\ received.is.version = 3 /\ (asked \in {NoPerm, PlaceholderAuth, q.signer})
                             => Verifies(q)
                        /\ Verifies(q) =>
                              /\ resolved.is.tx.actions[1].auth = q.signer
                              /\ q.signer = resolved.is.signer /\ q.chain = resolved.is.chain
                              /\ q.scope = received.is.scope /\ received.is.version = 3
  BY DEF ProofMeansSigned
<1> DEFINE r == received.is
           x == resolved.is
           q == proof.is
<1>1. resolved.ok /\ Wellmade(r)
  BY WalletHas DEF RequestInv, RequestAnswered
<1>2. PICK s \in Signers, ctx \in Contexts : resolved = resolve(r, s, ctx, 7)
  BY <1>1, WalletHas
<1> DEFINE t == taposOf(r, ctx, 7).is
           a == resolveActions(r, s)
           auth == resolveAuth(identityPerm(r), s)
<1>3. /\ isIdentity(r)
      /\ q = [chain |-> x.chain, scope |-> r.scope, expiration |-> x.tx.tapos.expiration,
              signer |-> x.signer, sig |-> SigningDigest(x.chain, x.tx)]
  BY <1>2, ProofOf
<1>4. /\ taposOf(r, ctx, 7).ok
      /\ x = [request |-> r, signer |-> s, chain |-> chainOf(r, ctx).is,
              tx |-> [tapos |-> t, actions |-> a]]
  BY <1>1, <1>2, Resolves
<1>5. t = [NoTapos EXCEPT !.expiration = t.expiration]
  BY <1>3, <1>4, ResolvedTapos
<1>6. /\ Len(a) = 1 /\ a[1].auth = auth
      /\ r.version = 2 => Len(a[1].data) = 2
      /\ r.version = 3 /\ auth = s /\ identityPerm(r) \in {PlaceholderAuth, s}
           => a = <<IdentityAction(3, r.scope, s)>>
  BY <1>1, <1>3, IdentityResolves
<1> HIDE DEF t, a, x, q, r
<1>7. /\ x.signer = s /\ x.tx = [tapos |-> t, actions |-> a]
      /\ x.tx.tapos = t /\ x.tx.actions = a
  BY <1>4
<1>8. /\ q.chain = x.chain /\ q.scope = r.scope /\ q.expiration = t.expiration
      /\ q.signer = s /\ q.sig = SigningDigest(x.chain, x.tx)
  BY <1>3, <1>7
<1>9. ProofTransaction(q) = [tapos |-> t, actions |-> <<IdentityAction(3, r.scope, s)>>]
  BY <1>5, <1>8 DEF ProofTransaction
<1>10. Verifies(q) <=> x.tx = ProofTransaction(q)
  BY <1>8 DEF Verifies, SigningDigest
<1>11. Verifies(q) <=> a = <<IdentityAction(3, r.scope, s)>>
  <2>1. ASSUME a = <<IdentityAction(3, r.scope, s)>> PROVE Verifies(q)
    BY <1>7, <1>9, <1>10, <2>1
  <2>2. ASSUME Verifies(q) PROVE a = <<IdentityAction(3, r.scope, s)>>
    <3>1. x.tx.actions = ProofTransaction(q).actions
      BY <1>10, <2>2
    <3> QED BY <1>7, <1>9, <3>1
  <2> QED BY <2>1, <2>2
<1>12. ASSUME r.version = 3, r.perm \in {NoPerm, PlaceholderAuth, q.signer} PROVE Verifies(q)
  <2>1. identityPerm(r) \in {PlaceholderAuth, s}
    BY <1>8, <1>12 DEF identityPerm
  <2>2. s = [actor |-> s.actor, permission |-> s.permission]
        /\ s.actor \notin {"P1", "P2"} /\ s.permission \notin {"P1", "P2"}
    BY RequestAssumption DEF PlainNames
  <2>3. auth = s
    BY <2>1, <2>2 DEF resolveAuth, PlaceholderAuth
  <2> QED BY <1>6, <1>11, <1>12, <2>1, <2>3
<1>13. ASSUME Verifies(q) PROVE a[1].auth = s /\ r.version = 3
  <2> DEFINE i == IdentityAction(3, r.scope, s)
  <2>1. i.auth = s /\ i.data = <<r.scope, s.actor, s.permission>>
    BY DEF IdentityAction
  <2> HIDE DEF i
  <2>2. a[1] = i
    BY <1>11, <1>13 DEF i
  <2>3. a[1].auth = s /\ Len(a[1].data) = 3
    BY <2>1, <2>2
  <2>4. r.version \in {2, 3}
    BY <1>1 DEF Wellmade
  <2> QED BY <1>6, <2>3, <2>4
<1> QED BY <1>7, <1>8, <1>12, <1>13 DEF q, r, x

\* What the dapp rebuilds from a callback is the transaction, the chain and the
\* signer the wallet resolved and signed, for a chain the dapp asked for, whatever
\* the request, the signer and the context, and whatever fields of the payload are
\* lost (ResolvedSigningRequest::fromPayload and SigningRequest::resolve).
THEOREM AlwaysAgreed == RequestSpec => []AgreedTransaction
<1>1. RequestInit => RequestInv
  BY RequestInits
<1>2. RequestInv /\ [RequestNext]_requestVars => RequestInv'
  BY NextExchange
<1>3. RequestInv => AgreedTransaction
  BY Agreed
<1> QED BY <1>1, <1>2, <1>3, PTL DEF RequestSpec

\* An identity proof that verifies was signed by the very signer it names, for that
\* scope and chain; and one for whoever signs, or for the signer, does verify
\* (IdentityProof::transaction and getIdentityProof).
THEOREM ProofsMeanSigned == RequestSpec => []ProofMeansSigned
<1>1. RequestInit => RequestInv
  BY RequestInits
<1>2. RequestInv /\ [RequestNext]_requestVars => RequestInv'
  BY NextExchange
<1>3. RequestInv => ProofMeansSigned
  BY Meant
<1> QED BY <1>1, <1>2, <1>3, PTL DEF RequestSpec
-----------------------------------------------------------------------------
(* The P2P envelope: the bytes that are under way are frames *)

Bytes == Seq(Nat)

P2PTypes ==
    /\ sent \in Seq(Bytes) /\ delivered \in Seq(Bytes)
    /\ wire \in Bytes /\ remainingData \in Bytes
    /\ reading \in BOOLEAN /\ tooLong \in BOOLEAN /\ errors \in BOOLEAN

\* The bytes of a stream from the message after the first n on: at gives where each
\* frame begins, and the last one ends.
FramesAt(at, stream, messages, n) ==
    /\ at \in [n..Len(messages) -> Nat] /\ at[n] = 0 /\ at[Len(messages)] = Len(stream)
    /\ \A j, k \in n..Len(messages) : j <= k => at[j] <= at[k]
    /\ \A k \in n..(Len(messages) - 1) :
          LET frame == Envelope(messages[k + 1])
          IN  /\ at[k + 1] = at[k] + Len(frame)
              /\ \A i \in 1..Len(frame) : stream[at[k] + i] = frame[i]

\* What is read and what is still on the wire.
Stream == remainingData \o wire
Framed == \E at : FramesAt(at, Stream, sent, Len(delivered))

DeliveredFirst ==
    /\ Len(delivered) <= Len(sent)
    /\ \A i \in 1..Len(delivered) : delivered[i] = sent[i]

\* Between two packets, a proper beginning of the next frame is held back.
HoldsBack ==
    \/ remainingData = <<>>
    \/ /\ Len(delivered) < Len(sent)
       /\ IsStrictPrefix(remainingData, Envelope(sent[Len(delivered) + 1]))

Oversize == \E i \in 1..Len(sent) : Len(sent[i]) > MaxReadLength

Framing ==
    /\ P2PTypes
    /\ ~tooLong => DeliveredFirst /\ Framed /\ (~reading => HoldsBack)
    /\ tooLong => errors /\ Oversize

\* A listener that is there once is called at most once.
First == [id |-> 1, once |-> TRUE]
Listening ==
    /\ nextListenerId \in 3..(MaxListeners + 1)
    /\ listeners \subseteq [id : 1..(nextListenerId - 1), once : BOOLEAN]
    /\ calls \subseteq [id : 1..(nextListenerId - 1), once : BOOLEAN]
    /\ heard \in [1..MaxListeners -> Nat]
    /\ \A l \in listeners \cup calls : l.id = 1 => l = First
    /\ First \in calls => First \notin listeners
    /\ heard[1] = 0 \/ (heard[1] = 1 /\ First \notin listeners \cup calls)

\* A heartbeat is waiting for its timer or for its write.
Beating == timers \in Nat /\ writes \in Nat /\ timers + writes <= 1

P2PInv == Framing /\ Listening /\ Beating

\* Texts that agree up to a place start the same up to there.
LEMMA SameStart ==
    ASSUME NEW a \in Seq(Nat), NEW b \in Seq(Nat), NEW n \in Nat, n <= Len(a), n <= Len(b),
           \A i \in 1..n : a[i] = b[i]
    PROVE  SubSeq(a, 1, n) = SubSeq(b, 1, n)
<1> DEFINE s == SubSeq(a, 1, n)
           t == SubSeq(b, 1, n)
<1>1. s \in Seq(Nat) /\ Len(s) = n /\ \A i \in 1..n : s[i] = a[i]
  OBVIOUS
<1>2. t \in Seq(Nat) /\ Len(t) = n /\ \A i \in 1..n : t[i] = b[i]
  OBVIOUS
<1> HIDE DEF s, t
<1>3. s = t
  BY <1>1, <1>2, SeqEqual
<1> QED BY <1>3 DEF s, t

\* What a frame consists of.
LEMMA EnvelopeIs ==
    ASSUME NEW m \in Bytes
    PROVE  /\ Envelope(m) \in Bytes /\ Len(Envelope(m)) = Len(m) + 2 /\ Len(m) \in Nat
           /\ Envelope(m)[1] + Base * Envelope(m)[2] = Len(m)
           /\ \A i \in 1..Len(m) : Envelope(m)[i + 2] = m[i]
<1> DEFINE lo == Len(m) % Base
           hi == Len(m) \div Base
           h == <<lo, hi>>
<1>1. Len(m) \in Nat /\ Base \in Nat \ {0}
  BY P2PAssumption, LenProperties DEF Bytes
<1>2. lo \in Nat /\ hi \in Nat /\ Len(m) = lo + Base * hi
  BY <1>1
<1> HIDE DEF lo, hi
<1>3. h \in Seq(Nat) /\ Len(h) = 2 /\ h[1] = lo /\ h[2] = hi
  BY <1>2
<1> HIDE DEF h
<1>4. Envelope(m) = h \o m
  BY DEF Envelope, h, lo, hi
<1>5. /\ h \o m \in Seq(Nat) /\ Len(h \o m) = Len(h) + Len(m)
      /\ \A i \in 1..(Len(h) + Len(m)) : (h \o m)[i] = IF i <= Len(h) THEN h[i] ELSE m[i - Len(h)]
  BY <1>3, ConcatProperties DEF Bytes
<1>6. Envelope(m)[1] = lo /\ Envelope(m)[2] = hi
  BY <1>1, <1>3, <1>4, <1>5
<1>7. ASSUME NEW i \in 1..Len(m)
      PROVE  Envelope(m)[i + 2] = m[i]
  <2>1. i + 2 \in 1..(Len(h) + Len(m)) /\ ~(i + 2 <= Len(h)) /\ (i + 2) - Len(h) = i
    BY <1>1, <1>3
  <2> QED BY <1>4, <1>5, <2>1
<1> QED BY <1>1, <1>2, <1>3, <1>4, <1>5, <1>6, <1>7 DEF Bytes

\* Bytes that are joined, one by one.
LEMMA JoinedBytes ==
    ASSUME NEW a \in Bytes, NEW b \in Bytes
    PROVE  /\ a \o b \in Bytes /\ Len(a \o b) = Len(a) + Len(b) /\ Len(a) \in Nat /\ Len(b) \in Nat
           /\ \A i \in 1..Len(a) : (a \o b)[i] = a[i]
           /\ \A i \in 1..Len(b) : (a \o b)[Len(a) + i] = b[i]
<1>1. /\ a \o b \in Seq(Nat) /\ Len(a \o b) = Len(a) + Len(b) /\ Len(a) \in Nat /\ Len(b) \in Nat
      /\ \A i \in 1..(Len(a) + Len(b)) : (a \o b)[i] = IF i <= Len(a) THEN a[i] ELSE b[i - Len(a)]
  BY ConcatProperties, LenProperties DEF Bytes
<1>2. ASSUME NEW i \in 1..Len(a)
      PROVE  (a \o b)[i] = a[i]
  BY <1>1
<1>3. ASSUME NEW i \in 1..Len(b)
      PROVE  (a \o b)[Len(a) + i] = b[i]
  <2>1. Len(a) + i \in 1..(Len(a) + Len(b)) /\ ~(Len(a) + i <= Len(a)) /\ Len(a) + i - Len(a) = i
    BY <1>1
  <2> QED BY <1>1, <2>1
<1> QED BY <1>1, <1>2, <1>3 DEF Bytes

LEMMA BytesAssociate ==
    ASSUME NEW a \in Bytes, NEW b \in Bytes, NEW c \in Bytes
    PROVE  a \o (b \o c) = (a \o b) \o c
<1>1. a \in Seq(Nat) /\ b \in Seq(Nat) /\ c \in Seq(Nat)
  BY DEF Bytes
<1>2. (a \o b) \o c = a \o (b \o c)
  BY <1>1, ConcatAssociative, SMTT(30)
<1> QED BY <1>2

\* The payload of the frame at the beginning.
LEMMA PayloadHeld ==
    ASSUME NEW b \in Bytes, NEW l \in Nat, Len(b) >= 2 + l
    PROVE  /\ SubSeq(b, 3, 2 + l) \in Bytes
           /\ Len(SubSeq(b, 3, 2 + l)) = l
           /\ \A i \in 1..l : SubSeq(b, 3, 2 + l)[i] = b[2 + i]
<1>1. Len(b) \in Nat /\ 3 \in Int /\ 2 + l \in Int /\ \A i \in 3..(2 + l) : b[i] \in Nat
  BY LenProperties, ElementOfSeq DEF Bytes
<1>2. /\ SubSeq(b, 3, 2 + l) \in Seq(Nat)
      /\ Len(SubSeq(b, 3, 2 + l)) = IF 3 <= 2 + l THEN 2 + l - 3 + 1 ELSE 0
      /\ \A i \in 1..(2 + l - 3 + 1) : SubSeq(b, 3, 2 + l)[i] = b[3 + i - 1]
  BY <1>1, SubSeqProperties
<1>3. Len(SubSeq(b, 3, 2 + l)) = l
  BY <1>2
<1>4. ASSUME NEW i \in 1..l
      PROVE  SubSeq(b, 3, 2 + l)[i] = b[2 + i]
  <2>1. i \in 1..(2 + l - 3 + 1) /\ 3 + i - 1 = 2 + i
    OBVIOUS
  <2> QED BY <1>2, <2>1
<1> QED BY <1>2, <1>3, <1>4 DEF Bytes

\* The bytes after the first n.
LEMMA BytesAfter ==
    ASSUME NEW b \in Bytes, NEW n \in Nat, n <= Len(b)
    PROVE  /\ SubSeq(b, n + 1, Len(b)) \in Bytes
           /\ Len(SubSeq(b, n + 1, Len(b))) = Len(b) - n
           /\ \A i \in 1..(Len(b) - n) : SubSeq(b, n + 1, Len(b))[i] = b[n + i]
<1>1. Len(b) \in Nat /\ n + 1 \in Int /\ Len(b) \in Int /\ \A i \in (n + 1)..Len(b) : b[i] \in Nat
  BY LenProperties, ElementOfSeq DEF Bytes
<1>2. /\ SubSeq(b, n + 1, Len(b)) \in Seq(Nat)
      /\ Len(SubSeq(b, n + 1, Len(b))) = IF n + 1 <= Len(b) THEN Len(b) - (n + 1) + 1 ELSE 0
      /\ \A i \in 1..(Len(b) - (n + 1) + 1) : SubSeq(b, n + 1, Len(b))[i] = b[n + 1 + i - 1]
  BY <1>1, SubSeqProperties
<1>3. Len(b) - (n + 1) + 1 = Len(b) - n /\ (~(n + 1 <= Len(b)) => Len(b) - n = 0)
  BY <1>1
<1>4. ASSUME NEW i \in 1..(Len(b) - n)
      PROVE  SubSeq(b, n + 1, Len(b))[i] = b[n + i]
  <2>1. i \in 1..(Len(b) - (n + 1) + 1) /\ n + 1 + i - 1 = n + i
    BY <1>1
  <2> QED BY <1>2, <2>1
<1> QED BY <1>2, <1>3, <1>4 DEF Bytes

\* A piece of the wire that is handed over leaves the stream as it was.
LEMMA PieceMoves ==
    ASSUME NEW a \in Bytes, NEW b \in Bytes, NEW n \in Nat, n <= Len(b)
    PROVE  /\ (a \o SubSeq(b, 1, n)) \o SubSeq(b, n + 1, Len(b)) = a \o b
           /\ SubSeq(b, 1, n) \in Bytes /\ SubSeq(b, n + 1, Len(b)) \in Bytes
<1>1. Len(b) \in Nat /\ DOMAIN b = 1..Len(b) /\ \A i \in 1..Len(b) : b[i] \in Nat
  BY LenProperties, ElementOfSeq DEF Bytes
<1> DEFINE x == SubSeq(b, 1, n)
           y == SubSeq(b, n + 1, Len(b))
<1>2. x \in Seq(Nat) /\ Len(x) = n /\ \A i \in 1..n : x[i] = b[i]
  BY <1>1 DEF Bytes
<1>3. y \in Seq(Nat) /\ Len(y) = Len(b) - n /\ \A i \in 1..(Len(b) - n) : y[i] = b[n + i]
  BY BytesAfter DEF Bytes
<1> HIDE DEF x, y
<1>4. x \in Bytes /\ y \in Bytes
  BY <1>2, <1>3 DEF Bytes
<1>5. x \o y = b
  <2>1. x \o y \in Bytes /\ Len(x \o y) = Len(b)
    <3>1. x \o y \in Bytes /\ Len(x \o y) = Len(x) + Len(y)
      BY <1>4, JoinedBytes
    <3> QED BY <1>1, <1>2, <1>3, <3>1
  <2>2. ASSUME NEW i \in 1..Len(b)
        PROVE  (x \o y)[i] = b[i]
    <3>1. CASE i <= n
      <4>1. i \in 1..Len(x)
        BY <1>2, <3>1
      <4> QED BY <1>2, <1>4, <4>1, JoinedBytes
    <3>2. CASE ~(i <= n)
      <4>1. i - n \in 1..Len(y) /\ Len(x) + (i - n) = i /\ n + (i - n) = i
        BY <1>1, <1>2, <1>3, <3>2
      <4>2. (x \o y)[Len(x) + (i - n)] = y[i - n]
        BY <1>4, <4>1, JoinedBytes
      <4> QED BY <1>3, <4>1, <4>2
    <3> QED BY <3>1, <3>2
  <2> QED BY <2>1, <2>2, SeqEqual DEF Bytes
<1>6. (a \o x) \o y = a \o (x \o y)
  BY <1>4, BytesAssociate
<1> QED BY <1>4, <1>5, <1>6 DEF x, y

\* The frame of one more message is put at the end of the stream.
LEMMA FrameAdded ==
    ASSUME NEW messages \in Seq(Bytes), NEW n \in 0..Len(messages), NEW stream \in Bytes,
           NEW m \in Bytes, NEW at, FramesAt(at, stream, messages, n)
    PROVE  \E more : FramesAt(more, stream \o Envelope(m), Append(messages, m), n)
<1> DEFINE b == Len(messages)
           all == Append(messages, m)
           s == stream \o Envelope(m)
           more == [k \in n..(b + 1) |-> IF k = b + 1 THEN Len(s) ELSE at[k]]
<1>1. b \in Nat /\ n \in Nat /\ n <= b /\ Len(stream) \in Nat
  BY LenProperties DEF Bytes
<1>2. /\ Len(all) = b + 1 /\ all[b + 1] = m /\ \A k \in 1..b : all[k] = messages[k]
  BY AppendProperties
<1>3. /\ Len(Envelope(m)) \in Nat /\ Len(s) = Len(stream) + Len(Envelope(m)) /\ Envelope(m) \in Bytes
      /\ \A i \in 1..Len(stream) : s[i] = stream[i]
      /\ \A i \in 1..Len(Envelope(m)) : s[Len(stream) + i] = Envelope(m)[i]
  BY EnvelopeIs, JoinedBytes
<1> HIDE DEF all, s
<1>4. /\ at \in [n..b -> Nat] /\ at[n] = 0 /\ at[b] = Len(stream)
      /\ \A j, k \in n..b : j <= k => at[j] <= at[k]
  BY DEF FramesAt
<1>5. ASSUME NEW k \in n..(b - 1)
      PROVE  LET frame == Envelope(messages[k + 1])
             IN  /\ at[k + 1] = at[k] + Len(frame) /\ Len(frame) \in Nat
                 /\ \A i \in 1..Len(frame) : stream[at[k] + i] = frame[i]
  <2>1. messages[k + 1] \in Bytes
    BY <1>1, <1>5, ElementOfSeq
  <2> QED BY <2>1, EnvelopeIs DEF FramesAt
<1>6. more \in [n..(b + 1) -> Nat] /\ more[n] = 0 /\ more[b + 1] = Len(s)
      /\ \A k \in n..b : more[k] = at[k] /\ k \in n..(b + 1)
  BY <1>1, <1>3, <1>4
<1> HIDE DEF more
<1>7. ASSUME NEW j \in n..(b + 1), NEW k \in n..(b + 1), j <= k
      PROVE  more[j] <= more[k]
  <2>1. CASE k \in n..b
    BY <1>1, <1>4, <1>6, <1>7, <2>1
  <2>2. CASE k = b + 1 /\ j \in n..b
    <3>1. at[j] <= Len(stream) /\ at[j] \in Nat
      BY <1>1, <1>4, <2>2
    <3> QED BY <1>1, <1>3, <1>6, <2>2, <3>1
  <2>3. CASE k = b + 1 /\ j = b + 1
    BY <1>1, <1>3, <1>6, <2>3
  <2> QED BY <1>1, <2>1, <2>2, <2>3
<1>8. ASSUME NEW k \in n..b
      PROVE  LET frame == Envelope(all[k + 1])
             IN  /\ more[k + 1] = more[k] + Len(frame)
                 /\ \A i \in 1..Len(frame) : s[more[k] + i] = frame[i]
  <2>1. CASE k = b
    <3>1. all[k + 1] = m /\ more[k] = Len(stream) /\ more[k + 1] = Len(s)
      BY <1>1, <1>2, <1>4, <1>6, <2>1
    <3> QED BY <1>3, <3>1
  <2>2. CASE k \in n..(b - 1)
    <3> DEFINE frame == Envelope(messages[k + 1])
    <3>1. k + 1 \in 1..b /\ k + 1 \in n..b /\ all[k + 1] = messages[k + 1]
      BY <1>1, <1>2, <2>2
    <3>2. at[k + 1] = at[k] + Len(frame) /\ Len(frame) \in Nat
          /\ \A i \in 1..Len(frame) : stream[at[k] + i] = frame[i]
      BY <1>5, <2>2
    <3>3. at[k + 1] <= Len(stream) /\ at[k] \in Nat
      BY <1>1, <1>4, <2>2, <3>1
    <3> HIDE DEF frame
    <3>4. ASSUME NEW i \in 1..Len(frame)
          PROVE  s[more[k] + i] = frame[i]
      <4>1. at[k] + i \in 1..Len(stream)
        BY <1>1, <3>2, <3>3
      <4> QED BY <1>3, <1>6, <2>2, <3>2, <4>1
    <3> QED BY <1>6, <2>2, <3>1, <3>2, <3>4 DEF frame
  <2> QED BY <1>1, <2>1, <2>2
<1>9. (b + 1) - 1 = b
  BY <1>1
<1>10. FramesAt(more, s, all, n)
  BY <1>2, <1>6, <1>7, <1>8, <1>9 DEF FramesAt
<1> QED BY <1>10 DEF s, all

\* The next frame of a stream that is not empty.
LEMMA NextFrame ==
    ASSUME NEW messages \in Seq(Bytes), NEW n \in 0..Len(messages), NEW stream \in Bytes,
           NEW at, FramesAt(at, stream, messages, n), stream # <<>>
    PROVE  LET frame == Envelope(messages[n + 1])
           IN  /\ n + 1 \in 1..Len(messages) /\ messages[n + 1] \in Bytes
               /\ Len(frame) <= Len(stream)
               /\ \A i \in 1..Len(frame) : stream[i] = frame[i]
               /\ at[n + 1] = Len(frame)
<1>1. Len(messages) \in Nat /\ n \in Nat /\ n <= Len(messages) /\ Len(stream) \in Nat \ {0}
  BY LenProperties, EmptySeq DEF Bytes
<1>2. n # Len(messages)
  BY <1>1 DEF FramesAt
<1>3. n + 1 \in 1..Len(messages) /\ n \in n..(Len(messages) - 1) /\ n + 1 \in n..Len(messages)
      /\ Len(messages) \in n..Len(messages)
  BY <1>1, <1>2
<1>4. messages[n + 1] \in Bytes
  BY <1>3, ElementOfSeq
<1> DEFINE frame == Envelope(messages[n + 1])
<1>5. Len(frame) \in Nat
  BY <1>4, EnvelopeIs
<1>6. at[n + 1] = at[n] + Len(frame) /\ \A i \in 1..Len(frame) : stream[at[n] + i] = frame[i]
  BY <1>3 DEF FramesAt
<1>7. at[n] = 0 /\ at[n + 1] <= at[Len(messages)] /\ at[Len(messages)] = Len(stream)
  BY <1>3, <1>1 DEF FramesAt
<1> HIDE DEF frame
<1>8. at[n + 1] = Len(frame) /\ Len(frame) <= Len(stream)
  BY <1>5, <1>6, <1>7
<1>9. ASSUME NEW i \in 1..Len(frame)
      PROVE  stream[i] = frame[i]
  <2>1. stream[0 + i] = frame[i] /\ 0 + i = i
    BY <1>5, <1>6, <1>7
  <2> QED BY <2>1
<1> QED BY <1>3, <1>4, <1>8, <1>9 DEF frame

\* Where a frame's byte is once the z bytes before it are gone.
LEMMA PlaceInRest ==
    ASSUME NEW p \in Nat, NEW z \in Nat, NEW f \in Nat, NEW s \in Nat, NEW r \in Nat,
           NEW i \in 1..f, z <= p, p + f <= s, r = s - z
    PROVE  (p - z) + i \in 1..r /\ z + ((p - z) + i) = p + i
OBVIOUS

\* The first frame is taken away.
LEMMA FrameTakenAway ==
    ASSUME NEW messages \in Seq(Bytes), NEW n \in 0..Len(messages), NEW stream \in Bytes,
           NEW at, FramesAt(at, stream, messages, n), stream # <<>>,
           NEW rest \in Bytes, Len(rest) = Len(stream) - Len(Envelope(messages[n + 1])),
           \A i \in 1..Len(rest) : rest[i] = stream[Len(Envelope(messages[n + 1])) + i]
    PROVE  \E less : FramesAt(less, rest, messages, n + 1)
<1> DEFINE b == Len(messages)
           z == Len(Envelope(messages[n + 1]))
           less == [k \in (n + 1)..b |-> at[k] - z]
<1>1. n + 1 \in 1..b /\ at[n + 1] = z /\ z <= Len(stream) /\ z \in Nat /\ b \in Nat /\ n \in Nat
      /\ Len(stream) \in Nat /\ Len(rest) = Len(stream) - z /\ Len(rest) \in Nat
      /\ \A i \in 1..Len(rest) : rest[i] = stream[z + i]
  <2>1. n + 1 \in 1..b /\ messages[n + 1] \in Bytes /\ at[n + 1] = z /\ z <= Len(stream)
    BY NextFrame
  <2>2. z \in Nat
    BY <2>1, EnvelopeIs
  <2> QED BY <2>1, <2>2, LenProperties DEF Bytes
<1> HIDE DEF z
<1>2. /\ at \in [n..b -> Nat] /\ at[b] = Len(stream)
      /\ \A j, k \in n..b : j <= k => at[j] <= at[k]
  BY DEF FramesAt
<1>3. ASSUME NEW k \in (n + 1)..b
      PROVE  at[k] \in Nat /\ z <= at[k] /\ at[k] - z \in Nat
  <2>1. n + 1 \in n..b /\ k \in n..b /\ n + 1 <= k
    BY <1>1, <1>3
  <2>2. at[k] \in Nat
    BY <1>2, <2>1
  <2>3. at[n + 1] <= at[k]
    BY <1>2, <2>1
  <2> QED BY <1>1, <2>2, <2>3
<1>4. less \in [(n + 1)..b -> Nat] /\ \A k \in (n + 1)..b : less[k] = at[k] - z
  BY <1>3
<1> HIDE DEF less
<1>5. less[n + 1] = 0 /\ less[b] = Len(rest)
  BY <1>1, <1>2, <1>4
<1>6. ASSUME NEW j \in (n + 1)..b, NEW k \in (n + 1)..b, j <= k
      PROVE  less[j] <= less[k]
  <2>1. at[j] <= at[k]
    <3>1. j \in n..b /\ k \in n..b
      BY <1>1
    <3> QED BY <1>2, <1>6, <3>1
  <2>2. less[j] = at[j] - z /\ less[k] = at[k] - z /\ at[j] \in Nat /\ at[k] \in Nat
    BY <1>3, <1>4
  <2> QED BY <1>1, <2>1, <2>2
<1>7. ASSUME NEW k \in (n + 1)..(b - 1)
      PROVE  LET frame == Envelope(messages[k + 1])
             IN  /\ less[k + 1] = less[k] + Len(frame)
                 /\ \A i \in 1..Len(frame) : rest[less[k] + i] = frame[i]
  <2> DEFINE frame == Envelope(messages[k + 1])
  <2>1. k + 1 \in 1..b /\ k \in n..(b - 1) /\ k \in (n + 1)..b /\ k + 1 \in (n + 1)..b
        /\ k + 1 \in n..b /\ b \in n..b
    BY <1>1
  <2>2. Len(frame) \in Nat
    BY <2>1, ElementOfSeq, EnvelopeIs
  <2>3. at[k + 1] = at[k] + Len(frame) /\ \A i \in 1..Len(frame) : stream[at[k] + i] = frame[i]
    BY <2>1 DEF FramesAt
  <2> HIDE DEF frame
  <2>4. at[k + 1] <= Len(stream)
    BY <1>1, <1>2, <2>1
  <2>5. less[k + 1] = less[k] + Len(frame)
    <3>1. /\ less[k] = at[k] - z /\ at[k] \in Nat
          /\ less[k + 1] = at[k + 1] - z /\ at[k + 1] \in Nat
      BY <1>3, <1>4, <2>1
    <3> QED BY <1>1, <2>2, <2>3, <3>1
  <2>6. ASSUME NEW i \in 1..Len(frame)
        PROVE  rest[less[k] + i] = frame[i]
    <3>1. less[k] = at[k] - z /\ at[k] \in Nat /\ z <= at[k]
      BY <1>3, <1>4, <2>1
    <3>2. at[k] + Len(frame) <= Len(stream)
      BY <2>3, <2>4
    <3>3. (at[k] - z) + i \in 1..Len(rest) /\ z + ((at[k] - z) + i) = at[k] + i
      <4> DEFINE p == at[k]
                 f == Len(frame)
      <4>1. p \in Nat /\ f \in Nat /\ i \in 1..f /\ z <= p /\ p + f <= Len(stream)
        BY <2>2, <3>1, <3>2
      <4> HIDE DEF p, f
      <4>2. (p - z) + i \in 1..Len(rest) /\ z + ((p - z) + i) = p + i
        BY <1>1, <4>1, PlaceInRest
      <4> QED BY <4>2 DEF p
    <3>4. rest[(at[k] - z) + i] = stream[at[k] + i]
      <4>1. rest[(at[k] - z) + i] = stream[z + ((at[k] - z) + i)]
        BY <1>1, <3>3
      <4> QED BY <3>3, <4>1
    <3> QED BY <2>3, <3>1, <3>4
  <2> QED BY <2>5, <2>6 DEF frame
<1>8. FramesAt(less, rest, messages, n + 1)
  BY <1>4, <1>5, <1>6, <1>7 DEF FramesAt
<1> QED BY <1>8

\* What is read begins with the next frame, and its header tells how long it is.
LEMMA FrameHeld ==
    ASSUME P2PTypes, DeliveredFirst, Framed, remainingData # <<>>
    PROVE  LET n == Len(delivered) + 1
               frame == Envelope(sent[n])
           IN  /\ n \in 1..Len(sent) /\ sent[n] \in Bytes
               /\ Len(frame) \in Nat /\ Len(frame) = Len(sent[n]) + 2 /\ Len(sent[n]) \in Nat
               /\ Len(frame) <= Len(remainingData) + Len(wire)
               /\ \A i \in 1..Len(remainingData) : i <= Len(frame) => remainingData[i] = frame[i]
               /\ Len(remainingData) >= 2 => messageLength(remainingData) = Len(sent[n])
<1> DEFINE n == Len(delivered) + 1
           frame == Envelope(sent[n])
<1>1. /\ sent \in Seq(Bytes) /\ Len(delivered) \in 0..Len(sent) /\ Stream \in Bytes
      /\ Len(Stream) = Len(remainingData) + Len(wire) /\ Len(remainingData) \in Nat \ {0}
      /\ \A i \in 1..Len(remainingData) : Stream[i] = remainingData[i]
  <2>1. remainingData \in Bytes /\ wire \in Bytes
    BY DEF P2PTypes
  <2>2. Len(delivered) \in Nat /\ Len(sent) \in Nat /\ Len(remainingData) \in Nat \ {0}
    BY LenProperties, EmptySeq DEF P2PTypes, Bytes
  <2> QED BY <2>1, <2>2, JoinedBytes DEF Stream, DeliveredFirst, P2PTypes
<1>2. Stream # <<>> /\ Len(Stream) \in Nat
  BY <1>1, EmptySeq, LenProperties DEF Bytes
<1>3. PICK at : FramesAt(at, Stream, sent, Len(delivered))
  BY DEF Framed
<1>4. /\ n \in 1..Len(sent) /\ sent[n] \in Bytes /\ Len(frame) <= Len(Stream)
      /\ \A i \in 1..Len(frame) : Stream[i] = frame[i]
  BY <1>1, <1>2, <1>3, NextFrame
<1>5. Len(frame) \in Nat /\ Len(frame) = Len(sent[n]) + 2 /\ Len(sent[n]) \in Nat
      /\ frame[1] + Base * frame[2] = Len(sent[n])
  BY <1>4, EnvelopeIs
<1> HIDE DEF frame
<1>6. ASSUME NEW i \in 1..Len(remainingData), i <= Len(frame)
      PROVE  remainingData[i] = frame[i]
  <2>1. i \in 1..Len(frame)
    BY <1>5, <1>6
  <2> QED BY <1>1, <1>4, <2>1
<1>7. ASSUME Len(remainingData) >= 2
      PROVE  messageLength(remainingData) = Len(sent[n])
  <2>1. 1 \in 1..Len(remainingData) /\ 2 \in 1..Len(remainingData) /\ 1 <= Len(frame) /\ 2 <= Len(frame)
    BY <1>1, <1>5, <1>7
  <2>2. remainingData[1] = frame[1] /\ remainingData[2] = frame[2]
    BY <1>6, <2>1
  <2> QED BY <1>5, <2>2 DEF messageLength
<1>8. Len(frame) <= Len(remainingData) + Len(wire)
  BY <1>1, <1>4
<1> QED BY <1>4, <1>5, <1>6, <1>7, <1>8 DEF frame

\* The peer sends a message: its frame is the last one of the stream.
LEMMA SendingFrames == Framing /\ PeerSends => Framing'
<1> SUFFICES ASSUME Framing, PeerSends PROVE Framing'
  OBVIOUS
<1>1. PICK s \in Streams : /\ Len(sent) < Len(s)
                           /\ sent' = Append(sent, s[Len(sent) + 1])
                           /\ wire' = wire \o Envelope(s[Len(sent) + 1])
                           /\ UNCHANGED <<remainingData, reading, delivered, tooLong, errors>>
  BY DEF PeerSends
<1> DEFINE m == s[Len(sent) + 1]
<1>2. m \in Bytes
  <2>1. s \in Seq(Seq(0..(Base - 1))) /\ Len(s) \in Nat /\ Len(sent) \in Nat
    BY P2PAssumption, LenProperties DEF Framing, P2PTypes
  <2>2. Len(sent) + 1 \in 1..Len(s)
    BY <1>1, <2>1
  <2>3. m \in Seq(0..(Base - 1))
    BY <2>1, <2>2, ElementOfSeq
  <2>4. 0..(Base - 1) \subseteq Nat
    BY P2PAssumption
  <2> HIDE DEF m
  <2>5. \A i \in 1..Len(m) : m[i] \in Nat
    BY <2>3, <2>4, ElementOfSeq
  <2> QED BY <2>3, <2>5 DEF Bytes
<1> HIDE DEF m
<1>3. /\ sent \in Seq(Bytes) /\ wire \in Bytes /\ remainingData \in Bytes /\ delivered \in Seq(Bytes)
      /\ Len(sent) \in Nat /\ Len(delivered) \in Nat
  BY LenProperties DEF Framing, P2PTypes
<1>4. /\ sent' \in Seq(Bytes) /\ Len(sent') = Len(sent) + 1 /\ \A i \in 1..Len(sent) : sent'[i] = sent[i]
      /\ sent' = Append(sent, m) /\ wire' = wire \o Envelope(m)
  BY <1>1, <1>2, <1>3, AppendProperties DEF m
<1>5. Envelope(m) \in Bytes /\ wire' \in Bytes
  BY <1>2, <1>3, <1>4, EnvelopeIs, JoinedBytes
<1>6. P2PTypes'
  BY <1>1, <1>3, <1>4, <1>5 DEF Framing, P2PTypes
<1>7. Stream' = Stream \o Envelope(m) /\ Stream \in Bytes
  <2>1. remainingData \o (wire \o Envelope(m)) = (remainingData \o wire) \o Envelope(m)
    BY <1>3, <1>5, BytesAssociate
  <2> QED BY <1>1, <1>3, <1>4, <2>1, JoinedBytes DEF Stream
<1>8. ASSUME ~tooLong
      PROVE  DeliveredFirst' /\ Framed' /\ (~reading' => HoldsBack')
  <2>1. DeliveredFirst /\ Framed /\ (~reading => HoldsBack)
    BY <1>8 DEF Framing
  <2>2. DeliveredFirst'
    BY <1>1, <1>3, <1>4, <2>1 DEF DeliveredFirst
  <2>3. Framed'
    <3>1. PICK at : FramesAt(at, Stream, sent, Len(delivered))
      BY <2>1 DEF Framed
    <3>2. Len(delivered) \in 0..Len(sent)
      BY <1>3, <2>1 DEF DeliveredFirst
    <3>3. \E more : FramesAt(more, Stream \o Envelope(m), Append(sent, m), Len(delivered))
      BY <1>2, <1>3, <1>7, <3>1, <3>2, FrameAdded
    <3> QED BY <1>1, <1>4, <1>7, <3>3 DEF Framed
  <2>4. ASSUME ~reading
        PROVE  HoldsBack'
    <3>1. CASE remainingData = <<>>
      BY <1>1, <3>1 DEF HoldsBack
    <3>2. CASE Len(delivered) < Len(sent)
      <4>1. sent'[Len(delivered) + 1] = sent[Len(delivered) + 1]
        BY <1>3, <1>4, <3>2
      <4> QED BY <1>1, <1>3, <1>4, <2>1, <2>4, <3>2, <4>1 DEF HoldsBack
    <3> QED BY <2>1, <2>4, <3>1, <3>2 DEF HoldsBack
  <2> QED BY <1>1, <2>2, <2>3, <2>4
<1>9. Oversize => Oversize'
  BY <1>3, <1>4 DEF Oversize
<1> QED BY <1>1, <1>6, <1>8, <1>9 DEF Framing

\* The transport hands over a piece.
LEMMA ArrivingFrames == Framing /\ Arrive => Framing'
<1> SUFFICES ASSUME Framing, Arrive PROVE Framing'
  OBVIOUS
<1>1. PICK n \in Chunks : /\ n <= Len(wire)
                          /\ wire' = SubSeq(wire, n + 1, Len(wire))
                          /\ remainingData' = remainingData \o SubSeq(wire, 1, n)
                          /\ reading' = TRUE
                          /\ UNCHANGED <<sent, delivered, tooLong, errors>>
  BY DEF Arrive
<1>2. n \in Nat /\ wire \in Bytes /\ remainingData \in Bytes
  BY P2PAssumption DEF Framing, P2PTypes
<1>3. Stream' = Stream /\ SubSeq(wire, 1, n) \in Bytes /\ wire' \in Bytes
  BY <1>1, <1>2, PieceMoves DEF Stream
<1>4. P2PTypes'
  BY <1>1, <1>2, <1>3, JoinedBytes DEF Framing, P2PTypes
<1>5. (Framed => Framed') /\ (DeliveredFirst => DeliveredFirst') /\ (Oversize => Oversize')
  BY <1>1, <1>3 DEF Framed, DeliveredFirst, Oversize
<1> QED BY <1>1, <1>4, <1>5 DEF Framing

\* handleData waits for more.
LEMMA WaitingFrames == Framing /\ TooShort => Framing'
<1> SUFFICES ASSUME Framing, TooShort PROVE Framing'
  OBVIOUS
<1>1. /\ reading' = FALSE /\ UNCHANGED <<sent, wire, remainingData, delivered, tooLong, errors>>
      /\ ~(/\ Len(remainingData) >= HeaderSize
           /\ messageLength(remainingData) > MaxReadLength \/ WholeFrame(remainingData))
  BY DEF TooShort
<1>2. P2PTypes' /\ Stream' = Stream
  BY <1>1 DEF Framing, P2PTypes, Stream
<1>3. (Framed => Framed') /\ (DeliveredFirst => DeliveredFirst') /\ (Oversize => Oversize')
      /\ (HoldsBack => HoldsBack')
  BY <1>1, <1>2 DEF Framed, DeliveredFirst, Oversize, HoldsBack
<1>4. ASSUME ~tooLong
      PROVE  HoldsBack
  <2>1. CASE remainingData = <<>>
    BY <2>1 DEF HoldsBack
  <2>2. CASE remainingData # <<>>
    <3> DEFINE n == Len(delivered) + 1
               frame == Envelope(sent[n])
    <3>1. /\ n \in 1..Len(sent) /\ sent[n] \in Bytes
          /\ Len(frame) \in Nat /\ Len(frame) = Len(sent[n]) + 2 /\ Len(sent[n]) \in Nat
          /\ \A i \in 1..Len(remainingData) : i <= Len(frame) => remainingData[i] = frame[i]
          /\ Len(remainingData) >= 2 => messageLength(remainingData) = Len(sent[n])
      BY <1>4, <2>2, FrameHeld DEF Framing
    <3>2. /\ remainingData \in Bytes /\ Len(remainingData) \in Nat /\ Len(delivered) \in Nat
          /\ Len(sent) \in Nat
      BY LenProperties DEF Framing, P2PTypes, Bytes
    <3>3. frame \in Bytes
      BY <3>1, EnvelopeIs
    <3> HIDE DEF frame
    <3>4. Len(remainingData) < Len(frame)
      BY <1>1, <3>1, <3>2 DEF HeaderSize, WholeFrame
    <3>5. \A i \in 1..Len(remainingData) : remainingData[i] = frame[i]
      BY <3>1, <3>2, <3>4
    <3>6. IsStrictPrefix(remainingData, frame)
      <4>1. SubSeq(remainingData, 1, Len(remainingData)) = SubSeq(frame, 1, Len(remainingData))
        <5>1. remainingData \in Seq(Nat) /\ frame \in Seq(Nat) /\ Len(remainingData) <= Len(frame)
          BY <3>2, <3>3, <3>4, LenProperties DEF Bytes
        <5> QED BY <3>2, <3>5, <5>1, SameStart
      <4>2. remainingData # frame
        BY <3>4
      <4> QED BY <3>2, <3>4, <4>1, <4>2 DEF IsStrictPrefix, IsPrefix
    <3> QED BY <3>1, <3>2, <3>6 DEF HoldsBack, frame
  <2> QED BY <2>1, <2>2
<1> QED BY <1>1, <1>2, <1>3, <1>4 DEF Framing

\* handleData meets a length that is too large: it is that of a payload.
LEMMA OversizedFrames == Framing /\ Oversized => Framing'
<1> SUFFICES ASSUME Framing, Oversized PROVE Framing'
  OBVIOUS
<1>1. /\ Len(remainingData) >= HeaderSize /\ messageLength(remainingData) > MaxReadLength
      /\ remainingData' = <<>> /\ reading' = FALSE /\ tooLong' = TRUE /\ errors' = TRUE
      /\ UNCHANGED <<sent, wire, delivered>>
  BY DEF Oversized
<1>2. P2PTypes'
  BY <1>1, EmptySeq DEF Framing, P2PTypes, Bytes
<1>3. Oversize'
  <2>1. CASE tooLong
    BY <1>1, <2>1 DEF Framing, Oversize
  <2>2. CASE ~tooLong
    <3>1. remainingData # <<>> /\ Len(remainingData) >= 2
      BY <1>1 DEF HeaderSize
    <3>2. Len(delivered) + 1 \in 1..Len(sent)
          /\ messageLength(remainingData) = Len(sent[Len(delivered) + 1])
      BY <2>2, <3>1, FrameHeld DEF Framing
    <3> QED BY <1>1, <3>2 DEF Oversize
  <2> QED BY <2>1, <2>2
<1> QED BY <1>1, <1>2, <1>3 DEF Framing

\* handleData takes the next frame, and gives its payload on.
LEMMA CompleteFrames == Framing /\ Complete /\ reading => Framing'
<1> SUFFICES ASSUME Framing, Complete, reading PROVE Framing'
  OBVIOUS
<1> DEFINE l == messageLength(remainingData)
           x == SubSeq(remainingData, HeaderSize + 1, HeaderSize + l)
<1>1. /\ Len(remainingData) >= 2 /\ l <= MaxReadLength /\ Len(remainingData) >= 2 + l
      /\ delivered' = Append(delivered, x)
      /\ remainingData' = SubSeq(remainingData, 2 + l + 1, Len(remainingData))
      /\ UNCHANGED <<sent, wire, reading, tooLong>>
      /\ errors' = TRUE \/ errors' = errors
  BY DEF Complete, Frame, WholeFrame, HeaderSize
<1>2. /\ sent \in Seq(Bytes) /\ wire \in Bytes /\ remainingData \in Bytes /\ delivered \in Seq(Bytes)
      /\ Len(remainingData) \in Nat /\ Len(wire) \in Nat /\ Len(delivered) \in Nat /\ Len(sent) \in Nat
      /\ tooLong \in BOOLEAN /\ errors \in BOOLEAN
      /\ \A i \in 1..Len(remainingData) : remainingData[i] \in Nat
  BY LenProperties, ElementOfSeq DEF Framing, P2PTypes, Bytes
<1>3. l \in Nat
  <2>1. remainingData[1] \in Nat /\ remainingData[2] \in Nat
    BY <1>1, <1>2
  <2> QED BY <2>1, P2PAssumption DEF messageLength
<1> HIDE DEF l
<1>4. /\ x \in Bytes /\ Len(x) = l /\ \A i \in 1..l : x[i] = remainingData[2 + i]
  <2>1. x = SubSeq(remainingData, 3, 2 + l)
    BY DEF HeaderSize
  <2>2. /\ SubSeq(remainingData, 3, 2 + l) \in Bytes
        /\ Len(SubSeq(remainingData, 3, 2 + l)) = l
        /\ \A i \in 1..l : SubSeq(remainingData, 3, 2 + l)[i] = remainingData[2 + i]
    BY <1>1, <1>2, <1>3, PayloadHeld
  <2> HIDE DEF x
  <2> QED BY <2>1, <2>2
<1> HIDE DEF x
<1>5. /\ remainingData' \in Bytes /\ Len(remainingData') = Len(remainingData) - (2 + l)
      /\ \A i \in 1..(Len(remainingData) - (2 + l)) : remainingData'[i] = remainingData[(2 + l) + i]
  BY <1>1, <1>2, <1>3, BytesAfter
<1>6. /\ delivered' \in Seq(Bytes) /\ Len(delivered') = Len(delivered) + 1
      /\ delivered'[Len(delivered) + 1] = x
      /\ \A i \in 1..Len(delivered) : delivered'[i] = delivered[i]
  BY <1>1, <1>2, <1>4, AppendProperties
<1>7. P2PTypes'
  BY <1>1, <1>2, <1>5, <1>6 DEF Framing, P2PTypes
<1>8. ASSUME ~tooLong
      PROVE  DeliveredFirst' /\ Framed'
  <2> DEFINE n == Len(delivered) + 1
             frame == Envelope(sent[n])
  <2>1. DeliveredFirst /\ Framed /\ remainingData # <<>>
    BY <1>1, <1>8 DEF Framing
  <2>2. /\ n \in 1..Len(sent) /\ sent[n] \in Bytes
        /\ Len(frame) = 2 + l /\ Len(sent[n]) = l
        /\ \A i \in 1..Len(remainingData) : i <= Len(frame) => remainingData[i] = frame[i]
    <3>1. /\ n \in 1..Len(sent) /\ sent[n] \in Bytes
          /\ Len(frame) = Len(sent[n]) + 2
          /\ \A i \in 1..Len(remainingData) : i <= Len(frame) => remainingData[i] = frame[i]
          /\ Len(remainingData) >= 2 => messageLength(remainingData) = Len(sent[n])
      BY <1>1, <2>1, FrameHeld DEF Framing
    <3> QED BY <1>1, <1>3, <3>1 DEF l
  <2>3. x = sent[n]
    <3>1. ASSUME NEW i \in 1..l
          PROVE  x[i] = sent[n][i]
      <4>1. 2 + i \in 1..Len(remainingData) /\ 2 + i <= Len(frame) /\ 2 + i = i + 2
        BY <1>1, <1>2, <1>3, <2>2
      <4>2. frame[i + 2] = sent[n][i]
        BY <2>2, EnvelopeIs
      <4> QED BY <1>4, <2>2, <4>1, <4>2
    <3> QED BY <1>4, <2>2, <3>1, SeqEqual DEF Bytes
  <2>4. DeliveredFirst'
    BY <1>1, <1>2, <1>6, <2>1, <2>2, <2>3 DEF DeliveredFirst
  <2>5. PICK at : FramesAt(at, Stream, sent, Len(delivered))
    BY <2>1 DEF Framed
  <2>6. /\ Stream \in Bytes /\ Len(Stream) = Len(remainingData) + Len(wire)
        /\ \A i \in 1..Len(remainingData) : Stream[i] = remainingData[i]
        /\ \A i \in 1..Len(wire) : Stream[Len(remainingData) + i] = wire[i]
    BY <1>2, JoinedBytes DEF Stream
  <2>7. Stream' = remainingData' \o wire
    BY <1>1 DEF Stream
  <2>8. /\ Stream' \in Bytes /\ Len(Stream') = Len(remainingData') + Len(wire)
        /\ \A i \in 1..Len(remainingData') : Stream'[i] = remainingData'[i]
        /\ \A i \in 1..Len(wire) : Stream'[Len(remainingData') + i] = wire[i]
    BY <1>2, <1>5, <2>7, JoinedBytes
  <2>9. Len(Stream') = Len(Stream) - Len(frame)
    BY <1>2, <1>3, <1>5, <2>2, <2>6, <2>8
  <2>10. ASSUME NEW i \in 1..Len(Stream')
         PROVE  Stream'[i] = Stream[Len(frame) + i]
    <3>1. CASE i <= Len(remainingData) - (2 + l)
      <4>1. i \in 1..Len(remainingData') /\ (2 + l) + i \in 1..Len(remainingData)
        BY <1>2, <1>3, <1>5, <3>1
      <4> QED BY <1>5, <2>2, <2>6, <2>8, <4>1
    <3>2. CASE ~(i <= Len(remainingData) - (2 + l))
      <4> DEFINE k == i - Len(remainingData')
      <4>0. /\ i \in Nat /\ i <= Len(remainingData') + Len(wire) /\ i > Len(remainingData')
            /\ Len(remainingData') = Len(remainingData) - Len(frame)
            /\ Len(remainingData') \in Int /\ Len(frame) \in Int
        BY <1>1, <1>2, <1>3, <1>5, <2>2, <2>8, <3>2
      <4> HIDE DEF frame
      <4>1. k \in 1..Len(wire) /\ Len(remainingData') + k = i
            /\ Len(remainingData) + k = Len(frame) + i
        BY <1>2, <4>0
      <4> USE DEF frame
      <4>2. Stream'[Len(remainingData') + k] = wire[k] /\ Stream[Len(remainingData) + k] = wire[k]
        BY <2>6, <2>8, <4>1
      <4> QED BY <4>1, <4>2
    <3> QED BY <3>1, <3>2
  <2>11. Stream # <<>> /\ Len(delivered) \in 0..Len(sent)
    <3>1. Len(Stream) # 0
      BY <1>1, <1>2, <2>6
    <3> QED BY <1>2, <2>2, <3>1, EmptySeq
  <2>12. \E less : FramesAt(less, Stream', sent, Len(delivered) + 1)
    BY <1>2, <2>5, <2>6, <2>8, <2>9, <2>10, <2>11, FrameTakenAway
  <2>13. Framed'
    BY <1>1, <1>6, <2>12 DEF Framed
  <2> QED BY <2>4, <2>13
<1>9. Oversize => Oversize'
  BY <1>1 DEF Oversize
<1> QED BY <1>1, <1>2, <1>7, <1>8, <1>9 DEF Framing

\* The envelope's part of a step.
LEMMA FramingSteps == Framing /\ [P2PNext]_p2pVars => Framing'
<1> SUFFICES ASSUME Framing, [P2PNext]_p2pVars PROVE Framing'
  OBVIOUS
<1>1. ASSUME UNCHANGED <<sent, wire, remainingData, reading, delivered, tooLong, errors>>
      PROVE  Framing'
  BY <1>1 DEF Framing, P2PTypes, DeliveredFirst, Framed, Stream, HoldsBack, Oversize
<1>2. ASSUME HandleData
      PROVE  Framing'
  BY <1>2, WaitingFrames, OversizedFrames, CompleteFrames DEF HandleData
<1>3. ASSUME \/ CallListener \/ AddMessage \/ RemoveListener \/ HeartbeatFires \/ Written
             \/ WriteLost \/ EndClient \/ Destructor \/ UNCHANGED p2pVars
      PROVE  Framing'
  <2>1. UNCHANGED <<sent, wire, remainingData, reading, delivered, tooLong, errors>>
    BY <1>3 DEF CallListener, AddMessage, RemoveListener, HeartbeatFires, Written, WriteLost,
                EndClient, Destructor, p2pVars, envelopeVars
  <2> QED BY <1>1, <2>1
<1> QED BY <1>2, <1>3, SendingFrames, ArrivingFrames DEF P2PNext

\* The listeners' part of a step: a dispatch takes those to be called once out of the
\* list before it calls anybody, and numbers are not used again.
LEMMA ListeningSteps == Listening /\ [P2PNext]_p2pVars => Listening'
<1> SUFFICES ASSUME Listening, [P2PNext]_p2pVars PROVE Listening'
  OBVIOUS
<1> USE P2PAssumption DEF Listening
<1>1. ASSUME UNCHANGED <<listeners, nextListenerId, calls, heard>>
      PROVE  Listening'
  BY <1>1
<1>2. ASSUME HandleData
      PROVE  Listening'
  <2>1. CASE UNCHANGED <<listeners, nextListenerId, calls, heard>>
    BY <1>1, <2>1
  <2>2. CASE /\ calls' = listeners /\ listeners' = {l \in listeners : ~l.once}
             /\ UNCHANGED <<nextListenerId, heard>>
    <3>1. calls = {} /\ First.once
      BY <1>2 DEF HandleData, First
    <3> QED BY <2>2, <3>1
  <2>3. UNCHANGED <<listeners, nextListenerId, calls, heard>>
        \/ /\ calls' = listeners /\ listeners' = {l \in listeners : ~l.once}
           /\ UNCHANGED <<nextListenerId, heard>>
    BY <1>2 DEF HandleData, TooShort, Oversized, Complete, Frame, listenerVars
  <2> QED BY <2>1, <2>2, <2>3
<1>3. ASSUME CallListener
      PROVE  Listening'
  <2>1. PICK l \in calls : /\ heard' = [heard EXCEPT ![l.id] = @ + 1] /\ calls' = calls \ {l}
                           /\ UNCHANGED <<listeners, nextListenerId>>
    BY <1>3 DEF CallListener
  <2>2. l.id \in 1..MaxListeners /\ heard[l.id] \in Nat
    BY <2>1
  <2>3. heard' \in [1..MaxListeners -> Nat] /\ (l.id # 1 => heard'[1] = heard[1])
        /\ (l.id = 1 => heard'[1] = heard[1] + 1)
    BY <2>1, <2>2
  <2>4. CASE l.id = 1
    <3>1. l = First /\ heard[1] = 0 /\ First \notin listeners
      BY <2>1, <2>4
    <3> QED BY <2>1, <2>3, <2>4, <3>1
  <2>5. CASE l.id # 1
    BY <2>1, <2>3, <2>5
  <2> QED BY <2>4, <2>5
<1>4. ASSUME AddMessage
      PROVE  Listening'
  <2>1. PICK once \in BOOLEAN :
            /\ nextListenerId <= MaxListeners
            /\ listeners' = listeners \cup {[id |-> nextListenerId, once |-> once]}
            /\ nextListenerId' = nextListenerId + 1 /\ UNCHANGED <<calls, heard>>
    BY <1>4 DEF AddMessage
  <2> DEFINE new == [id |-> nextListenerId, once |-> once]
  <2>2. new.id # 1 /\ new # First /\ new \in [id : 1..(nextListenerId' - 1), once : BOOLEAN]
    BY <2>1 DEF First
  <2> HIDE DEF new
  <2>3. \A l \in [id : 1..(nextListenerId - 1), once : BOOLEAN] :
            l \in [id : 1..(nextListenerId' - 1), once : BOOLEAN]
    BY <2>1
  <2>4. listeners' = listeners \cup {new}
    BY <2>1 DEF new
  <2>5. nextListenerId' \in 3..(MaxListeners + 1)
    BY <2>1
  <2> QED BY <2>1, <2>2, <2>3, <2>4, <2>5
<1>5. ASSUME RemoveListener
      PROVE  Listening'
  BY <1>5 DEF RemoveListener
<1>6. ASSUME \/ PeerSends \/ Arrive \/ HeartbeatFires \/ Written
             \/ WriteLost \/ EndClient \/ Destructor \/ UNCHANGED p2pVars
      PROVE  Listening'
  <2>1. UNCHANGED <<listeners, nextListenerId, calls, heard>>
    BY <1>6 DEF PeerSends, Arrive, HeartbeatFires, Written, WriteLost,
                EndClient, Destructor, p2pVars, listenerVars
  <2> QED BY <1>1, <2>1
<1> QED BY <1>2, <1>3, <1>4, <1>5, <1>6 DEF P2PNext

\* The heartbeat's part of a step: the timer is armed when the write is done.
LEMMA BeatingSteps == Beating /\ [P2PNext]_p2pVars => Beating'
<1> SUFFICES ASSUME Beating, [P2PNext]_p2pVars PROVE Beating'
  OBVIOUS
<1>1. ASSUME HeartbeatFires \/ Written \/ WriteLost
      PROVE  Beating'
  BY <1>1 DEF Beating, HeartbeatFires, Written, WriteLost, resetHeartbeat
<1>2. ASSUME \/ PeerSends \/ Arrive \/ HandleData \/ CallListener \/ AddMessage \/ RemoveListener
             \/ EndClient \/ Destructor \/ UNCHANGED p2pVars
      PROVE  Beating'
  <2>1. UNCHANGED <<timers, writes>>
    BY <1>2 DEF PeerSends, Arrive, HandleData, CallListener, AddMessage, RemoveListener,
                EndClient, Destructor, p2pVars, beatVars
  <2> QED BY <2>1 DEF Beating
<1> QED BY <1>1, <1>2 DEF P2PNext

\* Nothing was sent, and nobody was called.
LEMMA P2PStarts == P2PInit => P2PInv
<1> SUFFICES ASSUME P2PInit PROVE P2PInv
  OBVIOUS
<1>1. /\ sent = <<>> /\ wire = <<>> /\ remainingData = <<>> /\ delivered = <<>>
      /\ reading = FALSE /\ tooLong = FALSE /\ errors = FALSE
  BY DEF P2PInit
<1>2. P2PTypes
  BY <1>1, EmptySeq DEF P2PTypes, Bytes
<1>3. Framed
  <2> DEFINE at == [k \in 0..0 |-> 0]
  <2>1. Stream = <<>> /\ Len(Stream) = 0 /\ Len(sent) = 0 /\ Len(delivered) = 0
    BY <1>1 DEF Stream
  <2>2. FramesAt(at, Stream, sent, Len(delivered))
    BY <2>1 DEF FramesAt
  <2> QED BY <2>2 DEF Framed
<1>4. Framing
  BY <1>1, <1>2, <1>3 DEF Framing, DeliveredFirst, HoldsBack
<1>5. Listening
  BY P2PAssumption DEF P2PInit, Listening, First
<1>6. Beating
  BY DEF P2PInit, Beating
<1> QED BY <1>4, <1>5, <1>6 DEF P2PInv

\* However the stream is cut and whatever the handlers do, the client hears the payloads
\* the peer sent, in order, and none of another; a listener of one message is called once,
\* and one heartbeat at most is pending.
THEOREM StreamAlwaysWhole == P2PSpec => []StreamWhole
<1>1. P2PInv /\ [P2PNext]_p2pVars => P2PInv'
  BY FramingSteps, ListeningSteps, BeatingSteps DEF P2PInv
<1>2. ASSUME P2PInv
      PROVE  StreamWhole
  <2>1. ASSUME ~tooLong
        PROVE  IsPrefix(delivered, sent) /\ (~reading => HoldsBack)
    <3>1. /\ delivered \in Seq(Bytes) /\ sent \in Seq(Bytes) /\ Len(delivered) <= Len(sent)
          /\ \A i \in 1..Len(delivered) : delivered[i] = sent[i]
          /\ ~reading => HoldsBack
      BY <1>2, <2>1 DEF P2PInv, Framing, P2PTypes, DeliveredFirst
    <3>2. SubSeq(delivered, 1, Len(delivered)) = SubSeq(sent, 1, Len(delivered))
      BY <3>1, LenProperties
    <3> QED BY <3>1, <3>2 DEF IsPrefix
  <2>2. tooLong => errors /\ Oversize
    BY <1>2 DEF P2PInv, Framing
  <2>3. heard[1] <= 1 /\ timers + writes <= 1
    BY <1>2 DEF P2PInv, Listening, Beating
  <2> QED BY <2>1, <2>2, <2>3 DEF StreamWhole, HoldsBack, Oversize
<1> QED BY <1>1, <1>2, P2PStarts, PTL DEF P2PSpec
-----------------------------------------------------------------------------
(* Proposals and approvals, page by page *)

MsigsSpec == MsigsInit /\ [][MsigsNext]_msigsVars

Learnt == [max: [Kinds -> Nat \cup {Unset}], initialized: BOOLEAN, learned: SUBSET Kinds]

\* The client knows what the service gives at most, or has not asked yet.
Honest(m, k) == k \in m.learned \/ m.max[k] = Unset \/ m.max[k] <= ServiceMax[k]

MsigsTypes ==
    /\ msigLimits \in Learnt
    /\ msigLimits.initialized => \A k \in Kinds : msigLimits.max[k] # Unset
    /\ \A k \in msigLimits.learned : msigLimits.max[k] = ServiceMax[k]
    /\ listing \in [kind: Kinds, rows: Nat, limit: Nat \ {0}, offset: Nat, seen: SUBSET Nat,
                    twice: BOOLEAN, calls: Nat, more: BOOLEAN, refused: BOOLEAN,
                    page: Nat, pages: Int]

\* Before its first page a walk is at its beginning, and after that the limits are known.
Begins ==
    IF listing.calls = 0
    THEN listing.offset = 0 /\ listing.seen = {} /\ listing.more /\ ~listing.twice
    ELSE msigLimits.initialized

\* Where a walk is that has asked for pages the service gives whole.
Walks ==
    /\ ~listing.twice
    /\ listing.more => /\ listing.offset = listing.limit * listing.calls
                       /\ listing.offset < listing.rows
                       /\ listing.seen = 1..listing.offset
                       /\ listing.page < listing.pages
    /\ ~listing.more => /\ listing.seen = 1..listing.rows
                        /\ listing.rows > 0 => listing.page = listing.pages

MsigsInv ==
    /\ MsigsTypes /\ Begins
    /\ Honest(msigLimits, listing.kind) /\ listing.calls > 0 => Walks

\* A quotient and what is left determine each other.
LEMMA QuotientIs ==
    ASSUME NEW d \in Nat \ {0}, NEW q \in Int, NEW r \in 0..(d - 1)
    PROVE  (d * q + r) \div d = q
BY Z3

\* A number with q times d in it divides into q at least.
LEMMA QuotientAtLeast ==
    ASSUME NEW d \in Nat \ {0}, NEW q \in Int, NEW x \in Int, x >= d * q
    PROVE  x \div d \in Int /\ x \div d >= q
<1> DEFINE p == x \div d
           r == x % d
<1>1. p \in Int /\ r \in 0..(d - 1) /\ x = d * p + r
  BY Z3
<1>2. ASSUME p < q PROVE FALSE
  <2>1. d * (q - p) >= d
    BY <1>1, <1>2, Z3
  <2>2. d * q >= d * p + d
    BY <1>1, <2>1, Z3
  <2> QED BY <1>1, <2>2, Z3
<1> QED BY <1>1, <1>2

\* The limits, once asked for, are all known, and those a status told are the service's.
LEMMA LimitsKnown ==
    ASSUME MsigsTypes, NEW answered \in BOOLEAN, NEW said \in SUBSET Kinds,
           NEW m, m = initializeLimits(msigLimits, answered, said)
    PROVE  /\ m \in Learnt /\ m.initialized
           /\ \A k \in Kinds : m.max[k] # Unset
           /\ \A k \in m.learned : m.max[k] = ServiceMax[k]
           /\ msigLimits.initialized => m = msigLimits
<1>1. CASE msigLimits.initialized
  BY <1>1 DEF MsigsTypes, initializeLimits
<1>2. CASE ~msigLimits.initialized /\ \A k \in Kinds : msigLimits.max[k] # Unset
  <2>1. m = [msigLimits EXCEPT !.initialized = TRUE]
    BY <1>2 DEF initializeLimits
  <2> QED BY <1>2, <2>1 DEF MsigsTypes, Learnt
<1>3. CASE ~msigLimits.initialized /\ \E k \in Kinds : msigLimits.max[k] = Unset
  <2> DEFINE told == {k \in Kinds : msigLimits.max[k] = Unset /\ answered /\ k \in said}
             max == [k \in Kinds |-> IF msigLimits.max[k] # Unset THEN msigLimits.max[k]
                                     ELSE IF k \in told THEN ServiceMax[k] ELSE DefaultMax[k]]
  <2>1. m = [max |-> max, initialized |-> TRUE, learned |-> told]
    BY <1>3 DEF initializeLimits
  <2>2. \A k \in Kinds : ServiceMax[k] \in Nat /\ DefaultMax[k] \in Nat
    BY MsigsAssumption DEF Kinds
  <2>3. \A k \in Kinds : max[k] \in Nat /\ max[k] # Unset
    BY <2>2, MsigsAssumption DEF MsigsTypes, Learnt
  <2>4. \A k \in told : max[k] = ServiceMax[k]
    BY <2>3
  <2>5. max \in [Kinds -> Nat \cup {Unset}] /\ told \in SUBSET Kinds
    BY <2>3
  <2> HIDE DEF max, told
  <2> QED BY <1>3, <2>1, <2>3, <2>4, <2>5 DEF Learnt
<1> QED BY <1>1, <1>2, <1>3

\* The next offset follows the page, and the number of the page is that of all of them
\* only if it is the last.
LEMMA PageNumbers ==
    ASSUME NEW total \in Nat, NEW limit \in Nat \ {0}, NEW asked \in Nat, NEW offset \in Nat,
           offset = limit * asked, offset < total \/ offset = 0
    PROVE  /\ offset + limit = limit * (asked + 1)
           /\ offset \div limit = asked
           /\ offset + limit < total => (total + limit - 1) \div limit > asked + 1
           /\ offset + limit >= total /\ total > 0 => (total + limit - 1) \div limit = asked + 1
<1>1. offset + limit = limit * (asked + 1)
  BY Z3
<1>2. (offset \div limit) = asked
  <2>1. offset = limit * asked + 0 /\ 0 \in 0..(limit - 1)
    BY Z3
  <2> QED BY <2>1, QuotientIs
<1>3. ASSUME offset + limit < total
      PROVE  (total + limit - 1) \div limit > asked + 1
  <2>1. limit * (asked + 2) = limit * (asked + 1) + limit
    BY Z3
  <2>2. total + limit - 1 >= limit * (asked + 2) /\ total + limit - 1 \in Int
    BY <1>1, <1>3, <2>1, Z3
  <2>3. /\ (total + limit - 1) \div limit \in Int
        /\ (total + limit - 1) \div limit >= asked + 2
    BY <2>2, QuotientAtLeast
  <2> QED BY <2>3
<1>4. ASSUME offset + limit >= total, total > 0
      PROVE  (total + limit - 1) \div limit = asked + 1
  <2> DEFINE r == total - 1 - offset
  <2>1. r \in 0..(limit - 1)
    BY <1>4
  <2>2. total + limit - 1 = limit * (asked + 1) + r
    BY <1>1
  <2> QED BY <2>1, <2>2, QuotientIs
<1> QED BY <1>1, <1>2, <1>3, <1>4

\* A page, refused or not, keeps the walk where its calls say it is.
LEMMA MsigsStep == MsigsInv /\ [MsigsNext]_msigsVars => MsigsInv'
<1> SUFFICES ASSUME MsigsInv, [MsigsNext]_msigsVars PROVE MsigsInv'
  OBVIOUS
<1>1. CASE UNCHANGED msigsVars
  BY <1>1 DEF msigsVars, MsigsInv, MsigsTypes, Begins, Walks, Honest
<1>2. CASE GetPage
  <2>1. PICK answered \in BOOLEAN, said \in SUBSET Kinds :
          LET l == listing
              m == initializeLimits(msigLimits, answered, said)
              given == IF l.limit < ServiceMax[l.kind] THEN l.limit ELSE ServiceMax[l.kind]
              shown == (l.offset + 1)..(IF l.offset + given < l.rows THEN l.offset + given ELSE l.rows)
              more == l.offset + given < l.rows
              p == getPaginationInfo(l.offset, l.limit, l.rows, more)
          IN  /\ l.more /\ ~l.refused
              /\ msigLimits' = m
              /\ listing' = IF l.limit > m.max[l.kind] THEN [l EXCEPT !.refused = TRUE]
                            ELSE [l EXCEPT !.seen = @ \cup shown, !.twice = @ \/ shown \cap l.seen # {},
                                           !.offset = IF more THEN nextOffsetOf(p) ELSE @,
                                           !.calls = @ + 1, !.more = more,
                                           !.page = p.currentPage, !.pages = p.totalPages]
    BY <1>2 DEF GetPage
  <2> DEFINE l == listing
             m == initializeLimits(msigLimits, answered, said)
             given == IF l.limit < ServiceMax[l.kind] THEN l.limit ELSE ServiceMax[l.kind]
             end == IF l.offset + given < l.rows THEN l.offset + given ELSE l.rows
             shown == (l.offset + 1)..end
             more == l.offset + given < l.rows
             p == getPaginationInfo(l.offset, l.limit, l.rows, more)
  <2>2. /\ l \in [kind: Kinds, rows: Nat, limit: Nat \ {0}, offset: Nat, seen: SUBSET Nat,
                  twice: BOOLEAN, calls: Nat, more: BOOLEAN, refused: BOOLEAN,
                  page: Nat, pages: Int]
        /\ ServiceMax[l.kind] \in Nat
        /\ l.more
    BY <2>1, MsigsAssumption DEF MsigsInv, MsigsTypes, Kinds
  <2>3. /\ m \in Learnt /\ m.initialized
        /\ \A k \in Kinds : m.max[k] # Unset
        /\ \A k \in m.learned : m.max[k] = ServiceMax[k]
        /\ msigLimits.initialized => m = msigLimits
        /\ msigLimits' = m
    BY <2>1, LimitsKnown DEF MsigsInv
  <2>4. CASE l.limit > m.max[l.kind]
    <3>1. listing' = [l EXCEPT !.refused = TRUE]
      BY <2>1, <2>4
    <3>2. MsigsTypes'
      BY <2>2, <2>3, <3>1 DEF MsigsTypes
    <3>3. Begins'
      BY <2>2, <2>3, <3>1 DEF MsigsInv, Begins
    <3>4. Honest(msigLimits, listing.kind)' /\ listing'.calls > 0 => Walks'
      BY <2>2, <2>3, <3>1 DEF MsigsInv, Begins, Walks, Honest
    <3> QED BY <3>2, <3>3, <3>4 DEF MsigsInv
  <2>5. CASE ~(l.limit > m.max[l.kind])
    <3>1. listing' = [l EXCEPT !.seen = @ \cup shown, !.twice = @ \/ shown \cap l.seen # {},
                               !.offset = IF more THEN nextOffsetOf(p) ELSE @,
                               !.calls = @ + 1, !.more = more,
                               !.page = p.currentPage, !.pages = p.totalPages]
      BY <2>1, <2>5
    <3>2. given \in Nat /\ end \in Nat /\ more \in BOOLEAN
      BY <2>2
    <3>3. /\ p.currentPage \in Nat /\ p.totalPages \in Int
          /\ more => p.nextOffset = l.offset + l.limit
      <4>1. /\ p.currentPage = (l.offset \div l.limit) + 1
            /\ p.totalPages = (l.rows + l.limit - 1) \div l.limit
            /\ more => p.nextOffset = l.offset + l.limit
        BY DEF getPaginationInfo
      <4>2. l.offset >= l.limit * 0 /\ l.rows + l.limit - 1 >= l.limit * 0
            /\ l.rows + l.limit - 1 \in Int
        BY <2>2, Z3
      <4>3. /\ l.offset \div l.limit \in Int /\ l.offset \div l.limit >= 0
            /\ (l.rows + l.limit - 1) \div l.limit \in Int
        BY <2>2, <4>2, QuotientAtLeast
      <4> QED BY <4>1, <4>3
    <3>4. /\ listing'.kind = l.kind /\ listing'.rows = l.rows /\ listing'.limit = l.limit
          /\ listing'.refused = l.refused /\ listing'.calls = l.calls + 1
          /\ listing'.seen = l.seen \cup shown
          /\ listing'.twice = (l.twice \/ shown \cap l.seen # {})
          /\ listing'.offset = (IF more THEN p.nextOffset ELSE l.offset)
          /\ listing'.more = more /\ listing'.page = p.currentPage /\ listing'.pages = p.totalPages
      BY <2>2, <3>1 DEF nextOffsetOf
    <3>5. MsigsTypes'
      <4>1. shown \in SUBSET Nat
        BY <2>2, <3>2
      <4>2. p.nextOffset \in Nat \/ ~more
        BY <2>2, <3>3
      <4>3. l.seen \cup shown \in SUBSET Nat /\ l.calls + 1 \in Nat
        <5>1. l.seen \in SUBSET Nat /\ l.calls \in Nat
          BY <2>2
        <5> HIDE DEF l, shown
        <5>2. l.calls + 1 \in Nat
          BY <5>1
        <5>3. l.seen \cup shown \in SUBSET Nat
          BY <4>1, <5>1
        <5> QED BY <5>2, <5>3
      <4>4. listing' \in [kind: Kinds, rows: Nat, limit: Nat \ {0}, offset: Nat, seen: SUBSET Nat,
                          twice: BOOLEAN, calls: Nat, more: BOOLEAN, refused: BOOLEAN,
                          page: Nat, pages: Int]
        <5> DEFINE next == IF more THEN nextOffsetOf(p) ELSE l.offset
                   twice == l.twice \/ shown \cap l.seen # {}
                   current == p.currentPage
                   total == p.totalPages
        <5>1. next \in Nat
          BY <2>2, <4>2 DEF nextOffsetOf
        <5>2. twice \in BOOLEAN /\ current \in Nat /\ total \in Int
          BY <3>3
        <5>3. listing' = [l EXCEPT !.seen = l.seen \cup shown, !.twice = twice, !.offset = next,
                                   !.calls = l.calls + 1, !.more = more,
                                   !.page = current, !.pages = total]
          BY <3>1
        <5> HIDE DEF shown, more, p, next, twice, current, total
        <5> DEFINE seen == l.seen \cup shown
                   asked == l.calls + 1
        <5> HIDE DEF seen, asked
        <5>5. listing' = [l EXCEPT !.seen = seen, !.twice = twice, !.offset = next,
                                   !.calls = asked, !.more = more,
                                   !.page = current, !.pages = total]
          BY <5>3 DEF seen, asked
        <5>6. seen \in SUBSET Nat /\ asked \in Nat
          BY <4>3 DEF seen, asked
        <5> QED BY <2>2, <3>2, <5>1, <5>2, <5>5, <5>6
      <4> QED BY <2>3, <4>4 DEF MsigsTypes
    <3>6. Begins'
      BY <2>2, <2>3, <3>4 DEF Begins
    <3>7. ASSUME Honest(msigLimits, listing.kind)' PROVE Walks'
      <4>1. l.limit <= ServiceMax[l.kind] /\ given = l.limit
        <5>1. m.max[l.kind] \in Nat /\ m.max[l.kind] # Unset
          BY <2>2, <2>3 DEF Learnt
        <5>2. m.max[l.kind] <= ServiceMax[l.kind]
          BY <2>2, <2>3, <3>4, <3>7, <5>1 DEF Honest
        <5> QED BY <2>2, <2>5, <5>1, <5>2
      <4>2. /\ ~l.twice /\ l.offset = l.limit * l.calls
            /\ l.offset < l.rows \/ l.offset = 0
            /\ l.seen = 1..l.offset
        <5>1. CASE l.calls = 0
          <6>1. l.offset = 0 /\ l.seen = {} /\ ~l.twice
            BY <5>1 DEF MsigsInv, Begins
          <6>2. l.limit * 0 = 0 /\ 1..0 = {}
            BY <2>2
          <6> QED BY <5>1, <6>1, <6>2
        <5>2. CASE l.calls # 0
          <6>1. msigLimits.initialized /\ l.calls > 0
            BY <2>2, <5>2 DEF MsigsInv, Begins
          <6>2. Walks
            BY <2>3, <3>4, <3>7, <6>1 DEF MsigsInv, Honest
          <6> QED BY <2>2, <6>2 DEF Walks
        <5> QED BY <5>1, <5>2
      <4>3. more <=> l.offset + l.limit < l.rows
        BY <4>1
      <4>4. /\ l.offset + l.limit = l.limit * (l.calls + 1)
            /\ more => p.currentPage < p.totalPages /\ p.nextOffset = l.offset + l.limit
            /\ ~more /\ l.rows > 0 => p.currentPage = p.totalPages
        <5>1. l.rows \in Nat /\ l.limit \in Nat \ {0} /\ l.calls \in Nat /\ l.offset \in Nat
          BY <2>2
        <5>2. l.offset = l.limit * l.calls /\ (l.offset < l.rows \/ l.offset = 0)
          BY <4>2
        <5>3. more \in BOOLEAN
          BY <3>2
        <5>4. /\ l.offset + l.limit = l.limit * (l.calls + 1)
              /\ l.offset \div l.limit = l.calls
              /\ l.offset + l.limit < l.rows => (l.rows + l.limit - 1) \div l.limit > l.calls + 1
              /\ l.offset + l.limit >= l.rows /\ l.rows > 0 =>
                    (l.rows + l.limit - 1) \div l.limit = l.calls + 1
          <6> HIDE DEF l
          <6> QED BY <5>1, <5>2, PageNumbers
        <5>5. ~more => l.offset + l.limit >= l.rows
          BY <4>3, <5>1
        <5>6. /\ p.currentPage = l.calls + 1
              /\ p.totalPages = (l.rows + l.limit - 1) \div l.limit
              /\ more => p.nextOffset = l.offset + l.limit
          BY <5>4 DEF getPaginationInfo
        <5> HIDE DEF more, l, p
        <5> QED BY <4>3, <5>4, <5>5, <5>6
      <4>5. shown \cap l.seen = {}
        BY <2>2, <3>2, <4>2
      <4>6. l.seen \cup shown = 1..end
        BY <2>2, <4>1, <4>2
      <4>7. ~listing'.twice
        BY <3>4, <4>2, <4>5
      <4>8. CASE more
        <5>1. end = l.offset + l.limit
          BY <4>1, <4>8
        <5> HIDE DEF shown, more, p, given, end
        <5> QED BY <2>2, <3>4, <4>3, <4>4, <4>6, <4>7, <4>8, <5>1 DEF Walks
      <4>9. CASE ~more
        <5>1. end = l.rows
          BY <4>9
        <5> HIDE DEF shown, more, p, given, end
        <5> QED BY <2>2, <3>4, <4>4, <4>6, <4>7, <4>9, <5>1 DEF Walks
      <4> QED BY <4>8, <4>9
    <3> QED BY <3>5, <3>6, <3>7 DEF MsigsInv
  <2> QED BY <2>4, <2>5
<1> QED BY <1>1, <1>2 DEF MsigsNext

\* A walk begins at its first row, over a client with the options' limits.
LEMMA MsigsStarts == MsigsInit => MsigsInv
<1> SUFFICES ASSUME MsigsInit PROVE MsigsInv
  OBVIOUS
<1>1. PICK g \in GivenMax : msigLimits = [max |-> g, initialized |-> FALSE, learned |-> {}]
  BY DEF MsigsInit
<1>2. PICK k \in Kinds, n \in MsigRows, limit \in MsigLimits :
        listing = [kind |-> k, rows |-> n, limit |-> limit, offset |-> 0, seen |-> {}, twice |-> FALSE,
                   calls |-> 0, more |-> TRUE, refused |-> FALSE, page |-> 0, pages |-> 0]
  BY DEF MsigsInit
<1>3. MsigsTypes
  BY <1>1, <1>2, MsigsAssumption DEF MsigsTypes, Learnt, Kinds
<1> QED
  BY <1>2, <1>3 DEF MsigsInv, Begins

\* For any lists, limits and options: a walk that follows nextOffset over a service whose
\* largest page the client knows gets every row once, and its page numbers are right
\* (msigs.cpp:48-181, 199-215).
THEOREM PagesAlwaysWhole == MsigsSpec => []PagesWhole
<1>1. ASSUME MsigsInv
      PROVE  PagesWhole
  <2> DEFINE l == listing
  <2>1. /\ l \in [kind: Kinds, rows: Nat, limit: Nat \ {0}, offset: Nat, seen: SUBSET Nat,
                  twice: BOOLEAN, calls: Nat, more: BOOLEAN, refused: BOOLEAN,
                  page: Nat, pages: Int]
    BY <1>1 DEF MsigsInv, MsigsTypes
  <2>2. CASE l.calls = 0
    BY <1>1, <2>1, <2>2 DEF MsigsInv, Begins, PagesWhole
  <2>3. CASE l.calls # 0
    BY <1>1, <2>1, <2>3 DEF MsigsInv, Walks, Honest, PagesWhole
  <2> QED BY <2>2, <2>3
<1> QED BY <1>1, MsigsStep, MsigsStarts, PTL DEF MsigsSpec

-----------------------------------------------------------------------------
(* Authorities: the order of texts *)

\* Where a text precedes another: they agree up to there, and it ends or is less.
PrecedesAt(a, b, i) ==
    /\ i \in 1..Len(b)
    /\ \A j \in 1..(i - 1) : j \in 1..Len(a) /\ a[j] = b[j]
    /\ i \in 1..Len(a) => a[i] < b[i]

\* A text precedes another at some place.
LEMMA PrecedesSomewhere ==
    ASSUME NEW a \in Seq(Nat), NEW b \in Seq(Nat)
    PROVE  Precedes(a, b) <=> \E i \in Nat : PrecedesAt(a, b, i)
<1>1. DOMAIN a = 1..Len(a) /\ DOMAIN b = 1..Len(b) /\ Len(a) \in Nat /\ Len(b) \in Nat
  OBVIOUS
<1>2. IsStrictPrefix(a, b) => PrecedesAt(a, b, Len(a) + 1)
  <2> SUFFICES ASSUME IsStrictPrefix(a, b) PROVE PrecedesAt(a, b, Len(a) + 1)
    OBVIOUS
  <2>1. Len(a) <= Len(b) /\ SubSeq(a, 1, Len(a)) = SubSeq(b, 1, Len(a)) /\ a # b
    BY DEF IsStrictPrefix, IsPrefix
  <2>2. \A j \in 1..Len(a) : a[j] = b[j]
    <3> SUFFICES ASSUME NEW j \in 1..Len(a) PROVE a[j] = b[j]
      OBVIOUS
    <3>1. SubSeq(a, 1, Len(a))[j] = a[j] /\ SubSeq(b, 1, Len(a))[j] = b[j]
      BY <2>1
    <3> QED BY <2>1, <3>1
  <2>3. Len(a) # Len(b)
    <3> SUFFICES ASSUME Len(a) = Len(b) PROVE a = b
      BY <2>1
    <3> QED BY <2>2, SeqEqual
  <2>4. Len(a) + 1 \in 1..Len(b) /\ Len(a) + 1 \notin 1..Len(a) /\ (Len(a) + 1) - 1 = Len(a)
    <3>1. \A l, m \in Nat : l <= m /\ l # m => l + 1 \in 1..m /\ l + 1 \notin 1..l /\ (l + 1) - 1 = l
      OBVIOUS
    <3> QED BY <1>1, <2>1, <2>3, <3>1
  <2> QED BY <2>2, <2>4 DEF PrecedesAt
<1>3. ASSUME NEW i \in DOMAIN a \cap DOMAIN b, a[i] < b[i], \A j \in 1..(i - 1) : a[j] = b[j]
      PROVE  PrecedesAt(a, b, i)
  BY <1>1, <1>3 DEF PrecedesAt
<1>4. ASSUME NEW i \in Nat, PrecedesAt(a, b, i) PROVE Precedes(a, b)
  <2>1. /\ i \in 1..Len(b) /\ \A j \in 1..(i - 1) : j \in 1..Len(a) /\ a[j] = b[j]
        /\ i \in 1..Len(a) => a[i] < b[i]
    BY <1>4 DEF PrecedesAt
  <2>2. CASE i \in 1..Len(a)
    BY <1>1, <2>1, <2>2 DEF Precedes
  <2>3. CASE i \notin 1..Len(a)
    <3>1. Len(a) = i - 1
      <4>1. i - 1 <= Len(a)
        <5>1. CASE i = 1
          BY <1>1, <5>1
        <5>2. CASE i # 1
          BY <1>1, <2>1, <5>2
        <5> QED BY <5>1, <5>2
      <4> QED BY <1>1, <2>1, <2>3, <4>1
    <3>2. SubSeq(a, 1, Len(a)) = SubSeq(b, 1, Len(a))
      <4> DEFINE n == Len(a)
      <4>1. n \in Nat /\ n <= Len(a) /\ n <= Len(b) /\ \A j \in 1..n : a[j] = b[j]
        BY <1>1, <2>1, <3>1
      <4> HIDE DEF n
      <4>2. SubSeq(a, 1, n) = SubSeq(b, 1, n)
        BY <4>1, SameStart
      <4> QED BY <4>2 DEF n
    <3>3. Len(a) <= Len(b) /\ a # b
      BY <1>1, <2>1, <3>1
    <3> QED BY <3>2, <3>3 DEF Precedes, IsStrictPrefix, IsPrefix
  <2> QED BY <2>2, <2>3
<1> QED BY <1>1, <1>2, <1>3, <1>4 DEF Precedes

\* Of two texts one precedes the other, or they are the same; never both.
LEMMA TextsOrdered ==
    /\ \A a \in Seq(Nat) : ~Precedes(a, a)
    /\ \A a, b, c \in Seq(Nat) : Precedes(a, b) /\ Precedes(b, c) => Precedes(a, c)
    /\ \A a, b \in Seq(Nat) : a = b \/ Precedes(a, b) \/ Precedes(b, a)
<1>1. ASSUME NEW a \in Seq(Nat) PROVE ~Precedes(a, a)
  <2> SUFFICES ASSUME NEW i \in Nat, PrecedesAt(a, a, i) PROVE FALSE
    BY PrecedesSomewhere
  <2>1. i \in 1..Len(a) /\ a[i] < a[i] /\ a[i] \in Nat
    BY DEF PrecedesAt
  <2> QED BY <2>1
<1>2. ASSUME NEW a \in Seq(Nat), NEW b \in Seq(Nat), NEW c \in Seq(Nat), Precedes(a, b), Precedes(b, c)
      PROVE  Precedes(a, c)
  <2>1. PICK i \in Nat : PrecedesAt(a, b, i)
    BY <1>2, PrecedesSomewhere
  <2>2. PICK k \in Nat : PrecedesAt(b, c, k)
    BY <1>2, PrecedesSomewhere
  <2>3. /\ i \in 1..Len(b) /\ \A j \in 1..(i - 1) : j \in 1..Len(a) /\ a[j] = b[j]
        /\ i \in 1..Len(a) => a[i] < b[i]
    BY <2>1 DEF PrecedesAt
  <2>4. /\ k \in 1..Len(c) /\ \A j \in 1..(k - 1) : j \in 1..Len(b) /\ b[j] = c[j]
        /\ k \in 1..Len(b) => b[k] < c[k]
    BY <2>2 DEF PrecedesAt
  <2>5. Len(a) \in Nat /\ Len(b) \in Nat /\ Len(c) \in Nat
    OBVIOUS
  <2>6. (\A j \in 1..Len(a) : a[j] \in Nat) /\ (\A j \in 1..Len(b) : b[j] \in Nat)
        /\ (\A j \in 1..Len(c) : c[j] \in Nat)
    OBVIOUS
  <2>7. CASE i < k
    <3>1. PrecedesAt(a, c, i)
      BY <2>3, <2>4, <2>5, <2>6, <2>7 DEF PrecedesAt
    <3> QED BY <3>1, PrecedesSomewhere
  <2>8. CASE k < i
    <3>1. k \in 1..(i - 1) /\ k \in 1..Len(b) /\ k \in 1..Len(c)
      BY <2>3, <2>4, <2>5, <2>8
    <3>2. a[k] = b[k] /\ b[k] < c[k]
      BY <2>3, <2>4, <3>1
    <3>3. \A j \in 1..(k - 1) : j \in 1..(i - 1)
      BY <2>8
    <3>4. \A j \in 1..(k - 1) : j \in 1..Len(a) /\ a[j] = c[j]
      BY <2>3, <2>4, <3>3
    <3>5. PrecedesAt(a, c, k)
      BY <3>1, <3>2, <3>4 DEF PrecedesAt
    <3> QED BY <3>5, PrecedesSomewhere
  <2>9. CASE i = k
    <3>1. PrecedesAt(a, c, i)
      BY <2>3, <2>4, <2>5, <2>6, <2>9 DEF PrecedesAt
    <3> QED BY <3>1, PrecedesSomewhere
  <2> QED BY <2>7, <2>8, <2>9
<1>3. ASSUME NEW a \in Seq(Nat), NEW b \in Seq(Nat), a # b
      PROVE  Precedes(a, b) \/ Precedes(b, a)
  <2> DEFINE D == {i \in Nat : \/ i \in 1..Len(a) /\ i \notin 1..Len(b)
                               \/ i \in 1..Len(b) /\ i \notin 1..Len(a)
                               \/ i \in 1..Len(a) /\ i \in 1..Len(b) /\ a[i] # b[i]}
             m == Min(D)
  <2>1. D # {}
    <3> SUFFICES ASSUME D = {} PROVE FALSE
      OBVIOUS
    <3>1. Len(a) = Len(b)
      <4>1. CASE Len(a) < Len(b)
        <5>1. Len(b) \in D
          BY <4>1
        <5> QED BY <5>1
      <4>2. CASE Len(b) < Len(a)
        <5>1. Len(a) \in D
          BY <4>2
        <5> QED BY <5>1
      <4> QED BY <4>1, <4>2
    <3>2. \A i \in 1..Len(a) : a[i] = b[i]
      BY <3>1
    <3> QED BY <1>3, <3>1, <3>2, SeqEqual
  <2>2. m \in D /\ \A i \in D : m <= i
    <3> HIDE DEF D
    <3>1. D \in SUBSET Nat
      BY DEF D
    <3> QED BY <2>1, <3>1, HasFirst
  <2> HIDE DEF m
  <2>3. m \in Nat /\ \A j \in 1..(m - 1) : j \notin D
    BY <2>2
  <2>4. m \in 1..Len(a) \/ m \in 1..Len(b)
    BY <2>2
  <2>5. \A j \in 1..(m - 1) : j \in 1..Len(a) /\ j \in 1..Len(b) /\ a[j] = b[j]
    BY <2>3, <2>4
  <2>6. (\A j \in 1..Len(a) : a[j] \in Nat) /\ (\A j \in 1..Len(b) : b[j] \in Nat)
    OBVIOUS
  <2>7. PrecedesAt(a, b, m) \/ PrecedesAt(b, a, m)
    BY <2>2, <2>3, <2>4, <2>5, <2>6 DEF PrecedesAt
  <2> QED BY <2>3, <2>7, PrecedesSomewhere
<1> QED BY <1>1, <1>2, <1>3

\* Comparing bytes tells which text precedes.
LEMMA BytesCompared ==
    ASSUME NEW a \in Seq(Nat), NEW b \in Seq(Nat)
    PROVE  /\ compareBytes(a, b) \in {-1, 0, 1}
           /\ compareBytes(a, b) = 0 <=> a = b
           /\ compareBytes(a, b) = -1 <=> Precedes(a, b)
<1> DEFINE n == Min({Len(a), Len(b)})
           at == {i \in 1..n : a[i] # b[i]}
           m == Min(at)
<1>1. n \in {Len(a), Len(b)} /\ n <= Len(a) /\ n <= Len(b) /\ n \in Nat
  <2> DEFINE S == {Len(a), Len(b)}
  <2>1. S \in SUBSET Nat /\ S # {}
    OBVIOUS
  <2> HIDE DEF S
  <2>2. Min(S) \in S /\ \A y \in S : Min(S) <= y
    BY <2>1, HasFirst
  <2> QED BY <2>2 DEF S
<1> HIDE DEF n
<1>2. /\ \A j \in 1..n : j \in 1..Len(a) /\ j \in 1..Len(b)
      /\ (\A j \in 1..Len(a) : a[j] \in Nat) /\ (\A j \in 1..Len(b) : b[j] \in Nat)
  BY <1>1
<1>3. (a = b => ~Precedes(a, b)) /\ ~(Precedes(a, b) /\ Precedes(b, a))
  BY TextsOrdered
<1>4. CASE at # {}
  <2>1. m \in at /\ \A i \in at : m <= i
    <3> HIDE DEF at
    <3>1. at \in SUBSET Nat
      BY <1>1 DEF at
    <3> QED BY <1>4, <3>1, HasFirst
  <2> HIDE DEF m
  <2>2. m \in 1..n /\ a[m] # b[m] /\ \A j \in 1..(m - 1) : j \in 1..n /\ a[j] = b[j]
    <3>1. m \in 1..n /\ a[m] # b[m]
      BY <2>1
    <3>2. \A j \in 1..(m - 1) : j \in 1..n /\ ~(m <= j)
      <4> HIDE DEF at
      <4>1. m \in 1..n
        BY <3>1
      <4> QED BY <1>1, <4>1
    <3>3. \A j \in 1..(m - 1) : a[j] = b[j]
      BY <2>1, <3>2
    <3> HIDE DEF at
    <3> QED BY <3>1, <3>2, <3>3
  <2>3. a[m] < b[m] => Precedes(a, b)
    <3>1. a[m] < b[m] => PrecedesAt(a, b, m)
      BY <1>2, <2>2 DEF PrecedesAt
    <3> QED BY <1>1, <2>2, <3>1, PrecedesSomewhere
  <2>4. b[m] < a[m] => Precedes(b, a)
    <3>1. b[m] < a[m] => PrecedesAt(b, a, m)
      BY <1>2, <2>2 DEF PrecedesAt
    <3> QED BY <1>1, <2>2, <3>1, PrecedesSomewhere
  <2>5. compareBytes(a, b) = IF a[m] < b[m] THEN -1 ELSE 1
    BY <1>4 DEF compareBytes, n, m
  <2>6. a[m] \in Nat /\ b[m] \in Nat
    BY <1>2, <2>2
  <2>7. a # b
    BY <2>2
  <2> QED BY <1>3, <2>2, <2>3, <2>4, <2>5, <2>6, <2>7
<1>5. CASE at = {}
  <2>1. compareBytes(a, b) = IF Len(a) = Len(b) THEN 0 ELSE IF Len(a) < Len(b) THEN -1 ELSE 1
    BY <1>5 DEF compareBytes, n
  <2>2. \A j \in 1..n : a[j] = b[j]
    BY <1>5
  <2>3. CASE Len(a) = Len(b)
    <3>1. a = b
      BY <1>1, <2>2, <2>3, SeqEqual
    <3> QED BY <1>3, <2>1, <2>3, <3>1
  <2>4. CASE Len(a) < Len(b)
    <3>1. n = Len(a)
      BY <1>1, <2>4
    <3>2. PrecedesAt(a, b, Len(a) + 1)
      BY <1>2, <2>2, <2>4, <3>1 DEF PrecedesAt
    <3>3. Precedes(a, b) /\ a # b
      BY <2>4, <3>2, PrecedesSomewhere
    <3> QED BY <2>1, <2>4, <3>3
  <2>5. CASE Len(b) < Len(a)
    <3>1. n = Len(b)
      BY <1>1, <2>5
    <3>2. PrecedesAt(b, a, Len(b) + 1)
      BY <1>2, <2>2, <2>5, <3>1 DEF PrecedesAt
    <3>3. Precedes(b, a) /\ a # b
      BY <2>5, <3>2, PrecedesSomewhere
    <3> QED BY <1>3, <2>1, <2>5, <3>3
  <2> QED BY <2>3, <2>4, <2>5
<1> QED BY <1>4, <1>5

-----------------------------------------------------------------------------
(* Authorities: the order of keys *)

\* Division with a remainder.
LEMMA Division ==
    ASSUME NEW x \in Nat, NEW d \in Nat \ {0}
    PROVE  /\ x \div d \in Nat /\ x % d \in 0..(d - 1) /\ x = d * (x \div d) + (x % d)
           /\ x < d * d => x \div d < d
<1> DEFINE q == x \div d
           r == x % d
<1>1. q \in Int /\ r \in 0..(d - 1) /\ x = d * q + r
  BY Z3
<1> HIDE DEF q, r
<1>2. q >= 0
  <2> SUFFICES ASSUME q <= -1 PROVE FALSE
    BY <1>1
  <2>1. d * q <= -d
    BY <1>1, Z3
  <2> QED BY <1>1, <2>1
<1>3. x < d * d => q < d
  <2> SUFFICES ASSUME x < d * d, q >= d PROVE FALSE
    BY <1>1
  <2>1. d * q >= d * d
    BY <1>1, Z3
  <2>2. d * q \in Int /\ d * d \in Int
    BY <1>1
  <2> QED BY <1>1, <2>1, <2>2
<1> QED BY <1>1, <1>2, <1>3 DEF q, r

\* A text from some place on.
LEMMA RestIs ==
    ASSUME NEW a \in Seq(Nat), NEW e \in 0..Len(a)
    PROVE  LET rest == SubSeq(a, e + 1, Len(a))
           IN  /\ rest \in Seq(Nat) /\ Len(rest) = Len(a) - e
               /\ \A j \in 1..(Len(a) - e) : rest[j] = a[e + j]
<1> DEFINE rest == SubSeq(a, e + 1, Len(a))
<1>1. Len(a) \in Nat /\ e \in Nat /\ e <= Len(a)
  OBVIOUS
<1>2. rest \in Seq(Nat) /\ Len(rest) = Len(a) - e
  BY <1>1, SubSeqProperties
<1>3. \A j \in 1..(Len(a) - e) : rest[j] = a[e + j]
  BY <1>1, SubSeqProperties
<1> QED BY <1>2, <1>3

\* What the bytes of a webauthn key are read as: its point and its rpid.
LEMMA KeyReadBack ==
    ASSUME NEW k \in AuthKeys, k.type = 2
    PROVE  /\ keyData(k) \in Seq(Nat)
           /\ SubSeq(keyData(k), 1, Min({PointSize, Len(keyData(k))})) = k.point
           /\ readRpid(keyData(k)) = k.rpid
<1> DEFINE p == k.point
           r == k.rpid
           n == Len(r)
           l == RpidLength(n)
           data == p \o l \o r
<1>1. /\ p \in Seq(Nat) /\ r \in Seq(Nat) /\ Len(p) = PointSize /\ n \in Nat
      /\ n < LengthGroup * LengthGroup /\ PointSize \in Nat /\ LengthGroup \in Nat /\ LengthGroup > 0
  BY AuthorityAssumption
<1>2. keyData(k) = data
  BY DEF keyData
<1>3. /\ l \in Seq(Nat) /\ Len(l) \in {1, 2} /\ l[Len(l)] < LengthGroup
      /\ \A j \in 1..(Len(l) - 1) : ~(l[j] < LengthGroup)
  <2>1. CASE n < LengthGroup
    BY <1>1, <2>1 DEF RpidLength
  <2>2. CASE ~(n < LengthGroup)
    <3> DEFINE low == LengthGroup + (n % LengthGroup)
               high == n \div LengthGroup
    <3>1. n % LengthGroup \in Nat /\ high \in Nat /\ high < LengthGroup
      <4> HIDE DEF n, l
      <4>1. n \in Nat /\ LengthGroup \in Nat \ {0} /\ n < LengthGroup * LengthGroup
        BY <1>1
      <4>2. /\ n \div LengthGroup \in Nat /\ n % LengthGroup \in 0..(LengthGroup - 1)
            /\ n < LengthGroup * LengthGroup => n \div LengthGroup < LengthGroup
        BY <4>1, Division
      <4> QED BY <4>1, <4>2
    <3>2. l = <<low, high>>
      BY <2>2 DEF RpidLength
    <3>3. low \in Nat /\ ~(low < LengthGroup)
      <4> HIDE DEF n
      <4>1. \A x, y \in Nat : x + y \in Nat /\ ~(x + y < x)
        OBVIOUS
      <4> QED BY <1>1, <3>1, <4>1
    <3> HIDE DEF high
    <3> HIDE DEF low, l
    <3>4. l \in Seq(Nat) /\ Len(l) = 2 /\ l[1] = low /\ l[2] = high
      BY <3>1, <3>2, <3>3
    <3> QED BY <3>1, <3>3, <3>4
  <2> QED BY <2>1, <2>2
<1> HIDE DEF p, r, l, n
<1>4. /\ data \in Seq(Nat) /\ Len(data) = PointSize + Len(l) + n /\ Len(r) = n
      /\ \A j \in 1..PointSize : data[j] = p[j]
      /\ \A j \in 1..Len(l) : data[PointSize + j] = l[j]
      /\ \A j \in 1..n : data[PointSize + Len(l) + j] = r[j]
  <2> DEFINE pl == p \o l
  <2>1. /\ pl \in Seq(Nat) /\ Len(pl) = PointSize + Len(l) /\ Len(r) = n /\ Len(l) \in Nat
        /\ \A j \in 1..PointSize : pl[j] = p[j]
        /\ \A j \in 1..Len(l) : pl[PointSize + j] = l[j]
    <3>1. /\ pl \in Seq(Nat) /\ Len(pl) = Len(p) + Len(l) /\ Len(l) \in Nat
          /\ \A j \in 1..Len(p) : pl[j] = p[j]
          /\ \A j \in 1..Len(l) : pl[Len(p) + j] = l[j]
      <4>1. p \in Seq(Nat) /\ l \in Seq(Nat)
        BY <1>1, <1>3
      <4> QED BY <4>1, JoinedBytes DEF Bytes
    <3>2. Len(r) = n
      BY DEF n
    <3> HIDE DEF pl
    <3> QED BY <1>1, <3>1, <3>2
  <2> HIDE DEF pl
  <2>2. data = pl \o r
    BY DEF pl
  <2>3. data \in Seq(Nat) /\ Len(data) = PointSize + Len(l) + n
    <3> HIDE DEF data
    <3>1. data \in Seq(Nat) /\ Len(data) = Len(pl) + Len(r)
      <4>1. pl \in Seq(Nat) /\ r \in Seq(Nat)
        BY <1>1, <2>1
      <4> QED BY <2>2, <4>1, JoinedBytes DEF Bytes
    <3> QED BY <2>1, <3>1
  <2>4. /\ \A j \in 1..(PointSize + Len(l)) : data[j] = pl[j]
        /\ \A j \in 1..n : data[PointSize + Len(l) + j] = r[j]
    <3> HIDE DEF data
    <3>1. /\ \A j \in 1..Len(pl) : data[j] = pl[j]
          /\ \A j \in 1..Len(r) : data[Len(pl) + j] = r[j]
      <4>1. pl \in Seq(Nat) /\ r \in Seq(Nat)
        BY <1>1, <2>1
      <4> QED BY <2>2, <4>1, JoinedBytes DEF Bytes
    <3> QED BY <2>1, <3>1
  <2> HIDE DEF data
  <2>5. \A j \in 1..PointSize : data[j] = p[j]
    <3>1. \A j \in 1..PointSize : j \in 1..(PointSize + Len(l))
      BY <1>1, <2>1
    <3> QED BY <1>1, <1>3, <2>1, <2>4, <3>1
  <2>6. \A j \in 1..Len(l) : data[PointSize + j] = l[j]
    <3>1. \A j \in 1..Len(l) : PointSize + j \in 1..(PointSize + Len(l))
      BY <1>1, <2>1
    <3> QED BY <2>1, <2>4, <3>1
  <2> QED BY <2>1, <2>3, <2>4, <2>5, <2>6
<1> HIDE DEF data
<1>5. SubSeq(data, 1, Min({PointSize, Len(data)})) = p
  <2> DEFINE S == {PointSize, Len(data)}
  <2>1. S \in SUBSET Nat /\ S # {} /\ PointSize <= Len(data)
    BY <1>1, <1>3, <1>4
  <2> HIDE DEF S
  <2>2. Min(S) \in S /\ \A y \in S : Min(S) <= y
    BY <2>1, HasFirst
  <2>3. Min(S) = PointSize
    BY <1>1, <1>4, <2>1, <2>2 DEF S
  <2>4. SubSeq(data, 1, PointSize) \in Seq(Nat) /\ Len(SubSeq(data, 1, PointSize)) = PointSize
        /\ \A j \in 1..PointSize : SubSeq(data, 1, PointSize)[j] = p[j]
    <3> DEFINE t == SubSeq(data, 1, PointSize)
    <3>1. t \in Seq(Nat) /\ Len(t) = PointSize /\ \A j \in 1..PointSize : t[j] = data[j]
      BY <1>1, <1>4, <2>1, SubSeqProperties
    <3> HIDE DEF t
    <3>2. \A j \in 1..PointSize : data[j] = p[j]
      BY <1>4
    <3> QED BY <3>1, <3>2 DEF t
  <2>5. SubSeq(data, 1, PointSize) = p
    BY <1>1, <2>4, SeqEqual
  <2> QED BY <2>3, <2>5 DEF S
<1>6. readRpid(data) = r
  <2> DEFINE ends == {i \in (PointSize + 1)..Len(data) : data[i] < LengthGroup}
             e == PointSize + Len(l)
  <2>1. e \in Nat /\ e \in (PointSize + 1)..Len(data) /\ data[e] = l[Len(l)]
    <3>1. Len(l) \in Nat /\ Len(l) \in 1..Len(l)
      BY <1>3
    <3>2. data[PointSize + Len(l)] = l[Len(l)]
      BY <1>4, <3>1
    <3> QED BY <1>1, <1>3, <1>4, <3>1, <3>2
  <2>2. e \in ends
    BY <1>3, <2>1
  <2>3. \A i \in ends : e <= i
    <3> SUFFICES ASSUME NEW i \in ends, i < e PROVE FALSE
      BY <1>1, <1>4, <2>1
    <3>1. i \in Int /\ i >= PointSize + 1 /\ i < PointSize + Len(l) /\ data[i] < LengthGroup
      BY <1>1, <1>4
    <3> DEFINE j == i - PointSize
    <3>2. j \in 1..(Len(l) - 1) /\ j \in 1..Len(l) /\ i = PointSize + j
      BY <1>1, <1>3, <3>1
    <3> HIDE DEF j
    <3>3. data[PointSize + j] = l[j]
      BY <1>4, <3>2
    <3> QED BY <1>3, <3>1, <3>2, <3>3
  <2>4. ends \in SUBSET Nat
    BY <1>1, <1>4
  <2> HIDE DEF ends
  <2>5. Min(ends) \in ends /\ \A y \in ends : Min(ends) <= y
    BY <2>2, <2>4, HasFirst
  <2>6. Min(ends) = e
    <3> DEFINE m == Min(ends)
    <3>1. m \in Nat /\ e <= m /\ m <= e /\ e \in Nat
      BY <2>1, <2>2, <2>3, <2>4, <2>5
    <3> HIDE DEF m, e
    <3>2. m = e
      BY <3>1
    <3> QED BY <3>2 DEF m
  <2>7. readRpid(data) = SubSeq(data, e + 1, Len(data))
    BY <2>2, <2>6 DEF readRpid, ends
  <2> HIDE DEF e
  <2>8. e = PointSize + Len(l) /\ Len(data) = e + n
    BY <1>4 DEF e
  <2> DEFINE rest == SubSeq(data, e + 1, Len(data))
  <2>9. rest \in Seq(Nat) /\ Len(rest) = n /\ \A j \in 1..n : rest[j] = data[e + j]
    <3>1. e \in 0..Len(data) /\ Len(data) - e = n
      BY <1>1, <2>1, <2>8
    <3>2. /\ rest \in Seq(Nat) /\ Len(rest) = Len(data) - e
          /\ \A j \in 1..(Len(data) - e) : rest[j] = data[e + j]
      BY <1>4, <3>1, RestIs
    <3> HIDE DEF rest
    <3> QED BY <3>1, <3>2
  <2>10. \A j \in 1..n : rest[j] = r[j]
    BY <1>4, <2>8, <2>9
  <2> HIDE DEF rest
  <2>11. rest = r
    BY <1>1, <1>4, <2>9, <2>10, SeqEqual
  <2> QED BY <2>7, <2>11 DEF rest
<1> QED BY <1>2, <1>4, <1>5, <1>6 DEF p, r

\* The code's order of keys is the chain's.
LEMMA KeysCompared ==
    ASSUME NEW j \in AuthKeys, NEW k \in AuthKeys
    PROVE  compareKeys(j, k) < 0 <=> ChainBefore(j, k)
<1>1. /\ j \in [type: Nat, point: Seq(Nat), rpid: Seq(Nat)]
      /\ k \in [type: Nat, point: Seq(Nat), rpid: Seq(Nat)]
      /\ j.type # 2 => j.rpid = <<>>
      /\ k.type # 2 => k.rpid = <<>>
  BY AuthorityAssumption
<1>2. CASE j.type # k.type
  BY <1>1, <1>2 DEF compareKeys, ChainBefore
<1>3. CASE j.type = k.type /\ j.type = 2
  <2>1. compareKeys(j, k) = LET prefix == compareBytes(j.point, k.point)
                            IN  IF prefix # 0 THEN prefix ELSE compareBytes(j.rpid, k.rpid)
    BY <1>3, KeyReadBack DEF compareKeys, compareWebAuthn
  <2>2. /\ compareBytes(j.point, k.point) \in {-1, 0, 1}
        /\ compareBytes(j.point, k.point) = 0 <=> j.point = k.point
        /\ compareBytes(j.point, k.point) = -1 <=> Precedes(j.point, k.point)
        /\ compareBytes(j.rpid, k.rpid) \in {-1, 0, 1}
        /\ compareBytes(j.rpid, k.rpid) = -1 <=> Precedes(j.rpid, k.rpid)
    BY <1>1, BytesCompared
  <2>3. j.point = k.point => ~Precedes(j.point, k.point)
    BY <1>1, TextsOrdered
  <2> QED BY <1>1, <1>3, <2>1, <2>2, <2>3 DEF ChainBefore
<1>4. CASE j.type = k.type /\ j.type # 2
  <2>1. compareKeys(j, k) = compareBytes(j.point, k.point)
    BY <1>4 DEF compareKeys, keyData
  <2>2. /\ compareBytes(j.point, k.point) \in {-1, 0, 1}
        /\ compareBytes(j.point, k.point) = -1 <=> Precedes(j.point, k.point)
    BY <1>1, BytesCompared
  <2>3. ~Precedes(j.rpid, k.rpid)
    BY <1>1, <1>4, TextsOrdered
  <2> QED BY <1>1, <1>4, <2>1, <2>2, <2>3 DEF ChainBefore
<1> QED BY <1>2, <1>3, <1>4

\* The chain's order of keys is a strict and total one.
LEMMA KeysOrdered ==
    /\ \A j \in AuthKeys : ~ChainBefore(j, j)
    /\ \A i, j, k \in AuthKeys : ChainBefore(i, j) /\ ChainBefore(j, k) => ChainBefore(i, k)
    /\ \A j, k \in AuthKeys : j = k \/ ChainBefore(j, k) \/ ChainBefore(k, j)
<1>1. \A k \in AuthKeys : k \in [type: Nat, point: Seq(Nat), rpid: Seq(Nat)]
  BY AuthorityAssumption
<1>2. \A k \in AuthKeys : k.type \in Nat /\ k.point \in Seq(Nat) /\ k.rpid \in Seq(Nat)
  BY <1>1
<1>3. ASSUME NEW j \in AuthKeys PROVE ~ChainBefore(j, j)
  BY <1>2, TextsOrdered DEF ChainBefore
<1>4. ASSUME NEW i \in AuthKeys, NEW j \in AuthKeys, NEW k \in AuthKeys,
             ChainBefore(i, j), ChainBefore(j, k)
      PROVE  ChainBefore(i, k)
  <2>1. CASE i.type < j.type \/ j.type < k.type
    <3>1. i.type < k.type
      BY <1>2, <1>4, <2>1 DEF ChainBefore
    <3> QED BY <3>1 DEF ChainBefore
  <2>2. CASE i.type = j.type /\ j.type = k.type
    <3>1. /\ Precedes(i.point, j.point) \/ (i.point = j.point /\ Precedes(i.rpid, j.rpid))
          /\ Precedes(j.point, k.point) \/ (j.point = k.point /\ Precedes(j.rpid, k.rpid))
      BY <1>2, <1>4, <2>2 DEF ChainBefore
    <3>2. Precedes(i.point, k.point) \/ (i.point = k.point /\ Precedes(i.rpid, k.rpid))
      BY <1>2, <3>1, TextsOrdered
    <3> QED BY <2>2, <3>2 DEF ChainBefore
  <2> QED BY <1>2, <1>4, <2>1, <2>2 DEF ChainBefore
<1>5. ASSUME NEW j \in AuthKeys, NEW k \in AuthKeys, ~ChainBefore(j, k), ~ChainBefore(k, j)
      PROVE  j = k
  <2>1. j.type = k.type
    BY <1>2, <1>5 DEF ChainBefore
  <2>2. j.point = k.point
    BY <1>2, <1>5, <2>1, TextsOrdered DEF ChainBefore
  <2>3. j.rpid = k.rpid
    BY <1>2, <1>5, <2>1, <2>2, TextsOrdered DEF ChainBefore
  <2>4. j = [type |-> j.type, point |-> j.point, rpid |-> j.rpid]
        /\ k = [type |-> k.type, point |-> k.point, rpid |-> k.rpid]
    BY <1>1
  <2> QED BY <2>1, <2>2, <2>3, <2>4
<1> QED BY <1>3, <1>4, <1>5

-----------------------------------------------------------------------------
(* Authorities: sorting *)

\* How many places are before one.
Rank(I, before, i) == Cardinality({j \in I : <<j, i>> \in before})

\* The places in a strict and total order are counted from none to all but one.
LEMMA RanksAre ==
    ASSUME NEW I, IsFiniteSet(I), NEW before,
           \A i \in I : <<i, i>> \notin before,
           \A i, j, k \in I : <<i, j>> \in before /\ <<j, k>> \in before => <<i, k>> \in before,
           \A i, j \in I : i = j \/ <<i, j>> \in before \/ <<j, i>> \in before
    PROVE  /\ \A i, j \in I : <<i, j>> \in before <=> Rank(I, before, i) < Rank(I, before, j)
           /\ \A p \in 1..Cardinality(I) : \E i \in I : Rank(I, before, i) = p - 1
<1> DEFINE Ahead(i) == {j \in I : <<j, i>> \in before}
           n == Cardinality(I)
           rank == [i \in I |-> Rank(I, before, i)]
<1>1. n \in Nat
  BY FS_CardinalityType
<1>2. ASSUME NEW i \in I
      PROVE  Rank(I, before, i) \in 0..(n - 1)
  <2>1. IsFiniteSet(I \ {i}) /\ Cardinality(I \ {i}) = n - 1
    BY FS_RemoveElement
  <2>2. Ahead(i) \in SUBSET (I \ {i})
    OBVIOUS
  <2>3. IsFiniteSet(Ahead(i)) /\ Cardinality(Ahead(i)) <= n - 1
    <3> HIDE DEF Ahead, n
    <3> QED BY <2>1, <2>2, FS_Subset
  <2>4. Cardinality(Ahead(i)) \in Nat
    BY <2>3, FS_CardinalityType
  <2> QED BY <1>1, <2>3, <2>4 DEF Rank
<1>3. ASSUME NEW i \in I, NEW j \in I, <<i, j>> \in before
      PROVE  Rank(I, before, i) < Rank(I, before, j)
  <2>1. Ahead(i) \in SUBSET Ahead(j) /\ Ahead(i) # Ahead(j)
    <3>1. i \in Ahead(j) /\ i \notin Ahead(i)
      BY <1>3
    <3>2. Ahead(i) \in SUBSET Ahead(j)
      BY <1>3
    <3> QED BY <3>1, <3>2
  <2>2. Ahead(j) \in SUBSET I
    OBVIOUS
  <2>3. IsFiniteSet(Ahead(j))
    BY <2>2, FS_Subset
  <2>4. /\ Cardinality(Ahead(i)) <= Cardinality(Ahead(j))
        /\ Cardinality(Ahead(i)) # Cardinality(Ahead(j))
    <3> HIDE DEF Ahead
    <3> QED BY <2>1, <2>3, FS_Subset
  <2>5. Cardinality(Ahead(i)) = Rank(I, before, i) /\ Cardinality(Ahead(j)) = Rank(I, before, j)
    BY DEF Rank
  <2> HIDE DEF Ahead
  <2> QED BY <1>1, <1>2, <2>4, <2>5
<1>4. ASSUME NEW i \in I, NEW j \in I, Rank(I, before, i) < Rank(I, before, j)
      PROVE  <<i, j>> \in before
  <2>1. i # j
    BY <1>1, <1>2, <1>4
  <2>2. <<j, i>> \notin before
    BY <1>1, <1>2, <1>3, <1>4
  <2> QED BY <2>1, <2>2
<1>5. rank \in Surjection(I, 0..(n - 1))
  <2>1. rank \in [I -> 0..(n - 1)]
    BY <1>2
  <2>2. \A i, j \in I : rank[i] = rank[j] => i = j
    <3> SUFFICES ASSUME NEW i \in I, NEW j \in I, rank[i] = rank[j], i # j PROVE FALSE
      OBVIOUS
    <3>1. rank[i] = Rank(I, before, i) /\ rank[j] = Rank(I, before, j)
      OBVIOUS
    <3>2. <<i, j>> \in before \/ <<j, i>> \in before
      OBVIOUS
    <3> QED BY <1>1, <1>2, <1>3, <3>1, <3>2
  <2> HIDE DEF rank
  <2>3. rank \in Injection(I, 0..(n - 1))
    BY <2>1, <2>2 DEF Injection, IsInjective
  <2>4. IsFiniteSet(0..(n - 1)) /\ Cardinality(0..(n - 1)) = n
    <3>1. /\ IsFiniteSet(0..(n - 1))
          /\ Cardinality(0..(n - 1)) = IF 0 > n - 1 THEN 0 ELSE (n - 1) - 0 + 1
      BY <1>1, FS_Interval
    <3> QED BY <1>1, <3>1
  <2> QED BY <2>3, <2>4, FS_Injection
<1>6. ASSUME NEW p \in 1..n PROVE \E i \in I : Rank(I, before, i) = p - 1
  <2>1. p - 1 \in 0..(n - 1)
    BY <1>1
  <2>2. PICK i \in I : rank[i] = p - 1
    BY <1>5, <2>1 DEF Surjection
  <2> QED BY <2>2
<1> HIDE DEF n
<1>7. \A i, j \in I : <<i, j>> \in before <=> Rank(I, before, i) < Rank(I, before, j)
  BY <1>3, <1>4
<1>8. \A p \in 1..n : \E i \in I : Rank(I, before, i) = p - 1
  BY <1>6
<1> QED BY <1>7, <1>8 DEF n

\* A list of the entries at the places of I, each place before the next.
InOrder(S, s, I, before, t) ==
    /\ t \in Seq(S)
    /\ \E place \in [1..Len(t) -> I] :
          /\ \A p \in 1..Len(t) : t[p] = s[place[p]]
          /\ \A p, q \in 1..Len(t) : p < q => <<place[p], place[q]>> \in before

\* Arranged puts the entries of the places in their order.
LEMMA ArrangedIs ==
    ASSUME NEW S, NEW s \in Seq(S), NEW I \in SUBSET DOMAIN s, NEW before,
           \A i \in I : <<i, i>> \notin before,
           \A i, j, k \in I : <<i, j>> \in before /\ <<j, k>> \in before => <<i, k>> \in before,
           \A i, j \in I : i = j \/ <<i, j>> \in before \/ <<j, i>> \in before
    PROVE  InOrder(S, s, I, before, Arranged(s, I, before))
<1> DEFINE n == Cardinality(I)
           t == Arranged(s, I, before)
           place == [p \in 1..n |-> CHOOSE i \in I : Rank(I, before, i) = p - 1]
<1>1. IsFiniteSet(I) /\ n \in Nat
  <2>1. IsFiniteSet(1..Len(s)) /\ I \in SUBSET (1..Len(s))
    BY FS_Interval
  <2> QED BY <2>1, FS_Subset, FS_CardinalityType
<1>2. /\ \A i, j \in I : <<i, j>> \in before <=> Rank(I, before, i) < Rank(I, before, j)
      /\ \A p \in 1..n : \E i \in I : Rank(I, before, i) = p - 1
  BY <1>1, RanksAre
<1>3. \A p \in 1..n : place[p] \in I /\ Rank(I, before, place[p]) = p - 1
  BY <1>2
<1>4. t = [p \in 1..n |-> s[place[p]]]
  BY DEF Arranged, Rank
<1> HIDE DEF place, t
<1>5. t \in Seq(S) /\ Len(t) = n
  <2>1. \A p \in 1..n : s[place[p]] \in S
    BY <1>3
  <2> QED BY <1>1, <1>4, <2>1
<1>6. place \in [1..n -> I]
  <2>1. place = [p \in 1..n |-> place[p]]
    BY DEF place
  <2> QED BY <1>3, <2>1
<1>7. \A p \in 1..n : t[p] = s[place[p]]
  BY <1>4
<1>8. \A p, q \in 1..n : p < q => <<place[p], place[q]>> \in before
  <2> SUFFICES ASSUME NEW p \in 1..n, NEW q \in 1..n, p < q PROVE <<place[p], place[q]>> \in before
    OBVIOUS
  <2>1. Rank(I, before, place[p]) < Rank(I, before, place[q])
    BY <1>1, <1>3
  <2> QED BY <1>2, <1>3, <2>1
<1> QED BY <1>5, <1>6, <1>7, <1>8 DEF InOrder, t

\* Where a stable sort puts one place before another: what is less, then what was first.
PlacesBefore(s, less) ==
    {ji \in (DOMAIN s) \X (DOMAIN s) :
        \/ <<s[ji[1]], s[ji[2]]>> \in less
        \/ <<s[ji[2]], s[ji[1]]>> \notin less /\ ji[1] < ji[2]}

\* A list sorted by an order in which what is not comparable is alike.
LEMMA SortedIs ==
    ASSUME NEW S, NEW s \in Seq(S), NEW less,
           \A x \in S : <<x, x>> \notin less,
           \A x, y, z \in S : <<x, y>> \in less /\ <<y, z>> \in less => <<x, z>> \in less,
           \A x, y, z \in S : <<x, z>> \in less => <<x, y>> \in less \/ <<y, z>> \in less
    PROVE  LET t == Arranged(s, DOMAIN s, PlacesBefore(s, less))
           IN  /\ t \in Seq(S)
               /\ \E place \in [1..Len(t) -> DOMAIN s] :
                    /\ \A p \in 1..Len(t) : t[p] = s[place[p]]
                    /\ \A p, q \in 1..Len(t) :
                          p < q => place[p] # place[q] /\ <<t[q], t[p]>> \notin less
<1> DEFINE I == DOMAIN s
           before == PlacesBefore(s, less)
           t == Arranged(s, I, before)
<1>1. (\A i \in I : s[i] \in S) /\ I \in SUBSET Int
  OBVIOUS
<1>2. \A j, i \in I : <<j, i>> \in before <=> \/ <<s[j], s[i]>> \in less
                                              \/ <<s[i], s[j]>> \notin less /\ j < i
  BY DEF PlacesBefore
<1>9. \A x, y \in S : <<x, y>> \in less => <<y, x>> \notin less
  OBVIOUS
<1> HIDE DEF before
<1>3. \A i \in I : <<i, i>> \notin before
  <2> SUFFICES ASSUME NEW i \in I PROVE <<i, i>> \notin before
    OBVIOUS
  <2>1. s[i] \in S /\ i \in Int
    BY <1>1
  <2>2. <<i, i>> \in before <=> <<s[i], s[i]>> \in less \/ (<<s[i], s[i]>> \notin less /\ i < i)
    BY <1>2
  <2> QED BY <2>1, <2>2
<1>4. \A i, j, k \in I : <<i, j>> \in before /\ <<j, k>> \in before => <<i, k>> \in before
  <2> SUFFICES ASSUME NEW i \in I, NEW j \in I, NEW k \in I,
                      <<i, j>> \in before, <<j, k>> \in before
               PROVE  <<i, k>> \in before
    OBVIOUS
  <2>1. s[i] \in S /\ s[j] \in S /\ s[k] \in S /\ i \in Int /\ j \in Int /\ k \in Int
    BY <1>1
  <2>2. /\ <<s[i], s[j]>> \in less \/ (<<s[j], s[i]>> \notin less /\ i < j)
        /\ <<s[j], s[k]>> \in less \/ (<<s[k], s[j]>> \notin less /\ j < k)
    BY <1>2
  <2>3. <<i, k>> \in before <=> <<s[i], s[k]>> \in less \/ (<<s[k], s[i]>> \notin less /\ i < k)
    BY <1>2
  <2>4. CASE <<s[i], s[j]>> \in less /\ <<s[j], s[k]>> \in less
    BY <2>1, <2>3, <2>4
  <2>5. CASE <<s[i], s[j]>> \in less /\ <<s[k], s[j]>> \notin less
    <3>1. <<s[i], s[k]>> \in less \/ <<s[k], s[j]>> \in less
      BY <2>1, <2>5
    <3> QED BY <2>3, <2>5, <3>1
  <2>6. CASE <<s[j], s[i]>> \notin less /\ <<s[j], s[k]>> \in less
    <3>1. <<s[j], s[i]>> \in less \/ <<s[i], s[k]>> \in less
      BY <2>1, <2>6
    <3> QED BY <2>3, <2>6, <3>1
  <2>7. CASE <<s[j], s[i]>> \notin less /\ <<s[k], s[j]>> \notin less /\ i < j /\ j < k
    <3>1. <<s[k], s[i]>> \in less => <<s[k], s[j]>> \in less \/ <<s[j], s[i]>> \in less
      BY <2>1
    <3>2. i < k
      BY <2>1, <2>7
    <3> QED BY <2>3, <2>7, <3>1, <3>2
  <2> QED BY <1>9, <2>1, <2>2, <2>4, <2>5, <2>6, <2>7
<1>5. \A i, j \in I : i = j \/ <<i, j>> \in before \/ <<j, i>> \in before
  <2> SUFFICES ASSUME NEW i \in I, NEW j \in I PROVE i = j \/ <<i, j>> \in before \/ <<j, i>> \in before
    OBVIOUS
  <2>1. i \in Int /\ j \in Int /\ s[i] \in S /\ s[j] \in S
    BY <1>1
  <2>2. /\ <<i, j>> \in before <=> <<s[i], s[j]>> \in less \/ (<<s[j], s[i]>> \notin less /\ i < j)
        /\ <<j, i>> \in before <=> <<s[j], s[i]>> \in less \/ (<<s[i], s[j]>> \notin less /\ j < i)
    BY <1>2
  <2>3. i = j \/ i < j \/ j < i
    BY <2>1
  <2> QED BY <1>9, <2>2, <2>3
<1>6. /\ t \in Seq(S)
      /\ \E place \in [1..Len(t) -> I] :
            /\ \A p \in 1..Len(t) : t[p] = s[place[p]]
            /\ \A p, q \in 1..Len(t) : p < q => <<place[p], place[q]>> \in before
  <2> HIDE DEF I
  <2>1. I \in SUBSET DOMAIN s
    BY DEF I
  <2>2. InOrder(S, s, I, before, Arranged(s, I, before))
    BY <1>3, <1>4, <1>5, <2>1, ArrangedIs
  <2> HIDE DEF t
  <2> QED BY <2>2 DEF InOrder, t
<1>7. PICK place \in [1..Len(t) -> I] :
            /\ \A p \in 1..Len(t) : t[p] = s[place[p]]
            /\ \A p, q \in 1..Len(t) : p < q => <<place[p], place[q]>> \in before
  BY <1>6
<1> HIDE DEF t
<1>8. \A p, q \in 1..Len(t) : p < q => place[p] # place[q] /\ <<t[q], t[p]>> \notin less
  <2> SUFFICES ASSUME NEW p \in 1..Len(t), NEW q \in 1..Len(t), p < q
               PROVE  place[p] # place[q] /\ <<t[q], t[p]>> \notin less
    OBVIOUS
  <2>1. place[p] \in I /\ place[q] \in I /\ <<place[p], place[q]>> \in before
        /\ t[p] = s[place[p]] /\ t[q] = s[place[q]]
    BY <1>7
  <2> QED BY <1>1, <1>2, <1>3, <1>9, <2>1
<1> QED BY <1>6, <1>7, <1>8 DEF t, before

-----------------------------------------------------------------------------
(* Authorities: the waits' weight *)

\* What FoldLeft's function on the sets of places of a list of waits is.
SumsOf(s, D, f) == f = [I \in SUBSET D |-> IF I = {} THEN 0 ELSE f[I \ {Max(I)}] + s[Max(I)][2]]

\* There is such a function.
LEMMA SumsExist ==
    ASSUME NEW s, NEW n \in Nat
    PROVE  \E f : SumsOf(s, 1..n, f)
<1> DEFINE Missing == {m \in Nat : ~\E f : SumsOf(s, 1..m, f)}
           m == Min(Missing)
<1> SUFFICES ASSUME n \in Missing PROVE FALSE
  OBVIOUS
<1>1. m \in Missing /\ \A k \in Missing : m <= k
  <2>1. Missing \in SUBSET Nat /\ Missing # {}
    OBVIOUS
  <2> HIDE DEF Missing
  <2> QED BY <2>1, HasFirst
<1> HIDE DEF m
<1>2. m # 0
  <2> SUFFICES \E f : SumsOf(s, 1..0, f)
    BY <1>1
  <2>1. SumsOf(s, 1..0, [I \in SUBSET (1..0) |-> 0])
    <3>1. \A I \in SUBSET (1..0) : I = {}
      OBVIOUS
    <3>2. [I \in SUBSET (1..0) |-> 0] = [I \in SUBSET (1..0) |->
             IF I = {} THEN 0 ELSE [J \in SUBSET (1..0) |-> 0][I \ {Max(I)}] + s[Max(I)][2]]
      BY <3>1
    <3> QED BY <3>2 DEF SumsOf
  <2> QED BY <2>1
<1>3. m - 1 \in Nat /\ m \in Nat /\ m - 1 \notin Missing
  BY <1>1, <1>2
<1>4. PICK f : SumsOf(s, 1..(m - 1), f)
  BY <1>3
<1> DEFINE g == [I \in SUBSET (1..m) |-> IF m \in I THEN f[I \ {m}] + s[m][2] ELSE f[I]]
           G(I) == IF I = {} THEN 0 ELSE g[I \ {Max(I)}] + s[Max(I)][2]
<1>5. ASSUME NEW I \in SUBSET (1..m) PROVE g[I] = G(I)
  <2>1. CASE m \in I
    <3>1. Max(I) = m
      <4>1. \A y \in I : y \in Nat /\ m >= y
        BY <1>3
      <4>2. \A x \in I : (\A y \in I : x >= y) => x = m
        BY <1>3, <2>1, <4>1
      <4> QED BY <2>1, <4>1, <4>2 DEF Max
    <3>2. I \ {m} \in SUBSET (1..m) /\ g[I \ {m}] = f[I \ {m}] /\ I # {}
      BY <2>1
    <3> QED BY <2>1, <3>1, <3>2
  <2>2. CASE m \notin I
    <3>1. I \in SUBSET (1..(m - 1))
      BY <1>3, <2>2
    <3>2. f[I] = IF I = {} THEN 0 ELSE f[I \ {Max(I)}] + s[Max(I)][2]
      BY <1>4, <3>1 DEF SumsOf
    <3>3. I \ {Max(I)} \in SUBSET (1..m) /\ m \notin I \ {Max(I)}
      BY <2>2
    <3>4. g[I \ {Max(I)}] = f[I \ {Max(I)}] /\ g[I] = f[I]
      BY <2>2, <3>3
    <3> QED BY <3>2, <3>4
  <2> QED BY <2>1, <2>2
<1>6. SumsOf(s, 1..m, g)
  <2>1. g = [I \in SUBSET (1..m) |-> g[I]]
    OBVIOUS
  <2> HIDE DEF g
  <2>2. g = [I \in SUBSET (1..m) |-> G(I)]
    BY <1>5, <2>1
  <2> QED BY <2>2 DEF SumsOf
<1> QED BY <1>1, <1>6

\* The waits of an authority count to a number of 32 bits.
LEMMA WaitsCount ==
    ASSUME NEW a, a.waits \in Seq(Nat \X Nat)
    PROVE  waitThreshold(a) \in 0..(ThresholdWord - 1)
<1> DEFINE s == a.waits
           n == Len(s)
           f == CHOOSE h : SumsOf(s, DOMAIN s, h)
           fold == FoldLeft(LAMBDA k, w : k + w[2], 0, s)
<1>1. fold = f[DOMAIN s]
  BY DEF FoldLeft, MapThenFoldSet, SumsOf
<1>2. n \in Nat /\ DOMAIN s = 1..n /\ \A i \in 1..n : s[i][2] \in Nat
  OBVIOUS
<1>3. SumsOf(s, 1..n, f)
  BY <1>2, SumsExist
<1> HIDE DEF f
<1> DEFINE Odd == {k \in Nat : k <= n /\ f[1..k] \notin Nat}
           m == Min(Odd)
<1>4. Odd = {}
  <2> SUFFICES ASSUME Odd # {} PROVE FALSE
    OBVIOUS
  <2>1. m \in Odd /\ \A k \in Odd : m <= k
    <3>1. Odd \in SUBSET Nat
      OBVIOUS
    <3> HIDE DEF Odd
    <3> QED BY <3>1, HasFirst
  <2> HIDE DEF m, n, s
  <2>2. m \in Nat /\ m <= n /\ f[1..m] \notin Nat
    BY <2>1
  <2>3. f[1..m] = IF 1..m = {} THEN 0 ELSE f[(1..m) \ {Max(1..m)}] + s[Max(1..m)][2]
    <3>1. 1..m \in SUBSET (1..n)
      BY <1>2, <2>2
    <3> QED BY <1>3, <3>1 DEF SumsOf
  <2>4. m # 0
    BY <2>2, <2>3
  <2>5. Max(1..m) = m /\ (1..m) \ {m} = 1..(m - 1) /\ 1..m # {}
    <3>1. m \in 1..m /\ (1..m) \ {m} = 1..(m - 1)
      BY <2>2, <2>4
    <3>2. /\ \A y \in 1..m : m >= y
          /\ \A x \in 1..m : (\A y \in 1..m : x >= y) => x = m
      BY <2>2, <3>1
    <3>3. Max(1..m) = m
      BY <3>1, <3>2 DEF Max
    <3> QED BY <3>1, <3>3
  <2>6. f[1..(m - 1)] \in Nat
    BY <1>2, <2>1, <2>2, <2>4
  <2>7. s[m][2] \in Nat
    BY <1>2, <2>2, <2>4
  <2>8. f[1..m] = f[1..(m - 1)] + s[m][2]
    BY <2>3, <2>5
  <2> QED BY <2>2, <2>6, <2>7, <2>8
<1>5. fold \in Nat
  <2> HIDE DEF fold, n, s
  <2> QED BY <1>1, <1>2, <1>4
<1>6. waitThreshold(a) = fold % ThresholdWord
  BY DEF waitThreshold
<1> HIDE DEF fold
<1> QED BY <1>5, <1>6, AuthorityAssumption

-----------------------------------------------------------------------------
(* Authorities: lists of entries *)

KeyEntries == [key: AuthKeys, weight: Nat]
AccountEntries == [permission: Seq(Nat), weight: Nat]

\* No key and no account is in an authority twice.
Distinct(a) ==
    /\ \A i, j \in 1..Len(a.keys) : i # j => a.keys[i].key # a.keys[j].key
    /\ \A i, j \in 1..Len(a.accounts) : i # j => a.accounts[i].permission # a.accounts[j].permission

\* The keys and accounts in the chain's strict order, the waits by their seconds.
KeysSorted(s) == \A i, j \in 1..Len(s) : i < j => ChainBefore(s[i].key, s[j].key)
AccountsSorted(s) == \A i, j \in 1..Len(s) : i < j => Precedes(s[i].permission, s[j].permission)
WaitsSorted(s) == \A i, j \in 1..Len(s) : i < j => s[i][1] <= s[j][1]
Sorted(a) == KeysSorted(a.keys) /\ AccountsSorted(a.accounts) /\ WaitsSorted(a.waits)

\* A list left of another: its entries in the same order.
LeftOf(S, s, t) ==
    /\ t \in Seq(S)
    /\ \E place \in [1..Len(t) -> 1..Len(s)] :
          /\ \A p \in 1..Len(t) : t[p] = s[place[p]]
          /\ \A p, q \in 1..Len(t) : p < q => place[p] < place[q]

\* What is left of a sorted list is sorted.
LEMMA LeftSorted ==
    ASSUME NEW S, NEW s \in Seq(S), NEW t, LeftOf(S, s, t)
    PROVE  /\ KeysSorted(s) => KeysSorted(t)
           /\ AccountsSorted(s) => AccountsSorted(t)
           /\ WaitsSorted(s) => WaitsSorted(t)
<1>1. PICK place \in [1..Len(t) -> 1..Len(s)] :
            /\ \A p \in 1..Len(t) : t[p] = s[place[p]]
            /\ \A p, q \in 1..Len(t) : p < q => place[p] < place[q]
  BY DEF LeftOf
<1>2. \A p \in 1..Len(t) : place[p] \in 1..Len(s)
  OBVIOUS
<1>3. KeysSorted(s) => KeysSorted(t)
  BY <1>1, <1>2 DEF KeysSorted
<1>4. AccountsSorted(s) => AccountsSorted(t)
  BY <1>1, <1>2 DEF AccountsSorted
<1>5. WaitsSorted(s) => WaitsSorted(t)
  BY <1>1, <1>2 DEF WaitsSorted
<1> QED BY <1>3, <1>4, <1>5

\* Taking an entry away leaves the others in their order.
LEMMA RemoveAtLeft ==
    ASSUME NEW S, NEW s \in Seq(S), NEW i \in 1..Len(s)
    PROVE  LeftOf(S, s, RemoveAt(s, i))
<1> DEFINE n == Len(s)
           t == RemoveAt(s, i)
           a == SubSeq(s, 1, i - 1)
           b == SubSeq(s, i + 1, n)
           place == [p \in 1..(n - 1) |-> IF p < i THEN p ELSE p + 1]
<1>1. n \in Nat /\ i \in Nat /\ 1 <= i /\ i <= n
  OBVIOUS
<1>2. a \in Seq(S) /\ Len(a) = i - 1 /\ \A p \in 1..(i - 1) : a[p] = s[p]
  BY <1>1
<1>3. b \in Seq(S) /\ Len(b) = n - i /\ \A p \in 1..(n - i) : b[p] = s[i + p]
  BY <1>1
<1>4. t = a \o b
  BY DEF RemoveAt
<1> HIDE DEF a, b, t
<1>5. t \in Seq(S) /\ Len(t) = n - 1
  <2>1. a \o b \in Seq(S) /\ Len(a \o b) = Len(a) + Len(b)
    <3>1. a \in Seq(S) /\ b \in Seq(S)
      BY <1>2, <1>3
    <3> QED BY <3>1, ConcatProperties
  <2>2. (i - 1) + (n - i) = n - 1
    BY <1>1
  <2> QED BY <1>2, <1>3, <1>4, <2>1, <2>2
<1>6. \A p \in 1..(n - 1) : t[p] = IF p < i THEN s[p] ELSE s[p + 1]
  <2> SUFFICES ASSUME NEW p \in 1..(n - 1) PROVE t[p] = IF p < i THEN s[p] ELSE s[p + 1]
    OBVIOUS
  <2>1. t[p] = IF p <= i - 1 THEN a[p] ELSE b[p - (i - 1)]
    BY <1>1, <1>2, <1>3, <1>4
  <2>2. CASE p < i
    BY <1>1, <1>2, <2>1, <2>2
  <2>3. CASE ~(p < i)
    <3>1. p - (i - 1) \in 1..(n - i) /\ i + (p - (i - 1)) = p + 1 /\ ~(p <= i - 1)
      BY <1>1, <2>3
    <3>2. b[p - (i - 1)] = s[i + (p - (i - 1))]
      BY <1>3, <3>1
    <3> QED BY <2>1, <2>3, <3>1, <3>2
  <2> QED BY <2>2, <2>3
<1>7. place \in [1..(n - 1) -> 1..n]
  BY <1>1
<1>8. \A p \in 1..(n - 1) : t[p] = s[place[p]]
  BY <1>6
<1>9. \A p, q \in 1..(n - 1) : p < q => place[p] < place[q]
  BY <1>1
<1> HIDE DEF place
<1> QED BY <1>5, <1>7, <1>8, <1>9 DEF LeftOf, t

\* Keeping the entries of some places keeps their order.
LEMMA KeptLeft ==
    ASSUME NEW S, NEW s \in Seq(S), NEW I \in SUBSET DOMAIN s
    PROVE  LeftOf(S, s, Arranged(s, I, {ji \in (DOMAIN s) \X (DOMAIN s) : ji[1] < ji[2]}))
<1> DEFINE before == {ji \in (DOMAIN s) \X (DOMAIN s) : ji[1] < ji[2]}
           t == Arranged(s, I, before)
<1>1. \A i, j \in I : i \in Int /\ j \in Int /\ (<<i, j>> \in before <=> i < j)
  OBVIOUS
<1> HIDE DEF before
<1>2. /\ \A i \in I : <<i, i>> \notin before
      /\ \A i, j, k \in I : <<i, j>> \in before /\ <<j, k>> \in before => <<i, k>> \in before
      /\ \A i, j \in I : i = j \/ <<i, j>> \in before \/ <<j, i>> \in before
  <2>1. \A i \in I : <<i, i>> \notin before
    BY <1>1
  <2>2. ASSUME NEW i \in I, NEW j \in I, NEW k \in I, <<i, j>> \in before, <<j, k>> \in before
        PROVE  <<i, k>> \in before
    BY <1>1, <2>2
  <2>3. ASSUME NEW i \in I, NEW j \in I PROVE i = j \/ <<i, j>> \in before \/ <<j, i>> \in before
    BY <1>1
  <2> QED BY <2>1, <2>2, <2>3
<1>3. t \in Seq(S) /\ \E place \in [1..Len(t) -> I] :
            /\ \A p \in 1..Len(t) : t[p] = s[place[p]]
            /\ \A p, q \in 1..Len(t) : p < q => <<place[p], place[q]>> \in before
  <2>1. InOrder(S, s, I, before, Arranged(s, I, before))
    BY <1>2, ArrangedIs
  <2> HIDE DEF t
  <2> QED BY <2>1 DEF InOrder, t
<1> HIDE DEF t
<1>4. PICK place \in [1..Len(t) -> I] :
            /\ \A p \in 1..Len(t) : t[p] = s[place[p]]
            /\ \A p, q \in 1..Len(t) : p < q => <<place[p], place[q]>> \in before
  BY <1>3
<1>5. place \in [1..Len(t) -> 1..Len(s)]
  OBVIOUS
<1>6. \A p, q \in 1..Len(t) : p < q => place[p] < place[q]
  BY <1>1, <1>4
<1> QED BY <1>3, <1>4, <1>5, <1>6 DEF LeftOf, t, before

-----------------------------------------------------------------------------
(* Authorities: sort *)

\* Keys without repetition are sorted into the chain's order.
LEMMA KeysAreSorted ==
    ASSUME NEW s \in Seq(KeyEntries),
           \A i, j \in 1..Len(s) : i # j => s[i].key # s[j].key
    PROVE  LET t == stable_sort(s, LAMBDA x, y : compareKeys(x.key, y.key) < 0)
           IN  t \in Seq(KeyEntries) /\ KeysSorted(t)
<1> DEFINE less == {xy \in KeyEntries \X KeyEntries : ChainBefore(xy[1].key, xy[2].key)}
           t == Arranged(s, DOMAIN s, PlacesBefore(s, less))
<1>1. \A x \in KeyEntries : x.key \in AuthKeys
  BY DEF KeyEntries
<1>2. \A x, y \in KeyEntries : <<x, y>> \in less <=> ChainBefore(x.key, y.key)
  OBVIOUS
<1>3. \A x, y \in KeyEntries : <<x, y>> \in less <=> compareKeys(x.key, y.key) < 0
  BY <1>1, <1>2, KeysCompared
<1>4. stable_sort(s, LAMBDA x, y : compareKeys(x.key, y.key) < 0) = t
  <2>1. PlacesBefore(s, less) = {ji \in (DOMAIN s) \X (DOMAIN s) :
                    \/ compareKeys(s[ji[1]].key, s[ji[2]].key) < 0
                    \/ ~(compareKeys(s[ji[2]].key, s[ji[1]].key) < 0) /\ ji[1] < ji[2]}
    <3>1. \A ji \in (DOMAIN s) \X (DOMAIN s) : s[ji[1]] \in KeyEntries /\ s[ji[2]] \in KeyEntries
      OBVIOUS
    <3> HIDE DEF less
    <3> QED BY <1>3, <3>1 DEF PlacesBefore
  <2> QED BY <2>1 DEF stable_sort
<1> HIDE DEF less
<1>5. /\ \A x \in KeyEntries : <<x, x>> \notin less
      /\ \A x, y, z \in KeyEntries : <<x, y>> \in less /\ <<y, z>> \in less => <<x, z>> \in less
      /\ \A x, y, z \in KeyEntries : <<x, z>> \in less => <<x, y>> \in less \/ <<y, z>> \in less
  <2>1. \A x \in KeyEntries : <<x, x>> \notin less
    BY <1>1, <1>2, KeysOrdered
  <2>2. \A x, y, z \in KeyEntries : <<x, y>> \in less /\ <<y, z>> \in less => <<x, z>> \in less
    BY <1>1, <1>2, KeysOrdered
  <2>3. ASSUME NEW x \in KeyEntries, NEW y \in KeyEntries, NEW z \in KeyEntries, <<x, z>> \in less
        PROVE  <<x, y>> \in less \/ <<y, z>> \in less
    <3>1. ChainBefore(x.key, z.key) /\ x.key \in AuthKeys /\ y.key \in AuthKeys /\ z.key \in AuthKeys
      BY <1>1, <1>2, <2>3
    <3>2. ChainBefore(x.key, y.key) \/ ChainBefore(y.key, z.key)
      <4>1. x.key = y.key \/ ChainBefore(x.key, y.key) \/ ChainBefore(y.key, x.key)
        BY <3>1, KeysOrdered
      <4>2. CASE x.key = y.key
        BY <3>1, <4>2
      <4>3. CASE ChainBefore(y.key, x.key)
        BY <3>1, <4>3, KeysOrdered
      <4> QED BY <4>1, <4>2, <4>3
    <3> QED BY <1>2, <3>2
  <2> QED BY <2>1, <2>2, <2>3
<1>6. /\ t \in Seq(KeyEntries)
      /\ \E place \in [1..Len(t) -> DOMAIN s] :
            /\ \A p \in 1..Len(t) : t[p] = s[place[p]]
            /\ \A p, q \in 1..Len(t) : p < q => place[p] # place[q] /\ <<t[q], t[p]>> \notin less
  BY <1>5, SortedIs
<1> HIDE DEF t
<1>7. KeysSorted(t)
  <2>1. PICK place \in [1..Len(t) -> DOMAIN s] :
            /\ \A p \in 1..Len(t) : t[p] = s[place[p]]
            /\ \A p, q \in 1..Len(t) : p < q => place[p] # place[q] /\ <<t[q], t[p]>> \notin less
    BY <1>6
  <2> SUFFICES ASSUME NEW p \in 1..Len(t), NEW q \in 1..Len(t), p < q
               PROVE  ChainBefore(t[p].key, t[q].key)
    BY DEF KeysSorted
  <2>2. t[p] \in KeyEntries /\ t[q] \in KeyEntries /\ t[p] = s[place[p]] /\ t[q] = s[place[q]]
        /\ place[p] \in 1..Len(s) /\ place[q] \in 1..Len(s)
    BY <1>6, <2>1
  <2>3. place[p] # place[q] /\ <<t[q], t[p]>> \notin less
    BY <2>1
  <2>4. t[p].key # t[q].key
    BY <2>2, <2>3
  <2>5. ~ChainBefore(t[q].key, t[p].key)
    BY <1>2, <2>2, <2>3
  <2> QED BY <1>1, <2>2, <2>4, <2>5, KeysOrdered
<1> QED BY <1>4, <1>6, <1>7

\* Accounts without repetition are sorted by their names.
LEMMA AccountsAreSorted ==
    ASSUME NEW s \in Seq(AccountEntries),
           \A i, j \in 1..Len(s) : i # j => s[i].permission # s[j].permission
    PROVE  LET t == stable_sort(s, LAMBDA x, y : compareBytes(x.permission, y.permission) < 0)
           IN  t \in Seq(AccountEntries) /\ AccountsSorted(t)
<1> DEFINE less == {xy \in AccountEntries \X AccountEntries : Precedes(xy[1].permission, xy[2].permission)}
           t == Arranged(s, DOMAIN s, PlacesBefore(s, less))
<1>1. \A x \in AccountEntries : x.permission \in Seq(Nat)
  BY DEF AccountEntries
<1>2. \A x, y \in AccountEntries : <<x, y>> \in less <=> Precedes(x.permission, y.permission)
  OBVIOUS
<1>3. \A x, y \in AccountEntries : <<x, y>> \in less <=> compareBytes(x.permission, y.permission) < 0
  <2> SUFFICES ASSUME NEW x \in AccountEntries, NEW y \in AccountEntries
               PROVE  Precedes(x.permission, y.permission) <=> compareBytes(x.permission, y.permission) < 0
    BY <1>2
  <2> QED BY <1>1, BytesCompared
<1>4. stable_sort(s, LAMBDA x, y : compareBytes(x.permission, y.permission) < 0) = t
  <2>1. PlacesBefore(s, less) = {ji \in (DOMAIN s) \X (DOMAIN s) :
                    \/ compareBytes(s[ji[1]].permission, s[ji[2]].permission) < 0
                    \/ ~(compareBytes(s[ji[2]].permission, s[ji[1]].permission) < 0) /\ ji[1] < ji[2]}
    <3>1. \A ji \in (DOMAIN s) \X (DOMAIN s) : s[ji[1]] \in AccountEntries /\ s[ji[2]] \in AccountEntries
      OBVIOUS
    <3> HIDE DEF less
    <3> QED BY <1>3, <3>1 DEF PlacesBefore
  <2> QED BY <2>1 DEF stable_sort
<1> HIDE DEF less
<1>5. /\ \A x \in AccountEntries : <<x, x>> \notin less
      /\ \A x, y, z \in AccountEntries : <<x, y>> \in less /\ <<y, z>> \in less => <<x, z>> \in less
      /\ \A x, y, z \in AccountEntries : <<x, z>> \in less => <<x, y>> \in less \/ <<y, z>> \in less
  <2>1. \A x \in AccountEntries : <<x, x>> \notin less
    BY <1>1, <1>2, TextsOrdered
  <2>2. \A x, y, z \in AccountEntries : <<x, y>> \in less /\ <<y, z>> \in less => <<x, z>> \in less
    BY <1>1, <1>2, TextsOrdered
  <2>3. ASSUME NEW x \in AccountEntries, NEW y \in AccountEntries, NEW z \in AccountEntries, <<x, z>> \in less
        PROVE  <<x, y>> \in less \/ <<y, z>> \in less
    <3>1. Precedes(x.permission, z.permission) /\ x.permission \in Seq(Nat) /\ y.permission \in Seq(Nat) /\ z.permission \in Seq(Nat)
      BY <1>1, <1>2, <2>3
    <3>2. Precedes(x.permission, y.permission) \/ Precedes(y.permission, z.permission)
      <4>1. x.permission = y.permission \/ Precedes(x.permission, y.permission) \/ Precedes(y.permission, x.permission)
        BY <3>1, TextsOrdered
      <4>2. CASE x.permission = y.permission
        BY <3>1, <4>2
      <4>3. CASE Precedes(y.permission, x.permission)
        BY <3>1, <4>3, TextsOrdered
      <4> QED BY <4>1, <4>2, <4>3
    <3> QED BY <1>2, <3>2
  <2> QED BY <2>1, <2>2, <2>3
<1>6. /\ t \in Seq(AccountEntries)
      /\ \E place \in [1..Len(t) -> DOMAIN s] :
            /\ \A p \in 1..Len(t) : t[p] = s[place[p]]
            /\ \A p, q \in 1..Len(t) : p < q => place[p] # place[q] /\ <<t[q], t[p]>> \notin less
  BY <1>5, SortedIs
<1> HIDE DEF t
<1>7. AccountsSorted(t)
  <2>1. PICK place \in [1..Len(t) -> DOMAIN s] :
            /\ \A p \in 1..Len(t) : t[p] = s[place[p]]
            /\ \A p, q \in 1..Len(t) : p < q => place[p] # place[q] /\ <<t[q], t[p]>> \notin less
    BY <1>6
  <2> SUFFICES ASSUME NEW p \in 1..Len(t), NEW q \in 1..Len(t), p < q
               PROVE  Precedes(t[p].permission, t[q].permission)
    BY DEF AccountsSorted
  <2>2. t[p] \in AccountEntries /\ t[q] \in AccountEntries /\ t[p] = s[place[p]] /\ t[q] = s[place[q]]
        /\ place[p] \in 1..Len(s) /\ place[q] \in 1..Len(s)
    BY <1>6, <2>1
  <2>3. place[p] # place[q] /\ <<t[q], t[p]>> \notin less
    BY <2>1
  <2>4. t[p].permission # t[q].permission
    BY <2>2, <2>3
  <2>5. ~Precedes(t[q].permission, t[p].permission)
    BY <1>2, <2>2, <2>3
  <2> QED BY <1>1, <2>2, <2>4, <2>5, TextsOrdered
<1> QED BY <1>4, <1>6, <1>7

\* Waits are sorted by their seconds.
LEMMA WaitsAreSorted ==
    ASSUME NEW s \in Seq(Nat \X Nat)
    PROVE  LET t == stable_sort(s, LAMBDA x, y : x[1] < y[1])
           IN  t \in Seq(Nat \X Nat) /\ WaitsSorted(t)
<1> DEFINE W == Nat \X Nat
           less == {xy \in W \X W : xy[1][1] < xy[2][1]}
           t == Arranged(s, DOMAIN s, PlacesBefore(s, less))
<1>1. \A x \in W : x[1] \in Nat
  OBVIOUS
<1>2. \A x, y \in W : <<x, y>> \in less <=> x[1] < y[1]
  OBVIOUS
<1>3. stable_sort(s, LAMBDA x, y : x[1] < y[1]) = t
  <2>1. PlacesBefore(s, less) = {ji \in (DOMAIN s) \X (DOMAIN s) :
                    \/ s[ji[1]][1] < s[ji[2]][1]
                    \/ ~(s[ji[2]][1] < s[ji[1]][1]) /\ ji[1] < ji[2]}
    <3>1. \A ji \in (DOMAIN s) \X (DOMAIN s) : s[ji[1]] \in W /\ s[ji[2]] \in W
      OBVIOUS
    <3> HIDE DEF less, W
    <3> QED BY <1>2, <3>1 DEF PlacesBefore
  <2> QED BY <2>1 DEF stable_sort
<1>4. s \in Seq(W)
  OBVIOUS
<1> HIDE DEF less, W
<1>5. /\ \A x \in W : <<x, x>> \notin less
      /\ \A x, y, z \in W : <<x, y>> \in less /\ <<y, z>> \in less => <<x, z>> \in less
      /\ \A x, y, z \in W : <<x, z>> \in less => <<x, y>> \in less \/ <<y, z>> \in less
  BY <1>1, <1>2
<1>6. /\ t \in Seq(W)
      /\ \E place \in [1..Len(t) -> DOMAIN s] :
            /\ \A p \in 1..Len(t) : t[p] = s[place[p]]
            /\ \A p, q \in 1..Len(t) : p < q => place[p] # place[q] /\ <<t[q], t[p]>> \notin less
  BY <1>4, <1>5, SortedIs
<1> HIDE DEF t
<1>7. WaitsSorted(t)
  <2> SUFFICES ASSUME NEW p \in 1..Len(t), NEW q \in 1..Len(t), p < q
               PROVE  t[p][1] <= t[q][1]
    BY DEF WaitsSorted
  <2>1. t[p] \in W /\ t[q] \in W /\ <<t[q], t[p]>> \notin less
    BY <1>6
  <2> QED BY <1>1, <1>2, <2>1
<1> QED BY <1>3, <1>6, <1>7 DEF W

\* sort() gives an authority without repetition in the order of the chain.
LEMMA SortSorts ==
    ASSUME NEW a \in Authorities, Distinct(a)
    PROVE  sort(a) \in Authorities /\ Sorted(sort(a))
<1> DEFINE k == stable_sort(a.keys, LAMBDA x, y : compareKeys(x.key, y.key) < 0)
           c == stable_sort(a.accounts, LAMBDA x, y : compareBytes(x.permission, y.permission) < 0)
           w == stable_sort(a.waits, LAMBDA x, y : x[1] < y[1])
<1>1. a = [threshold |-> a.threshold, keys |-> a.keys, accounts |-> a.accounts, waits |-> a.waits]
      /\ a.threshold \in 0..(ThresholdWord - 1) /\ a.keys \in Seq(KeyEntries)
      /\ a.accounts \in Seq(AccountEntries) /\ a.waits \in Seq(Nat \X Nat)
  BY DEF Authorities, KeyEntries, AccountEntries
<1>2. k \in Seq(KeyEntries) /\ KeysSorted(k)
  BY <1>1, KeysAreSorted DEF Distinct
<1>3. c \in Seq(AccountEntries) /\ AccountsSorted(c)
  BY <1>1, AccountsAreSorted DEF Distinct
<1>4. w \in Seq(Nat \X Nat) /\ WaitsSorted(w)
  BY <1>1, WaitsAreSorted
<1>5. sort(a) = [a EXCEPT !.keys = k, !.accounts = c, !.waits = w]
  BY DEF sort
<1> HIDE DEF k, c, w
<1>6. sort(a) = [threshold |-> a.threshold, keys |-> k, accounts |-> c, waits |-> w]
  BY <1>1, <1>5
<1> QED BY <1>1, <1>2, <1>3, <1>4, <1>6 DEF Authorities, KeyEntries, AccountEntries, Sorted

-----------------------------------------------------------------------------
(* Authorities: the edits of a permission *)

AuthoritySpec == AuthorityInit /\ [][AuthorityNext]_authorityVars

\* The authority of a permission is one, in the order of the chain, entry by entry.
AuthorityInv == required_auth \in Authorities /\ Sorted(required_auth)

\* An authority in order has no key and no account twice.
LEMMA SortedDistinct ==
    ASSUME NEW a \in Authorities, Sorted(a)
    PROVE  Distinct(a)
<1>1. a.keys \in Seq(KeyEntries) /\ a.accounts \in Seq(AccountEntries)
  BY DEF Authorities, KeyEntries, AccountEntries
<1>2. ASSUME NEW i \in 1..Len(a.keys), NEW j \in 1..Len(a.keys), i # j
      PROVE  a.keys[i].key # a.keys[j].key
  <2>1. a.keys[i].key \in AuthKeys /\ a.keys[j].key \in AuthKeys
    <3>1. a.keys[i] \in KeyEntries /\ a.keys[j] \in KeyEntries
      BY <1>1
    <3> QED BY <3>1 DEF KeyEntries
  <2>2. ChainBefore(a.keys[i].key, a.keys[j].key) \/ ChainBefore(a.keys[j].key, a.keys[i].key)
    BY <1>2 DEF Sorted, KeysSorted
  <2> QED BY <2>1, <2>2, KeysOrdered
<1>3. ASSUME NEW i \in 1..Len(a.accounts), NEW j \in 1..Len(a.accounts), i # j
      PROVE  a.accounts[i].permission # a.accounts[j].permission
  <2>1. a.accounts[i].permission \in Seq(Nat) /\ a.accounts[j].permission \in Seq(Nat)
    <3>1. a.accounts[i] \in AccountEntries /\ a.accounts[j] \in AccountEntries
      BY <1>1
    <3> QED BY <3>1 DEF AccountEntries
  <2>2. Precedes(a.accounts[i].permission, a.accounts[j].permission)
        \/ Precedes(a.accounts[j].permission, a.accounts[i].permission)
    BY <1>3 DEF Sorted, AccountsSorted
  <2> QED BY <2>1, <2>2, TextsOrdered
<1> QED BY <1>2, <1>3 DEF Distinct

\* An authority whose lists are replaced is still one.
LEMMA PartsReplaced ==
    ASSUME NEW a \in Authorities
    PROVE  /\ \A k \in Seq(KeyEntries) :
                 LET b == [a EXCEPT !.keys = k]
                 IN  b \in Authorities /\ b.keys = k /\ b.accounts = a.accounts /\ b.waits = a.waits
           /\ \A c \in Seq(AccountEntries) :
                 LET b == [a EXCEPT !.accounts = c]
                 IN  b \in Authorities /\ b.keys = a.keys /\ b.accounts = c /\ b.waits = a.waits
           /\ \A w \in Seq(Nat \X Nat) :
                 LET b == [a EXCEPT !.waits = w]
                 IN  b \in Authorities /\ b.keys = a.keys /\ b.accounts = a.accounts /\ b.waits = w
BY DEF Authorities, KeyEntries, AccountEntries

\* An entry that is not in a list yet can be added to it without repetition.
LEMMA AddedDistinct ==
    ASSUME NEW a \in Authorities, Distinct(a)
    PROVE  /\ \A kw \in KeyEntries : (\A i \in DOMAIN a.keys : a.keys[i].key # kw.key) =>
                 LET b == [a EXCEPT !.keys = Append(@, kw)] IN b \in Authorities /\ Distinct(b)
           /\ \A pw \in AccountEntries : (\A i \in DOMAIN a.accounts : a.accounts[i].permission # pw.permission) =>
                 LET b == [a EXCEPT !.accounts = Append(@, pw)] IN b \in Authorities /\ Distinct(b)
           /\ \A w \in Nat \X Nat :
                 LET b == [a EXCEPT !.waits = Append(@, w)] IN b \in Authorities /\ Distinct(b)
<1>1. a.keys \in Seq(KeyEntries) /\ a.accounts \in Seq(AccountEntries) /\ a.waits \in Seq(Nat \X Nat)
  BY DEF Authorities, KeyEntries, AccountEntries
<1>2. ASSUME NEW kw \in KeyEntries, \A i \in DOMAIN a.keys : a.keys[i].key # kw.key
      PROVE  LET b == [a EXCEPT !.keys = Append(@, kw)] IN b \in Authorities /\ Distinct(b)
  <2> DEFINE k == Append(a.keys, kw)
             b == [a EXCEPT !.keys = k]
  <2>1. k \in Seq(KeyEntries) /\ Len(k) = Len(a.keys) + 1
        /\ \A i \in 1..Len(k) : k[i] = IF i = Len(a.keys) + 1 THEN kw ELSE a.keys[i]
    BY <1>1
  <2> HIDE DEF k
  <2>2. b \in Authorities /\ b.keys = k /\ b.accounts = a.accounts
    BY <2>1, PartsReplaced
  <2>3. \A i, j \in 1..Len(k) : i # j => k[i].key # k[j].key
    <3> SUFFICES ASSUME NEW i \in 1..Len(k), NEW j \in 1..Len(k), i # j
                 PROVE  k[i].key # k[j].key
      OBVIOUS
    <3>1. /\ i \in DOMAIN a.keys \/ i = Len(a.keys) + 1
          /\ j \in DOMAIN a.keys \/ j = Len(a.keys) + 1
          /\ DOMAIN a.keys = 1..Len(a.keys) /\ Len(a.keys) + 1 \notin 1..Len(a.keys)
      <4>1. DOMAIN a.keys = 1..Len(a.keys) /\ Len(a.keys) \in Nat
        BY <1>1
      <4> QED BY <2>1, <4>1
    <3>2. CASE i \in DOMAIN a.keys /\ j \in DOMAIN a.keys
      <4>1. k[i] = a.keys[i] /\ k[j] = a.keys[j]
        BY <2>1, <3>1, <3>2
      <4> QED BY <3>1, <3>2, <4>1 DEF Distinct
    <3>3. CASE i \in DOMAIN a.keys /\ j = Len(a.keys) + 1
      <4>1. k[i] = a.keys[i] /\ k[j] = kw
        BY <2>1, <3>1, <3>3
      <4> QED BY <1>2, <3>3, <4>1
    <3>4. CASE j \in DOMAIN a.keys /\ i = Len(a.keys) + 1
      <4>1. k[i] = kw /\ k[j] = a.keys[j]
        BY <2>1, <3>1, <3>4
      <4> QED BY <1>2, <3>4, <4>1
    <3> QED BY <3>1, <3>2, <3>3, <3>4
  <2>4. Distinct(b)
    BY <2>2, <2>3 DEF Distinct
  <2> QED BY <2>2, <2>4 DEF k
<1>3. ASSUME NEW pw \in AccountEntries, \A i \in DOMAIN a.accounts : a.accounts[i].permission # pw.permission
      PROVE  LET b == [a EXCEPT !.accounts = Append(@, pw)] IN b \in Authorities /\ Distinct(b)
  <2> DEFINE c == Append(a.accounts, pw)
             b == [a EXCEPT !.accounts = c]
  <2>1. c \in Seq(AccountEntries) /\ Len(c) = Len(a.accounts) + 1
        /\ \A i \in 1..Len(c) : c[i] = IF i = Len(a.accounts) + 1 THEN pw ELSE a.accounts[i]
    BY <1>1
  <2> HIDE DEF c
  <2>2. b \in Authorities /\ b.keys = a.keys /\ b.accounts = c
    BY <2>1, PartsReplaced
  <2>3. \A i, j \in 1..Len(c) : i # j => c[i].permission # c[j].permission
    <3> SUFFICES ASSUME NEW i \in 1..Len(c), NEW j \in 1..Len(c), i # j
                 PROVE  c[i].permission # c[j].permission
      OBVIOUS
    <3>1. /\ i \in DOMAIN a.accounts \/ i = Len(a.accounts) + 1
          /\ j \in DOMAIN a.accounts \/ j = Len(a.accounts) + 1
          /\ DOMAIN a.accounts = 1..Len(a.accounts) /\ Len(a.accounts) + 1 \notin 1..Len(a.accounts)
      <4>1. DOMAIN a.accounts = 1..Len(a.accounts) /\ Len(a.accounts) \in Nat
        BY <1>1
      <4> QED BY <2>1, <4>1
    <3>2. CASE i \in DOMAIN a.accounts /\ j \in DOMAIN a.accounts
      <4>1. c[i] = a.accounts[i] /\ c[j] = a.accounts[j]
        BY <2>1, <3>1, <3>2
      <4> QED BY <3>1, <3>2, <4>1 DEF Distinct
    <3>3. CASE i \in DOMAIN a.accounts /\ j = Len(a.accounts) + 1
      <4>1. c[i] = a.accounts[i] /\ c[j] = pw
        BY <2>1, <3>1, <3>3
      <4> QED BY <1>3, <3>3, <4>1
    <3>4. CASE j \in DOMAIN a.accounts /\ i = Len(a.accounts) + 1
      <4>1. c[i] = pw /\ c[j] = a.accounts[j]
        BY <2>1, <3>1, <3>4
      <4> QED BY <1>3, <3>4, <4>1
    <3> QED BY <3>1, <3>2, <3>3, <3>4
  <2>4. Distinct(b)
    BY <2>2, <2>3 DEF Distinct
  <2> QED BY <2>2, <2>4 DEF c
<1>4. ASSUME NEW w \in Nat \X Nat
      PROVE  LET b == [a EXCEPT !.waits = Append(@, w)] IN b \in Authorities /\ Distinct(b)
  <2> DEFINE v == Append(a.waits, w)
             b == [a EXCEPT !.waits = v]
  <2>1. v \in Seq(Nat \X Nat)
    BY <1>1
  <2> HIDE DEF v
  <2>2. b \in Authorities /\ b.keys = a.keys /\ b.accounts = a.accounts
    BY <2>1, PartsReplaced
  <2>3. Distinct(b)
    BY <2>2 DEF Distinct
  <2> QED BY <2>2, <2>3 DEF v
<1> QED BY <1>2, <1>3, <1>4

\* Whatever a caller hands in, Authority::from sorts it.
LEMMA AuthorityFroms ==
    ASSUME AuthorityFrom
    PROVE  AuthorityInv'
<1>1. PICK a \in AuthInputs : required_auth' = sort(a)
  BY DEF AuthorityFrom, Edited
<1>2. a \in Authorities
  BY AuthorityAssumption
<1>3. a.keys \in Seq(KeyEntries) /\ a.accounts \in Seq(AccountEntries)
  BY <1>2 DEF Authorities, KeyEntries, AccountEntries
<1>4. /\ \A i, j \in DOMAIN a.keys : a.keys[i].key = a.keys[j].key => i = j
      /\ \A i, j \in DOMAIN a.accounts : a.accounts[i].permission = a.accounts[j].permission => i = j
  BY AuthorityAssumption
<1>5. Distinct(a)
  BY <1>3, <1>4 DEF Distinct
<1> QED BY <1>1, <1>2, <1>5, SortSorts DEF AuthorityInv

\* What is added is sorted in.
LEMMA Adds ==
    ASSUME AuthorityInv, addKey \/ addAccount \/ addWait
    PROVE  AuthorityInv'
<1> DEFINE a == required_auth
<1>1. a \in Authorities /\ Distinct(a)
  BY SortedDistinct DEF AuthorityInv
<1> SUFFICES \E b : required_auth' = sort(b) /\ b \in Authorities /\ Distinct(b)
  BY SortSorts DEF AuthorityInv
<1>2. CASE addKey
  <2>1. PICK k \in AuthKeys, weight \in {1, 2} :
          /\ \A i \in DOMAIN a.keys : a.keys[i].key # k
          /\ required_auth' = sort([a EXCEPT !.keys = Append(@, [key |-> k, weight |-> weight])])
    BY <1>2 DEF addKey, Edited
  <2> DEFINE kw == [key |-> k, weight |-> weight]
  <2>2. kw \in KeyEntries /\ kw.key = k
    BY DEF KeyEntries
  <2> HIDE DEF kw
  <2>3. LET b == [a EXCEPT !.keys = Append(@, kw)] IN b \in Authorities /\ Distinct(b)
    BY <1>1, <2>1, <2>2, AddedDistinct
  <2> QED BY <2>1, <2>3 DEF kw
<1>3. CASE addAccount
  <2>1. PICK p \in AuthLevels :
          /\ \A i \in DOMAIN a.accounts : a.accounts[i].permission # p
          /\ required_auth' = sort([a EXCEPT !.accounts = Append(@, [permission |-> p, weight |-> 1])])
    BY <1>3 DEF addAccount, Edited
  <2> DEFINE pw == [permission |-> p, weight |-> 1]
  <2>2. pw \in AccountEntries /\ pw.permission = p
    BY AuthorityAssumption DEF AccountEntries
  <2> HIDE DEF pw
  <2>3. LET b == [a EXCEPT !.accounts = Append(@, pw)] IN b \in Authorities /\ Distinct(b)
    BY <1>1, <2>1, <2>2, AddedDistinct
  <2> QED BY <2>1, <2>3 DEF pw
<1>4. CASE addWait
  <2>1. PICK w \in AuthWaits : required_auth' = sort([a EXCEPT !.waits = Append(@, w)])
    BY <1>4 DEF addWait, Edited
  <2>2. w \in Nat \X Nat
    BY AuthorityAssumption
  <2>3. LET b == [a EXCEPT !.waits = Append(@, w)] IN b \in Authorities /\ Distinct(b)
    BY <1>1, <2>2, AddedDistinct
  <2> QED BY <2>1, <2>3
<1> QED BY <1>2, <1>3, <1>4

\* What is removed leaves the rest in its order.
LEMMA Removes ==
    ASSUME AuthorityInv, removeKey \/ removeAccount \/ removeWait
    PROVE  AuthorityInv'
<1> DEFINE a == required_auth
<1>1. /\ a \in Authorities /\ KeysSorted(a.keys) /\ AccountsSorted(a.accounts) /\ WaitsSorted(a.waits)
      /\ a.keys \in Seq(KeyEntries) /\ a.accounts \in Seq(AccountEntries) /\ a.waits \in Seq(Nat \X Nat)
  BY DEF AuthorityInv, Sorted, Authorities, KeyEntries, AccountEntries
<1>2. CASE removeKey
  <2>1. PICK i \in DOMAIN a.keys : required_auth' = [a EXCEPT !.keys = RemoveAt(@, i)]
    BY <1>2 DEF removeKey, Edited
  <2> DEFINE k == RemoveAt(a.keys, i)
  <2>2. LeftOf(KeyEntries, a.keys, k)
    BY <1>1, RemoveAtLeft
  <2>3. required_auth' = [a EXCEPT !.keys = k]
    BY <2>1
  <2> HIDE DEF k
  <2>4. k \in Seq(KeyEntries) /\ KeysSorted(k)
    BY <1>1, <2>2, LeftSorted DEF LeftOf
  <2>5. LET b == [a EXCEPT !.keys = k]
        IN  b \in Authorities /\ b.keys = k /\ b.accounts = a.accounts /\ b.waits = a.waits
    BY <1>1, <2>4, PartsReplaced
  <2> QED BY <1>1, <2>3, <2>4, <2>5 DEF AuthorityInv, Sorted
<1>3. CASE removeAccount
  <2>1. PICK i \in DOMAIN a.accounts : required_auth' = [a EXCEPT !.accounts = RemoveAt(@, i)]
    BY <1>3 DEF removeAccount, Edited
  <2> DEFINE c == RemoveAt(a.accounts, i)
  <2>2. LeftOf(AccountEntries, a.accounts, c)
    BY <1>1, RemoveAtLeft
  <2>3. required_auth' = [a EXCEPT !.accounts = c]
    BY <2>1
  <2> HIDE DEF c
  <2>4. c \in Seq(AccountEntries) /\ AccountsSorted(c)
    BY <1>1, <2>2, LeftSorted DEF LeftOf
  <2>5. LET b == [a EXCEPT !.accounts = c]
        IN  b \in Authorities /\ b.keys = a.keys /\ b.accounts = c /\ b.waits = a.waits
    BY <1>1, <2>4, PartsReplaced
  <2> QED BY <1>1, <2>3, <2>4, <2>5 DEF AuthorityInv, Sorted
<1>4. CASE removeWait
  <2>1. PICK w \in AuthWaits : required_auth' = [a EXCEPT !.waits =
                    Arranged(@, {i \in DOMAIN @ : @[i] # w}, {ji \in (DOMAIN @) \X (DOMAIN @) : ji[1] < ji[2]})]
    BY <1>4 DEF removeWait, Edited
  <2> DEFINE I == {i \in DOMAIN a.waits : a.waits[i] # w}
             v == Arranged(a.waits, I, {ji \in (DOMAIN a.waits) \X (DOMAIN a.waits) : ji[1] < ji[2]})
  <2>2. LeftOf(Nat \X Nat, a.waits, v)
    <3>1. I \in SUBSET DOMAIN a.waits
      OBVIOUS
    <3> HIDE DEF I
    <3> QED BY <1>1, <3>1, KeptLeft
  <2>3. required_auth' = [a EXCEPT !.waits = v]
    BY <2>1
  <2> HIDE DEF v
  <2>4. v \in Seq(Nat \X Nat) /\ WaitsSorted(v)
    BY <1>1, <2>2, LeftSorted DEF LeftOf
  <2>5. LET b == [a EXCEPT !.waits = v]
        IN  b \in Authorities /\ b.keys = a.keys /\ b.accounts = a.accounts /\ b.waits = v
    BY <1>1, <2>4, PartsReplaced
  <2> QED BY <1>1, <2>3, <2>4, <2>5 DEF AuthorityInv, Sorted
<1> QED BY <1>2, <1>3, <1>4

\* The authority nobody has edited is in order.
LEMMA AuthorityStarts == AuthorityInit => AuthorityInv
<1> SUFFICES ASSUME AuthorityInit PROVE AuthorityInv
  OBVIOUS
<1>1. required_auth = NoAuthority /\ 1 \in 0..(ThresholdWord - 1)
  BY AuthorityAssumption DEF AuthorityInit
<1>2. required_auth \in Authorities
  BY <1>1 DEF Authorities, NoAuthority
<1>3. Sorted(required_auth)
  BY <1>1 DEF NoAuthority, Sorted, KeysSorted, AccountsSorted, WaitsSorted
<1> QED BY <1>2, <1>3 DEF AuthorityInv

\* A key that is enough by itself is enough with the waits, and is listed unless they are enough alone.
LEMMA PermissionMeans ==
    ASSUME NEW a \in Authorities, NEW k \in AuthKeys, hasPermission(a, k, FALSE)
    PROVE  /\ keyWeight(a, k) + waitThreshold(a) >= a.threshold
           /\ hasPermission(a, k, TRUE) \/ waitThreshold(a) = a.threshold
<1> DEFINE w == waitThreshold(a)
           W == ThresholdWord
           kw == keyWeight(a, k)
<1>1. w \in 0..(W - 1)
  BY WaitsCount DEF Authorities
<1>2. a.threshold \in 0..(W - 1) /\ W \in Nat \ {0, 1} /\ a.keys \in Seq(KeyEntries)
  BY AuthorityAssumption DEF Authorities, KeyEntries
<1>3. kw \in Nat
  <2> DEFINE I == {i \in 1..Len(a.keys) : a.keys[i].key = k}
  <2>1. kw = IF I = {} THEN 0 ELSE a.keys[Min(I)].weight
    <3>1. I # {} => Min(I) \in 1..Len(a.keys)
      <4>1. I \in SUBSET Nat /\ I \in SUBSET (1..Len(a.keys))
        OBVIOUS
      <4> HIDE DEF I
      <4> QED BY <4>1, HasFirst
    <3>2. SelectInSeq(a.keys, LAMBDA e : e.key = k) = IF I # {} THEN Min(I) ELSE 0
      BY DEF SelectInSeq
    <3>3. kw = LET i == SelectInSeq(a.keys, LAMBDA e : e.key = k) IN IF i = 0 THEN 0 ELSE a.keys[i].weight
      BY DEF keyWeight
    <3> HIDE DEF I, kw
    <3> QED BY <3>1, <3>2, <3>3
  <2>2. I # {} => Min(I) \in 1..Len(a.keys)
    <3>1. I \in SUBSET Nat /\ I \in SUBSET (1..Len(a.keys))
      OBVIOUS
    <3> HIDE DEF I
    <3> QED BY <3>1, HasFirst
  <2>3. \A i \in 1..Len(a.keys) : a.keys[i].weight \in Nat
    <3> SUFFICES ASSUME NEW i \in 1..Len(a.keys) PROVE a.keys[i].weight \in Nat
      OBVIOUS
    <3>1. a.keys[i] \in KeyEntries
      BY <1>2
    <3> QED BY <3>1 DEF KeyEntries
  <2> HIDE DEF I, kw
  <2> QED BY <2>1, <2>2, <2>3
<1>4. kw >= (a.threshold - w) % W
  <2>1. kw >= IF FALSE THEN 1 ELSE keyThreshold(a)
    BY DEF hasPermission
  <2> QED BY <2>1 DEF keyThreshold
<1>5. hasPermission(a, k, TRUE) <=> kw >= 1
  BY Zenon DEF hasPermission
<1>6. a.threshold \in Nat /\ w \in Nat /\ w < W
  BY <1>1, <1>2
<1> HIDE DEF w, W, kw
<1>7. kw + w >= a.threshold /\ (kw >= 1 \/ w = a.threshold)
  <2>1. CASE a.threshold >= w
    <3>1. (a.threshold - w) % W = a.threshold - w
      <4>1. \A d, m \in Nat : d < m => d % m = d
        OBVIOUS
      <4>2. a.threshold - w \in Nat /\ a.threshold - w < W /\ W \in Nat
        BY <1>1, <1>2, <1>6, <2>1
      <4> QED BY <4>1, <4>2
    <3> QED BY <1>3, <1>4, <1>6, <2>1, <3>1
  <2>2. CASE a.threshold < w
    <3>1. (a.threshold - w) % W = (a.threshold - w) + W
      BY <1>1, <1>2, <2>2
    <3> QED BY <1>2, <1>3, <1>4, <1>6, <2>2, <3>1
  <2> QED BY <1>6, <2>1, <2>2
<1> QED BY <1>5, <1>7, Zenon DEF w, kw

\* For any keys, accounts, waits and authorities handed in: however an authority is loaded and
\* edited, its entries are in the chain's order, and a key hasPermission() takes for enough is
\* (authority.cpp:46, permission.cpp:28, authority.hpp:51).
THEOREM AuthorityAlwaysSorted == AuthoritySpec => []AuthoritySorted
<1>1. ASSUME AuthorityInv, [AuthorityNext]_authorityVars
      PROVE  AuthorityInv'
  <2>1. CASE UNCHANGED authorityVars
    BY <1>1, <2>1 DEF AuthorityInv, authorityVars
  <2> QED BY <1>1, <2>1, AuthorityFroms, Adds, Removes DEF AuthorityNext
<1>2. ASSUME AuthorityInv
      PROVE  AuthoritySorted
  <2> DEFINE a == required_auth
  <2>1. a \in Authorities /\ Sorted(a)
    BY <1>2 DEF AuthorityInv
  <2>2. a.keys \in Seq(KeyEntries) /\ a.accounts \in Seq(AccountEntries) /\ a.waits \in Seq(Nat \X Nat)
    BY <2>1 DEF Authorities, KeyEntries, AccountEntries
  <2>3. /\ \A i \in 1..(Len(a.keys) - 1) : ChainBefore(a.keys[i].key, a.keys[i + 1].key)
        /\ \A i \in 1..(Len(a.accounts) - 1) : Precedes(a.accounts[i].permission, a.accounts[i + 1].permission)
        /\ \A i \in 1..(Len(a.waits) - 1) : a.waits[i][1] <= a.waits[i + 1][1]
    <3>1. \A n \in Nat : \A i \in 1..(n - 1) : i \in 1..n /\ i + 1 \in 1..n /\ i < i + 1
      OBVIOUS
    <3>2. Len(a.keys) \in Nat /\ Len(a.accounts) \in Nat /\ Len(a.waits) \in Nat
      BY <2>2
    <3> QED BY <2>1, <3>1, <3>2 DEF Sorted, KeysSorted, AccountsSorted, WaitsSorted
  <2>4. \A k \in AuthKeys : hasPermission(a, k, FALSE) =>
          /\ keyWeight(a, k) + waitThreshold(a) >= a.threshold
          /\ hasPermission(a, k, TRUE) \/ waitThreshold(a) = a.threshold
    BY <2>1, PermissionMeans
  <2> QED BY <2>3, <2>4 DEF AuthoritySorted
<1> QED BY <1>1, <1>2, AuthorityStarts, PTL DEF AuthoritySpec

-----------------------------------------------------------------------------
(* Numbers: quotients and remainders *)

TypesSpec == TypesInit /\ [][TypesNext]_typesVars

\* A division gives a quotient and a remainder,
LEMMA Divides ==
    ASSUME NEW d \in Nat \ {0}, NEW x \in Int
    PROVE  x \div d \in Int /\ x % d \in 0..(d - 1) /\ x = d * (x \div d) + (x % d)
BY Z3

\* and there are no others.
LEMMA RemainderIs ==
    ASSUME NEW d \in Nat \ {0}, NEW q \in Int, NEW r \in 0..(d - 1)
    PROVE  (d * q + r) \div d = q /\ (d * q + r) % d = r
<1> DEFINE u == d * q
           x == u + r
           v == d * (x \div d)
<1>1. x \div d = q
  BY QuotientIs
<1>2. u \in Int /\ x \in Int
  BY Z3
<1>3. x = v + (x % d) /\ x % d \in Int
  <2> HIDE DEF x
  <2> QED BY <1>2, Divides
<1>4. v = u
  BY <1>1
<1> HIDE DEF u, v
<1>5. x % d = r
  BY <1>2, <1>3, <1>4
<1> QED BY <1>1, <1>5 DEF u

\* A number up to one modulus outside the remainders.
LEMMA NearRemainders ==
    ASSUME NEW d \in Nat \ {0}, NEW r \in 0..(d - 1)
    PROVE  /\ r \div d = 0 /\ r % d = r
           /\ (r + d) \div d = 1 /\ (r + d) % d = r
           /\ (r - d) \div d = -1 /\ (r - d) % d = r
<1>1. ASSUME NEW q \in {-1, 0, 1}, NEW x \in Int, x = q * d + r
      PROVE  x \div d = q /\ x % d = r
  <2>1. (d * q + r) \div d = q /\ (d * q + r) % d = r
    BY RemainderIs
  <2>2. d * q + r = x
    BY <1>1, Z3
  <2> QED BY <2>1, <2>2
<1>2. r = 0 * d + r /\ r + d = 1 * d + r /\ r - d = (-1) * d + r
  OBVIOUS
<1>3. 0 \in {-1, 0, 1} /\ 1 \in {-1, 0, 1} /\ -1 \in {-1, 0, 1}
      /\ r \in Int /\ r + d \in Int /\ r - d \in Int
  OBVIOUS
<1> QED BY <1>1, <1>2, <1>3

\* Multiples of the modulus do not count.
LEMMA Multiples ==
    ASSUME NEW d \in Nat \ {0}, NEW x \in Int, NEW k \in Int
    PROVE  (x + k * d) % d = x % d
<1> DEFINE q == x \div d
           r == x % d
<1>1. q \in Int /\ r \in 0..(d - 1) /\ x = d * q + r
  BY Divides
<1> HIDE DEF q, r
<1>2. x + k * d = d * (q + k) + r /\ x + k * d \in Int /\ q + k \in Int
  BY <1>1, Z3
<1>3. (d * (q + k) + r) % d = r
  BY <1>1, <1>2, RemainderIs
<1> QED BY <1>2, <1>3 DEF r

-----------------------------------------------------------------------------
(* Numbers: operands of 128 bits *)

\* U makes of two words of any size the number they stand for, cut to 128 bits.
LEMMA Words ==
    ASSUME NEW lo \in Int, NEW hi \in Int
    PROVE  /\ Word \in Nat \ {0} /\ Wide = Word * Word /\ Wide \in Nat \ {0}
           /\ U(lo, hi) \in [lo: 0..(Word - 1), hi: 0..(Word - 1)]
           /\ Value(U(lo, hi + (lo \div Word))) = (lo + hi * Word) % Wide
<1>1. Word \in Nat \ {0} /\ Wide = Word * Word
  <2>1. Limb \in Nat \ {0}
    BY TypesAssumption
  <2>2. Limb * Limb \in Nat \ {0}
    BY <2>1, Z3
  <2> QED BY <2>2 DEF Word, Wide
<1>2. Wide \in Nat \ {0}
  <2>1. Word * Word \in Nat \ {0}
    BY <1>1, Z3
  <2> QED BY <1>1, <2>1
<1>3. U(lo, hi) \in [lo: 0..(Word - 1), hi: 0..(Word - 1)]
  <2>1. lo % Word \in 0..(Word - 1) /\ hi % Word \in 0..(Word - 1)
    BY <1>1, Divides
  <2> QED BY <2>1 DEF U
<1>4. Value(U(lo, hi + (lo \div Word))) = (lo + hi * Word) % Wide
  <2> DEFINE q == lo \div Word
             r == lo % Word
             h == hi + q
             p == h \div Word
             s == h % Word
             x == lo + hi * Word
  <2>1. q \in Int /\ r \in 0..(Word - 1) /\ lo = Word * q + r
    BY <1>1, Divides
  <2>2. p \in Int /\ s \in 0..(Word - 1) /\ h = Word * p + s
    <3>1. h \in Int
      BY <2>1
    <3> HIDE DEF h
    <3> QED BY <1>1, <3>1, Divides
  <2>3. Value(U(lo, h)) = r + s * Word
    BY DEF Value, U
  <2>4. h = hi + q
    OBVIOUS
  <2>5. x = lo + hi * Word /\ x \in Int
    BY <1>1
  <2> HIDE DEF q, r, h, p, s, x
  <2>6. x = Wide * p + (r + s * Word)
    <3> DEFINE W == Word
    <3>1. W \in Nat /\ Wide = W * W
      BY <1>1
    <3> HIDE DEF W
    <3>2. x = (W * q + r) + (W * p + s - q) * W
      BY <2>1, <2>2, <2>4, <2>5, <3>1, Z3 DEF W
    <3>3. x = (W * W) * p + (r + s * W)
      BY <2>1, <2>2, <3>1, <3>2, Z3
    <3> QED BY <3>1, <3>3 DEF W
  <2>7. r + s * Word \in 0..(Wide - 1)
    <3>1. s * Word \in Nat /\ s * Word <= (Word - 1) * Word
      BY <1>1, <2>2, Z3
    <3>2. (Word - 1) * Word = Wide - Word /\ (Word - 1) * Word \in Int
      BY <1>1, Z3
    <3> QED BY <1>1, <1>2, <2>1, <3>1, <3>2
  <2>8. x % Wide = r + s * Word
    <3> DEFINE y == r + s * Word
    <3>1. x = Wide * p + y /\ y \in 0..(Wide - 1)
      BY <2>6, <2>7
    <3> HIDE DEF y
    <3>2. (Wide * p + y) % Wide = y
      BY <1>2, <2>2, <3>1, RemainderIs
    <3> QED BY <3>1, <3>2 DEF y
  <2> QED BY <2>3, <2>8 DEF x, h, q
<1> QED BY <1>1, <1>2, <1>3, <1>4

\* What an operand of two words is worth.
LEMMA OperandValue ==
    ASSUME NEW a \in [lo: 0..(Word - 1), hi: 0..(Word - 1)]
    PROVE  /\ a.lo \in 0..(Word - 1) /\ a.hi \in 0..(Word - 1)
           /\ Value(a) = a.lo + a.hi * Word /\ Value(a) \in 0..(Wide - 1)
<1>1. Word \in Nat \ {0} /\ Wide = Word * Word /\ Wide \in Nat \ {0}
  BY Words
<1>2. a.lo \in 0..(Word - 1) /\ a.hi \in 0..(Word - 1)
  OBVIOUS
<1>3. a.hi * Word \in Nat /\ a.hi * Word <= (Word - 1) * Word
  BY <1>1, <1>2, Z3
<1>4. (Word - 1) * Word = Wide - Word /\ (Word - 1) * Word \in Int
  BY <1>1, Z3
<1> QED BY <1>1, <1>2, <1>3, <1>4 DEF Value

\* The carry of a sum of two words is seen in what is left of it.
LEMMA CarrySeen ==
    ASSUME NEW d \in Nat \ {0}, NEW x \in 0..(d - 1), NEW y \in 0..(d - 1)
    PROVE  LET lo == (x + y) % d
               carry == IF lo < x THEN 1 ELSE 0
           IN  (x + y) \div d = carry /\ x + y = lo + carry * d /\ lo \in 0..(d - 1)
<1> DEFINE n == x + y
           lo == n % d
           carry == IF lo < x THEN 1 ELSE 0
<1>1. CASE n < d
  <2>1. n \in 0..(d - 1) /\ ~(n < x)
    BY <1>1
  <2>2. n \div d = 0 /\ lo = n
    <3> HIDE DEF n
    <3> QED BY <2>1, NearRemainders
  <2>3. carry = 0
    BY <2>1, <2>2
  <2> QED BY <2>1, <2>2, <2>3
<1>2. CASE n >= d
  <2> DEFINE m == n - d
  <2>1. n = m + d /\ m \in 0..(d - 1) /\ m < x
    BY <1>2
  <2>2. (m + d) \div d = 1 /\ (m + d) % d = m
    <3> HIDE DEF m
    <3> QED BY <2>1, NearRemainders
  <2>3. n \div d = 1 /\ lo = m
    BY <2>1, <2>2
  <2>4. carry = 1
    BY <2>1, <2>3
  <2> QED BY <2>1, <2>3, <2>4
<1> QED BY <1>1, <1>2

\* The carry of a sum is seen in its low word.
LEMMA SumWraps ==
    ASSUME NEW a \in [lo: 0..(Word - 1), hi: 0..(Word - 1)],
           NEW b \in [lo: 0..(Word - 1), hi: 0..(Word - 1)]
    PROVE  /\ adding(a, b) \in [lo: 0..(Word - 1), hi: 0..(Word - 1)]
           /\ Value(adding(a, b)) = (Value(a) + Value(b)) % Wide
<1> DEFINE n == a.lo + b.lo
           h == a.hi + b.hi
           lo == n % Word
           carry == IF lo < a.lo THEN 1 ELSE 0
<1>1. /\ Word \in Nat \ {0} /\ a.lo \in 0..(Word - 1) /\ a.hi \in 0..(Word - 1)
      /\ b.lo \in 0..(Word - 1) /\ b.hi \in 0..(Word - 1)
  BY Words
<1>2. n \in Int /\ h \in Int
  BY <1>1
<1>3. n \div Word = carry /\ lo \in 0..(Word - 1)
  BY <1>1, CarrySeen
<1>4. adding(a, b) = U(n, h + (n \div Word))
  <2>1. lo % Word = n % Word
    <3> HIDE DEF lo, n
    <3>1. lo % Word = lo
      BY <1>1, <1>3, NearRemainders
    <3> QED BY <3>1 DEF lo
  <2>2. adding(a, b) = U(lo, h + carry)
    BY DEF adding
  <2> QED BY <1>3, <2>1, <2>2 DEF U
<1>5. Value(adding(a, b)) = (n + h * Word) % Wide /\ adding(a, b) \in [lo: 0..(Word - 1), hi: 0..(Word - 1)]
  <2> DEFINE k == n \div Word
  <2>1. k \in Int
    <3> HIDE DEF n
    <3> QED BY <1>1, <1>2, Divides
  <2> HIDE DEF n, h
  <2>2. Value(U(n, h + (n \div Word))) = (n + h * Word) % Wide
    BY <1>2, Words
  <2>3. U(n, h + k) \in [lo: 0..(Word - 1), hi: 0..(Word - 1)]
    <3> HIDE DEF k
    <3>1. h + k \in Int
      BY <1>2, <2>1
    <3> QED BY <1>2, <3>1, Words
  <2> QED BY <1>4, <2>2, <2>3
<1>6. n + h * Word = Value(a) + Value(b)
  <2>1. Value(a) = a.lo + a.hi * Word /\ Value(b) = b.lo + b.hi * Word
    BY DEF Value
  <2>2. (a.hi + b.hi) * Word = a.hi * Word + b.hi * Word
    BY <1>1, Z3
  <2>3. a.hi * Word \in Int /\ b.hi * Word \in Int
    BY <1>1
  <2> QED BY <1>1, <2>1, <2>2, <2>3
<1> QED BY <1>5, <1>6

\* So is the borrow of a difference.
LEMMA DifferenceWraps ==
    ASSUME NEW a \in [lo: 0..(Word - 1), hi: 0..(Word - 1)],
           NEW b \in [lo: 0..(Word - 1), hi: 0..(Word - 1)]
    PROVE  Value(subtracting(a, b)) = (Value(a) - Value(b)) % Wide
<1> DEFINE n == a.lo - b.lo
           h == a.hi - b.hi
           borrow == IF b.lo > a.lo THEN 1 ELSE 0
<1>1. /\ Word \in Nat \ {0} /\ a.lo \in 0..(Word - 1) /\ a.hi \in 0..(Word - 1)
      /\ b.lo \in 0..(Word - 1) /\ b.hi \in 0..(Word - 1)
  BY Words
<1>2. n \in Int /\ h \in Int
  BY <1>1
<1>3. n \div Word = -borrow
  <2>1. CASE n >= 0
    <3>1. n \in 0..(Word - 1) /\ borrow = 0
      BY <1>1, <2>1
    <3>2. n \div Word = 0
      <4> HIDE DEF n
      <4> QED BY <1>1, <3>1, NearRemainders
    <3> QED BY <3>1, <3>2
  <2>2. CASE n < 0
    <3> DEFINE m == n + Word
    <3>1. n = m - Word /\ m \in 0..(Word - 1) /\ borrow = 1
      BY <1>1, <2>2
    <3>2. (m - Word) \div Word = -1
      <4> HIDE DEF m
      <4> QED BY <1>1, <3>1, NearRemainders
    <3> QED BY <3>1, <3>2
  <2> QED BY <1>2, <2>1, <2>2
<1>4. subtracting(a, b) = U(n, h + (n \div Word))
  BY <1>1, <1>3 DEF subtracting
<1>5. Value(subtracting(a, b)) = (n + h * Word) % Wide
  <2> HIDE DEF n, h
  <2>1. Value(U(n, h + (n \div Word))) = (n + h * Word) % Wide
    BY <1>2, Words
  <2> QED BY <1>4, <2>1
<1>6. n + h * Word = Value(a) - Value(b)
  <2>1. Value(a) = a.lo + a.hi * Word /\ Value(b) = b.lo + b.hi * Word
    BY DEF Value
  <2>2. (a.hi - b.hi) * Word = a.hi * Word - b.hi * Word
    BY <1>1, Z3
  <2>3. a.hi * Word \in Int /\ b.hi * Word \in Int
    BY <1>1
  <2> QED BY <1>1, <2>1, <2>2, <2>3
<1> QED BY <1>5, <1>6

\* What is left of a sum does not depend on how often its parts wrapped.
LEMMA SumOfRemainders ==
    ASSUME NEW d \in Nat \ {0}, NEW x \in Int, NEW y \in Int
    PROVE  ((x % d) + y) % d = (x + y) % d
<1> DEFINE q == x \div d
           r == x % d
<1>1. q \in Int /\ r \in 0..(d - 1) /\ x = d * q + r
  BY Divides
<1> HIDE DEF q, r
<1>2. x + y = (r + y) + q * d
  BY <1>1, Z3
<1>3. ((r + y) + q * d) % d = (r + y) % d
  <2>1. r + y \in Int
    BY <1>1
  <2> QED BY <1>1, <2>1, Multiples
<1> QED BY <1>2, <1>3 DEF r

\* A product of halves added in the middle: its upper half and the carry go up.
LEMMA MiddleAdded ==
    ASSUME NEW lo \in 0..(Word - 1), NEW p \in Nat
    PROVE  LET sum == (lo + p * Limb) % Word
               carry == IF sum < lo THEN 1 ELSE 0
           IN  sum \in 0..(Word - 1) /\ lo + p * Limb = sum + ((p \div Limb) + carry) * Word
<1> DEFINE q == p \div Limb
           r == p % Limb
           y == r * Limb
           sum == (lo + p * Limb) % Word
           carry == IF sum < lo THEN 1 ELSE 0
<1>1. Limb \in Nat \ {0} /\ Word = Limb * Limb /\ Word \in Nat \ {0}
  BY TypesAssumption, Words DEF Word
<1>2. q \in Int /\ r \in 0..(Limb - 1) /\ p = Limb * q + r
  BY <1>1, Divides
<1> HIDE DEF q, r
<1>3. y \in 0..(Word - 1)
  <2>1. y \in Nat /\ y <= (Limb - 1) * Limb
    BY <1>1, <1>2, Z3
  <2>2. (Limb - 1) * Limb = Word - Limb /\ (Limb - 1) * Limb \in Int
    BY <1>1, Z3
  <2> QED BY <1>1, <2>1, <2>2
<1>4. p * Limb = y + q * Word
  BY <1>1, <1>2, Z3
<1>5. p * Limb \in Int /\ q * Word \in Int
  BY <1>1, <1>2
<1>6. lo + p * Limb = (lo + y) + q * Word
  BY <1>3, <1>4, <1>5
<1> HIDE DEF y
<1>7. sum = (lo + y) % Word
  <2>1. ((lo + y) + q * Word) % Word = (lo + y) % Word
    <3>1. lo + y \in Int
      BY <1>3
    <3> QED BY <1>1, <1>2, <3>1, Multiples
  <2> QED BY <1>6, <2>1
<1> HIDE DEF sum
<1>8. lo + y = sum + carry * Word /\ sum \in 0..(Word - 1)
  BY <1>1, <1>3, <1>7, CarrySeen
<1>9. (q + carry) * Word = q * Word + carry * Word
  <2>1. carry \in Int
    OBVIOUS
  <2> HIDE DEF carry
  <2> QED BY <1>1, <1>2, <2>1, Z3
<1>10. lo + p * Limb = sum + (q + carry) * Word
  <2>1. carry * Word \in Int
    BY <1>1
  <2> HIDE DEF carry
  <2> QED BY <1>5, <1>6, <1>8, <1>9, <2>1
<1> QED BY <1>8, <1>10 DEF sum, q

\* The product of two words from those of their halves.
LEMMA WordProduct ==
    ASSUME NEW a \in 0..(Word - 1), NEW b \in 0..(Word - 1)
    PROVE  /\ mul64(a, b) \in [lo: 0..(Word - 1), hi: 0..(Word - 1)]
           /\ Value(mul64(a, b)) = (a * b) % Wide
<1> DEFINE a0 == a % Limb
           a1 == a \div Limb
           b0 == b % Limb
           b1 == b \div Limb
           p == [i \in 0..3 |-> (IF i < 2 THEN a0 ELSE a1) * (IF i % 2 = 0 THEN b0 ELSE b1)]
           lo == (p[0] + p[1] * Limb) % Word
           lo2 == (lo + p[2] * Limb) % Word
           c1 == IF lo < p[0] THEN 1 ELSE 0
           c2 == IF lo2 < lo THEN 1 ELSE 0
           hi == p[3] + p[1] \div Limb + p[2] \div Limb + c1 + c2
<1>1. Limb \in Nat \ {0} /\ Word = Limb * Limb /\ Word \in Nat \ {0} /\ Wide \in Nat \ {0}
  BY TypesAssumption, Words DEF Word
<1>2. /\ a0 \in 0..(Limb - 1) /\ a1 \in Nat /\ a = Limb * a1 + a0
      /\ b0 \in 0..(Limb - 1) /\ b1 \in Nat /\ b = Limb * b1 + b0
  <2>1. /\ a0 \in 0..(Limb - 1) /\ a1 \in Int /\ a = Limb * a1 + a0
        /\ b0 \in 0..(Limb - 1) /\ b1 \in Int /\ b = Limb * b1 + b0
    BY <1>1, Divides
  <2> HIDE DEF a0, a1, b0, b1
  <2>2. a1 >= 0
    <3> SUFFICES ASSUME a1 <= -1 PROVE FALSE
      BY <2>1
    <3>1. Limb * a1 <= -Limb /\ Limb * a1 \in Int
      BY <1>1, <2>1, Z3
    <3> QED BY <1>1, <2>1, <3>1
  <2>3. b1 >= 0
    <3> SUFFICES ASSUME b1 <= -1 PROVE FALSE
      BY <2>1
    <3>1. Limb * b1 <= -Limb /\ Limb * b1 \in Int
      BY <1>1, <2>1, Z3
    <3> QED BY <1>1, <2>1, <3>1
  <2> QED BY <2>1, <2>2, <2>3
<1>3. p[0] = a0 * b0 /\ p[1] = a0 * b1 /\ p[2] = a1 * b0 /\ p[3] = a1 * b1
  <2> HIDE DEF a0, a1, b0, b1
  <2> QED OBVIOUS
<1>4. mul64(a, b) = U(lo2, hi)
  BY DEF mul64
<1> HIDE DEF a0, a1, b0, b1, p
<1>5. p[0] \in 0..(Word - 1) /\ p[1] \in Nat /\ p[2] \in Nat /\ p[3] \in Nat
  <2>1. p[1] \in Nat /\ p[2] \in Nat /\ p[3] \in Nat /\ p[0] \in Nat /\ p[0] <= a0 * Limb
    BY <1>1, <1>2, <1>3, Z3
  <2>2. a0 * Limb <= (Limb - 1) * Limb /\ a0 * Limb \in Int
    BY <1>1, <1>2, Z3
  <2>3. (Limb - 1) * Limb = Word - Limb /\ (Limb - 1) * Limb \in Int
    BY <1>1, Z3
  <2> QED BY <1>1, <2>1, <2>2, <2>3
<1>6. lo \in 0..(Word - 1) /\ p[0] + p[1] * Limb = lo + ((p[1] \div Limb) + c1) * Word
  BY <1>5, MiddleAdded
<1> HIDE DEF lo
<1>7. lo2 \in 0..(Word - 1) /\ lo + p[2] * Limb = lo2 + ((p[2] \div Limb) + c2) * Word
  BY <1>5, <1>6, MiddleAdded
<1> HIDE DEF lo2
<1> DEFINE d1 == (p[1] \div Limb) + c1
           d2 == (p[2] \div Limb) + c2
<1>8. d1 \in Int /\ d2 \in Int /\ hi = p[3] + d1 + d2 /\ hi \in Int
  <2>1. p[1] \div Limb \in Int /\ p[2] \div Limb \in Int
    <3>1. p[1] \in Int /\ p[2] \in Int
      BY <1>5
    <3> QED BY <1>1, <3>1, Divides
  <2>2. c1 \in Int /\ c2 \in Int
    OBVIOUS
  <2> HIDE DEF c1, c2
  <2> QED BY <1>5, <2>1, <2>2
<1>9. p[0] + p[1] * Limb = lo + d1 * Word /\ lo + p[2] * Limb = lo2 + d2 * Word
  BY <1>6, <1>7
<1> HIDE DEF d1, d2, hi
<1>10. a * b = lo2 + hi * Word
  <2>1. a * b = p[0] + p[1] * Limb + p[2] * Limb + p[3] * Word
    <3>1. a * b = (Limb * a1 + a0) * (Limb * b1 + b0)
      BY <1>2
    <3>2. (Limb * a1 + a0) * (Limb * b1 + b0)
            = a0 * b0 + (a0 * b1) * Limb + (a1 * b0) * Limb + (a1 * b1) * (Limb * Limb)
      BY <1>1, <1>2, Z3
    <3> QED BY <1>1, <1>3, <3>1, <3>2
  <2>2. hi * Word = p[3] * Word + d1 * Word + d2 * Word
    BY <1>1, <1>5, <1>8, Z3
  <2>3. /\ p[1] * Limb \in Int /\ p[2] * Limb \in Int /\ p[3] * Word \in Int
        /\ d1 * Word \in Int /\ d2 * Word \in Int
    BY <1>1, <1>5, <1>8
  <2> QED BY <1>5, <1>6, <1>7, <1>9, <2>1, <2>2, <2>3
<1>11. lo2 \div Word = 0
  BY <1>1, <1>7, NearRemainders
<1>12. lo2 \in Int
  BY <1>1, <1>7
<1>13. Value(U(lo2, hi + (lo2 \div Word))) = (lo2 + hi * Word) % Wide
  BY <1>8, <1>12, Words
<1>14. U(lo2, hi) \in [lo: 0..(Word - 1), hi: 0..(Word - 1)]
  BY <1>8, <1>12, Words
<1>15. hi + (lo2 \div Word) = hi
  BY <1>8, <1>11
<1> QED BY <1>4, <1>10, <1>13, <1>14, <1>15

\* The product of two operands.
LEMMA ProductWraps ==
    ASSUME NEW a \in [lo: 0..(Word - 1), hi: 0..(Word - 1)],
           NEW b \in [lo: 0..(Word - 1), hi: 0..(Word - 1)]
    PROVE  /\ multiplying(a, b) \in [lo: 0..(Word - 1), hi: 0..(Word - 1)]
           /\ Value(multiplying(a, b)) = (Value(a) * Value(b)) % Wide
<1> DEFINE low == mul64(a.lo, b.lo)
           cross == a.lo * b.hi + a.hi * b.lo
           n == a.lo * b.lo
<1>1. /\ Word \in Nat \ {0} /\ Wide = Word * Word /\ Wide \in Nat \ {0}
      /\ a.lo \in 0..(Word - 1) /\ a.hi \in 0..(Word - 1)
      /\ b.lo \in 0..(Word - 1) /\ b.hi \in 0..(Word - 1)
  BY Words
<1>2. /\ low \in [lo: 0..(Word - 1), hi: 0..(Word - 1)] /\ Value(low) = n % Wide
  BY <1>1, WordProduct
<1>3. multiplying(a, b) = U(low.lo, low.hi + cross)
  <2>1. low.hi + a.lo * b.hi + a.hi * b.lo = low.hi + cross
    <3>1. a.lo * b.hi \in Int /\ a.hi * b.lo \in Int /\ low.hi \in Int
      BY <1>1, <1>2
    <3> HIDE DEF low
    <3> QED BY <3>1
  <2> QED BY <2>1 DEF multiplying
<1> HIDE DEF low
<1>4. low.lo \in 0..(Word - 1) /\ low.hi \in 0..(Word - 1) /\ Value(low) = low.lo + low.hi * Word
  BY <1>2 DEF Value
<1>5. cross \in Int /\ n \in Int
  BY <1>1
<1>6. low.lo \div Word = 0
  BY <1>1, <1>4, NearRemainders
<1> HIDE DEF n, cross
<1> DEFINE h == low.hi + cross
<1>7. h \in Int
  BY <1>4, <1>5
<1>8. /\ U(low.lo, h) \in [lo: 0..(Word - 1), hi: 0..(Word - 1)]
      /\ Value(U(low.lo, h)) = (low.lo + h * Word) % Wide
  <2>1. h + (low.lo \div Word) = h
    BY <1>6, <1>7
  <2> HIDE DEF h
  <2>2. /\ U(low.lo, h) \in [lo: 0..(Word - 1), hi: 0..(Word - 1)]
        /\ Value(U(low.lo, h + (low.lo \div Word))) = (low.lo + h * Word) % Wide
    <3>1. low.lo \in Int
      BY <1>1, <1>4
    <3> QED BY <1>7, <3>1, Words
  <2> QED BY <2>1, <2>2
<1>9. low.lo + h * Word = (n % Wide) + cross * Word
  <2>1. h * Word = low.hi * Word + cross * Word
    BY <1>1, <1>4, <1>5, Z3
  <2>2. low.hi * Word \in Int /\ cross * Word \in Int
    BY <1>1, <1>4, <1>5
  <2> HIDE DEF h
  <2> QED BY <1>2, <1>4, <2>1, <2>2
<1>10. ((n % Wide) + cross * Word) % Wide = (n + cross * Word) % Wide
  <2>1. cross * Word \in Int
    BY <1>1, <1>5
  <2> QED BY <1>1, <1>5, <2>1, SumOfRemainders
<1>11. Value(a) * Value(b) = (n + cross * Word) + (a.hi * b.hi) * Wide
  <2>1. Value(a) * Value(b) = (a.lo + a.hi * Word) * (b.lo + b.hi * Word)
    BY DEF Value
  <2>2. (a.lo + a.hi * Word) * (b.lo + b.hi * Word)
          = (a.lo * b.lo + (a.lo * b.hi + a.hi * b.lo) * Word) + (a.hi * b.hi) * (Word * Word)
    BY <1>1, Z3
  <2> QED BY <1>1, <2>1, <2>2 DEF n, cross
<1>12. ((n + cross * Word) + (a.hi * b.hi) * Wide) % Wide = (n + cross * Word) % Wide
  <2>1. n + cross * Word \in Int /\ a.hi * b.hi \in Int
    BY <1>1, <1>5
  <2> QED BY <1>1, <2>1, Multiples
<1> QED BY <1>3, <1>8, <1>9, <1>10, <1>11, <1>12

\* The complement and one: the negative.
LEMMA NegativeWraps ==
    ASSUME NEW a \in [lo: 0..(Word - 1), hi: 0..(Word - 1)]
    PROVE  /\ negated(a) \in [lo: 0..(Word - 1), hi: 0..(Word - 1)]
           /\ Value(negated(a)) = (-Value(a)) % Wide
<1> DEFINE c == U(Word - 1 - a.lo, Word - 1 - a.hi)
           one == U(1, 0)
           Pairs == [lo: 0..(Word - 1), hi: 0..(Word - 1)]
<1>1. /\ Word \in Nat \ {0} /\ Wide = Word * Word /\ Wide \in Nat \ {0}
      /\ a.lo \in 0..(Word - 1) /\ a.hi \in 0..(Word - 1)
      /\ Value(a) = a.lo + a.hi * Word /\ Value(a) \in 0..(Wide - 1)
  BY Words, OperandValue
<1>2. c \in Pairs /\ Value(c) = (-1 - Value(a)) % Wide
  <2> DEFINE lo == Word - 1 - a.lo
             hi == Word - 1 - a.hi
  <2>1. lo \in 0..(Word - 1) /\ lo \in Int /\ hi \in Int
    BY <1>1
  <2>2. lo + hi * Word = (-1 - Value(a)) + 1 * Wide
    <3>1. (Word - 1 - a.hi) * Word = Word * Word - Word - a.hi * Word
      BY <1>1, Z3
    <3>2. a.hi * Word \in Int /\ Word * Word \in Int
      BY <1>1
    <3> QED BY <1>1, <3>1, <3>2
  <2> HIDE DEF lo, hi
  <2>3. lo \div Word = 0 /\ hi + (lo \div Word) = hi
    <3>1. lo \div Word = 0
      BY <1>1, <2>1, NearRemainders
    <3> QED BY <2>1, <3>1
  <2>4. U(lo, hi) \in Pairs /\ Value(U(lo, hi + (lo \div Word))) = (lo + hi * Word) % Wide
    BY <2>1, Words
  <2>5. ((-1 - Value(a)) + 1 * Wide) % Wide = (-1 - Value(a)) % Wide
    <3>1. -1 - Value(a) \in Int /\ 1 \in Int
      BY <1>1
    <3> HIDE DEF lo, hi
    <3> QED BY <1>1, <3>1, Multiples
  <2> QED BY <2>2, <2>3, <2>4, <2>5 DEF lo, hi
<1>3. one \in Pairs /\ Value(one) = 1 % Wide
  <2>1. one \in Pairs
    BY Words
  <2>2. Value(U(1, 0 + (1 \div Word))) = (1 + 0 * Word) % Wide
    BY Words
  <2> HIDE DEF one, Pairs
  <2>3. CASE Word = 1
    <3>1. Wide = 1
      BY <1>1, <2>3
    <3>2. Value(one) \in 0..(Wide - 1)
      BY <2>1, OperandValue DEF Pairs
    <3>3. 1 % Wide = 0
      BY <3>1
    <3>4. Value(one) = 0
      BY <3>1, <3>2
    <3> QED BY <2>1, <3>3, <3>4
  <2>4. CASE Word # 1
    <3>1. 1 \div Word = 0
      <4>1. 1 \in 0..(Word - 1)
        BY <1>1, <2>4
      <4> QED BY <1>1, <4>1, NearRemainders
    <3>2. 0 + (1 \div Word) = 0 /\ 1 + 0 * Word = 1
      BY <1>1, <3>1
    <3> QED BY <2>1, <2>2, <3>2 DEF one
  <2> QED BY <2>3, <2>4
<1>4. negated(a) = adding(c, one)
  BY DEF negated
<1> HIDE DEF c, one
<1>5. negated(a) \in Pairs /\ Value(negated(a)) = (Value(c) + Value(one)) % Wide
  BY <1>2, <1>3, <1>4, SumWraps
<1>6. (Value(c) + Value(one)) % Wide = (-Value(a)) % Wide
  <2> DEFINE x == -1 - Value(a)
  <2>1. x \in Int /\ 1 + x = -Value(a) /\ 1 % Wide \in Int
    <3>1. 1 % Wide \in Int
      BY <1>1, Divides
    <3> QED BY <1>1, <3>1
  <2> HIDE DEF x
  <2>2. ((x % Wide) + (1 % Wide)) % Wide = (x + (1 % Wide)) % Wide
    BY <1>1, <2>1, SumOfRemainders
  <2>3. x + (1 % Wide) = (1 % Wide) + x
    BY <2>1
  <2>4. ((1 % Wide) + x) % Wide = (1 + x) % Wide
    <3> DEFINE i == 1
    <3>1. i \in Int
      OBVIOUS
    <3> HIDE DEF i
    <3>2. ((i % Wide) + x) % Wide = (i + x) % Wide
      BY <1>1, <2>1, <3>1, SumOfRemainders
    <3> QED BY <3>2 DEF i
  <2> QED BY <1>2, <1>3, <2>1, <2>2, <2>3, <2>4 DEF x
<1> QED BY <1>5, <1>6

\* What is congruent: two numbers with the same remainder have products with the same.
LEMMA ProductOfRemainders ==
    ASSUME NEW d \in Nat \ {0}, NEW x \in Int, NEW y \in Int
    PROVE  ((x % d) * y) % d = (x * y) % d
<1> DEFINE q == x \div d
           r == x % d
<1>1. q \in Int /\ r \in 0..(d - 1) /\ x = d * q + r
  BY Divides
<1> HIDE DEF q, r
<1>2. x * y = r * y + (q * y) * d
  BY <1>1, Z3
<1>3. (r * y + (q * y) * d) % d = (r * y) % d
  <2>1. r * y \in Int /\ q * y \in Int
    BY <1>1
  <2> QED BY <2>1, Multiples
<1> QED BY <1>2, <1>3 DEF r

\* The product of remainders, one or both.
LEMMA ProductOfBoth ==
    ASSUME NEW d \in Nat \ {0}, NEW x \in Int, NEW y \in Int
    PROVE  ((x % d) * (y % d)) % d = (x * y) % d
<1> DEFINE r == x % d
           s == y % d
<1>1. r \in Int /\ s \in Int
  BY Divides
<1>2. (r * s) % d = (x * s) % d
  <2> HIDE DEF s
  <2> QED BY <1>1, ProductOfRemainders
<1>3. (s * x) % d = (y * x) % d
  <2> HIDE DEF r
  <2> QED BY ProductOfRemainders
<1> HIDE DEF r, s
<1>4. x * s = s * x /\ y * x = x * y
  BY <1>1, Z3
<1>5. (r * s) % d = (x * y) % d
  BY <1>2, <1>3, <1>4
<1> QED BY <1>5 DEF r, s

\* What an operand is worth as a signed one, and what its magnitude is.
LEMMA Magnitudes ==
    ASSUME NEW a \in [lo: 0..(Word - 1), hi: 0..(Word - 1)]
    PROVE  /\ SignedValue(a) \in Int /\ SignedValue(a) % Wide = Value(a)
           /\ magnitude(a) \in [lo: 0..(Word - 1), hi: 0..(Word - 1)]
           /\ Value(magnitude(a)) = ((IF isNegative(a) THEN -1 ELSE 1) * Value(a)) % Wide
<1> DEFINE Pairs == [lo: 0..(Word - 1), hi: 0..(Word - 1)]
           x == Value(a)
<1>1. Wide \in Nat \ {0} /\ x \in 0..(Wide - 1) /\ x \in Int
  BY Words, OperandValue
<1>2. negated(a) \in Pairs /\ Value(negated(a)) = (-x) % Wide /\ a \in Pairs
  BY NegativeWraps
<1>3. SignedValue(a) = x \/ SignedValue(a) = x - Wide
  BY DEF SignedValue
<1> HIDE DEF Pairs, x
<1>4. x % Wide = x /\ (x - Wide) % Wide = x
  BY <1>1, NearRemainders
<1>5. SignedValue(a) \in Int /\ SignedValue(a) % Wide = x
  BY <1>1, <1>3, <1>4
<1>6. (-1) * x = -x /\ 1 * x = x
  BY <1>1
<1>7. magnitude(a) \in Pairs /\ Value(magnitude(a)) = ((IF isNegative(a) THEN -1 ELSE 1) * x) % Wide
  <2>1. CASE isNegative(a)
    BY <1>2, <1>6, <2>1 DEF magnitude
  <2>2. CASE ~isNegative(a)
    <3>1. Value(a) = x
      BY DEF x
    <3> QED BY <1>2, <1>4, <1>6, <2>2, <3>1 DEF magnitude
  <2> QED BY <2>1, <2>2
<1> QED BY <1>5, <1>7 DEF Pairs, x

\* The signed product: the product of the magnitudes, and its sign.
LEMMA SignedProductWraps ==
    ASSUME NEW a \in [lo: 0..(Word - 1), hi: 0..(Word - 1)],
           NEW b \in [lo: 0..(Word - 1), hi: 0..(Word - 1)]
    PROVE  Value(intMultiplying(a, b)) = (SignedValue(a) * SignedValue(b)) % Wide
<1> DEFINE Pairs == [lo: 0..(Word - 1), hi: 0..(Word - 1)]
           x == Value(a)
           y == Value(b)
           s == IF isNegative(a) THEN -1 ELSE 1
           t == IF isNegative(b) THEN -1 ELSE 1
           m == multiplying(magnitude(a), magnitude(b))
<1>1. Wide \in Nat \ {0} /\ x \in Int /\ y \in Int /\ x \in 0..(Wide - 1) /\ y \in 0..(Wide - 1)
  BY Words, OperandValue
<1>2. /\ SignedValue(a) \in Int /\ SignedValue(a) % Wide = x
      /\ SignedValue(b) \in Int /\ SignedValue(b) % Wide = y
      /\ magnitude(a) \in Pairs /\ Value(magnitude(a)) = (s * x) % Wide
      /\ magnitude(b) \in Pairs /\ Value(magnitude(b)) = (t * y) % Wide
  BY Magnitudes
<1>3. (SignedValue(a) * SignedValue(b)) % Wide = (x * y) % Wide
  <2> DEFINE sx == SignedValue(a)
             sy == SignedValue(b)
  <2>1. sx \in Int /\ sx % Wide = x /\ sy \in Int /\ sy % Wide = y
    BY <1>2
  <2> HIDE DEF sx, sy, x, y
  <2>2. ((sx % Wide) * (sy % Wide)) % Wide = (sx * sy) % Wide
    BY <1>1, <2>1, ProductOfBoth
  <2>3. (sx * sy) % Wide = (x * y) % Wide
    BY <2>1, <2>2
  <2> QED BY <2>3 DEF sx, sy
<1>4. m \in Pairs /\ Value(m) = (Value(magnitude(a)) * Value(magnitude(b))) % Wide
  BY <1>2, ProductWraps
<1>5. s \in {-1, 1} /\ t \in {-1, 1} /\ s * x \in Int /\ t * y \in Int
  BY <1>1
<1>6. /\ s # t => intMultiplying(a, b) = negated(m)
      /\ s = t => intMultiplying(a, b) = m
  <2> HIDE DEF m, x, y
  <2> DEFINE differ == isNegative(a) # isNegative(b)
  <2>1. intMultiplying(a, b) = IF differ THEN negated(m) ELSE m
    BY DEF intMultiplying, m
  <2>2. differ <=> s # t
    <3>1. CASE isNegative(a)
      BY <3>1 DEF isNegative
    <3>2. CASE ~isNegative(a)
      BY <3>2 DEF isNegative
    <3> QED BY <3>1, <3>2
  <2> HIDE DEF differ, s, t
  <2> QED BY <2>1, <2>2
<1>7. Value(negated(m)) = (-Value(m)) % Wide /\ Value(m) \in 0..(Wide - 1)
  BY <1>4, NegativeWraps, OperandValue
<1> HIDE DEF x, y, s, t, m, Pairs
<1>8. Value(m) = ((s * x) * (t * y)) % Wide
  <2> DEFINE p == s * x
             q == t * y
  <2>1. p \in Int /\ q \in Int /\ Value(m) = ((p % Wide) * (q % Wide)) % Wide
    BY <1>2, <1>4, <1>5
  <2> HIDE DEF p, q
  <2>2. ((p % Wide) * (q % Wide)) % Wide = (p * q) % Wide
    BY <1>1, <2>1, ProductOfBoth
  <2>3. Value(m) = (p * q) % Wide
    BY <2>1, <2>2
  <2> QED BY <2>3 DEF p, q
<1>9. CASE s = t
  <2>1. (s * x) * (t * y) = x * y
    <3>1. CASE s = 1 /\ t = 1
      BY <1>1, <3>1
    <3>2. CASE s = -1 /\ t = -1
      BY <1>1, <3>2, Z3
    <3> QED BY <1>5, <1>9, <3>1, <3>2
  <2> QED BY <1>3, <1>6, <1>8, <1>9, <2>1
<1>10. CASE s # t
  <2> DEFINE z == (s * x) * (t * y)
  <2>1. z = -(x * y) /\ x * y \in Int
    <3>1. CASE s = 1 /\ t = -1
      BY <1>1, <3>1, Z3
    <3>2. CASE s = -1 /\ t = 1
      BY <1>1, <3>2, Z3
    <3> QED BY <1>5, <1>10, <3>1, <3>2
  <2> DEFINE u == x * y
             w == -u
  <2>2. Value(m) = w % Wide /\ u \in Int /\ w \in Int
    BY <1>8, <2>1
  <2> DEFINE i == -1
  <2>3. i \in Int /\ w * i = u
    BY <2>2
  <2>4. -Value(m) = (w % Wide) * i
    BY <1>1, <1>7, <2>2
  <2> HIDE DEF u, w, i
  <2>5. ((w % Wide) * i) % Wide = (w * i) % Wide
    BY <1>1, <2>2, <2>3, ProductOfRemainders
  <2>6. Value(negated(m)) = u % Wide
    BY <1>7, <2>3, <2>4, <2>5
  <2>7. intMultiplying(a, b) = negated(m) /\ u % Wide = (x * y) % Wide
    BY <1>6, <1>10 DEF u
  <2> HIDE DEF z, w, i, u
  <2> QED BY <1>3, <2>6, <2>7
<1> QED BY <1>9, <1>10

\* Only Arithmetic leaves arithmetic behind.
LEMMA OnlyArithmetic == TypesNext => Arithmetic \/ work'.op # "arithmetic"
<1>1. WideText => work'.op # "arithmetic"
  BY DEF WideText
<1>2. WideValue => work'.op # "arithmetic"
  BY DEF WideValue
<1>3. AssetText => work'.op # "arithmetic"
  BY DEF AssetText
<1>4. SymbolText => work'.op # "arithmetic"
  BY DEF SymbolText
<1>5. DateText => work'.op # "arithmetic"
  BY DEF DateText
<1>6. BytesText => work'.op # "arithmetic"
  BY DEF BytesText
<1>7. KeyText => work'.op # "arithmetic"
  BY DEF KeyText
<1>8. LinkText => work'.op # "arithmetic"
  BY DEF LinkText
<1>9. NameText => work'.op # "arithmetic"
  BY DEF NameText
<1> QED BY <1>1, <1>2, <1>3, <1>4, <1>5, <1>6, <1>7, <1>8, <1>9 DEF TypesNext

\* For any size of a limb and any operands: 128-bit sums, differences and products are the
\* mathematical ones, cut to 128 bits (integer.hpp:66-75, integer.cpp:249-292, 329-336).
THEOREM ArithmeticAlwaysWraps == TypesSpec => []ArithmeticWraps
<1>1. TypesInit => ArithmeticWraps
  BY DEF TypesInit, ArithmeticWraps
<1>2. ASSUME ArithmeticWraps, [TypesNext]_typesVars PROVE ArithmeticWraps'
  <2>1. CASE Arithmetic
    <3>1. PICK a \in Operands, b \in Operands :
            /\ work'.a = a /\ work'.b = b
            /\ work'.add = adding(a, b) /\ work'.sub = subtracting(a, b)
            /\ work'.mul = multiplying(a, b) /\ work'.imul = intMultiplying(a, b)
      BY <2>1 DEF Arithmetic
    <3> DEFINE Pairs == [lo: 0..(Word - 1), hi: 0..(Word - 1)]
    <3>2. a \in Pairs /\ b \in Pairs
      BY TypesAssumption DEF Word
    <3> QED BY <3>1, <3>2, SumWraps, DifferenceWraps, ProductWraps, SignedProductWraps DEF ArithmeticWraps
  <2>2. CASE UNCHANGED typesVars
    BY <1>2, <2>2 DEF ArithmeticWraps, typesVars
  <2>3. CASE TypesNext /\ work'.op # "arithmetic"
    BY <2>3 DEF ArithmeticWraps
  <2>4. TypesNext => Arithmetic \/ work'.op # "arithmetic"
    BY OnlyArithmetic
  <2> QED BY <1>2, <2>1, <2>2, <2>3, <2>4
<1> QED BY <1>1, <1>2, PTL DEF TypesSpec

-----------------------------------------------------------------------------
(* Numbers: quotients of 128 bits *)

\* What the powers of two are, up to some power.
PowersOf(n, f) == f = [i \in 0..n |-> IF i = 0 THEN 1 ELSE 2 * f[i - 1]]

\* There is such a function.
LEMMA PowersExist ==
    ASSUME NEW n \in Nat
    PROVE  \E f : PowersOf(n, f)
<1> DEFINE Missing == {m \in Nat : ~\E f : PowersOf(m, f)}
           m == Min(Missing)
<1> SUFFICES ASSUME n \in Missing PROVE FALSE
  OBVIOUS
<1>1. m \in Missing /\ \A k \in Missing : m <= k
  <2>1. Missing \in SUBSET Nat /\ Missing # {}
    OBVIOUS
  <2> HIDE DEF Missing
  <2> QED BY <2>1, HasFirst
<1> HIDE DEF m
<1>2. m # 0
  <2> SUFFICES \E f : PowersOf(0, f)
    BY <1>1
  <2>1. PowersOf(0, [i \in 0..0 |-> 1])
    BY DEF PowersOf
  <2> QED BY <2>1
<1>3. m - 1 \in Nat /\ m \in Nat /\ m - 1 \notin Missing
  BY <1>1, <1>2
<1>4. PICK f : PowersOf(m - 1, f)
  BY <1>3
<1> DEFINE g == [i \in 0..m |-> IF i = m THEN 2 * f[m - 1] ELSE f[i]]
           G(i) == IF i = 0 THEN 1 ELSE 2 * g[i - 1]
<1>5. ASSUME NEW i \in 0..m PROVE g[i] = G(i)
  <2>1. CASE i = m
    BY <1>2, <1>3, <2>1
  <2>2. CASE i # m
    <3>1. i \in 0..(m - 1) /\ (i # 0 => i - 1 \in 0..m /\ i - 1 # m)
      BY <1>3, <2>2
    <3>2. f[i] = IF i = 0 THEN 1 ELSE 2 * f[i - 1]
      BY <1>4, <3>1 DEF PowersOf
    <3> QED BY <2>2, <3>1, <3>2
  <2> QED BY <2>1, <2>2
<1>6. PowersOf(m, g)
  <2>1. g = [i \in 0..m |-> g[i]]
    OBVIOUS
  <2> HIDE DEF g
  <2>2. g = [i \in 0..m |-> G(i)]
    BY <1>5, <2>1
  <2> QED BY <2>2 DEF PowersOf
<1> QED BY <1>1, <1>6

\* The powers of two of a number of two words.
LEMMA Powers ==
    /\ WideBits \in Nat /\ PowerOfTwo[WideBits] = Wide
    /\ PowerOfTwo[0] = 1
    /\ \A i \in 0..WideBits : PowerOfTwo[i] \in Nat \ {0}
    /\ \A i \in 0..(WideBits - 1) : PowerOfTwo[i + 1] = 2 * PowerOfTwo[i]
<1> DEFINE p == PowerOfTwo
<1>1. WideBits \in Nat /\ p[WideBits] = Wide
  BY TypesAssumption DEF Wide, Word
<1>2. PowersOf(WideBits, p)
  <2>1. p = CHOOSE f : PowersOf(WideBits, f)
    BY DEF PowerOfTwo, PowersOf
  <2> HIDE DEF p
  <2> QED BY <1>1, <2>1, PowersExist
<1> HIDE DEF p
<1>3. \A i \in 0..WideBits : p[i] = IF i = 0 THEN 1 ELSE 2 * p[i - 1]
  BY <1>2 DEF PowersOf
<1> DEFINE Odd == {k \in Nat : k <= WideBits /\ p[k] \notin Nat \ {0}}
<1>4. Odd = {}
  <2> SUFFICES ASSUME Odd # {} PROVE FALSE
    OBVIOUS
  <2> DEFINE m == Min(Odd)
  <2>1. m \in Odd /\ \A k \in Odd : m <= k
    <3>1. Odd \in SUBSET Nat
      OBVIOUS
    <3> HIDE DEF Odd
    <3> QED BY <3>1, HasFirst
  <2> HIDE DEF m
  <2>2. m \in 0..WideBits /\ p[m] \notin Nat \ {0}
    BY <1>1, <2>1
  <2>3. m # 0 /\ p[m] = 2 * p[m - 1]
    BY <1>3, <2>2
  <2>4. p[m - 1] \in Nat \ {0}
    BY <1>1, <2>1, <2>2, <2>3
  <2> QED BY <2>2, <2>3, <2>4
<1>5. \A i \in 0..WideBits : p[i] \in Nat \ {0}
  BY <1>1, <1>4
<1>6. \A i \in 0..(WideBits - 1) : p[i + 1] = 2 * p[i]
  <2> SUFFICES ASSUME NEW i \in 0..(WideBits - 1) PROVE p[i + 1] = 2 * p[i]
    OBVIOUS
  <2>1. i + 1 \in 0..WideBits /\ i + 1 # 0 /\ (i + 1) - 1 = i
    BY <1>1
  <2> QED BY <1>3, <2>1
<1>7. p[0] = 1
  BY <1>1, <1>3
<1> QED BY <1>1, <1>5, <1>6, <1>7 DEF p

\* Half of a quotient is the quotient by twice as much, and what is left is the lowest bit.
LEMMA NextBit ==
    ASSUME NEW n \in Nat, NEW d \in Nat \ {0}
    PROVE  LET bit == (n \div d) % 2
           IN  bit \in {0, 1} /\ n \div (2 * d) \in Nat /\ n \div d \in Nat
               /\ n \div d = 2 * (n \div (2 * d)) + bit /\ n \div d <= n
<1> DEFINE q == n \div d
           r == n % d
           h == q \div 2
           bit == q % 2
<1>1. q \in Int /\ r \in 0..(d - 1) /\ n = d * q + r
  BY Divides
<1>2. h \in Int /\ bit \in 0..1 /\ q = 2 * h + bit
  <2> HIDE DEF q
  <2> QED BY <1>1
<1> HIDE DEF q, r, h, bit
<1>3. q >= 0 /\ q <= n
  <2>1. CASE q >= 0
    <3>1. (d - 1) * q >= 0 /\ d * q = (d - 1) * q + q /\ d * q \in Int /\ (d - 1) * q \in Int
      BY <1>1, <2>1, Z3
    <3> QED BY <1>1, <2>1, <3>1
  <2>2. CASE q <= -1
    <3>1. d * q <= -d
      BY <1>1, <2>2, Z3
    <3> QED BY <1>1, <3>1
  <2> QED BY <1>1, <2>1, <2>2
<1>4. n \div (2 * d) = h
  <2> DEFINE c == 2 * d
             s == bit * d + r
  <2>1. c \in Nat \ {0}
    OBVIOUS
  <2>2. s \in 0..(c - 1)
    BY <1>1, <1>2
  <2>3. n = c * h + s
    BY <1>1, <1>2, Z3
  <2> HIDE DEF c, s
  <2>4. (c * h + s) \div c = h
    BY <1>2, <2>1, <2>2, RemainderIs
  <2> QED BY <2>3, <2>4 DEF c
<1>5. h >= 0
  BY <1>2, <1>3
<1> QED BY <1>1, <1>2, <1>3, <1>4, <1>5 DEF q, bit

\* Comparing the words is comparing the numbers.
LEMMA WordsCompared ==
    ASSUME NEW a \in [lo: 0..(Word - 1), hi: 0..(Word - 1)],
           NEW b \in [lo: 0..(Word - 1), hi: 0..(Word - 1)]
    PROVE  AtLeast(a, b) <=> Value(a) >= Value(b)
<1>1. /\ Word \in Nat \ {0} /\ a.lo \in 0..(Word - 1) /\ a.hi \in 0..(Word - 1)
      /\ b.lo \in 0..(Word - 1) /\ b.hi \in 0..(Word - 1)
      /\ Value(a) = a.lo + a.hi * Word /\ Value(b) = b.lo + b.hi * Word
  BY Words, OperandValue
<1> DEFINE W == Word
<1>2. CASE a.hi > b.hi
  <2>1. (a.hi - b.hi) * W >= W /\ (a.hi - b.hi) * W \in Int
    BY <1>1, <1>2, Z3
  <2>2. a.hi * W = b.hi * W + (a.hi - b.hi) * W
    BY <1>1, Z3
  <2> QED BY <1>1, <1>2, <2>1, <2>2 DEF AtLeast
<1>3. CASE a.hi = b.hi
  BY <1>1, <1>3 DEF AtLeast
<1>4. CASE b.hi > a.hi
  <2>1. (b.hi - a.hi) * W >= W /\ (b.hi - a.hi) * W \in Int
    BY <1>1, <1>4, Z3
  <2>2. b.hi * W = a.hi * W + (b.hi - a.hi) * W
    BY <1>1, Z3
  <2> QED BY <1>1, <1>4, <2>1, <2>2 DEF AtLeast
<1> QED BY <1>1, <1>2, <1>3, <1>4

\* A number doubled, and a bit put behind it, loses nothing as long as it fits.
LEMMA Doubles ==
    ASSUME NEW a \in [lo: 0..(Word - 1), hi: 0..(Word - 1)], NEW bit \in {0, 1}
    PROVE  /\ doubled(a) \in [lo: 0..(Word - 1), hi: 0..(Word - 1)]
           /\ Value(doubled(a)) = (2 * Value(a)) % Wide
           /\ U(doubled(a).lo + bit, doubled(a).hi) \in [lo: 0..(Word - 1), hi: 0..(Word - 1)]
           /\ Value(U(doubled(a).lo + bit, doubled(a).hi)) = ((2 * Value(a)) % Wide) + bit
<1> DEFINE Pairs == [lo: 0..(Word - 1), hi: 0..(Word - 1)]
           d == doubled(a)
           x == 2 * a.lo
           y == 2 * a.hi
           half == (Limb \div 2) * Limb
<1>1. /\ Word \in Nat \ {0} /\ a.lo \in 0..(Word - 1) /\ a.hi \in 0..(Word - 1)
      /\ Value(a) = a.lo + a.hi * Word
  BY Words, OperandValue
<1>2. half \in Nat \ {0} /\ Word = 2 * half
  <2> DEFINE k == Limb \div 2
  <2>1. Limb \in Nat \ {0} /\ k \in Nat \ {0} /\ Limb = 2 * k
    BY TypesAssumption
  <2> HIDE DEF k
  <2>2. k * Limb \in Nat \ {0} /\ Limb * Limb = 2 * (k * Limb)
    BY <2>1, Z3
  <2> QED BY <2>2 DEF Word, k
<1>3. x \in Int /\ y \in Int /\ x + y * Word = 2 * Value(a)
  BY <1>1, Z3
<1>4. d = U(x, y + (x \div Word))
  BY DEF doubled
<1> HIDE DEF x, y
<1>5. d \in Pairs /\ Value(d) = (2 * Value(a)) % Wide
  <2> DEFINE z == y + (x \div Word)
  <2>1. (x \div Word) \in Int
    BY <1>1, <1>3, Divides
  <2>2. z \in Int
    BY <1>3, <2>1
  <2>3. Value(U(x, z)) = (x + y * Word) % Wide
    BY <1>3, Words
  <2> HIDE DEF z
  <2>4. U(x, z) \in Pairs
    BY <1>3, <2>2, Words
  <2>5. d = U(x, z)
    BY <1>4 DEF z
  <2> HIDE DEF d
  <2> QED BY <1>3, <2>3, <2>4, <2>5
<1>6. d.lo = x % Word
  BY <1>4 DEF U
<1>7. d.lo <= Word - 2
  <2> DEFINE v == a.lo \div half
             w == a.lo % half
             s == 2 * w
  <2> HIDE DEF half
  <2> DEFINE u == a.lo
  <2>1. v \in Int /\ w \in 0..(half - 1) /\ a.lo = half * v + w
    <3>1. u \in Int /\ half \in Nat \ {0}
      BY <1>1, <1>2
    <3> HIDE DEF u
    <3>2. u \div half \in Int /\ u % half \in 0..(half - 1) /\ u = half * (u \div half) + (u % half)
      BY <3>1, Divides
    <3> QED BY <3>2 DEF u
  <2> HIDE DEF v, w
  <2>2. s \in 0..(Word - 1) /\ s <= Word - 2
    BY <1>2, <2>1
  <2>3. x = Word * v + s
    <3>1. x = 2 * (half * v + w)
      BY <2>1 DEF x
    <3> QED BY <1>2, <2>1, <3>1, Z3
  <2> HIDE DEF s
  <2>4. (Word * v + s) % Word = s
    BY <1>1, <2>1, <2>2, RemainderIs
  <2> QED BY <1>6, <2>2, <2>3, <2>4
<1> HIDE DEF d, half
<1>8. d.lo \in 0..(Word - 1) /\ d.hi \in 0..(Word - 1) /\ Value(d) = d.lo + d.hi * Word
  BY <1>5, OperandValue
<1>9. (d.lo + bit) \in 0..(Word - 1)
  BY <1>1, <1>7, <1>8
<1> DEFINE e == d.lo + bit
<1>10. e % Word = e /\ d.hi % Word = d.hi
  <2> HIDE DEF e
  <2> QED BY <1>1, <1>8, <1>9, NearRemainders DEF e
<1>11. U(e, d.hi) = [lo |-> e, hi |-> d.hi]
  BY <1>10 DEF U
<1>12. U(e, d.hi) \in Pairs /\ Value(U(e, d.hi)) = e + d.hi * Word
  BY <1>8, <1>9, <1>11 DEF Value
<1>13. e + d.hi * Word = Value(d) + bit
  BY <1>1, <1>8
<1> QED BY <1>5, <1>12, <1>13 DEF d

\* What divmod128 does at one bit.
DivisionStep(num, den, acc, i) ==
    LET r == LET d == doubled(acc.rem) IN U(d.lo + Bit(num, i), d.hi)
    IN  IF AtLeast(r, den)
        THEN [rem |-> subtracting(r, den),
              quotient |-> adding(acc.quotient, U(PowerOfTwo[i] % Word, PowerOfTwo[i] \div Word))]
        ELSE [acc EXCEPT !.rem = r]

\* The bits of num from i on are divided, and the quotient has them in their place.
DividedTo(num, den, i, acc) ==
    /\ acc \in [rem: [lo: 0..(Word - 1), hi: 0..(Word - 1)],
                quotient: [lo: 0..(Word - 1), hi: 0..(Word - 1)]]
    /\ Value(acc.rem) < Value(den)
    /\ \E q \in Nat : /\ Value(acc.quotient) = q * PowerOfTwo[i]
                      /\ q * Value(den) + Value(acc.rem) = Value(num) \div PowerOfTwo[i]

\* A number of two words, put together from its quotient and remainder.
LEMMA InWords ==
    ASSUME NEW n \in 0..(Wide - 1)
    PROVE  /\ U(n % Word, n \div Word) \in [lo: 0..(Word - 1), hi: 0..(Word - 1)]
           /\ Value(U(n % Word, n \div Word)) = n
<1> DEFINE Pairs == [lo: 0..(Word - 1), hi: 0..(Word - 1)]
           lo == n % Word
           hi == n \div Word
<1>1. Word \in Nat \ {0} /\ Wide = Word * Word /\ Wide \in Nat \ {0} /\ n \in Int
  BY Words
<1>2. hi \in Int /\ lo \in 0..(Word - 1) /\ n = Word * hi + lo
  BY <1>1, Divides
<1>3. lo \in Int /\ lo \div Word = 0
  <2> HIDE DEF lo
  <2> QED BY <1>1, <1>2, NearRemainders
<1>4. Value(U(lo, hi + (lo \div Word))) = (lo + hi * Word) % Wide
  <2> HIDE DEF lo, hi
  <2> QED BY <1>2, <1>3, Words
<1>5. U(lo, hi) \in Pairs
  <2> HIDE DEF lo, hi
  <2> QED BY <1>2, <1>3, Words
<1> HIDE DEF lo, hi
<1>6. hi + (lo \div Word) = hi /\ lo + hi * Word = n
  BY <1>1, <1>2, <1>3, Z3
<1>7. n % Wide = n
  BY <1>1, NearRemainders
<1> QED BY <1>4, <1>5, <1>6, <1>7 DEF lo, hi

\* One bit more: the remainder is doubled and takes the bit, which overflows nothing, since
\* it is at most what the bits so far are worth.
LEMMA DivisionSteps ==
    ASSUME NEW num \in [lo: 0..(Word - 1), hi: 0..(Word - 1)],
           NEW den \in [lo: 0..(Word - 1), hi: 0..(Word - 1)], Value(den) # 0,
           NEW i \in 0..(WideBits - 1), NEW acc, DividedTo(num, den, i + 1, acc)
    PROVE  DividedTo(num, den, i, DivisionStep(num, den, acc, i))
<1> DEFINE Pairs == [lo: 0..(Word - 1), hi: 0..(Word - 1)]
           N == Value(num)
           D == Value(den)
           R == Value(acc.rem)
           p == PowerOfTwo[i]
           M == N \div (2 * p)
           bit == (N \div p) % 2
           r == U(doubled(acc.rem).lo + bit, doubled(acc.rem).hi)
           u == U(p % Word, p \div Word)
<1>1. Wide \in Nat \ {0} /\ N \in 0..(Wide - 1) /\ D \in 1..(Wide - 1)
  <2>1. Wide \in Nat \ {0} /\ N \in 0..(Wide - 1) /\ D \in 0..(Wide - 1) /\ D # 0
    BY Words, OperandValue
  <2> HIDE DEF N, D
  <2> QED BY <2>1
<1>2. p \in Nat \ {0} /\ PowerOfTwo[i + 1] = 2 * p
  BY Powers
<1>3. /\ acc.rem \in Pairs /\ acc.quotient \in Pairs /\ R < D /\ R \in 0..(Wide - 1)
      /\ acc = [rem |-> acc.rem, quotient |-> acc.quotient]
  <2>1. acc \in [rem: Pairs, quotient: Pairs] /\ R < D
    BY DEF DividedTo
  <2>2. acc.rem \in Pairs /\ acc.quotient \in Pairs /\ acc = [rem |-> acc.rem, quotient |-> acc.quotient]
    BY <2>1
  <2> QED BY <2>1, <2>2, OperandValue
<1>4. PICK q \in Nat : Value(acc.quotient) = q * (2 * p) /\ q * D + R = M
  BY <1>2 DEF DividedTo
<1>5. bit \in {0, 1} /\ M \in Nat /\ N \div p = 2 * M + bit /\ N \div p <= N /\ N \div p \in Nat
  <2>1. N \in Nat
    BY <1>1
  <2> HIDE DEF N, p
  <2> QED BY <1>2, <2>1, NextBit
<1>6. Bit(num, i) = bit
  BY DEF Bit, Value
<1>7. DivisionStep(num, den, acc, i) =
        IF AtLeast(r, den) THEN [rem |-> subtracting(r, den), quotient |-> adding(acc.quotient, u)]
        ELSE [rem |-> r, quotient |-> acc.quotient]
  <2>1. DivisionStep(num, den, acc, i) =
          IF AtLeast(r, den) THEN [rem |-> subtracting(r, den), quotient |-> adding(acc.quotient, u)]
          ELSE [acc EXCEPT !.rem = r]
    BY <1>6 DEF DivisionStep
  <2> HIDE DEF r, u
  <2>2. [acc EXCEPT !.rem = r] = [rem |-> r, quotient |-> acc.quotient]
    BY <1>3
  <2> QED BY <2>1, <2>2
<1> HIDE DEF bit, M
<1>8. r \in Pairs /\ Value(r) = ((2 * R) % Wide) + bit
  BY <1>3, <1>5, Doubles
<1> HIDE DEF N, D, R, p, u, r
<1>9. q * D \in Nat /\ R <= M /\ 2 * R \in 0..(Wide - 1)
  <2>1. q * D \in Nat
    BY <1>1
  <2> QED BY <1>1, <1>3, <1>4, <1>5, <2>1
<1>10. Value(r) = 2 * R + bit
  <2> DEFINE t == 2 * R
  <2> HIDE DEF t
  <2>1. t \in 0..(Wide - 1)
    BY <1>9 DEF t
  <2>2. t % Wide = t
    BY <1>1, <2>1, NearRemainders
  <2> QED BY <1>8, <2>2 DEF t
<1>11. AtLeast(r, den) <=> Value(r) >= D
  BY <1>8, WordsCompared DEF D
<1>12. CASE ~AtLeast(r, den)
  <2> DEFINE result == [rem |-> r, quotient |-> acc.quotient]
  <2>1. result \in [rem: Pairs, quotient: Pairs] /\ result.rem = r /\ result.quotient = acc.quotient
    BY <1>3, <1>8
  <2>2. Value(r) < D
    BY <1>1, <1>3, <1>5, <1>10, <1>11, <1>12
  <2>3. (2 * q) \in Nat /\ Value(acc.quotient) = (2 * q) * p /\ (2 * q) * D + Value(r) = N \div p
    <3>1. (2 * q) * D = 2 * (q * D) /\ q * (2 * p) = (2 * q) * p
      BY <1>1, <1>2, Z3
    <3> QED BY <1>1, <1>3, <1>4, <1>5, <1>9, <1>10, <3>1
  <2>4. DividedTo(num, den, i, result)
    <3> HIDE DEF result
    <3> QED BY <2>1, <2>2, <2>3 DEF DividedTo, N, D, p
  <2> QED BY <1>7, <1>12, <2>4
<1>13. CASE AtLeast(r, den)
  <2> DEFINE s == subtracting(r, den)
             t == adding(acc.quotient, u)
             result == [rem |-> s, quotient |-> t]
             k == 2 * q + 1
             v == 2 * R + bit - D
  <2>1. v \in 0..(Wide - 1) /\ v < D
    BY <1>1, <1>3, <1>5, <1>10, <1>11, <1>13
  <2>2. s \in Pairs /\ Value(s) = v
    <3>1. s \in Pairs
      <4>1. s = U(r.lo - den.lo, r.hi - den.hi - (IF den.lo > r.lo THEN 1 ELSE 0))
        BY DEF subtracting
      <4> DEFINE x == r.lo - den.lo
                 y == r.hi - den.hi - (IF den.lo > r.lo THEN 1 ELSE 0)
      <4>2. x \in Int /\ y \in Int
        <5>1. r.lo \in Int /\ r.hi \in Int /\ den.lo \in Int /\ den.hi \in Int
          <6>1. r.lo \in 0..(Word - 1) /\ r.hi \in 0..(Word - 1) /\ den.lo \in 0..(Word - 1) /\ den.hi \in 0..(Word - 1)
            BY <1>8, OperandValue
          <6> QED BY <6>1
        <5> QED BY <5>1
      <4> HIDE DEF x, y
      <4>3. U(x, y) \in Pairs
        BY <4>2, Words
      <4> QED BY <4>1, <4>3 DEF x, y
    <3>2. Value(s) = (Value(r) - D) % Wide
      BY <1>8, DifferenceWraps DEF D
    <3>3. Value(r) - D = v
      BY <1>1, <1>3, <1>5, <1>10
    <3> HIDE DEF v
    <3>4. v % Wide = v
      BY <1>1, <2>1, NearRemainders
    <3> QED BY <3>1, <3>2, <3>3, <3>4
  <2>3. k \in Nat /\ k * D + v = N \div p /\ k * D \in Nat
    <3>1. k * D = 2 * (q * D) + D
      BY <1>1, Z3
    <3> QED BY <1>1, <1>3, <1>4, <1>5, <1>9, <3>1
  <2> HIDE DEF k, v
  <2>4. k * p \in 0..(Wide - 1)
    <3>1. k <= N \div p
      <4>1. k * D >= k
        BY <1>1, <2>3, Z3
      <4> QED BY <1>5, <2>1, <2>3, <4>1
    <3>2. p * (N \div p) <= N
      <4>1. N \in Int /\ N % p \in 0..(p - 1) /\ N = p * (N \div p) + (N % p) /\ p * (N \div p) \in Int
        <5>1. N \in Int
          BY <1>1
        <5>2. N % p \in 0..(p - 1) /\ N = p * (N \div p) + (N % p) /\ N \div p \in Int
          BY <1>2, <5>1, Divides
        <5> QED BY <1>2, <5>1, <5>2
      <4> QED BY <1>2, <4>1
    <3>3. k * p <= p * (N \div p)
      BY <1>2, <1>5, <2>3, <3>1, Z3
    <3>4. k * p \in Nat /\ p * (N \div p) \in Nat
      BY <1>2, <1>5, <2>3
    <3> QED BY <1>1, <3>2, <3>3, <3>4
  <2>5. k * p = q * (2 * p) + p /\ q * (2 * p) \in Nat
    BY <1>2, Z3 DEF k
  <2>6. u \in Pairs /\ Value(u) = p
    <3>1. p \in 0..(Wide - 1)
      BY <1>1, <1>2, <2>4, <2>5
    <3> QED BY <3>1, InWords DEF u
  <2>7. t \in Pairs /\ Value(t) = k * p
    <3> DEFINE w == k * p
    <3>1. t \in Pairs /\ Value(t) = (Value(acc.quotient) + Value(u)) % Wide
      BY <1>3, <2>6, SumWraps
    <3>2. Value(acc.quotient) + Value(u) = w
      BY <1>4, <2>5, <2>6
    <3>3. w \in 0..(Wide - 1)
      BY <2>4
    <3> HIDE DEF w
    <3>4. w % Wide = w
      BY <1>1, <3>3, NearRemainders
    <3> QED BY <3>1, <3>2, <3>4 DEF w
  <2> HIDE DEF s, t
  <2>8. result \in [rem: Pairs, quotient: Pairs] /\ result.rem = s /\ result.quotient = t
    BY <2>2, <2>7
  <2>9. DividedTo(num, den, i, result)
    <3> HIDE DEF result
    <3> QED BY <2>1, <2>2, <2>3, <2>7, <2>8 DEF DividedTo, N, D, p
  <2> QED BY <1>7, <1>13, <2>9 DEF s, t
<1> QED BY <1>12, <1>13

\* What FoldLeft's function on the sets of places is for a division: s[k] is the bit of step k.
DivisionsOf(num, den, s, D, f) ==
    f = [I \in SUBSET D |->
            IF I = {} THEN [rem |-> U(0, 0), quotient |-> U(0, 0)]
            ELSE DivisionStep(num, den, f[I \ {Max(I)}], s[Max(I)])]

\* There is such a function.
LEMMA DivisionsExist ==
    ASSUME NEW num, NEW den, NEW s, NEW n \in Nat
    PROVE  \E f : DivisionsOf(num, den, s, 1..n, f)
<1> DEFINE none == [rem |-> U(0, 0), quotient |-> U(0, 0)]
           Missing == {m \in Nat : ~\E f : DivisionsOf(num, den, s, 1..m, f)}
           m == Min(Missing)
<1> SUFFICES ASSUME n \in Missing PROVE FALSE
  OBVIOUS
<1>1. m \in Missing /\ \A k \in Missing : m <= k
  <2>1. Missing \in SUBSET Nat /\ Missing # {}
    OBVIOUS
  <2> HIDE DEF Missing
  <2> QED BY <2>1, HasFirst
<1> HIDE DEF m
<1>2. m # 0
  <2> SUFFICES \E f : DivisionsOf(num, den, s, 1..0, f)
    BY <1>1
  <2> DEFINE g == [I \in SUBSET (1..0) |-> none]
  <2>1. \A I \in SUBSET (1..0) : I = {}
    OBVIOUS
  <2>2. g = [I \in SUBSET (1..0) |->
               IF I = {} THEN none ELSE DivisionStep(num, den, g[I \ {Max(I)}], s[Max(I)])]
    <3> HIDE DEF none
    <3> QED BY <2>1
  <2>3. DivisionsOf(num, den, s, 1..0, g)
    <3> HIDE DEF g
    <3> QED BY <2>2 DEF DivisionsOf
  <2> QED BY <2>3
<1>3. m - 1 \in Nat /\ m \in Nat /\ m - 1 \notin Missing
  BY <1>1, <1>2
<1>4. PICK f : DivisionsOf(num, den, s, 1..(m - 1), f)
  BY <1>3
<1> DEFINE g == [I \in SUBSET (1..m) |->
                    IF m \in I THEN DivisionStep(num, den, f[I \ {m}], s[m]) ELSE f[I]]
           G(I) == IF I = {} THEN none ELSE DivisionStep(num, den, g[I \ {Max(I)}], s[Max(I)])
<1> HIDE DEF none
<1>5. ASSUME NEW I \in SUBSET (1..m) PROVE g[I] = G(I)
  <2>1. CASE m \in I
    <3>1. Max(I) = m
      <4>1. \A y \in I : y \in Nat /\ m >= y
        BY <1>3
      <4>2. \A x \in I : (\A y \in I : x >= y) => x = m
        BY <1>3, <2>1, <4>1
      <4> QED BY <2>1, <4>1, <4>2 DEF Max
    <3>2. I \ {m} \in SUBSET (1..m) /\ g[I \ {m}] = f[I \ {m}] /\ I # {}
      BY <2>1
    <3> QED BY <2>1, <3>1, <3>2
  <2>2. CASE m \notin I
    <3>1. I \in SUBSET (1..(m - 1))
      BY <1>3, <2>2
    <3>2. f[I] = IF I = {} THEN none ELSE DivisionStep(num, den, f[I \ {Max(I)}], s[Max(I)])
      BY <1>4, <3>1 DEF DivisionsOf, none
    <3>3. I \ {Max(I)} \in SUBSET (1..m) /\ m \notin I \ {Max(I)}
      BY <2>2
    <3>4. g[I \ {Max(I)}] = f[I \ {Max(I)}] /\ g[I] = f[I]
      BY <2>2, <3>3
    <3> QED BY <3>2, <3>4
  <2> QED BY <2>1, <2>2
<1>6. DivisionsOf(num, den, s, 1..m, g)
  <2>1. g = [I \in SUBSET (1..m) |-> g[I]]
    OBVIOUS
  <2> HIDE DEF g
  <2>2. g = [I \in SUBSET (1..m) |-> G(I)]
    BY <1>5, <2>1
  <2> QED BY <2>2 DEF DivisionsOf, none
<1> QED BY <1>1, <1>6

\* Shift and subtract gives the quotient and the remainder.
LEMMA LongDivision ==
    ASSUME NEW num \in [lo: 0..(Word - 1), hi: 0..(Word - 1)],
           NEW den \in [lo: 0..(Word - 1), hi: 0..(Word - 1)], Value(den) # 0
    PROVE  LET q == divmod128(num, den)
           IN  /\ q.quotient \in [lo: 0..(Word - 1), hi: 0..(Word - 1)]
               /\ q.rem \in [lo: 0..(Word - 1), hi: 0..(Word - 1)]
               /\ Value(q.quotient) = Value(num) \div Value(den)
               /\ Value(q.rem) = Value(num) % Value(den)
<1> DEFINE Pairs == [lo: 0..(Word - 1), hi: 0..(Word - 1)]
           N == Value(num)
           D == Value(den)
           B == WideBits
           none == [rem |-> U(0, 0), quotient |-> U(0, 0)]
           s == [i \in 1..WideBits |-> WideBits - i]
           f == CHOOSE h : DivisionsOf(num, den, s, DOMAIN s, h)
           all == divmod128(num, den)
<1>1. all = f[DOMAIN s]
  BY DEF divmod128, FoldLeft, MapThenFoldSet, DivisionsOf, DivisionStep
<1>2. B \in Nat /\ DOMAIN s = 1..B /\ \A k \in 1..B : s[k] = B - k
  BY Powers
<1>3. DivisionsOf(num, den, s, 1..B, f)
  <2>1. \E h : DivisionsOf(num, den, s, 1..B, h)
    <3> HIDE DEF s
    <3> QED BY <1>2, DivisionsExist
  <2> HIDE DEF s
  <2> QED BY <1>2, <2>1
<1>4. Wide \in Nat \ {0} /\ N \in 0..(Wide - 1) /\ D \in 1..(Wide - 1)
  <2>1. Wide \in Nat \ {0} /\ N \in 0..(Wide - 1) /\ D \in 0..(Wide - 1) /\ D # 0
    BY Words, OperandValue
  <2> HIDE DEF N, D
  <2> QED BY <2>1
<1> HIDE DEF f, s, all
<1> DEFINE Odd == {k \in Nat : k <= B /\ ~DividedTo(num, den, B - k, f[1..k])}
<1>5. DividedTo(num, den, B, none)
  <2> DEFINE z == U(0, 0)
  <2>1. z \in Pairs /\ Value(z) = 0
    <3>1. 0 \in 0..(Wide - 1)
      BY <1>4
    <3>2. U(0 % Word, 0 \div Word) \in Pairs /\ Value(U(0 % Word, 0 \div Word)) = 0
      BY <3>1, InWords
    <3>3. 0 % Word = 0 /\ 0 \div Word = 0
      <4>1. Word \in Nat \ {0}
        BY Words
      <4>2. 0 \in 0..(Word - 1)
        BY <4>1
      <4> QED BY <4>1, <4>2, NearRemainders
    <3> QED BY <3>2, <3>3
  <2> HIDE DEF z
  <2>2. none \in [rem: Pairs, quotient: Pairs] /\ none.rem = z /\ none.quotient = z
    BY <2>1 DEF z
  <2>3. N \div PowerOfTwo[B] = 0 /\ PowerOfTwo[B] = Wide
    <3>1. N \div Wide = 0
      <4> HIDE DEF N
      <4> QED BY <1>4, NearRemainders
    <3> QED BY <3>1, Powers
  <2>4. 0 \in Nat /\ 0 = 0 * Wide /\ 0 * D + 0 = 0
    BY <1>4
  <2> HIDE DEF none, N, D
  <2> QED BY <1>4, <2>1, <2>2, <2>3, <2>4 DEF DividedTo, N, D
<1>6. Odd = {}
  <2> SUFFICES ASSUME Odd # {} PROVE FALSE
    OBVIOUS
  <2> DEFINE m == Min(Odd)
  <2>1. m \in Odd /\ \A k \in Odd : m <= k
    <3>1. Odd \in SUBSET Nat
      OBVIOUS
    <3> HIDE DEF Odd
    <3> QED BY <3>1, HasFirst
  <2> HIDE DEF m
  <2>2. m \in Nat /\ m <= B /\ ~DividedTo(num, den, B - m, f[1..m])
    BY <2>1
  <2>3. f[1..m] = IF 1..m = {} THEN none ELSE DivisionStep(num, den, f[(1..m) \ {Max(1..m)}], s[Max(1..m)])
    <3>1. 1..m \in SUBSET (1..B)
      BY <1>2, <2>2
    <3> QED BY <1>3, <3>1 DEF DivisionsOf
  <2>4. m # 0
    <3> SUFFICES ASSUME m = 0 PROVE FALSE
      OBVIOUS
    <3>1. f[1..m] = none /\ B - m = B
      <4>1. 1..m = {} /\ B - m = B
        BY <1>2
      <4> HIDE DEF none
      <4> QED BY <2>3, <4>1
    <3> QED BY <1>5, <2>2, <3>1
  <2>5. Max(1..m) = m /\ (1..m) \ {m} = 1..(m - 1) /\ 1..m # {}
    <3>1. m \in 1..m /\ (1..m) \ {m} = 1..(m - 1)
      BY <2>2, <2>4
    <3>2. /\ \A y \in 1..m : m >= y
          /\ \A x \in 1..m : (\A y \in 1..m : x >= y) => x = m
      BY <2>2, <3>1
    <3>3. Max(1..m) = m
      BY <3>1, <3>2 DEF Max
    <3> QED BY <3>1, <3>3
  <2> DEFINE i == B - m
             acc == f[1..(m - 1)]
  <2>6. i \in 0..(WideBits - 1) /\ B - (m - 1) = i + 1 /\ s[m] = i
    BY <1>2, <2>2, <2>4
  <2>7. DividedTo(num, den, i + 1, acc)
    <3>1. m - 1 \in Nat /\ m - 1 <= B /\ ~(m <= m - 1)
      BY <1>2, <2>2, <2>4
    <3>2. DividedTo(num, den, B - (m - 1), f[1..(m - 1)])
      BY <2>1, <3>1
    <3> QED BY <2>6, <3>2
  <2>8. f[1..m] = DivisionStep(num, den, acc, i)
    BY <2>3, <2>5, <2>6
  <2> HIDE DEF i, acc
  <2>9. DividedTo(num, den, i, DivisionStep(num, den, acc, i))
    BY <1>4, <2>6, <2>7, DivisionSteps
  <2> QED BY <2>2, <2>8, <2>9 DEF i
<1>7. DividedTo(num, den, 0, all)
  <2>1. B <= B /\ B - B = 0
    BY <1>2
  <2>2. DividedTo(num, den, B - B, f[1..B])
    BY <1>2, <1>6, <2>1
  <2> QED BY <1>1, <1>2, <2>1, <2>2
<1>8. PICK q \in Nat : /\ Value(all.quotient) = q * PowerOfTwo[0]
                       /\ q * D + Value(all.rem) = N \div PowerOfTwo[0]
  BY <1>7 DEF DividedTo
<1>9. all.rem \in Pairs /\ all.quotient \in Pairs /\ Value(all.rem) < D
  BY <1>7 DEF DividedTo
<1>10. Value(all.rem) \in 0..(Wide - 1) /\ PowerOfTwo[0] = 1
  BY <1>9, OperandValue, Powers
<1> DEFINE R == Value(all.rem)
<1> HIDE DEF N, D, R
<1>11. Value(all.quotient) = q /\ N = D * q + R /\ R \in 0..(D - 1)
  <2>1. N \div 1 = N /\ q * 1 = q /\ q * D = D * q /\ q * D \in Int
    BY <1>4
  <2> QED BY <1>4, <1>8, <1>9, <1>10, <2>1 DEF R
<1>12. (D * q + R) \div D = q /\ (D * q + R) % D = R
  <2>1. D \in Nat \ {0} /\ q \in Int
    BY <1>4
  <2> QED BY <1>11, <2>1, RemainderIs
<1> QED BY <1>9, <1>11, <1>12 DEF N, D, R, all

\* Small numbers of two words, and the halves of a word and of two.
LEMMA SmallNumbers ==
    /\ Word \in Nat \ {0, 1} /\ Wide \in Nat \ {0, 1}
    /\ Word \div 2 \in Nat \ {0} /\ Word = 2 * (Word \div 2)
    /\ Wide \div 2 = (Word \div 2) * Word /\ Wide = 2 * (Wide \div 2)
    /\ U(0, 0) \in [lo: 0..(Word - 1), hi: 0..(Word - 1)] /\ Value(U(0, 0)) = 0
    /\ U(1, 0) \in [lo: 0..(Word - 1), hi: 0..(Word - 1)] /\ Value(U(1, 0)) = 1
    /\ \A a \in [lo: 0..(Word - 1), hi: 0..(Word - 1)] : a = U(0, 0) <=> Value(a) = 0
<1> DEFINE Pairs == [lo: 0..(Word - 1), hi: 0..(Word - 1)]
           h == (Limb \div 2) * Limb
           z == U(0, 0)
<1>1. h \in Nat \ {0} /\ Word = 2 * h
  <2> DEFINE k == Limb \div 2
  <2>1. Limb \in Nat \ {0} /\ k \in Nat \ {0} /\ Limb = 2 * k
    BY TypesAssumption
  <2> HIDE DEF k
  <2>2. k * Limb \in Nat \ {0} /\ Limb * Limb = 2 * (k * Limb)
    BY <2>1, Z3
  <2> QED BY <2>2 DEF Word, k
<1> HIDE DEF h
<1>2. Word \div 2 = h /\ Word \in Nat \ {0, 1}
  BY <1>1
<1>3. Wide = 2 * (h * Word) /\ h * Word \in Nat \ {0}
  <2>1. Wide = Word * Word
    BY Words
  <2>2. Word * Word = 2 * (h * Word) /\ h * Word \in Nat \ {0}
    BY <1>1, <1>2, Z3
  <2> QED BY <2>1, <2>2
<1>4. Wide \div 2 = h * Word /\ Wide \in Nat \ {0, 1}
  <2> DEFINE k == h * Word
  <2> HIDE DEF k
  <2>1. k \in Nat \ {0} /\ Wide = 2 * k
    BY <1>3 DEF k
  <2> QED BY <2>1 DEF k
<1>5. z \in Pairs /\ Value(z) = 0 /\ z.lo = 0 /\ z.hi = 0
  <2>1. 0 % Word = 0
    BY <1>2
  <2>2. z = [lo |-> 0, hi |-> 0]
    BY <2>1 DEF U
  <2> QED BY <1>2, <2>2 DEF Value
<1>6. U(1, 0) \in Pairs /\ Value(U(1, 0)) = 1
  <2>1. 0 % Word = 0 /\ 1 % Word = 1
    BY <1>2
  <2>2. U(1, 0) = [lo |-> 1, hi |-> 0]
    BY <2>1 DEF U
  <2> QED BY <1>2, <2>2 DEF Value
<1> HIDE DEF z
<1>7. ASSUME NEW a \in Pairs PROVE a = z <=> Value(a) = 0
  <2>1. /\ a.lo \in Nat /\ a.hi \in Nat /\ a = [lo |-> a.lo, hi |-> a.hi] /\ Value(a) = a.lo + a.hi * Word
        /\ z = [lo |-> z.lo, hi |-> z.hi]
    BY <1>2, <1>5 DEF Value
  <2>2. Value(a) = 0 => a.lo = 0 /\ a.hi = 0
    <3>1. a.hi * Word \in Nat /\ (a.hi # 0 => a.hi * Word > 0)
      BY <1>2, <2>1, Z3
    <3> QED BY <2>1, <3>1
  <2>3. a.lo = 0 /\ a.hi = 0 => a = z
    BY <1>5, <2>1
  <2> QED BY <1>5, <2>2, <2>3
<1> QED BY <1>1, <1>2, <1>3, <1>4, <1>5, <1>6, <1>7 DEF z

\* What rounding adds to a quotient.
RoundsUp(r, d, how) == (how = "round" /\ 2 * r >= d) \/ (how = "ceil" /\ r # 0)

\* A quotient rounded by what is left.
LEMMA RoundedQuotient ==
    ASSUME NEW n \in Nat, NEW d \in Nat \ {0}, NEW how \in {"floor", "round", "ceil"}
    PROVE  Divided(n, d, how) = (n \div d) + (IF RoundsUp(n % d, d, how) THEN 1 ELSE 0)
<1> DEFINE q == n \div d
           r == n % d
           c == 2 * d
<1>1. q \in Int /\ r \in 0..(d - 1) /\ n = d * q + r
  BY Divides
<1> HIDE DEF q, r
<1>2. c \in Nat \ {0} /\ q + 1 \in Int
  BY <1>1
<1>3. CASE how = "floor"
  BY <1>3, <1>1 DEF Divided, RoundsUp, q, r
<1>4. CASE how = "round"
  <2>1. Divided(n, d, how) = (2 * n + d) \div c
    BY <1>4 DEF Divided
  <2>2. CASE 2 * r >= d
    <3> DEFINE s == 2 * r - d
               k == q + 1
    <3>1. s \in 0..(c - 1) /\ k \in Int
      BY <1>1, <2>2
    <3>2. 2 * n + d = c * k + s
      BY <1>1, Z3
    <3> HIDE DEF s, c, k
    <3>3. (c * k + s) \div c = k
      BY <1>2, <3>1, RemainderIs
    <3>4. RoundsUp(r, d, how)
      BY <1>4, <2>2 DEF RoundsUp
    <3>5. Divided(n, d, how) = q + 1
      BY <2>1, <3>2, <3>3 DEF k
    <3> QED BY <3>4, <3>5 DEF q, r
  <2>3. CASE ~(2 * r >= d)
    <3> DEFINE s == 2 * r + d
    <3>1. s \in 0..(c - 1)
      BY <1>1, <2>3
    <3>2. 2 * n + d = c * q + s
      BY <1>1, Z3
    <3> HIDE DEF s, c
    <3>3. (c * q + s) \div c = q
      BY <1>1, <1>2, <3>1, RemainderIs
    <3>4. ~RoundsUp(r, d, how)
      BY <1>4, <2>3 DEF RoundsUp
    <3>5. Divided(n, d, how) = q + 0
      BY <1>1, <2>1, <3>2, <3>3
    <3> QED BY <3>4, <3>5 DEF q, r
  <2> QED BY <2>2, <2>3
<1>5. CASE how = "ceil"
  <2>1. Divided(n, d, how) = (n + d - 1) \div d
    BY <1>5 DEF Divided
  <2>2. CASE r # 0
    <3> DEFINE s == r - 1
               k == q + 1
    <3>1. s \in 0..(d - 1) /\ k \in Int
      BY <1>1, <2>2
    <3>2. n + d - 1 = d * k + s
      BY <1>1, Z3
    <3> HIDE DEF s, k
    <3>3. (d * k + s) \div d = k
      BY <3>1, RemainderIs
    <3>4. RoundsUp(r, d, how)
      BY <1>5, <2>2 DEF RoundsUp
    <3>5. Divided(n, d, how) = q + 1
      BY <2>1, <3>2, <3>3 DEF k
    <3> QED BY <3>4, <3>5 DEF q, r
  <2>3. CASE r = 0
    <3> DEFINE s == d - 1
    <3>1. s \in 0..(d - 1)
      OBVIOUS
    <3>2. n + d - 1 = d * q + s
      BY <1>1, <2>3, Z3
    <3> HIDE DEF s
    <3>3. (d * q + s) \div d = q
      BY <1>1, <3>1, RemainderIs
    <3>4. ~RoundsUp(r, d, how)
      BY <1>5, <2>3 DEF RoundsUp
    <3>5. Divided(n, d, how) = q + 0
      BY <1>1, <2>1, <3>2, <3>3
    <3> QED BY <3>4, <3>5 DEF q, r
  <2> QED BY <2>2, <2>3
<1> QED BY <1>3, <1>4, <1>5

\* A quotient of two words, rounded.
LEMMA RoundedDivision ==
    ASSUME NEW num \in [lo: 0..(Word - 1), hi: 0..(Word - 1)],
           NEW den \in [lo: 0..(Word - 1), hi: 0..(Word - 1)], Value(den) # 0,
           NEW how \in {"floor", "round", "ceil"},
           how = "round" => 2 * (Value(num) % Value(den)) < Wide
    PROVE  LET m == Rounded(divmod128(num, den), den, how)
           IN  /\ m \in [lo: 0..(Word - 1), hi: 0..(Word - 1)]
               /\ Value(m) = Divided(Value(num), Value(den), how)
<1> DEFINE Pairs == [lo: 0..(Word - 1), hi: 0..(Word - 1)]
           N == Value(num)
           D == Value(den)
           all == divmod128(num, den)
           Q == N \div D
           R == N % D
           m == Rounded(all, den, how)
           up == all.quotient
           one == U(1, 0)
<1>1. Wide \in Nat \ {0, 1} /\ N \in 0..(Wide - 1) /\ D \in 1..(Wide - 1)
  <2>1. Wide \in Nat \ {0, 1} /\ N \in 0..(Wide - 1) /\ D \in 0..(Wide - 1) /\ D # 0
    BY SmallNumbers, OperandValue
  <2> HIDE DEF N, D
  <2> QED BY <2>1
<1>2. all.quotient \in Pairs /\ all.rem \in Pairs /\ Value(all.quotient) = Q /\ Value(all.rem) = R
  BY LongDivision
<1> HIDE DEF N, D
<1>3. Q \in Nat /\ R \in 0..(D - 1) /\ N = D * Q + R
  <2>1. N \in Nat /\ D \in Nat \ {0}
    BY <1>1
  <2> QED BY <2>1, Division
<1> HIDE DEF all, Q, R
<1>4. AtLeast(doubled(all.rem), den) <=> (2 * R) % Wide >= D
  <2> DEFINE d == doubled(all.rem)
  <2>1. d \in Pairs /\ Value(d) = (2 * R) % Wide
    BY <1>2, Doubles
  <2> HIDE DEF d
  <2>2. AtLeast(d, den) <=> Value(d) >= D
    BY <2>1, WordsCompared DEF D
  <2> QED BY <2>1, <2>2 DEF d
<1>5. how = "round" => (2 * R) % Wide = 2 * R
  <2> SUFFICES ASSUME how = "round" PROVE (2 * R) % Wide = 2 * R
    OBVIOUS
  <2> DEFINE t == 2 * R
  <2>1. t \in 0..(Wide - 1)
    BY <1>1, <1>3 DEF N, D, R
  <2> HIDE DEF t
  <2>2. t % Wide = t
    BY <1>1, <2>1, NearRemainders
  <2> QED BY <2>2 DEF t
<1>6. all.rem # U(0, 0) <=> R # 0
  BY <1>2, SmallNumbers
<1>7. m = IF RoundsUp(R, D, how) THEN adding(all.quotient, one) ELSE all.quotient
  <2>1. CASE how = "floor"
    BY <2>1 DEF Rounded, RoundsUp
  <2>2. CASE how = "round"
    BY <1>4, <1>5, <2>2 DEF Rounded, RoundsUp
  <2>3. CASE how = "ceil"
    BY <1>6, <2>3 DEF Rounded, RoundsUp
  <2> QED BY <2>1, <2>2, <2>3
<1>8. Divided(N, D, how) = Q + (IF RoundsUp(R, D, how) THEN 1 ELSE 0)
  <2>1. N \in Nat /\ D \in Nat \ {0}
    BY <1>1
  <2> QED BY <2>1, RoundedQuotient DEF Q, R
<1> HIDE DEF m, one
<1>9. CASE ~RoundsUp(R, D, how)
  BY <1>2, <1>3, <1>7, <1>8, <1>9 DEF m, N, D, all
<1>10. CASE RoundsUp(R, D, how)
  <2> DEFINE k == Q + 1
             s == adding(all.quotient, one)
  <2>1. R # 0
    BY <1>1, <1>3, <1>10 DEF RoundsUp
  <2>2. k \in 0..(Wide - 1)
    <3>1. D >= 2
      BY <1>1, <1>3, <2>1
    <3>2. D * Q >= Q /\ D * Q \in Int
      BY <1>1, <1>3, Z3
    <3> QED BY <1>1, <1>3, <2>1, <3>2
  <2>3. one \in Pairs /\ Value(one) = 1
    BY SmallNumbers DEF one
  <2>4. s \in Pairs /\ Value(s) = (Q + 1) % Wide
    BY <1>2, <2>3, SumWraps
  <2> HIDE DEF k, s
  <2>5. k % Wide = k
    BY <1>1, <2>2, NearRemainders
  <2>6. m = s /\ Divided(N, D, how) = k
    BY <1>7, <1>8, <1>10 DEF k, s
  <2>7. m \in Pairs /\ Value(m) = Divided(N, D, how)
    BY <2>4, <2>5, <2>6 DEF k
  <2> QED BY <2>7 DEF m, N, D, all
<1> QED BY <1>9, <1>10

\* The sign and the magnitude of an operand: those of what it is worth.
LEMMA SignedParts ==
    ASSUME NEW a \in [lo: 0..(Word - 1), hi: 0..(Word - 1)]
    PROVE  /\ isNegative(a) <=> SignedValue(a) < 0
           /\ magnitude(a) \in [lo: 0..(Word - 1), hi: 0..(Word - 1)]
           /\ Value(magnitude(a)) = Abs(SignedValue(a))
           /\ Abs(SignedValue(a)) \in 0..(Wide \div 2)
           /\ Value(a) = 0 <=> Abs(SignedValue(a)) = 0
<1> DEFINE Pairs == [lo: 0..(Word - 1), hi: 0..(Word - 1)]
           x == Value(a)
           h == Word \div 2
           H == Wide \div 2
<1>1. /\ Word \in Nat \ {0} /\ Wide \in Nat \ {0} /\ H = h * Word /\ h \in Nat \ {0} /\ Wide = 2 * H
      /\ a.lo \in 0..(Word - 1) /\ a.hi \in 0..(Word - 1) /\ x = a.lo + a.hi * Word /\ x \in 0..(Wide - 1)
  BY SmallNumbers, OperandValue
<1> HIDE DEF x, h, H
<1>2. H \in Nat \ {0}
  BY <1>1, Z3
<1>3. a.hi >= h <=> x >= H
  <2>1. CASE a.hi >= h
    <3>1. (a.hi - h) * Word \in Nat /\ a.hi * Word = h * Word + (a.hi - h) * Word
      BY <1>1, <2>1, Z3
    <3>2. h * Word \in Nat
      BY <1>1, <1>2
    <3> QED BY <1>1, <2>1, <3>1, <3>2
  <2>2. CASE ~(a.hi >= h)
    <3>1. (h - 1 - a.hi) * Word \in Nat /\ a.hi * Word = h * Word - Word - (h - 1 - a.hi) * Word
      BY <1>1, <2>2, Z3
    <3>2. h * Word \in Nat
      BY <1>1, <1>2
    <3> QED BY <1>1, <2>2, <3>1, <3>2
  <2> QED BY <2>1, <2>2
<1>4. isNegative(a) <=> x >= H
  BY <1>3 DEF isNegative, h
<1>5. SignedValue(a) = IF x >= H THEN x - Wide ELSE x
  BY DEF SignedValue, x, H
<1>6. CASE x >= H
  <2> DEFINE r == Wide - x
  <2>1. SignedValue(a) = x - Wide /\ isNegative(a)
    BY <1>4, <1>5, <1>6
  <2>2. Abs(SignedValue(a)) = r /\ SignedValue(a) < 0
    BY <1>1, <2>1 DEF Abs
  <2>3. magnitude(a) = negated(a) /\ negated(a) \in Pairs /\ Value(negated(a)) = (-x) % Wide
    BY <2>1, NegativeWraps DEF magnitude, x
  <2>4. r \in 0..(Wide - 1) /\ r - Wide = -x /\ r \in 0..H /\ r # 0
    BY <1>1, <1>2, <1>6
  <2> HIDE DEF r
  <2>5. (r - Wide) % Wide = r
    BY <1>1, <2>4, NearRemainders
  <2>6. x # 0
    BY <1>1, <1>2, <1>6
  <2> QED BY <2>1, <2>2, <2>3, <2>4, <2>5, <2>6 DEF x, H
<1>7. CASE ~(x >= H)
  <2>1. SignedValue(a) = x /\ ~isNegative(a) /\ x \in 0..H
    BY <1>1, <1>2, <1>4, <1>5, <1>7
  <2>2. Abs(SignedValue(a)) = x /\ ~(SignedValue(a) < 0)
    BY <2>1 DEF Abs
  <2>3. magnitude(a) = a
    BY <2>1 DEF magnitude
  <2> QED BY <2>1, <2>2, <2>3 DEF x, H
<1> QED BY <1>6, <1>7

\* uint128's division.
LEMMA UnsignedDivision ==
    ASSUME NEW a \in [lo: 0..(Word - 1), hi: 0..(Word - 1)],
           NEW b \in [lo: 0..(Word - 1), hi: 0..(Word - 1)],
           NEW how \in {"floor", "round", "ceil"}
    PROVE  LET x == Value(a)
               y == Value(b)
               div == uintDividing(a, b, how)
           IN  /\ (y = 0) <=> (div = Refused)
               /\ y # 0 /\ ~(how = "round" /\ 2 * (x % y) >= Wide) =>
                      Value(div[1]) = Divided(x, y, how)
<1> DEFINE x == Value(a)
           y == Value(b)
           m == Rounded(divmod128(a, b), b, how)
           div == uintDividing(a, b, how)
<1>1. y = 0 <=> b = U(0, 0)
  BY SmallNumbers
<1>2. div = IF b = U(0, 0) THEN Refused ELSE <<m>>
  BY DEF uintDividing
<1>3. <<m>> # Refused /\ <<m>>[1] = m
  BY DEF Refused
<1>4. ASSUME y # 0, ~(how = "round" /\ 2 * (x % y) >= Wide) PROVE Value(m) = Divided(x, y, how)
  <2>1. how = "round" => 2 * (Value(a) % Value(b)) < Wide
    <3>1. x \in Int /\ y \in Nat \ {0} /\ Wide \in Nat
      BY <1>4, Words, OperandValue
    <3> HIDE DEF x, y
    <3>2. x % y \in Int
      BY <3>1, Divides
    <3> QED BY <1>4, <3>1, <3>2 DEF x, y
  <2>2. Value(b) # 0
    BY <1>4
  <2> HIDE DEF m, x, y
  <2> QED BY <2>1, <2>2, RoundedDivision DEF m, x, y
<1> HIDE DEF m, x, y, div
<1>5. (y = 0) <=> (div = Refused)
  BY <1>1, <1>2, <1>3
<1>6. y # 0 => div[1] = m
  BY <1>1, <1>2, <1>3
<1>7. y # 0 /\ ~(how = "round" /\ 2 * (x % y) >= Wide) => Value(div[1]) = Divided(x, y, how)
  BY <1>4, <1>6
<1> QED BY <1>5, <1>7 DEF x, y, div

\* int128's division: the magnitudes, rounded, and the sign. A magnitude is half of the range at
\* most, so that twice what is left never wraps.
LEMMA SignedDivision ==
    ASSUME NEW a \in [lo: 0..(Word - 1), hi: 0..(Word - 1)],
           NEW b \in [lo: 0..(Word - 1), hi: 0..(Word - 1)],
           NEW how \in {"floor", "round", "ceil"}
    PROVE  LET sx == SignedValue(a)
               sy == SignedValue(b)
               div == intDividing(a, b, how)
               q == Divided(Abs(sx), Abs(sy), how)
           IN  /\ (Value(b) = 0) <=> (div = Refused)
               /\ Value(b) # 0 => Value(div[1]) = (IF (sx < 0) # (sy < 0) THEN -q ELSE q) % Wide
<1> DEFINE Pairs == [lo: 0..(Word - 1), hi: 0..(Word - 1)]
           sx == SignedValue(a)
           sy == SignedValue(b)
           num == magnitude(a)
           den == magnitude(b)
           m == Rounded(divmod128(num, den), den, how)
           div == intDividing(a, b, how)
           q == Divided(Abs(sx), Abs(sy), how)
           apart == isNegative(a) # isNegative(b)
           signed == IF apart THEN negated(m) ELSE m
<1>1. Value(b) = 0 <=> b = U(0, 0)
  BY SmallNumbers
<1>2. div = IF b = U(0, 0) THEN Refused ELSE <<signed>>
  BY DEF intDividing
<1>3. <<signed>> # Refused /\ <<signed>>[1] = signed
  BY DEF Refused
<1>4. /\ num \in Pairs /\ Value(num) = Abs(sx)
      /\ den \in Pairs /\ Value(den) = Abs(sy) /\ Abs(sy) \in 0..(Wide \div 2)
      /\ Value(b) = 0 <=> Abs(sy) = 0
  BY SignedParts
<1>5. apart <=> (sx < 0) # (sy < 0)
  <2>1. (isNegative(a) <=> sx < 0) /\ (isNegative(b) <=> sy < 0)
    BY SignedParts
  <2>2. CASE isNegative(a)
    BY <2>1, <2>2 DEF isNegative
  <2>3. CASE ~isNegative(a)
    BY <2>1, <2>3 DEF isNegative
  <2> QED BY <2>2, <2>3
<1> HIDE DEF sx, sy, num, den, apart, div, m
<1>6. ASSUME Value(b) # 0 PROVE m \in Pairs /\ Value(m) = q
  <2>1. Value(den) # 0
    BY <1>4, <1>6
  <2>2. 2 * (Value(num) % Value(den)) < Wide
    <3> DEFINE x == Value(num)
               y == Value(den)
               H == Wide \div 2
    <3>1. x \in Int /\ y \in Nat \ {0} /\ y <= H /\ H \in Int /\ Wide = 2 * H
      BY <1>4, <2>1, OperandValue, SmallNumbers
    <3> HIDE DEF x, y, H
    <3>2. x % y \in 0..(y - 1)
      BY <3>1, Divides
    <3> QED BY <3>1, <3>2 DEF x, y
  <2> HIDE DEF Pairs
  <2>3. m \in Pairs /\ Value(m) = Divided(Value(num), Value(den), how)
    BY <1>4, <2>1, <2>2, RoundedDivision DEF m, Pairs
  <2> QED BY <1>4, <2>3
<1> HIDE DEF q
<1>7. ASSUME Value(b) # 0 PROVE Value(signed) = (IF (sx < 0) # (sy < 0) THEN -q ELSE q) % Wide
  <2>1. m \in Pairs /\ Value(m) = q
    BY <1>6, <1>7
  <2>2. Value(negated(m)) = (-q) % Wide /\ q \in 0..(Wide - 1) /\ Wide \in Nat \ {0}
    BY <2>1, NegativeWraps, OperandValue, Words
  <2>3. q % Wide = q
    BY <2>2, NearRemainders
  <2>4. CASE apart
    BY <1>5, <2>2, <2>4
  <2>5. CASE ~apart
    BY <1>5, <2>1, <2>3, <2>5
  <2> QED BY <2>4, <2>5
<1> HIDE DEF signed
<1>8. (Value(b) = 0) <=> (div = Refused)
  BY <1>1, <1>2, <1>3
<1>9. Value(b) # 0 => div[1] = signed
  BY <1>1, <1>2, <1>3
<1> QED BY <1>7, <1>8, <1>9 DEF sx, sy, div, q

\* For any size of a limb and any operands: a quotient of 128 bits, signed or not, is the
\* mathematical one rounded as asked, and a division by nothing is refused
\* (integer.hpp, integer.cpp:264, 298-327, 338-366).
THEOREM DivisionAlwaysExact == TypesSpec => []DivisionExact
<1>1. TypesInit => DivisionExact
  BY DEF TypesInit, DivisionExact
<1>2. ASSUME DivisionExact, [TypesNext]_typesVars PROVE DivisionExact'
  <2>1. CASE Arithmetic
    <3>1. PICK a \in Operands, b \in Operands, how \in {"floor", "round", "ceil"} :
            /\ work'.a = a /\ work'.b = b /\ work'.how = how
            /\ work'.div = uintDividing(a, b, how) /\ work'.idiv = intDividing(a, b, how)
      BY <2>1 DEF Arithmetic
    <3> DEFINE Pairs == [lo: 0..(Word - 1), hi: 0..(Word - 1)]
    <3>2. a \in Pairs /\ b \in Pairs
      BY TypesAssumption DEF Word
    <3> QED BY <3>1, <3>2, UnsignedDivision, SignedDivision DEF DivisionExact
  <2>2. CASE UNCHANGED typesVars
    BY <1>2, <2>2 DEF DivisionExact, typesVars
  <2>3. CASE TypesNext /\ work'.op # "arithmetic"
    BY <2>3 DEF DivisionExact
  <2>4. TypesNext => Arithmetic \/ work'.op # "arithmetic"
    BY OnlyArithmetic
  <2> QED BY <1>2, <2>1, <2>2, <2>3, <2>4
<1> QED BY <1>1, <1>2, PTL DEF TypesSpec
=============================================================================
