------------------------------ MODULE TableCursor ------------------------------
(* src/contract/table.cpp: a cursor over the rows (or scopes) of a table,     *)
(* fetched page by page from a node whose table changes meanwhile. A row is   *)
(* its key; keys are words of KeyWord values.                                 *)
EXTENDS Integers, Sequences, SequencesExt, FiniteSets, FiniteSetsExt

CONSTANTS
    KeyWord,       \* number of values of a key (2^64 in the code)
    Froms, Tos,    \* the bounds a caller may give; Null for none
    RowLimits,     \* rowsPerAPIRequest of the query, defaultRowLimit included
    MaxRowss,      \* maxRows; Unlimited for none
    MaxChanges,    \* bound: changes of the table by others, and resets
    MaxWalk        \* bound: rowsCount at which a cursor is left

ASSUME TableAssumption ==
    /\ KeyWord \in Nat \ {0}
    /\ Froms \cup Tos \subseteq Int
    /\ RowLimits \subseteq Nat \ {0} /\ MaxRowss \subseteq Nat

Keys == 0..(KeyWord - 1)
Null == -100
Unlimited == 100

VARIABLES
    rows,          \* the node's table
    changes,
    known,         \* the ABI has the table, and key_names the index asked for
    cursor,        \* NoCursor, or the fields of TableCursor
    collecting,    \* inside all(): the pages so far; NoAll outside
    walked,        \* rows returned to the caller since the cursor was reset
    lost,          \* rows fetched by an all() that then failed
    steady,        \* rows present ever since the cursor was reset
    got            \* the last answer of get(), with the bounds it was asked

tableVars == <<rows, changes, known, cursor, collecting, walked, lost, steady, got>>
NoCursor == [query |-> [kind |-> "none"]]
NoAll == <<Null>>
NoAnswer == [rows |-> <<>>, query |-> [kind |-> "none"], of |-> {}]

(* wrapIndexValue: a number becomes an unsigned word, a negative one wraps. *)
wrapIndexValue(v) == IF v = Null THEN Null ELSE v % KeyWord

(* The request a query stands for: of rows, and of scopes. *)
buildParams(from, to, limit, reverse) ==
    [kind |-> "row", lower |-> wrapIndexValue(from), upper |-> wrapIndexValue(to),
     limit |-> limit, reverse |-> reverse]
scopes(from, to, limit, reverse) ==
    [kind |-> "scope", lower |-> wrapIndexValue(from), upper |-> wrapIndexValue(to),
     limit |-> limit, reverse |-> reverse]

Within(q, k) == (q.lower = Null \/ q.lower <= k) /\ (q.upper = Null \/ k <= q.upper)

(* The node: the first rows within the bounds in the order asked for, at most   *)
(* limit of them and at least one, and the key of the first one left out. It    *)
(* may stop early when it is slow.                                              *)
Answers(q) ==
    LET found == {k \in rows : Within(q, k)}
        Before(a, b) == IF q.reverse THEN a > b ELSE a < b
        First(page) ==
            /\ \A i, j \in DOMAIN page : i < j => Before(page[i], page[j])
            /\ \A k \in found \ Range(page), i \in DOMAIN page : Before(page[i], k)
            /\ page # <<>> \/ q.limit = 0 \/ found = {}
        next(left) == IF left = {} THEN Null ELSE IF q.reverse THEN Max(left) ELSE Min(left)
        sizes == {n \in 0..Cardinality(found) : n <= q.limit}
    IN  {[rows |-> page, next |-> next(found \ Range(page))] :
            page \in {s \in UNION {[1..n -> found] : n \in sizes} : First(s)}}

(* A mutant: the rows already returned are not taken from maxRows. *)
RowsRemainingAll(c) == c.maxRows
RowsRemaining(c) == c.maxRows - c.rowsCount

(* What the next request asks for. TableScopeCursor::next leaves "reverse" out.  *)
getTableRowsParams(c, perRequest) ==
    [c.query EXCEPT !.lower = IF c.nextKey # Null THEN c.nextKey ELSE @,
                    !.limit = Min({RowsRemaining(c), perRequest, @})]
ScopeParams(c, perRequest) == [getTableRowsParams(c, perRequest) EXCEPT !.reverse = FALSE]
ParamsOf(c, perRequest) ==
    IF c.query.kind = "row" THEN getTableRowsParams(c, perRequest) ELSE ScopeParams(c, perRequest)

(* TableCursor::init. *)
init(query, max) ==
    [query |-> query, maxRows |-> max, nextKey |-> Null, endReached |-> FALSE, rowsCount |-> 0, pages |-> 0]

(* Table::query, first and scopes: NotFound or Invalid leave no cursor. *)
Query ==
    \E from \in Froms, to \in Tos, limit \in RowLimits, max \in MaxRowss, reverse \in BOOLEAN :
        /\ cursor = NoCursor /\ got = NoAnswer
        /\ IF ~known THEN UNCHANGED <<cursor, steady>>
           ELSE /\ \E q \in {buildParams(from, to, limit, reverse), scopes(from, to, limit, reverse)} :
                      cursor' = init(q, max)
                /\ steady' = rows
        /\ UNCHANGED <<rows, changes, known, collecting, walked, lost, got>>

(* Persist cursor state, and find out whether the end is reached. *)
Advance(c, answer) ==
    LET count == c.rowsCount + Len(answer.rows)
    IN  [c EXCEPT !.nextKey = answer.next, !.rowsCount = count, !.pages = @ + 1,
                  !.endReached = answer.next = Null \/ answer.rows = <<>> \/ count = c.maxRows]

(* next() by the caller. A failed request, or a row that does not decode,      *)
(* changes nothing.                                                            *)
NextPage ==
    /\ cursor # NoCursor /\ collecting = NoAll /\ ~cursor.endReached
    /\ cursor.rowsCount < MaxWalk
    /\ \E perRequest \in {1, Unlimited} :
       \E answer \in Answers(ParamsOf(cursor, perRequest)) :
          /\ cursor' = Advance(cursor, answer)
          /\ walked' = walked \o answer.rows
    /\ UNCHANGED <<rows, changes, known, collecting, lost, steady, got>>

(* all(): next() until a page is empty or there is no next key. What was       *)
(* collected is dropped when a request fails, but the cursor has moved on.     *)
AllBegins ==
    /\ cursor # NoCursor /\ collecting = NoAll
    /\ collecting' = <<>>
    /\ UNCHANGED <<rows, changes, known, cursor, walked, lost, steady, got>>
AllPage ==
    /\ collecting # NoAll /\ ~(cursor.rowsCount >= MaxWalk /\ ~cursor.endReached)
    /\ \E answer \in IF cursor.endReached THEN {[rows |-> <<>>, next |-> cursor.nextKey]}
                     ELSE Answers(ParamsOf(cursor, Unlimited)) :
          /\ cursor' = IF cursor.endReached THEN cursor ELSE Advance(cursor, answer)
          /\ IF answer.rows = <<>> \/ answer.next = Null
             THEN walked' = walked \o collecting \o answer.rows /\ collecting' = NoAll
             ELSE collecting' = collecting \o answer.rows /\ UNCHANGED walked
    /\ UNCHANGED <<rows, changes, known, lost, steady, got>>
AllFails ==
    /\ collecting # NoAll /\ ~cursor.endReached
    /\ lost' = lost \cup Range(collecting)
    /\ collecting' = NoAll
    /\ UNCHANGED <<rows, changes, known, cursor, walked, steady, got>>

(* TableCursor::reset: the next walk starts from the bounds. *)
Reset ==
    /\ cursor # NoCursor /\ collecting = NoAll /\ changes < MaxChanges
    /\ changes' = changes + 1
    /\ cursor' = [cursor EXCEPT !.nextKey = Null, !.endReached = FALSE, !.rowsCount = 0,
                                !.pages = 0]
    /\ walked' = <<>> /\ lost' = {} /\ steady' = rows
    /\ UNCHANGED <<rows, known, collecting, got>>

(* Table::get: one row, of a value or of the bounds. *)
Get ==
    \E from \in Froms, to \in Tos, reverse \in BOOLEAN :
        LET q == buildParams(from, to, 1, reverse)
        IN  /\ known /\ cursor = NoCursor /\ got = NoAnswer
            /\ \E answer \in Answers(q) : got' = [rows |-> answer.rows, query |-> q, of |-> rows]
            /\ UNCHANGED <<rows, changes, known, cursor, collecting, walked, lost, steady>>

(* Other accounts' transactions add and erase rows. *)
TableChanges ==
    \E k \in Keys :
        /\ changes < MaxChanges /\ cursor # NoCursor
        /\ rows' = IF k \in rows THEN rows \ {k} ELSE rows \cup {k}
        /\ steady' = steady \cap rows'
        /\ changes' = changes + 1
        /\ UNCHANGED <<known, cursor, collecting, walked, lost, got>>

TableInit ==
    /\ rows \in SUBSET Keys /\ known \in BOOLEAN
    /\ changes = 0 /\ cursor = NoCursor /\ collecting = NoAll
    /\ walked = <<>> /\ lost = {} /\ steady = {}
    /\ got = NoAnswer
TableNext ==
    \/ Query \/ NextPage \/ AllBegins \/ AllPage \/ AllFails \/ Reset \/ Get \/ TableChanges

Ascending(s) == \A i \in 1..(Len(s) - 1) : s[i] < s[i + 1]

(* A walk returns rows within the bounds of the query and at most maxRows of    *)
(* them. Forward, it returns them in key order and none twice, and one that     *)
(* reached its end below maxRows has returned every row that was in the table   *)
(* throughout the walk, except the pages of an all() that failed, although rows *)
(* were added and erased between the pages. In reverse the same holds of the    *)
(* first page only: the next one asks from the next key up and starts again     *)
(* (table.cpp:53); scopes come forward whatever was asked (table.cpp:150). get() *)
(* returns the first row within its bounds.                                      *)
WalkWhole ==
    /\ got.query.kind = "row" =>
         LET found == {k \in got.of : Within(got.query, k)}
         IN  got.rows = IF found = {} THEN <<>>
                        ELSE <<IF got.query.reverse THEN Max(found) ELSE Min(found)>>
    /\ cursor # NoCursor =>
        LET all == IF collecting = NoAll THEN walked ELSE walked \o collecting
            bounded == [cursor.query EXCEPT !.limit = 0]
            backwards == cursor.query.reverse /\ cursor.query.kind = "row"
        IN  /\ \A i \in DOMAIN all : Within(bounded, all[i])
            /\ Len(all) + Cardinality(lost) <= cursor.maxRows
            /\ (~backwards \/ cursor.pages <= 1) =>
                 /\ Ascending(IF backwards THEN Reverse(all) ELSE all)
                 /\ cursor.endReached /\ cursor.rowsCount < cursor.maxRows =>
                       \A k \in steady : Within(bounded, k) => k \in Range(all) \cup lost
=============================================================================
