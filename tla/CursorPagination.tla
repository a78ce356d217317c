--------------------------- MODULE CursorPagination ---------------------------
(***************************************************************************)
(* A client walks through a list page by page while rows come and go:      *)
(* GET /orders and GET /users (paginateQueryBuilderByCursor), GET /products *)
(* with the order items of each product joined, and the orders of GraphQL  *)
(* with a filter on their status (gql-orders.service).  All of them are    *)
(* sorted by createdAt DESC, id DESC, ask for one row more than a page,    *)
(* and hand out a cursor made of the last row's createdAt and id.          *)
(*                                                                         *)
(* With a join, take() makes two statements: one finds the ids, the other  *)
(* loads their rows, under the same conditions.  createdAt has             *)
(* microseconds, a Date of JavaScript milliseconds.                        *)
(***************************************************************************)
EXTENDS Naturals, FiniteSets, FiniteSetsExt

CONSTANTS
    Row,        \* ids, ordered
    Time,       \* values of createdAt, in microseconds
    PerMs,      \* microseconds in a millisecond
    Limit,      \* rows on a page
    Kind,       \* lists that are read: "rest", "joined", "graphql"
    MaxLines,   \* bound: order items of a product
    MaxChanges, \* bound: rows that come and go, and items that are added,
                \* meanwhile
    NoCursor

ASSUME PagingAssumption ==
    /\ Row \subseteq Nat /\ IsFiniteSet(Row)
    /\ Time \subseteq Nat
    /\ {PerMs, Limit, MaxLines} \subseteq Nat \ {0}
    /\ Kind \subseteq {"rest", "joined", "graphql"}
    /\ MaxChanges \in Nat
    /\ NoCursor \notin [at : Nat, id : Nat]

VARIABLES
    kind,       \* the list that is read
    at,         \* createdAt of each row
    lines,      \* lines the join makes of a product: its order items, or one
    present,    \* the rows the conditions of the list hold for
    kept,       \* history: rows that were present all the time
    cursor,     \* what the client sends next
    pc,         \* idle, loading (between the two statements), or done
    ids,        \* what the first statement found
    seen,       \* how often the client was shown a row; two is many
    ends,       \* history: the last rows of its pages
    short,      \* history: a row left between the two statements
    changes     \* changes so far

vars == <<kind, at, lines, present, kept, cursor, pc, ids, seen, ends, short, changes>>
list == <<kind, at, lines>>
-----------------------------------------------------------------------------
(* ORDER BY createdAt DESC, id DESC.                                       *)
Before(r, s) == at[r] > at[s] \/ (at[r] = at[s] /\ r > s)

(* Conditions without the id.                                              *)
BeyondTimeOnly(r, c) == c = NoCursor \/ at[r] < c.at
BeyondSameTime(r, c) == c = NoCursor \/ at[r] <= c.at

(* The condition a cursor adds.                                            *)
Beyond(r, c) ==
    c = NoCursor \/ at[r] < c.at \/ (at[r] = c.at /\ r < c.id)

(* P are the first rows of S.                                              *)
Leads(P, S) ==
    /\ P \subseteq S
    /\ \A r \in P, s \in S \ P : Before(r, s)

LastOf(P) == {r \in P : \A s \in P \ {r} : Before(s, r)}

(* toISOString: the microseconds are cut off.                              *)
ToMs(t) == t - (t % PerMs)

(* The line of the joined result that pageRaw ends with: lines are counted *)
(* where rows are meant.                                                   *)
LinesUpTo(r, P) == MapThenSumSet(LAMBDA s : lines[s], {s \in P : s = r \/ Before(s, r)})
RawEnd(r, P) ==
    /\ LinesUpTo(r, P) >= Limit
    /\ LinesUpTo(r, P) - lines[r] < Limit

Init ==
    /\ kind \in Kind
    /\ at \in [Row -> Time]
    /\ lines \in [Row -> IF kind = "joined" THEN 1..MaxLines ELSE {1}]
    /\ present \in SUBSET Row
    /\ kept = present
    /\ cursor = NoCursor
    /\ pc = "idle"
    /\ ids = {}
    /\ seen = [r \in Row |-> 0]
    /\ ends = {}
    /\ short = FALSE
    /\ changes = 0

(* A transaction commits a row; its createdAt is the start of that         *)
(* transaction, so it may belong anywhere in the order.  Or an order's     *)
(* status comes to match the filter.                                       *)
Appear(r) ==
    /\ changes < MaxChanges /\ changes' = changes + 1
    /\ r \notin present
    /\ present' = present \cup {r}
    /\ UNCHANGED <<list, kept, cursor, pc, ids, seen, ends, short>>

(* OrdersService.create adds an order item of a product that has one: the  *)
(* join makes one more line of it.                                         *)
AddItem(r) ==
    /\ changes < MaxChanges /\ changes' = changes + 1
    /\ kind = "joined" /\ r \in present /\ lines[r] < MaxLines
    /\ lines' = [lines EXCEPT ![r] = @ + 1]
    /\ UNCHANGED <<kind, at, present, kept, cursor, pc, ids, seen, ends, short>>

(* An order's status stops matching the filter.  Rows are not deleted:     *)
(* order_items refer to orders and products ON DELETE RESTRICT, so that    *)
(* DELETE /orders/:id fails, and UsersService.remove has no caller.        *)
Disappear(r) ==
    /\ changes < MaxChanges /\ changes' = changes + 1
    /\ kind = "graphql" /\ r \in present
    /\ present' = present \ {r}
    /\ kept' = kept \ {r}
    /\ short' = (short \/ r \in ids)
    /\ UNCHANGED <<list, cursor, pc, ids, seen, ends>>

(* The first statement: the first limit + 1 rows beyond the cursor.        *)
FindIds ==
    /\ pc = "idle"
    /\ LET S == {r \in present : Beyond(r, cursor)}
       IN \E P \in SUBSET S :
             /\ Leads(P, S)
             /\ Cardinality(P) = Limit + 1 \/ (P = S /\ Cardinality(S) <= Limit)
             /\ ids' = P
    /\ pc' = "loading"
    /\ UNCHANGED <<list, present, kept, cursor, seen, ends, short, changes>>

(* encodeCursor and decodeCursor: what was encoded comes back.             *)
Cursor(t, i) == [at |-> t, id |-> i]

(* The cursor made of the row that shows there is a next page.             *)
CursorOfNext(r, P, more) ==
    {Cursor(at[s], s) : s \in IF more THEN LastOf(ids) ELSE {r}}

(* The cursor that is handed out with a page that ends with r.             *)
CursorAfter(r, P, more) ==
    CASE kind = "graphql" -> {Cursor(ToMs(at[r]), r)}
      [] kind = "joined" /\ more -> {Cursor(at[s], r) : s \in {s \in P : RawEnd(s, P)}}
      [] OTHER -> {Cursor(at[r], r)}

(* hasNext: the row that was asked for beyond the page is there.           *)
HasNext(found) == Cardinality(found) > Limit

(* The nodes of the page go to the client.                                 *)
Show(P) == seen' = [r \in Row |-> IF r \in P /\ seen[r] < 2 THEN seen[r] + 1 ELSE seen[r]]

(* The second statement: the rows that are still there.  More of them than *)
(* a page means a next page; otherwise the client is done.                 *)
Load ==
    /\ pc = "loading"
    /\ LET found == ids \cap present
           more == HasNext(found)
       IN /\ \E P \in SUBSET found :
                /\ Leads(P, found)
                /\ IF more THEN Cardinality(P) = Limit ELSE P = found
                /\ Show(P)
                /\ ends' = ends \cup LastOf(P)
                /\ IF P = {}
                   THEN UNCHANGED cursor
                   ELSE \E r \in LastOf(P) : cursor' \in CursorAfter(r, P, more)
          /\ pc' = IF more THEN "idle" ELSE "done"
    /\ ids' = {}
    /\ UNCHANGED <<list, present, kept, short, changes>>

Done == pc = "done" /\ UNCHANGED vars

Next ==
    \/ \E r \in Row : Appear(r) \/ AddItem(r) \/ Disappear(r)
    \/ FindIds \/ Load \/ Done

Spec == Init /\ [][Next]_vars

(* The client asks for the next page while there is one.                   *)
FairSpec == Spec /\ WF_vars(FindIds \/ Load)
-----------------------------------------------------------------------------
(* Every variable holds a value of its type.                               *)
TypeOK ==
    /\ kind \in Kind
    /\ at \in [Row -> Time]
    /\ lines \in [Row -> 1..MaxLines]
    /\ present \subseteq Row /\ kept \subseteq present
    /\ cursor \in [at : Nat, id : Row] \cup {NoCursor}
    /\ pc \in {"idle", "loading", "done"}
    /\ ids \subseteq Row /\ Cardinality(ids) <= Limit + 1
    /\ seen \in [Row -> 0..2]
    /\ ends \subseteq Row
    /\ short \in BOOLEAN
    /\ changes \in 0..MaxChanges

(* The REST lists show every row that was there all the time, whatever     *)
(* appears between two pages and however many lines a product is joined    *)
(* to by then.                                                             *)
NoneMissed ==
    pc = "done" /\ kind # "graphql" => \A r \in kept : seen[r] > 0

(* Without joined items no row is shown twice, with cut off microseconds   *)
(* or without, whatever comes and goes.                                    *)
NoneTwice == kind # "joined" => \A r \in Row : seen[r] <= 1

(* r is no newer than s, but not older than the millisecond s was made in. *)
SameMs(r, s) == at[r] <= at[s] /\ ToMs(at[s]) <= at[r]

Cause(r) == short \/ \E s \in ends : SameMs(r, s)

(* GraphQL misses an order that was there all the time only if it was made *)
(* in the same millisecond as the last one of a page, or if an order left  *)
(* the list between the two statements, which may end it early.            *)
MissedHasCause ==
    pc = "done" /\ kind = "graphql" => \A r \in kept : seen[r] > 0 \/ Cause(r)

(* README.md: "pagination is forward-only and uses createdAt DESC, id DESC *)
(* as a stable ordering": the rows of a page come after those of the pages *)
(* before it.                                                              *)
ForwardOnly ==
    [][\A r \in Row : seen'[r] # seen[r] => \A e \in ends : Before(e, r)]_vars

(* The invariant of the proofs.  Rows the cursor is past were shown or     *)
(* have a cause; what the first statement left out comes after a full      *)
(* page; and what was shown lies behind the cursor.                        *)
Past(r) == ~Beyond(r, cursor)
Accounted(r) == seen[r] > 0 \/ (kind = "graphql" /\ Cause(r))
PInv ==
    /\ TypeOK
    /\ pc = "done" => \A r \in kept : Accounted(r)
    /\ \A r \in kept : Past(r) => Accounted(r)
    /\ pc # "loading" => ids = {}
    /\ \A i \in ids : ~Past(i)
    /\ (kind = "graphql" /\ short) \/ ids \subseteq present
    /\ pc = "loading" =>
          \A r \in kept :
              \/ Past(r)
              \/ r \in ids
              \/ Cardinality(ids) = Limit + 1 /\ (\A i \in ids : Before(i, r))
    /\ kind # "joined" => \A r \in Row : seen[r] <= 1 /\ (seen[r] > 0 => Past(r))

(* Every page takes the client further, and so it reaches the end; with    *)
(* joined items it may be shown the same page for ever.                    *)
EveryWalkEnds == kind # "joined" ~> pc = "done"
=============================================================================
