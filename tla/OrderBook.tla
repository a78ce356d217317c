------------------------------ MODULE OrderBook ------------------------------
(***************************************************************************)
(* What placing orders promises, whatever transactions, locks, connections *)
(* and failures lie behind it: an order is placed in one step, at which    *)
(* its user and products are there, the key is new and the stock suffices; *)
(* a request that was answered places nothing afterwards; and an answer    *)
(* that says something about the order says the truth.                     *)
(***************************************************************************)
EXTENDS Naturals

CONSTANTS Request, Product, Catalog, KnownUser, Malformed, UserOf, KeyOf, Qty,
          InitStock

VARIABLES
    stock,      \* the units left of each product
    placed,     \* the requests whose order was placed
    told        \* what each request was answered

Reply == {"created", "existing", "400", "409", "500", "503", "504"}

Proper(r) ==
    /\ r \notin Malformed
    /\ UserOf[r] \in KnownUser
    /\ \A p \in Product : Qty[r][p] > 0 => p \in Catalog

Covered(r) == \A p \in Product : Qty[r][p] <= stock[p]

Twin(q, r) == UserOf[q] = UserOf[r] /\ KeyOf[q] = KeyOf[r]

(* What may be answered: a server error (500, 503) says nothing, and 504   *)
(* is the answer to an order whose payment could not be authorized in time.*)
Truths(r) ==
    {a \in Reply :
        /\ a \in {"created", "504"} => r \in placed
        /\ a = "existing" => r \notin placed /\ \E q \in placed : Twin(q, r)
        /\ a = "400" => ~Proper(r)
        /\ a = "409" => ~Covered(r) /\ r \notin placed}

BookInit ==
    /\ stock = InitStock
    /\ placed = {}
    /\ told = [r \in Request |-> "none"]

Place(r) ==
    /\ told[r] = "none"
    /\ Proper(r)
    /\ Covered(r)
    /\ \A q \in placed : ~Twin(q, r)
    /\ placed' = placed \cup {r}
    /\ stock' = [p \in Product |-> stock[p] - Qty[r][p]]
    /\ UNCHANGED told

Tell(r) ==
    /\ told[r] = "none"
    /\ \E a \in Truths(r) : told' = [told EXCEPT ![r] = a]
    /\ UNCHANGED <<stock, placed>>

BookNext == \E r \in Request : Place(r) \/ Tell(r)

BookSpec == BookInit /\ [][BookNext]_<<stock, placed, told>>
=============================================================================
