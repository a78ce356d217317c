-------------------------- MODULE MCOrderPlacement --------------------------
(* Small instances of OrderPlacement: a double submit and a race for the   *)
(* last units of a product; and transactions that lock the same rows, with *)
(* requests of every refused kind.                                         *)
EXTENDS OrderPlacement, TLC

CONSTANTS a, b, ghost,      \* products; ghost has no row
          r1, r2, r3, r4    \* requests

Products == {a, b, ghost}
Available == {a, b}
Stock == (a :> 2) @@ (b :> 2) @@ (ghost :> 0)

Order(na, nb, ng) == (a :> na) @@ (b :> nb) @@ (ghost :> ng)

(* r1 and r2 submit one order twice; r3 is another user's request that     *)
(* carries the same key and wants every unit of a.                         *)
RaceQty == [r \in Request |-> IF r = r3 THEN Order(2, 0, 0) ELSE Order(1, 1, 0)]
RaceUser == [r \in Request |-> IF r = r3 THEN "u2" ELSE "u1"]
OneKey == [r \in Request |-> "k"]

(* Distinct keys: r1 and r2 lock both products, r1 also asks for a ghost;  *)
(* r3 comes from a user the table does not have, and r4 is malformed.      *)
CrossQty == [r \in Request |-> IF r = r1 THEN Order(1, 1, 1) ELSE Order(1, 1, 0)]
CrossUser == [r \in Request |-> IF r = r3 THEN "u3" ELSE "u1"]
OwnKey == [r \in Request |-> r]

OneUser == [r \in Request |-> "u1"]

Users == {"u1", "u2"}
NoneMalformed == {}
FourthMalformed == {r4} \cap Request

ConnSymmetry == Permutations(Conn)
=============================================================================
