------------------------ MODULE CursorPaginationProofs ------------------------
(* Proofs about CursorPagination, for any rows, times, page size and       *)
(* changes: what a walk shows, misses and repeats.                         *)
EXTENDS CursorPagination, FiniteSetTheorems, TLAPS

(* Cutting off microseconds gives a time that is no later.                 *)
LEMMA Cut == ASSUME NEW t \in Nat PROVE ToMs(t) \in Nat /\ ToMs(t) <= t
<1>1. t % PerMs \in 0..(PerMs - 1) /\ t % PerMs <= t
  BY PagingAssumption
<1>. QED
  BY <1>1, PagingAssumption DEF ToMs

LEMMA Domains ==
  ASSUME TypeOK
  PROVE  /\ \A r \in Row : r \in Nat /\ at[r] \in Nat
         /\ cursor # NoCursor => cursor.at \in Nat /\ cursor.id \in Nat
BY PagingAssumption DEF TypeOK

(* Sets of rows are finite, and the first rows of a set are not more.      *)
LEMMA Finite == ASSUME NEW S \in SUBSET Row
                PROVE  IsFiniteSet(S) /\ Cardinality(S) \in Nat
BY PagingAssumption, FS_Subset, FS_CardinalityType

(* A page that is not empty has one last row.                              *)
LEMMA CursorIsLast ==
  ASSUME TypeOK, NEW P \in SUBSET Row, NEW r \in LastOf(P), NEW more \in BOOLEAN,
         NEW c \in CursorAfter(r, P, more)
  PROVE  /\ c \in [at : Nat, id : Row] /\ c # NoCursor
         /\ r \in P /\ c.id = r
         /\ kind = "graphql" => c.at = ToMs(at[r])
         /\ kind = "rest" => c.at = at[r]
         /\ kind = "joined" => \E s \in P : c.at = at[s] /\ (s = r \/ Before(s, r))
<1>1. r \in P /\ \A s \in P \ {r} : Before(s, r)
  BY DEF LastOf
<1>2. at[r] \in Nat /\ r \in Row /\ \A s \in P : at[s] \in Nat
  BY <1>1, Domains
<1>3. kind \in {"rest", "joined", "graphql"}
  BY PagingAssumption DEF TypeOK
<1>4. CASE kind = "graphql"
  <2>1. c = [at |-> ToMs(at[r]), id |-> r]
    BY <1>4 DEF CursorAfter, Cursor
  <2>2. ToMs(at[r]) \in Nat
    BY <1>2, Cut
  <2>. QED
    BY <1>1, <1>2, <1>4, <2>1, <2>2, PagingAssumption
<1>5. CASE kind = "joined" /\ more
  <2>1. PICK s \in P : c = [at |-> at[s], id |-> r]
    BY <1>5 DEF CursorAfter, Cursor
  <2>. QED
    BY <1>1, <1>2, <1>5, <2>1, PagingAssumption
<1>6. CASE kind = "rest" \/ (kind = "joined" /\ ~more)
  <2>1. c = [at |-> at[r], id |-> r]
    BY <1>6 DEF CursorAfter, Cursor
  <2>. QED
    BY <1>1, <1>2, <1>6, <2>1, PagingAssumption
<1>. QED
  BY <1>3, <1>4, <1>5, <1>6
-----------------------------------------------------------------------------
LEMMA Initially == Init => PInv
<1>. SUFFICES ASSUME Init PROVE PInv
  OBVIOUS
<1>1. Cardinality({}) = 0
  BY FS_EmptySet
<1>2. TypeOK
  <2>1. (IF kind = "joined" THEN 1..MaxLines ELSE {1}) \subseteq 1..MaxLines
    BY PagingAssumption
  <2>2. lines \in [Row -> 1..MaxLines]
    BY <2>1 DEF Init
  <2>3. cursor \in [at : Nat, id : Row] \cup {NoCursor} /\ seen \in [Row -> 0..2]
    BY DEF Init
  <2>4. short \in BOOLEAN
    BY DEF Init
  <2>5. pc \in {"idle", "loading", "done"} /\ present \subseteq Row
        /\ kept \subseteq present /\ ends \subseteq Row
    BY DEF Init
  <2>6. changes \in 0..MaxChanges
    BY PagingAssumption DEF Init
  <2>7. ids \subseteq Row /\ Cardinality(ids) <= Limit + 1
    BY <1>1, PagingAssumption DEF Init
  <2>8. kind \in Kind /\ at \in [Row -> Time]
    BY DEF Init
  <2>. QED
    BY <2>2, <2>3, <2>4, <2>5, <2>6, <2>7, <2>8 DEF TypeOK
<1>3. \A r \in Row : ~Past(r)
  BY DEF Init, Past, Beyond
<1>. QED
  BY <1>2, <1>3 DEF Init, PInv, TypeOK

(* What is as it was, is accounted for as it was.                          *)
LEMMA Same ==
  ASSUME UNCHANGED <<kind, at, cursor, seen, ends>>, short => short'
  PROVE  /\ \A r : Past(r)' <=> Past(r)
         /\ \A r : Accounted(r) => Accounted(r)'
         /\ \A r, s : Before(r, s)' <=> Before(r, s)
BY DEF Past, Beyond, Accounted, Cause, SameMs, ToMs, Before

LEMMA Changes ==
  ASSUME PInv, NEW r \in Row, Appear(r) \/ Disappear(r)
  PROVE  PInv'
<1>1. UNCHANGED <<kind, at, lines, cursor, pc, ids, seen, ends>>
      /\ kept' \subseteq kept
  BY DEF Appear, Disappear, list
<1>a. (short => short') /\ short' \in BOOLEAN
  <2>1. short \in BOOLEAN
    BY DEF PInv, TypeOK
  <2>2. CASE Appear(r)
    <3>1. short' = short
      BY <2>2 DEF Appear
    <3>. QED
      BY <2>1, <3>1
  <2>3. CASE Disappear(r)
    <3>1. short' = (short \/ r \in ids)
      BY <2>3 DEF Disappear
    <3>. QED
      BY <2>1, <3>1, Zenon
  <2>. QED
    BY <2>2, <2>3
<1>b. present' \subseteq Row /\ kept' \subseteq present' /\ changes' \in 0..MaxChanges
  <2>1. present \subseteq Row /\ kept \subseteq present /\ changes \in 0..MaxChanges
    BY DEF PInv, TypeOK
  <2>2. changes < MaxChanges /\ changes' = changes + 1
    BY DEF Appear, Disappear
  <2>3. changes' \in 0..MaxChanges
    BY <2>1, <2>2, PagingAssumption
  <2>4. \/ present' = present \cup {r} /\ kept' = kept
        \/ present' = present \ {r} /\ kept' = kept \ {r}
    BY DEF Appear, Disappear
  <2>. QED
    BY <2>1, <2>3, <2>4
<1>2. TypeOK'
  BY <1>1, <1>a, <1>b DEF PInv, TypeOK
<1>3. (kind = "graphql" /\ short)' \/ (ids \subseteq present)'
  BY <1>1 DEF PInv, Appear, Disappear
<1>. QED
  BY <1>1, <1>a, <1>2, <1>3, Same DEF PInv

(* What a product is joined to decides where a page's cursor is from, and  *)
(* nothing else.                                                           *)
LEMMA Items ==
  ASSUME PInv, NEW r \in Row, AddItem(r)
  PROVE  PInv'
<1>1. UNCHANGED <<kind, at, present, kept, cursor, pc, ids, seen, ends, short>>
  BY DEF AddItem
<1>2. lines' \in [Row -> 1..MaxLines]
  <2>1. lines \in [Row -> 1..MaxLines] /\ lines[r] < MaxLines
        /\ lines' = [lines EXCEPT ![r] = @ + 1]
    BY DEF PInv, TypeOK, AddItem
  <2>2. lines[r] + 1 \in 1..MaxLines
    BY <2>1, PagingAssumption
  <2>. QED
    BY <2>1, <2>2
<1>3. changes' \in 0..MaxChanges
  BY PagingAssumption DEF PInv, TypeOK, AddItem
<1>4. TypeOK'
  BY <1>1, <1>2, <1>3 DEF PInv, TypeOK
<1>. QED
  BY <1>1, <1>4, Same DEF PInv

LEMMA Finding ==
  ASSUME PInv, FindIds
  PROVE  PInv'
<1>. DEFINE S == {r \in present : Beyond(r, cursor)}
<1>1. PICK P \in SUBSET S :
        /\ Leads(P, S)
        /\ Cardinality(P) = Limit + 1 \/ (P = S /\ Cardinality(S) <= Limit)
        /\ ids' = P
  BY DEF FindIds
<1>2. UNCHANGED <<kind, at, lines, present, kept, cursor, seen, ends, short, changes>>
      /\ pc = "idle" /\ pc' = "loading"
  BY DEF FindIds, list
<1>3. P \subseteq Row /\ S \subseteq Row /\ kept \subseteq present
  BY DEF PInv, TypeOK
<1>4. Cardinality(P) <= Limit + 1
  BY <1>1, <1>3, Finite, PagingAssumption
<1>5. TypeOK'
  BY <1>1, <1>2, <1>3, <1>4 DEF PInv, TypeOK
<1>6. \A r \in kept : Past(r) \/ r \in P
                      \/ (Cardinality(P) = Limit + 1 /\ \A i \in P : Before(i, r))
  BY <1>1, <1>3 DEF Past, Leads
<1>7. \A i \in P : ~Past(i)
  BY <1>1 DEF Past
<1>. QED
  BY <1>1, <1>2, <1>3, <1>5, <1>6, <1>7, Same DEF PInv
-----------------------------------------------------------------------------
(* A row that was left out of a full page is beyond the next cursor, or it *)
(* has the millisecond of the page's last row and the cursor is cut off.   *)
LEMMA LeftOut ==
  ASSUME TypeOK, NEW P \in SUBSET Row, NEW r \in LastOf(P), NEW more \in BOOLEAN,
         NEW c \in CursorAfter(r, P, more),
         NEW s \in Row, \A p \in P : Before(p, s)
  PROVE  Beyond(s, c) \/ (kind = "graphql" /\ SameMs(s, r))
<1>1. /\ r \in P /\ c.id = r /\ c.at \in Nat
      /\ kind = "graphql" => c.at = ToMs(at[r])
      /\ kind = "rest" => c.at = at[r]
      /\ kind = "joined" => \E q \in P : c.at = at[q] /\ (q = r \/ Before(q, r))
  BY CursorIsLast
<1>2. at[r] \in Nat /\ at[s] \in Nat /\ r \in Nat /\ s \in Nat
      /\ \A q \in P : at[q] \in Nat
  BY <1>1, Domains
<1>3. at[r] > at[s] \/ (at[r] = at[s] /\ r > s)
  BY <1>1 DEF Before
<1>4. CASE kind = "graphql"
  BY <1>1, <1>2, <1>3, <1>4 DEF Beyond, SameMs
<1>5. CASE kind = "rest"
  BY <1>1, <1>2, <1>3, <1>5 DEF Beyond
<1>6. CASE kind = "joined"
  BY <1>1, <1>2, <1>3, <1>6 DEF Beyond, Before
<1>. QED
  BY <1>4, <1>5, <1>6, PagingAssumption DEF TypeOK

(* Without joined items every row of a page, and every row an earlier      *)
(* cursor was past, lies behind the next cursor.                           *)
LEMMA LeftBehind ==
  ASSUME TypeOK, kind # "joined",
         NEW P \in SUBSET Row, NEW r \in LastOf(P), NEW more \in BOOLEAN,
         NEW c \in CursorAfter(r, P, more), ~Past(r),
         NEW s \in Row, s \in P \/ Past(s)
  PROVE  ~Beyond(s, c)
<1>1. /\ r \in P /\ c.id = r /\ c.at \in Nat /\ c # NoCursor
      /\ kind = "graphql" => c.at = ToMs(at[r])
      /\ kind = "rest" => c.at = at[r]
  BY CursorIsLast
<1>2. at[r] \in Nat /\ at[s] \in Nat /\ r \in Nat /\ s \in Nat
  BY <1>1, Domains
<1>3. c.at <= at[r]
  BY <1>1, <1>2, Cut, PagingAssumption DEF TypeOK
<1>4. CASE s \in P
  <2>1. s = r \/ at[s] > at[r] \/ (at[s] = at[r] /\ s > r)
    BY <1>4 DEF LastOf, Before
  <2>. QED
    BY <1>1, <1>2, <1>3, <2>1 DEF Beyond
<1>5. CASE Past(s)
  <2>1. cursor # NoCursor /\ cursor.at \in Nat /\ cursor.id \in Nat
    BY <1>5, Domains DEF Past, Beyond
  <2>2. ~(at[s] < cursor.at \/ (at[s] = cursor.at /\ s < cursor.id))
    BY <1>5 DEF Past, Beyond
  <2>3. at[r] < cursor.at \/ (at[r] = cursor.at /\ r < cursor.id)
    BY <2>1 DEF Past, Beyond
  <2>4. at[s] > at[r] \/ (at[s] = at[r] /\ s > r)
    BY <1>2, <2>1, <2>2, <2>3
  <2>. QED
    BY <1>1, <1>2, <1>3, <2>4 DEF Beyond
<1>. QED
  BY <1>4, <1>5

LEMMA Loading ==
  ASSUME PInv, Load
  PROVE  PInv'
<1>. DEFINE found == ids \cap present
            more == Cardinality(found) > Limit
<1>1. PICK P \in SUBSET found :
        /\ Leads(P, found)
        /\ IF more THEN Cardinality(P) = Limit ELSE P = found
        /\ seen' = [r \in Row |-> IF r \in P /\ seen[r] < 2 THEN seen[r] + 1 ELSE seen[r]]
        /\ ends' = ends \cup LastOf(P)
        /\ IF P = {}
           THEN UNCHANGED cursor
           ELSE \E r \in LastOf(P) : cursor' \in CursorAfter(r, P, more)
  BY DEF Load, Show, HasNext
<1>a. more \in BOOLEAN
  OBVIOUS
<1>2. /\ pc = "loading" /\ pc' = IF more THEN "idle" ELSE "done"
      /\ ids' = {}
      /\ UNCHANGED <<kind, at, lines, present, kept, short, changes>>
  BY DEF Load, HasNext, list
<1>3. TypeOK /\ P \subseteq Row /\ P \subseteq ids /\ kept \subseteq Row
      /\ kept \subseteq present
  BY <1>1 DEF PInv, TypeOK
<1>4. seen' \in [Row -> 0..2]
  BY <1>1 DEF PInv, TypeOK
<1>5. cursor' \in [at : Nat, id : Row] \cup {NoCursor}
  <2>1. CASE P = {}
    BY <1>1, <2>1 DEF PInv, TypeOK
  <2>2. CASE P # {}
    <3>1. PICK z \in LastOf(P) : cursor' \in CursorAfter(z, P, more)
      BY <1>1, <2>2
    <3>. QED
      BY <1>a, <1>3, <3>1, CursorIsLast
  <2>. QED
    BY <2>1, <2>2
<1>6. TypeOK'
  <2>1. Cardinality({}) = 0 /\ LastOf(P) \subseteq Row
    BY <1>3, FS_EmptySet DEF LastOf
  <2>2. Cardinality(ids') <= Limit + 1 /\ ids' \subseteq Row
    BY <1>2, <2>1, PagingAssumption
  <2>3. ends' \subseteq Row /\ pc' \in {"idle", "loading", "done"}
    BY <1>1, <1>2, <2>1 DEF PInv, TypeOK
  <2>. QED
    BY <1>2, <1>4, <1>5, <2>2, <2>3 DEF PInv, TypeOK
<1>7. \A r \in Row : Accounted(r) => Accounted(r)'
  BY <1>1, <1>2 DEF Accounted, Cause, SameMs, ToMs, PInv, TypeOK
<1>8. \A r \in P : Accounted(r)'
  BY <1>1, <1>3 DEF Accounted, PInv, TypeOK
<1>9. ASSUME ~more, NEW r \in kept PROVE Accounted(r)'
  <2>1. CASE Past(r)
    BY <1>3, <1>7, <2>1 DEF PInv
  <2>2. CASE r \in ids
    BY <1>1, <1>3, <1>8, <1>9, <2>2
  <2>3. CASE Cardinality(ids) = Limit + 1
    <3>1. CASE kind = "graphql" /\ short
      BY <1>2, <3>1 DEF Accounted, Cause
    <3>2. CASE ids \subseteq present
      <4>1. found = ids
        BY <3>2
      <4>. QED
        BY <1>9, <2>3, <4>1, PagingAssumption
    <3>. QED
      BY <3>1, <3>2 DEF PInv
  <2>. QED
    BY <1>2, <2>1, <2>2, <2>3 DEF PInv
<1>10. ASSUME more, NEW r \in kept, ~Beyond(r, cursor') PROVE Accounted(r)'
  <2>1. P # {}
    BY <1>1, <1>10, FS_EmptySet, PagingAssumption
  <2>2. PICK z \in LastOf(P) : cursor' \in CursorAfter(z, P, more)
    BY <1>1, <2>1
  <2>3. CASE Past(r)
    BY <1>3, <1>7, <2>3 DEF PInv
  <2>4. CASE r \in P
    BY <1>8, <2>4
  <2>5. CASE \A p \in P : Before(p, r)
    <3>1. kind = "graphql" /\ SameMs(r, z)
      BY <1>a, <1>3, <1>10, <2>2, <2>5, LeftOut
    <3>2. z \in ends' /\ kind' = "graphql" /\ SameMs(r, z)'
      BY <1>1, <1>2, <2>2, <3>1 DEF SameMs, ToMs
    <3>. QED
      BY <3>2 DEF Accounted, Cause
  <2>6. CASE r \in ids /\ r \notin P
    <3>1. r \in found \ P
      BY <1>3, <2>6
    <3>. QED
      BY <1>1, <2>5, <3>1 DEF Leads
  <2>7. CASE \A i \in ids : Before(i, r)
    BY <1>3, <2>5, <2>7
  <2>. QED
    BY <1>2, <2>3, <2>4, <2>6, <2>7 DEF PInv
<1>11. ASSUME kind # "joined", NEW r \in Row
       PROVE  seen'[r] <= 1 /\ (seen'[r] > 0 => ~Beyond(r, cursor'))
  <2>1. \A p \in P : ~Past(p) /\ seen[p] = 0
    BY <1>3, <1>11 DEF PInv, TypeOK
  <2>2. seen'[r] <= 1 /\ (seen'[r] > 0 => r \in P \/ Past(r))
    BY <1>1, <1>3, <1>11, <2>1 DEF PInv, TypeOK
  <2>3. CASE P = {}
    BY <1>1, <2>2, <2>3 DEF Past
  <2>4. CASE P # {}
    <3>1. PICK z \in LastOf(P) : cursor' \in CursorAfter(z, P, more)
      BY <1>1, <2>4
    <3>2. ~Past(z)
      BY <2>1, <3>1 DEF LastOf
    <3>. QED
      BY <1>a, <1>3, <1>11, <2>2, <3>1, <3>2, LeftBehind
  <2>. QED
    BY <2>3, <2>4
<1>12. kind # "joined" => \A r \in Row : seen'[r] <= 1 /\ (seen'[r] > 0 => Past(r)')
  BY <1>2, <1>11 DEF Past, Beyond
<1>13. (pc' = "done" => \A r \in kept : Accounted(r)')
       /\ \A r \in kept : Past(r)' => Accounted(r)'
  BY <1>2, <1>9, <1>10 DEF Past, Beyond
<1>. QED
  BY <1>2, <1>6, <1>12, <1>13 DEF PInv
-----------------------------------------------------------------------------
LEMMA Step == PInv /\ [Next]_vars => PInv'
<1>. SUFFICES ASSUME PInv, [Next]_vars PROVE PInv'
  OBVIOUS
<1>1. CASE \E r \in Row : Appear(r) \/ AddItem(r) \/ Disappear(r)
  BY <1>1, Changes, Items
<1>2. CASE FindIds
  BY <1>2, Finding
<1>3. CASE Load
  BY <1>3, Loading
<1>4. CASE Done \/ UNCHANGED vars
  BY <1>4 DEF Done, vars, PInv, TypeOK, Past, Beyond, Accounted, Cause, SameMs,
              ToMs, Before
<1>. QED
  BY <1>1, <1>2, <1>3, <1>4 DEF Next

(* The invariant holds of every walk (paginateQueryBuilderByCursor and     *)
(* findOrders), whatever appears or disappears meanwhile.                  *)
THEOREM Invariance == Spec => []PInv
<1>. QED
  BY Initially, Step, PTL DEF Spec

(* Every variable keeps its type.                                          *)
THEOREM TypeCorrect == Spec => []TypeOK
<1>1. PInv => TypeOK
  BY DEF PInv
<1>. QED
  BY <1>1, Invariance, PTL

(* A REST list shows every row that was there all the time.                *)
THEOREM RestMissesNothing == Spec => []NoneMissed
<1>1. PInv => NoneMissed
  BY DEF PInv, NoneMissed, Accounted
<1>. QED
  BY <1>1, Invariance, PTL

(* Without joined items no list shows a row twice.                         *)
THEOREM NothingTwice == Spec => []NoneTwice
<1>1. PInv => NoneTwice
  BY DEF PInv, NoneTwice
<1>. QED
  BY <1>1, Invariance, PTL

(* What GraphQL misses shares a millisecond with the end of a page, unless *)
(* the list ended early.                                                   *)
THEOREM MissingHasCause == Spec => []MissedHasCause
<1>1. PInv => MissedHasCause
  BY DEF PInv, MissedHasCause, Accounted
<1>. QED
  BY <1>1, Invariance, PTL
=============================================================================
