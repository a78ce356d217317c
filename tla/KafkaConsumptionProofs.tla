------------------------ MODULE KafkaConsumptionProofs ------------------------
(***************************************************************************)
(* At-least-once delivery in order, for any number of events, partitions   *)
(* and processes and any failures.  The argument never looks at the owner: *)
(* a process that lost its partition is past handled events only, too, and *)
(* so it would do no harm if its late commit were accepted.  What repeats  *)
(* cost does depend on the owner; that comes last.                         *)
(***************************************************************************)
EXTENDS KafkaConsumption, FiniteSetTheorems, TLAPS

(* What a step may do to the broker's data without anybody noticing: logs  *)
(* grow at their end, handlers run again.                                  *)
Grows ==
    /\ UNCHANGED reader
    /\ \A p \in Partition :
          /\ Len(log[p]) <= Len(log'[p])
          /\ \A k \in 1..Len(log[p]) : log'[p][k] = log[p][k]
          /\ heard[p] \subseteq heard'[p]

LEMMA SameBad ==
  ASSUME UNCHANGED reader
  PROVE  Bad' = Bad
BY DEF Bad, Handles, OrdersAnalytics, OrdersCrm, PaymentsAnalytics, PaymentsAudit

(* Typing in parts, for the actions that leave most of it alone.           *)
BrokerOK ==
    /\ reader \in Reader
    /\ sends \in [Event -> 0..MaxSends]
    /\ acked \subseteq Event
    /\ log \in [Partition -> Seq(Event)]
    /\ \A p \in Partition : Len(log[p]) <= MaxLog
GroupOK ==
    /\ up \subseteq Process
    /\ owner \in [Partition -> Process \cup {Nobody}]
    /\ committed \in [Partition -> Nat]
SessionOK ==
    /\ position \in [Process -> [Partition -> Nat]]
    /\ step \in [Process -> [Partition -> Step]]
    /\ heard \in [Partition -> SUBSET Offset]
    /\ runs \in [Partition -> Nat]
SessionInv ==
    \A m \in Process, p \in Partition :
        /\ Passed(p, position[m][p])
        /\ step[m][p] = "handling" => Following(m, p) <= Len(log[p])
        /\ step[m][p] = "handled" => Passed(p, Following(m, p))
CommittedInv == \A p \in Partition : Passed(p, committed[p])

LEMMA Parts ==
  KInv <=> /\ BrokerOK /\ GroupOK /\ SessionOK /\ faults \in 0..MaxFaults
           /\ CommittedInv /\ SessionInv /\ HeardInOrder
BY DEF KInv, TypeOK, BrokerOK, GroupOK, SessionOK, CommittedInv, SessionInv, Passed

LEMMA PartsPrimed ==
  KInv' <=> /\ BrokerOK' /\ GroupOK' /\ SessionOK' /\ (faults \in 0..MaxFaults)'
            /\ CommittedInv' /\ SessionInv' /\ HeardInOrder'
BY DEF KInv, TypeOK, BrokerOK, GroupOK, SessionOK, CommittedInv, SessionInv, Passed

(* An event that was passed stays passed.                                  *)
LEMMA PassedStays ==
  ASSUME BrokerOK, BrokerOK', SessionOK, SessionOK', Grows,
         NEW p \in Partition, NEW n \in Nat, Passed(p, n)
  PROVE  Passed(p, n)'
<1>1. n <= Len(log[p]) /\ Len(log[p]) <= MaxLog /\ Len(log[p]) \in Nat /\ MaxLog \in Nat
  BY KafkaAssumption DEF Passed, BrokerOK
<1>2. Len(log[p]) <= Len(log'[p]) /\ Len(log'[p]) \in Nat
  BY DEF Grows, BrokerOK
<1>3. ASSUME NEW k \in 1..n
      PROVE  k \in heard'[p] /\ log'[p][k] \notin Bad
  <2>1. k \in 1..Len(log[p])
    BY <1>1, <1>3
  <2>2. k \in heard[p] /\ log[p][k] \notin Bad
    BY <1>3 DEF Passed
  <2>. QED
    BY <2>1, <2>2 DEF Grows
<1>4. Bad' = Bad
  BY SameBad DEF Grows
<1>. QED
  BY <1>1, <1>2, <1>3, <1>4 DEF Passed

(* An action that leaves the log alone and in which no handler ends.       *)
LEMMA NothingHeard ==
  ASSUME KInv, UNCHANGED <<reader, log, heard>>
  PROVE  Grows /\ HeardInOrder' /\ (\A p, n : Passed(p, n)' <=> Passed(p, n))
<1>1. Grows
  BY DEF Grows, KInv, TypeOK
<1>2. HeardInOrder'
  BY DEF HeardInOrder, KInv
<1>3. Bad' = Bad
  BY SameBad
<1>. QED
  BY <1>1, <1>2, <1>3 DEF Passed

LEMMA Initially == Init => KInv
<1>. SUFFICES ASSUME Init PROVE KInv
  OBVIOUS
<1>1. \A p \in Partition : log[p] = <<>> /\ committed[p] = 0
  BY DEF Init
<1>2. \A m \in Process, p \in Partition : position[m][p] = 0 /\ step[m][p] = "away"
  BY DEF Init
<1>3. \A p \in Partition : heard[p] = {}
  BY DEF Init
<1>4. BrokerOK
  BY <1>1, KafkaAssumption DEF Init, BrokerOK
<1>5. GroupOK /\ SessionOK
  BY DEF Init, GroupOK, SessionOK, Step
<1>6. faults \in 0..MaxFaults
  BY KafkaAssumption DEF Init
<1>7. CommittedInv /\ SessionInv
  BY <1>1, <1>2 DEF CommittedInv, SessionInv, Passed
<1>8. HeardInOrder
  BY <1>3 DEF HeardInOrder
<1>. QED
  BY <1>4, <1>5, <1>6, <1>7, <1>8, Parts
-----------------------------------------------------------------------------
LEMMA Publishing ==
  ASSUME KInv, NEW e \in Event, Publish(e)
  PROVE  KInv'
<1>0. BrokerOK /\ GroupOK /\ SessionOK /\ faults \in 0..MaxFaults
      /\ CommittedInv /\ SessionInv /\ HeardInOrder
  BY Parts
<1>1. UNCHANGED <<reader, up, owner, committed, position, step, heard, runs, faults>>
  BY DEF Publish, session, group, effect
<1>2. sends' \in [Event -> 0..MaxSends]
  BY <1>0, KafkaAssumption DEF Publish, BrokerOK
<1>3. acked' \subseteq Event
  BY <1>0 DEF Publish, BrokerOK
<1>4. /\ log' \in [Partition -> Seq(Event)]
      /\ \A p \in Partition :
            /\ Len(log'[p]) <= MaxLog
            /\ Len(log[p]) <= Len(log'[p])
            /\ \A k \in 1..Len(log[p]) : log'[p][k] = log[p][k]
  <2>1. CASE log' = log
    BY <1>0, <2>1 DEF BrokerOK
  <2>2. CASE /\ Len(log[Home[e]]) < MaxLog
             /\ log' = [log EXCEPT ![Home[e]] = Append(@, e)]
    <3>1. Home[e] \in Partition
      BY KafkaAssumption
    <3>2. log \in [Partition -> Seq(Event)] /\ \A p \in Partition : Len(log[p]) <= MaxLog
      BY <1>0 DEF BrokerOK
    <3>3. \A p \in Partition : log'[p] = IF p = Home[e] THEN Append(log[p], e) ELSE log[p]
      BY <2>2, <3>1, <3>2
    <3>4. log' \in [Partition -> Seq(Event)]
      BY <2>2, <3>1, <3>2
    <3>. QED
      BY <2>2, <3>1, <3>2, <3>3, <3>4, KafkaAssumption
  <2>. QED
    BY <2>1, <2>2 DEF Publish
<1>5. BrokerOK' /\ Bad' = Bad
  BY <1>0, <1>1, <1>2, <1>3, <1>4, SameBad DEF BrokerOK
<1>6. GroupOK' /\ SessionOK' /\ (faults \in 0..MaxFaults)'
  BY <1>0, <1>1 DEF GroupOK, SessionOK
<1>7. Grows
  BY <1>0, <1>1, <1>4 DEF Grows, SessionOK
<1>8. CommittedInv'
  BY <1>0, <1>1, <1>5, <1>6, <1>7, PassedStays DEF CommittedInv, GroupOK
<1>9. SessionInv'
  <2>. SUFFICES ASSUME NEW m \in Process, NEW p \in Partition
                PROVE  /\ Passed(p, position[m][p])'
                       /\ (step[m][p] = "handling")' => (Following(m, p) <= Len(log[p]))'
                       /\ (step[m][p] = "handled")' => Passed(p, Following(m, p))'
    BY DEF SessionInv
  <2>1. position[m][p] \in Nat /\ position'[m][p] = position[m][p] /\ step'[m][p] = step[m][p]
    BY <1>0, <1>1 DEF SessionOK
  <2>2. Following(m, p) \in Nat /\ Following(m, p)' = Following(m, p)
    BY <2>1 DEF Following
  <2>3. Passed(p, position[m][p])
        /\ (step[m][p] = "handling" => Following(m, p) <= Len(log[p]))
        /\ (step[m][p] = "handled" => Passed(p, Following(m, p)))
    BY <1>0 DEF SessionInv
  <2>4. Len(log[p]) \in Nat /\ Len(log'[p]) \in Nat /\ Len(log[p]) <= Len(log'[p])
    BY <1>0, <1>4, <1>5 DEF BrokerOK
  <2>5. \A n \in Nat : Passed(p, n) => Passed(p, n)'
    BY <1>0, <1>5, <1>6, <1>7, PassedStays
  <2>6. Passed(p, position[m][p])'
    BY <1>1, <2>1, <2>3, <2>5 DEF Passed
  <2>7. (step[m][p] = "handled")' => Passed(p, Following(m, p))'
    BY <1>1, <2>1, <2>2, <2>3, <2>5 DEF Passed, Following
  <2>. QED
    BY <2>1, <2>2, <2>3, <2>4, <2>6, <2>7
<1>10. HeardInOrder'
  <2>. SUFFICES ASSUME NEW p \in Partition, NEW n \in heard[p]
                PROVE  n <= Len(log'[p]) /\ 1..(n - 1) \subseteq heard[p]
    BY <1>1 DEF HeardInOrder
  <2>1. Len(log[p]) \in Nat /\ Len(log'[p]) \in Nat /\ Len(log[p]) <= Len(log'[p])
    BY <1>0, <1>4, <1>5 DEF BrokerOK
  <2>2. n \in Offset /\ n \in Nat
    BY <1>0 DEF SessionOK, Offset
  <2>3. n <= Len(log[p]) /\ 1..(n - 1) \subseteq heard[p]
    BY <1>0 DEF HeardInOrder
  <2>. QED
    BY <2>1, <2>2, <2>3
<1>. QED
  BY <1>5, <1>6, <1>8, <1>9, <1>10, PartsPrimed
-----------------------------------------------------------------------------
(* Steps of processes and the coordinator, which leave the log alone and   *)
(* in which no handler ends.                                               *)
LEMMA Quietly ==
  ASSUME KInv, UNCHANGED <<reader, sends, acked, log, heard, runs>>,
         faults' \in 0..MaxFaults,
         up' \subseteq Process,
         owner' \in [Partition -> Process \cup {Nobody}],
         committed' \in [Partition -> Nat],
         position' \in [Process -> [Partition -> Nat]],
         step' \in [Process -> [Partition -> Step]],
         \A p \in Partition : Passed(p, committed'[p]),
         \A m \in Process, p \in Partition :
            /\ Passed(p, position'[m][p])
            /\ step'[m][p] = "handling" => position'[m][p] + 1 <= Len(log[p])
            /\ step'[m][p] = "handled" => Passed(p, position'[m][p] + 1)
  PROVE  KInv'
<1>1. BrokerOK' /\ GroupOK' /\ SessionOK'
  BY Parts DEF BrokerOK, GroupOK, SessionOK
<1>2. HeardInOrder' /\ CommittedInv' /\ Bad' = Bad
  BY NothingHeard, SameBad DEF CommittedInv, Passed
<1>3. SessionInv'
  BY <1>2 DEF SessionInv, Passed, Following
<1>. QED
  BY <1>1, <1>2, <1>3, PartsPrimed

(* Zero is past nothing.                                                   *)
LEMMA PassedZero ==
  ASSUME KInv, NEW p \in Partition
  PROVE  Passed(p, 0)
BY Parts DEF Passed, BrokerOK

(* The facts a step of m in p uses.                                        *)
LEMMA Here ==
  ASSUME KInv, NEW m \in Process, NEW p \in Partition
  PROVE  /\ position \in [Process -> [Partition -> Nat]]
         /\ step \in [Process -> [Partition -> Step]]
         /\ committed \in [Partition -> Nat]
         /\ up \subseteq Process
         /\ owner \in [Partition -> Process \cup {Nobody}]
         /\ faults \in 0..MaxFaults
         /\ position[m][p] \in Nat /\ Len(log[p]) \in Nat
         /\ Following(m, p) = position[m][p] + 1
         /\ Passed(p, committed[p])
         /\ Passed(p, position[m][p])
         /\ step[m][p] = "handling" => position[m][p] + 1 <= Len(log[p])
         /\ step[m][p] = "handled" => Passed(p, position[m][p] + 1)
<1>1. BrokerOK /\ GroupOK /\ SessionOK /\ faults \in 0..MaxFaults /\ CommittedInv /\ SessionInv
  BY Parts
<1>2. position[m][p] \in Nat
  BY <1>1 DEF SessionOK
<1>. QED
  BY <1>1, <1>2 DEF BrokerOK, GroupOK, SessionOK, CommittedInv, SessionInv, Following

(* The same, for every process and partition.                              *)
LEMMA Everywhere ==
  ASSUME KInv
  PROVE  \A m \in Process, p \in Partition :
            /\ position[m][p] \in Nat
            /\ Passed(p, position[m][p])
            /\ step[m][p] = "handling" => position[m][p] + 1 <= Len(log[p])
            /\ step[m][p] = "handled" => Passed(p, position[m][p] + 1)
BY Here

LEMMA Assigning ==
  ASSUME KInv, NEW m \in Process, NEW p \in Partition, Assign(m, p)
  PROVE  KInv'
<1>1. /\ UNCHANGED <<reader, up, sends, acked, log, heard, runs, committed, faults>>
      /\ owner' = [owner EXCEPT ![p] = m]
      /\ position' = [position EXCEPT ![m][p] = committed[p]]
      /\ step' = [step EXCEPT ![m][p] = "waiting"]
  BY DEF Assign, broker, effect
<1>2. \A q \in Partition : Passed(q, committed[q])
  BY Parts DEF CommittedInv
<1>. QED
  BY <1>1, <1>2, Here, Everywhere, Quietly DEF Step

LEMMA Fetching ==
  ASSUME KInv, NEW m \in Process, NEW p \in Partition, Fetch(m, p)
  PROVE  KInv'
<1>1. /\ UNCHANGED <<reader, up, sends, acked, log, heard, runs, owner, committed, position, faults>>
      /\ step' = [step EXCEPT ![m][p] = "handling"]
      /\ position[m][p] < Len(log[p])
  BY DEF Fetch, broker, group, effect
<1>2. \A q \in Partition : Passed(q, committed[q])
  BY Parts DEF CommittedInv
<1>. QED
  BY <1>1, <1>2, Here, Everywhere, Quietly DEF Step

LEMMA Committing ==
  ASSUME KInv, NEW m \in Process, NEW p \in Partition, Commit(m, p)
  PROVE  KInv'
<1>1. /\ UNCHANGED <<reader, up, sends, acked, log, heard, runs, owner, faults>>
      /\ step[m][p] = "handled"
      /\ committed' = [committed EXCEPT ![p] = Following(m, p)]
      /\ position' = [position EXCEPT ![m][p] = @ + 1]
      /\ step' = [step EXCEPT ![m][p] = "waiting"]
  BY DEF Commit, broker, group, effect
<1>2. \A q \in Partition : Passed(q, committed[q])
  BY Parts DEF CommittedInv
<1>. QED
  BY <1>1, <1>2, Here, Everywhere, Quietly DEF Step

LEMMA FailingToCommit ==
  ASSUME KInv, NEW m \in Process, NEW p \in Partition, CommitFails(m, p)
  PROVE  KInv'
<1>1. /\ UNCHANGED <<reader, up, sends, acked, log, heard, runs, owner, position>>
      /\ step[m][p] = "handled"
      /\ committed' \in {committed, [committed EXCEPT ![p] = Following(m, p)]}
      /\ step' = [step EXCEPT ![m][p] = "waiting"]
      /\ faults < MaxFaults /\ faults' = faults + 1
  BY DEF CommitFails, broker, group, effect
<1>2. \A q \in Partition : Passed(q, committed[q])
  BY Parts DEF CommittedInv
<1>3. faults' \in 0..MaxFaults
  BY <1>1, Here, KafkaAssumption
<1>4. /\ committed' \in [Partition -> Nat]
      /\ \A q \in Partition : Passed(q, committed'[q])
  <2>1. /\ committed \in [Partition -> Nat] /\ Following(m, p) \in Nat
        /\ Passed(p, Following(m, p))
    BY <1>1, Here
  <2>2. CASE committed' = committed
    BY <1>2, <2>1, <2>2
  <2>3. CASE committed' = [committed EXCEPT ![p] = Following(m, p)]
    <3>1. \A q \in Partition :
             committed'[q] = IF q = p THEN Following(m, p) ELSE committed[q]
      BY <2>1, <2>3
    <3>. QED
      BY <1>2, <2>1, <2>3, <3>1
  <2>. QED
    BY <1>1, <2>2, <2>3
<1>5. /\ up' \subseteq Process
      /\ position' \in [Process -> [Partition -> Nat]]
      /\ owner' \in [Partition -> Process \cup {Nobody}]
      /\ step' \in [Process -> [Partition -> Step]]
  BY <1>1, Here DEF Step
<1>6. \A n \in Process, q \in Partition :
         position'[n][q] = position[n][q]
         /\ (step'[n][q] = step[n][q] \/ step'[n][q] = "waiting")
  BY <1>1, Here
<1>. QED
  BY <1>1, <1>3, <1>4, <1>5, <1>6, Everywhere, Quietly

LEMMA BeingFenced ==
  ASSUME KInv, NEW m \in Process, NEW p \in Partition, Fenced(m, p)
  PROVE  KInv'
<1>1. /\ UNCHANGED <<reader, up, sends, acked, log, heard, runs, owner, committed, faults>>
      /\ position' = [position EXCEPT ![m][p] = 0]
      /\ step' = [step EXCEPT ![m][p] = "away"]
  BY DEF Fenced, broker, group, effect
<1>2. \A q \in Partition : Passed(q, committed[q])
  BY Parts DEF CommittedInv
<1>. QED
  BY <1>1, <1>2, Here, Everywhere, PassedZero, Quietly DEF Step

LEMMA Rebalancing ==
  ASSUME KInv, NEW p \in Partition, Rebalance(p)
  PROVE  KInv'
<1>1. /\ UNCHANGED <<reader, up, sends, acked, log, heard, runs, committed, position, step>>
      /\ owner' = [owner EXCEPT ![p] = Nobody]
      /\ faults < MaxFaults /\ faults' = faults + 1
  BY DEF Rebalance, broker, session, effect
<1>2. /\ BrokerOK /\ GroupOK /\ SessionOK /\ faults \in 0..MaxFaults
      /\ \A q \in Partition : Passed(q, committed[q])
  BY Parts DEF CommittedInv
<1>3. faults' \in 0..MaxFaults
  BY <1>1, <1>2, KafkaAssumption
<1>4. /\ up' \subseteq Process
      /\ owner' \in [Partition -> Process \cup {Nobody}]
      /\ committed' \in [Partition -> Nat]
      /\ position' \in [Process -> [Partition -> Nat]]
      /\ step' \in [Process -> [Partition -> Step]]
  BY <1>1, <1>2 DEF GroupOK, SessionOK
<1>. QED
  BY <1>1, <1>2, <1>3, <1>4, Everywhere, Quietly

LEMMA Starting ==
  ASSUME KInv, NEW m \in Process, Start(m)
  PROVE  KInv'
<1>1. /\ UNCHANGED <<reader, sends, acked, log, heard, runs, owner, committed, position, step,
                      faults>>
      /\ up' = up \cup {m}
  BY DEF Start, broker, session, effect
<1>2. /\ GroupOK /\ SessionOK /\ faults \in 0..MaxFaults
      /\ \A q \in Partition : Passed(q, committed[q])
  BY Parts DEF CommittedInv
<1>3. /\ up' \subseteq Process
      /\ owner' \in [Partition -> Process \cup {Nobody}]
      /\ committed' \in [Partition -> Nat]
      /\ position' \in [Process -> [Partition -> Nat]]
      /\ step' \in [Process -> [Partition -> Step]]
  BY <1>1, <1>2 DEF GroupOK, SessionOK
<1>. QED
  BY <1>1, <1>2, <1>3, Everywhere, Quietly

LEMMA Crashing ==
  ASSUME KInv, NEW m \in Process, Crash(m)
  PROVE  KInv'
<1>1. /\ UNCHANGED <<reader, sends, acked, log, heard, runs, committed>>
      /\ up' = up \ {m}
      /\ owner' = [p \in Partition |-> IF owner[p] = m THEN Nobody ELSE owner[p]]
      /\ step' = [step EXCEPT ![m] = [p \in Partition |-> "away"]]
      /\ position' = [position EXCEPT ![m] = [p \in Partition |-> 0]]
      /\ faults < MaxFaults /\ faults' = faults + 1
  BY DEF Crash, broker, effect
<1>2. /\ GroupOK /\ SessionOK /\ faults \in 0..MaxFaults
      /\ \A q \in Partition : Passed(q, committed[q])
  BY Parts DEF CommittedInv
<1>3. faults' \in 0..MaxFaults
  BY <1>1, <1>2, KafkaAssumption
<1>4. owner' \in [Partition -> Process \cup {Nobody}]
  BY <1>1, <1>2 DEF GroupOK
<1>5. /\ position' \in [Process -> [Partition -> Nat]]
      /\ step' \in [Process -> [Partition -> Step]]
  BY <1>1, <1>2 DEF SessionOK, Step
<1>6. \A n \in Process, p \in Partition :
         /\ position'[n][p] = IF n = m THEN 0 ELSE position[n][p]
         /\ step'[n][p] = IF n = m THEN "away" ELSE step[n][p]
  BY <1>1, <1>2 DEF SessionOK
<1>. QED
  BY <1>1, <1>2, <1>3, <1>4, <1>5, <1>6, Everywhere, PassedZero, Quietly DEF GroupOK
-----------------------------------------------------------------------------
(* A handler that ends has all events ahead of its own handled before it.  *)
LEMMA Handling ==
  ASSUME KInv, NEW m \in Process, NEW p \in Partition, Handle(m, p)
  PROVE  KInv'
<1>. DEFINE n == position[m][p] + 1
<1>0. /\ BrokerOK /\ GroupOK /\ SessionOK /\ faults \in 0..MaxFaults
      /\ CommittedInv /\ SessionInv /\ HeardInOrder
  BY Parts
<1>1. /\ UNCHANGED <<reader, up, sends, acked, log, owner, committed, position, faults>>
      /\ step[m][p] = "handling"
  BY DEF Handle, broker, group
<1>2. /\ n \in Offset /\ n <= Len(log[p]) /\ Following(m, p) = n
      /\ Passed(p, position[m][p]) /\ position[m][p] \in Nat
  <2>1. n <= Len(log[p]) /\ Len(log[p]) \in Nat /\ position[m][p] \in Nat
    BY <1>1, Here
  <2>2. Len(log[p]) <= MaxLog
    BY <1>0 DEF BrokerOK
  <2>. QED
    BY <2>1, <2>2, Here, KafkaAssumption DEF Offset
<1>3. CASE log[p][n] \in Bad
  <2>1. step' = [step EXCEPT ![m][p] = "waiting"] /\ UNCHANGED <<heard, runs>>
    BY <1>2, <1>3 DEF Handle, effect
  <2>2. \A q \in Partition : Passed(q, committed[q])
    BY <1>0 DEF CommittedInv
  <2>. QED
    BY <1>1, <2>1, <2>2, Here, Everywhere, Quietly DEF Step
<1>4. CASE log[p][n] \notin Bad
  <2>1. /\ heard' = [heard EXCEPT ![p] = @ \cup {n}]
        /\ runs' = [runs EXCEPT ![p] = @ + 1]
        /\ step' = [step EXCEPT ![m][p] = "handled"]
    BY <1>2, <1>4 DEF Handle, Run
  <2>2. heard \in [Partition -> SUBSET Offset] /\ step \in [Process -> [Partition -> Step]]
    BY <1>0 DEF SessionOK
  <2>3. BrokerOK' /\ GroupOK' /\ (faults \in 0..MaxFaults)'
    BY <1>0, <1>1 DEF BrokerOK, GroupOK
  <2>4. SessionOK'
    BY <1>0, <1>1, <1>2, <2>1, <2>2 DEF SessionOK, Step
  <2>5. \A q \in Partition :
           heard'[q] = IF q = p THEN heard[p] \cup {n} ELSE heard[q]
    BY <2>1, <2>2
  <2>6. Grows
    <3>1. \A q \in Partition : Len(log[q]) \in Nat /\ log' = log
      BY <1>0, <1>1 DEF BrokerOK
    <3>2. \A q \in Partition : heard[q] \subseteq heard'[q]
      BY <2>5
    <3>. QED
      BY <1>1, <3>1, <3>2 DEF Grows
  <2>7. \A q \in Partition, k \in Nat : Passed(q, k) => Passed(q, k)'
    BY <1>0, <2>3, <2>4, <2>6, PassedStays
  <2>8. CommittedInv'
    BY <1>0, <1>1, <2>7 DEF CommittedInv, GroupOK, Passed
  <2>9. Passed(p, n)'
    <3>0. Bad' = Bad
      BY <1>1, SameBad
    <3>1. \A k \in 1..position[m][p] : k \in heard'[p] /\ log'[p][k] \notin Bad
      BY <1>2, <2>7, <3>0 DEF Passed
    <3>2. n \in heard'[p]
      BY <2>5
    <3>3. \A k \in 1..n : k \in 1..position[m][p] \/ k = n
      BY <1>2
    <3>4. n <= Len(log'[p]) /\ log'[p][n] \notin Bad
      BY <1>1, <1>2, <1>4
    <3>5. \A k \in 1..n : k \in heard'[p] /\ log'[p][k] \notin Bad
      BY <3>1, <3>2, <3>3, <3>4
    <3>. QED
      BY <1>1, <3>0, <3>4, <3>5 DEF Passed
  <2>10. SessionInv'
    <3>. SUFFICES ASSUME NEW i \in Process, NEW q \in Partition
                  PROVE  /\ Passed(q, position[i][q])'
                         /\ (step[i][q] = "handling")' => (Following(i, q) <= Len(log[q]))'
                         /\ (step[i][q] = "handled")' => Passed(q, Following(i, q))'
      BY DEF SessionInv
    <3>1. /\ position[i][q] \in Nat /\ Following(i, q) = position[i][q] + 1
          /\ Passed(q, position[i][q])
          /\ (step[i][q] = "handling" => position[i][q] + 1 <= Len(log[q]))
          /\ (step[i][q] = "handled" => Passed(q, position[i][q] + 1))
      BY Here
    <3>2. position'[i][q] = position[i][q] /\ Following(i, q)' = position[i][q] + 1
          /\ log' = log
      BY <1>1 DEF Following
    <3>3. Passed(q, position[i][q])'
      BY <3>1, <3>2, <2>7 DEF Passed
    <3>4. CASE i = m /\ q = p
      BY <3>2, <3>3, <3>4, <2>1, <2>2, <2>9 DEF Passed, Following
    <3>5. CASE ~(i = m /\ q = p)
      <4>1. step'[i][q] = step[i][q]
        BY <3>5, <2>1, <2>2
      <4>2. step[i][q] = "handled" => Passed(q, Following(i, q))'
        BY <3>1, <3>2, <2>7 DEF Passed
      <4>. QED
        BY <3>1, <3>2, <3>3, <4>1, <4>2
    <3>. QED
      BY <3>4, <3>5
  <2>11. HeardInOrder'
    <3>. SUFFICES ASSUME NEW q \in Partition, NEW k \in heard'[q]
                  PROVE  k <= Len(log[q]) /\ 1..(k - 1) \subseteq heard'[q]
      BY <1>1 DEF HeardInOrder
    <3>1. CASE q = p /\ k = n
      <4>1. 1..(k - 1) \subseteq heard[p]
        BY <1>2, <3>1 DEF Passed
      <4>. QED
        BY <1>2, <2>5, <3>1, <4>1
    <3>2. CASE ~(q = p /\ k = n)
      <4>1. k \in heard[q] /\ heard[q] \subseteq heard'[q]
        BY <2>5, <3>2
      <4>. QED
        BY <1>0, <4>1 DEF HeardInOrder
    <3>. QED
      BY <3>1, <3>2
  <2>. QED
    BY <2>3, <2>4, <2>8, <2>10, <2>11, PartsPrimed
<1>. QED
  BY <1>3, <1>4
-----------------------------------------------------------------------------
LEMMA Stepping == KInv /\ [Next]_vars => KInv'
<1>. SUFFICES ASSUME KInv, [Next]_vars PROVE KInv'
  OBVIOUS
<1>1. ASSUME NEW e \in Event, Publish(e) PROVE KInv'
  BY <1>1, Publishing
<1>2. ASSUME NEW m \in Process, NEW p \in Partition,
             Assign(m, p) \/ Consume(m, p) \/ CommitFails(m, p)
      PROVE  KInv'
  BY <1>2, Assigning, Fetching, Handling, Committing, BeingFenced, FailingToCommit
     DEF Consume
<1>3. ASSUME NEW p \in Partition, Rebalance(p) PROVE KInv'
  BY <1>3, Rebalancing
<1>4. ASSUME NEW m \in Process, Start(m) \/ Crash(m) PROVE KInv'
  BY <1>4, Starting, Crashing
<1>5. CASE Drained \/ UNCHANGED vars
  <2>1. UNCHANGED vars
    BY <1>5 DEF Drained
  <2>. QED
    BY <2>1, SameBad DEF vars, KInv, TypeOK, Passed, Following, HeardInOrder
<1>. QED
  BY <1>1, <1>2, <1>3, <1>4, <1>5 DEF Next

(* The invariant holds in every state.                                     *)
THEOREM Invariance == Spec => []KInv
<1>1. Init => KInv
  BY Initially
<1>2. KInv /\ [Next]_vars => KInv'
  BY Stepping
<1>. QED
  BY <1>1, <1>2, PTL DEF Spec

(* Every variable keeps its type; no offset is committed beyond the log.   *)
THEOREM TypeCorrect == Spec => []TypeOK
<1>1. KInv => TypeOK
  BY DEF KInv
<1>. QED
  BY <1>1, Invariance, PTL

(* KafkaService.consume: what the group committed was handled to its end,  *)
(* whatever crashes, rebalances or commits fail.                           *)
THEOREM AtLeastOnce == Spec => []NoneSkipped
<1>1. KInv => NoneSkipped
  BY DEF KInv, Passed, NoneSkipped
<1>. QED
  BY <1>1, Invariance, PTL

(* The events of a partition, and so of an order, are first handled in the *)
(* order they were published.                                              *)
THEOREM OrderIsKept == Spec => []HeardInOrder
<1>1. KInv => HeardInOrder
  BY DEF KInv
<1>. QED
  BY <1>1, Invariance, PTL
-----------------------------------------------------------------------------
(* What repeats cost.                                                      *)

BudgetAt(p) ==
    /\ runs[p] + Cardinality(Stale(p)) <= Secured(p) + faults
    /\ owner[p] # Nobody => /\ position[owner[p]][p] <= committed[p]
                           /\ step[owner[p]][p] # "away"

LEMMA BudgetParts ==
  /\ Budget <=> \A p \in Partition : BudgetAt(p)
  /\ Budget' <=> \A p \in Partition : BudgetAt(p)'
BY DEF Budget, BudgetAt

LEMMA StaleCount ==
  ASSUME NEW p \in Partition
  PROVE  /\ IsFiniteSet(Stale(p)) /\ Cardinality(Stale(p)) \in Nat
         /\ IsFiniteSet(Stale(p)') /\ Cardinality(Stale(p)') \in Nat
BY KafkaAssumption, FS_Subset, FS_CardinalityType DEF Stale

(* The numbers a budget is made of.                                        *)
LEMMA Numbers ==
  ASSUME KInv, NEW p \in Partition
  PROVE  /\ runs[p] \in Nat /\ committed[p] \in Nat /\ faults \in Nat
         /\ Cardinality(Stale(p)) \in Nat /\ Cardinality(Stale(p)') \in Nat
         /\ owner[p] \in Process \cup {Nobody}
         /\ \A m \in Process : position[m][p] \in Nat /\ Following(m, p) = position[m][p] + 1
BY Parts, StaleCount, KafkaAssumption DEF GroupOK, SessionOK, Following

(* Partitions a step does not concern.                                     *)
LEMMA BudgetElsewhere ==
  ASSUME KInv, NEW q \in Partition, BudgetAt(q),
         owner'[q] = owner[q], committed'[q] = committed[q], runs'[q] = runs[q],
         \A i \in Process : position'[i][q] = position[i][q] /\ step'[i][q] = step[i][q],
         faults' \in {faults, faults + 1}
  PROVE  BudgetAt(q)'
<1>1. Stale(q)' = Stale(q)
  BY DEF Stale
<1>2. Secured(q)' = Secured(q)
  BY Numbers DEF Secured, Following
<1>3. /\ runs[q] \in Nat /\ faults \in Nat /\ Cardinality(Stale(q)) \in Nat
      /\ Secured(q) \in Nat
  BY Numbers DEF Secured
<1>4. owner[q] # Nobody =>
         /\ position'[owner[q]][q] = position[owner[q]][q]
         /\ step'[owner[q]][q] = step[owner[q]][q]
  BY Numbers
<1>. QED
  BY <1>1, <1>2, <1>3, <1>4 DEF BudgetAt

(* A process works on one partition in a step.                             *)
LEMMA OneAtATime ==
  ASSUME KInv, NEW m \in Process, NEW p \in Partition,
         Assign(m, p) \/ Consume(m, p) \/ CommitFails(m, p),
         NEW q \in Partition, q # p, BudgetAt(q)
  PROVE  BudgetAt(q)'
<1>0. BrokerOK /\ GroupOK /\ SessionOK /\ faults \in 0..MaxFaults
  BY Parts
<1>1. /\ owner'[q] = owner[q] /\ committed'[q] = committed[q] /\ runs'[q] = runs[q]
      /\ faults' \in {faults, faults + 1}
  BY <1>0 DEF GroupOK, SessionOK, Assign, Consume, Fetch, Handle, Commit, Fenced,
              CommitFails, Run, group, effect
<1>2. \A i \in Process : position'[i][q] = position[i][q] /\ step'[i][q] = step[i][q]
  <2>1. /\ \/ position' = position
           \/ \E v \in Nat : position' = [position EXCEPT ![m][p] = v]
        /\ \/ step' = step
           \/ \E v \in Step : step' = [step EXCEPT ![m][p] = v]
    <3>1. CASE Assign(m, p)
      BY <1>0, <3>1 DEF Assign, GroupOK, Step
    <3>2. CASE Fetch(m, p)
      BY <3>2 DEF Fetch, Step
    <3>3. CASE Handle(m, p)
      BY <3>3 DEF Handle, Step
    <3>4. CASE Commit(m, p)
      <4>1. position[m][p] + 1 \in Nat
        BY <1>0 DEF SessionOK
      <4>2. position' = [position EXCEPT ![m][p] = position[m][p] + 1]
        BY <1>0, <3>4 DEF Commit, SessionOK
      <4>. QED
        BY <3>4, <4>1, <4>2 DEF Commit, Step
    <3>5. CASE Fenced(m, p)
      BY <3>5 DEF Fenced, Step
    <3>6. CASE CommitFails(m, p)
      BY <3>6 DEF CommitFails, Step
    <3>. QED
      BY <3>1, <3>2, <3>3, <3>4, <3>5, <3>6 DEF Consume
  <2>2. ASSUME NEW i \in Process
        PROVE  position'[i][q] = position[i][q]
    BY <1>0, <2>1 DEF SessionOK
  <2>3. ASSUME NEW i \in Process
        PROVE  step'[i][q] = step[i][q]
    BY <1>0, <2>1 DEF SessionOK
  <2>. QED
    BY <2>2, <2>3
<1>. QED
  BY <1>1, <1>2, BudgetElsewhere

(* Fewer stale processes, or the same.                                     *)
LEMMA FewerStale ==
  ASSUME NEW p \in Partition, Stale(p)' \subseteq Stale(p)
  PROVE  Cardinality(Stale(p)') <= Cardinality(Stale(p))
BY StaleCount, FS_Subset

LEMMA AssignBudget ==
  ASSUME KInv, NEW m \in Process, NEW p \in Partition, Assign(m, p), BudgetAt(p)
  PROVE  BudgetAt(p)'
<1>0. GroupOK /\ SessionOK
  BY Parts
<1>1. /\ owner[p] = Nobody /\ owner'[p] = m /\ m # Nobody
      /\ step[m][p] = "away" /\ step'[m][p] = "waiting"
      /\ position'[m][p] = committed[p]
      /\ \A i \in Process \ {m} : step'[i][p] = step[i][p]
      /\ committed' = committed /\ runs' = runs /\ faults' = faults
  BY <1>0, KafkaAssumption DEF Assign, GroupOK, SessionOK, effect
<1>2. Stale(p)' \subseteq Stale(p)
  BY <1>1, KafkaAssumption DEF Stale
<1>3. Secured(p) = committed[p] /\ Secured(p)' = committed[p]
  BY <1>1 DEF Secured
<1>. QED
  BY <1>1, <1>2, <1>3, FewerStale, Numbers DEF BudgetAt

LEMMA FetchBudget ==
  ASSUME KInv, NEW m \in Process, NEW p \in Partition, Fetch(m, p), BudgetAt(p)
  PROVE  BudgetAt(p)'
<1>0. GroupOK /\ SessionOK
  BY Parts
<1>1. /\ owner[p] = m /\ owner' = owner /\ m # Nobody
      /\ step[m][p] = "waiting" /\ step'[m][p] = "handling"
      /\ \A i \in Process \ {m} : step'[i][p] = step[i][p]
      /\ UNCHANGED <<position, committed, runs, faults>>
  BY <1>0, KafkaAssumption DEF Fetch, SessionOK, group, effect
<1>2. Stale(p)' \subseteq Stale(p)
  BY <1>1 DEF Stale
<1>3. Secured(p)' = Secured(p)
  BY <1>1 DEF Secured
<1>4. Secured(p) \in Nat
  BY <1>1, Numbers DEF Secured
<1>. QED
  BY <1>1, <1>2, <1>3, <1>4, FewerStale, Numbers DEF BudgetAt

(* A run of the owner secures its event; a run of a stale process was      *)
(* paid for when it lost the partition.                                    *)
LEMMA HandleBudget ==
  ASSUME KInv, NEW m \in Process, NEW p \in Partition, Handle(m, p), BudgetAt(p)
  PROVE  BudgetAt(p)'
<1>0. GroupOK /\ SessionOK
  BY Parts
<1>1. /\ step[m][p] = "handling" /\ owner' = owner /\ m # Nobody
      /\ step'[m][p] \in {"waiting", "handled"}
      /\ \A i \in Process \ {m} : step'[i][p] = step[i][p]
      /\ UNCHANGED <<position, committed, faults>>
      /\ \/ runs' = runs /\ step'[m][p] = "waiting"
         \/ runs'[p] = runs[p] + 1 /\ step'[m][p] = "handled"
  BY <1>0, KafkaAssumption DEF Handle, Run, SessionOK, group, effect
<1>2. Stale(p)' \subseteq Stale(p) \ {m}
  BY <1>1 DEF Stale
<1>3. CASE owner[p] = m
  <2>1. Secured(p) = position[m][p] /\ position[m][p] \in Nat
    BY <1>1, <1>3, Numbers DEF Secured
  <2>2. Secured(p)' = IF step'[m][p] = "handled" THEN position[m][p] + 1 ELSE position[m][p]
    BY <1>1, <1>3 DEF Secured, Following
  <2>3. Cardinality(Stale(p)') <= Cardinality(Stale(p))
    BY <1>2, FewerStale
  <2>. QED
    BY <1>1, <1>3, <2>1, <2>2, <2>3, Numbers DEF BudgetAt
<1>4. CASE owner[p] # m
  <2>1. m \in Stale(p)
    BY <1>1, <1>4 DEF Stale
  <2>2. /\ Cardinality(Stale(p) \ {m}) = Cardinality(Stale(p)) - 1
        /\ IsFiniteSet(Stale(p) \ {m})
    BY <2>1, StaleCount, FS_RemoveElement
  <2>3. Cardinality(Stale(p)') <= Cardinality(Stale(p)) - 1
    BY <1>2, <2>2, FS_Subset
  <2>4. owner[p] # Nobody => owner[p] \in Process \ {m}
    BY <1>4, Numbers
  <2>5. Secured(p)' = Secured(p) /\ Secured(p) \in Nat
    BY <1>1, <2>4, Numbers DEF Secured, Following
  <2>6. runs'[p] <= runs[p] + 1 /\ runs'[p] \in Nat
    BY <1>1, Numbers
  <2>. QED
    BY <1>1, <2>3, <2>4, <2>5, <2>6, Numbers DEF BudgetAt
<1>. QED
  BY <1>3, <1>4

LEMMA CommitBudget ==
  ASSUME KInv, NEW m \in Process, NEW p \in Partition, Commit(m, p), BudgetAt(p)
  PROVE  BudgetAt(p)'
<1>0. GroupOK /\ SessionOK
  BY Parts
<1>1. /\ step[m][p] = "handled" /\ owner[p] = m /\ owner' = owner /\ m # Nobody
      /\ step'[m][p] = "waiting" /\ position'[m][p] = position[m][p] + 1
      /\ committed'[p] = position[m][p] + 1
      /\ \A i \in Process \ {m} : step'[i][p] = step[i][p]
      /\ UNCHANGED <<runs, faults>>
  BY <1>0, KafkaAssumption DEF Commit, GroupOK, SessionOK, Following, group, effect
<1>2. Stale(p)' \subseteq Stale(p)
  BY <1>1 DEF Stale
<1>3. Secured(p) = position[m][p] + 1 /\ Secured(p)' = position[m][p] + 1
  BY <1>1 DEF Secured, Following
<1>. QED
  BY <1>1, <1>2, <1>3, FewerStale, Numbers DEF BudgetAt

LEMMA CommitFailsBudget ==
  ASSUME KInv, NEW m \in Process, NEW p \in Partition, CommitFails(m, p), BudgetAt(p)
  PROVE  BudgetAt(p)'
<1>0. GroupOK /\ SessionOK
  BY Parts
<1>1. /\ step[m][p] = "handled" /\ owner[p] = m /\ owner' = owner /\ m # Nobody
      /\ step'[m][p] = "waiting" /\ UNCHANGED <<position, runs>>
      /\ \A i \in Process \ {m} : step'[i][p] = step[i][p]
      /\ faults' = faults + 1
  BY <1>0, KafkaAssumption DEF CommitFails, SessionOK, group, effect
<1>2. position[m][p] <= committed'[p]
  <2>1. position[m][p] <= committed[p] /\ position[m][p] \in Nat /\ committed[p] \in Nat
    BY <1>1, Numbers DEF BudgetAt
  <2>2. committed'[p] \in {committed[p], position[m][p] + 1}
    BY <1>0 DEF CommitFails, GroupOK, Following
  <2>. QED
    BY <2>1, <2>2
<1>3. Stale(p)' \subseteq Stale(p)
  BY <1>1 DEF Stale
<1>4. Secured(p) = position[m][p] + 1 /\ Secured(p)' = position[m][p]
  BY <1>1 DEF Secured, Following
<1>. QED
  BY <1>1, <1>2, <1>3, <1>4, FewerStale, Numbers DEF BudgetAt

LEMMA FencedBudget ==
  ASSUME KInv, NEW m \in Process, NEW p \in Partition, Fenced(m, p), BudgetAt(p)
  PROVE  BudgetAt(p)'
<1>0. GroupOK /\ SessionOK
  BY Parts
<1>1. /\ owner[p] # m /\ owner' = owner /\ step[m][p] # "handling" /\ step'[m][p] = "away"
      /\ \A i \in Process \ {m} : step'[i][p] = step[i][p] /\ position'[i][p] = position[i][p]
      /\ UNCHANGED <<committed, runs, faults>>
  BY <1>0 DEF Fenced, SessionOK, group, effect
<1>2. Stale(p)' \subseteq Stale(p)
  BY <1>1 DEF Stale
<1>3. owner[p] # Nobody => owner[p] \in Process \ {m}
  BY <1>1, Numbers
<1>4. Secured(p)' = Secured(p) /\ Secured(p) \in Nat
  BY <1>1, <1>3, Numbers DEF Secured, Following
<1>. QED
  BY <1>1, <1>2, <1>3, <1>4, FewerStale, Numbers DEF BudgetAt

(* The owner goes: the next one starts from the committed offset, and the  *)
(* event in its hands is handled again.                                    *)
LEMMA OwnerGoes ==
  ASSUME KInv, NEW p \in Partition, BudgetAt(p), owner[p] # Nobody,
         owner'[p] = Nobody, committed'[p] = committed[p], runs'[p] = runs[p],
         faults' = faults + 1,
         \A i \in Process : step'[i][p] = "handling" => step[i][p] = "handling"
  PROVE  BudgetAt(p)'
<1>. DEFINE o == owner[p]
<1>1. o \in Process
  BY Numbers
<1>2. position[o][p] <= committed[p] /\ position[o][p] \in Nat /\ Secured(p)' = committed[p]
  BY <1>1, Numbers DEF BudgetAt, Secured
<1>3. Stale(p)' \subseteq Stale(p) \cup {o}
  BY DEF Stale
<1>4. CASE step[o][p] = "handling"
  <2>1. Secured(p) = position[o][p]
    BY <1>1, <1>4 DEF Secured
  <2>2. /\ IsFiniteSet(Stale(p) \cup {o})
        /\ Cardinality(Stale(p) \cup {o}) <= Cardinality(Stale(p)) + 1
    <3>1. /\ IsFiniteSet(Stale(p) \cup {o})
          /\ Cardinality(Stale(p) \cup {o}) = IF o \in Stale(p) THEN Cardinality(Stale(p))
                                               ELSE Cardinality(Stale(p)) + 1
      BY StaleCount, FS_AddElement
    <3>. QED
      BY <3>1, StaleCount
  <2>3. Cardinality(Stale(p)') <= Cardinality(Stale(p) \cup {o})
    BY <1>3, <2>2, FS_Subset
  <2>4. Cardinality(Stale(p) \cup {o}) \in Nat
    BY <2>2, FS_CardinalityType
  <2>. QED
    BY <1>2, <2>1, <2>2, <2>3, <2>4, Numbers DEF BudgetAt
<1>5. CASE step[o][p] # "handling"
  <2>1. Stale(p)' \subseteq Stale(p)
    BY <1>3, <1>5 DEF Stale
  <2>2. Secured(p) <= position[o][p] + 1 /\ Secured(p) \in Nat
    BY <1>1, Numbers DEF Secured
  <2>. QED
    BY <1>2, <2>1, <2>2, FewerStale, Numbers DEF BudgetAt
<1>. QED
  BY <1>4, <1>5

LEMMA RebalanceBudget ==
  ASSUME KInv, Budget, NEW p \in Partition, Rebalance(p)
  PROVE  Budget'
<1>0. GroupOK /\ SessionOK
  BY Parts
<1>1. /\ owner[p] # Nobody /\ owner'[p] = Nobody
      /\ \A q \in Partition \ {p} : owner'[q] = owner[q]
      /\ UNCHANGED <<committed, position, step, runs>>
      /\ faults' = faults + 1
  BY <1>0 DEF Rebalance, GroupOK, session, effect
<1>2. \A q \in Partition : BudgetAt(q)
  BY BudgetParts
<1>3. BudgetAt(p)'
  BY <1>1, <1>2, OwnerGoes
<1>4. \A q \in Partition \ {p} : BudgetAt(q)'
  BY <1>1, <1>2, BudgetElsewhere
<1>. QED
  BY <1>3, <1>4, BudgetParts

LEMMA CrashBudget ==
  ASSUME KInv, Budget, NEW m \in Process, Crash(m)
  PROVE  Budget'
<1>0. GroupOK /\ SessionOK
  BY Parts
<1>1. /\ \A p \in Partition : owner'[p] = IF owner[p] = m THEN Nobody ELSE owner[p]
      /\ \A p \in Partition : step'[m][p] = "away"
      /\ \A i \in Process \ {m}, p \in Partition :
            step'[i][p] = step[i][p] /\ position'[i][p] = position[i][p]
      /\ UNCHANGED <<committed, runs>>
      /\ faults' = faults + 1
  BY <1>0 DEF Crash, SessionOK, effect
<1>2. ASSUME NEW p \in Partition
      PROVE  BudgetAt(p)'
  <2>1. BudgetAt(p)
    BY BudgetParts
  <2>2. \A i \in Process : step'[i][p] = "handling" => step[i][p] = "handling"
    BY <1>1
  <2>3. CASE owner[p] = m
    <3>1. owner[p] # Nobody /\ owner'[p] = Nobody
      BY <1>1, <2>3, KafkaAssumption
    <3>. QED
      BY <1>1, <2>1, <2>2, <3>1, OwnerGoes
  <2>4. CASE owner[p] # m
    <3>1. owner'[p] = owner[p]
      BY <1>1, <2>4
    <3>2. Stale(p)' \subseteq Stale(p)
      BY <2>2, <3>1 DEF Stale
    <3>3. owner[p] # Nobody => owner[p] \in Process \ {m}
      BY <2>4, Numbers
    <3>4. Secured(p)' = Secured(p) /\ Secured(p) \in Nat
      BY <1>1, <3>1, <3>3, Numbers DEF Secured, Following
    <3>. QED
      BY <1>1, <2>1, <3>1, <3>2, <3>3, <3>4, FewerStale, Numbers DEF BudgetAt
  <2>. QED
    BY <2>3, <2>4
<1>. QED
  BY <1>2, BudgetParts

LEMMA QuietBudget ==
  ASSUME KInv, Budget, UNCHANGED <<owner, committed, position, step, runs, faults>>
  PROVE  Budget'
BY BudgetParts, BudgetElsewhere

LEMMA BudgetInit == Init => Budget
<1>. SUFFICES ASSUME Init, NEW p \in Partition PROVE BudgetAt(p)
  BY BudgetParts
<1>1. Stale(p) = {}
  BY DEF Init, Stale
<1>2. owner[p] = Nobody /\ committed[p] = 0 /\ runs[p] = 0 /\ faults = 0
  BY DEF Init
<1>. QED
  BY <1>1, <1>2, FS_EmptySet DEF BudgetAt, Secured

LEMMA BudgetStep ==
  ASSUME KInv, Budget, [Next]_vars
  PROVE  Budget'
<1>1. ASSUME NEW m \in Process, NEW p \in Partition,
             Assign(m, p) \/ Consume(m, p) \/ CommitFails(m, p)
      PROVE  Budget'
  <2>1. \A q \in Partition : BudgetAt(q)
    BY BudgetParts
  <2>2. \A q \in Partition : q # p => BudgetAt(q)'
    BY <1>1, <2>1, OneAtATime
  <2>3. BudgetAt(p)'
    BY <1>1, <2>1, AssignBudget, FetchBudget, HandleBudget, CommitBudget, FencedBudget,
       CommitFailsBudget DEF Consume
  <2>. QED
    BY <2>2, <2>3, BudgetParts
<1>2. ASSUME NEW p \in Partition, Rebalance(p) PROVE Budget'
  BY <1>2, RebalanceBudget
<1>3. ASSUME NEW m \in Process, Crash(m) PROVE Budget'
  BY <1>3, CrashBudget
<1>4. ASSUME NEW e \in Event, Publish(e) PROVE Budget'
  BY <1>4, QuietBudget DEF Publish, group, session, effect
<1>5. ASSUME NEW m \in Process, Start(m) PROVE Budget'
  BY <1>5, QuietBudget DEF Start, session, effect
<1>6. CASE Drained \/ UNCHANGED vars
  BY <1>6, QuietBudget DEF Drained, vars
<1>. QED
  BY <1>1, <1>2, <1>3, <1>4, <1>5, <1>6 DEF Next

(* What is secured was handled.                                            *)
LEMMA SecuredIsHeard ==
  ASSUME KInv, NEW p \in Partition
  PROVE  /\ Secured(p) \in Nat /\ Cardinality(heard[p]) \in Nat
         /\ Secured(p) <= Cardinality(heard[p])
<1>1. Secured(p) \in Nat /\ Passed(p, Secured(p))
  <2>1. CASE owner[p] = Nobody
    BY <2>1, Numbers, Parts DEF Secured, CommittedInv
  <2>2. CASE owner[p] # Nobody
    <3>1. owner[p] \in Process
      BY <2>2, Numbers
    <3>. QED
      BY <2>2, <3>1, Here DEF Secured
  <2>. QED
    BY <2>1, <2>2
<1>2. IsFiniteSet(heard[p])
  <2>1. IsFiniteSet(Offset)
    BY FS_Interval, KafkaAssumption DEF Offset
  <2>2. heard[p] \subseteq Offset
    BY Parts DEF SessionOK
  <2>. QED
    BY <2>1, <2>2, FS_Subset
<1>3. 1..Secured(p) \subseteq heard[p]
  BY <1>1 DEF Passed
<1>4. Cardinality(1..Secured(p)) = Secured(p)
  BY <1>1, FS_Interval
<1>. QED
  BY <1>1, <1>2, <1>3, <1>4, FS_Subset, FS_CardinalityType

(* A handler runs again only after a failure, and each failure costs at    *)
(* most one repeat in a partition: a crash or rebalance between handler    *)
(* and commit repeats the one event that was not committed.                *)
THEOREM RepeatsArePaidFor == Spec => []RepeatsHaveCause
<1>1. KInv /\ Budget /\ [Next]_vars => Budget'
  BY BudgetStep
<1>2. KInv /\ Budget => RepeatsHaveCause
  <2>. SUFFICES ASSUME KInv, Budget, NEW p \in Partition
                PROVE  runs[p] <= Cardinality(heard[p]) + faults
    BY DEF RepeatsHaveCause
  <2>1. runs[p] + Cardinality(Stale(p)) <= Secured(p) + faults
    BY BudgetParts DEF BudgetAt
  <2>. QED
    BY <2>1, SecuredIsHeard, Numbers
<1>. QED
  BY <1>1, <1>2, BudgetInit, Invariance, PTL DEF Spec
=============================================================================
