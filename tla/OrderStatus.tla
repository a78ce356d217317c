----------------------------- MODULE OrderStatus -----------------------------
(***************************************************************************)
(* The status of an order and the events that tell of it.  Staff change it *)
(* (OrdersService.updateStatus), the worker sets it to processed           *)
(* (OrdersProcessorConsumer.processOrder), and OrdersEventsService passes  *)
(* the changes on, order by order: repeated versions dropped, and at most  *)
(* one event in 300 ms, the latest last.  Orders do not meet in this, so   *)
(* there is one.                                                           *)
(*                                                                         *)
(* findOne and save are statements of their own, without a lock: save      *)
(* selects the row again and updates the columns that differ from it.      *)
(***************************************************************************)
EXTENDS Naturals, FiniteSets, Sequences, SequencesExt

CONSTANTS
    Update,     \* calls of updateStatus
    Target,     \* the statuses staff set, any of EOrderStatus
    MaxFaults,  \* bound: failed statements and restarts
    Nothing     \* no event, no version

Status == Target \cup {"pending", "processed"}

Version == 0..Cardinality(Update)

(* An event carries the new version and status.                            *)
Event == [version : Version, status : Status]

ASSUME StatusAssumption ==
    /\ IsFiniteSet(Update)
    /\ MaxFaults \in Nat
    /\ Nothing \notin Nat \cup Event

VARIABLES
    row,        \* the order: status, status_version, processed_at is set
    pc,         \* the next step of each call
    target,     \* the status it is to set
    mem,        \* its entity, from findOne on
    dirty,      \* the columns its save is about to update
    worked,     \* the worker's UPDATE is committed
    latest,     \* version of the last event that came in; Nothing: none yet
    throttled,  \* the timer of throttleTime runs
    pending,    \* the event it holds back, if any
    feed,       \* the events that went out
    faults,     \* failures so far
    calm,       \* history: no update overlapped another one or the
                \* worker's write, and none failed
    exposed     \* history: the updates that were between their findOne and
                \* the SELECT of save when the worker's write was committed,
                \* less those that ended without a write

vars == <<row, pc, target, mem, dirty, worked, latest, throttled, pending, feed,
          faults, calm, exposed>>
call == <<pc, target, mem, dirty>>
stream == <<latest, throttled, pending, feed>>
-----------------------------------------------------------------------------
Column == {"status", "version", "processed"}

Row == [status : Status, version : Version, processed : BOOLEAN]

Pending == [status |-> "pending", version |-> 0, processed |-> FALSE]

Goto(u, l) == pc' = [pc EXCEPT ![u] = l]

(* The call ends, and its entity with it.                                  *)
Finish(u) ==
    /\ Goto(u, "done")
    /\ mem' = [mem EXCEPT ![u] = Pending]
    /\ dirty' = [dirty EXCEPT ![u] = {}]

(* Calls that have read the row and not written it yet, or not told of it. *)
Between == {u \in Update : pc[u] \in {"diff", "write"}}
Untold == Between \cup {u \in Update : pc[u] = "publish"}

Init ==
    /\ row = Pending
    /\ pc = [u \in Update |-> "read"]
    /\ target \in [Update -> Target]
    /\ mem = [u \in Update |-> Pending]
    /\ dirty = [u \in Update |-> {}]
    /\ worked = FALSE
    /\ latest = Nothing
    /\ throttled = FALSE
    /\ pending = Nothing
    /\ feed = <<>>
    /\ faults = 0
    /\ calm = TRUE
    /\ exposed = {}

(* findOne; the same status ends the call, another one is set in the       *)
(* entity together with the next version.                                  *)
Read(u) ==
    /\ pc[u] = "read"
    /\ \/ row.status = target[u] /\ Finish(u) /\ UNCHANGED calm
       \/ /\ row.status # target[u]
          /\ mem' = [mem EXCEPT ![u] = [row EXCEPT !.status = target[u],
                                                   !.version = @ + 1]]
          /\ Goto(u, "diff")
          /\ calm' = (calm /\ Untold = {})
          /\ UNCHANGED dirty
    /\ UNCHANGED <<row, target, worked, stream, faults, exposed>>

(* A save that updates every column, without comparing.                    *)
DiffAllColumns(u) ==
    /\ pc[u] = "diff"
    /\ dirty' = [dirty EXCEPT ![u] = Column]
    /\ Goto(u, "write")
    /\ UNCHANGED <<row, target, mem, worked, stream, faults, calm, exposed>>

(* The SELECT of save.                                                     *)
Diff(u) ==
    /\ pc[u] = "diff"
    /\ dirty' = [dirty EXCEPT ![u] = {c \in Column : mem[u][c] # row[c]}]
    /\ Goto(u, IF dirty'[u] = {} THEN "publish" ELSE "write")
    /\ UNCHANGED <<row, target, mem, worked, stream, faults, calm, exposed>>

Updated(u) == [c \in Column |-> IF c \in dirty[u] THEN mem[u][c] ELSE row[c]]

(* Its UPDATE and COMMIT.                                                  *)
Write(u) ==
    /\ pc[u] = "write"
    /\ row' = Updated(u)
    /\ Goto(u, "publish")
    /\ UNCHANGED <<target, mem, dirty, worked, stream, faults, calm, exposed>>

Emit(e) == feed' = Append(feed, e)

(* Without the trailing event: what comes in while the timer runs is lost. *)
ReceiveLeadingOnly(e) ==
    IF e.version = latest
    THEN UNCHANGED stream
    ELSE /\ latest' = e.version
         /\ IF throttled
            THEN UNCHANGED <<throttled, feed, pending>>
            ELSE Emit(e) /\ throttled' = TRUE /\ UNCHANGED pending

(* distinctUntilChanged and throttleTime, leading and trailing.            *)
Receive(e) ==
    IF e.version = latest
    THEN UNCHANGED stream
    ELSE /\ latest' = e.version
         /\ IF throttled
            THEN pending' = e /\ UNCHANGED <<throttled, feed>>
            ELSE Emit(e) /\ throttled' = TRUE /\ UNCHANGED pending

(* publishStatusChanged, and the answer.                                   *)
Publish(u) ==
    /\ pc[u] = "publish"
    /\ Receive([version |-> mem[u].version, status |-> mem[u].status])
    /\ Finish(u)
    /\ UNCHANGED <<row, target, worked, faults, calm, exposed>>

(* The timer of throttleTime.                                              *)
Timer ==
    /\ throttled
    /\ \/ /\ pending # Nothing
          /\ Emit(pending)
          /\ pending' = Nothing
          /\ UNCHANGED throttled
       \/ pending = Nothing /\ throttled' = FALSE /\ UNCHANGED <<pending, feed>>
    /\ UNCHANGED <<row, call, worked, latest, faults, calm, exposed>>

(* The worker's UPDATE, for whatever status the order has by now; its row  *)
(* lock makes it one step with the COMMIT.                                 *)
Work ==
    /\ ~worked
    /\ worked' = TRUE
    /\ row' = [row EXCEPT !.status = "processed", !.processed = TRUE]
    /\ calm' = (calm /\ Between = {})
    /\ exposed' = {u \in Update : pc[u] = "diff"}
    /\ UNCHANGED <<call, stream, faults>>

(* A statement of updateStatus fails, or its COMMIT is not acknowledged.   *)
Fails(u) ==
    /\ faults < MaxFaults
    /\ faults' = faults + 1
    /\ pc[u] \in {"read", "diff", "write"}
    /\ Finish(u)
    /\ \/ UNCHANGED row
       \/ pc[u] = "write" /\ row' = Updated(u)
    /\ calm' = FALSE
    /\ exposed' = IF row' = row THEN exposed \ {u} ELSE exposed
    /\ UNCHANGED <<target, worked, stream>>

(* The API process dies and starts again: calls and stream are gone.       *)
Restart ==
    /\ faults < MaxFaults
    /\ faults' = faults + 1
    /\ pc' = [u \in Update |-> IF pc[u] = "read" THEN "read" ELSE "done"]
    /\ mem' = [u \in Update |-> Pending]
    /\ dirty' = [u \in Update |-> {}]
    /\ latest' = Nothing
    /\ throttled' = FALSE
    /\ pending' = Nothing
    /\ calm' = FALSE
    /\ exposed' = {u \in exposed : pc[u] \in {"publish", "done"}}
    /\ UNCHANGED <<row, target, worked, feed>>

Advance(u) == Read(u) \/ Diff(u) \/ Write(u) \/ Publish(u)

Settled ==
    /\ \A u \in Update : pc[u] = "done"
    /\ worked /\ ~throttled
    /\ UNCHANGED vars

Next ==
    \/ \E u \in Update : Advance(u) \/ Fails(u)
    \/ Timer \/ Work \/ Restart \/ Settled

Spec == Init /\ [][Next]_vars

-----------------------------------------------------------------------------
(* Every variable holds a value of its type.                               *)
TypeOK ==
    /\ row \in Row
    /\ pc \in [Update -> {"read", "diff", "write", "publish", "done"}]
    /\ target \in [Update -> Target]
    /\ mem \in [Update -> Row]
    /\ dirty \in [Update -> SUBSET Column]
    /\ worked \in BOOLEAN
    /\ latest \in Version \cup {Nothing}
    /\ throttled \in BOOLEAN
    /\ pending \in Event \cup {Nothing}
    /\ feed \in Seq(Event)
    /\ faults \in 0..MaxFaults
    /\ calm \in BOOLEAN
    /\ exposed \subseteq Update

(* When nothing is under way, the last event that went out has the order's *)
(* version, and its status unless the worker has come since: the throttled *)
(* stream keeps the latest change, provided that no update overlapped      *)
(* another writer.                                                         *)
QuietFeedIsCurrent ==
    calm /\ pending = Nothing /\ (\A u \in Update : pc[u] \in {"read", "done"}) =>
        IF feed = <<>>
        THEN row.version = 0
        ELSE /\ Last(feed).version = row.version
             /\ row.status = Last(feed).status \/ worked

(* However updates overlap each other and the worker, fail, or die: the    *)
(* worker's processed_at is undone only where an update read the order     *)
(* before the worker's commit, compared its columns after it, and wrote.   *)
(* One that had compared before, or reads after, leaves the column alone   *)
(* or finds the loss already there.                                        *)
ProcessedLostInGap ==
    worked /\ ~row.processed => \E u \in exposed : pc[u] \in {"publish", "done"}

(* The invariant of the proofs.  Versions count the calls that have begun. *)
Begun == {u \in Update : pc[u] # "read"}

VersionsCounted ==
    /\ row.version <= Cardinality(Begun)
    /\ \A u \in Update : mem[u].version <= Cardinality(Begun)

(* Where one update is under way at a time, its entity is the row it is    *)
(* about to write, or has written.                                         *)
EntityIsFresh(u) ==
    /\ pc[u] \in {"diff", "write"} =>
          mem[u] = [row EXCEPT !.status = target[u], !.version = @ + 1]
    /\ pc[u] = "write" => dirty[u] = {c \in Column : mem[u][c] # row[c]}
    /\ pc[u] = "publish" => /\ mem[u].version = row.version
                            /\ mem[u].status = row.status \/ worked

Telling == \E u \in Update : pc[u] = "publish"

(* The last event that came in: it went out, or is held back.              *)
LastIn == IF pending # Nothing THEN pending ELSE Last(feed)

(* The stream is one version behind the row while an update tells of it,   *)
(* and otherwise not.                                                      *)
StreamFollows ==
    IF latest = Nothing
    THEN /\ feed = <<>> /\ pending = Nothing
         /\ ~Telling => row.version = 0
    ELSE /\ feed # <<>> \/ pending # Nothing
         /\ LastIn.version = latest
         /\ Telling => latest < row.version
         /\ ~Telling => /\ latest = row.version
                        /\ LastIn.status = row.status \/ worked

(* Who is about to write processed_at: before the worker nobody; after it, *)
(* without it being set, an update in the gap or one that follows another. *)
Undone == \E u \in exposed : pc[u] \in {"publish", "done"}

GapInv ==
    IF worked
    THEN /\ row.processed \/ Undone
         /\ \A u \in Update : /\ pc[u] = "diff" => mem[u].processed \/ u \in exposed \/ Undone
                              /\ pc[u] = "write" /\ "processed" \in dirty[u] =>
                                    mem[u].processed \/ u \in exposed \/ Undone
    ELSE /\ ~row.processed
         /\ \A u \in Update : ~mem[u].processed /\ "processed" \notin dirty[u]

StatusInv ==
    /\ TypeOK
    /\ VersionsCounted
    /\ pending # Nothing => throttled
    /\ calm => /\ \A u, v \in Untold : u = v
               /\ \A u \in Update : EntityIsFresh(u)
               /\ StreamFollows
    /\ GapInv

(* The last event that came in goes out, however short the interval to the *)
(* one before it, unless another one or a restart takes its place.         *)
EveryChangeIsHeard ==
    []<>(latest # Nothing => feed # <<>> /\ Last(feed).version = latest)
=============================================================================
