---------------------------- MODULE OrdersGateway ----------------------------
(***************************************************************************)
(* The websocket gateway (realtime/orders.gateway.ts) over OrderStatus:    *)
(* sockets connect with a token, subscribe to the room of the order, and   *)
(* are sent every event that leaves OrdersEventsService.  Verifying the    *)
(* token and checking the order are awaited; messages of the same socket   *)
(* are handled meanwhile.                                                  *)
(*                                                                         *)
(* A client reads the order once it is subscribed (GET /orders/:id), and   *)
(* then keeps the highest version it hears of.                             *)
(***************************************************************************)
EXTENDS OrderStatus

CONSTANTS
    Socket,
    Window,         \* the rate limit: windowMs in ticks, and
    MaxCalls,       \* maxCalls
    MaxAttempts     \* bound: calls of subscribeOrder by one socket

ASSUME GatewayAssumption ==
    {Window, MaxCalls, MaxAttempts} \subseteq Nat \ {0}

VARIABLES
    entitled,   \* the sockets of the order's owner and of staff
    conn,       \* the connection of each socket
    age,        \* ticks since each of its calls of subscribeOrder let through
    recent,     \* its calls in subscribeCalls
    checking,   \* its calls of subscribeOrder that await canSubscribeToOrder
    room,       \* the sockets in the room order:<id>
    attempts,   \* calls of subscribeOrder so far
    view,       \* the version each client knows
    fetched,    \* clients that read the order since they joined
    queried     \* history: its calls in the last Window ticks that reached
                \* the database

calls == <<age, recent, queried>>
client == <<view, fetched>>
gatewayVars == <<vars, entitled, conn, calls, checking, room, attempts, client>>

Connection == {"new", "verifying", "open", "closed"}

(* The calls of a socket are numbered; one that was not made, or not let   *)
(* through, counts as an old one.                                          *)
CallNo == 1..MaxAttempts

Newer(v, w) == IF v < w THEN w ELSE v

GatewayInit ==
    /\ Init
    /\ entitled \in SUBSET Socket
    /\ conn = [s \in Socket |-> "new"]
    /\ age = [s \in Socket |-> [n \in CallNo |-> Window]]
    /\ recent = [s \in Socket |-> {}]
    /\ checking = [s \in Socket |-> 0]
    /\ room = {}
    /\ attempts = [s \in Socket |-> 0]
    /\ view = [s \in Socket |-> 0]
    /\ fetched = {}
    /\ queried = [s \in Socket |-> {}]

(* handleConnection as far as verifyAsync; without a token it disconnects. *)
Connect(s) ==
    /\ conn[s] = "new"
    /\ \E c \in {"verifying", "closed"} : conn' = [conn EXCEPT ![s] = c]
    /\ UNCHANGED <<vars, entitled, calls, checking, room, attempts, client>>

(* The token is valid, and the list of calls starts anew; or it is not.    *)
Verified(s) ==
    /\ conn[s] = "verifying"
    /\ \/ /\ conn' = [conn EXCEPT ![s] = "open"]
          /\ recent' = [recent EXCEPT ![s] = {}]
       \/ conn' = [conn EXCEPT ![s] = "closed"] /\ UNCHANGED recent
    /\ UNCHANGED <<vars, entitled, age, queried, checking, room, attempts, client>>

(* A limit that lets one more call through.                                *)
SubscribeOffByOne(s) ==
    /\ conn[s] \in {"verifying", "open"}
    /\ attempts[s] < MaxAttempts
    /\ attempts' = [attempts EXCEPT ![s] = @ + 1]
    /\ IF Cardinality(recent[s]) > MaxCalls
       THEN UNCHANGED <<calls, checking>>
       ELSE /\ age' = [age EXCEPT ![s][attempts'[s]] = 0]
            /\ recent' = [recent EXCEPT ![s] = @ \cup {attempts'[s]}]
            /\ \/ UNCHANGED <<checking, queried>>
               \/ /\ conn[s] = "open"
                  /\ checking' = [checking EXCEPT ![s] = @ + 1]
                  /\ queried' = [queried EXCEPT ![s] = @ \cup {attempts'[s]}]
    /\ UNCHANGED <<vars, entitled, conn, room, client>>

(* subscribeOrder: the rate limit, then the orderId, which may be missing, *)
(* and the user, who is unknown as long as the token is not verified; then *)
(* the check of the order is awaited.                                      *)
Subscribe(s) ==
    /\ conn[s] \in {"verifying", "open"}
    /\ attempts[s] < MaxAttempts
    /\ attempts' = [attempts EXCEPT ![s] = @ + 1]
    /\ IF Cardinality(recent[s]) >= MaxCalls
       THEN UNCHANGED <<calls, checking>>
       ELSE /\ age' = [age EXCEPT ![s][attempts'[s]] = 0]
            /\ recent' = [recent EXCEPT ![s] = @ \cup {attempts'[s]}]
            /\ \/ UNCHANGED <<checking, queried>>
               \/ /\ conn[s] = "open"
                  /\ checking' = [checking EXCEPT ![s] = @ + 1]
                  /\ queried' = [queried EXCEPT ![s] = @ \cup {attempts'[s]}]
    /\ UNCHANGED <<vars, entitled, conn, room, client>>

(* canSubscribeToOrder: the order exists, and the socket's user is staff   *)
(* or the one who placed it.                                               *)
CanSubscribeToOrder(s) == s \in entitled

(* It answers: denied, or client.join, which means nothing for a socket    *)
(* that is closed by now.                                                  *)
Join(s) ==
    /\ checking[s] > 0
    /\ checking' = [checking EXCEPT ![s] = @ - 1]
    /\ room' = IF CanSubscribeToOrder(s) /\ conn[s] = "open" THEN room \cup {s} ELSE room
    /\ UNCHANGED <<vars, entitled, conn, calls, attempts, client>>

(* unsubscribeOrder, also while a subscribeOrder awaits its check.         *)
Leave(s) ==
    /\ conn[s] = "open"
    /\ s \in room
    /\ room' = room \ {s}
    /\ fetched' = fetched \ {s}
    /\ UNCHANGED <<vars, entitled, conn, calls, checking, attempts, view>>

(* The client goes away; handleDisconnect empties the list of calls.       *)
Disconnect(s) ==
    /\ conn[s] \in {"verifying", "open"}
    /\ conn' = [conn EXCEPT ![s] = "closed"]
    /\ recent' = [recent EXCEPT ![s] = {}]
    /\ room' = room \ {s}
    /\ fetched' = fetched \ {s}
    /\ UNCHANGED <<vars, entitled, age, queried, checking, attempts, view>>

(* A read that comes before the subscription.                              *)
FetchEarly(s) ==
    /\ s \in entitled \ fetched
    /\ view' = [view EXCEPT ![s] = Newer(@, row.version)]
    /\ fetched' = fetched \cup {s}
    /\ UNCHANGED <<vars, entitled, conn, calls, checking, room, attempts>>

(* findOne, by a client in the room.                                       *)
Fetch(s) ==
    /\ s \in room \ fetched
    /\ view' = [view EXCEPT ![s] = Newer(@, row.version)]
    /\ fetched' = fetched \cup {s}
    /\ UNCHANGED <<vars, entitled, conn, calls, checking, room, attempts>>

(* emitOrderStatus: what leaves the stream in a step is heard in the room. *)
Deliver ==
    view' = [s \in Socket |->
                IF s \in room /\ feed' # feed THEN Newer(view[s], Last(feed').version)
                                              ELSE view[s]]

Heard(A) ==
    /\ A
    /\ Deliver
    /\ UNCHANGED <<entitled, conn, calls, checking, room, attempts, fetched>>

(* The process of the API dies, and every connection with it.              *)
RestartAll ==
    /\ Restart
    /\ conn' = [s \in Socket |-> "closed"]
    /\ age' = [s \in Socket |-> [n \in CallNo |-> Window]]
    /\ recent' = [s \in Socket |-> {}]
    /\ checking' = [s \in Socket |-> 0]
    /\ room' = {} /\ fetched' = {}
    /\ queried' = [s \in Socket |-> {}]
    /\ UNCHANGED <<entitled, attempts, view>>

(* The calls the filter keeps of those in a list.                          *)
InWindow(ages, list) == {n \in list : ages[n] < Window}

(* Time passes; a call leaves the window when it is windowMs old.          *)
Tick ==
    /\ \E s \in Socket : recent[s] \cup queried[s] # {}
    /\ age' = [s \in Socket |-> [n \in CallNo |->
                  IF age[s][n] < Window THEN age[s][n] + 1 ELSE Window]]
    /\ recent' = [s \in Socket |-> InWindow(age'[s], recent[s])]
    /\ queried' = [s \in Socket |-> InWindow(age'[s], queried[s])]
    /\ UNCHANGED <<vars, entitled, conn, checking, room, attempts, client>>

GatewayNext ==
    \/ \E u \in Update : Heard(Advance(u)) \/ Heard(Fails(u))
    \/ Heard(Timer) \/ Heard(Work) \/ RestartAll \/ Tick
    \/ Settled /\ UNCHANGED gatewayVars
    \/ \E s \in Socket :
          \/ Connect(s) \/ Verified(s) \/ Subscribe(s) \/ Join(s)
          \/ Leave(s) \/ Disconnect(s) \/ Fetch(s)

GatewaySpec == GatewayInit /\ [][GatewayNext]_gatewayVars
FairGatewaySpec ==
    /\ GatewaySpec
    /\ WF_gatewayVars(Heard(Timer))
    /\ \A u \in Update : WF_gatewayVars(Heard(Advance(u)))
-----------------------------------------------------------------------------
(* Every variable, of the status and of the gateway, holds a value of its  *)
(* type.                                                                   *)
GatewayTypeOK ==
    /\ TypeOK
    /\ entitled \subseteq Socket
    /\ conn \in [Socket -> Connection]
    /\ age \in [Socket -> [CallNo -> 0..Window]]
    /\ recent \in [Socket -> SUBSET CallNo]
    /\ queried \in [Socket -> SUBSET CallNo]
    /\ checking \in [Socket -> 0..MaxAttempts]
    /\ room \subseteq Socket /\ fetched \subseteq Socket
    /\ attempts \in [Socket -> 0..MaxAttempts]
    /\ view \in [Socket -> Version]

(* However it mixes calls with connecting, a socket makes the gateway ask  *)
(* the database about orders at most MaxCalls times in any window.         *)
RateLimited == \A s \in Socket : Cardinality(queried[s]) <= MaxCalls

(* Subscribing first and reading then leaves no gap: when nothing is under *)
(* way, the client knows the order's version, from its read or an event.   *)
ViewConverges ==
    calm /\ pending = Nothing /\ (\A u \in Update : pc[u] \in {"read", "done"}) =>
        \A s \in room \cap fetched : view[s] = row.version

(* The invariant of the proofs: the calls that reach the database are      *)
(* among those the limit counts, as long as any can be made; and a client  *)
(* in the room lacks nothing but what the stream is about to send.         *)
LimitCounts ==
    \A s \in Socket :
        /\ conn[s] \in {"new", "verifying"} => queried[s] = {}
        /\ conn[s] = "open" => queried[s] \subseteq recent[s]
        /\ Cardinality(recent[s]) <= MaxCalls

ViewFollows ==
    \A s \in Socket :
        /\ view[s] <= row.version
        /\ s \in room \cap fetched /\ pending = Nothing /\ ~Telling =>
              view[s] = row.version

GatewayInv ==
    /\ GatewayTypeOK
    /\ StatusInv
    /\ fetched \subseteq room
    /\ \A s \in Socket : checking[s] <= attempts[s]
    /\ LimitCounts
    /\ RateLimited
    /\ calm => ViewFollows
=============================================================================
