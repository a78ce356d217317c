----------------------------- MODULE PaymentSaga -----------------------------
(***************************************************************************)
(* The orders API as a client of the payments process: POST /orders        *)
(* authorizes the payment of the order it has just committed               *)
(* (OrdersService.create), POST /orders/:id/pay authorizes it where        *)
(* necessary, captures it and publishes payment.captured                   *)
(* (PaymentsService.payOrder behind CanPayGuard).                          *)
(*                                                                         *)
(* A request waits for an RPC for a limited time.  The RPC it gave up on   *)
(* goes on in the payments process, so the steps of PaymentService are     *)
(* steps of this specification too: Call are the RPCs of the requests, and *)
(* those of other clients of the service.                                  *)
(***************************************************************************)
EXTENDS PaymentService

CONSTANTS
    Request,    \* HTTP requests
    Outside     \* gRPC calls of other clients

Authorization(q) == <<q, "authorize">>
Capture(q) == <<q, "capture">>

ASSUME SagaAssumption ==
    /\ Call = (Request \X {"authorize", "capture"}) \cup Outside
    /\ Outside \cap (Request \X {"authorize", "capture"}) = {}
    /\ {"authorize", "capture"} \subseteq Operation

VARIABLES
    placed,     \* the order of each payment exists
    kind,       \* what each request asks for
    role,       \* what its user is to the order
    at,         \* its next step, or the RPC it waits for
    sent,       \* the RPCs that are sent
    answer,     \* its HTTP answer
    published,  \* the requests that published payment.captured
    late        \* history: the requests that began when it was captured

caller == <<kind, role>>
sagaVars == <<vars, placed, caller, at, sent, answer, published, late>>
-----------------------------------------------------------------------------
Kind == {"create", "pay"}

(* Staff without the scope payment:write is not allowed to pay for others. *)
Role == {"owner", "payingStaff", "staff", "stranger"}

Location ==
    {"begin", "load", "authorizing", "reload", "capturing", "reread",
     "publish", "end"}

HttpAnswer == {"none", "existing", "created", "forbidden", "notFound", "paid",
               "failed"}

Of(q) == payment[Authorization(q)]

Succeeded(c) == result[c] \in {"ok", "already"}
Failed(c) == result[c] \in {"invalid", "error"}

Goto(q, s) == at' = [at EXCEPT ![q] = s]

Reply(q, a) == Goto(q, "end") /\ answer' = [answer EXCEPT ![q] = a]

(* Orders of which some were placed, and paid for, by earlier requests.    *)
SagaInit ==
    /\ Init
    /\ \A q \in Request :
          /\ op[Authorization(q)] = "authorize"
          /\ op[Capture(q)] = "capture"
          /\ payment[Authorization(q)] = payment[Capture(q)]
    /\ placed \in [Payment -> BOOLEAN]
    /\ \A p \in Payment : status[p] # "absent" => placed[p]
    /\ kind \in [Request -> Kind]
    /\ role \in [Request -> Role]
    /\ \A q \in Request : kind[q] = "create" => role[q] = "owner"
    /\ at = [q \in Request |-> "begin"]
    /\ sent = {}
    /\ answer = [q \in Request |-> "none"]
    /\ published = {}
    /\ late = {}

(* OrdersService.create: an order of that key is returned as it is;        *)
(* otherwise it is committed and its payment authorized.                   *)
Create(q) ==
    /\ at[q] = "begin" /\ kind[q] = "create"
    /\ \/ placed[Of(q)] /\ Reply(q, "existing") /\ UNCHANGED <<placed, sent>>
       \/ /\ ~placed[Of(q)]
          /\ placed' = [placed EXCEPT ![Of(q)] = TRUE]
          /\ sent' = sent \cup {Authorization(q)}
          /\ Goto(q, "authorizing")
          /\ UNCHANGED answer
    /\ UNCHANGED <<vars, caller, published, late>>

(* A guard that asks for the role and not for the scope.                   *)
GuardByRole(q) ==
    /\ at[q] = "begin" /\ kind[q] = "pay"
    /\ \/ ~placed[Of(q)] /\ Reply(q, "notFound")
       \/ placed[Of(q)] /\ role[q] = "stranger" /\ Reply(q, "forbidden")
       \/ /\ placed[Of(q)]
          /\ role[q] # "stranger"
          /\ Goto(q, "load")
          /\ UNCHANGED answer
    /\ late' = IF paidAt[Of(q)] THEN late \cup {q} ELSE late
    /\ UNCHANGED <<vars, placed, caller, sent, published>>

(* CanPayGuard.canActivate; the order payOrder then looks for is found,    *)
(* since it admits every caller the guard admits.                          *)
Guard(q) ==
    /\ at[q] = "begin" /\ kind[q] = "pay"
    /\ \/ ~placed[Of(q)] /\ Reply(q, "notFound")
       \/ placed[Of(q)] /\ role[q] \in {"staff", "stranger"} /\ Reply(q, "forbidden")
       \/ /\ placed[Of(q)]
          /\ role[q] \in {"owner", "payingStaff"}
          /\ Goto(q, "load")
          /\ UNCHANGED answer
    /\ late' = IF paidAt[Of(q)] THEN late \cup {q} ELSE late
    /\ UNCHANGED <<vars, placed, caller, sent, published>>

(* Leaving it to the service to know that a payment is captured already.   *)
DecideToCapture(q, s) ==
    /\ sent' = sent \cup {Capture(q)}
    /\ Goto(q, "capturing")
    /\ UNCHANGED answer

(* The decision on a payment that exists.                                  *)
Decide(q, s) ==
    \/ s = "PAID" /\ Reply(q, "paid") /\ UNCHANGED sent
    \/ /\ s # "PAID"
       /\ sent' = sent \cup {Capture(q)}
       /\ Goto(q, "capturing")
       /\ UNCHANGED answer

(* payOrder reads the payment of the order (lines 76-78) and goes on.      *)
Load(q) ==
    /\ at[q] = "load"
    /\ \/ /\ status[Of(q)] = "absent"
          /\ sent' = sent \cup {Authorization(q)}
          /\ Goto(q, "authorizing")
          /\ UNCHANGED answer
       \/ status[Of(q)] # "absent" /\ Decide(q, status[Of(q)])
    /\ UNCHANGED <<vars, placed, caller, published, late>>

(* An order that counts as created even if the authorization failed.       *)
AuthorizedInAnyCase(q) ==
    /\ at[q] = "authorizing"
    /\ \/ Failed(Authorization(q)) /\ kind[q] = "pay" /\ Reply(q, "failed")
       \/ /\ Failed(Authorization(q)) \/ Succeeded(Authorization(q))
          /\ kind[q] = "create"
          /\ Reply(q, "created")
       \/ /\ Succeeded(Authorization(q)) /\ kind[q] = "pay"
          /\ Goto(q, "reload")
          /\ UNCHANGED answer
    /\ UNCHANGED <<vars, placed, caller, sent, published, late>>

(* The answer to Authorize; an error has a gRPC code and becomes a 503.    *)
Authorized(q) ==
    /\ at[q] = "authorizing"
    /\ \/ Failed(Authorization(q)) /\ Reply(q, "failed")
       \/ Succeeded(Authorization(q)) /\ kind[q] = "create" /\ Reply(q, "created")
       \/ /\ Succeeded(Authorization(q)) /\ kind[q] = "pay"
          /\ Goto(q, "reload")
          /\ UNCHANGED answer
    /\ UNCHANGED <<vars, placed, caller, sent, published, late>>

(* payOrder reads the payment it was told of (lines 101-109).              *)
Reload(q) ==
    /\ at[q] = "reload"
    /\ \/ status[Of(q)] = "absent" /\ Reply(q, "notFound") /\ UNCHANGED sent
       \/ status[Of(q)] # "absent" /\ Decide(q, status[Of(q)])
    /\ UNCHANGED <<vars, placed, caller, published, late>>

(* The answer to Capture; it is a success or an error, never ok: false.    *)
Captured(q) ==
    /\ at[q] = "capturing"
    /\ \/ Failed(Capture(q)) /\ Reply(q, "failed")
       \/ Succeeded(Capture(q)) /\ Goto(q, "reread") /\ UNCHANGED answer
    /\ UNCHANGED <<vars, placed, caller, sent, published, late>>

Reread(q) ==
    /\ at[q] = "reread"
    /\ \/ status[Of(q)] = "absent" /\ Reply(q, "notFound")
       \/ status[Of(q)] # "absent" /\ Goto(q, "publish") /\ UNCHANGED answer
    /\ UNCHANGED <<vars, placed, caller, sent, published, late>>

(* PaymentsEventsPublisher.publish: nothing when Kafka is disabled, and an *)
(* event the broker has or has not when it throws.                         *)
Announce(q) == published' \in {published, published \cup {q}}

(* publishCapturedEvent swallows every error.                              *)
PublishCaptured(q) ==
    /\ at[q] = "publish"
    /\ Reply(q, "paid")
    /\ Announce(q)
    /\ UNCHANGED <<vars, placed, caller, sent, late>>

(* A capture that is waited for without a timeout.                         *)
GivesUpOnAuthorize(q) ==
    /\ at[q] = "authorizing"
    /\ Reply(q, "failed")
    /\ UNCHANGED <<vars, placed, caller, sent, published, late>>

(* timeout(paymentsTimeoutMs), or an answer that never arrives: the RPC    *)
(* may be served all the same, now or later.                               *)
GivesUp(q) ==
    /\ at[q] \in {"authorizing", "capturing"}
    /\ Reply(q, "failed")
    /\ UNCHANGED <<vars, placed, caller, sent, published, late>>

(* A query of the API fails, or its process dies: no answer, or a 5xx.     *)
ApiFails(q) ==
    /\ at[q] \notin {"begin", "end"}
    /\ Reply(q, "failed")
    /\ UNCHANGED <<vars, placed, caller, sent, published, late>>

(* The payments process: an RPC of a request begins once it is sent.       *)
Serve(c) ==
    /\ c \in sent \cup Outside
    /\ Advance(c) \/ Fails(c)
    /\ UNCHANGED <<placed, caller, at, sent, answer, published, late>>

Handle(q) ==
    \/ Create(q) \/ Guard(q) \/ Load(q) \/ Authorized(q) \/ Reload(q)
    \/ Captured(q) \/ Reread(q) \/ PublishCaptured(q) \/ GivesUp(q)

(* Unsent RPCs stay as they are for ever.                                  *)
AllEnded ==
    /\ \A q \in Request : at[q] = "end"
    /\ \A c \in sent \cup Outside : pc[c] = "done"
    /\ UNCHANGED sagaVars

SagaNext ==
    \/ \E q \in Request : Handle(q) \/ ApiFails(q)
    \/ \E c \in Call : Serve(c)
    \/ AllEnded

SagaSpec == SagaInit /\ [][SagaNext]_sagaVars

(* The timer runs out and Node runs every continuation; of the payments    *)
(* process nothing is assumed, it may be down.                             *)
FairSagaSpec == SagaSpec /\ \A q \in Request : WF_sagaVars(Handle(q))
-----------------------------------------------------------------------------
(* Every variable of the API's side holds a value of its type.             *)
SagaTypeOK ==
    /\ placed \in [Payment -> BOOLEAN]
    /\ kind \in [Request -> Kind]
    /\ role \in [Request -> Role]
    /\ at \in [Request -> Location]
    /\ sent \subseteq Request \X {"authorize", "capture"}
    /\ answer \in [Request -> HttpAnswer]
    /\ published \subseteq Request
    /\ late \subseteq Request

(* A user who was told that an order is paid, or created with its payment, *)
(* was told the truth, and so was every consumer of payment.captured: also *)
(* when other RPCs of the same payment, given up or still running, fail.   *)
ToldTheTruth ==
    \A q \in Request :
        /\ answer[q] = "paid" \/ q \in published => paidAt[Of(q)]
        /\ answer[q] = "created" => status[Of(q)] # "absent"

(* Repeating POST /orders/:id/pay does not repeat the event: a request     *)
(* that began when the payment was captured publishes nothing, unless a    *)
(* refund came in between.  Two events of one payment come from requests   *)
(* that overlapped.                                                        *)
RefundBegun(p) ==
    \E c \in Call : op[c] = "refund" /\ payment[c] = p /\ pc[c] # "new"

LateIsSilent == \A q \in late \cap published : RefundBegun(Of(q))

(* Only the request's own order is charged, and only for a caller the      *)
(* guard admitted: an RPC of a request in flight or given up included.     *)
ChargedByPermission ==
    \A q \in Request :
        Capture(q) \in sent =>
            /\ role[q] \in {"owner", "payingStaff"}
            /\ placed[Of(q)]
            /\ status[Of(q)] # "absent"

(* Every request is answered, even if the payments process never is heard. *)
EveryRequestEnds == \A q \in Request : <>(at[q] = "end")
-----------------------------------------------------------------------------
(* The ledger the requests and the service keep together.                  *)
StageOf ==
    [absent |-> "none", UNPAID |-> "open", PENDING |-> "open",
     PAID |-> "settled", REFUNDED |-> "returned"]

stageOf == [p \in Payment |-> StageOf[status[p]]]

toldOf ==
    [p \in Payment |->
        {k \in {"authorized", "captured"} :
            \E q \in Request :
                /\ Of(q) = p
                /\ \/ k = "authorized" /\ answer[q] = "created"
                   \/ k = "captured" /\ (answer[q] = "paid" \/ q \in published)}]

Ledger == INSTANCE PaymentLedger WITH stage <- stageOf, told <- toldOf

(* The API and the payments process together implement the ledger.         *)
KeepsLedger == Ledger!LedgerSpec
-----------------------------------------------------------------------------
(* The inductive invariant behind the theorems of PaymentSagaProofs.       *)

(* The two RPCs of a request are what their names say.                     *)
Paired(q) ==
    /\ op[Authorization(q)] = "authorize"
    /\ op[Capture(q)] = "capture"
    /\ payment[Capture(q)] = Of(q)

AnsweredIsDone == \A c \in Call : result[c] # "none" => pc[c] = "done"

(* A payment that was refunded before the first step cannot be captured.   *)
Frozen(p) == status[p] = "REFUNDED" /\ ~RefundBegun(p)

FrozenStays ==
    \A c \in Call :
        op[c] = "capture" /\ Frozen(payment[c]) =>
            pc[c] \notin {"write", "commit"} /\ ~Succeeded(c)

(* What a request knows of its payment at each step.                       *)
Knows(q) ==
    /\ at[q] # "end" => answer[q] = "none"
    /\ at[q] = "reload" => status[Of(q)] # "absent"
    /\ at[q] \in {"begin", "load", "authorizing", "reload"} =>
          Capture(q) \notin sent
    /\ at[q] \in {"capturing", "reread", "publish"} \/ q \in published =>
          Capture(q) \in sent
    /\ at[q] \in {"reread", "publish"} \/ q \in published =>
          Succeeded(Capture(q))
    /\ q \in late => paidAt[Of(q)]
    /\ q \in late /\ Capture(q) \in sent => Frozen(Of(q)) \/ RefundBegun(Of(q))

(* What the guard has established holds until the end.                     *)
Admitted(q) ==
    /\ at[q] \in {"load", "reload", "capturing", "reread", "publish"} =>
          kind[q] = "pay"
    /\ at[q] \notin {"begin", "end"} /\ kind[q] = "pay" =>
          role[q] \in {"owner", "payingStaff"} /\ placed[Of(q)]

SInv ==
    /\ SagaTypeOK
    /\ IInv
    /\ AnsweredIsDone
    /\ FrozenStays
    /\ \A q \in Request : Paired(q) /\ Knows(q) /\ Admitted(q)
    /\ ToldTheTruth
    /\ ChargedByPermission
=============================================================================
