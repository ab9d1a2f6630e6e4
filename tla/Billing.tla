------------------------------ MODULE Billing ------------------------------
(***************************************************************************)
(* Subscriptions and payments (internal/service/subscription_service.go,   *)
(* internal/repository/subscription_repo.go, the two payment webhooks and  *)
(* the seed data the migrations write again at every start).  Each SQL     *)
(* statement is a step, except SettlePaymentAndActivateSubscription, whose *)
(* five statements are one transaction: the row locks it takes make        *)
(* concurrent settlements of one order or organisation wait for each other.*)
(***************************************************************************)
EXTENDS Integers, FiniteSets

CONSTANTS
    Orgs,           \* rows of organizations
    Plans,          \* codes of subscription_plans
    Trial,          \* the plan given to an organisation without one ("PRO")
    NoPlan,         \* no row in tenant_subscriptions
    InitialTier,    \* subscription_tier of each organisation at the start
    Seeded,         \* organisations that are part of the migrations' seed data
    Orders,         \* order ids that checkouts may draw (unique by uuid)
    Checkouts, Hooks, Readers,      \* goroutines serving each kind of request
    LogsFailures,   \* Midtrans' handler sees failed payments, Faspay's skips them
    Kinds,          \* the notifications the gateway sends in this instance
    Faults,         \* the calls that may fail in this instance
    MaxErrors,      \* bound: calls that fail
    MaxBoots,       \* bound: restarts of the backend
    MaxGrants,      \* bound: tiers changed by administrators
    MaxTime         \* bound: the last clock reading explored

Times == 0..MaxTime
Successes == {"capture", "settlement"}
Failures == {"deny", "cancel", "expire"}
Neutral == {"pending", "challenge"}
Notices == Orders \X Kinds

ASSUME BillingAssumption ==
    /\ Trial \in Plans /\ NoPlan \notin Plans
    /\ InitialTier \in [Orgs -> Plans] /\ Seeded \subseteq Orgs
    /\ Kinds \subseteq Successes \cup Failures \cup Neutral
    /\ MaxErrors \in Nat /\ MaxBoots \in Nat /\ MaxGrants \in Nat /\ MaxTime \in Nat
    /\ LogsFailures \in BOOLEAN

VARIABLES
    now,
    subs,       \* tenant_subscriptions: plan and start of the period
    orgs,       \* organizations: subscription_tier and account_status
    orders,     \* billing_invoices and payment_transactions, by order id
    gateway,    \* the gateway's view of each order
    notices,    \* notifications the gateway has sent
    unacked,    \* those it has not been answered 200 for
    marks,      \* final statuses in webhook_inbound_logs, by notification
    checkout, hook, reader,
    granted,    \* tiers each organisation was ever given
    errors, boots, grants

database == <<subs, orgs, orders, marks>>
outside == <<gateway, notices, unacked>>
handlers == <<checkout, hook, reader>>
bounds == <<errors, boots, grants>>
vars == <<now, subs, orgs, orders, gateway, notices, unacked, marks,
          checkout, hook, reader, granted, errors, boots, grants>>

NoSub == [plan |-> NoPlan, start |-> 0]
NoOrder == [org |-> "none", plan |-> NoPlan, invoice |-> "none", tx |-> "none"]
Idle == [pc |-> "idle"]

Init ==
    /\ now = 0
    /\ subs = [o \in Orgs |-> NoSub]
    /\ orgs = [o \in Orgs |-> [tier |-> InitialTier[o], status |-> "PROSPECT"]]
    /\ orders = [id \in Orders |-> NoOrder]
    /\ gateway = [id \in Orders |-> "none"]
    /\ notices = {} /\ unacked = {}
    /\ marks = [n \in Notices |-> {}]
    /\ checkout = [c \in Checkouts |-> Idle]
    /\ hook = [w \in Hooks |-> Idle]
    /\ reader = [r \in Readers |-> Idle]
    /\ granted = [o \in Orgs |-> {InitialTier[o]}]
    /\ errors = 0 /\ boots = 0 /\ grants = 0

(* A call that may fail in this instance fails.                            *)
Fails(call) == call \in Faults /\ errors < MaxErrors /\ errors' = errors + 1
Works == UNCHANGED errors

ActivePlan(p) == [plan |-> p, start |-> now]
Activated(p) == [tier |-> p, status |-> "ACTIVE"]

----------------------------------------------------------------------------
(* Checkout: invoice, gateway, transaction, answer.  Only the answer gives *)
(* the customer the link to pay.                                           *)

CreateInvoice(c, o, p, id) ==
    /\ checkout[c] = Idle /\ orders[id] = NoOrder
    /\ orders' = [orders EXCEPT ![id] = [org |-> o, plan |-> p,
                                         invoice |-> "PENDING", tx |-> "none"]]
    /\ checkout' = [checkout EXCEPT ![c] = [pc |-> "gateway", order |-> id]]
    /\ UNCHANGED <<now, subs, orgs, marks, outside, hook, reader, granted, bounds>>

(* An error of the gateway, which may have the order all the same, falls   *)
(* back to a mock token.                                                   *)
CreateGatewayOrder(c) ==
    /\ checkout[c].pc = "gateway"
    /\ LET id == checkout[c].order
       IN  \/ /\ Works
              /\ gateway' = [gateway EXCEPT ![id] = "created"]
              /\ checkout' = [checkout EXCEPT ![c] = [pc |-> "record", order |-> id,
                                                      mock |-> FALSE]]
           \/ /\ Fails("Gateway")
              /\ \/ gateway' = [gateway EXCEPT ![id] = "created"]
                 \/ UNCHANGED gateway
              /\ checkout' = [checkout EXCEPT ![c] = [pc |-> "record", order |-> id,
                                                      mock |-> TRUE]]
    /\ UNCHANGED <<now, database, notices, unacked, hook, reader, granted, boots, grants>>

RecordTransactionOrNot(c) ==        \* mutant of RecordTransaction
    /\ checkout[c].pc = "record"
    /\ \/ /\ orders' = [orders EXCEPT ![checkout[c].order].tx = "PENDING"]
          /\ Works
       \/ Fails("CreatePaymentTransaction") /\ UNCHANGED orders
    /\ checkout' = [checkout EXCEPT ![c].pc = "answer"]
    /\ UNCHANGED <<now, subs, orgs, marks, outside, hook, reader, granted, boots, grants>>

RecordTransaction(c) ==
    /\ checkout[c].pc = "record"
    /\ \/ /\ orders' = [orders EXCEPT ![checkout[c].order].tx = "PENDING"]
          /\ checkout' = [checkout EXCEPT ![c].pc = "answer"]
          /\ Works
       \/ /\ Fails("CreatePaymentTransaction")
          /\ checkout' = [checkout EXCEPT ![c] = Idle]
          /\ UNCHANGED orders
    /\ UNCHANGED <<now, subs, orgs, marks, outside, hook, reader, granted, boots, grants>>

AnswerCheckout(c) ==
    /\ checkout[c].pc = "answer"
    /\ gateway' = IF checkout[c].mock THEN gateway
                  ELSE [gateway EXCEPT ![checkout[c].order] = "offered"]
    /\ checkout' = [checkout EXCEPT ![c] = Idle]
    /\ UNCHANGED <<now, database, notices, unacked, hook, reader, granted, bounds>>

----------------------------------------------------------------------------
(* The gateway, as the handlers use it: an order the customer was offered  *)
(* is paid, waits, is challenged, fails, or is cancelled after a capture;  *)
(* each change is notified until the notification is answered 200, and may *)
(* be notified again after that.                                           *)
Progress == {<<"offered", "pending">>, <<"offered", "challenge">>,
             <<"offered", "capture">>, <<"offered", "settlement">>,
             <<"offered", "expire">>, <<"challenge", "settlement">>,
             <<"challenge", "deny">>, <<"pending", "settlement">>,
             <<"pending", "expire">>, <<"capture", "settlement">>,
             <<"capture", "cancel">>}

GatewayMoves(id, k) ==
    /\ <<gateway[id], k>> \in Progress /\ k \in Kinds
    /\ gateway' = [gateway EXCEPT ![id] = k]
    /\ notices' = notices \cup {<<id, k>>}
    /\ unacked' = unacked \cup {<<id, k>>}
    /\ UNCHANGED <<now, database, handlers, granted, bounds>>

----------------------------------------------------------------------------
(* The webhooks.                                                           *)

IsSuccessOrNeutral(k) == k \in Successes \cup {"pending"}    \* mutant of IsSuccess
IsSuccess(k) == k \in Successes
IsFailed(k) == k \in Failures

(* A delivery: the first one, a retry, or a repetition.  The notification  *)
(* is logged as PENDING before anything else; Faspay's handler answers     *)
(* what is no success without logging it.                                  *)
Receive(w, n) ==
    /\ hook[w] = Idle /\ n \in notices
    /\ \/ /\ IsSuccess(n[2]) \/ LogsFailures
          /\ hook' = [hook EXCEPT ![w] =
                         [pc |-> IF IsSuccess(n[2]) THEN "settle" ELSE "mark",
                          notice |-> n, ok |-> TRUE]]
          /\ UNCHANGED unacked
       \/ /\ ~IsSuccess(n[2]) /\ ~LogsFailures /\ n \in unacked
          /\ unacked' = unacked \ {n}
          /\ UNCHANGED hook
    /\ UNCHANGED <<now, database, gateway, notices, checkout, reader, granted, bounds>>

(* SettlePaymentAndActivateSubscription.  The order is not asked whether   *)
(* it is settled already.                                                  *)
Settled(order) == [order EXCEPT !.tx = "SETTLEMENT", !.invoice = "PAID"]

(* A plausible bug: no transaction, the order is settled and the rest may  *)
(* fail.                                                                   *)
SettleByStatements(w) ==
    /\ hook[w].pc = "settle"
    /\ LET id == hook[w].notice[1]
           o  == orders[id].org
           p  == orders[id].plan
       IN  /\ orders[id].tx # "none"
           /\ orders' = [orders EXCEPT ![id] = Settled(@)]
           /\ \/ /\ subs' = [subs EXCEPT ![o] = ActivePlan(p)]
                 /\ orgs' = [orgs EXCEPT ![o] = Activated(p)]
                 /\ hook' = [hook EXCEPT ![w].pc = "mark"]
                 /\ Works
              \/ /\ Fails("Settle")
                 /\ hook' = [hook EXCEPT ![w] = [pc |-> "mark", notice |-> @.notice,
                                                ok |-> FALSE]]
                 /\ UNCHANGED <<subs, orgs>>
    /\ UNCHANGED <<now, marks, outside, checkout, reader, granted, boots, grants>>

Settle(w) ==
    /\ hook[w].pc = "settle"
    /\ LET id == hook[w].notice[1]
           o  == orders[id].org
           p  == orders[id].plan
       IN  \/ /\ orders[id].tx # "none"
              /\ orders' = [orders EXCEPT ![id] = Settled(@)]
              /\ subs' = [subs EXCEPT ![o] = ActivePlan(p)]
              /\ orgs' = [orgs EXCEPT ![o] = Activated(p)]
              /\ hook' = [hook EXCEPT ![w].pc = "mark"]
              /\ Works
           \/ /\ (orders[id].tx = "none" /\ Works) \/ Fails("Settle")
              /\ hook' = [hook EXCEPT ![w] = [pc |-> "mark", notice |-> @.notice,
                                            ok |-> FALSE]]
              /\ UNCHANGED <<orders, subs, orgs>>
    /\ UNCHANGED <<now, marks, outside, checkout, reader, granted, boots, grants>>

(* The final status, whose error is ignored, and the answer: 422 when the  *)
(* settlement failed, 200 otherwise.                                       *)
FinalStatus(h) == IF ~h.ok \/ IsFailed(h.notice[2]) THEN "FAILED" ELSE "PROCESSED"

AnswerAlwaysOk(w) ==                \* mutant of AnswerHook
    /\ hook[w].pc = "mark"
    /\ marks' = [marks EXCEPT ![hook[w].notice] = @ \cup {FinalStatus(hook[w])}]
    /\ unacked' = unacked \ {hook[w].notice}
    /\ hook' = [hook EXCEPT ![w] = Idle]
    /\ UNCHANGED <<now, subs, orgs, orders, gateway, notices, checkout, reader,
                   granted, bounds>>

AnswerHook(w) ==
    /\ hook[w].pc = "mark"
    /\ \/ marks' = [marks EXCEPT ![hook[w].notice] = @ \cup {FinalStatus(hook[w])}]
       \/ "UpdateWebhookStatus" \in Faults /\ UNCHANGED marks
    /\ unacked' = IF hook[w].ok THEN unacked \ {hook[w].notice} ELSE unacked
    /\ hook' = [hook EXCEPT ![w] = Idle]
    /\ UNCHANGED <<now, subs, orgs, orders, gateway, notices, checkout, reader,
                   granted, bounds>>

----------------------------------------------------------------------------
(* GetTenantSubscription: read, and when there is no row write a trial, in *)
(* two statements that look at nothing again.                              *)

MissSubscription(r, o) ==
    /\ reader[r] = Idle /\ subs[o] = NoSub
    /\ reader' = [reader EXCEPT ![r] = [pc |-> "trial", org |-> o]]
    /\ UNCHANGED <<now, database, outside, checkout, hook, granted, bounds>>

StartTrial(r) ==
    /\ reader[r].pc = "trial"
    /\ subs' = [subs EXCEPT ![reader[r].org] = ActivePlan(Trial)]
    /\ reader' = [reader EXCEPT ![r].pc = "tier"]
    /\ UNCHANGED <<now, orgs, orders, marks, outside, checkout, hook, granted, bounds>>

SetTrialTier(r) ==
    /\ reader[r].pc = "tier"
    /\ \/ orgs' = [orgs EXCEPT ![reader[r].org] = Activated(Trial)]
       \/ "UpdateTier" \in Faults /\ UNCHANGED orgs
    /\ reader' = [reader EXCEPT ![r] = Idle]
    /\ UNCHANGED <<now, subs, orders, marks, outside, checkout, hook, granted, bounds>>

----------------------------------------------------------------------------
(* PUT /admin/organizations/:id.                                           *)
GiveTier(o, p) ==
    /\ grants < MaxGrants /\ grants' = grants + 1
    /\ \E s \in {orgs[o].status, "ACTIVE", "PROSPECT"} :
          orgs' = [orgs EXCEPT ![o] = [tier |-> p, status |-> s]]
    /\ granted' = [granted EXCEPT ![o] = @ \cup {p}]
    /\ UNCHANGED <<now, subs, orders, marks, outside, handlers, errors, boots>>

(* The backend is stopped, its handlers die, and at its next start every   *)
(* migration runs again: seeded organisations get their tier and status    *)
(* again, every PROSPECT becomes QUALIFIED, and every organisation without *)
(* a subscription gets one of its tier.                                    *)
SeededOrg(o) ==
    IF o \in Seeded THEN [tier |-> InitialTier[o], status |-> "QUALIFIED"]
    ELSE [orgs[o] EXCEPT !.status = IF @ = "PROSPECT" THEN "QUALIFIED" ELSE @]
SeededSub(o) ==
    IF subs[o] = NoSub THEN ActivePlan(SeededOrg(o).tier) ELSE subs[o]

Restart ==
    /\ boots < MaxBoots /\ boots' = boots + 1
    /\ orgs' = [o \in Orgs |-> SeededOrg(o)]
    /\ subs' = [o \in Orgs |-> SeededSub(o)]
    /\ checkout' = [c \in Checkouts |-> Idle]
    /\ hook' = [w \in Hooks |-> Idle]
    /\ reader' = [r \in Readers |-> Idle]
    /\ UNCHANGED <<now, orders, marks, outside, granted, errors, grants>>

Tick ==
    /\ now < MaxTime /\ now' = now + 1
    /\ UNCHANGED <<database, outside, handlers, granted, bounds>>

----------------------------------------------------------------------------
CheckoutStep(c) == CreateGatewayOrder(c) \/ RecordTransaction(c) \/ AnswerCheckout(c)
HookStep(w) == Settle(w) \/ AnswerHook(w)
ReaderStep(r) == StartTrial(r) \/ SetTrialTier(r)

Next ==
    \/ \E c \in Checkouts :
          \/ \E o \in Orgs, p \in Plans, id \in Orders : CreateInvoice(c, o, p, id)
          \/ CheckoutStep(c)
    \/ \E id \in Orders, k \in Kinds : GatewayMoves(id, k)
    \/ \E w \in Hooks : (\E n \in Notices : Receive(w, n)) \/ HookStep(w)
    \/ \E r \in Readers : (\E o \in Orgs : MissSubscription(r, o)) \/ ReaderStep(r)
    \/ \E o \in Orgs, p \in Plans : GiveTier(o, p)
    \/ Restart
    \/ Tick

Spec == Init /\ [][Next]_vars

(* A webhook that runs keeps running, and the gateway delivers again what  *)
(* was not answered 200: SF, because the goroutines are shared with other  *)
(* notifications.                                                          *)
FairSpec ==
    /\ Spec
    /\ \A w \in Hooks : WF_vars(HookStep(w))
    /\ \A n \in Notices : SF_vars(n \in unacked /\ \E w \in Hooks : Receive(w, n))

----------------------------------------------------------------------------
CheckoutState ==
    {Idle} \cup [pc: {"gateway"}, order: Orders]
           \cup [pc: {"record", "answer"}, order: Orders, mock: BOOLEAN]
HookState == {Idle} \cup [pc: {"settle", "mark"}, notice: Notices, ok: BOOLEAN]
ReaderState == {Idle} \cup [pc: {"trial", "tier"}, org: Orgs]
OrderState ==
    {NoOrder} \cup [org: Orgs, plan: Plans, invoice: {"PENDING"}, tx: {"none", "PENDING"}]
              \cup [org: Orgs, plan: Plans, invoice: {"PAID"}, tx: {"SETTLEMENT"}]

(* Type invariant.  A transaction is settled exactly when its invoice is   *)
(* paid.                                                                   *)
TypeOK ==
    /\ now \in Times
    /\ subs \in [Orgs -> [plan: Plans \cup {NoPlan}, start: Times]]
    /\ orgs \in [Orgs -> [tier: Plans, status: {"PROSPECT", "QUALIFIED", "ACTIVE"}]]
    /\ orders \in [Orders -> OrderState]
    /\ gateway \in [Orders -> {"none", "created", "offered"} \cup Kinds]
    /\ notices \subseteq Notices /\ unacked \subseteq notices
    /\ marks \in [Notices -> SUBSET {"PROCESSED", "FAILED"}]
    /\ checkout \in [Checkouts -> CheckoutState]
    /\ hook \in [Hooks -> HookState]
    /\ reader \in [Readers -> ReaderState]
    /\ granted \in [Orgs -> SUBSET Plans]
    /\ errors \in Nat /\ boots \in Nat /\ grants \in Nat

(* Nobody can pay an order the backend has no transaction of, whatever     *)
(* call of the checkout fails and wherever it dies: so no settlement ever  *)
(* looks for a transaction in vain.                                        *)
PayableIsRecorded ==
    /\ \A id \in Orders : gateway[id] \notin {"none", "created"} => orders[id].tx # "none"
    /\ \A w \in Hooks : hook[w].pc = "settle" => orders[hook[w].notice[1]].tx # "none"

(* An invoice is PAID, and a webhook log of a success PROCESSED, only if   *)
(* the gateway has reported that success, in whatever order notifications  *)
(* arrive or are repeated.                                                 *)
Reported(id) == \E k \in Successes : <<id, k>> \in notices
PaidWasReported ==
    /\ \A id \in Orders : orders[id].invoice = "PAID" => Reported(id)
    /\ \A n \in Notices : IsSuccess(n[2]) /\ "PROCESSED" \in marks[n]
                              => orders[n[1]].invoice = "PAID"

(* The promise of Entitlement: no plan is in force without a cause and no  *)
(* payment is taken back, through races of settlement and trial,           *)
(* repetitions, partial failures and restarts.                             *)
PaidPlans(o) ==
    {p \in Plans : \E id \in Orders : /\ orders[id].invoice = "PAID"
                                      /\ orders[id].org = o /\ orders[id].plan = p}
E == INSTANCE Entitlement
        WITH Organisations <- Orgs, PlanCodes <- Plans,
             inForce <- [o \in Orgs |-> subs[o].plan],
             paid <- [o \in Orgs |-> PaidPlans(o)],
             given <- granted
KeepsPromise == E!Promise

(* Every payment the gateway reports is settled, although calls fail,      *)
(* handlers die and the backend restarts, because the gateway tries again. *)
EveryPaymentSettles ==
    \A id \in Orders : Reported(id) ~> orders[id].invoice = "PAID"

----------------------------------------------------------------------------
(* What comments say, and the code does not do.                            *)

(* "Idempotent Webhook Processing": settling an order that is settled      *)
(* already changes no subscription.                                        *)
SettledOnce ==
    [][\A w \in Hooks :
          Settle(w) /\ orders[hook[w].notice[1]].tx = "SETTLEMENT" => subs' = subs]_vars

(* "Auto create free trial if missing": a trial is written only for an     *)
(* organisation that has no subscription.                                  *)
TrialOnlyIfMissing ==
    [][\A r \in Readers : StartTrial(r) => subs[reader[r].org] = NoSub]_vars
=============================================================================
