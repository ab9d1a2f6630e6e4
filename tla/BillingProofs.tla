--------------------------- MODULE BillingProofs ---------------------------
(***************************************************************************)
(* Theorems of Billing: what holds for every number of organisations,      *)
(* plans, orders and goroutines, every set of failing calls and every      *)
(* bound.  The invariant is proved action by action; the refinement of     *)
(* Entitlement follows from it.                                            *)
(***************************************************************************)
EXTENDS Billing, TLAPS

(* The handlers' view of their order agrees with the tables: a checkout    *)
(* that has not recorded its transaction owns an invoice without one, one  *)
(* that answers has one, and no two checkouts share an order.              *)
Unrecorded(id) == orders[id].invoice = "PENDING" /\ orders[id].tx = "none"
CheckoutsOwn ==
    /\ \A c \in Checkouts :
          /\ checkout[c].pc \in {"gateway", "record"} => Unrecorded(checkout[c].order)
          /\ checkout[c].pc = "answer" => orders[checkout[c].order].tx # "none"
    /\ \A c, d \in Checkouts :
          c # d /\ checkout[c].pc # "idle" /\ checkout[d].pc # "idle"
              => checkout[c].order # checkout[d].order

(* A webhook handler carries a notification that was sent; it settles only *)
(* successes, and once it is done without an error the invoice is paid.    *)
HooksCarry ==
    \A w \in Hooks :
        /\ hook[w].pc # "idle" => hook[w].notice \in notices
        /\ hook[w].pc = "settle" => IsSuccess(hook[w].notice[2])
        /\ hook[w].pc = "mark" /\ hook[w].ok /\ IsSuccess(hook[w].notice[2])
              => orders[hook[w].notice[1]].invoice = "PAID"

(* The gateway notifies only of orders the customer was offered.           *)
NoticesAreOffered == \A n \in notices : gateway[n[1]] \notin {"none", "created"}

OrdersAgree ==
    /\ CheckoutsOwn
    /\ HooksCarry
    /\ NoticesAreOffered
    /\ PayableIsRecorded
    /\ PaidWasReported
BillingInv == TypeOK /\ OrdersAgree

----------------------------------------------------------------------------
(* The states of a handler and of an order.                                *)

LEMMA CheckoutStates ==
    ASSUME NEW s \in CheckoutState
    PROVE  /\ s.pc \in {"idle", "gateway", "record", "answer"}
           /\ s.pc # "idle" => s.order \in Orders
           /\ s.pc \in {"record", "answer"} => s.mock \in BOOLEAN
           /\ s.pc = "record" => [s EXCEPT !.pc = "answer"] \in CheckoutState
  BY DEF CheckoutState, Idle

LEMMA HookStates ==
    ASSUME NEW s \in HookState
    PROVE  /\ s.pc \in {"idle", "settle", "mark"}
           /\ s.pc # "idle" => s.notice \in Notices /\ s.ok \in BOOLEAN
           /\ s.pc = "settle" => [s EXCEPT !.pc = "mark"] \in HookState
  BY DEF HookState, Idle

LEMMA ReaderStates ==
    ASSUME NEW s \in ReaderState
    PROVE  /\ s.pc \in {"idle", "trial", "tier"}
           /\ s.pc # "idle" => s.org \in Orgs
           /\ s.pc = "trial" => [s EXCEPT !.pc = "tier"] \in ReaderState
  BY DEF ReaderState, Idle

LEMMA OrderStates ==
    ASSUME NEW s \in OrderState
    PROVE  /\ s.tx # "none" => /\ s.org \in Orgs /\ s.plan \in Plans
                               /\ Settled(s) \in OrderState
           /\ s.invoice = "PAID" => s.tx # "none"
           /\ s.invoice = "PENDING" /\ s.tx = "none"
                  => [s EXCEPT !.tx = "PENDING"] \in OrderState
           /\ Settled(s).invoice = "PAID" /\ Settled(s).tx = "SETTLEMENT"
           /\ Settled(s).org = s.org /\ Settled(s).plan = s.plan
<1>1. CASE s = NoOrder
  BY <1>1 DEF NoOrder, Settled, OrderState
<1>2. CASE s \in [org: Orgs, plan: Plans, invoice: {"PENDING"}, tx: {"none", "PENDING"}]
  BY <1>2 DEF Settled, OrderState
<1>3. CASE s \in [org: Orgs, plan: Plans, invoice: {"PAID"}, tx: {"SETTLEMENT"}]
  BY <1>3 DEF Settled, OrderState
<1> QED
  BY <1>1, <1>2, <1>3 DEF OrderState

LEMMA NoticeParts ==
    ASSUME NEW n \in Notices
    PROVE  n[1] \in Orders /\ n[2] \in Kinds /\ n = <<n[1], n[2]>>
  BY DEF Notices

(* A notification sent, or carried by a handler, names an order.           *)
LEMMA SentNotices ==
    ASSUME BillingInv
    PROVE  /\ \A n \in notices : n \in Notices /\ n[1] \in Orders /\ n[2] \in Kinds
           /\ \A w \in Hooks : hook[w].pc # "idle" => /\ hook[w].notice \in Notices
                                                     /\ hook[w].notice[1] \in Orders
  BY NoticeParts, HookStates DEF BillingInv, TypeOK

(* The step of a reader, an administrator or the clock touches no order.   *)
LEMMA Untouched ==
    ASSUME OrdersAgree,
           UNCHANGED <<orders, gateway, notices, marks, checkout, hook>>
    PROVE  OrdersAgree'
  BY DEF OrdersAgree, CheckoutsOwn, Unrecorded, HooksCarry, NoticesAreOffered,
         PayableIsRecorded, PaidWasReported, Reported

----------------------------------------------------------------------------
(* The checkout's steps.                                                   *)

LEMMA CreateInvoiceKeeps ==
    ASSUME BillingInv, NEW c \in Checkouts, NEW o \in Orgs, NEW p \in Plans,
           NEW id \in Orders, CreateInvoice(c, o, p, id)
    PROVE  BillingInv'
<1> DEFINE new == [org |-> o, plan |-> p, invoice |-> "PENDING", tx |-> "none"]
<1> DEFINE begun == [pc |-> "gateway", order |-> id]
<1>1. /\ orders \in [Orders -> OrderState] /\ checkout \in [Checkouts -> CheckoutState]
      /\ orders[id] = NoOrder /\ checkout[c].pc = "idle"
      /\ orders' = [orders EXCEPT ![id] = new]
      /\ checkout' = [checkout EXCEPT ![c] = begun]
  BY DEF BillingInv, TypeOK, CreateInvoice, Idle
<1>2. orders[id].tx = "none" /\ orders[id].invoice = "none"
  BY <1>1 DEF NoOrder
<1>3. new \in OrderState /\ begun \in CheckoutState
  BY DEF OrderState, CheckoutState
<1>4. TypeOK'
  <2>1. orders' \in [Orders -> OrderState] /\ checkout' \in [Checkouts -> CheckoutState]
    BY <1>1, <1>3
  <2> QED
    BY <2>1 DEF BillingInv, TypeOK, CreateInvoice, outside, bounds
<1>5. CheckoutsOwn'
  <2>1. \A d \in Checkouts : d # c /\ checkout[d].pc # "idle" => checkout[d].order # id
    BY <1>1, <1>2, CheckoutStates DEF BillingInv, OrdersAgree, CheckoutsOwn, Unrecorded
  <2> QED
    BY <1>1, <2>1, CheckoutStates DEF BillingInv, OrdersAgree, CheckoutsOwn, Unrecorded
<1>6. HooksCarry'
  BY <1>1, <1>2 DEF BillingInv, OrdersAgree, HooksCarry, CreateInvoice, outside
<1>7. NoticesAreOffered'
  BY DEF BillingInv, OrdersAgree, NoticesAreOffered, CreateInvoice, outside
<1>8. PayableIsRecorded'
  BY <1>1, <1>2 DEF BillingInv, OrdersAgree, PayableIsRecorded, CreateInvoice, outside
<1>9. PaidWasReported'
  BY <1>1, <1>2, NoticeParts
     DEF BillingInv, OrdersAgree, PaidWasReported, Reported, CreateInvoice, outside
<1> QED
  BY <1>4, <1>5, <1>6, <1>7, <1>8, <1>9 DEF BillingInv, OrdersAgree

LEMMA CreateGatewayOrderKeeps ==
    ASSUME BillingInv, NEW c \in Checkouts, CreateGatewayOrder(c)
    PROVE  BillingInv'
<1> DEFINE id == checkout[c].order
<1>1. /\ checkout \in [Checkouts -> CheckoutState] /\ checkout[c].pc = "gateway"
      /\ id \in Orders
      /\ gateway \in [Orders -> {"none", "created", "offered"} \cup Kinds]
  BY CheckoutStates DEF BillingInv, TypeOK, CreateGatewayOrder
<1>2. PICK mock \in BOOLEAN :
          checkout' = [checkout EXCEPT ![c] = [pc |-> "record", order |-> id, mock |-> mock]]
  BY DEF CreateGatewayOrder
<1>3. gateway' = [gateway EXCEPT ![id] = "created"] \/ gateway' = gateway
  BY DEF CreateGatewayOrder
<1>4. /\ UNCHANGED <<now, subs, orgs, orders, marks, notices, unacked, hook, reader,
                     granted, boots, grants>>
      /\ errors' \in Nat
  BY DEF BillingInv, TypeOK, CreateGatewayOrder, database, Works, Fails
<1>5. Unrecorded(id) /\ gateway[id] \in {"none", "created"}
  BY <1>1 DEF BillingInv, OrdersAgree, CheckoutsOwn, Unrecorded, PayableIsRecorded
<1>6. [pc |-> "record", order |-> id, mock |-> mock] \in CheckoutState
  BY <1>1, <1>2 DEF CheckoutState
<1>7. TypeOK'
  BY <1>1, <1>2, <1>3, <1>4, <1>6 DEF BillingInv, TypeOK
<1>8. CheckoutsOwn'
  BY <1>1, <1>2, <1>4, <1>5, CheckoutStates
     DEF BillingInv, OrdersAgree, CheckoutsOwn, Unrecorded
<1>9. HooksCarry'
  BY <1>4 DEF BillingInv, OrdersAgree, HooksCarry
<1>10. NoticesAreOffered'
  BY <1>1, <1>3, <1>4, <1>5, SentNotices DEF BillingInv, OrdersAgree, NoticesAreOffered
<1>11. PayableIsRecorded' /\ PaidWasReported'
  BY <1>1, <1>3, <1>4 DEF BillingInv, OrdersAgree, PayableIsRecorded, PaidWasReported, Reported
<1> QED
  BY <1>7, <1>8, <1>9, <1>10, <1>11 DEF BillingInv, OrdersAgree

LEMMA RecordTransactionKeeps ==
    ASSUME BillingInv, NEW c \in Checkouts, RecordTransaction(c)
    PROVE  BillingInv'
<1> DEFINE id == checkout[c].order
<1>1. /\ checkout \in [Checkouts -> CheckoutState] /\ checkout[c].pc = "record"
      /\ id \in Orders /\ orders \in [Orders -> OrderState]
  BY CheckoutStates DEF BillingInv, TypeOK, RecordTransaction
<1>2. /\ UNCHANGED <<now, subs, orgs, marks, gateway, notices, unacked, hook, reader,
                     granted, boots, grants>>
      /\ errors' \in Nat
  BY DEF BillingInv, TypeOK, RecordTransaction, outside, Works, Fails
<1>3. Unrecorded(id)
  BY <1>1 DEF BillingInv, OrdersAgree, CheckoutsOwn
<1>4. CASE /\ orders' = [orders EXCEPT ![id].tx = "PENDING"]
           /\ checkout' = [checkout EXCEPT ![c].pc = "answer"]
  <2>1. /\ [orders[id] EXCEPT !.tx = "PENDING"] \in OrderState
        /\ [checkout[c] EXCEPT !.pc = "answer"] \in CheckoutState
    BY <1>1, <1>3, OrderStates, CheckoutStates DEF Unrecorded
  <2>2. TypeOK'
    BY <1>1, <1>2, <1>4, <2>1 DEF BillingInv, TypeOK
  <2>3. /\ orders'[id].tx = "PENDING"
        /\ \A x \in Orders : orders'[x].invoice = orders[x].invoice
        /\ \A x \in Orders : x # id => orders'[x] = orders[x]
    BY <1>1, <1>4, OrderStates DEF OrderState, NoOrder
  <2>4. CheckoutsOwn'
    BY <1>1, <1>4, <2>3, CheckoutStates DEF BillingInv, OrdersAgree, CheckoutsOwn, Unrecorded
  <2>5. HooksCarry'
    BY <1>2, <2>3, SentNotices DEF BillingInv, OrdersAgree, HooksCarry
  <2>6. NoticesAreOffered' /\ PayableIsRecorded' /\ PaidWasReported'
    BY <1>2, <2>3, SentNotices, NoticeParts
       DEF BillingInv, OrdersAgree, NoticesAreOffered, PayableIsRecorded, PaidWasReported,
           Reported
  <2> QED
    BY <2>2, <2>4, <2>5, <2>6 DEF BillingInv, OrdersAgree
<1>5. CASE orders' = orders /\ checkout' = [checkout EXCEPT ![c] = Idle]
  <2>1. TypeOK'
    BY <1>1, <1>2, <1>5 DEF BillingInv, TypeOK, CheckoutState
  <2>2. CheckoutsOwn'
    BY <1>1, <1>5 DEF BillingInv, OrdersAgree, CheckoutsOwn, Unrecorded, Idle
  <2>3. HooksCarry' /\ NoticesAreOffered' /\ PayableIsRecorded' /\ PaidWasReported'
    BY <1>2, <1>5 DEF BillingInv, OrdersAgree, HooksCarry, NoticesAreOffered,
                      PayableIsRecorded, PaidWasReported, Reported
  <2> QED
    BY <2>1, <2>2, <2>3 DEF BillingInv, OrdersAgree
<1> QED
  BY <1>4, <1>5 DEF RecordTransaction

LEMMA AnswerCheckoutKeeps ==
    ASSUME BillingInv, NEW c \in Checkouts, AnswerCheckout(c)
    PROVE  BillingInv'
<1> DEFINE id == checkout[c].order
<1>1. /\ checkout \in [Checkouts -> CheckoutState] /\ checkout[c].pc = "answer"
      /\ id \in Orders /\ gateway \in [Orders -> {"none", "created", "offered"} \cup Kinds]
      /\ checkout' = [checkout EXCEPT ![c] = Idle]
      /\ gateway' = gateway \/ gateway' = [gateway EXCEPT ![id] = "offered"]
      /\ UNCHANGED <<now, subs, orgs, orders, marks, notices, unacked, hook, reader,
                     granted, errors, boots, grants>>
  BY CheckoutStates DEF BillingInv, TypeOK, AnswerCheckout, database, bounds
<1>2. orders[id].tx # "none"
  BY <1>1 DEF BillingInv, OrdersAgree, CheckoutsOwn
<1>3. TypeOK'
  BY <1>1 DEF BillingInv, TypeOK, CheckoutState
<1>4. CheckoutsOwn'
  BY <1>1 DEF BillingInv, OrdersAgree, CheckoutsOwn, Unrecorded, Idle
<1>5. HooksCarry'
  BY <1>1 DEF BillingInv, OrdersAgree, HooksCarry
<1>6. NoticesAreOffered'
  BY <1>1, SentNotices DEF BillingInv, OrdersAgree, NoticesAreOffered
<1>7. PayableIsRecorded' /\ PaidWasReported'
  BY <1>1, <1>2 DEF BillingInv, OrdersAgree, PayableIsRecorded, PaidWasReported, Reported
<1> QED
  BY <1>3, <1>4, <1>5, <1>6, <1>7 DEF BillingInv, OrdersAgree

----------------------------------------------------------------------------
(* The gateway's and the webhooks' steps.                                  *)

LEMMA GatewayMovesKeeps ==
    ASSUME BillingInv, NEW id \in Orders, NEW k \in Kinds, GatewayMoves(id, k)
    PROVE  BillingInv'
<1>1. /\ gateway \in [Orders -> {"none", "created", "offered"} \cup Kinds]
      /\ gateway' = [gateway EXCEPT ![id] = k]
      /\ notices' = notices \cup {<<id, k>>} /\ unacked' = unacked \cup {<<id, k>>}
      /\ UNCHANGED <<now, subs, orgs, orders, marks, checkout, hook, reader,
                     granted, errors, boots, grants>>
      /\ <<gateway[id], k>> \in Progress
  BY DEF BillingInv, TypeOK, GatewayMoves, database, handlers, bounds
<1>2. gateway[id] \notin {"none", "created"}
  BY <1>1 DEF Progress
<1>3. k \notin {"none", "created"}
  BY BillingAssumption DEF Successes, Failures, Neutral
<1>4. <<id, k>> \in Notices
  BY DEF Notices
<1>5. TypeOK'
  BY <1>1, <1>4 DEF BillingInv, TypeOK
<1>6. CheckoutsOwn' /\ HooksCarry'
  BY <1>1 DEF BillingInv, OrdersAgree, CheckoutsOwn, Unrecorded, HooksCarry
<1>7. NoticesAreOffered'
  BY <1>1, <1>3, SentNotices DEF BillingInv, OrdersAgree, NoticesAreOffered
<1>8. PayableIsRecorded'
  BY <1>1, <1>2 DEF BillingInv, OrdersAgree, PayableIsRecorded
<1>9. PaidWasReported'
  BY <1>1 DEF BillingInv, OrdersAgree, PaidWasReported, Reported
<1> QED
  BY <1>5, <1>6, <1>7, <1>8, <1>9 DEF BillingInv, OrdersAgree

LEMMA ReceiveKeeps ==
    ASSUME BillingInv, NEW w \in Hooks, NEW n \in Notices, Receive(w, n)
    PROVE  BillingInv'
<1>1. /\ hook \in [Hooks -> HookState] /\ n \in notices
      /\ UNCHANGED <<now, subs, orgs, orders, marks, gateway, notices, checkout, reader,
                     granted, errors, boots, grants>>
  BY DEF BillingInv, TypeOK, Receive, database, bounds
<1>2. CASE unacked' = unacked
           /\ hook' = [hook EXCEPT ![w] = [pc |-> IF IsSuccess(n[2]) THEN "settle" ELSE "mark",
                                          notice |-> n, ok |-> TRUE]]
  <2> DEFINE h == [pc |-> IF IsSuccess(n[2]) THEN "settle" ELSE "mark",
                   notice |-> n, ok |-> TRUE]
  <2>1. h \in HookState
    BY DEF HookState
  <2>2. /\ h.pc = "settle" => IsSuccess(n[2])
        /\ h.pc = "mark" => ~IsSuccess(n[2])
        /\ h.pc # "idle" /\ h.notice = n
    OBVIOUS
  <2>3. hook' = [hook EXCEPT ![w] = h]
    BY <1>2
  <2> HIDE DEF h
  <2>4. TypeOK'
    BY <1>1, <1>2, <2>1, <2>3 DEF BillingInv, TypeOK
  <2>5. CheckoutsOwn' /\ NoticesAreOffered' /\ PaidWasReported'
    BY <1>1 DEF BillingInv, OrdersAgree, CheckoutsOwn, Unrecorded, NoticesAreOffered,
                PaidWasReported, Reported
  <2>6. HooksCarry'
    BY <1>1, <2>2, <2>3 DEF BillingInv, OrdersAgree, HooksCarry
  <2>7. orders[n[1]].tx # "none"
    BY <1>1, SentNotices DEF BillingInv, OrdersAgree, NoticesAreOffered, PayableIsRecorded
  <2>8. PayableIsRecorded'
    BY <1>1, <2>2, <2>3, <2>7 DEF BillingInv, OrdersAgree, PayableIsRecorded
  <2> QED
    BY <2>4, <2>5, <2>6, <2>8 DEF BillingInv, OrdersAgree
<1>3. CASE unacked' = unacked \ {n} /\ hook' = hook
  <2>1. TypeOK'
    BY <1>1, <1>3 DEF BillingInv, TypeOK
  <2>2. OrdersAgree'
    BY <1>1, <1>3, Untouched DEF BillingInv
  <2> QED
    BY <2>1, <2>2 DEF BillingInv
<1> QED
  BY <1>2, <1>3 DEF Receive

LEMMA SettleKeeps ==
    ASSUME BillingInv, NEW w \in Hooks, Settle(w)
    PROVE  BillingInv'
<1> DEFINE id == hook[w].notice[1]
<1> DEFINE o == orders[id].org
<1> DEFINE p == orders[id].plan
<1>1. /\ hook \in [Hooks -> HookState] /\ hook[w].pc = "settle"
      /\ id \in Orders /\ orders \in [Orders -> OrderState]
      /\ hook[w].notice \in notices /\ hook[w].notice \in Notices
      /\ IsSuccess(hook[w].notice[2])
      /\ UNCHANGED <<now, marks, gateway, notices, unacked, checkout, reader,
                     granted, boots, grants>>
  BY SentNotices DEF BillingInv, TypeOK, OrdersAgree, HooksCarry, Settle, outside
<1>2. errors' \in Nat
  BY DEF BillingInv, TypeOK, Settle, Works, Fails
<1>3. orders[id].tx # "none"
  BY <1>1 DEF BillingInv, OrdersAgree, PayableIsRecorded
<1>4. CASE /\ orders' = [orders EXCEPT ![id] = Settled(@)]
           /\ subs' = [subs EXCEPT ![o] = ActivePlan(p)]
           /\ orgs' = [orgs EXCEPT ![o] = Activated(p)]
           /\ hook' = [hook EXCEPT ![w].pc = "mark"]
  <2>1. o \in Orgs /\ p \in Plans /\ Settled(orders[id]) \in OrderState
    BY <1>1, <1>3, OrderStates
  <2>2. ActivePlan(p) \in [plan: Plans \cup {NoPlan}, start: Times]
    BY <2>1 DEF ActivePlan, BillingInv, TypeOK
  <2>3. Activated(p) \in [tier: Plans, status: {"PROSPECT", "QUALIFIED", "ACTIVE"}]
    BY <2>1 DEF Activated
  <2>4. [hook[w] EXCEPT !.pc = "mark"] \in HookState
    BY <1>1, HookStates
  <2>5. TypeOK'
    <3>1. /\ orders' \in [Orders -> OrderState] /\ hook' \in [Hooks -> HookState]
          /\ subs' \in [Orgs -> [plan: Plans \cup {NoPlan}, start: Times]]
          /\ orgs' \in [Orgs -> [tier: Plans, status: {"PROSPECT", "QUALIFIED", "ACTIVE"}]]
      <4> HIDE DEF id, o, p
      <4> QED
        BY <1>1, <1>4, <2>1, <2>2, <2>3, <2>4 DEF BillingInv, TypeOK
    <3> QED
      BY <1>1, <1>2, <3>1 DEF BillingInv, TypeOK
  <2>6. /\ orders'[id].tx = "SETTLEMENT" /\ orders'[id].invoice = "PAID"
        /\ \A x \in Orders : x # id => orders'[x] = orders[x]
    BY <1>1, <1>4, OrderStates
  <2>7. CheckoutsOwn'
    <3>1. \A c \in Checkouts :
             checkout[c].pc \in {"gateway", "record"} => checkout[c].order # id
      BY <1>3 DEF BillingInv, OrdersAgree, CheckoutsOwn, Unrecorded
    <3>2. \A c \in Checkouts : checkout[c].pc # "idle" => checkout[c].order \in Orders
      BY CheckoutStates DEF BillingInv, TypeOK
    <3> HIDE DEF id
    <3> QED
      BY <1>1, <2>6, <3>1, <3>2 DEF BillingInv, OrdersAgree, CheckoutsOwn, Unrecorded
  <2>8. /\ hook'[w].pc = "mark" /\ hook'[w].notice = hook[w].notice
        /\ \A v \in Hooks : v # w => hook'[v] = hook[v]
    BY <1>1, <1>4, HookStates DEF HookState, Idle
  <2>9. HooksCarry'
    BY <1>1, <2>6, <2>8, SentNotices DEF BillingInv, OrdersAgree, HooksCarry
  <2>10. NoticesAreOffered' /\ PayableIsRecorded'
    BY <1>1, <2>6, <2>8, SentNotices
       DEF BillingInv, OrdersAgree, NoticesAreOffered, PayableIsRecorded
  <2>11. PaidWasReported'
    BY <1>1, <2>6, NoticeParts
       DEF BillingInv, OrdersAgree, PaidWasReported, Reported, IsSuccess
  <2> QED
    BY <2>5, <2>7, <2>9, <2>10, <2>11 DEF BillingInv, OrdersAgree
<1>5. CASE /\ hook' = [hook EXCEPT ![w] = [pc |-> "mark", notice |-> @.notice,
                                         ok |-> FALSE]]
           /\ UNCHANGED <<orders, subs, orgs>>
  <2>1. [pc |-> "mark", notice |-> hook[w].notice, ok |-> FALSE] \in HookState
    BY <1>1 DEF HookState
  <2>2. /\ hook' \in [Hooks -> HookState]
        /\ hook'[w].pc = "mark" /\ hook'[w].notice = hook[w].notice /\ ~hook'[w].ok
        /\ \A v \in Hooks : v # w => hook'[v] = hook[v]
    BY <1>1, <1>5, <2>1, HookStates
  <2>3. TypeOK'
    BY <1>1, <1>2, <1>5, <2>2 DEF BillingInv, TypeOK
  <2>4. CheckoutsOwn' /\ NoticesAreOffered' /\ PaidWasReported'
    BY <1>1, <1>5 DEF BillingInv, OrdersAgree, CheckoutsOwn, Unrecorded, NoticesAreOffered,
                      PaidWasReported, Reported
  <2>5. HooksCarry' /\ PayableIsRecorded'
    BY <1>1, <1>5, <2>2 DEF BillingInv, OrdersAgree, HooksCarry, PayableIsRecorded
  <2> QED
    BY <2>3, <2>4, <2>5 DEF BillingInv, OrdersAgree
<1> QED
  BY <1>4, <1>5 DEF Settle

LEMMA AnswerHookKeeps ==
    ASSUME BillingInv, NEW w \in Hooks, AnswerHook(w)
    PROVE  BillingInv'
<1> DEFINE n == hook[w].notice
<1>1. /\ hook \in [Hooks -> HookState] /\ hook[w].pc = "mark"
      /\ n \in notices /\ n \in Notices /\ hook[w].ok \in BOOLEAN
      /\ hook' = [hook EXCEPT ![w] = Idle]
      /\ unacked' \subseteq unacked
      /\ UNCHANGED <<now, subs, orgs, orders, gateway, notices, checkout, reader,
                     granted, errors, boots, grants>>
  BY SentNotices, HookStates
     DEF BillingInv, TypeOK, OrdersAgree, HooksCarry, AnswerHook, bounds
<1>2. \/ marks' = marks
      \/ marks' = [marks EXCEPT ![n] = @ \cup {FinalStatus(hook[w])}]
  BY DEF AnswerHook
<1>3. /\ FinalStatus(hook[w]) \in {"PROCESSED", "FAILED"}
      /\ FinalStatus(hook[w]) = "PROCESSED" => hook[w].ok
  BY <1>1 DEF FinalStatus
<1>4. TypeOK'
  BY <1>1, <1>2, <1>3 DEF BillingInv, TypeOK, HookState
<1>5. CheckoutsOwn' /\ NoticesAreOffered'
  BY <1>1 DEF BillingInv, OrdersAgree, CheckoutsOwn, Unrecorded, NoticesAreOffered
<1>6. HooksCarry' /\ PayableIsRecorded'
  BY <1>1 DEF BillingInv, OrdersAgree, HooksCarry, PayableIsRecorded, Idle
<1>7. PaidWasReported'
  <2>1. FinalStatus(hook[w]) = "PROCESSED" /\ IsSuccess(n[2]) => orders[n[1]].invoice = "PAID"
    BY <1>1, <1>3 DEF BillingInv, OrdersAgree, HooksCarry
  <2>2. marks \in [Notices -> SUBSET {"PROCESSED", "FAILED"}]
    BY DEF BillingInv, TypeOK
  <2> HIDE DEF n
  <2> QED
    BY <1>1, <1>2, <2>1, <2>2 DEF BillingInv, OrdersAgree, PaidWasReported, Reported
<1> QED
  BY <1>4, <1>5, <1>6, <1>7 DEF BillingInv, OrdersAgree

----------------------------------------------------------------------------
(* The readers, the administrator, the clock and a restart.                *)

LEMMA ReaderKeeps ==
    ASSUME BillingInv, NEW r \in Readers,
           (\E o \in Orgs : MissSubscription(r, o)) \/ ReaderStep(r)
    PROVE  BillingInv'
<1>1. UNCHANGED <<now, orders, gateway, notices, unacked, marks, checkout, hook, granted,
                  errors, boots, grants>>
  BY DEF ReaderStep, MissSubscription, StartTrial, SetTrialTier, database, outside, bounds
<1>2. OrdersAgree'
  BY <1>1, Untouched DEF BillingInv
<1>3. reader' \in [Readers -> ReaderState]
  <2>1. CASE \E o \in Orgs : MissSubscription(r, o)
    BY <2>1 DEF MissSubscription, BillingInv, TypeOK, ReaderState
  <2>2. CASE StartTrial(r)
    BY <2>2, ReaderStates DEF StartTrial, BillingInv, TypeOK
  <2>3. CASE SetTrialTier(r)
    BY <2>3 DEF SetTrialTier, BillingInv, TypeOK, ReaderState
  <2> QED
    BY <2>1, <2>2, <2>3 DEF ReaderStep
<1>4. ActivePlan(Trial) \in [plan: Plans \cup {NoPlan}, start: Times]
  BY BillingAssumption DEF ActivePlan, BillingInv, TypeOK
<1>5. Activated(Trial) \in [tier: Plans, status: {"PROSPECT", "QUALIFIED", "ACTIVE"}]
  BY BillingAssumption DEF Activated
<1>6. subs' \in [Orgs -> [plan: Plans \cup {NoPlan}, start: Times]]
  BY <1>4 DEF BillingInv, TypeOK, ReaderStep, MissSubscription, StartTrial, SetTrialTier,
              database
<1>7. orgs' \in [Orgs -> [tier: Plans, status: {"PROSPECT", "QUALIFIED", "ACTIVE"}]]
  BY <1>5 DEF BillingInv, TypeOK, ReaderStep, MissSubscription, StartTrial, SetTrialTier,
              database
<1> QED
  BY <1>1, <1>2, <1>3, <1>6, <1>7 DEF BillingInv, TypeOK

LEMMA GiveTierKeeps ==
    ASSUME BillingInv, NEW o \in Orgs, NEW p \in Plans, GiveTier(o, p)
    PROVE  BillingInv'
<1>1. OrdersAgree'
  BY Untouched DEF BillingInv, GiveTier, outside, handlers
<1>2. PICK s \in {orgs[o].status, "ACTIVE", "PROSPECT"} :
          orgs' = [orgs EXCEPT ![o] = [tier |-> p, status |-> s]]
  BY DEF GiveTier
<1>3. orgs' \in [Orgs -> [tier: Plans, status: {"PROSPECT", "QUALIFIED", "ACTIVE"}]]
  BY <1>2 DEF BillingInv, TypeOK
<1>4. granted' \in [Orgs -> SUBSET Plans] /\ grants' \in Nat
  BY DEF GiveTier, BillingInv, TypeOK
<1> QED
  BY <1>1, <1>3, <1>4 DEF BillingInv, TypeOK, GiveTier, outside, handlers

LEMMA SeededTypes ==
    ASSUME TypeOK, NEW o \in Orgs
    PROVE  /\ SeededOrg(o) \in [tier: Plans, status: {"PROSPECT", "QUALIFIED", "ACTIVE"}]
           /\ SeededSub(o) \in [plan: Plans \cup {NoPlan}, start: Times]
<1>1. SeededOrg(o) \in [tier: Plans, status: {"PROSPECT", "QUALIFIED", "ACTIVE"}]
  BY BillingAssumption DEF TypeOK, SeededOrg
<1>2. SeededOrg(o).tier \in Plans
  BY <1>1
<1> QED
  BY <1>1, <1>2 DEF TypeOK, SeededSub, ActivePlan

LEMMA RestartKeeps ==
    ASSUME BillingInv, Restart
    PROVE  BillingInv'
<1>1. /\ orgs' \in [Orgs -> [tier: Plans, status: {"PROSPECT", "QUALIFIED", "ACTIVE"}]]
      /\ subs' \in [Orgs -> [plan: Plans \cup {NoPlan}, start: Times]]
  BY SeededTypes DEF BillingInv, Restart
<1>2. /\ checkout' \in [Checkouts -> CheckoutState] /\ hook' \in [Hooks -> HookState]
      /\ reader' \in [Readers -> ReaderState] /\ boots' \in Nat
  BY DEF Restart, BillingInv, TypeOK, CheckoutState, HookState, ReaderState
<1>3. TypeOK'
  BY <1>1, <1>2 DEF BillingInv, TypeOK, Restart, outside
<1>4. /\ \A c \in Checkouts : checkout'[c].pc = "idle"
      /\ \A w \in Hooks : hook'[w].pc = "idle"
  BY DEF Restart, Idle
<1>5. OrdersAgree'
  BY <1>4 DEF BillingInv, OrdersAgree, CheckoutsOwn, HooksCarry, NoticesAreOffered,
              PayableIsRecorded, PaidWasReported, Reported, Restart, outside
<1> QED
  BY <1>3, <1>5 DEF BillingInv

----------------------------------------------------------------------------
(* The invariant.                                                          *)

LEMMA BillingInit ==
    ASSUME Init
    PROVE  BillingInv
<1>1. TypeOK
  BY BillingAssumption
     DEF Init, TypeOK, Times, NoSub, NoOrder, Idle, OrderState, CheckoutState, HookState,
         ReaderState
<1>2. \A id \in Orders : orders[id].invoice = "none" /\ orders[id].tx = "none"
  BY DEF Init, NoOrder
<1>3. /\ \A c \in Checkouts : checkout[c].pc = "idle"
      /\ \A w \in Hooks : hook[w].pc = "idle"
  BY DEF Init, Idle
<1>4. OrdersAgree
  BY <1>2, <1>3 DEF Init, OrdersAgree, CheckoutsOwn, HooksCarry, NoticesAreOffered,
                    PayableIsRecorded, PaidWasReported
<1> QED
  BY <1>1, <1>4 DEF BillingInv

LEMMA BillingStep ==
    ASSUME BillingInv, [Next]_vars
    PROVE  BillingInv'
<1>1. CASE \E c \in Checkouts :
               \/ \E o \in Orgs, p \in Plans, id \in Orders : CreateInvoice(c, o, p, id)
               \/ CheckoutStep(c)
  BY <1>1, CreateInvoiceKeeps, CreateGatewayOrderKeeps, RecordTransactionKeeps,
     AnswerCheckoutKeeps DEF CheckoutStep
<1>2. CASE \E id \in Orders, k \in Kinds : GatewayMoves(id, k)
  BY <1>2, GatewayMovesKeeps
<1>3. CASE \E w \in Hooks : (\E n \in Notices : Receive(w, n)) \/ HookStep(w)
  BY <1>3, ReceiveKeeps, SettleKeeps, AnswerHookKeeps DEF HookStep
<1>4. CASE \E r \in Readers : (\E o \in Orgs : MissSubscription(r, o)) \/ ReaderStep(r)
  BY <1>4, ReaderKeeps
<1>5. CASE \E o \in Orgs, p \in Plans : GiveTier(o, p)
  BY <1>5, GiveTierKeeps
<1>6. CASE Restart
  BY <1>6, RestartKeeps
<1>7. CASE Tick
  <2>1. now' \in Times
    BY <1>7, BillingAssumption DEF Tick, BillingInv, TypeOK, Times
  <2>2. UNCHANGED <<subs, orgs, orders, gateway, notices, unacked, marks, checkout, hook,
                    reader, granted, errors, boots, grants>>
    BY <1>7 DEF Tick, database, outside, handlers, bounds
  <2> QED
    BY <2>1, <2>2, Untouched DEF BillingInv, TypeOK
<1>8. CASE UNCHANGED vars
  <2>1. UNCHANGED <<now, subs, orgs, orders, gateway, notices, unacked, marks, checkout,
                    hook, reader, granted, errors, boots, grants>>
    BY <1>8 DEF vars
  <2> QED
    BY <2>1, Untouched DEF BillingInv, TypeOK
<1> QED
  BY <1>1, <1>2, <1>3, <1>4, <1>5, <1>6, <1>7, <1>8 DEF Next

(* In every reachable state the tables are well typed and agree with the   *)
(* handlers and with what the gateway reported.                            *)
THEOREM BillingCorrect == Spec => []BillingInv
<1>1. Init => BillingInv
  BY BillingInit
<1>2. BillingInv /\ [Next]_vars => BillingInv'
  BY BillingStep
<1> QED
  BY <1>1, <1>2, PTL DEF Spec

(* TypeOK: a transaction is settled exactly when its invoice is paid,      *)
(* whatever statement fails and wherever a handler dies.                   *)
THEOREM BillingTypeCorrect == Spec => []TypeOK
<1>1. BillingInv => TypeOK
  BY DEF BillingInv
<1> QED
  BY <1>1, BillingCorrect, PTL

(* PaidWasReported: what the tables call paid, and what the webhook log    *)
(* calls processed, the gateway has reported.                              *)
THEOREM PaidCorrect == Spec => []PaidWasReported
<1>1. BillingInv => PaidWasReported
  BY DEF BillingInv, OrdersAgree
<1> QED
  BY <1>1, BillingCorrect, PTL

(* PayableIsRecorded: what a customer can pay has a transaction, and no    *)
(* settlement looks for one in vain.                                       *)
THEOREM PayableCorrect == Spec => []PayableIsRecorded
<1>1. BillingInv => PayableIsRecorded
  BY DEF BillingInv, OrdersAgree
<1> QED
  BY <1>1, BillingCorrect, PTL

----------------------------------------------------------------------------
(* Billing implements Entitlement.  The mapping reads the plan in force    *)
(* from tenant_subscriptions, the payments from paid invoices, and what    *)
(* was given from the history.  It needs that an organisation without a    *)
(* subscription still has a tier it was given, since a restart enters it   *)
(* into that tier.                                                         *)

TiersGiven ==
    /\ \A o \in Orgs : InitialTier[o] \in granted[o]
    /\ \A o \in Orgs :
          subs[o].plan = NoPlan => subs[o] = NoSub /\ orgs[o].tier \in granted[o]
    /\ \A r \in Readers : reader[r].pc = "tier" => subs[reader[r].org].plan # NoPlan

LEMMA TiersInit ==
    ASSUME Init
    PROVE  TiersGiven
  BY DEF Init, TiersGiven, NoSub, Idle

LEMMA SeededTier ==
    ASSUME BillingInv, TiersGiven, NEW o \in Orgs
    PROVE  /\ subs[o].plan = NoPlan => /\ SeededSub(o).plan \in granted[o]
                                       /\ SeededSub(o).plan \in Plans
           /\ subs[o].plan # NoPlan => SeededSub(o) = subs[o]
<1>1. CASE subs[o].plan = NoPlan
  <2>1. SeededOrg(o).tier \in granted[o]
    BY <1>1 DEF TiersGiven, SeededOrg
  <2>2. SeededSub(o).plan = SeededOrg(o).tier
    BY <1>1 DEF TiersGiven, SeededSub, ActivePlan
  <2>3. granted[o] \subseteq Plans
    BY DEF BillingInv, TypeOK
  <2> QED
    BY <1>1, <2>1, <2>2, <2>3
<1>2. CASE subs[o].plan # NoPlan
  BY <1>2 DEF SeededSub, NoSub
<1> QED
  BY <1>1, <1>2

LEMMA TiersStep ==
    ASSUME BillingInv, TiersGiven, [Next]_vars
    PROVE  TiersGiven'
<1>1. /\ subs \in [Orgs -> [plan: Plans \cup {NoPlan}, start: Times]]
      /\ orgs \in [Orgs -> [tier: Plans, status: {"PROSPECT", "QUALIFIED", "ACTIVE"}]]
      /\ granted \in [Orgs -> SUBSET Plans] /\ reader \in [Readers -> ReaderState]
      /\ NoPlan \notin Plans /\ Trial \in Plans
  BY BillingAssumption DEF BillingInv, TypeOK
<1>2. CASE UNCHANGED <<subs, orgs, granted, reader>>
  BY <1>2 DEF TiersGiven
<1>3. ASSUME NEW w \in Hooks, Settle(w), ~UNCHANGED <<subs, orgs>>
      PROVE  TiersGiven'
  <2> DEFINE o == orders[hook[w].notice[1]].org
             p == orders[hook[w].notice[1]].plan
  <2>1. /\ subs' = [subs EXCEPT ![o] = ActivePlan(p)]
        /\ orgs' = [orgs EXCEPT ![o] = Activated(p)]
        /\ granted' = granted /\ reader' = reader
        /\ orders[hook[w].notice[1]].tx # "none" /\ hook[w].pc = "settle"
    BY <1>3 DEF Settle
  <2>2. o \in Orgs /\ p \in Plans
    BY <2>1, SentNotices, OrderStates DEF BillingInv, TypeOK
  <2>3. ActivePlan(p).plan = p /\ p # NoPlan
    BY <1>1, <2>2 DEF ActivePlan
  <2> HIDE DEF o, p
  <2>4. \A r \in Readers : reader[r].pc = "tier" => reader[r].org \in Orgs
    BY <1>1, ReaderStates
  <2> QED
    BY <1>1, <2>1, <2>2, <2>3, <2>4 DEF TiersGiven
<1>4. ASSUME NEW r \in Readers, ReaderStep(r)
      PROVE  TiersGiven'
  <2>1. reader[r].org \in Orgs /\ granted' = granted
    BY <1>1, <1>4, ReaderStates DEF ReaderStep, StartTrial, SetTrialTier
  <2>2. ActivePlan(Trial).plan = Trial /\ ActivePlan(Trial).plan # NoPlan
    BY <1>1 DEF ActivePlan
  <2>3. \A s \in Readers : reader[s].pc = "tier" => reader[s].org \in Orgs
    BY <1>1, ReaderStates
  <2>4. CASE StartTrial(r)
    <3>1. reader'[r].org = reader[r].org /\ \A s \in Readers : s # r => reader'[s] = reader[s]
      BY <1>1, <2>4, ReaderStates DEF StartTrial, ReaderState, Idle
    <3> QED
      BY <1>1, <2>1, <2>2, <2>3, <2>4, <3>1 DEF TiersGiven, StartTrial
  <2>5. CASE SetTrialTier(r)
    BY <1>1, <2>1, <2>3, <2>5 DEF TiersGiven, SetTrialTier, Idle
  <2> QED
    BY <1>4, <2>4, <2>5 DEF ReaderStep
<1>5. ASSUME NEW r \in Readers, NEW o \in Orgs, MissSubscription(r, o)
      PROVE  TiersGiven'
  BY <1>1, <1>5 DEF TiersGiven, MissSubscription, database
<1>6. ASSUME NEW o \in Orgs, NEW p \in Plans, GiveTier(o, p)
      PROVE  TiersGiven'
  <2>1. PICK s : orgs' = [orgs EXCEPT ![o] = [tier |-> p, status |-> s]]
    BY <1>6 DEF GiveTier
  <2>2. granted' = [granted EXCEPT ![o] = @ \cup {p}] /\ subs' = subs /\ reader' = reader
    BY <1>6 DEF GiveTier, handlers
  <2> QED
    BY <1>1, <2>1, <2>2 DEF TiersGiven
<1>7. CASE Restart
  <2>1. /\ subs' = [o \in Orgs |-> SeededSub(o)] /\ granted' = granted
        /\ \A r \in Readers : reader'[r].pc = "idle"
    BY <1>7 DEF Restart, Idle
  <2>2. \A o \in Orgs : SeededSub(o).plan # NoPlan
    BY <1>1, SeededTier
  <2> QED
    BY <2>1, <2>2 DEF TiersGiven
<1>8. ASSUME [Next]_vars, ~UNCHANGED <<subs, orgs, granted, reader>>
      PROVE  \/ \E w \in Hooks : Settle(w) /\ ~UNCHANGED <<subs, orgs>>
             \/ \E r \in Readers : ReaderStep(r) \/ \E o \in Orgs : MissSubscription(r, o)
             \/ \E o \in Orgs, p \in Plans : GiveTier(o, p)
             \/ Restart
  BY <1>8
     DEF Next, vars, CheckoutStep, CreateInvoice, CreateGatewayOrder, RecordTransaction,
         AnswerCheckout, GatewayMoves, HookStep, Receive, Settle, AnswerHook, Tick,
         database, handlers
<1> QED
  BY <1>2, <1>3, <1>4, <1>5, <1>6, <1>7, <1>8

(* Steps that leave plans, payments and given tiers alone stutter.         *)
LEMMA Stutters ==
    ASSUME subs' = subs, granted' = granted,
           \A id \in Orders :
              /\ orders'[id].invoice = "PAID" <=> orders[id].invoice = "PAID"
              /\ orders[id].invoice = "PAID" =>
                    orders'[id].org = orders[id].org /\ orders'[id].plan = orders[id].plan
    PROVE  UNCHANGED E!entitlement
<1>1. \A o \in Orgs : PaidPlans(o)' = PaidPlans(o)
  BY DEF PaidPlans
<1> QED
  BY <1>1 DEF E!entitlement

LEMMA PaymentsKept ==
    ASSUME orders' = orders
    PROVE  \A o \in Orgs : PaidPlans(o)' = PaidPlans(o)
  BY DEF PaidPlans

(* A settlement is a purchase.                                             *)
LEMMA SettleImplements ==
    ASSUME BillingInv, NEW w \in Hooks, Settle(w)
    PROVE  [E!Step]_(E!entitlement)
<1> DEFINE id == hook[w].notice[1]
           o == orders[id].org
           p == orders[id].plan
<1>1. /\ orders[id].tx # "none" /\ id \in Orders /\ o \in Orgs /\ p \in Plans
      /\ orders \in [Orders -> OrderState] /\ granted' = granted
      /\ subs \in [Orgs -> [plan: Plans \cup {NoPlan}, start: Times]]
  BY SentNotices, OrderStates DEF BillingInv, TypeOK, OrdersAgree, PayableIsRecorded, Settle
<1>2. CASE /\ orders' = [orders EXCEPT ![id] = Settled(@)]
           /\ subs' = [subs EXCEPT ![o] = ActivePlan(p)]
  <2>1. /\ orders'[id].invoice = "PAID" /\ orders'[id].org = o /\ orders'[id].plan = p
        /\ \A x \in Orders : x # id => orders'[x] = orders[x]
    BY <1>1, <1>2, OrderStates
  <2>2. \A q \in Orgs : PaidPlans(q)' = IF q = o THEN PaidPlans(q) \cup {p} ELSE PaidPlans(q)
    <3> HIDE DEF id, o, p
    <3>1. orders[id].org = o /\ orders[id].plan = p
      BY DEF o, p
    <3> QED
      BY <1>1, <2>1, <3>1 DEF PaidPlans
  <2>3. \A q \in Orgs : subs'[q].plan = IF q = o THEN p ELSE subs[q].plan
    <3> HIDE DEF id, o, p
    <3> QED
      BY <1>1, <1>2 DEF ActivePlan
  <2>4. E!Purchase(o, p)
    <3> HIDE DEF id, o, p
    <3>1. [q \in Orgs |-> PaidPlans(q)]' = [[q \in Orgs |-> PaidPlans(q)] EXCEPT ![o] = @ \cup {p}]
      BY <1>1, <2>2
    <3>2. [q \in Orgs |-> subs[q].plan]' = [[q \in Orgs |-> subs[q].plan] EXCEPT ![o] = p]
      BY <1>1, <2>3
    <3> QED
      BY <1>1, <3>1, <3>2 DEF E!Purchase
  <2>5. o \in Orgs /\ p \in Plans
    BY <1>1
  <2> HIDE DEF id, o, p
  <2> QED
    BY <2>4, <2>5 DEF E!Step, E!Purchase
<1>3. CASE UNCHANGED <<orders, subs>>
  BY <1>1, <1>3, Stutters
<1> QED
  BY <1>2, <1>3 DEF Settle

(* A trial is entered, which needs no other cause.                         *)
LEMMA TrialImplements ==
    ASSUME BillingInv, NEW r \in Readers, StartTrial(r)
    PROVE  [E!Step]_(E!entitlement)
<1> DEFINE o == reader[r].org
<1>1. /\ o \in Orgs /\ orders' = orders /\ granted' = granted
      /\ subs' = [subs EXCEPT ![o] = ActivePlan(Trial)]
      /\ subs \in [Orgs -> [plan: Plans \cup {NoPlan}, start: Times]]
      /\ Trial \in Plans
  BY ReaderStates, BillingAssumption DEF BillingInv, TypeOK, StartTrial
<1>2. \A q \in Orgs : subs'[q].plan = IF q = o THEN Trial ELSE subs[q].plan
  BY <1>1 DEF ActivePlan
<1>3. E!Enter(o, Trial)
  <2> HIDE DEF o
  <2>1. [q \in Orgs |-> subs[q].plan]' = [[q \in Orgs |-> subs[q].plan] EXCEPT ![o] = Trial]
    BY <1>1, <1>2
  <2> QED
    BY <1>1, <2>1, PaymentsKept DEF E!Enter, E!Entitled
<1> QED
  BY <1>1, <1>3 DEF E!Step

LEMMA GiveTierImplements ==
    ASSUME NEW o \in Orgs, NEW p \in Plans, GiveTier(o, p)
    PROVE  [E!Step]_(E!entitlement)
<1>1. E!Give(o, p)
  BY PaymentsKept DEF GiveTier, E!Give
<1> QED
  BY <1>1 DEF E!Step

(* A restart gives nothing new and enters organisations that have no plan  *)
(* into the tier they were given.                                          *)
LEMMA RestartImplements ==
    ASSUME BillingInv, TiersGiven, Restart
    PROVE  [E!Step]_(E!entitlement)
<1> DEFINE nothing == [o \in Orgs |-> {}]
<1>1. /\ orders' = orders /\ granted' = granted
      /\ subs' = [o \in Orgs |-> SeededSub(o)]
      /\ granted \in [Orgs -> SUBSET Plans]
      /\ subs \in [Orgs -> [plan: Plans \cup {NoPlan}, start: Times]]
  BY DEF Restart, BillingInv, TypeOK
<1>2. \A o \in Orgs : IF subs[o].plan = NoPlan
                      THEN subs'[o].plan \in granted[o] /\ subs'[o].plan \in Plans
                      ELSE subs'[o].plan = subs[o].plan
  BY <1>1, SeededTier
<1>3. /\ granted' = [o \in Orgs |-> granted[o] \cup nothing[o]]
      /\ nothing \in [Orgs -> SUBSET Plans]
  BY <1>1
<1>4. [o \in Orgs |-> subs[o].plan]' \in [Orgs -> Plans]
  BY <1>1, <1>2
<1>5. \A o \in Orgs :
         IF [q \in Orgs |-> subs[q].plan][o] = NoPlan
         THEN [q \in Orgs |-> subs[q].plan]'[o] \in granted'[o]
         ELSE [q \in Orgs |-> subs[q].plan]'[o] = [q \in Orgs |-> subs[q].plan][o]
  BY <1>1, <1>2
<1>6. UNCHANGED [o \in Orgs |-> PaidPlans(o)]
  BY <1>1, PaymentsKept
<1>7. E!Reseed(nothing)
  <2> HIDE DEF nothing
  <2> QED
    BY <1>3, <1>4, <1>5, <1>6 DEF E!Reseed
<1> QED
  BY <1>3, <1>7 DEF E!Step

LEMMA StepImplements ==
    ASSUME BillingInv, TiersGiven, [Next]_vars
    PROVE  [E!Step]_(E!entitlement)
<1>1. ASSUME NEW c \in Checkouts, NEW o \in Orgs, NEW p \in Plans, NEW id \in Orders,
             CreateInvoice(c, o, p, id)
      PROVE  [E!Step]_(E!entitlement)
  <2>1. /\ orders[id].invoice = "none" /\ orders'[id].invoice = "PENDING"
        /\ \A x \in Orders : x # id => orders'[x] = orders[x]
        /\ subs' = subs /\ granted' = granted
    BY <1>1 DEF CreateInvoice, NoOrder, BillingInv, TypeOK
  <2> QED
    BY <2>1, Stutters
<1>2. ASSUME NEW c \in Checkouts, RecordTransaction(c)
      PROVE  [E!Step]_(E!entitlement)
  <2>1. /\ subs' = subs /\ granted' = granted
        /\ \A x \in Orders : /\ orders'[x].invoice = orders[x].invoice
                             /\ orders'[x].org = orders[x].org
                             /\ orders'[x].plan = orders[x].plan
    BY <1>2 DEF RecordTransaction, BillingInv, TypeOK, OrderState, NoOrder
  <2> QED
    BY <2>1, Stutters
<1>3. CASE \E r \in Readers : StartTrial(r)
  BY <1>3, TrialImplements
<1>4. CASE \E w \in Hooks : Settle(w)
  BY <1>4, SettleImplements
<1>5. CASE \E o \in Orgs, p \in Plans : GiveTier(o, p)
  BY <1>5, GiveTierImplements
<1>6. CASE Restart
  BY <1>6, RestartImplements
<1>7. CASE UNCHANGED <<orders, subs, granted>>
  BY <1>7, Stutters
<1>8. \/ \E c \in Checkouts, o \in Orgs, p \in Plans, id \in Orders : CreateInvoice(c, o, p, id)
      \/ \E c \in Checkouts : RecordTransaction(c)
      \/ \E r \in Readers : StartTrial(r)
      \/ \E w \in Hooks : Settle(w)
      \/ \E o \in Orgs, p \in Plans : GiveTier(o, p)
      \/ Restart
      \/ UNCHANGED <<orders, subs, granted>>
  BY DEF Next, vars, CheckoutStep, CreateGatewayOrder, AnswerCheckout, GatewayMoves,
         HookStep, Receive, AnswerHook, ReaderStep, MissSubscription, SetTrialTier, Tick,
         database
<1> QED
  BY <1>1, <1>2, <1>3, <1>4, <1>5, <1>6, <1>7, <1>8

(* KeepsPromise: Billing implements Entitlement.  Whatever races, fails or *)
(* is repeated, plans enter into force only by a payment the gateway       *)
(* reported, the trial or a tier given, and payments are never taken back. *)
THEOREM BillingKeepsPromise == Spec => KeepsPromise
<1>1. Init => E!Start
  <2> SUFFICES ASSUME Init PROVE E!Start
    OBVIOUS
  <2>1. \A o \in Orgs : PaidPlans(o) = {}
    BY DEF Init, NoOrder, PaidPlans
  <2>2. [o \in Orgs |-> subs[o].plan] = [o \in Orgs |-> NoPlan]
    BY DEF Init, NoSub
  <2>3. granted \in [Orgs -> SUBSET Plans]
    BY BillingAssumption DEF Init
  <2> QED
    BY <2>1, <2>2, <2>3 DEF E!Start
<1>2. Init => TiersGiven
  BY TiersInit
<1>3. BillingInv /\ TiersGiven /\ [Next]_vars => TiersGiven'
  BY TiersStep
<1>4. BillingInv /\ TiersGiven /\ [Next]_vars => [E!Step]_(E!entitlement)
  BY StepImplements
<1> QED
  BY <1>1, <1>2, <1>3, <1>4, BillingCorrect, PTL DEF Spec, KeepsPromise, E!Promise

(* What Entitlement promises rules out a plan in force without a cause: no *)
(* organisation gets a plan that it neither paid for nor was given.        *)
THEOREM BillingGivesNoFreePlan == Spec => []E!NoFreePlan
<1>1. Init => E!NoFreePlan
  BY DEF Init, NoSub, E!NoFreePlan
<1>2. ASSUME BillingInv, E!NoFreePlan, [E!Step]_(E!entitlement)
      PROVE  E!NoFreePlan'
  <2>1. \A o \in Orgs : subs[o].plan \in PaidPlans(o) \cup granted[o] \cup {Trial, NoPlan}
    BY <1>2 DEF E!NoFreePlan, E!Entitled
  <2>2. SUFFICES \A o \in Orgs :
                    subs'[o].plan \in PaidPlans(o)' \cup granted'[o] \cup {Trial, NoPlan}
    BY DEF E!NoFreePlan, E!Entitled
  <2>3. ASSUME NEW o \in Orgs, NEW p \in Plans, E!Purchase(o, p)
        PROVE  \A q \in Orgs :
                  subs'[q].plan \in PaidPlans(q)' \cup granted'[q] \cup {Trial, NoPlan}
    <3>1. \A q \in Orgs :
             /\ [x \in Orgs |-> PaidPlans(x)]'[q]
                   = IF q = o THEN PaidPlans(q) \cup {p} ELSE PaidPlans(q)
             /\ [x \in Orgs |-> subs[x].plan]'[q] = IF q = o THEN p ELSE subs[q].plan
             /\ granted' = granted
      BY <2>3 DEF E!Purchase
    <3> QED
      BY <2>1, <3>1
  <2>4. ASSUME NEW o \in Orgs, NEW p \in Plans, E!Enter(o, p)
        PROVE  \A q \in Orgs :
                  subs'[q].plan \in PaidPlans(q)' \cup granted'[q] \cup {Trial, NoPlan}
    <3>1. \A q \in Orgs :
             /\ [x \in Orgs |-> PaidPlans(x)]'[q] = PaidPlans(q)
             /\ [x \in Orgs |-> subs[x].plan]'[q] = IF q = o THEN p ELSE subs[q].plan
             /\ granted' = granted /\ p \in PaidPlans(o) \cup granted[o] \cup {Trial}
      BY <2>4 DEF E!Enter, E!Entitled
    <3> QED
      BY <2>1, <3>1
  <2>5. ASSUME NEW o \in Orgs, NEW p \in Plans, E!Give(o, p)
        PROVE  \A q \in Orgs :
                  subs'[q].plan \in PaidPlans(q)' \cup granted'[q] \cup {Trial, NoPlan}
    <3>1. \A q \in Orgs :
             /\ [x \in Orgs |-> PaidPlans(x)]'[q] = PaidPlans(q)
             /\ [x \in Orgs |-> subs[x].plan]'[q] = subs[q].plan
             /\ granted[q] \subseteq granted'[q]
      BY <1>2, <2>5 DEF E!Give, BillingInv, TypeOK
    <3> QED
      BY <2>1, <3>1
  <2>6. ASSUME NEW seed \in [Orgs -> SUBSET Plans], E!Reseed(seed)
        PROVE  \A q \in Orgs :
                  subs'[q].plan \in PaidPlans(q)' \cup granted'[q] \cup {Trial, NoPlan}
    <3>1. \A q \in Orgs :
             /\ [x \in Orgs |-> PaidPlans(x)]'[q] = PaidPlans(q)
             /\ granted[q] \subseteq granted'[q]
             /\ IF subs[q].plan = NoPlan THEN [x \in Orgs |-> subs[x].plan]'[q] \in granted'[q]
                ELSE [x \in Orgs |-> subs[x].plan]'[q] = subs[q].plan
      BY <2>6 DEF E!Reseed
    <3> QED
      BY <2>1, <3>1
  <2>7. CASE UNCHANGED E!entitlement
    <3>1. \A q \in Orgs :
             /\ [x \in Orgs |-> PaidPlans(x)]'[q] = PaidPlans(q)
             /\ [x \in Orgs |-> subs[x].plan]'[q] = subs[q].plan
             /\ granted' = granted
      BY <2>7 DEF E!entitlement
    <3> QED
      BY <2>1, <3>1
  <2> QED
    BY <1>2, <2>3, <2>4, <2>5, <2>6, <2>7 DEF E!Step
<1>3. BillingInv /\ TiersGiven /\ [Next]_vars => [E!Step]_(E!entitlement)
  BY StepImplements
<1>4. Init => TiersGiven
  BY TiersInit
<1>5. BillingInv /\ TiersGiven /\ [Next]_vars => TiersGiven'
  BY TiersStep
<1> QED
  BY <1>1, <1>2, <1>3, <1>4, <1>5, BillingCorrect, PTL DEF Spec
=============================================================================
