---------------------------- MODULE Subscriptions ----------------------------
(***************************************************************************)
(* The subscription of one organization: checkout and the Stripe webhook   *)
(* of apps/api/src/modules/billing/routes.ts over the row of table         *)
(* subscriptions, and the payment gateway as the routes use it.            *)
(*                                                                         *)
(* The gateway delivers an event at any time, any number of times and to   *)
(* several handlers at once: Stripe repeats an event until it is answered  *)
(* with 200, and promises no order.                                        *)
(***************************************************************************)
EXTENDS Naturals, Sequences

CONSTANTS
  Plans,     \* the plans an organization can buy, the free one included
  Free,      \* the plan of a new or cancelled organization
  Refs,      \* gateway subscriptions, one per checkout session
  NoRef,     \* external_ref IS NULL
  Hooks,     \* concurrent webhook handlers
  Charges,   \* statuses the gateway gives a subscription that goes on
  MaxEvents  \* bound: events the gateway emits

ASSUME SubscriptionsAssumption ==
  /\ Free \in Plans
  /\ NoRef \notin Refs
  /\ "active" \in Charges
  /\ Charges \subseteq {"active", "trialing", "past_due", "unpaid"}
  /\ MaxEvents \in Nat

VARIABLES
  kind,      \* the gateway the API was started with
  sub,       \* the subscriptions row
  gateway,   \* each gateway subscription: its plan and how far it has come
  log,       \* events in the order the gateway emitted them
  hook,      \* the event a handler has found the row for, 0 when it is idle
  answered,  \* history: events 1 .. answered were answered, in their order
  orderly    \* history: one handler at a time, and no event out of turn

vars == <<kind, sub, gateway, log, hook, answered, orderly>>

Stages == {"none", "checkout", "canceled"} \union Charges
EventTypes == {"checkout.session.completed",
               "customer.subscription.updated", "customer.subscription.deleted"}
Events == [type : EventTypes, ref : Refs, plan : Plans, status : Charges \union {"canceled"}]
Statuses == {"active", "trialing", "past_due", "cancelled"}

TypeOK ==
  /\ kind \in {"mock", "stripe"}
  /\ sub \in [planSlug : Plans, status : Statuses, externalRef : Refs \union {NoRef}]
  /\ gateway \in [Refs -> [stage : Stages, plan : Plans]]
  /\ log \in Seq(Events) /\ Len(log) <= MaxEvents
  /\ hook \in [Hooks -> 0 .. Len(log)]
  /\ answered \in 0 .. Len(log)
  /\ orderly \in BOOLEAN

Init ==
  /\ kind \in {"mock", "stripe"}
  /\ sub = [planSlug |-> Free, status |-> "active", externalRef |-> NoRef]
  /\ gateway = [r \in Refs |-> [stage |-> "none", plan |-> Free]]
  /\ log = <<>>
  /\ hook = [h \in Hooks |-> 0]
  /\ answered = 0
  /\ orderly = TRUE

-----------------------------------------------------------------------------
(* Mutant: the status is only set when one is given. *)
KeepStatus(plan, ref) == sub' = [sub EXCEPT !.planSlug = plan, !.externalRef = ref]

ApplyPlanChange(plan, ref) ==
  sub' = [planSlug |-> plan, status |-> "active", externalRef |-> ref]

(* Mutant: the plan changes before the payment. *)
ApplyEarly(plan, ref) == ApplyPlanChange(plan, ref)

(* The mock gateway takes the payment at once. *)
AfterCheckout(plan, ref) ==
  \/ kind = "mock" /\ ApplyPlanChange(plan, ref)
  \/ kind = "stripe" /\ UNCHANGED sub

(* POST /billing/checkout. *)
Checkout(ref, plan) ==
  /\ gateway[ref].stage = "none"
  /\ gateway' = [gateway EXCEPT ![ref] =
       [stage |-> IF kind = "mock" THEN "active" ELSE "checkout", plan |-> plan]]
  /\ AfterCheckout(plan, ref)
  /\ UNCHANGED <<kind, log, hook, answered, orderly>>

-----------------------------------------------------------------------------
(* The gateway: the customer pays, charges fail or succeed, the customer   *)
(* cancels in the portal.                                                  *)
Emit(type, ref, stage) ==
  /\ kind = "stripe"
  /\ Len(log) < MaxEvents
  /\ gateway' = [gateway EXCEPT ![ref].stage = stage]
  /\ log' = Append(log, [type |-> type, ref |-> ref,
                         plan |-> gateway[ref].plan, status |-> stage])
  /\ UNCHANGED <<kind, sub, hook, answered, orderly>>

Pay(ref) ==
  /\ gateway[ref].stage = "checkout"
  /\ Emit("checkout.session.completed", ref, "active")

Charge(ref, status) ==
  /\ gateway[ref].stage \in Charges \ {status}
  /\ Emit("customer.subscription.updated", ref, status)

Cancel(ref) ==
  /\ gateway[ref].stage \in Charges
  /\ Emit("customer.subscription.deleted", ref, "canceled")

-----------------------------------------------------------------------------
(* POST /billing/webhooks/stripe. *)

StatusOf(event) ==
  IF \/ event.type = "customer.subscription.deleted"
     \/ event.status = "canceled"
  THEN "cancelled"
  ELSE IF event.status \in {"past_due", "trialing"} THEN event.status
  ELSE "active"

(* An event that is in turn: the next one, or the last one once more. *)
InTurn(h, i) ==
  /\ i \in {answered, answered + 1}
  /\ \A g \in Hooks \ {h} : hook[g] = 0

Answer(i) == answered' = IF i = answered + 1 THEN i ELSE answered

(* Mutant: the row is taken for the organization's, whatever its reference. *)
FindsAny(event) == sub.externalRef # NoRef

Finds(event) == sub.externalRef = event.ref

(* A completed checkout applies its plan, one UPDATE by organization. *)
Complete(h, i) ==
  /\ hook[h] = 0
  /\ log[i].type = "checkout.session.completed"
  /\ ApplyPlanChange(log[i].plan, log[i].ref)
  /\ orderly' = (orderly /\ InTurn(h, i))
  /\ Answer(i)
  /\ UNCHANGED <<kind, gateway, log, hook>>

(* Any other event looks for the row with its reference ... *)
FindSubscription(h, i) ==
  /\ hook[h] = 0
  /\ log[i].type # "checkout.session.completed"
  /\ orderly' = (orderly /\ InTurn(h, i))
  /\ \/ /\ Finds(log[i])
        /\ hook' = [hook EXCEPT ![h] = i]
        /\ UNCHANGED answered
     \/ /\ ~Finds(log[i])
        /\ Answer(i)
        /\ UNCHANGED hook
  /\ UNCHANGED <<kind, sub, gateway, log>>

WithStatus(status) ==
  [sub EXCEPT !.status = status,
              !.planSlug = IF status = "cancelled" THEN Free ELSE sub.planSlug]

(* ... and updates it by its id, whatever reference it has by now. *)
UpdateSubscription(h) ==
  /\ hook[h] # 0
  /\ sub' = WithStatus(StatusOf(log[hook[h]]))
  /\ hook' = [hook EXCEPT ![h] = 0]
  /\ Answer(hook[h])
  /\ UNCHANGED <<kind, gateway, log, orderly>>

(* The handler fails between its statements; the gateway will repeat. *)
FailHook(h) ==
  /\ hook[h] # 0
  /\ hook' = [hook EXCEPT ![h] = 0]
  /\ UNCHANGED <<kind, sub, gateway, log, answered, orderly>>

Webhook(h) ==
  \/ \E i \in 1 .. Len(log) : Complete(h, i) \/ FindSubscription(h, i)
  \/ UpdateSubscription(h)

Gateway(ref) ==
  \/ Pay(ref)
  \/ \E status \in Charges : Charge(ref, status)
  \/ Cancel(ref)

Next ==
  \/ \E ref \in Refs, plan \in Plans : Checkout(ref, plan)
  \/ \E ref \in Refs : Gateway(ref)
  \/ \E h \in Hooks : Webhook(h) \/ FailHook(h)

Spec == Init /\ [][Next]_vars

-----------------------------------------------------------------------------
(* Whatever events are repeated, reordered or handled side by side, an     *)
(* organization never has a plan that it has not paid for at some time,    *)
(* and the row names the gateway subscription that paid.                   *)
PlanWasPaid ==
  sub.planSlug # Free =>
    /\ sub.externalRef # NoRef
    /\ gateway[sub.externalRef].stage \notin {"none", "checkout"}
    /\ gateway[sub.externalRef].plan = sub.planSlug

(* A row that says cancelled has lost its plan, even when a cancellation   *)
(* and a new checkout are handled side by side.                            *)
CancelledIsFree == sub.status = "cancelled" => sub.planSlug = Free

Completions == {i \in 1 .. Len(log) : log[i].type = "checkout.session.completed"}

(* Once every event is answered, and as long as they were delivered one    *)
(* after the other in their order (repetitions of the last one and         *)
(* handlers that fail included), the row says of the subscription bought   *)
(* last what the gateway says of it, and earlier ones do not disturb it.   *)
FollowsGateway ==
  kind = "stripe" /\ orderly /\ answered = Len(log) /\ (\A h \in Hooks : hook[h] = 0) =>
    IF Completions = {}
    THEN sub = [planSlug |-> Free, status |-> "active", externalRef |-> NoRef]
    ELSE \E i \in Completions :
           LET ref == log[i].ref
               stage == gateway[ref].stage IN
           /\ \A j \in Completions : j <= i
           /\ sub.externalRef = ref
           /\ sub.planSlug = IF stage = "canceled" THEN Free ELSE gateway[ref].plan
           /\ sub.status = "cancelled" <=> stage = "canceled"
           /\ sub.status = "past_due" <=> stage = "past_due"
=============================================================================
