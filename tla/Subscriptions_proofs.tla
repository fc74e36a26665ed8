------------------------ MODULE Subscriptions_proofs ------------------------
(***************************************************************************)
(* The safety of the subscription row, for any number of checkouts, events *)
(* and handlers.  Every event in the log is of a subscription that has     *)
(* been paid for, and stays so: that is why no order of delivery can hand  *)
(* out a plan that nobody bought.  In order, each event moves the row to   *)
(* what the gateway said when it was logged.                               *)
(***************************************************************************)
EXTENDS Subscriptions, SequenceTheorems, TLAPS

Paid(ref) == gateway[ref].stage \notin {"none", "checkout"}

EventsArePaid ==
  \A i \in 1 .. Len(log) :
    Paid(log[i].ref) /\ log[i].plan = gateway[log[i].ref].plan

IInv ==
  /\ TypeOK
  /\ EventsArePaid
  /\ PlanWasPaid
  /\ CancelledIsFree

LEMMA StatusType ==
  ASSUME NEW event \in Events
  PROVE  StatusOf(event) \in Statuses
BY SubscriptionsAssumption DEF Events, StatusOf, Statuses, EventTypes

LEMMA InitInv == Init => IInv
<1> SUFFICES ASSUME Init PROVE IInv
  OBVIOUS
<1>1. TypeOK
  <2>1. log \in Seq(Events) /\ Len(log) = 0
    BY DEF Init
  <2>2. gateway \in [Refs -> [stage : Stages, plan : Plans]]
    BY SubscriptionsAssumption DEF Init, Stages
  <2>3. sub \in [planSlug : Plans, status : Statuses, externalRef : Refs \union {NoRef}]
    BY SubscriptionsAssumption DEF Init, Statuses
  <2> QED BY <2>1, <2>2, <2>3, SubscriptionsAssumption DEF Init, TypeOK
<1>2. EventsArePaid
  <2>1. 1 .. Len(log) = {}
    BY DEF Init
  <2> QED BY <2>1 DEF EventsArePaid
<1>3. PlanWasPaid /\ CancelledIsFree
  BY DEF Init, PlanWasPaid, CancelledIsFree
<1> QED BY <1>1, <1>2, <1>3 DEF IInv

LEMMA CheckoutInv ==
  ASSUME IInv, NEW ref \in Refs, NEW plan \in Plans, Checkout(ref, plan)
  PROVE  IInv'
<1> USE DEF IInv, Checkout
<1>1. /\ gateway'[ref].stage \in {"active", "checkout"}
      /\ gateway'[ref].plan = plan
      /\ \A r \in Refs \ {ref} : gateway'[r] = gateway[r]
  BY DEF TypeOK
<1>2. CASE kind = "mock" /\ ApplyPlanChange(plan, ref)
  <2>1. TypeOK'
    BY <1>2, SubscriptionsAssumption DEF TypeOK, ApplyPlanChange, Statuses, Stages
  <2>2. EventsArePaid'
    BY <1>1 DEF TypeOK, EventsArePaid, Paid, Events
  <2>3. PlanWasPaid' /\ CancelledIsFree'
    BY <1>1, <1>2, SubscriptionsAssumption
       DEF TypeOK, ApplyPlanChange, PlanWasPaid, CancelledIsFree
  <2> QED BY <2>1, <2>2, <2>3
<1>3. CASE kind = "stripe" /\ UNCHANGED sub
  <2>1. TypeOK'
    BY <1>3, SubscriptionsAssumption DEF TypeOK, Stages
  <2>2. EventsArePaid'
    BY <1>1 DEF TypeOK, EventsArePaid, Paid, Events
  <2>3. PlanWasPaid' /\ CancelledIsFree'
    BY <1>1, <1>3 DEF TypeOK, PlanWasPaid, CancelledIsFree
  <2> QED BY <2>1, <2>2, <2>3
<1> QED BY <1>2, <1>3 DEF AfterCheckout

(* An event of a subscription that has a checkout and now is at stage. *)
LEMMA EmitInv ==
  ASSUME IInv, NEW type \in EventTypes, NEW ref \in Refs,
         NEW stage \in Charges \union {"canceled"},
         gateway[ref].stage # "none", Emit(type, ref, stage)
  PROVE  IInv'
<1> USE DEF IInv, Emit
<1> DEFINE e == [type |-> type, ref |-> ref, plan |-> gateway[ref].plan, status |-> stage]
<1>1. e \in Events /\ log' = Append(log, e)
  BY DEF Events, TypeOK
<1>2. /\ log' \in Seq(Events) /\ Len(log') = Len(log) + 1 /\ Len(log) \in Nat
      /\ \A i \in 1 .. Len(log) : log'[i] = log[i] /\ log[i] \in Events
      /\ log'[Len(log) + 1] = e
  BY <1>1, AppendProperties, LenProperties, ElementOfSeq DEF TypeOK
<1>3. /\ gateway' \in [Refs -> [stage : Stages, plan : Plans]]
      /\ gateway'[ref].stage = stage /\ gateway'[ref].plan = gateway[ref].plan
      /\ \A r \in Refs \ {ref} : gateway'[r] = gateway[r]
  BY DEF TypeOK, Stages
<1>4. stage \notin {"none", "checkout"}
  BY SubscriptionsAssumption
<1>5. TypeOK'
  <2>1. hook' \in [Hooks -> 0 .. Len(log')] /\ answered' \in 0 .. Len(log')
    BY <1>2 DEF TypeOK
  <2>2. Len(log') <= MaxEvents
    BY <1>2, SubscriptionsAssumption
  <2> QED BY <1>2, <1>3, <2>1, <2>2 DEF TypeOK
<1>6. EventsArePaid'
  <2> SUFFICES ASSUME NEW i \in 1 .. Len(log')
               PROVE  /\ gateway'[log'[i].ref].stage \notin {"none", "checkout"}
                      /\ log'[i].plan = gateway'[log'[i].ref].plan
    BY DEF EventsArePaid, Paid
  <2>1. CASE i = Len(log) + 1
    BY <1>2, <1>3, <1>4, <2>1
  <2>2. CASE i \in 1 .. Len(log)
    <3>1. log'[i] = log[i] /\ log[i].ref \in Refs
      BY <1>2, <2>2 DEF Events
    <3>2. /\ gateway[log[i].ref].stage \notin {"none", "checkout"}
          /\ log[i].plan = gateway[log[i].ref].plan
      BY <2>2 DEF EventsArePaid, Paid
    <3> QED BY <1>3, <1>4, <3>1, <3>2
  <2> QED BY <1>2, <2>1, <2>2
<1>7. PlanWasPaid' /\ CancelledIsFree'
  BY <1>3, <1>4 DEF TypeOK, PlanWasPaid, CancelledIsFree
<1> QED BY <1>5, <1>6, <1>7

LEMMA GatewayInv ==
  ASSUME IInv, NEW ref \in Refs, Gateway(ref)
  PROVE  IInv'
<1> USE DEF EventTypes
<1>1. CASE Pay(ref)
  BY <1>1, EmitInv, SubscriptionsAssumption DEF Pay
<1>2. CASE \E status \in Charges : Charge(ref, status)
  <2>1. PICK status \in Charges : Charge(ref, status)
    BY <1>2
  <2>2. gateway[ref].stage # "none"
    BY <2>1, SubscriptionsAssumption DEF Charge
  <2> QED BY <2>1, <2>2, EmitInv DEF Charge
<1>3. CASE Cancel(ref)
  <2>1. gateway[ref].stage # "none"
    BY <1>3, SubscriptionsAssumption DEF Cancel
  <2> QED BY <1>3, <2>1, EmitInv DEF Cancel
<1> QED BY <1>1, <1>2, <1>3 DEF Gateway

LEMMA WebhookInv ==
  ASSUME IInv, NEW h \in Hooks, Webhook(h) \/ FailHook(h)
  PROVE  IInv'
<1> USE DEF IInv
<1>1. Len(log) \in Nat /\ \A i \in 1 .. Len(log) : log[i] \in Events
  BY LenProperties, ElementOfSeq DEF TypeOK
<1>2. CASE \E i \in 1 .. Len(log) : Complete(h, i)
  <2>1. PICK i \in 1 .. Len(log) : Complete(h, i)
    BY <1>2
  <2>2. /\ log[i].plan \in Plans /\ log[i].ref \in Refs
        /\ Paid(log[i].ref) /\ log[i].plan = gateway[log[i].ref].plan
    BY <1>1 DEF Events, EventsArePaid
  <2>3. TypeOK'
    BY <1>1, <2>1, <2>2 DEF TypeOK, Complete, ApplyPlanChange, Answer, InTurn, Statuses
  <2>4. EventsArePaid'
    BY <2>1 DEF Complete, EventsArePaid, Paid
  <2>5. PlanWasPaid' /\ CancelledIsFree'
    BY <2>1, <2>2, SubscriptionsAssumption
       DEF Complete, ApplyPlanChange, PlanWasPaid, CancelledIsFree, Paid
  <2> QED BY <2>3, <2>4, <2>5
<1>3. CASE \E i \in 1 .. Len(log) : FindSubscription(h, i)
  <2>1. PICK i \in 1 .. Len(log) : FindSubscription(h, i)
    BY <1>3
  <2>2. TypeOK'
    BY <1>1, <2>1 DEF TypeOK, FindSubscription, Answer, InTurn
  <2>3. EventsArePaid' /\ PlanWasPaid' /\ CancelledIsFree'
    BY <2>1 DEF FindSubscription, EventsArePaid, Paid, PlanWasPaid, CancelledIsFree
  <2> QED BY <2>2, <2>3
<1>4. CASE UpdateSubscription(h)
  <2>1. hook[h] \in 1 .. Len(log)
    BY <1>1, <1>4 DEF UpdateSubscription, TypeOK
  <2>2. PICK status \in Statuses : status = StatusOf(log[hook[h]])
    BY <1>1, <2>1, StatusType
  <2>3. /\ sub' = [planSlug |-> IF status = "cancelled" THEN Free ELSE sub.planSlug,
                   status |-> status, externalRef |-> sub.externalRef]
        /\ hook' = [hook EXCEPT ![h] = 0]
        /\ answered' = IF hook[h] = answered + 1 THEN hook[h] ELSE answered
        /\ UNCHANGED <<kind, gateway, log, orderly>>
    BY <1>4, <2>2 DEF UpdateSubscription, WithStatus, Answer, TypeOK
  <2>4. TypeOK'
    BY <1>1, <2>1, <2>2, <2>3, SubscriptionsAssumption DEF TypeOK
  <2>5. EventsArePaid'
    BY <2>3 DEF EventsArePaid, Paid
  <2>6. PlanWasPaid' /\ CancelledIsFree'
    BY <2>3 DEF TypeOK, PlanWasPaid, CancelledIsFree
  <2> QED BY <2>4, <2>5, <2>6
<1>5. CASE FailHook(h)
  BY <1>1, <1>5 DEF FailHook, TypeOK, EventsArePaid, Paid, PlanWasPaid, CancelledIsFree
<1> QED BY <1>2, <1>3, <1>4, <1>5 DEF Webhook

LEMMA StepInv == IInv /\ [Next]_vars => IInv'
<1> SUFFICES ASSUME IInv, [Next]_vars PROVE IInv'
  OBVIOUS
<1>1. CASE UNCHANGED vars
  BY <1>1 DEF IInv, vars, TypeOK, EventsArePaid, Paid, PlanWasPaid, CancelledIsFree
<1>2. CASE Next
  BY <1>2, CheckoutInv, GatewayInv, WebhookInv DEF Next
<1> QED BY <1>1, <1>2

LEMMA Invariance == Spec => []IInv
BY InitInv, StepInv, PTL DEF Spec

(* No order, repetition or overlap of webhooks gives an organization a     *)
(* plan that was not paid for.                                             *)
THEOREM PaidPlans == Spec => []PlanWasPaid
BY Invariance, PTL DEF IInv

(* A cancelled row never keeps a paid plan.                                *)
THEOREM CancelledRows == Spec => []CancelledIsFree
BY Invariance, PTL DEF IInv

-----------------------------------------------------------------------------
(* What the row follows.  Every subscription's first event is its          *)
(* completed checkout and its last is what the gateway says of it now; a   *)
(* cancellation is always the last.                                        *)
Final(j) == \A k \in 1 .. Len(log) : log[k].ref = log[j].ref => k <= j

LogInv ==
  /\ \A i, j \in 1 .. Len(log) :
       i \in Completions /\ log[i].ref = log[j].ref => i <= j
  /\ \A j \in 1 .. Len(log) : \E i \in Completions : log[i].ref = log[j].ref
  /\ \A j \in 1 .. Len(log) : Final(j) => gateway[log[j].ref].stage = log[j].status
  /\ \A j \in 1 .. Len(log) :
       /\ j \in Completions => log[j].status = "active"
       /\ log[j].type = "customer.subscription.deleted" <=> log[j].status = "canceled"
       /\ log[j].status = "canceled" => Final(j)
  /\ kind = "stripe" => \A r \in Refs : Paid(r) => \E j \in 1 .. Len(log) : log[j].ref = r

NewRow == [planSlug |-> Free, status |-> "active", externalRef |-> NoRef]

(* The row of a subscription after the checkout it was bought with and the *)
(* last event that was said of it.                                         *)
RowAfter(bought, said) ==
  [planSlug |-> IF StatusOf(said) = "cancelled" THEN Free ELSE bought.plan,
   status |-> StatusOf(said), externalRef |-> bought.ref]

(* Among the first n events: the last checkout, and the last event of it.  *)
Bought(i, n) == i <= n /\ \A k \in Completions : k <= n => k <= i

LastSaid(i, j, n) ==
  log[j].ref = log[i].ref /\ \A k \in 1 .. n : log[k].ref = log[i].ref => k <= j

(* As long as the delivery is orderly, the row says what the events        *)
(* answered so far say, and the one handler at work has the event in turn  *)
(* and the row of that event's subscription.                               *)
RowInv ==
  IF \E i \in Completions : i <= answered
  THEN \E i \in Completions, j \in 1 .. answered :
         Bought(i, answered) /\ LastSaid(i, j, answered) /\ sub = RowAfter(log[i], log[j])
  ELSE sub = NewRow

HookInv ==
  \A h \in Hooks : hook[h] # 0 =>
    /\ InTurn(h, hook[h])
    /\ hook[h] \notin Completions
    /\ sub.externalRef = log[hook[h]].ref

OrderlyInv == kind = "stripe" /\ orderly => RowInv /\ HookInv

FollowInv == IInv /\ LogInv /\ OrderlyInv

LEMMA LogTypes ==
  ASSUME IInv
  PROVE  /\ Len(log) \in Nat
         /\ \A i \in 1 .. Len(log) : log[i] \in Events
         /\ answered \in 0 .. Len(log)
         /\ \A h \in Hooks : hook[h] \in 0 .. Len(log)
         /\ Completions \subseteq 1 .. Len(log)
BY LenProperties, ElementOfSeq DEF IInv, TypeOK, Completions

LEMMA InitFollows == Init => FollowInv
<1> SUFFICES ASSUME Init PROVE FollowInv
  OBVIOUS
<1>1. 1 .. Len(log) = {} /\ Completions = {}
  BY DEF Init, Completions
<1>2. LogInv
  BY <1>1 DEF LogInv, Init, Paid
<1>3. RowInv /\ HookInv
  BY <1>1 DEF RowInv, HookInv, NewRow, Init
<1> QED BY <1>2, <1>3, InitInv DEF FollowInv, OrderlyInv

(* A checkout is of a subscription that no event is of.                    *)
LEMMA CheckoutFollows ==
  ASSUME FollowInv, NEW ref \in Refs, NEW plan \in Plans, Checkout(ref, plan)
  PROVE  LogInv' /\ OrderlyInv'
<1> USE LogTypes DEF FollowInv
<1>1. /\ gateway'[ref].stage = IF kind = "mock" THEN "active" ELSE "checkout"
      /\ \A r \in Refs \ {ref} : gateway'[r] = gateway[r]
      /\ UNCHANGED <<kind, log, hook, answered, orderly>>
      /\ kind = "stripe" => sub' = sub
  BY DEF Checkout, AfterCheckout, IInv, TypeOK
<1>2. \A j \in 1 .. Len(log) : log[j].ref \in Refs \ {ref}
  BY DEF IInv, EventsArePaid, Paid, Checkout, Events
<1>3. Completions' = Completions /\ \A j : Final(j)' <=> Final(j)
  BY <1>1 DEF Completions, Final
<1>4. LogInv'
  <2>1. \A j \in 1 .. Len(log) : gateway'[log[j].ref] = gateway[log[j].ref]
    BY <1>1, <1>2
  <2>2. ASSUME kind = "stripe", NEW r \in Refs, Paid(r)' PROVE Paid(r)
    BY <1>1, <2>2 DEF Paid
  <2>3. LogInv
    OBVIOUS
  <2>4. \A j \in 1 .. Len(log) : Final(j)' => gateway'[log[j].ref].stage = log[j].status
    BY <1>3, <2>1, <2>3 DEF LogInv
  <2>5. kind = "stripe" => \A r \in Refs : Paid(r)' => \E j \in 1 .. Len(log) : log[j].ref = r
    BY <2>2, <2>3 DEF LogInv
  <2>6. \A j \in 1 .. Len(log) : log[j].status = "canceled" => Final(j)'
    BY <1>3, <2>3 DEF LogInv
  <2> HIDE DEF FollowInv, Final, Paid, Completions
  <2> QED BY <1>1, <1>3, <2>3, <2>4, <2>5, <2>6 DEF LogInv
<1>5. OrderlyInv'
  BY <1>1, <1>3
     DEF OrderlyInv, RowInv, HookInv, Bought, LastSaid, InTurn, RowAfter, StatusOf, NewRow
<1> QED BY <1>4, <1>5

(* An event is of a subscription whose checkout it completes, or whose     *)
(* checkout has been completed and which has not been cancelled.           *)
LEMMA EmitFollows ==
  ASSUME FollowInv, NEW type \in EventTypes, NEW ref \in Refs,
         NEW stage \in Charges \union {"canceled"}, Emit(type, ref, stage),
         \/ /\ type = "checkout.session.completed" /\ stage = "active"
            /\ gateway[ref].stage = "checkout"
         \/ /\ type # "checkout.session.completed"
            /\ gateway[ref].stage \in Charges
            /\ type = "customer.subscription.deleted" <=> stage = "canceled"
  PROVE  LogInv' /\ OrderlyInv'
<1> DEFINE n == Len(log) + 1
           e == [type |-> type, ref |-> ref, plan |-> gateway[ref].plan, status |-> stage]
<1>1. /\ kind = "stripe" /\ Len(log) \in Nat
      /\ UNCHANGED <<kind, sub, hook, answered, orderly>>
      /\ \A i \in 1 .. Len(log) : log[i] \in Events /\ i < n
  BY LogTypes DEF FollowInv, Emit
<1>2. /\ 1 .. Len(log') = (1 .. Len(log)) \union {n}
      /\ \A i \in 1 .. Len(log) : log'[i] = log[i]
      /\ log'[n] = e
  <2>1. e \in Events /\ log' = Append(log, e) /\ log \in Seq(Events)
    BY DEF Emit, Events, FollowInv, IInv, TypeOK
  <2> HIDE DEF e
  <2>2. Len(log') = n /\ \A i \in 1 .. Len(log) : log'[i] = log[i]
    BY <2>1, AppendProperties
  <2>3. log'[n] = e
    BY <2>1, AppendProperties
  <2> QED BY <1>1, <2>2, <2>3
<1>3. /\ gateway'[ref].stage = stage
      /\ \A r \in Refs \ {ref} : gateway'[r] = gateway[r]
  BY DEF Emit, FollowInv, IInv, TypeOK
<1>4. Completions' = Completions \union
        (IF type = "checkout.session.completed" THEN {n} ELSE {})
  BY <1>2 DEF Completions
<1>5. /\ Completions \subseteq 1 .. Len(log)
      /\ answered \in 0 .. Len(log) /\ n \notin 1 .. Len(log)
      /\ \A h \in Hooks : hook[h] \in 0 .. Len(log)
  BY LogTypes DEF FollowInv
<1>6. gateway[ref].stage = "checkout" => \A j \in 1 .. Len(log) : log[j].ref # ref
  BY DEF FollowInv, IInv, EventsArePaid, Paid
<1>7. gateway[ref].stage \in Charges => \E i \in Completions : log[i].ref = ref
  <2>1. gateway[ref].stage \in Charges => Paid(ref)
    BY SubscriptionsAssumption DEF Paid
  <2> QED BY <1>1, <2>1 DEF FollowInv, LogInv
<1>8. Final(n)' /\ \A j \in 1 .. Len(log) : Final(j)' <=> Final(j) /\ log[j].ref # ref
  <2>1. Final(n)'
    BY <1>1, <1>2 DEF Final
  <2>2. ASSUME NEW j \in 1 .. Len(log)
        PROVE  Final(j)' <=> Final(j) /\ log[j].ref # ref
    <3>1. ASSUME Final(j)' PROVE Final(j) /\ log[j].ref # ref
      <4>1. Final(j)
        BY <1>2, <3>1 DEF Final
      <4>2. log'[n].ref = ref /\ ~(n <= j)
        BY <1>1, <1>2
      <4>3. log'[n].ref = log'[j].ref => n <= j
        BY <1>2, <3>1 DEF Final
      <4> QED BY <1>2, <4>1, <4>2, <4>3
    <3>2. ASSUME Final(j), log[j].ref # ref PROVE Final(j)'
      BY <1>2, <3>2 DEF Final
    <3> QED BY <3>1, <3>2
  <2> QED BY <2>1, <2>2
<1>9. LogInv'
  <2>1. \A i, j \in 1 .. Len(log') :
          i \in Completions' /\ log'[i].ref = log'[j].ref => i <= j
    <3> SUFFICES ASSUME NEW i \in 1 .. Len(log'), NEW j \in 1 .. Len(log'),
                        i \in Completions', log'[i].ref = log'[j].ref
                 PROVE  i <= j
      OBVIOUS
    <3>1. CASE j = n
      BY <1>1, <1>2, <3>1
    <3>2. CASE j \in 1 .. Len(log) /\ i = n
      <4>1. type = "checkout.session.completed"
        BY <1>4, <1>5, <3>2
      <4>2. log[j].ref # ref
        BY <1>1, <1>6, <3>2, <4>1
      <4> QED BY <1>2, <3>2, <4>2
    <3>3. CASE j \in 1 .. Len(log) /\ i \in 1 .. Len(log)
      BY <1>2, <1>4, <1>5, <3>3 DEF FollowInv, LogInv
    <3> QED BY <1>2, <3>1, <3>2, <3>3
  <2>2. ASSUME NEW j \in 1 .. Len(log') PROVE \E i \in Completions' : log'[i].ref = log'[j].ref
    <3>1. CASE j = n
      BY <1>2, <1>4, <1>5, <1>7, <3>1
    <3>2. CASE j \in 1 .. Len(log)
      <4>1. PICK i \in Completions : log[i].ref = log[j].ref
        BY <3>2 DEF FollowInv, LogInv
      <4> QED BY <1>2, <1>4, <1>5, <3>2, <4>1
    <3> QED BY <1>2, <3>1, <3>2
  <2>3. ASSUME NEW j \in 1 .. Len(log'), Final(j)'
        PROVE  gateway'[log'[j].ref].stage = log'[j].status
    <3>1. CASE j = n
      BY <1>2, <1>3, <3>1
    <3>2. CASE j \in 1 .. Len(log)
      <4>1. Final(j) /\ log[j].ref \in Refs \ {ref}
        BY <1>1, <1>8, <2>3, <3>2 DEF Events
      <4>2. gateway[log[j].ref].stage = log[j].status
        BY <3>2, <4>1 DEF FollowInv, LogInv
      <4> QED BY <1>2, <1>3, <3>2, <4>1, <4>2
    <3> QED BY <1>2, <3>1, <3>2
  <2>4. ASSUME NEW j \in 1 .. Len(log')
        PROVE  /\ j \in Completions' => log'[j].status = "active"
               /\ log'[j].type = "customer.subscription.deleted" <=> log'[j].status = "canceled"
               /\ log'[j].status = "canceled" => Final(j)'
    <3>1. CASE j = n
      <4>1. /\ type = "checkout.session.completed" => stage = "active"
            /\ type = "customer.subscription.deleted" <=> stage = "canceled"
        OBVIOUS
      <4>2. log'[j].type = type /\ log'[j].status = stage
        BY <1>2, <3>1
      <4>3. j \in Completions' => type = "checkout.session.completed"
        BY <1>4, <1>5, <3>1
      <4>4. Final(j)'
        BY <1>1, <1>2, <3>1 DEF Final
      <4> QED BY <4>1, <4>2, <4>3, <4>4
    <3>2. CASE j \in 1 .. Len(log)
      <4>1. /\ j \in Completions => log[j].status = "active"
            /\ log[j].type = "customer.subscription.deleted" <=> log[j].status = "canceled"
            /\ log[j].status = "canceled" => Final(j) /\ gateway[log[j].ref].stage = "canceled"
        BY <3>2 DEF FollowInv, LogInv
      <4>2. log[j].status = "canceled" => log[j].ref # ref
        BY <4>1, SubscriptionsAssumption
      <4>3. j \in Completions' => j \in Completions
        BY <1>4, <1>5, <3>2
      <4> QED BY <1>2, <1>8, <3>2, <4>1, <4>2, <4>3
    <3> QED BY <1>2, <3>1, <3>2
  <2>5. ASSUME NEW r \in Refs, Paid(r)' PROVE \E j \in 1 .. Len(log') : log'[j].ref = r
    <3>1. CASE r = ref
      BY <1>2, <3>1
    <3>2. CASE r # ref
      <4>1. Paid(r)
        BY <1>3, <2>5, <3>2 DEF Paid
      <4>2. PICK j \in 1 .. Len(log) : log[j].ref = r
        BY <1>1, <4>1 DEF FollowInv, LogInv
      <4> QED BY <1>2, <4>2
    <3> QED BY <3>1, <3>2
  <2> QED BY <2>1, <2>2, <2>3, <2>4, <2>5 DEF LogInv
<1>10. ASSUME orderly PROVE RowInv'
  <2>1. RowInv
    BY <1>1, <1>10 DEF FollowInv, OrderlyInv
  <2>2. \A k \in 1 .. answered : k \in Completions' <=> k \in Completions
    BY <1>1, <1>4, <1>5
  <2>3. \A k \in Completions' : k <= answered => k \in 1 .. answered
    BY <1>1, <1>4, <1>5
  <2>4. CASE \E i \in Completions : i <= answered
    <3>1. PICK i \in Completions, j \in 1 .. answered :
            Bought(i, answered) /\ LastSaid(i, j, answered) /\ sub = RowAfter(log[i], log[j])
      BY <2>1, <2>4 DEF RowInv
    <3>2. i \in Completions' /\ i \in 1 .. answered /\ i <= answered
      BY <1>4, <1>5, <3>1 DEF Bought
    <3>3. \A k \in 1 .. answered : log'[k] = log[k]
      BY <1>1, <1>2, <1>5
    <3>4. Bought(i, answered)'
      BY <1>1, <2>2, <2>3, <3>1, <3>2 DEF Bought
    <3>5. LastSaid(i, j, answered)'
      BY <1>1, <3>1, <3>2, <3>3 DEF LastSaid
    <3>6. (sub = RowAfter(log[i], log[j]))'
      BY <1>1, <3>1, <3>2, <3>3 DEF RowAfter, StatusOf
    <3> QED BY <1>1, <3>2, <3>4, <3>5, <3>6 DEF RowInv
  <2>5. CASE ~\E i \in Completions : i <= answered
    <3>1. ~\E i \in Completions' : i <= answered'
      BY <1>1, <2>2, <2>3, <2>5
    <3> QED BY <1>1, <2>1, <2>5, <3>1 DEF RowInv, NewRow
  <2> QED BY <2>4, <2>5
<1>11. ASSUME orderly PROVE HookInv'
  <2> SUFFICES ASSUME NEW h \in Hooks, hook[h] # 0
               PROVE  /\ InTurn(h, hook[h])'
                      /\ hook'[h] \notin Completions'
                      /\ sub'.externalRef = log'[hook'[h]].ref
    BY <1>1 DEF HookInv
  <2>1. hook[h] \in 1 .. Len(log)
    BY <1>5
  <2>2. InTurn(h, hook[h]) /\ hook[h] \notin Completions /\ sub.externalRef = log[hook[h]].ref
    BY <1>1, <1>11 DEF FollowInv, OrderlyInv, HookInv
  <2> QED BY <1>1, <1>2, <1>4, <1>5, <2>1, <2>2 DEF InTurn
<1> QED BY <1>1, <1>9, <1>10, <1>11 DEF OrderlyInv

LEMMA GatewayFollows ==
  ASSUME FollowInv, NEW ref \in Refs, Gateway(ref)
  PROVE  LogInv' /\ OrderlyInv'
<1> USE DEF EventTypes
<1>1. CASE Pay(ref)
  BY <1>1, EmitFollows, SubscriptionsAssumption DEF Pay
<1>2. CASE \E status \in Charges : Charge(ref, status)
  <2>1. PICK status \in Charges : Charge(ref, status)
    BY <1>2
  <2>2. status # "canceled"
    BY SubscriptionsAssumption
  <2> QED BY <2>1, <2>2, EmitFollows DEF Charge
<1>3. CASE Cancel(ref)
  BY <1>3, EmitFollows DEF Cancel
<1> QED BY <1>1, <1>2, <1>3 DEF Gateway

LEMMA WebhookLog ==
  ASSUME LogInv, UNCHANGED <<kind, gateway, log>>
  PROVE  LogInv'
BY DEF LogInv, Final, Completions, Paid

LEMMA SameRow ==
  ASSUME RowInv, UNCHANGED <<sub, log, answered>>
  PROVE  RowInv'
<1>1. Completions' = Completions
  BY DEF Completions
<1> QED BY <1>1 DEF RowInv, Bought, LastSaid, RowAfter, StatusOf, NewRow

(* A completed checkout in turn: the row is the new subscription's.        *)
LEMMA CompleteFollows ==
  ASSUME FollowInv, kind = "stripe", NEW h \in Hooks, NEW i \in 1 .. Len(log),
         Complete(h, i), orderly'
  PROVE  RowInv' /\ HookInv'
<1> USE LogTypes DEF FollowInv
<1>1. /\ orderly /\ InTurn(h, i) /\ hook[h] = 0
      /\ UNCHANGED <<kind, gateway, log, hook>>
      /\ answered' = IF i = answered + 1 THEN i ELSE answered
  BY DEF Complete, Answer
<1>2. answered' = i /\ Completions' = Completions /\ i \in Completions
  BY <1>1 DEF InTurn, Complete, Completions
<1>3. RowInv'
  <2>1. StatusOf(log[i]) = "active" /\ sub' = RowAfter(log[i], log[i])
    <3>1. log[i].status = "active" /\ log[i].type = "checkout.session.completed"
      BY DEF LogInv, Complete, Completions
    <3> QED BY <3>1 DEF StatusOf, RowAfter, Complete, ApplyPlanChange
  <2>2. \A k \in 1 .. Len(log) : log[k].ref = log[i].ref => i <= k
    BY <1>2 DEF LogInv
  <2>3. Bought(i, i)' /\ LastSaid(i, i, i)'
    BY <1>1, <1>2 DEF Bought, LastSaid
  <2>4. (sub = RowAfter(log[i], log[i]))'
    BY <1>1, <2>1 DEF RowAfter, StatusOf
  <2>5. i <= answered' /\ i \in 1 .. answered'
    BY <1>2
  <2> QED BY <1>2, <2>3, <2>4, <2>5 DEF RowInv
<1>4. HookInv'
  BY <1>1 DEF InTurn, HookInv
<1> QED BY <1>3, <1>4

(* Any other event in turn leaves the row alone, and is of the row's       *)
(* subscription when the handler goes on with it.                          *)
LEMMA FindFollows ==
  ASSUME FollowInv, kind = "stripe", NEW h \in Hooks, NEW i \in 1 .. Len(log),
         FindSubscription(h, i), orderly'
  PROVE  RowInv' /\ HookInv'
<1> USE LogTypes DEF FollowInv
<1>1. /\ orderly /\ InTurn(h, i) /\ hook[h] = 0 /\ i \notin Completions
      /\ UNCHANGED <<kind, sub, gateway, log>>
  BY DEF FindSubscription, Completions
<1>2. RowInv /\ Completions' = Completions
  BY <1>1 DEF OrderlyInv, Completions
<1>3. CASE Finds(log[i]) /\ hook' = [hook EXCEPT ![h] = i] /\ UNCHANGED answered
  <2>1. RowInv'
    BY <1>1, <1>2, <1>3, SameRow
  <2>2. /\ hook'[h] = i /\ \A g \in Hooks \ {h} : hook'[g] = 0
        /\ i \in {answered, answered + 1}
    BY <1>1, <1>3 DEF InTurn, IInv, TypeOK
  <2>3. HookInv'
    BY <1>1, <1>2, <1>3, <2>2 DEF HookInv, InTurn, Finds
  <2> QED BY <2>1, <2>3
<1>4. CASE ~Finds(log[i]) /\ Answer(i) /\ UNCHANGED hook
  <2>1. HookInv'
    BY <1>1, <1>4 DEF HookInv, InTurn
  <2>2. CASE answered' = answered
    BY <1>1, <1>2, <2>1, <2>2, SameRow
  <2>3. CASE answered' = answered + 1 /\ i = answered + 1
    <3>1. \A k \in Completions : k <= answered' <=> k <= answered
      BY <1>1, <2>3
    <3>2. CASE \E k \in Completions : k <= answered
      <4>1. PICK k \in Completions, j \in 1 .. answered :
              Bought(k, answered) /\ LastSaid(k, j, answered) /\ sub = RowAfter(log[k], log[j])
        BY <1>2, <3>2 DEF RowInv
      <4>2. log[i].ref # log[k].ref
        BY <1>4, <4>1 DEF Finds, RowAfter
      <4>3. Bought(k, answered)' /\ j \in 1 .. answered' /\ k <= answered'
        BY <1>1, <1>2, <2>3, <3>1, <4>1 DEF Bought
      <4>4. LastSaid(k, j, answered)'
        BY <1>1, <2>3, <4>1, <4>2 DEF LastSaid
      <4>5. (sub = RowAfter(log[k], log[j]))'
        BY <1>1, <4>1 DEF RowAfter, StatusOf
      <4>6. k \in Completions'
        BY <1>2
      <4>7. \E l \in Completions' : l <= answered'
        BY <4>3, <4>6
      <4> QED BY <2>1, <4>3, <4>4, <4>5, <4>6, <4>7 DEF RowInv
    <3>3. CASE ~\E k \in Completions : k <= answered
      <4>1. ~\E k \in Completions' : k <= answered'
        BY <1>2, <3>1, <3>3
      <4>2. sub' = NewRow
        BY <1>1, <1>2, <3>3 DEF RowInv
      <4> QED BY <2>1, <4>1, <4>2 DEF RowInv, NewRow
    <3> QED BY <3>2, <3>3
  <2> QED BY <1>4, <2>1, <2>2, <2>3 DEF Answer
<1> QED BY <1>3, <1>4 DEF FindSubscription

(* The row says what the event says that is now the last one answered.     *)
LEMMA UpdateFollows ==
  ASSUME FollowInv, kind = "stripe", NEW h \in Hooks, UpdateSubscription(h), orderly,
         NEW m, m = hook[h]
  PROVE  RowInv' /\ HookInv'
<1> USE LogTypes DEF FollowInv
<1>1. /\ RowInv /\ InTurn(h, m) /\ m \notin Completions /\ sub.externalRef = log[m].ref
      /\ m \in 1 .. Len(log)
  BY DEF UpdateSubscription, OrderlyInv, HookInv
<1>2. /\ UNCHANGED <<kind, gateway, log, orderly>> /\ Completions' = Completions
      /\ answered' = m /\ hook' = [hook EXCEPT ![h] = 0]
  BY <1>1 DEF UpdateSubscription, Answer, InTurn, Completions
<1>3. HookInv'
  BY <1>1, <1>2 DEF HookInv, InTurn, IInv, TypeOK
<1>4. \E k \in Completions : k <= answered
  <2>1. log[m].ref # NoRef
    BY <1>1, SubscriptionsAssumption DEF Events
  <2> QED BY <1>1, <2>1 DEF RowInv, NewRow
<1>5. PICK i \in Completions, j \in 1 .. answered :
        Bought(i, answered) /\ LastSaid(i, j, answered) /\ sub = RowAfter(log[i], log[j])
  BY <1>1, <1>4 DEF RowInv
<1>6. m \in {answered, answered + 1} /\ answered \in Nat /\ m \in Nat
  BY <1>1 DEF InTurn
<1>7. log[m].ref = log[i].ref /\ j <= m
  BY <1>1, <1>5, <1>6 DEF RowAfter
<1>8. Bought(i, m)'
  <2>1. \A k \in Completions : k <= m => k <= answered
    BY <1>1, <1>6
  <2>2. i \in Nat /\ i <= m
    BY <1>5, <1>6 DEF Bought
  <2> QED BY <1>2, <1>5, <2>1, <2>2 DEF Bought
<1>9. LastSaid(i, m, m)'
  BY <1>2, <1>6, <1>7 DEF LastSaid
<1>10. sub' = RowAfter(log[i], log[m])
  <2>1. log[j] \in Events /\ log[j].ref = log[i].ref /\ j \in 1 .. Len(log)
    BY <1>5 DEF LastSaid
  <2>2. StatusOf(log[j]) = "cancelled" => log[j].status = "canceled"
    BY <2>1 DEF StatusOf, LogInv, Events
  <2>3. log[j].status = "canceled" => m <= j
    BY <1>1, <1>7, <2>1 DEF LogInv, Final
  <2>4. StatusOf(log[j]) = "cancelled" => j = m
    BY <1>6, <1>7, <2>1, <2>2, <2>3
  <2>5. sub' = WithStatus(StatusOf(log[m]))
    BY DEF UpdateSubscription
  <2>6. sub = [planSlug |-> sub.planSlug, status |-> sub.status, externalRef |-> sub.externalRef]
    BY DEF IInv, TypeOK
  <2>7. /\ sub.externalRef = log[i].ref
        /\ sub.planSlug = IF StatusOf(log[j]) = "cancelled" THEN Free ELSE log[i].plan
    BY <1>5 DEF RowAfter
  <2> HIDE DEF FollowInv
  <2> QED BY <2>4, <2>5, <2>6, <2>7 DEF WithStatus, RowAfter
<1>11. (sub = RowAfter(log[i], log[m]))'
  BY <1>2, <1>10 DEF RowAfter, StatusOf
<1>12. i \in Completions' /\ m \in 1 .. m /\ i <= m
  BY <1>1, <1>2, <1>5, <1>6 DEF Bought
<1>13. RowInv'
  <2> HIDE DEF FollowInv
  <2> QED BY <1>2, <1>8, <1>9, <1>11, <1>12 DEF RowInv
<1> QED BY <1>3, <1>13

LEMMA WebhookFollows ==
  ASSUME FollowInv, NEW h \in Hooks, Webhook(h) \/ FailHook(h)
  PROVE  LogInv' /\ OrderlyInv'
<1>1. UNCHANGED <<kind, gateway, log>> /\ (orderly' => orderly)
  <2>1. CASE \E i \in 1 .. Len(log) : Complete(h, i)
    BY <2>1 DEF Complete
  <2>2. CASE \E i \in 1 .. Len(log) : FindSubscription(h, i)
    BY <2>2 DEF FindSubscription
  <2>3. CASE UpdateSubscription(h) \/ FailHook(h)
    BY <2>3 DEF UpdateSubscription, FailHook
  <2> QED BY <2>1, <2>2, <2>3 DEF Webhook
<1>2. LogInv'
  BY <1>1, WebhookLog DEF FollowInv
<1>3. ASSUME kind' = "stripe", orderly' PROVE RowInv' /\ HookInv'
  <2>1. CASE FailHook(h)
    <3>1. RowInv /\ HookInv
      BY <1>1, <1>3 DEF FollowInv, OrderlyInv
    <3>2. hook' = [hook EXCEPT ![h] = 0] /\ UNCHANGED <<sub, answered>>
      BY <2>1 DEF FailHook
    <3>3. RowInv'
      BY <1>1, <3>1, <3>2, SameRow
    <3>4. HookInv'
      BY <1>1, <3>1, <3>2 DEF HookInv, InTurn, Completions, FollowInv, IInv, TypeOK
    <3> QED BY <3>3, <3>4
  <2>2. CASE Webhook(h)
    BY <1>1, <1>3, <2>2, CompleteFollows, FindFollows, UpdateFollows DEF Webhook
  <2> QED BY <2>1, <2>2
<1> QED BY <1>2, <1>3 DEF OrderlyInv

LEMMA StepFollows == FollowInv /\ [Next]_vars => FollowInv'
<1> SUFFICES ASSUME FollowInv, [Next]_vars PROVE FollowInv'
  OBVIOUS
<1>1. IInv'
  BY StepInv DEF FollowInv
<1>2. CASE UNCHANGED vars
  <2>1. LogInv' /\ UNCHANGED <<kind, sub, gateway, log, hook, answered, orderly>>
    BY <1>2, WebhookLog DEF FollowInv, vars
  <2>2. OrderlyInv'
    BY <2>1, SameRow DEF FollowInv, OrderlyInv, HookInv, InTurn, Completions
  <2> QED BY <1>1, <2>1, <2>2 DEF FollowInv
<1>3. CASE Next
  BY <1>1, <1>3, CheckoutFollows, GatewayFollows, WebhookFollows DEF Next, FollowInv
<1> QED BY <1>2, <1>3

LEMMA FollowImplies == FollowInv => FollowsGateway
<1> SUFFICES ASSUME FollowInv, kind = "stripe", orderly, answered = Len(log)
             PROVE  IF Completions = {}
                    THEN sub = NewRow
                    ELSE \E i \in Completions :
                           /\ \A j \in Completions : j <= i
                           /\ sub.externalRef = log[i].ref
                           /\ sub.planSlug = IF gateway[log[i].ref].stage = "canceled"
                                             THEN Free ELSE gateway[log[i].ref].plan
                           /\ sub.status = "cancelled" <=> gateway[log[i].ref].stage = "canceled"
                           /\ sub.status = "past_due" <=> gateway[log[i].ref].stage = "past_due"
  BY DEF FollowsGateway, NewRow
<1> USE LogTypes DEF FollowInv
<1>1. RowInv
  BY DEF OrderlyInv
<1>2. CASE Completions = {}
  BY <1>1, <1>2 DEF RowInv
<1>3. CASE Completions # {}
  <2>1. \E i \in Completions : i <= answered
    BY <1>3
  <2>2. PICK i \in Completions, j \in 1 .. answered :
          Bought(i, answered) /\ LastSaid(i, j, answered) /\ sub = RowAfter(log[i], log[j])
    BY <1>1, <2>1 DEF RowInv
  <2>3. \A k \in Completions : k <= i
    BY <2>2 DEF Bought
  <2>4. /\ log[j].ref = log[i].ref /\ i \in 1 .. Len(log) /\ j \in 1 .. Len(log)
        /\ gateway[log[i].ref].stage = log[j].status
        /\ log[j].type = "customer.subscription.deleted" <=> log[j].status = "canceled"
    BY <2>2 DEF LastSaid, Final, LogInv
  <2>5. log[i].plan = gateway[log[i].ref].plan
    BY <2>4 DEF IInv, EventsArePaid
  <2>6. /\ StatusOf(log[j]) = "cancelled" <=> gateway[log[i].ref].stage = "canceled"
        /\ StatusOf(log[j]) = "past_due" <=> gateway[log[i].ref].stage = "past_due"
    BY <2>4 DEF StatusOf
  <2>7. /\ sub.externalRef = log[i].ref /\ sub.status = StatusOf(log[j])
        /\ sub.planSlug = IF StatusOf(log[j]) = "cancelled" THEN Free ELSE log[i].plan
    BY <2>2 DEF RowAfter
  <2> HIDE DEF FollowInv
  <2> QED BY <1>3, <2>3, <2>5, <2>6, <2>7
<1> QED BY <1>2, <1>3

(* Delivered one after the other and in their order, with repetitions of   *)
(* the last one and handlers that fail, the events leave the row saying    *)
(* what the gateway says of the subscription bought last: for any number   *)
(* of checkouts, events and handlers.                                      *)
THEOREM RowFollowsGateway == Spec => []FollowsGateway
<1>1. Spec => []FollowInv
  BY InitFollows, StepFollows, PTL DEF Spec
<1> QED BY <1>1, FollowImplies, PTL
=============================================================================
