----------------------------- MODULE IntakeProofs -----------------------------
(***************************************************************************)
(* Type correctness, the partner's order ids, the booking of what was paid *)
(* and the setup fee, for every number of orders, quotes, checkouts,       *)
(* external ids, restarts and failing handlers.                            *)
(***************************************************************************)
EXTENDS Intake, FiniteSetTheorems, TLAPS

\* A checkout's event follows the checkout, which names orders that are there;
\* a partner's application has none.
SessionsNameOrders ==
  \A s \in Sessions :
    /\ event[s] # "none" => ~FreshSession(s)
    /\ \A o \in session[s].orders : Exists(o)
    /\ session[s].kind = "partner_application" => session[s].orders = {}

BookingInv == TypeOK /\ SessionsNameOrders /\ PaidIsBooked /\ PaidStaysPaid

-----------------------------------------------------------------------------
\* The parts of TypeOK that an order's and a session's steps disturb.
OrderType == order \in [Orders -> OrderStatuses]
QuoteType == quote \in [Quotes -> [order : Orders \cup {NoOrder}, status : QuoteStatuses]]
IntentType == intent \in [Orders -> Sessions \cup {NoIntent}]
SessionType ==
  session \in [Sessions -> [kind : SessionKinds, orders : SUBSET Orders, quotes : SUBSET Quotes]]

\* What the helpers write keeps to the types.
LEMMA HelpersKeepType ==
  ASSUME TypeOK
  PROVE  /\ \A os \in SUBSET Orders : create_formation(os) => OrderType'
         /\ \A os \in SUBSET Orders, st \in OrderStatuses : SetOrders(os, st) => OrderType'
         /\ \A q \in Quotes, o \in Orders \cup {NoOrder} : persist_quote(q, o) => QuoteType'
         /\ \A q \in Quotes, o \in Orders : Bind(q, o) => QuoteType'
         /\ \A qs \in SUBSET Quotes, st \in QuoteStatuses : SetQuotes(qs, st) => QuoteType'
         /\ \A s \in Sessions, k \in SessionKinds, os \in SUBSET Orders, qs \in SUBSET Quotes :
              Opens(s, k, os, qs) => SessionType'
<1> USE DEF TypeOK
<1>1. \A os \in SUBSET Orders : create_formation(os) => OrderType'
  BY DEF OrderType, create_formation, OrderStatuses
<1>2. \A os \in SUBSET Orders, st \in OrderStatuses : SetOrders(os, st) => OrderType'
  BY DEF OrderType, SetOrders
<1>3. \A q \in Quotes, o \in Orders \cup {NoOrder} : persist_quote(q, o) => QuoteType'
  BY DEF QuoteType, persist_quote, QuoteStatuses
<1>4. \A q \in Quotes, o \in Orders : Bind(q, o) => QuoteType'
  BY DEF QuoteType, Bind
<1>5. \A qs \in SUBSET Quotes, st \in QuoteStatuses : SetQuotes(qs, st) => QuoteType'
  BY DEF QuoteType, SetQuotes
<1>6. \A s \in Sessions, k \in SessionKinds, os \in SUBSET Orders, qs \in SUBSET Quotes :
        Opens(s, k, os, qs) => SessionType'
  BY DEF SessionType, Opens
<1> QED BY <1>1, <1>2, <1>3, <1>4, <1>5, <1>6

\* The steps of single orders keep to the types.
LEMMA OrdersKeepType == ASSUME TypeOK, NEW o \in Orders, OrderStep(o) PROVE TypeOK'
<1> USE HelpersKeepType DEF TypeOK, reported
<1>1. CASE create_order(o)
  <2>1. OrderType' /\ QuoteType' BY <1>1 DEF create_order, QuoteType
  <2> QED BY <1>1, <2>1 DEF create_order, OrderType, QuoteType
<1>2. ASSUME NEW q \in Quotes, create_service_order(o, q) PROVE TypeOK'
  <2>1. OrderType' /\ QuoteType' BY <1>2 DEF create_service_order
  <2> QED BY <1>2, <2>1 DEF create_service_order, OrderType, QuoteType
<1>3. ASSUME NEW s \in Sessions, create_checkout_session(o, s) PROVE TypeOK'
  <2>1. SessionType' BY <1>3 DEF create_checkout_session, SessionKinds
  <2> QED BY <1>3, <2>1 DEF create_checkout_session, SessionType
<1>4. ASSUME NEW s \in Sessions, authorize_order(o, s) PROVE TypeOK'
  <2>0. \E qs \in SUBSET Quotes : Opens(s, "authorize", {o}, qs)
    <3>1. {} \in SUBSET Quotes /\ \A q \in Quotes : {q} \in SUBSET Quotes OBVIOUS
    <3> QED BY <1>4, <3>1, Zenon DEF authorize_order
  <2>1. SessionType' BY <2>0 DEF SessionKinds
  <2>2. QuoteType'
    <3>1. CASE UNCHANGED quote BY <3>1 DEF QuoteType
    <3>2. ASSUME NEW q \in Quotes,
                 quote' = [quote EXCEPT ![q] = [order |-> o, status |-> "authorization_started"]]
          PROVE  QuoteType'
      BY <3>2 DEF QuoteType, QuoteStatuses
    <3> QED BY <1>4, <3>1, <3>2 DEF authorize_order
  <2> QED BY <1>4, <2>1, <2>2 DEF authorize_order, SessionType, QuoteType
<1>5. ASSUME NEW e \in Externals, create_partner_formation(o, e) PROVE TypeOK'
  <2>1. OrderType' /\ QuoteType' BY <1>5 DEF create_partner_formation, QuoteType
  <2> QED BY <1>5, <2>1 DEF create_partner_formation, OrderType, QuoteType
<1>6. ASSUME NEW e \in Externals, partner_formation_cut_short(o, e) PROVE TypeOK'
  <2>1. OrderType' /\ QuoteType' BY <1>6 DEF partner_formation_cut_short, QuoteType
  <2> QED
    BY <1>6, <2>1, IntakeAssumption DEF partner_formation_cut_short, OrderType, QuoteType, Fails
<1> QED BY <1>1, <1>2, <1>3, <1>4, <1>5, <1>6 DEF OrderStep

\* So do the cart's: each new quote is for one of its orders.
LEMMA CartsKeepType == ASSUME TypeOK, NEW os \in SUBSET Orders, CartStep(os) PROVE TypeOK'
<1> USE HelpersKeepType DEF reported
<1>1. ASSUME NEW s \in Sessions, create_formation_cart_checkout(os, s) PROVE TypeOK'
  <2>1. PICK chosen \in Choices(os) :
          Quoted(os, chosen) /\ Opens(s, "cart", os, {chosen[o] : o \in os})
    BY <1>1 DEF create_formation_cart_checkout
  <2>2. chosen \in [os -> Quotes] BY DEF Choices, FreshQuotes
  <2>3. QuoteType'
    <3>1. ASSUME NEW q \in Quotes, \E o \in os : chosen[o] = q
          PROVE  (CHOOSE o \in os : chosen[o] = q) \in Orders
      BY <3>1
    <3> QED BY <2>1, <3>1 DEF Quoted, QuoteType, QuoteStatuses, TypeOK
  <2>4. SessionType'
    <3>1. {chosen[o] : o \in os} \in SUBSET Quotes BY <2>2
    <3> QED BY <2>1, <3>1 DEF SessionKinds
  <2>5. OrderType' BY <1>1 DEF create_formation_cart_checkout
  <2> QED
    BY <1>1, <2>3, <2>4, <2>5
    DEF create_formation_cart_checkout, TypeOK, OrderType, QuoteType, SessionType
<1>2. CASE cart_cut_short(os)
  <2>1. OrderType' BY <1>2 DEF cart_cut_short
  <2> QED BY <1>2, <2>1, IntakeAssumption DEF cart_cut_short, TypeOK, OrderType, Fails
<1> QED BY <1>1, <1>2 DEF CartStep

\* So do the application's and the customer's.
LEMMA ApplicationKeepsType == ASSUME TypeOK, ApplicationStep PROVE TypeOK'
<1> USE DEF TypeOK, reported
<1>1. CASE submit_partner_application BY <1>1 DEF submit_partner_application
<1>2. ASSUME NEW s \in Sessions, create_partner_application_checkout(s) PROVE TypeOK'
  <2>1. SessionType'
    <3>1. {} \in SUBSET Orders /\ {} \in SUBSET Quotes OBVIOUS
    <3>2. Opens(s, "partner_application", {}, {}) \/ UNCHANGED session
      BY <1>2, Zenon DEF create_partner_application_checkout
    <3> QED BY <3>1, <3>2, HelpersKeepType DEF SessionType, SessionKinds
  <2> QED BY <1>2, <2>1 DEF create_partner_application_checkout, SessionType
<1>3. ASSUME NEW b \in BOOLEAN, approve_admin_partner_application(b) PROVE TypeOK'
  BY <1>3 DEF approve_admin_partner_application
<1>4. CASE reject_admin_partner_application BY <1>4 DEF reject_admin_partner_application
<1> QED BY <1>1, <1>2, <1>3, <1>4 DEF ApplicationStep

\* The application with its payment, as TypeOK has it.
ApplicationType ==
  application \in [status : {"none", "submitted", "approved", "rejected"},
                   payment : {"not_started", "checkout_started", "waived", "paid"},
                   partner : BOOLEAN]

\* What a completed checkout commits, and what is booked for it, keeps to the
\* types.
LEMMA CompletedKeepsType ==
  ASSUME TypeOK, NEW s \in Sessions, SessionCompleted(s)
  PROVE  OrderType' /\ IntentType' /\ QuoteType' /\ ApplicationType'
<1>1. session[s].orders \in SUBSET Orders /\ session[s].quotes \in SUBSET Quotes
  BY DEF TypeOK
<1> USE <1>1, HelpersKeepType
    DEF SessionCompleted, Paid, OrderStatuses, QuoteStatuses
<1>2. OrderType' BY DEF TypeOK, OrderType
<1>5. IntentType' BY DEF TypeOK, IntentType
<1>3. QuoteType' BY DEF TypeOK, QuoteType
<1>4. ApplicationType' BY DEF TypeOK, ApplicationType
<1> QED BY <1>2, <1>3, <1>4, <1>5

\* The step of a session: a payment, a lapse or one of their webhooks.
SessionStep(s) ==
  \/ CustomerPays(s) \/ stripe_webhook(s) \/ stripe_webhook_fails(s)
  \/ AuthorizationLapses(s) \/ payment_intent_canceled(s)

\* So do the webhook's steps.
LEMMA WebhookKeepsType == ASSUME TypeOK, NEW s \in Sessions, SessionStep(s) PROVE TypeOK'
<1>1. CASE CustomerPays(s) BY <1>1 DEF CustomerPays, TypeOK, EventStates, reported
<1>2. CASE stripe_webhook(s)
  <2>1. OrderType' /\ IntentType' /\ QuoteType' /\ ApplicationType'
    BY <1>2, CompletedKeepsType DEF stripe_webhook
  <2>2. booked' \in [Orders -> SUBSET Sessions] BY <1>2 DEF stripe_webhook, Book, TypeOK
  <2> QED
    BY <1>2, <2>1, <2>2
    DEF stripe_webhook, TypeOK, OrderType, IntentType, QuoteType, ApplicationType, EventStates
<1>3. CASE stripe_webhook_fails(s)
  <2>1. OrderType' /\ IntentType' /\ QuoteType' /\ ApplicationType'
    BY <1>3, CompletedKeepsType DEF stripe_webhook_fails
  <2>2. booked' \in [Orders -> SUBSET Sessions]
    BY <1>3 DEF stripe_webhook_fails, Book, TypeOK
  <2> QED
    BY <1>3, <2>1, <2>2, IntakeAssumption
    DEF stripe_webhook_fails, TypeOK, OrderType, IntentType, QuoteType, ApplicationType,
        EventStates, Fails
<1>4. CASE AuthorizationLapses(s) BY <1>4 DEF AuthorizationLapses, TypeOK, EventStates
<1>5. CASE payment_intent_canceled(s)
  <2>1. OrderType'
    BY <1>5, HelpersKeepType DEF payment_intent_canceled, Linked, OrderStatuses
  <2>2. QuoteType'
    <3>1. CASE UNCHANGED quote BY <3>1 DEF TypeOK, QuoteType
    <3>2. ASSUME NEW q \in UNION {QuotesOf(o) : o \in Linked(s)},
                 SetQuotes({q}, "authorization_canceled")
          PROVE  QuoteType'
      <4>1. {q} \in SUBSET Quotes BY DEF QuotesOf
      <4> QED BY <3>2, <4>1, HelpersKeepType DEF QuoteStatuses
    <3> QED BY <1>5, <3>1, <3>2 DEF payment_intent_canceled
  <2>3. lapse' \in [Sessions -> EventStates] /\ failures' \in 0..MaxFailures
    BY <1>5, IntakeAssumption DEF payment_intent_canceled, TypeOK, EventStates, Fails
  <2> QED
    BY <1>5, <2>1, <2>2, <2>3 DEF payment_intent_canceled, TypeOK, OrderType, QuoteType
<1> QED BY <1>1, <1>2, <1>3, <1>4, <1>5 DEF SessionStep

\* Every variable of the intake keeps to its set of values.
THEOREM TypeCorrect == Spec => []TypeOK
<1>1. Init => TypeOK
  <2> SUFFICES ASSUME Init PROVE TypeOK
    OBVIOUS
  <2>1. OrderType /\ QuoteType
    BY DEF Init, OrderType, QuoteType, OrderStatuses, QuoteStatuses
  <2>2. SessionType BY DEF Init, SessionType, NoSession, SessionKinds
  <2>3. ApplicationType BY DEF Init, ApplicationType
  <2>4. /\ link \in [Orders -> Externals \cup {NoLink}]
        /\ booked \in [Orders -> SUBSET Sessions]
        /\ event \in [Sessions -> EventStates] /\ lapse \in [Sessions -> EventStates]
        /\ intent \in [Orders -> Sessions \cup {NoIntent}]
        /\ failures \in 0..MaxFailures
    BY IntakeAssumption DEF Init, EventStates
  <2> QED
    BY <2>1, <2>2, <2>3, <2>4 DEF TypeOK, OrderType, QuoteType, SessionType, ApplicationType
<1>2. TypeOK /\ [Next]_vars => TypeOK'
  <2> SUFFICES ASSUME TypeOK, [Next]_vars PROVE TypeOK'
    OBVIOUS
  <2>1. ASSUME NEW q \in Quotes, create_quote(q) PROVE TypeOK'
    <3>1. QuoteType' BY <2>1, HelpersKeepType DEF create_quote
    <3> QED BY <2>1, <3>1 DEF create_quote, QuoteType, TypeOK, reported
  <2>2. CASE UNCHANGED vars BY <2>2 DEF vars, TypeOK
  <2> QED
    BY <2>1, <2>2, OrdersKeepType, CartsKeepType, ApplicationKeepsType, WebhookKeepsType
    DEF Next, SessionStep
<1> QED BY <1>1, <1>2, PTL DEF Spec

-----------------------------------------------------------------------------
\* The order an external id names, in terms of the links themselves.
OneOrderEach ==
  \A o, p \in Orders : link[o] \in Externals /\ link[o] = link[p] => o = p

\* An external id names one order at most, in every behaviour: only an id that
\* names none is linked.
THEOREM OneOrderPerId == Spec => []OneOrderPerExternalId
<1>1. Init => OneOrderEach BY IntakeAssumption DEF Init, OneOrderEach
<1>2. TypeOK /\ OneOrderEach /\ [Next]_vars => OneOrderEach'
  <2> SUFFICES ASSUME TypeOK, OneOrderEach, [Next]_vars PROVE OneOrderEach'
    OBVIOUS
  <2>1. CASE UNCHANGED link BY <2>1 DEF OneOrderEach
  <2>2. ASSUME NEW o \in Orders, NEW e \in Externals, create_partner_formation(o, e)
        PROVE  OneOrderEach'
    BY <2>2 DEF create_partner_formation, Known, LinkedTo, TypeOK, OneOrderEach
  <2>3. ASSUME NEW o \in Orders, OrderStep(o) PROVE OneOrderEach'
    BY <2>3, <2>1, <2>2 DEF OrderStep, create_order, create_service_order,
       create_checkout_session, authorize_order, partner_formation_cut_short
  <2>4. ASSUME NEW os \in SUBSET Orders, CartStep(os) PROVE UNCHANGED link
    BY <2>4 DEF CartStep, create_formation_cart_checkout, cart_cut_short
  <2>5. CASE ApplicationStep
    BY <2>5, <2>1 DEF ApplicationStep, submit_partner_application,
       create_partner_application_checkout, approve_admin_partner_application,
       reject_admin_partner_application
  <2>6. ASSUME NEW s \in Sessions, SessionStep(s) PROVE UNCHANGED link
    BY <2>6 DEF SessionStep, CustomerPays, stripe_webhook, stripe_webhook_fails,
       AuthorizationLapses, payment_intent_canceled
  <2> QED
    BY <2>1, <2>3, <2>4, <2>5, <2>6 DEF Next, SessionStep, create_quote, vars
<1>3. OneOrderEach => OneOrderPerExternalId
  <2> SUFFICES ASSUME OneOrderEach, NEW e \in Externals
               PROVE  Cardinality(LinkedTo(e)) <= 1
    BY DEF OneOrderPerExternalId
  <2>1. CASE LinkedTo(e) = {} BY <2>1, FS_EmptySet
  <2>2. ASSUME NEW o \in LinkedTo(e) PROVE Cardinality(LinkedTo(e)) <= 1
    <3>1. LinkedTo(e) = {o} BY <2>2 DEF LinkedTo, OneOrderEach
    <3>2. Cardinality({o}) = 1 BY FS_Singleton
    <3> QED BY <3>1, <3>2
  <2> QED BY <2>1, <2>2
<1> QED BY <1>1, <1>2, <1>3, TypeCorrect, PTL DEF Spec

-----------------------------------------------------------------------------
\* The payment an order stands on was canceled.
Canceled(o) == intent[o] \in Sessions /\ lapse[intent[o]] # "none"

\* An order that is there stays there, and waits for a payment again only when
\* the one it stands on was canceled.
OrderMovesOn(o) ==
  /\ Exists(o)'
  /\ order'[o] = "pending_payment" =>
       \/ order[o] = "pending_payment" /\ intent'[o] = intent[o]
       \/ Canceled(o)'

\* Lapses are not forgotten.
LapsesStay == \A s \in Sessions : lapse[s] # "none" => lapse'[s] # "none"

\* What the cancelation of a payment does to the orders.
LEMMA CancelMovesOn ==
  ASSUME TypeOK, NEW s \in Sessions, payment_intent_canceled(s), NEW o \in Orders, Exists(o)
  PROVE  OrderMovesOn(o) /\ LapsesStay
<1>1. /\ intent' = intent /\ lapse[s] # "none" /\ lapse'[s] # "none"
      /\ \A t \in Sessions : t # s => lapse'[t] = lapse[t]
  BY DEF payment_intent_canceled, TypeOK
<1>2. order' = [p \in Orders |-> IF p \in Linked(s) THEN "pending_payment" ELSE order[p]]
  BY DEF payment_intent_canceled, SetOrders
<1>3. CASE intent[o] = s
  <2>1. order'[o] = "pending_payment" BY <1>2, <1>3 DEF Linked
  <2> QED BY <1>1, <1>3, <2>1 DEF OrderMovesOn, Exists, Canceled, LapsesStay
<1>4. CASE intent[o] # s
  <2>1. order'[o] = order[o] BY <1>2, <1>4 DEF Linked
  <2> QED BY <1>1, <2>1 DEF OrderMovesOn, Exists, LapsesStay
<1> QED BY <1>3, <1>4

LEMMA OrdersMoveOn ==
  ASSUME TypeOK, [Next]_vars, NEW o \in Orders, Exists(o)
  PROVE  OrderMovesOn(o) /\ LapsesStay
<1>1. ASSUME order'[o] = order[o], UNCHANGED <<intent, lapse>>
      PROVE  OrderMovesOn(o) /\ LapsesStay
  BY <1>1 DEF OrderMovesOn, Exists, LapsesStay
<1>2. ASSUME NEW os \in SUBSET Orders, create_formation(os) PROVE order'[o] = order[o]
  BY <1>2 DEF create_formation, Exists
<1>3. ASSUME NEW p \in Orders, OrderStep(p) PROVE OrderMovesOn(o) /\ LapsesStay
  <2>1. order'[o] = order[o]
    BY <1>3, <1>2 DEF OrderStep, create_order, create_service_order,
       create_checkout_session, authorize_order, create_partner_formation,
       partner_formation_cut_short
  <2>2. UNCHANGED <<intent, lapse>>
    BY <1>3 DEF OrderStep, create_order, create_service_order, create_checkout_session,
       authorize_order, create_partner_formation, partner_formation_cut_short, reported
  <2> QED BY <1>1, <2>1, <2>2
<1>4. ASSUME NEW os \in SUBSET Orders, CartStep(os) PROVE OrderMovesOn(o) /\ LapsesStay
  BY <1>4, <1>1, <1>2 DEF CartStep, create_formation_cart_checkout, cart_cut_short, reported
<1>5. CASE ApplicationStep
  BY <1>5, <1>1 DEF ApplicationStep, submit_partner_application,
     create_partner_application_checkout, approve_admin_partner_application,
     reject_admin_partner_application, reported
<1>6. ASSUME NEW s \in Sessions, CustomerPays(s) \/ AuthorizationLapses(s)
      PROVE  OrderMovesOn(o) /\ LapsesStay
  <2>1. UNCHANGED <<order, intent>> /\ LapsesStay
    BY <1>6 DEF CustomerPays, AuthorizationLapses, reported, LapsesStay, TypeOK
  <2> QED BY <2>1 DEF OrderMovesOn, Exists
<1>7. ASSUME NEW s \in Sessions, stripe_webhook(s) \/ stripe_webhook_fails(s)
      PROVE  OrderMovesOn(o) /\ LapsesStay
  <2>1. lapse' = lapse /\ SessionCompleted(s)
    BY <1>7 DEF stripe_webhook, stripe_webhook_fails
  <2>2. CASE UNCHANGED <<order, intent>> BY <1>1, <2>1, <2>2
  <2>3. ASSUME NEW status \in {"payment_authorized", "paid", "payment_captured"},
               Paid(s, status)
        PROVE  OrderMovesOn(o)
    <3>1. CASE o \in session[s].orders
      <4>1. order'[o] = status BY <2>3, <3>1 DEF Paid, SetOrders
      <4> QED BY <4>1 DEF OrderMovesOn, Exists
    <3>2. CASE o \notin session[s].orders
      <4>1. order'[o] = order[o] /\ intent'[o] = intent[o]
        BY <2>3, <3>2 DEF Paid, SetOrders
      <4> QED BY <4>1 DEF OrderMovesOn, Exists
    <3> QED BY <3>1, <3>2
  <2>4. OrderMovesOn(o) BY <2>1, <2>2, <2>3 DEF SessionCompleted
  <2> QED BY <2>1, <2>4 DEF LapsesStay
<1>8. ASSUME NEW q \in Quotes, create_quote(q) PROVE OrderMovesOn(o) /\ LapsesStay
  BY <1>8, <1>1 DEF create_quote, reported
<1>9. CASE UNCHANGED vars BY <1>9, <1>1 DEF vars
<1> QED
  BY <1>3, <1>4, <1>5, <1>6, <1>7, <1>8, <1>9, CancelMovesOn DEF Next

\* A checkout is written once, while it has no event, for orders that are
\* there then; a partner's application's is for none.
SessionOpens(s) ==
  /\ FreshSession(s) /\ session'[s] # NoSession
  /\ event'[s] = event[s]
  /\ \A o \in session'[s].orders : Exists(o)'
  /\ session'[s].kind = "partner_application" => session'[s].orders = {}

\* Opening a checkout leaves the others alone.
LEMMA OpensIsSingle ==
  ASSUME TypeOK, NEW s \in Sessions, NEW t \in Sessions, NEW kind, NEW os, NEW qs,
         Opens(t, kind, os, qs)
  PROVE  \/ session'[s] = session[s]
         \/ /\ FreshSession(s)
            /\ session'[s].kind = kind /\ session'[s].orders = os
            /\ kind # "none" => session'[s] # NoSession
<1>1. FreshSession(t) BY DEF Opens
<1>2. session'[t] = [kind |-> kind, orders |-> os, quotes |-> qs] BY DEF Opens, TypeOK
<1>3. s # t => session'[s] = session[s] BY DEF Opens, TypeOK
<1>4. session'[t].kind = kind /\ session'[t].orders = os BY <1>2
<1>5. NoSession.kind = "none" BY DEF NoSession
<1> QED BY <1>1, <1>3, <1>4, <1>5

\* A step leaves a checkout alone or opens it.
LEMMA SessionsMoveOn ==
  ASSUME TypeOK, [Next]_vars, NEW s \in Sessions
  PROVE  session'[s] = session[s] \/ SessionOpens(s)
<1> USE DEF SessionOpens
<1>1. CASE UNCHANGED session BY <1>1
<1>2. ASSUME NEW o \in Orders, NEW t \in Sessions, create_checkout_session(o, t)
      PROVE  session'[s] = session[s] \/ SessionOpens(s)
  BY <1>2, OpensIsSingle DEF create_checkout_session, Exists
<1>3. ASSUME NEW o \in Orders, NEW t \in Sessions, authorize_order(o, t)
      PROVE  session'[s] = session[s] \/ SessionOpens(s)
  <2>1. \E qs : Opens(t, "authorize", {o}, qs) BY <1>3, Zenon DEF authorize_order
  <2> QED BY <1>3, <2>1, OpensIsSingle DEF authorize_order, Exists
<1>4. ASSUME NEW o \in Orders, OrderStep(o)
      PROVE  session'[s] = session[s] \/ SessionOpens(s)
  BY <1>4, <1>1, <1>2, <1>3 DEF OrderStep, create_order, create_service_order,
     create_partner_formation, partner_formation_cut_short
<1>5. ASSUME NEW os \in SUBSET Orders, NEW t \in Sessions, create_formation_cart_checkout(os, t)
      PROVE  session'[s] = session[s] \/ SessionOpens(s)
  <2>1. \E qs : Opens(t, "cart", os, qs) BY <1>5, Zenon DEF create_formation_cart_checkout
  <2>2. \A o \in os : Exists(o)'
    BY <1>5 DEF create_formation_cart_checkout, create_formation, Exists
  <2>3. event' = event BY <1>5 DEF create_formation_cart_checkout
  <2> QED BY <2>1, <2>2, <2>3, OpensIsSingle
<1>6. ASSUME NEW os \in SUBSET Orders, cart_cut_short(os) PROVE UNCHANGED session
  BY <1>6 DEF cart_cut_short
<1>7. ASSUME NEW t \in Sessions, create_partner_application_checkout(t)
      PROVE  session'[s] = session[s] \/ SessionOpens(s)
  <2>1. Opens(t, "partner_application", {}, {}) \/ UNCHANGED session
    BY <1>7, Zenon DEF create_partner_application_checkout
  <2>2. event' = event BY <1>7 DEF create_partner_application_checkout
  <2> QED BY <1>1, <2>1, <2>2, OpensIsSingle
<1>8. CASE ApplicationStep
  BY <1>8, <1>1, <1>7 DEF ApplicationStep, submit_partner_application,
     approve_admin_partner_application, reject_admin_partner_application
<1>9. ASSUME NEW t \in Sessions, SessionStep(t) PROVE UNCHANGED session
  BY <1>9 DEF SessionStep, CustomerPays, stripe_webhook, stripe_webhook_fails,
     AuthorizationLapses, payment_intent_canceled
<1> QED
  BY <1>1, <1>4, <1>5, <1>6, <1>8, <1>9 DEF Next, CartStep, SessionStep, create_quote, vars

\* A step that is not a checkout's own event leaves the event and the booking
\* alone, and a booking is never taken back.
LEMMA EventsMoveOn ==
  ASSUME TypeOK, [Next]_vars, NEW s \in Sessions
  PROVE  /\ \/ event'[s] = event[s]
            \/ CustomerPays(s) \/ stripe_webhook(s) \/ stripe_webhook_fails(s)
         /\ \A o \in Orders : booked[o] \subseteq booked'[o]
<1> USE DEF TypeOK, reported
<1>1. CASE UNCHANGED <<event, booked>> BY <1>1
<1>2. ASSUME NEW o \in Orders, OrderStep(o) PROVE UNCHANGED <<event, booked>>
  BY <1>2 DEF OrderStep, create_order, create_service_order, create_checkout_session,
     authorize_order, create_partner_formation, partner_formation_cut_short
<1>3. ASSUME NEW os \in SUBSET Orders, CartStep(os) PROVE UNCHANGED <<event, booked>>
  BY <1>3 DEF CartStep, create_formation_cart_checkout, cart_cut_short
<1>4. CASE ApplicationStep
  BY <1>4, <1>1 DEF ApplicationStep, submit_partner_application,
     create_partner_application_checkout, approve_admin_partner_application,
     reject_admin_partner_application
<1>5. ASSUME NEW t \in Sessions, CustomerPays(t) \/ stripe_webhook(t) \/ stripe_webhook_fails(t)
      PROVE  /\ t # s => event'[s] = event[s]
             /\ \A o \in Orders : booked[o] \subseteq booked'[o]
  BY <1>5 DEF CustomerPays, stripe_webhook, stripe_webhook_fails, Book
<1>6. ASSUME NEW t \in Sessions, AuthorizationLapses(t) \/ payment_intent_canceled(t)
      PROVE  UNCHANGED <<event, booked>>
  BY <1>6 DEF AuthorizationLapses, payment_intent_canceled
<1>7. ASSUME NEW q \in Quotes, create_quote(q) PROVE UNCHANGED <<event, booked>>
  BY <1>7 DEF create_quote
<1> QED BY <1>1, <1>2, <1>3, <1>4, <1>5, <1>6, <1>7 DEF Next, vars

\* The checkouts go on naming orders that are there.
LEMMA SessionsStayNamed ==
  ASSUME BookingInv, [Next]_vars, TypeOK'
  PROVE  SessionsNameOrders'
<1> SUFFICES ASSUME NEW s \in Sessions
             PROVE  /\ event'[s] # "none" => ~FreshSession(s)'
                    /\ \A o \in session'[s].orders : Exists(o)'
                    /\ session'[s].kind = "partner_application" => session'[s].orders = {}
  BY DEF SessionsNameOrders
<1>1. CASE SessionOpens(s)
  BY <1>1 DEF SessionOpens, BookingInv, SessionsNameOrders, FreshSession
<1>2. CASE session'[s] = session[s]
  <2>1. \A o \in session[s].orders : o \in Orders /\ Exists(o)'
    BY OrdersMoveOn DEF OrderMovesOn, BookingInv, SessionsNameOrders, TypeOK
  <2>2. event'[s] # "none" => ~FreshSession(s)
    <3>1. CASE event'[s] = event[s] BY <3>1 DEF BookingInv, SessionsNameOrders
    <3>2. CASE CustomerPays(s) BY <3>2 DEF CustomerPays
    <3>3. CASE stripe_webhook(s) \/ stripe_webhook_fails(s)
      BY <3>3 DEF stripe_webhook, stripe_webhook_fails, Due, BookingInv, SessionsNameOrders
    <3> QED BY <3>1, <3>2, <3>3, EventsMoveOn DEF BookingInv
  <2> QED BY <1>2, <2>1, <2>2 DEF BookingInv, SessionsNameOrders, FreshSession
<1> QED BY <1>1, <1>2, SessionsMoveOn DEF BookingInv

\* The handler that comes to its end has paid and booked every order.
LEMMA ProcessedIsBooked ==
  ASSUME BookingInv, NEW s \in Sessions, stripe_webhook(s), NEW o \in session[s].orders
  PROVE  order'[o] # "pending_payment" /\ (Books(s) => s \in booked'[o])
<1>1. o \in Orders BY DEF BookingInv, TypeOK
<1>2. order'[o] # "pending_payment"
  <2>1. session[s].kind # "partner_application" BY DEF BookingInv, SessionsNameOrders
  <2> QED BY <1>1, <2>1 DEF stripe_webhook, SessionCompleted, Paid, SetOrders
<1>3. Books(s) => s \in booked'[o] BY <1>1 DEF stripe_webhook, Book
<1> QED BY <1>2, <1>3

\* What is paid and booked stays so.
LEMMA BookedStays ==
  ASSUME BookingInv, [Next]_vars, TypeOK'
  PROVE  PaidIsBooked' /\ PaidStaysPaid'
<1> SUFFICES ASSUME NEW s \in Sessions, event'[s] = "processed", NEW o \in session'[s].orders
             PROVE  /\ Books(s)' => s \in booked'[o]
                    /\ order'[o] = "pending_payment" => Canceled(o)'
  BY DEF PaidIsBooked, PaidStaysPaid, Canceled
<1>1. session'[s] = session[s]
  <2>1. CASE SessionOpens(s)
    BY <2>1 DEF SessionOpens, BookingInv, SessionsNameOrders
  <2> QED BY <2>1, SessionsMoveOn DEF BookingInv
<1>2. o \in Orders /\ Exists(o) BY <1>1 DEF BookingInv, TypeOK, SessionsNameOrders
<1>3. CASE event[s] = "processed"
  <2>1. Books(s)' => s \in booked'[o]
    BY <1>1, <1>2, <1>3, EventsMoveOn DEF BookingInv, PaidIsBooked, Books
  <2>2. OrderMovesOn(o) /\ LapsesStay BY <1>2, OrdersMoveOn DEF BookingInv
  <2>3. order[o] = "pending_payment" => Canceled(o)
    BY <1>1, <1>3 DEF BookingInv, PaidStaysPaid, Canceled
  <2>4. order'[o] = "pending_payment" => Canceled(o)'
    BY <2>2, <2>3 DEF OrderMovesOn, LapsesStay, Canceled
  <2> QED BY <2>1, <2>4
<1>4. CASE event[s] # "processed"
  <2>1. stripe_webhook(s)
    BY <1>4, EventsMoveOn DEF BookingInv, TypeOK, CustomerPays, stripe_webhook_fails
  <2> QED BY <1>1, <2>1, ProcessedIsBooked DEF Books
<1> QED BY <1>3, <1>4

\* Every behaviour keeps the invariant the next two theorems read off.
LEMMA BookingInvariant == Spec => []BookingInv
<1>1. Init /\ TypeOK => BookingInv
  BY DEF Init, BookingInv, SessionsNameOrders, PaidIsBooked, PaidStaysPaid, NoSession
<1>2. BookingInv /\ [Next]_vars /\ TypeOK' => BookingInv'
  BY SessionsStayNamed, BookedStays DEF BookingInv
<1> QED BY <1>1, <1>2, TypeCorrect, PTL DEF Spec

\* When Stripe's event is done with, the charge is booked with every order of
\* the checkout, in every behaviour.
THEOREM EveryOrderIsBooked == Spec => []PaidIsBooked
<1>1. BookingInv => PaidIsBooked BY DEF BookingInv
<1> QED BY <1>1, BookingInvariant, PTL

\* A reported order waits for payment again only when the payment it stands on
\* was canceled, in every behaviour.
THEOREM PaidOrdersStayPaid == Spec => []PaidStaysPaid
<1>1. BookingInv => PaidStaysPaid BY DEF BookingInv
<1> QED BY <1>1, BookingInvariant, PTL

-----------------------------------------------------------------------------
\* The setup fee is never asked for again, in every behaviour: a checkout for
\* it is not opened once it is paid, and a late payment says paid again.
THEOREM FeePaidOnce == Spec => FeeIsFinal
<1>1. TypeOK /\ [Next]_vars =>
        [application.payment = "paid" => application'.payment = "paid"]_vars
  <2> SUFFICES ASSUME TypeOK, Next, application.payment = "paid"
               PROVE  application'.payment = "paid"
    OBVIOUS
  <2> USE DEF TypeOK
  <2>1. ASSUME NEW o \in Orders, OrderStep(o) PROVE UNCHANGED application
    BY <2>1 DEF OrderStep, create_order, create_service_order, create_checkout_session,
       authorize_order, create_partner_formation, partner_formation_cut_short
  <2>2. ASSUME NEW os \in SUBSET Orders, CartStep(os) PROVE UNCHANGED application
    BY <2>2 DEF CartStep, create_formation_cart_checkout, cart_cut_short
  <2>3. CASE ApplicationStep
    BY <2>3 DEF ApplicationStep, submit_partner_application,
       create_partner_application_checkout, approve_admin_partner_application,
       reject_admin_partner_application
  <2>4. ASSUME NEW s \in Sessions, SessionStep(s)
        PROVE  application'.payment = "paid"
    BY <2>4 DEF SessionStep, CustomerPays, stripe_webhook, stripe_webhook_fails,
       SessionCompleted, AuthorizationLapses, payment_intent_canceled
  <2> QED BY <2>1, <2>2, <2>3, <2>4 DEF Next, SessionStep, create_quote
<1> QED BY <1>1, TypeCorrect, PTL DEF Spec, FeeIsFinal
=============================================================================
