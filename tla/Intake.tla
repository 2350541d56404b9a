------------------------------- MODULE Intake -------------------------------
(***************************************************************************)
(* How an order comes into being and gets its first payment: the quotes,   *)
(* single orders, the multi-LLC cart, the partner API with its external    *)
(* ids, and the partners' own applications.  What a payment then starts is *)
(* in FilingJob; captures, supplements and refunds are in Payment.         *)
(*                                                                         *)
(* No handler here suspends: Stripe is called synchronously, so each is a  *)
(* step.  It commits several times, though, and a restart may come between *)
(* two commits (the _cut_short actions).                                   *)
(***************************************************************************)
EXTENDS Naturals, FiniteSets

CONSTANTS
  Orders, Quotes, Sessions,  \* ids; how many rows the instance has room for
  Externals,                 \* a partner's own order ids
  MaxFailures                \* restarts and failing webhook handlers

NoOrder == "no order"
NoLink == "no link"
NoIntent == "no intent"

\* A partner's order id is none that says there is no link, and a session's
\* payment intent none that says there is none.
ASSUME IntakeAssumption ==
  MaxFailures \in Nat /\ NoLink \notin Externals /\ NoIntent \notin Sessions

VARIABLES
  order,        \* orders.status, as far as the intake writes it
  intent,       \* orders.stripe_payment_intent, by the session it belongs to
  link,         \* partner_orders: the external id of an order
  quote,        \* execution_quotes: order and reconciliation status
  session,      \* Stripe checkout sessions with their metadata
  booked,       \* payment_ledger: the sessions an order has a captured row of
  event,        \* checkout.session.completed and its row in the event log
  lapse,        \* the same of payment_intent.canceled
  application,  \* the application of one partner
  failures

vars ==
  <<order, intent, link, quote, session, booked, event, lapse, application, failures>>

\* What only Stripe's events change.
reported == <<intent, booked, lapse>>

OrderStatuses == {"none", "pending_payment", "payment_authorized", "payment_captured", "paid"}
QuoteStatuses ==
  {"none", "quoted", "checkout_started", "authorization_started", "authorized", "captured",
   "authorization_canceled"}
EventStates == {"none", "sent", "failed", "processed"}
SessionKinds == {"none", "authorize", "direct", "cart", "partner_application"}

NoSession == [kind |-> "none", orders |-> {}, quotes |-> {}]

TypeOK ==
  /\ order \in [Orders -> OrderStatuses]
  /\ intent \in [Orders -> Sessions \cup {NoIntent}]
  /\ link \in [Orders -> Externals \cup {NoLink}]
  /\ quote \in [Quotes -> [order : Orders \cup {NoOrder}, status : QuoteStatuses]]
  /\ session \in [Sessions -> [kind : SessionKinds, orders : SUBSET Orders,
                               quotes : SUBSET Quotes]]
  /\ booked \in [Orders -> SUBSET Sessions]
  /\ event \in [Sessions -> EventStates]
  /\ lapse \in [Sessions -> EventStates]
  /\ application \in [status : {"none", "submitted", "approved", "rejected"},
                      payment : {"not_started", "checkout_started", "waived", "paid"},
                      partner : BOOLEAN]
  /\ failures \in 0..MaxFailures

Init ==
  /\ order = [o \in Orders |-> "none"]
  /\ intent = [o \in Orders |-> NoIntent]
  /\ link = [o \in Orders |-> NoLink]
  /\ quote = [q \in Quotes |-> [order |-> NoOrder, status |-> "none"]]
  /\ session = [s \in Sessions |-> NoSession]
  /\ booked = [o \in Orders |-> {}]
  /\ event = [s \in Sessions |-> "none"]
  /\ lapse = [s \in Sessions |-> "none"]
  /\ application = [status |-> "none", payment |-> "not_started", partner |-> FALSE]
  /\ failures = 0

Fails == failures < MaxFailures /\ failures' = failures + 1

Exists(o) == order[o] # "none"
FreshQuotes == {q \in Quotes : quote[q].status = "none"}
FreshSession(s) == session[s] = NoSession

\* A new order, its filing job and its place on the timeline.
create_formation(os) ==
  /\ \A o \in os : ~Exists(o)
  /\ order' = [o \in Orders |-> IF o \in os THEN "pending_payment" ELSE order[o]]

\* Faulty: the order's status in place of the quote's.
persist_with_order_status(q, o) ==
  /\ q \in FreshQuotes
  /\ quote' = [quote EXCEPT ![q] = [order |-> o, status |-> "pending_payment"]]

persist_quote(q, o) ==
  /\ q \in FreshQuotes
  /\ quote' = [quote EXCEPT ![q] = [order |-> o, status |-> "quoted"]]

Opens(s, kind, os, qs) ==
  /\ FreshSession(s)
  /\ session' = [session EXCEPT ![s] = [kind |-> kind, orders |-> os, quotes |-> qs]]

-----------------------------------------------------------------------------
(* Quotes and single orders.                                                 *)

create_quote(q) ==
  /\ persist_quote(q, NoOrder)
  /\ UNCHANGED <<order, link, session, reported, event, application, failures>>

Unbound(q, o) == quote[q].status # "none" /\ quote[q].order \in {NoOrder, o}

Bind(q, o) == quote' = [quote EXCEPT ![q].order = o]

\* An order, with or without a quote.  A quote that does not fit is refused
\* only after the order is there.
create_order(o) ==
  /\ create_formation({o})
  /\ \/ UNCHANGED quote
     \/ \E q \in Quotes : Unbound(q, o) /\ Bind(q, o)
  /\ UNCHANGED <<link, session, reported, event, application, failures>>

create_service_order(o, q) ==
  /\ create_formation({o})
  /\ persist_quote(q, o)
  /\ UNCHANGED <<link, session, reported, event, application, failures>>

\* A checkout that captures at once, of the order's own amounts.
create_checkout_session(o, s) ==
  /\ Exists(o)
  /\ Opens(s, "direct", {o}, {})
  /\ UNCHANGED <<order, link, quote, reported, event, application, failures>>

QuotesOf(o) == {q \in Quotes : quote[q].order = o}

\* An authorization for the quote named, or the order's own.  The quote named
\* becomes the order's, whichever order it was bound to.
authorize_order(o, s) ==
  /\ Exists(o)
  /\ \/ /\ QuotesOf(o) = {}
        /\ Opens(s, "authorize", {o}, {})
        /\ UNCHANGED quote
     \/ \E q \in Quotes :
          /\ quote[q].status # "none"
          /\ Opens(s, "authorize", {o}, {q})
          /\ quote' = [quote EXCEPT ![q] = [order |-> o, status |-> "authorization_started"]]
  /\ UNCHANGED <<order, link, reported, event, application, failures>>

-----------------------------------------------------------------------------
(* The cart.                                                                 *)

\* Each order with a quote of its own, and one session for all of them.
Quoted(os, chosen) ==
  quote' = [q \in Quotes |->
    IF \E o \in os : chosen[o] = q
    THEN [order |-> CHOOSE o \in os : chosen[o] = q, status |-> "checkout_started"]
    ELSE quote[q]]

Choices(os) ==
  {c \in [os -> FreshQuotes] : \A a, b \in os : c[a] = c[b] => a = b}

create_formation_cart_checkout(os, s) ==
  /\ os # {}
  /\ create_formation(os)
  /\ \E chosen \in Choices(os) :
       Quoted(os, chosen) /\ Opens(s, "cart", os, {chosen[o] : o \in os})
  /\ UNCHANGED <<link, reported, event, application, failures>>

\* Stripe refuses, or the server stops: some orders and no session.
cart_cut_short(os) ==
  /\ os # {}
  /\ create_formation(os)
  /\ Fails
  /\ UNCHANGED <<link, quote, session, reported, event, application>>

-----------------------------------------------------------------------------
(* The partner API.                                                          *)

LinkedTo(e) == {o \in Orders : link[o] = e}

\* Faulty: a replay is taken for a new order.
KnownNever(e) == FALSE

\* A replay of a known external id answers with its order.
Known(e) == LinkedTo(e) # {}

\* The checkout it may open is authorize_order's.
create_partner_formation(o, e) ==
  /\ application.partner
  /\ ~Known(e)
  /\ create_formation({o})
  /\ link' = [link EXCEPT ![o] = e]
  /\ \/ UNCHANGED quote
     \/ \E q \in Quotes :
          quote[q].status # "none" /\ quote[q].order = NoOrder /\ Bind(q, o)
  /\ UNCHANGED <<session, reported, event, application, failures>>

\* The order is made and bound, and its link to the partner is lost.
partner_formation_cut_short(o, e) ==
  /\ application.partner
  /\ ~Known(e)
  /\ create_formation({o})
  /\ \/ UNCHANGED quote
     \/ \E q \in Quotes :
          quote[q].status # "none" /\ quote[q].order = NoOrder /\ Bind(q, o)
  /\ Fails
  /\ UNCHANGED <<link, session, reported, event, application>>

submit_partner_application ==
  /\ application.status = "none"
  /\ application' = [application EXCEPT !.status = "submitted"]
  /\ UNCHANGED <<order, link, quote, session, reported, event, failures>>

\* Faulty: a new checkout of an application already paid.
application_checkout_again(s) ==
  /\ application.status # "none"
  /\ Opens(s, "partner_application", {}, {})
  /\ application' = [application EXCEPT !.payment = "checkout_started"]
  /\ UNCHANGED <<order, link, quote, reported, event, failures>>

\* Where the environment asks no fee, the payment is waived; a restart may
\* change what it asks.
create_partner_application_checkout(s) ==
  /\ application.status # "none"
  /\ application.payment # "paid"
  /\ \/ /\ Opens(s, "partner_application", {}, {})
        /\ application' = [application EXCEPT !.payment = "checkout_started"]
     \/ /\ application' = [application EXCEPT !.payment = "waived"]
        /\ UNCHANGED session
  /\ UNCHANGED <<order, link, quote, reported, event, failures>>

\* Approval makes the partner and its key; the operator may not ask for payment.
approve_admin_partner_application(require_payment) ==
  /\ application.status # "none"
  /\ require_payment => application.payment \in {"paid", "waived"}
  /\ application' = [application EXCEPT !.status = "approved", !.partner = TRUE]
  /\ UNCHANGED <<order, link, quote, session, reported, event, failures>>

\* A partner once made keeps its keys.
reject_admin_partner_application ==
  /\ application.status # "none"
  /\ application' = [application EXCEPT !.status = "rejected"]
  /\ UNCHANGED <<order, link, quote, session, reported, event, failures>>

-----------------------------------------------------------------------------
(* The customer pays, an authorization lapses, and Stripe says so until a    *)
(* handler comes to its end.                                                 *)

CustomerPays(s) ==
  /\ ~FreshSession(s) /\ event[s] = "none"
  /\ event' = [event EXCEPT ![s] = "sent"]
  /\ UNCHANGED <<order, link, quote, session, reported, application, failures>>

\* Of the checkouts made here only an authorization is not captured at once.
AuthorizationLapses(s) ==
  /\ session[s].kind = "authorize"
  /\ event[s] # "none" /\ lapse[s] = "none"
  /\ lapse' = [lapse EXCEPT ![s] = "sent"]
  /\ UNCHANGED <<order, intent, link, quote, session, booked, event, application, failures>>

SetOrders(os, status) ==
  order' = [o \in Orders |-> IF o \in os THEN status ELSE order[o]]

SetQuotes(qs, status) ==
  quote' = [q \in Quotes |->
    IF q \in qs THEN [quote[q] EXCEPT !.status = status] ELSE quote[q]]

\* The session's orders get its status and its payment intent.
Paid(s, status) ==
  /\ SetOrders(session[s].orders, status)
  /\ intent' = [o \in Orders |-> IF o \in session[s].orders THEN s ELSE intent[o]]

\* The rows of the tables, committed before the ledger's.
SessionCompleted(s) ==
  LET kind == session[s].kind
  IN  \/ /\ kind = "authorize"
         /\ Paid(s, "payment_authorized")
         /\ SetQuotes(session[s].quotes, "authorized")
         /\ UNCHANGED application
      \/ /\ kind = "direct"
         /\ Paid(s, "paid")
         /\ UNCHANGED <<quote, application>>
      \/ /\ kind = "cart"
         /\ Paid(s, "payment_captured")
         /\ SetQuotes(session[s].quotes, "captured")
         /\ UNCHANGED application
      \/ /\ kind = "partner_application"
         /\ application' = [application EXCEPT !.payment = "paid"]
         /\ UNCHANGED <<order, intent, quote>>

Books(s) == session[s].kind \in {"direct", "cart"}

\* Faulty: the cart's charge is booked with its first order alone.
BookFirst(os, s) ==
  booked' = [o \in Orders |->
    IF os # {} /\ o = (CHOOSE f \in os : TRUE) THEN booked[o] \cup {s} ELSE booked[o]]

Book(os, s) ==
  booked' = [o \in Orders |-> IF o \in os THEN booked[o] \cup {s} ELSE booked[o]]

Due(s) == event[s] \in {"sent", "failed"}

stripe_webhook(s) ==
  /\ Due(s)
  /\ SessionCompleted(s)
  /\ Book(IF Books(s) THEN session[s].orders ELSE {}, s)
  /\ event' = [event EXCEPT ![s] = "processed"]
  /\ UNCHANGED <<link, session, lapse, failures>>

\* The handler raises between two of the ledger's rows.
stripe_webhook_fails(s) ==
  /\ Due(s)
  /\ SessionCompleted(s)
  /\ \E done \in SUBSET session[s].orders : Book(IF Books(s) THEN done ELSE {}, s)
  /\ event' = [event EXCEPT ![s] = "failed"]
  /\ Fails
  /\ UNCHANGED <<link, session, lapse>>

\* Faulty: the orders the session was opened for.
OpenedFor(s) == session[s].orders

\* An intent is looked up among the orders; only a cart's is several orders'.
Linked(s) == {o \in Orders : intent[o] = s}

\* The order waits for its payment again, and so does its latest quote,
\* whichever of them that is.  The handler may raise after this commit.
payment_intent_canceled(s) ==
  /\ lapse[s] \in {"sent", "failed"}
  /\ SetOrders(Linked(s), "pending_payment")
  /\ LET quotes == UNION {QuotesOf(o) : o \in Linked(s)}
     IN  \/ quotes = {} /\ UNCHANGED quote
         \/ \E latest \in quotes : SetQuotes({latest}, "authorization_canceled")
  /\ \/ lapse' = [lapse EXCEPT ![s] = "processed"] /\ UNCHANGED failures
     \/ lapse' = [lapse EXCEPT ![s] = "failed"] /\ Fails
  /\ UNCHANGED <<intent, link, session, booked, event, application>>

-----------------------------------------------------------------------------
OrderStep(o) ==
  \/ create_order(o)
  \/ \E q \in Quotes : create_service_order(o, q)
  \/ \E s \in Sessions : create_checkout_session(o, s) \/ authorize_order(o, s)
  \/ \E e \in Externals : create_partner_formation(o, e) \/ partner_formation_cut_short(o, e)

CartStep(os) ==
  \/ \E s \in Sessions : create_formation_cart_checkout(os, s)
  \/ cart_cut_short(os)

ApplicationStep ==
  \/ submit_partner_application
  \/ \E s \in Sessions : create_partner_application_checkout(s)
  \/ \E require_payment \in BOOLEAN : approve_admin_partner_application(require_payment)
  \/ reject_admin_partner_application

Next ==
  \/ \E q \in Quotes : create_quote(q)
  \/ \E o \in Orders : OrderStep(o)
  \/ \E os \in SUBSET Orders : CartStep(os)
  \/ ApplicationStep
  \/ \E s \in Sessions :
       \/ CustomerPays(s) \/ stripe_webhook(s) \/ stripe_webhook_fails(s)
       \/ AuthorizationLapses(s) \/ payment_intent_canceled(s)

Spec == Init /\ [][Next]_vars

-----------------------------------------------------------------------------
(* Properties.                                                               *)

\* A partner may repeat a request: its order id names one order at most,
\* whatever quotes and restarts came in between.
OneOrderPerExternalId == \A e \in Externals : Cardinality(LinkedTo(e)) <= 1

\* When Stripe's event is done with, the charge is booked with every order of
\* the checkout, although handlers fail half way and repeat.
PaidIsBooked ==
  \A s \in Sessions :
    event[s] = "processed" /\ Books(s) => \A o \in session[s].orders : s \in booked[o]

\* An order whose checkout was reported waits for payment again only if the
\* payment it stands on was canceled: never for an older authorization that
\* lapses after another checkout paid, nor for one Stripe reports again.
PaidStaysPaid ==
  \A s \in Sessions :
    event[s] = "processed" =>
      \A o \in session[s].orders :
        order[o] = "pending_payment" =>
          intent[o] \in Sessions /\ lapse[intent[o]] # "none"

\* A setup fee, once paid, is never asked for again, by whichever of several
\* checkouts it was paid.
FeeIsFinal ==
  [][application.payment = "paid" => application'.payment = "paid"]_vars

\* "Quote is already bound to a different order" (create_order): money that is
\* authorized on a quote is money of the order the quote is bound to.
QuotedMoneyIsTheOrders ==
  \A q \in Quotes :
    quote[q].status \in {"authorized", "captured"} =>
      order[quote[q].order] \in {"payment_authorized", "payment_captured", "paid"}
=============================================================================
