------------------------------- MODULE Payment -------------------------------
(***************************************************************************)
(* The charge of one order: the quotes that are made its own, the checkouts*)
(* that authorize or pay it, the operator's fee reconciliation, a          *)
(* supplemental authorization, the capture, and Stripe's webhooks about    *)
(* all of them.  An order may have several quotes, and the endpoints read  *)
(* the newest; a quote may be taken over from, or by, another order.       *)
(*                                                                         *)
(* Stripe (external) holds sessions and intents and delivers each event    *)
(* until it is answered 200, in any order.  The server remembers an event  *)
(* in stripe_webhook_events: begin records it, finish closes it.  Between  *)
(* the two a handler commits twice, the order and quote first and the      *)
(* ledger after, and each may raise (the workers write the same SQLite     *)
(* file) or be cut off by a restart.                                       *)
(***************************************************************************)
EXTENDS Naturals, FiniteSetsExt

CONSTANTS
  Sessions,   \* Stripe checkout sessions; each has one PaymentIntent
  MaxQuotes,  \* how many quotes there are, numbered as they were created
  Shared,     \* those that a checkout of another order may name too
  Estimate,   \* the total the customer saw
  Amounts,    \* what an operator may reconcile to, capture or ask for
  Faults,     \* how a handler may end early: "failed", "processing"
  MaxFaults,  \* how often
  MaxCrashes  \* restarts between Stripe's capture and its record

ASSUME PaymentAssumption ==
  /\ MaxQuotes \in Nat
  /\ Shared \subseteq 1..MaxQuotes
  /\ Estimate \in Nat \ {0}
  /\ Amounts \subseteq Nat \ {0}
  /\ Faults \subseteq {"failed", "processing"}
  /\ MaxFaults \in Nat
  /\ MaxCrashes \in Nat

Quotes == 1..MaxQuotes
NoQuote == 0

VARIABLES
  session,  \* each session's amount, and its kind and quote in the metadata
  intent,   \* the state of its PaymentIntent
  taken,    \* what Stripe captured of it
  event,    \* each webhook event: not sent, due, or its row's status
  order,    \* orders.status, as far as payments write it
  linked,   \* orders.stripe_payment_intent
  quote,    \* the execution_quotes rows
  ledger,   \* the payment_ledger rows that are read again, by idempotency key
  charged,  \* the quote on which the capture endpoint charged a session
  faults, crashes

stripeVars == <<session, intent, taken>>
vars == <<session, intent, taken, event, order, linked, quote, ledger,
          charged, faults, crashes>>

NoSession == [kind |-> "none", amount |-> 0, quote |-> NoQuote]
NoIntent == "none"
SessionKinds == {"none", "authorize", "direct", "additional"}
IntentStates == {"none", "requires_capture", "succeeded", "canceled"}
EventTypes == {"completed", "capturable", "succeeded", "canceled"}
EventStates == {"none", "due", "processing", "processed", "failed"}
QuoteStates ==
  {"quoted", "authorization_started", "authorized", "ready_to_capture",
   "additional_authorization_required", "additional_authorization_started",
   "captured", "authorization_canceled"}
LedgerEvents ==
  {"authorization_started", "authorized", "additional_authorization_received",
   "captured", "captured_dry_run", "authorization_canceled"}
OrderStates == {"pending_payment", "payment_authorized", "payment_captured", "paid"}

SessionRows == [kind: SessionKinds, amount: Nat, quote: Quotes \cup {NoQuote}]

\* A row of execution_quotes; bound: its order_id is this order's.
QuoteRows ==
  [bound: BOOLEAN, total: Nat \ {0}, authorized: Nat, captured: Nat, status: QuoteStates]

TypeOK ==
  /\ session \in [Sessions -> SessionRows]
  /\ intent \in [Sessions -> IntentStates]
  /\ taken \in [Sessions -> Nat]
  /\ event \in [EventTypes \X Sessions -> EventStates]
  /\ order \in OrderStates
  /\ linked \in Sessions \cup {NoIntent}
  /\ quote \in [Quotes -> QuoteRows]
  /\ ledger \subseteq
       [event: LedgerEvents, amount: Nat, intent: Sessions \cup {NoIntent}]
  /\ charged \in [Sessions -> Quotes \cup {NoQuote}]
  /\ faults \in 0..MaxFaults
  /\ crashes \in 0..MaxCrashes

\* The order was made with one of the quotes, or with none.
Init ==
  /\ session = [s \in Sessions |-> NoSession]
  /\ intent = [s \in Sessions |-> "none"]
  /\ taken = [s \in Sessions |-> 0]
  /\ event = [e \in EventTypes \X Sessions |-> "none"]
  /\ order = "pending_payment"
  /\ linked = NoIntent
  /\ \E first \in Quotes \cup {NoQuote} :
       quote = [q \in Quotes |-> [bound |-> q = first, total |-> Estimate,
                                 authorized |-> 0, captured |-> 0, status |-> "quoted"]]
  /\ ledger = {}
  /\ charged = [s \in Sessions |-> NoQuote]
  /\ faults = 0 /\ crashes = 0

-----------------------------------------------------------------------------
(* Stripe and the customer.                                                  *)

Send(types, s) ==
  event' = [e \in EventTypes \X Sessions |->
             IF e[1] \in types /\ e[2] = s THEN "due" ELSE event[e]]

\* A direct checkout is captured as it is paid.
CustomerPays(s) ==
  /\ session[s] # NoSession
  /\ intent[s] = "none"
  /\ IF session[s].kind = "direct"
     THEN /\ intent' = [intent EXCEPT ![s] = "succeeded"]
          /\ taken' = [taken EXCEPT ![s] = session[s].amount]
          /\ Send({"completed", "succeeded"}, s)
     ELSE /\ intent' = [intent EXCEPT ![s] = "requires_capture"]
          /\ UNCHANGED taken
          /\ Send({"completed", "capturable"}, s)
  /\ UNCHANGED <<session, order, linked, quote, ledger, charged, faults, crashes>>

\* An authorization lapses, or is canceled in Stripe's dashboard.
AuthorizationLapses(s) ==
  /\ intent[s] = "requires_capture"
  /\ intent' = [intent EXCEPT ![s] = "canceled"]
  /\ Send({"canceled"}, s)
  /\ UNCHANGED <<session, taken, order, linked, quote, ledger, charged, faults,
                 crashes>>

StripeCapture(s, amount) ==
  /\ intent[s] = "requires_capture"
  /\ amount <= session[s].amount
  /\ intent' = [intent EXCEPT ![s] = "succeeded"]
  /\ taken' = [taken EXCEPT ![s] = amount]
  /\ Send({"succeeded"}, s)

-----------------------------------------------------------------------------
(* The customer's and the operator's endpoints.                              *)

\* latest_quote_for_order: the newest of the order's quotes, whichever was
\* bound to it last.
IsLatest(q) == quote[q].bound /\ \A r \in Quotes : quote[r].bound => r <= q
HasQuote == \E q \in Quotes : quote[q].bound

Row(e, amount, s) == [event |-> e, amount |-> amount, intent |-> s]

\* What a quote was authorized for; failing that, what the ledger says was.
authorized_total(q) ==
  IF quote[q].authorized > 0 THEN quote[q].authorized
  ELSE MapThenSumSet(LAMBDA row : row.amount,
                     {row \in ledger : row.event \in {"authorized", "authorization_started"}})

payment_reconciliation_status(q) ==
  IF quote[q].captured > 0 THEN "captured"
  ELSE IF quote[q].status \in {"authorized", "authorization_started"} /\ authorized_total(q) > 0
  THEN "authorized_pending_reconcile" ELSE quote[q].status

SetQuote(q, row) == quote' = [quote EXCEPT ![q] = row]

Opens(s, kind, amount, q) ==
  /\ session[s] = NoSession
  /\ session' = [session EXCEPT ![s] = [kind |-> kind, amount |-> amount, quote |-> q]]

\* The quote named in the request, whosever it is, or the order's latest: it
\* is bound to the order and counts as authorized before anybody has paid.
\* An order without a quote is authorized for its own fees.
authorize_order(s, q) ==
  /\ \/ /\ q \in Quotes
        /\ Opens(s, "authorize", quote[q].total, q)
        /\ SetQuote(q, [quote[q] EXCEPT !.bound = TRUE, !.authorized = quote[q].total,
                                        !.status = "authorization_started"])
     \/ /\ q = NoQuote /\ ~HasQuote
        /\ Opens(s, "authorize", Estimate, NoQuote)
        /\ UNCHANGED quote
  /\ ledger' = ledger \cup {Row("authorization_started", session'[s].amount, s)}
  /\ UNCHANGED <<intent, taken, event, order, linked, charged, faults, crashes>>

\* The other checkout endpoint: the order's own fees, captured at once.
create_checkout_session(s) ==
  /\ Opens(s, "direct", Estimate, NoQuote)
  /\ UNCHANGED <<intent, taken, event, order, linked, quote, ledger, charged, faults, crashes>>

\* authorize_order for another order, with a quote of this one or its own,
\* and the record of that order's capture.
authorize_other_order(q) ==
  /\ SetQuote(q, [quote[q] EXCEPT !.bound = FALSE, !.authorized = quote[q].total,
                                  !.status = "authorization_started"])
  /\ UNCHANGED <<stripeVars, event, order, linked, ledger, charged, faults, crashes>>

other_order_captured(q) ==
  /\ ~quote[q].bound
  /\ quote[q].captured = 0 /\ quote[q].authorized > 0
  /\ SetQuote(q, [quote[q] EXCEPT !.captured = quote[q].authorized, !.status = "captured"])
  /\ UNCHANGED <<stripeVars, event, order, linked, ledger, charged, faults, crashes>>

reconcile_order_payment(q, final) ==
  /\ IsLatest(q)
  /\ authorized_total(q) > 0
  /\ SetQuote(q, [quote[q] EXCEPT
       !.total = final,
       !.status = IF final > authorized_total(q)
                  THEN "additional_authorization_required" ELSE "ready_to_capture"])
  /\ UNCHANGED <<stripeVars, event, order, linked, ledger, charged, faults, crashes>>

request_additional_authorization(s, q, delta) ==
  /\ IsLatest(q)
  /\ payment_reconciliation_status(q)
       \in {"additional_authorization_required", "authorized_pending_reconcile",
            "ready_to_capture"}
  /\ Opens(s, "additional", delta, q)
  /\ SetQuote(q, [quote[q] EXCEPT !.status = "additional_authorization_started"])
  /\ UNCHANGED <<intent, taken, event, order, linked, ledger, charged, faults, crashes>>

\* Faulty: the stored status believed, whatever was captured before.
MayCaptureAgain(q, amount) ==
  /\ IsLatest(q)
  /\ quote[q].status = "ready_to_capture"
  /\ amount <= authorized_total(q)

MayCapture(q, amount) ==
  /\ IsLatest(q)
  /\ payment_reconciliation_status(q) = "ready_to_capture"
  /\ amount <= authorized_total(q)

\* Without a PaymentIntent the capture is recorded as a dry run.
capture_order_payment(q, amount) ==
  /\ MayCapture(q, amount)
  /\ IF linked = NoIntent
     THEN UNCHANGED <<intent, taken, event, charged>>
     ELSE /\ StripeCapture(linked, amount)
          /\ charged' = [charged EXCEPT ![linked] = q]
  /\ order' = "payment_captured"
  /\ SetQuote(q, [quote[q] EXCEPT !.captured = amount, !.status = "captured"])
  /\ ledger' = ledger \cup
       {Row(IF linked = NoIntent THEN "captured_dry_run" ELSE "captured", amount, linked)}
  /\ UNCHANGED <<session, linked, faults, crashes>>

\* Stripe has captured when the server goes down, before its commit.
capture_lost(q, amount) ==
  /\ crashes < MaxCrashes
  /\ crashes' = crashes + 1
  /\ MayCapture(q, amount)
  /\ linked # NoIntent
  /\ StripeCapture(linked, amount)
  /\ charged' = [charged EXCEPT ![linked] = q]
  /\ UNCHANGED <<session, order, linked, quote, ledger, faults>>

-----------------------------------------------------------------------------
(* The webhooks: what each event commits to order and quote, and the ledger  *)
(* row that follows in a transaction of its own.                             *)

\* The quote of the session's metadata, bound to the order or not.
SetQuoted(s, row(_)) ==
  quote' = [q \in Quotes |-> IF q = session[s].quote THEN row(quote[q]) ELSE quote[q]]

\* The order's latest quote, if there is one.
SetLatest(row(_)) ==
  quote' = [q \in Quotes |-> IF IsLatest(q) THEN row(quote[q]) ELSE quote[q]]

Authorized(row, amount) == [row EXCEPT !.authorized = amount, !.status = "authorized"]

\* Faulty: a new authorization starts the quote's totals afresh.
authorized_afresh(s) ==
  /\ order' = "payment_authorized"
  /\ linked' = s
  /\ SetQuoted(s, LAMBDA row : [Authorized(row, session[s].amount) EXCEPT !.captured = 0])

\* Of a session that authorizes: a supplement leaves the intent linked.
authorized_from_session(s) ==
  /\ order' = "payment_authorized"
  /\ IF session[s].kind = "authorize"
     THEN linked' = s /\ SetQuoted(s, LAMBDA row : Authorized(row, session[s].amount))
     ELSE /\ UNCHANGED linked
          /\ SetQuoted(s, LAMBDA row : Authorized(row, row.authorized + session[s].amount))

\* Of a direct checkout: no quote is written.
paid_from_session(s) ==
  /\ order' = "paid"
  /\ linked' = s
  /\ UNCHANGED quote

larger(a, b) == IF a > b THEN a ELSE b

payment_intent_capturable(s) ==
  /\ SetLatest(LAMBDA row : [row EXCEPT
       !.authorized = larger(@, session[s].amount),
       !.status = IF @ = "quoted" THEN "authorized" ELSE @])
  /\ UNCHANGED <<order, linked>>

payment_intent_succeeded(s) ==
  /\ order' = "payment_captured"
  /\ SetLatest(LAMBDA row : [row EXCEPT
       !.captured = larger(@, taken[s]), !.status = "captured"])
  /\ UNCHANGED linked

\* Faulty: Stripe's word for the intent stored as the status.
payment_intent_canceled_raw ==
  /\ order' = "pending_payment"
  /\ SetLatest(LAMBDA row : [row EXCEPT !.status = "canceled"])
  /\ UNCHANGED linked

payment_intent_canceled ==
  /\ order' = "pending_payment"
  /\ SetLatest(LAMBDA row : [row EXCEPT !.status = "authorization_canceled"])
  /\ UNCHANGED linked

\* An intent is looked up among the orders: no order, nothing to do.
Found(e) == e[1] = "completed" \/ linked = e[2]

Tables(e) ==
  \/ ~Found(e) /\ UNCHANGED <<order, linked, quote>>
  \/ /\ Found(e)
     /\ \/ e[1] = "completed" /\ session[e[2]].kind # "direct" /\ authorized_from_session(e[2])
        \/ e[1] = "completed" /\ session[e[2]].kind = "direct" /\ paid_from_session(e[2])
        \/ e[1] = "capturable" /\ payment_intent_capturable(e[2])
        \/ e[1] = "succeeded" /\ payment_intent_succeeded(e[2])
        \/ e[1] = "canceled" /\ payment_intent_canceled

\* Faulty: a capture booked with what was authorized.
LedgerRowsAuthorized(e) ==
  IF Found(e) /\ e[1] = "succeeded"
  THEN {Row("captured", session[e[2]].amount, e[2])} ELSE {}

LedgerRows(e) ==
  LET s == e[2]
      completed == CASE session[s].kind = "authorize" -> "authorized"
                     [] session[s].kind = "direct" -> "captured"
                     [] OTHER -> "additional_authorization_received"
  IN  IF ~Found(e) THEN {}
      ELSE IF e[1] = "completed" THEN {Row(completed, session[s].amount, s)}
      ELSE IF e[1] = "succeeded" THEN {Row("captured", taken[s], s)}
      ELSE IF e[1] = "canceled" THEN {Row("authorization_canceled", session[s].amount, s)}
      ELSE {}

\* Faulty: every event once, also when its handler raised.
AdmittedOnce(e) == event[e] = "due"

\* begin lets in an event it has not seen, or whose handler raised.
Admitted(e) == event[e] \in {"due", "failed"}

stripe_webhook(e) ==
  /\ Admitted(e)
  /\ event' = [event EXCEPT ![e] = "processed"]
  /\ Tables(e)
  /\ ledger' = ledger \cup LedgerRows(e)
  /\ UNCHANGED <<stripeVars, charged, faults, crashes>>

\* The handler raises, or the process dies, before its first commit, after
\* it, or after the ledger row as well.
stripe_webhook_cut_short(e, end) ==
  /\ Admitted(e)
  /\ faults < MaxFaults
  /\ faults' = faults + 1
  /\ event' = [event EXCEPT ![e] = end]
  /\ \/ UNCHANGED <<order, linked, quote, ledger>>
     \/ /\ Tables(e)
        /\ \E rows \in {{}, LedgerRows(e)} : ledger' = ledger \cup rows
  /\ UNCHANGED <<stripeVars, charged, crashes>>

-----------------------------------------------------------------------------
Next ==
  \/ \E s \in Sessions :
       \/ CustomerPays(s)
       \/ AuthorizationLapses(s)
       \/ \E q \in Quotes \cup {NoQuote} : authorize_order(s, q)
       \/ create_checkout_session(s)
       \/ \E q \in Quotes, delta \in Amounts : request_additional_authorization(s, q, delta)
  \/ \E q \in Shared : authorize_other_order(q) \/ other_order_captured(q)
  \/ \E q \in Quotes, amount \in Amounts :
       \/ reconcile_order_payment(q, amount)
       \/ capture_order_payment(q, amount)
       \/ capture_lost(q, amount)
  \/ \E e \in EventTypes \X Sessions :
       \/ stripe_webhook(e)
       \/ \E end \in Faults : stripe_webhook_cut_short(e, end)

Spec == Init /\ [][Next]_vars

\* Stripe redelivers an event until its handler gets through.
Fairness == \A e \in EventTypes \X Sessions : WF_vars(stripe_webhook(e))

FairSpec == Spec /\ Fairness

-----------------------------------------------------------------------------
(* Properties.                                                               *)

\* Every row 'captured' of the ledger is money Stripe took, of that intent and
\* in that amount, whichever of the endpoint and the webhook wrote it.
LedgerIsReal ==
  \A row \in ledger :
    row.event = "captured" =>
      /\ row.intent \in Sessions
      /\ intent[row.intent] = "succeeded"
      /\ taken[row.intent] = row.amount

\* The capture endpoint never charges twice on one quote, however many
\* checkouts were paid and in whatever order their events relink the order, as
\* long as no restart loses the record of the first capture.
ChargedOncePerQuote ==
  \A s, t \in Sessions : charged[s] # NoQuote /\ charged[s] = charged[t] => s = t

\* The submission gate reads the captured total of the latest quote.  No later
\* checkout, reconciliation, cancellation or redelivery, of this order or of
\* another that takes the quote, lowers what a quote says was captured: the
\* gate shuts again only when another quote becomes the order's latest.
CaptureIsFinal ==
  [][\A q \in Quotes : quote'[q].captured >= quote[q].captured]_vars

\* Stripe reports a charge until it is booked, although a restart lost the
\* server's own record or a handler failed: unless another checkout has taken
\* the order's place for a payment intent, which a direct charge does not need.
CaptureIsRecorded ==
  \A s \in Sessions :
    (/\ taken[s] > 0
     /\ event[<<IF session[s].kind = "direct" THEN "completed" ELSE "succeeded", s>>] \in {"due", "failed"})
    ~> \/ Row("captured", taken[s], s) \in ledger
       \/ session[s].kind # "direct" /\ linked # s

\* A payment Stripe reports shows on the order, although a handler fails.
PaidIsNoticed ==
  \A s \in Sessions :
    event[<<"completed", s>>] \in {"due", "failed"} ~> order # "pending_payment"

-----------------------------------------------------------------------------
(* Statements the code refutes.                                              *)

\* "Webhook idempotency": an event that is delivered again is not counted
\* again, so no quote holds more than the sessions add up to.
CountedOnce ==
  \A q \in Quotes :
    quote[q].authorized <= MapThenSumSet(LAMBDA s : session[s].amount, Sessions)

\* A customer who pays two checkouts of one order is charged for one.
ChargedOnce ==
  \A s, t \in Sessions : charged[s] # NoQuote /\ charged[t] # NoQuote => s = t

\* Every charge is booked in the end, whatever else is paid.
AllIsRecorded ==
  \A s \in Sessions : taken[s] > 0 ~> Row("captured", taken[s], s) \in ledger
=============================================================================
