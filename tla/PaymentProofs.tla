---------------------------- MODULE PaymentProofs ----------------------------
(***************************************************************************)
(* What holds of Payment for every set of sessions and every amount.       *)
(***************************************************************************)
EXTENDS Payment, TLAPS

\* What the two kinds of webhook handling have in common.
Handling(e) ==
  stripe_webhook(e) \/ \E end \in Faults : stripe_webhook_cut_short(e, end)

\* Next, taken apart: the cases every proof below goes through.
LEMMA NextCases ==
  ASSUME Next
  PROVE  \/ \E s \in Sessions : CustomerPays(s) \/ AuthorizationLapses(s)
         \/ \E s \in Sessions, q \in Quotes \cup {NoQuote} : authorize_order(s, q)
         \/ \E s \in Sessions : create_checkout_session(s)
         \/ \E s \in Sessions, q \in Quotes, delta \in Amounts :
              request_additional_authorization(s, q, delta)
         \/ \E q \in Quotes : authorize_other_order(q) \/ other_order_captured(q)
         \/ \E q \in Quotes, amount \in Amounts : reconcile_order_payment(q, amount)
         \/ \E q \in Quotes, amount \in Amounts : capture_order_payment(q, amount)
         \/ \E q \in Quotes, amount \in Amounts : capture_lost(q, amount)
         \/ \E e \in EventTypes \X Sessions : Handling(e)
<1> Shared \subseteq Quotes BY PaymentAssumption DEF Quotes
<1> QED BY Zenon DEF Next, Handling

\* A webhook leaves Stripe alone; it changes the tables as Tables says, or not.
LEMMA HandlingFacts ==
  ASSUME TypeOK, NEW e \in EventTypes \X Sessions, Handling(e)
  PROVE  /\ UNCHANGED <<session, intent, taken, charged, crashes>>
         /\ event[e] \in {"due", "failed"}
         /\ \E end \in EventStates \ {"none"} : event' = [event EXCEPT ![e] = end]
         /\ Tables(e) \/ UNCHANGED <<order, linked, quote>>
         /\ ledger' = ledger \/ ledger' = ledger \cup LedgerRows(e)
         /\ faults' \in 0..MaxFaults
<1>1. CASE stripe_webhook(e)
  BY <1>1 DEF stripe_webhook, stripeVars, Admitted, EventStates, TypeOK
<1>2. ASSUME NEW end \in Faults, stripe_webhook_cut_short(e, end)
      PROVE  /\ UNCHANGED <<session, intent, taken, charged, crashes>>
             /\ event[e] \in {"due", "failed"}
             /\ \E x \in EventStates \ {"none"} : event' = [event EXCEPT ![e] = x]
             /\ Tables(e) \/ UNCHANGED <<order, linked, quote>>
             /\ ledger' = ledger \/ ledger' = ledger \cup LedgerRows(e)
             /\ faults' \in 0..MaxFaults
  <2>1. end \in EventStates \ {"none"} BY PaymentAssumption DEF EventStates
  <2>2. ledger' = ledger \/ ledger' = ledger \cup LedgerRows(e)
    BY <1>2, Zenon DEF stripe_webhook_cut_short
  <2>3. Tables(e) \/ UNCHANGED <<order, linked, quote>>
    BY <1>2, Zenon DEF stripe_webhook_cut_short
  <2>4. faults' \in 0..MaxFaults
    BY <1>2, PaymentAssumption DEF stripe_webhook_cut_short, TypeOK
  <2> QED BY <1>2, <2>1, <2>2, <2>3, <2>4 DEF stripe_webhook_cut_short, stripeVars, Admitted
<1> QED BY <1>1, <1>2 DEF Handling

LedgerType == [event: LedgerEvents, amount: Nat, intent: Sessions \cup {NoIntent}]

\* The rows a webhook writes are rows of the ledger; a capture is booked only
\* for payment_intent.succeeded, with what Stripe took, or for the completed
\* session of a direct checkout, with its amount.
LEMMA LedgerRowsFacts ==
  ASSUME TypeOK, NEW e \in EventTypes \X Sessions, NEW row \in LedgerRows(e)
  PROVE  /\ row \in LedgerType
         /\ row.event = "captured" =>
              /\ row.intent = e[2]
              /\ \/ e[1] = "succeeded" /\ row.amount = taken[e[2]]
                 \/ /\ e[1] = "completed" /\ session[e[2]].kind = "direct"
                    /\ row.amount = session[e[2]].amount
<1>1. e[2] \in Sessions /\ session[e[2]] \in SessionRows /\ taken[e[2]] \in Nat
  BY DEF TypeOK
<1>2. session[e[2]].amount \in Nat BY <1>1 DEF SessionRows
<1>3. PICK kind \in {"authorized", "captured", "additional_authorization_received"} :
        /\ kind = "captured" => session[e[2]].kind = "direct"
        /\ \/ e[1] = "completed" /\ row = Row(kind, session[e[2]].amount, e[2])
           \/ e[1] = "succeeded" /\ row = Row("captured", taken[e[2]], e[2])
           \/ row = Row("authorization_canceled", session[e[2]].amount, e[2])
  BY DEF LedgerRows
<1> QED BY <1>1, <1>2, <1>3 DEF Row, LedgerEvents, LedgerType

\* A quote written with other totals, binding and status is a quote.
LEMMA QuoteUpdates ==
  ASSUME NEW row \in QuoteRows, NEW n \in Nat, NEW total \in Nat \ {0},
         NEW b \in BOOLEAN, NEW st \in QuoteStates
  PROVE  /\ [row EXCEPT !.status = st] \in QuoteRows
         /\ [row EXCEPT !.total = total, !.status = st] \in QuoteRows
         /\ [row EXCEPT !.authorized = n, !.status = st] \in QuoteRows
         /\ [row EXCEPT !.captured = n, !.status = st] \in QuoteRows
         /\ [row EXCEPT !.bound = b, !.authorized = n, !.status = st] \in QuoteRows
BY DEF QuoteRows

\* What a step does to the quotes and to what they say was captured: they stay
\* quotes, and none forgets a capture.
QuotesKept ==
  /\ quote' \in [Quotes -> QuoteRows]
  /\ \A q \in Quotes : quote'[q].captured >= quote[q].captured

\* One quote written with a row that forgets nothing.
LEMMA SetQuoteKeeps ==
  ASSUME TypeOK, NEW q \in Quotes, NEW row \in QuoteRows,
         row.captured >= quote[q].captured, SetQuote(q, row)
  PROVE  QuotesKept
BY DEF SetQuote, QuotesKept, TypeOK, QuoteRows

\* What the webhooks write to order and quotes.
LEMMA TablesKeep ==
  ASSUME TypeOK, NEW e \in EventTypes \X Sessions, Tables(e)
  PROVE  /\ order' \in OrderStates
         /\ linked' \in Sessions \cup {NoIntent}
         /\ QuotesKept
<1>0. /\ e[2] \in Sessions /\ session[e[2]].amount \in Nat /\ taken[e[2]] \in Nat
      /\ order \in OrderStates /\ linked \in Sessions \cup {NoIntent}
  BY DEF TypeOK, SessionRows
<1>q. \A q \in Quotes : /\ quote[q] \in QuoteRows
                        /\ quote[q].authorized \in Nat /\ quote[q].captured \in Nat
                        /\ quote[q].status \in QuoteStates
  BY DEF TypeOK, QuoteRows
<1>1. CASE UNCHANGED <<order, linked, quote>> BY <1>0, <1>q, <1>1 DEF TypeOK, QuotesKept
<1>2. CASE authorized_from_session(e[2])
  <2>1. order' = "payment_authorized" /\ linked' \in Sessions \cup {NoIntent}
    BY <1>0, <1>2 DEF authorized_from_session
  <2>2. \/ quote' = [q \in Quotes |-> IF q = session[e[2]].quote
                      THEN [quote[q] EXCEPT !.authorized = session[e[2]].amount,
                                            !.status = "authorized"]
                      ELSE quote[q]]
        \/ quote' = [q \in Quotes |-> IF q = session[e[2]].quote
                      THEN [quote[q] EXCEPT
                             !.authorized = quote[q].authorized + session[e[2]].amount,
                             !.status = "authorized"]
                      ELSE quote[q]]
    BY <1>2 DEF authorized_from_session, SetQuoted, Authorized
  <2>3. ASSUME NEW q \in Quotes
        PROVE  quote'[q] \in QuoteRows /\ quote'[q].captured >= quote[q].captured
    <3>1. /\ quote[q] \in QuoteRows /\ quote[q].captured \in Nat
          /\ session[e[2]].amount \in Nat
          /\ quote[q].authorized + session[e[2]].amount \in Nat
      BY <1>0, <1>q
    <3>2. "authorized" \in QuoteStates BY DEF QuoteStates
    <3>3. CASE quote'[q] = quote[q] BY <3>1, <3>3
    <3>4. CASE quote'[q] = [quote[q] EXCEPT !.authorized = session[e[2]].amount,
                                            !.status = "authorized"]
      <4> DEFINE n == session[e[2]].amount
      <4>1. n \in Nat /\ quote[q] \in QuoteRows BY <3>1
      <4>2. quote'[q] = [quote[q] EXCEPT !.authorized = n, !.status = "authorized"]
        BY <3>4
      <4> HIDE DEF n
      <4>3. /\ quote'[q] \in QuoteRows
            /\ quote'[q].captured = quote[q].captured
        BY <3>2, <4>1, <4>2 DEF QuoteRows
      <4> QED BY <3>1, <4>3
    <3>5. CASE quote'[q] = [quote[q] EXCEPT
                             !.authorized = quote[q].authorized + session[e[2]].amount,
                             !.status = "authorized"]
      <4> DEFINE n == quote[q].authorized + session[e[2]].amount
      <4>1. n \in Nat BY <3>1
      <4>2. quote'[q] = [quote[q] EXCEPT !.authorized = n, !.status = "authorized"]
        BY <3>5
      <4> HIDE DEF n
      <4>3. /\ quote'[q] \in QuoteRows
            /\ quote'[q].captured = quote[q].captured
        BY <3>1, <3>2, <4>1, <4>2 DEF QuoteRows
      <4> QED BY <3>1, <4>3
    <3> QED BY <2>2, <3>3, <3>4, <3>5
  <2>4. QuotesKept BY <2>2, <2>3 DEF QuotesKept
  <2> QED BY <2>1, <2>4 DEF OrderStates
<1>3. CASE paid_from_session(e[2])
  BY <1>0, <1>q, <1>3 DEF paid_from_session, OrderStates, TypeOK, QuotesKept
<1>4. CASE payment_intent_capturable(e[2])
  <2>1. quote' = [q \in Quotes |-> IF IsLatest(q)
                   THEN [quote[q] EXCEPT
                          !.authorized = larger(quote[q].authorized, session[e[2]].amount),
                          !.status = IF quote[q].status = "quoted" THEN "authorized"
                                     ELSE quote[q].status]
                   ELSE quote[q]]
    BY <1>4 DEF payment_intent_capturable, SetLatest
  <2>2. ASSUME NEW q \in Quotes
        PROVE  quote'[q] \in QuoteRows /\ quote'[q].captured >= quote[q].captured
    <3> DEFINE n == larger(quote[q].authorized, session[e[2]].amount)
               st == IF quote[q].status = "quoted" THEN "authorized" ELSE quote[q].status
    <3>1. quote[q] \in QuoteRows /\ quote[q].captured \in Nat BY <1>q
    <3>2. n \in Nat BY <1>0, <1>q DEF larger
    <3>3. st \in QuoteStates BY <1>q DEF QuoteStates
    <3>4. quote'[q] = IF IsLatest(q)
                      THEN [quote[q] EXCEPT !.authorized = n, !.status = st] ELSE quote[q]
      BY <2>1
    <3> HIDE DEF n, st
    <3>5. CASE IsLatest(q)
      <4>1. /\ quote'[q] \in QuoteRows
            /\ quote'[q].captured = quote[q].captured
        BY <3>1, <3>2, <3>3, <3>4, <3>5 DEF QuoteRows
      <4> QED BY <3>1, <4>1
    <3>6. CASE ~IsLatest(q) BY <3>1, <3>4, <3>6
    <3> QED BY <3>5, <3>6
  <2>3. QuotesKept BY <2>1, <2>2 DEF QuotesKept
  <2> QED BY <1>0, <1>4, <2>3 DEF payment_intent_capturable
<1>5. CASE payment_intent_succeeded(e[2])
  <2>1. quote' = [q \in Quotes |-> IF IsLatest(q)
                   THEN [quote[q] EXCEPT !.captured = larger(quote[q].captured, taken[e[2]]),
                                         !.status = "captured"]
                   ELSE quote[q]]
    BY <1>5 DEF payment_intent_succeeded, SetLatest
  <2>2. ASSUME NEW q \in Quotes
        PROVE  quote'[q] \in QuoteRows /\ quote'[q].captured >= quote[q].captured
    <3> DEFINE n == larger(quote[q].captured, taken[e[2]])
    <3>1. quote[q] \in QuoteRows /\ quote[q].captured \in Nat BY <1>q
    <3>2. n \in Nat /\ n >= quote[q].captured BY <1>0, <1>q DEF larger
    <3>3. "captured" \in QuoteStates BY DEF QuoteStates
    <3>4. quote'[q] = IF IsLatest(q)
                      THEN [quote[q] EXCEPT !.captured = n, !.status = "captured"] ELSE quote[q]
      BY <2>1
    <3> HIDE DEF n
    <3>5. CASE IsLatest(q)
      <4>1. quote'[q] \in QuoteRows /\ quote'[q].captured = n
        BY <3>1, <3>2, <3>3, <3>4, <3>5 DEF QuoteRows
      <4> QED BY <3>2, <4>1
    <3>6. CASE ~IsLatest(q) BY <3>1, <3>4, <3>6
    <3> QED BY <3>5, <3>6
  <2>3. QuotesKept BY <2>1, <2>2 DEF QuotesKept
  <2> QED BY <1>0, <1>5, <2>3 DEF payment_intent_succeeded, OrderStates
<1>6. CASE payment_intent_canceled
  <2>1. quote' = [q \in Quotes |-> IF IsLatest(q)
                   THEN [quote[q] EXCEPT !.status = "authorization_canceled"]
                   ELSE quote[q]]
    BY <1>6 DEF payment_intent_canceled, SetLatest
  <2>2. QuotesKept BY <1>0, <1>q, <2>1 DEF QuotesKept, QuoteRows, QuoteStates
  <2> QED BY <1>0, <1>6, <2>2 DEF payment_intent_canceled, OrderStates
<1> QED BY <1>1, <1>2, <1>3, <1>4, <1>5, <1>6 DEF Tables

\* What the capture endpoint and its lost record do at Stripe.
LEMMA StripeCaptureType ==
  ASSUME TypeOK, NEW s \in Sessions, NEW amount \in Nat, StripeCapture(s, amount)
  PROVE  /\ intent' \in [Sessions -> IntentStates]
         /\ taken' \in [Sessions -> Nat]
         /\ event' \in [EventTypes \X Sessions -> EventStates]
BY DEF TypeOK, StripeCapture, Send, IntentStates, EventStates

\* A new session has the type of its rows.
LEMMA OpensType ==
  ASSUME TypeOK, NEW s \in Sessions, NEW kind \in SessionKinds, NEW amount \in Nat,
         NEW q \in Quotes \cup {NoQuote}, Opens(s, kind, amount, q)
  PROVE  session' \in [Sessions -> SessionRows] /\ session'[s].amount = amount
BY DEF TypeOK, Opens, SessionRows

\* Every step keeps the quotes and what they say was captured.
LEMMA NextKeepsQuotes ==
  ASSUME TypeOK, Next
  PROVE  QuotesKept
<1>0. /\ Amounts \subseteq Nat \ {0}
      /\ \A q \in Quotes : /\ quote[q] \in QuoteRows
                           /\ quote[q].total \in Nat \ {0}
                           /\ quote[q].authorized \in Nat /\ quote[q].captured \in Nat
  BY PaymentAssumption DEF TypeOK, QuoteRows
<1>u. ASSUME quote' = quote PROVE QuotesKept BY <1>0, <1>u DEF TypeOK, QuotesKept
<1>s. \A st \in {"authorization_started", "captured", "ready_to_capture",
                 "additional_authorization_required",
                 "additional_authorization_started"} : st \in QuoteStates
  BY DEF QuoteStates
<1>1. ASSUME NEW s \in Sessions, CustomerPays(s) \/ AuthorizationLapses(s)
      PROVE  QuotesKept
  BY <1>1, <1>u DEF CustomerPays, AuthorizationLapses
<1>2. ASSUME NEW s \in Sessions, NEW q \in Quotes \cup {NoQuote}, authorize_order(s, q)
      PROVE  QuotesKept
  <2>1. CASE quote' = quote BY <2>1, <1>u
  <2>2. CASE /\ q \in Quotes
             /\ SetQuote(q, [quote[q] EXCEPT !.bound = TRUE, !.authorized = quote[q].total,
                                             !.status = "authorization_started"])
    <3> DEFINE row == [quote[q] EXCEPT !.bound = TRUE, !.authorized = quote[q].total,
                                       !.status = "authorization_started"]
    <3>1. row \in QuoteRows BY <1>0, <1>s, <2>2, QuoteUpdates
    <3>2. row.captured >= quote[q].captured BY <1>0, <2>2 DEF QuoteRows
    <3> HIDE DEF row
    <3>3. SetQuote(q, row) BY <2>2 DEF row
    <3> QED BY <2>2, <3>1, <3>2, <3>3, SetQuoteKeeps
  <2> QED BY <1>2, <2>1, <2>2 DEF authorize_order
<1>3. ASSUME NEW s \in Sessions, create_checkout_session(s)
      PROVE  QuotesKept
  BY <1>3, <1>u DEF create_checkout_session
<1>4. ASSUME NEW s \in Sessions, NEW q \in Quotes, NEW delta \in Amounts,
             request_additional_authorization(s, q, delta)
      PROVE  QuotesKept
  <2> DEFINE row == [quote[q] EXCEPT !.status = "additional_authorization_started"]
  <2>1. row \in QuoteRows BY <1>0, <1>s, QuoteUpdates
  <2>2. row.captured >= quote[q].captured BY <1>0 DEF QuoteRows
  <2>3. SetQuote(q, row) BY <1>4 DEF request_additional_authorization
  <2> HIDE DEF row
  <2> QED BY <2>1, <2>2, <2>3, SetQuoteKeeps
<1>5. ASSUME NEW q \in Quotes, authorize_other_order(q)
      PROVE  QuotesKept
  <2> DEFINE row == [quote[q] EXCEPT !.bound = FALSE, !.authorized = quote[q].total,
                                     !.status = "authorization_started"]
  <2>1. row \in QuoteRows BY <1>0, <1>s, QuoteUpdates
  <2>2. row.captured >= quote[q].captured BY <1>0 DEF QuoteRows
  <2>3. SetQuote(q, row) BY <1>5 DEF authorize_other_order
  <2> HIDE DEF row
  <2> QED BY <2>1, <2>2, <2>3, SetQuoteKeeps
<1>6. ASSUME NEW q \in Quotes, other_order_captured(q)
      PROVE  QuotesKept
  <2> DEFINE row == [quote[q] EXCEPT !.captured = quote[q].authorized, !.status = "captured"]
  <2>1. row \in QuoteRows BY <1>0, <1>s, QuoteUpdates
  <2>2. row.captured >= quote[q].captured
    BY <1>0, <1>6 DEF QuoteRows, other_order_captured
  <2>3. SetQuote(q, row) BY <1>6 DEF other_order_captured
  <2> HIDE DEF row
  <2> QED BY <2>1, <2>2, <2>3, SetQuoteKeeps
<1>7. ASSUME NEW q \in Quotes, NEW final \in Amounts, reconcile_order_payment(q, final)
      PROVE  QuotesKept
  <2>1. PICK st \in {"additional_authorization_required", "ready_to_capture"} :
          SetQuote(q, [quote[q] EXCEPT !.total = final, !.status = st])
    BY <1>7 DEF reconcile_order_payment
  <2> DEFINE row == [quote[q] EXCEPT !.total = final, !.status = st]
  <2>2. row \in QuoteRows BY <1>0, <1>s, QuoteUpdates
  <2>3. row.captured >= quote[q].captured BY <1>0 DEF QuoteRows
  <2> HIDE DEF row
  <2>4. SetQuote(q, row) BY <2>1 DEF row
  <2> QED BY <2>2, <2>3, <2>4, SetQuoteKeeps
<1>8. ASSUME NEW q \in Quotes, NEW amount \in Amounts, capture_order_payment(q, amount)
      PROVE  QuotesKept
  <2> DEFINE row == [quote[q] EXCEPT !.captured = amount, !.status = "captured"]
  <2>1. row \in QuoteRows BY <1>0, <1>s, QuoteUpdates
  <2>2. quote[q].captured = 0
    BY <1>0, <1>8 DEF capture_order_payment, MayCapture, payment_reconciliation_status
  <2>3. row.captured >= quote[q].captured BY <1>0, <2>2 DEF QuoteRows
  <2>4. SetQuote(q, row) BY <1>8 DEF capture_order_payment
  <2> HIDE DEF row
  <2> QED BY <2>1, <2>3, <2>4, SetQuoteKeeps
<1>9. ASSUME NEW q \in Quotes, NEW amount \in Amounts, capture_lost(q, amount)
      PROVE  QuotesKept
  BY <1>9, <1>u DEF capture_lost
<1>10. ASSUME NEW e \in EventTypes \X Sessions, Handling(e)
       PROVE  QuotesKept
  BY <1>10, <1>u, HandlingFacts, TablesKeep
<1> QED
  BY <1>1, <1>2, <1>3, <1>4, <1>5, <1>6, <1>7, <1>8, <1>9, <1>10, NextCases

\* Every step of Stripe, server or operator keeps to the types.
LEMMA NextKeepsType ==
  ASSUME TypeOK, Next
  PROVE  TypeOK'
<1>q. quote' \in [Quotes -> QuoteRows] BY NextKeepsQuotes DEF QuotesKept
<1>a. /\ Amounts \subseteq Nat /\ Estimate \in Nat
      /\ \A q \in Quotes : quote[q].total \in Nat
  BY PaymentAssumption DEF TypeOK, QuoteRows
<1>b. /\ session \in [Sessions -> SessionRows]
      /\ \A s \in Sessions : session[s].amount \in Nat
      /\ intent \in [Sessions -> IntentStates] /\ taken \in [Sessions -> Nat]
      /\ event \in [EventTypes \X Sessions -> EventStates]
      /\ order \in OrderStates /\ linked \in Sessions \cup {NoIntent}
      /\ ledger \subseteq LedgerType
      /\ charged \in [Sessions -> Quotes \cup {NoQuote}]
      /\ faults \in 0..MaxFaults /\ crashes \in 0..MaxCrashes
  BY DEF TypeOK, LedgerType, SessionRows
<1>t. ASSUME /\ session' \in [Sessions -> SessionRows]
             /\ intent' \in [Sessions -> IntentStates]
             /\ taken' \in [Sessions -> Nat]
             /\ event' \in [EventTypes \X Sessions -> EventStates]
             /\ order' \in OrderStates /\ linked' \in Sessions \cup {NoIntent}
             /\ ledger' \subseteq LedgerType
             /\ charged' \in [Sessions -> Quotes \cup {NoQuote}]
             /\ faults' \in 0..MaxFaults /\ crashes' \in 0..MaxCrashes
      PROVE  TypeOK'
  BY <1>q, <1>t DEF TypeOK, LedgerType
<1>1. ASSUME NEW s \in Sessions, CustomerPays(s) \/ AuthorizationLapses(s)
      PROVE  TypeOK'
  <2>1. CASE CustomerPays(s)
    <3>1. /\ intent' \in [Sessions -> IntentStates]
          /\ taken' \in [Sessions -> Nat]
          /\ event' \in [EventTypes \X Sessions -> EventStates]
      BY <1>b, <2>1 DEF CustomerPays, Send, EventStates, IntentStates
    <3> QED BY <1>b, <1>t, <2>1, <3>1 DEF CustomerPays
  <2>2. CASE AuthorizationLapses(s)
    <3>1. /\ intent' \in [Sessions -> IntentStates]
          /\ event' \in [EventTypes \X Sessions -> EventStates]
      BY <1>b, <2>2 DEF AuthorizationLapses, Send, EventStates, IntentStates
    <3> QED BY <1>b, <1>t, <2>2, <3>1 DEF AuthorizationLapses
  <2> QED BY <1>1, <2>1, <2>2
<1>2. ASSUME NEW s \in Sessions, NEW q \in Quotes \cup {NoQuote}, authorize_order(s, q)
      PROVE  TypeOK'
  <2>1. PICK amount \in Nat : Opens(s, "authorize", amount, q)
    BY <1>2, <1>a DEF authorize_order
  <2>2. session' \in [Sessions -> SessionRows] /\ session'[s].amount \in Nat
    BY <2>1, OpensType DEF SessionKinds
  <2>3. ledger' \subseteq LedgerType
    BY <1>2, <1>b, <2>2 DEF authorize_order, Row, LedgerType, LedgerEvents
  <2> QED BY <1>2, <1>b, <1>t, <2>2, <2>3 DEF authorize_order
<1>3. ASSUME NEW s \in Sessions, create_checkout_session(s)
      PROVE  TypeOK'
  <2>1. session' \in [Sessions -> SessionRows]
    BY <1>3, <1>a, OpensType DEF create_checkout_session, SessionKinds
  <2> QED BY <1>3, <1>b, <1>t, <2>1 DEF create_checkout_session
<1>4. ASSUME NEW s \in Sessions, NEW q \in Quotes, NEW delta \in Amounts,
             request_additional_authorization(s, q, delta)
      PROVE  TypeOK'
  <2>1. session' \in [Sessions -> SessionRows]
    BY <1>4, <1>a, OpensType DEF request_additional_authorization, SessionKinds
  <2> QED BY <1>4, <1>b, <1>t, <2>1 DEF request_additional_authorization
<1>5. ASSUME NEW q \in Quotes, authorize_other_order(q) \/ other_order_captured(q)
      PROVE  TypeOK'
  BY <1>5, <1>b, <1>t DEF authorize_other_order, other_order_captured, stripeVars
<1>6. ASSUME NEW q \in Quotes, NEW final \in Amounts, reconcile_order_payment(q, final)
      PROVE  TypeOK'
  BY <1>6, <1>b, <1>t DEF reconcile_order_payment, stripeVars
<1>7. ASSUME NEW q \in Quotes, NEW amount \in Amounts, capture_order_payment(q, amount)
      PROVE  TypeOK'
  <2>1. /\ intent' \in [Sessions -> IntentStates]
        /\ taken' \in [Sessions -> Nat]
        /\ event' \in [EventTypes \X Sessions -> EventStates]
        /\ charged' \in [Sessions -> Quotes \cup {NoQuote}]
    <3>1. CASE linked = NoIntent BY <1>7, <1>b, <3>1 DEF capture_order_payment
    <3>2. CASE linked # NoIntent
      <4>1. /\ linked \in Sessions /\ amount \in Nat /\ StripeCapture(linked, amount)
            /\ charged' = [charged EXCEPT ![linked] = q]
        BY <1>7, <1>a, <1>b, <3>2 DEF capture_order_payment
      <4> QED BY <1>b, <4>1, StripeCaptureType
    <3> QED BY <3>1, <3>2
  <2>2. ledger' \subseteq LedgerType
    BY <1>7, <1>a, <1>b DEF capture_order_payment, Row, LedgerType, LedgerEvents
  <2>3. order' \in OrderStates BY <1>7 DEF capture_order_payment, OrderStates
  <2> QED BY <1>7, <1>b, <1>t, <2>1, <2>2, <2>3 DEF capture_order_payment
<1>8. ASSUME NEW q \in Quotes, NEW amount \in Amounts, capture_lost(q, amount)
      PROVE  TypeOK'
  <2>1. /\ linked \in Sessions /\ amount \in Nat /\ StripeCapture(linked, amount)
        /\ charged' = [charged EXCEPT ![linked] = q]
    BY <1>8, <1>a, <1>b DEF capture_lost
  <2>2. crashes' \in 0..MaxCrashes
    BY <1>8, <1>b, PaymentAssumption DEF capture_lost
  <2>3. /\ intent' \in [Sessions -> IntentStates]
        /\ taken' \in [Sessions -> Nat]
        /\ event' \in [EventTypes \X Sessions -> EventStates]
    BY <2>1, StripeCaptureType
  <2> QED BY <1>8, <1>b, <1>t, <2>1, <2>2, <2>3 DEF capture_lost
<1>9. ASSUME NEW e \in EventTypes \X Sessions, Handling(e)
      PROVE  TypeOK'
  <2>1. /\ event' \in [EventTypes \X Sessions -> EventStates]
        /\ UNCHANGED <<session, intent, taken, charged, crashes>>
        /\ faults' \in 0..MaxFaults
    BY <1>9, <1>b, HandlingFacts
  <2>2. order' \in OrderStates /\ linked' \in Sessions \cup {NoIntent}
    BY <1>9, <1>b, HandlingFacts, TablesKeep
  <2>3. ledger' \subseteq LedgerType BY <1>9, <1>b, HandlingFacts, LedgerRowsFacts
  <2> QED BY <1>b, <1>t, <2>1, <2>2, <2>3
<1> QED BY <1>1, <1>2, <1>3, <1>4, <1>5, <1>6, <1>7, <1>8, <1>9, NextCases

\* An order nobody has paid is well typed.
LEMMA InitType == Init => TypeOK
<1> SUFFICES ASSUME Init PROVE TypeOK OBVIOUS
<1>1. quote \in [Quotes -> QuoteRows]
  BY PaymentAssumption DEF Init, QuoteRows, QuoteStates
<1>2. session \in [Sessions -> SessionRows]
  BY DEF Init, NoSession, SessionRows, SessionKinds
<1> QED
  BY <1>1, <1>2, PaymentAssumption DEF Init, TypeOK, IntentStates, EventStates, OrderStates

\* The quotes, the ledger and Stripe's objects stay within their types.
THEOREM TypeCorrect == Spec => []TypeOK
<1>1. TypeOK /\ UNCHANGED vars => TypeOK' BY DEF TypeOK, vars
<1> QED BY <1>1, InitType, NextKeepsType, PTL DEF Spec

\* What a quote says was captured is never lowered, whichever of this order's
\* checkouts, reconciliations and webhooks, or another order's, writes it.
THEOREM CaptureIsFinalTheorem == Spec => CaptureIsFinal
<1>1. TypeOK /\ Next
        => [\A q \in Quotes : quote'[q].captured >= quote[q].captured]_vars
  BY NextKeepsQuotes DEF QuotesKept
<1>2. TypeOK /\ [Next]_vars
        => [\A q \in Quotes : quote'[q].captured >= quote[q].captured]_vars
  BY <1>1
<1> QED BY <1>2, TypeCorrect, PTL DEF Spec, CaptureIsFinal

-----------------------------------------------------------------------------
(* The ledger books what Stripe took.                                        *)

\* Stripe's events of a charge are sent when the charge was made: when an
\* intent was captured, or when a direct checkout was paid.
SentAfterCapture ==
  \A s \in Sessions :
    /\ event[<<"succeeded", s>>] # "none" => intent[s] = "succeeded"
    /\ session[s].kind = "direct" /\ event[<<"completed", s>>] # "none"
         => intent[s] = "succeeded" /\ taken[s] = session[s].amount
    /\ event[<<"completed", s>>] # "none" => session[s] # NoSession

LedgerInv == TypeOK /\ LedgerIsReal /\ SentAfterCapture

\* Stripe does not undo a capture, and a session is not opened twice.
CaptureKept ==
  \A s \in Sessions :
    /\ intent[s] = "succeeded" => intent'[s] = "succeeded" /\ taken'[s] = taken[s]
    /\ session[s] # NoSession => session'[s] = session[s]

\* A capture at Stripe keeps earlier ones and sends the event it should.
LEMMA StripeCaptureFacts ==
  ASSUME TypeOK, SentAfterCapture, NEW s \in Sessions, NEW amount \in Nat,
         StripeCapture(s, amount), session' = session
  PROVE  /\ CaptureKept /\ SentAfterCapture'
         /\ intent'[s] = "succeeded" /\ taken'[s] = amount
<1>1. /\ intent' = [intent EXCEPT ![s] = "succeeded"]
      /\ taken' = [taken EXCEPT ![s] = amount]
      /\ intent[s] = "requires_capture"
      /\ \A t \in Sessions : /\ event'[<<"succeeded", t>>] # event[<<"succeeded", t>>] => t = s
                             /\ event'[<<"completed", t>>] = event[<<"completed", t>>]
  BY DEF TypeOK, StripeCapture, Send, EventTypes
<1> QED BY <1>1 DEF TypeOK, SentAfterCapture, CaptureKept

\* A session just opened was reported by nobody.
LEMMA OpensFacts ==
  ASSUME TypeOK, SentAfterCapture, NEW s \in Sessions, NEW kind, NEW amount, NEW q,
         Opens(s, kind, amount, q), UNCHANGED <<intent, taken, event>>
  PROVE  CaptureKept /\ SentAfterCapture'
<1>1. \A t \in Sessions : t # s => session'[t] = session[t] BY DEF TypeOK, Opens
<1>2. session[s] = NoSession BY DEF Opens
<1>3. event[<<"completed", s>>] = "none" BY <1>2 DEF SentAfterCapture
<1> QED BY <1>1, <1>2, <1>3 DEF SentAfterCapture, CaptureKept

\* The rows of the ledger stay real while captures are kept.
LEMMA KeptLedger ==
  ASSUME LedgerIsReal, CaptureKept,
         \A row \in ledger' : row.event = "captured" => row \in ledger
  PROVE  LedgerIsReal'
BY DEF LedgerIsReal, CaptureKept

\* The ledger invariant is inductive.
LEMMA NextKeepsLedger ==
  ASSUME LedgerInv, Next
  PROVE  LedgerInv'
<1> USE DEF LedgerInv
<1>1. ASSUME NEW s \in Sessions, CustomerPays(s)
      PROVE  LedgerIsReal' /\ SentAfterCapture'
  <2>1. /\ intent[s] = "none" /\ session[s] # NoSession /\ session' = session
        /\ \A t \in Sessions \ {s} :
             /\ intent'[t] = intent[t] /\ taken'[t] = taken[t]
             /\ event'[<<"succeeded", t>>] = event[<<"succeeded", t>>]
             /\ event'[<<"completed", t>>] = event[<<"completed", t>>]
    BY <1>1 DEF CustomerPays, Send, TypeOK, EventTypes
  <2>2. CASE session[s].kind = "direct"
    <3>1. intent'[s] = "succeeded" /\ taken'[s] = session[s].amount
      BY <1>1, <2>2 DEF CustomerPays, TypeOK
    <3>2. CaptureKept /\ SentAfterCapture'
      BY <2>1, <2>2, <3>1 DEF CaptureKept, SentAfterCapture
    <3> QED BY <1>1, <3>2, KeptLedger DEF CustomerPays
  <2>3. CASE session[s].kind # "direct"
    <3>1. event'[<<"succeeded", s>>] = event[<<"succeeded", s>>] /\ taken' = taken
      BY <1>1, <2>3 DEF CustomerPays, Send, TypeOK, EventTypes
    <3>2. CaptureKept /\ SentAfterCapture'
      BY <2>1, <2>3, <3>1 DEF CaptureKept, SentAfterCapture
    <3> QED BY <1>1, <3>2, KeptLedger DEF CustomerPays
  <2> QED BY <2>2, <2>3
<1>2. ASSUME NEW s \in Sessions, AuthorizationLapses(s)
      PROVE  LedgerIsReal' /\ SentAfterCapture'
  <2>1. CaptureKept /\ SentAfterCapture' /\ ledger' = ledger
    BY <1>2 DEF AuthorizationLapses, Send, CaptureKept, SentAfterCapture, TypeOK, EventTypes
  <2> QED BY <2>1, KeptLedger
<1>3. ASSUME NEW s \in Sessions, NEW q \in Quotes \cup {NoQuote}, authorize_order(s, q)
      PROVE  LedgerIsReal' /\ SentAfterCapture'
  <2>1. CaptureKept /\ SentAfterCapture' BY <1>3, OpensFacts DEF authorize_order
  <2>2. \A row \in ledger' : row.event = "captured" => row \in ledger
    BY <1>3 DEF authorize_order, Row
  <2> QED BY <2>1, <2>2, KeptLedger
<1>4. ASSUME NEW s \in Sessions, create_checkout_session(s)
      PROVE  LedgerIsReal' /\ SentAfterCapture'
  BY <1>4, OpensFacts, KeptLedger DEF create_checkout_session
<1>5. ASSUME NEW s \in Sessions, NEW q \in Quotes, NEW delta \in Amounts,
             request_additional_authorization(s, q, delta)
      PROVE  LedgerIsReal' /\ SentAfterCapture'
  BY <1>5, OpensFacts, KeptLedger DEF request_additional_authorization
<1>6. ASSUME UNCHANGED <<session, intent, taken, event, ledger>>
      PROVE  LedgerIsReal' /\ SentAfterCapture'
  BY <1>6 DEF LedgerIsReal, SentAfterCapture
<1>7. ASSUME NEW q \in Quotes, authorize_other_order(q) \/ other_order_captured(q)
      PROVE  LedgerIsReal' /\ SentAfterCapture'
  BY <1>6, <1>7 DEF authorize_other_order, other_order_captured, stripeVars
<1>8. ASSUME NEW q \in Quotes, NEW final \in Amounts, reconcile_order_payment(q, final)
      PROVE  LedgerIsReal' /\ SentAfterCapture'
  BY <1>6, <1>8 DEF reconcile_order_payment, stripeVars
<1>9. ASSUME NEW q \in Quotes, NEW amount \in Amounts, capture_order_payment(q, amount)
      PROVE  LedgerIsReal' /\ SentAfterCapture'
  <2>1. amount \in Nat BY PaymentAssumption
  <2>2. CASE linked = NoIntent
    <3>1. CaptureKept /\ SentAfterCapture'
      BY <1>9, <2>2 DEF capture_order_payment, CaptureKept, SentAfterCapture
    <3>2. ledger' = ledger \cup {Row("captured_dry_run", amount, linked)}
      BY <1>9, <2>2 DEF capture_order_payment
    <3> QED BY <3>1, <3>2, KeptLedger DEF Row
  <2>3. CASE linked # NoIntent
    <3>1. StripeCapture(linked, amount) /\ linked \in Sessions /\ session' = session
      BY <1>9, <2>3 DEF capture_order_payment, TypeOK
    <3>2. /\ CaptureKept /\ SentAfterCapture'
          /\ intent'[linked] = "succeeded" /\ taken'[linked] = amount
      BY <2>1, <3>1, StripeCaptureFacts
    <3>3. ledger' = ledger \cup {Row("captured", amount, linked)}
      BY <1>9, <2>3 DEF capture_order_payment
    <3> QED BY <3>1, <3>2, <3>3 DEF LedgerIsReal, CaptureKept, Row
  <2> QED BY <2>2, <2>3
<1>10. ASSUME NEW q \in Quotes, NEW amount \in Amounts, capture_lost(q, amount)
       PROVE  LedgerIsReal' /\ SentAfterCapture'
  <2>1. /\ StripeCapture(linked, amount) /\ linked \in Sessions
        /\ ledger' = ledger /\ session' = session
    BY <1>10 DEF capture_lost, TypeOK
  <2>2. amount \in Nat BY PaymentAssumption
  <2> QED BY <2>1, <2>2, StripeCaptureFacts, KeptLedger
<1>11. ASSUME NEW e \in EventTypes \X Sessions, Handling(e)
       PROVE  LedgerIsReal' /\ SentAfterCapture'
  <2>0. e[2] \in Sessions /\ e = <<e[1], e[2]>> BY DEF EventTypes
  <2>1. UNCHANGED <<session, intent, taken>> /\ event[e] # "none" BY <1>11, HandlingFacts
  <2>2. SentAfterCapture'
    <3>1. \E end \in EventStates \ {"none"} : event' = [event EXCEPT ![e] = end]
      BY <1>11, HandlingFacts
    <3> QED BY <2>0, <2>1, <3>1 DEF SentAfterCapture, TypeOK, EventTypes
  <2>3. ASSUME NEW row \in LedgerRows(e), row.event = "captured"
        PROVE  /\ row.intent \in Sessions
               /\ intent[row.intent] = "succeeded" /\ taken[row.intent] = row.amount
    <3>1. /\ row.intent = e[2]
          /\ \/ e[1] = "succeeded" /\ row.amount = taken[e[2]]
             \/ /\ e[1] = "completed" /\ session[e[2]].kind = "direct"
                /\ row.amount = session[e[2]].amount
      BY <2>3, LedgerRowsFacts
    <3>2. CASE e[1] = "succeeded"
      <4>1. event[<<"succeeded", e[2]>>] # "none" /\ e[1] # "completed" BY <2>0, <2>1, <3>2
      <4> QED BY <2>0, <3>1, <4>1 DEF SentAfterCapture
    <3>3. CASE e[1] = "completed"
      <4>1. event[<<"completed", e[2]>>] # "none" /\ e[1] # "succeeded" BY <2>0, <2>1, <3>3
      <4> QED BY <2>0, <3>1, <4>1 DEF SentAfterCapture
    <3> QED BY <3>1, <3>2, <3>3
  <2>4. ledger' = ledger \/ ledger' = ledger \cup LedgerRows(e)
    BY <1>11, HandlingFacts
  <2> QED BY <2>1, <2>2, <2>3, <2>4 DEF LedgerIsReal
<1> QED
  BY <1>1, <1>2, <1>3, <1>4, <1>5, <1>7, <1>8, <1>9, <1>10, <1>11, NextCases, NextKeepsType

\* Whichever of the endpoint and the webhook books a capture, with handlers
\* failing and events redelivered in any order, the ledger's "captured" rows
\* are money Stripe took of that intent, in that amount.
THEOREM LedgerTheorem == Spec => []LedgerIsReal
<1>1. Init => LedgerInv
  BY InitType DEF Init, LedgerInv, LedgerIsReal, SentAfterCapture, EventTypes
<1>2. LedgerInv /\ UNCHANGED vars => LedgerInv'
  BY DEF LedgerInv, TypeOK, LedgerIsReal, SentAfterCapture, vars
<1>3. LedgerInv => LedgerIsReal BY DEF LedgerInv
<1> QED BY <1>1, <1>2, <1>3, NextKeepsLedger, PTL DEF Spec

-----------------------------------------------------------------------------
(* One charge per quote, when no restart comes between Stripe's capture and  *)
(* its record.                                                               *)

\* A quote on which a session was charged remembers it, and that memory is
\* what refuses the next charge.
Remembered ==
  \A s \in Sessions : charged[s] # NoQuote => quote[charged[s]].captured > 0

ChargeInv == TypeOK /\ ChargedOncePerQuote /\ Remembered

\* The charge invariant is inductive.
LEMMA NextKeepsCharge ==
  ASSUME MaxCrashes = 0, ChargeInv, Next
  PROVE  ChargedOncePerQuote' /\ Remembered'
<1> USE DEF ChargeInv
<1>0. /\ \A q \in Quotes : /\ quote[q].captured \in Nat /\ quote'[q].captured \in Nat
                           /\ quote'[q].captured >= quote[q].captured
      /\ NoQuote \notin Quotes
      /\ charged \in [Sessions -> Quotes \cup {NoQuote}]
  <2>1. /\ quote \in [Quotes -> QuoteRows] /\ quote' \in [Quotes -> QuoteRows]
        /\ \A q \in Quotes : quote'[q].captured >= quote[q].captured
    BY NextKeepsQuotes DEF QuotesKept, TypeOK
  <2>2. \A row \in QuoteRows : row.captured \in Nat BY DEF QuoteRows
  <2>3. NoQuote \notin Quotes BY PaymentAssumption DEF Quotes, NoQuote
  <2> QED BY <2>1, <2>2, <2>3 DEF TypeOK
<1>1. ASSUME charged' = charged
      PROVE  ChargedOncePerQuote' /\ Remembered'
  BY <1>0, <1>1 DEF ChargedOncePerQuote, Remembered
<1>2. ASSUME NEW q \in Quotes, NEW amount \in Amounts, capture_order_payment(q, amount),
             linked # NoIntent
      PROVE  ChargedOncePerQuote' /\ Remembered'
  <2>1. quote[q].captured = 0
    BY <1>0, <1>2 DEF capture_order_payment, MayCapture, payment_reconciliation_status
  <2>2. \A s \in Sessions : charged[s] # q BY <1>0, <2>1 DEF Remembered
  <2>3. linked \in Sessions /\ charged' = [charged EXCEPT ![linked] = q]
    BY <1>2 DEF capture_order_payment, TypeOK
  <2>4. quote'[q].captured > 0
    <3>1. quote' = [quote EXCEPT ![q] = [quote[q] EXCEPT !.captured = amount,
                                                         !.status = "captured"]]
      BY <1>2 DEF capture_order_payment, SetQuote
    <3>2. quote[q] \in QuoteRows /\ quote \in [Quotes -> QuoteRows] BY DEF TypeOK
    <3>3. quote'[q].captured = amount BY <3>1, <3>2 DEF QuoteRows
    <3>4. amount \in Nat \ {0} BY PaymentAssumption
    <3> QED BY <3>3, <3>4
  <2> QED BY <1>0, <2>2, <2>3, <2>4 DEF ChargedOncePerQuote, Remembered
<1>3. ASSUME NEW q \in Quotes, NEW amount \in Amounts, capture_order_payment(q, amount)
      PROVE  ChargedOncePerQuote' /\ Remembered'
  <2>1. CASE linked = NoIntent BY <1>1, <1>3, <2>1 DEF capture_order_payment
  <2> QED BY <1>2, <1>3, <2>1
<1>4. ASSUME NEW q \in Quotes, NEW amount \in Amounts, capture_lost(q, amount)
      PROVE  FALSE
  BY <1>4, MaxCrashes = 0 DEF capture_lost, TypeOK
<1>5. ASSUME NEW s \in Sessions, CustomerPays(s) \/ AuthorizationLapses(s)
      PROVE  charged' = charged
  BY <1>5 DEF CustomerPays, AuthorizationLapses
<1>6. ASSUME NEW s \in Sessions, NEW q \in Quotes \cup {NoQuote}, authorize_order(s, q)
      PROVE  charged' = charged
  BY <1>6 DEF authorize_order
<1>7. ASSUME NEW s \in Sessions, create_checkout_session(s)
      PROVE  charged' = charged
  BY <1>7 DEF create_checkout_session
<1>8. ASSUME NEW s \in Sessions, NEW q \in Quotes, NEW delta \in Amounts,
             request_additional_authorization(s, q, delta)
      PROVE  charged' = charged
  BY <1>8 DEF request_additional_authorization
<1>9. ASSUME NEW q \in Quotes, authorize_other_order(q) \/ other_order_captured(q)
      PROVE  charged' = charged
  BY <1>9 DEF authorize_other_order, other_order_captured
<1>10. ASSUME NEW q \in Quotes, NEW final \in Amounts, reconcile_order_payment(q, final)
       PROVE  charged' = charged
  BY <1>10 DEF reconcile_order_payment
<1>11. ASSUME NEW e \in EventTypes \X Sessions, Handling(e)
       PROVE  charged' = charged
  BY <1>11, HandlingFacts
<1> QED
  BY <1>1, <1>3, <1>4, <1>5, <1>6, <1>7, <1>8, <1>9, <1>10, <1>11, NextCases

\* Whatever quotes are bound to the order and however often it is paid: no
\* quote is charged for twice by the capture endpoint, unless the server
\* restarts between the capture at Stripe and its commit.
THEOREM ChargedOncePerQuoteTheorem ==
  ASSUME MaxCrashes = 0
  PROVE  Spec => []ChargedOncePerQuote
<1>1. ChargeInv /\ UNCHANGED vars => ChargeInv'
  BY DEF ChargeInv, TypeOK, ChargedOncePerQuote, Remembered, vars
<1>2. ChargeInv /\ [Next]_vars => ChargeInv'
  BY MaxCrashes = 0, <1>1, NextKeepsType, NextKeepsCharge DEF ChargeInv
<1>3. Init => ChargeInv
  BY InitType DEF Init, ChargeInv, ChargedOncePerQuote, Remembered
<1>4. ChargeInv => ChargedOncePerQuote BY DEF ChargeInv
<1> QED BY <1>2, <1>3, <1>4, PTL DEF Spec
=============================================================================
