------------------------------ MODULE BankPayments ------------------------------
(***************************************************************************)
(* Resident bank (ACH) payments: the portal's make_payment, the daily      *)
(* autopay job, the calls both make to Stripe, and Stripe's webhook.       *)
(*                                                                         *)
(* A payment is a row of resident_payment_attempts, committed before the   *)
(* call to Stripe; the row is written again when the call returns, and by  *)
(* the webhook whenever an event arrives. The webhook locks the row and    *)
(* commits once, so a delivery is one step. The portal and the job wait    *)
(* for Stripe with no lock held: calling and recording the answer are two  *)
(* steps, and the process may die before either (Crash).                   *)
(*                                                                         *)
(* An attempt and its charge have the same key: the portal's keys come     *)
(* from the browser, an autopay key is the set of invoices it collects.    *)
(***************************************************************************)
EXTENDS Allocation, Sequences

CONSTANTS ClientKeys,       \* idempotency keys browsers make up
          Scheduler,        \* the autopay job
          Replies,          \* how Stripe may answer when it takes a charge
          LateEvents,       \* events that may follow charge.succeeded
          LostAnswers,      \* may calls to Stripe time out?
          Voidable          \* invoices the staff may void

VARIABLES invoice,          \* status of each month's invoice
          attempt,          \* resident_payment_attempts
          posted,           \* receipts of an attempt, in whole postings
          seen,             \* resident_payment_webhook_events
          charge,           \* Stripe: the charge of each idempotency key
          sent,             \* Stripe: the events of each charge, oldest first
          work              \* the call each session and the job is in

stripe == <<charge, sent>>
vars == <<invoice, attempt, posted, seen, charge, sent, work>>

\* _attempt_key, which digests what it names.
AutopayKey(due) == <<"autopay", due>>
AutopayKeys == {AutopayKey(due) : due \in (SUBSET Invoices) \ {{}}}
Keys    == ClientKeys \cup AutopayKeys
Workers == Sessions \cup {Scheduler}
Events  == {"charge.succeeded", "charge.failed", "charge.refunded", "partial_refund",
            "charge.dispute.created"}
ReturnEvents == {"charge.refunded", "charge.dispute.created"}

\* A browser's key is a string of at most 255 characters.
ASSUME KeysAssumption ==
    IsFiniteSet(ClientKeys) /\ ClientKeys \cap AutopayKeys = {}
ASSUME WorkersAssumption == Scheduler \notin Sessions
ASSUME StripeAssumption  ==
    /\ Replies # {} /\ Replies \subseteq {"processing", "succeeded"}
    /\ LateEvents \subseteq Events \ {"charge.succeeded"}
    /\ LostAnswers \in BOOLEAN

-----------------------------------------------------------------------------
(* The resident's balance. A pending attempt does not reduce it.            *)

Received(i) ==
    SumFunctionOnSet([k \in Keys |-> posted[k] * attempt[k].allocation[i]], Keys)

\* What is outstanding on each invoice.
Due == [i \in Invoices |->
          IF invoice[i] = "finalized" THEN Monus(Rent, Received(i)) ELSE 0]
DueInvoices == {i \in Invoices : Due[i] > 0}

\* amount_received reads reversed_at of every receipt, which receipts do not
\* have: what is outstanding is known only while nothing has been received.
Readable == \A i \in Invoices : invoice[i] = "finalized" => Received(i) = 0

Idle == [step |-> "idle"]
Calling(k) == [step |-> "calling", key |-> k]
Answered(k, result) == [step |-> "answered", key |-> k, result |-> result]

\* A new attempt row is committed, and w goes on to call Stripe.
Insert(w, k, allocation) ==
    /\ attempt' = [attempt EXCEPT ![k] = [status |-> "processing", ref |-> FALSE,
                                          allocation |-> allocation]]
    /\ work' = [work EXCEPT ![w] = Calling(k)]

\* make_payment up to the call. A key that has an attempt is only told its
\* status, whatever that is.
MakePayment(s) ==
    /\ work[s] = Idle
    /\ Readable
    /\ \E k \in ClientKeys, amount \in Amounts :
         /\ amount <= SumOf(Due)
         /\ attempt[k].status = "none"
         /\ Insert(s, k, OldestFirst(Due, amount))
    /\ UNCHANGED <<invoice, posted, seen, stripe>>

\* Mutant: an attempt that has no reference is not found again.
ForgottenDebits == {k \in AutopayKeys : attempt[k].status = "processing" /\ attempt[k].ref}

\* _run_lease_autopay up to the call. A debit that is known to be pending
\* blocks; one that may never have reached Stripe is called for again.
PendingDebits == {k \in AutopayKeys : attempt[k].status = "processing"}

RunAutopay ==
    /\ work[Scheduler] = Idle
    /\ Readable
    /\ DueInvoices # {}
    /\ \A k \in PendingDebits : ~attempt[k].ref
    /\ \/ \E k \in PendingDebits :
             /\ work' = [work EXCEPT ![Scheduler] = Calling(k)]
             /\ UNCHANGED attempt
       \/ /\ PendingDebits = {}
          /\ attempt[AutopayKey(DueInvoices)].status = "none"
          /\ Insert(Scheduler, AutopayKey(DueInvoices), Due)
    /\ UNCHANGED <<invoice, posted, seen, stripe>>

-----------------------------------------------------------------------------
(* Stripe.                                                                  *)

Emit(k, event) == sent' = [sent EXCEPT ![k] = Append(@, event)]

\* charge_payment: Stripe takes the charge, or has it already under the key.
TakeCharge(w) ==
    LET k == work[w].key IN
    /\ work[w].step = "calling"
    /\ \E reply \in Replies :
         /\ IF charge[k].status = "none"
              THEN /\ charge' = [charge EXCEPT ![k] =
                         [status |-> IF reply = "succeeded" THEN "succeeded" ELSE "pending",
                          reply |-> reply]]
                   /\ IF reply = "succeeded" THEN Emit(k, "charge.succeeded")
                                             ELSE UNCHANGED sent
              ELSE reply = charge[k].reply /\ UNCHANGED stripe
         /\ \E result \in {reply} \cup (IF LostAnswers THEN {"failed"} ELSE {}) :
              work' = [work EXCEPT ![w] = Answered(k, result)]
    /\ UNCHANGED <<invoice, attempt, posted, seen>>

\* charge_payment: Stripe declines, or the call never reaches it.
DeclineCharge(w) ==
    LET k == work[w].key IN
    /\ work[w].step = "calling"
    /\ charge[k].status = "none" \/ LostAnswers
    /\ work' = [work EXCEPT ![w] = Answered(k, "failed")]
    /\ UNCHANGED <<invoice, attempt, posted, seen, stripe>>

\* The bank decides a pending debit.
DecideCharge(k) ==
    /\ charge[k].status = "pending"
    /\ \E decision \in {"succeeded", "failed"} :
         /\ charge' = [charge EXCEPT ![k].status = decision]
         /\ Emit(k, IF decision = "succeeded" THEN "charge.succeeded" ELSE "charge.failed")
    /\ UNCHANGED <<invoice, attempt, posted, seen, work>>

\* Money that had cleared goes back: refund, dispute or late bank return. A
\* partial refund leaves the charge succeeded.
ReturnCharge(k) ==
    /\ charge[k].status \in {"succeeded", "returned"}
    /\ \E event \in LateEvents :
         /\ \A n \in DOMAIN sent[k] : sent[k][n] # event
         /\ charge' = [charge EXCEPT ![k].status =
                         IF event = "partial_refund" THEN @ ELSE "returned"]
         /\ Emit(k, event)
    /\ UNCHANGED <<invoice, attempt, posted, seen, work>>

-----------------------------------------------------------------------------
(* The attempt row is written.                                              *)

\* Mutant: posts whatever the status.
SettleAgain(k) ==
    /\ attempt' = [attempt EXCEPT ![k].status = "succeeded", ![k].ref = TRUE]
    /\ posted' = [posted EXCEPT ![k] = @ + 1]

\* settle_attempt: a receipt per allocated invoice. It fails on an invoice
\* that is no longer finalized, and the caller's transaction with it.
Settle(k) ==
    /\ attempt' = [attempt EXCEPT ![k].status = "succeeded", ![k].ref = TRUE]
    /\ IF attempt[k].status = "succeeded"
         THEN UNCHANGED posted
         ELSE /\ \A i \in Invoices : attempt[k].allocation[i] > 0 => invoice[i] = "finalized"
              /\ posted' = [posted EXCEPT ![k] = @ + 1]

\* Mutant: a debit Stripe has only taken counts as paid.
RecordOptimistically(w) ==
    LET k == work[w].key IN
    /\ work[w].step = "answered"
    /\ work[w].result \in {"processing", "succeeded"}
    /\ Settle(k)
    /\ work' = [work EXCEPT ![w] = Idle]
    /\ UNCHANGED <<invoice, seen, stripe>>

\* The answer is recorded on the locked, re-read row.
RecordAnswer(w) ==
    LET k == work[w].key IN
    /\ work[w].step = "answered"
    /\ \/ work[w].result = "succeeded" /\ Settle(k)
       \/ /\ work[w].result = "processing"
          /\ attempt' = [attempt EXCEPT ![k].ref = TRUE]
          /\ UNCHANGED posted
    /\ work' = [work EXCEPT ![w] = Idle]
    /\ UNCHANGED <<invoice, seen, stripe>>

\* A failed call is written over whatever the row's status is by now; the job
\* also keeps the reference a failed charge may have.
RecordFailure(w) ==
    LET k == work[w].key IN
    /\ work[w].step = "answered"
    /\ work[w].result = "failed"
    /\ \E ref \in {attempt[k].ref} \cup (IF w = Scheduler THEN {TRUE} ELSE {}) :
         attempt' = [attempt EXCEPT ![k].status = "failed", ![k].ref = ref]
    /\ work' = [work EXCEPT ![w] = Idle]
    /\ UNCHANGED <<invoice, posted, seen, stripe>>

\* The request is cut off, the job dies, or settling raises.
Crash(w) ==
    /\ work[w] # Idle
    /\ work' = [work EXCEPT ![w] = Idle]
    /\ UNCHANGED <<invoice, attempt, posted, seen, stripe>>

\* Mutant: a returned charge takes a receipt back, whether there is one or not.
ReverseBlindly(k, event) ==
    /\ attempt' = [attempt EXCEPT ![k].status = "returned", ![k].ref = TRUE]
    /\ posted' = [posted EXCEPT ![k] = @ - 1]

\* _fail_or_return_attempt. A settled attempt, or one whose money went back,
\* has its receipts reversed: reverse_receipt_in_gl reads reversed_at first and
\* fails, so that an attempt with receipts is not marked and the event is refused.
FailOrReturn(k, event) ==
    /\ IF event # "partial_refund" /\ (attempt[k].status = "succeeded" \/ event \in ReturnEvents)
         THEN /\ posted[k] = 0
              /\ attempt' = [attempt EXCEPT ![k].status = "returned", ![k].ref = TRUE]
         ELSE attempt' = [attempt EXCEPT ![k].ref = TRUE, ![k].status =
                 IF event = "charge.failed" /\ @ = "processing" THEN "failed" ELSE @]
    /\ UNCHANGED posted

\* An event that was processed before is acknowledged and dropped.
Replayed(k, event) == <<k, event>> \in seen

\* Mutant: the attempt is found by its reference only, not by the metadata.
DeliverByReference(k, n) ==
    LET event == sent[k][n] IN
    /\ ~Replayed(k, event)
    /\ IF ~attempt[k].ref THEN UNCHANGED <<attempt, posted>>
       ELSE IF event = "charge.succeeded" THEN Settle(k) ELSE FailOrReturn(k, event)
    /\ seen' = seen \cup {<<k, event>>}
    /\ UNCHANGED <<invoice, stripe, work>>

\* resident_stripe_webhook: Stripe delivers event n of a charge, in any order
\* and again and again until it is accepted.
Deliver(k, n) ==
    LET event == sent[k][n] IN
    /\ ~Replayed(k, event)
    /\ IF event = "charge.succeeded" THEN Settle(k) ELSE FailOrReturn(k, event)
    /\ seen' = seen \cup {<<k, event>>}
    /\ UNCHANGED <<invoice, stripe, work>>

DeliverSome(k) == \E n \in DOMAIN sent[k] : Deliver(k, n)

-----------------------------------------------------------------------------
(* The invoices change under the payments (rent_service, routers/ar.py).    *)

\* The next month's rent is billed.
Bill == \E i \in Invoices :
    /\ invoice[i] = "unbilled"
    /\ \A j \in 1 .. i - 1 : invoice[j] # "unbilled"
    /\ invoice' = [invoice EXCEPT ![i] = "finalized"]
    /\ UNCHANGED <<attempt, posted, seen, stripe, work>>

\* An invoice without receipts is voided.
Void == \E i \in Voidable :
    /\ invoice[i] = "finalized"
    /\ Received(i) = 0
    /\ invoice' = [invoice EXCEPT ![i] = "void"]
    /\ UNCHANGED <<attempt, posted, seen, stripe, work>>

-----------------------------------------------------------------------------
Init ==
    /\ invoice = [i \in Invoices |-> "unbilled"]
    /\ attempt = [k \in Keys |-> [status |-> "none", ref |-> FALSE, allocation |-> Nothing]]
    /\ posted = [k \in Keys |-> 0]
    /\ seen = {}
    /\ charge = [k \in Keys |-> [status |-> "none", reply |-> "processing"]]
    /\ sent = [k \in Keys |-> <<>>]
    /\ work = [w \in Workers |-> Idle]

Next ==
    \/ \E s \in Sessions : MakePayment(s)
    \/ RunAutopay
    \/ \E w \in Workers : TakeCharge(w) \/ DeclineCharge(w) \/ RecordAnswer(w)
                          \/ RecordFailure(w) \/ Crash(w)
    \/ \E k \in Keys : DecideCharge(k) \/ ReturnCharge(k) \/ DeliverSome(k)
    \/ Bill
    \/ Void

\* Stripe redelivers an event until it is accepted.
Fairness == \A k \in Keys : WF_vars(DeliverSome(k))

Spec == Init /\ [][Next]_vars
FairSpec == Spec /\ Fairness

-----------------------------------------------------------------------------
(* Properties.                                                              *)

Statuses == {"none", "processing", "succeeded", "failed", "returned"}

Calls == {Idle} \cup {Calling(k) : k \in Keys}
           \cup {Answered(k, r) : k \in Keys, r \in {"processing", "succeeded", "failed"}}

\* The types of the variables.
TypeOK ==
    /\ invoice \in [Invoices -> {"unbilled", "finalized", "void"}]
    /\ attempt \in [Keys -> [status : Statuses, ref : BOOLEAN,
                             allocation : [Invoices -> Nat]]]
    /\ posted \in [Keys -> Nat]
    /\ seen \subseteq Keys \X Events
    /\ charge \in [Keys -> [status : {"none", "pending", "succeeded", "failed", "returned"},
                            reply : {"processing", "succeeded"}]]
    /\ sent \in [Keys -> Seq(Events)]
    /\ work \in [Workers -> Calls]

\* However answers, events, retries and crashes interleave, the receipts of a
\* payment never count twice at the same time, and an attempt shown as
\* succeeded has its receipts.
LiveOnce ==
    \A k \in Keys : /\ posted[k] <= 1
                    /\ attempt[k].status = "succeeded" => posted[k] = 1

\* The receipts are there exactly when the bank's yes has been processed, for an
\* attempt the resident is shown as succeeded, and never for money that did not
\* clear. Money that goes back afterwards stays posted: see ReturnsReachBooks.
BooksFollowBank ==
    \A k \in Keys :
      /\ posted[k] = 1 <=> <<k, "charge.succeeded">> \in seen
      /\ posted[k] = 1 <=> attempt[k].status = "succeeded"
      /\ posted[k] = 1 => charge[k].status \in {"succeeded", "returned"}

\* What the pending and cleared charges of some keys take for invoice i.
Taken(keys, i) ==
    SumFunctionOnSet([k \in Keys |-> attempt[k].allocation[i]],
                     {k \in keys : charge[k].status \in {"pending", "succeeded"}})

\* charge_payment: "a retried request (network timeout, user double-click)
\* settles onto the same charge instead of taking the money twice": autopay does
\* not debit an invoice twice, whenever the job dies and is run again, because it
\* finds its attempt and repeats the call with the same key.
AutopayTakesRentOnce == \A i \in Invoices : Taken(AutopayKeys, i) <= Rent

\* The promise of Collection, with Stripe's charges for the bank.
Promise == INSTANCE Collection WITH
    Payments <- Keys,
    bank  <- [k \in Keys |-> charge[k].status],
    books <- [k \in Keys |-> IF posted[k] > 0 THEN "posted" ELSE "none"]

\* The payments implement the promise, its liveness included: money that cleared
\* is eventually posted, whoever dies and in whatever order the events arrive.
CollectsAsPromised == Promise!CollectionSpec

-----------------------------------------------------------------------------
(* What the repository says of itself and the code does not keep.           *)

\* Nobody is waiting for k's charge and every event of it has been processed.
Settled(k) == /\ \A w \in Workers : work[w] = Idle \/ work[w].key # k
              /\ \A n \in DOMAIN sent[k] : <<k, sent[k][n]>> \in seen

\* docs/INTEGRATIONS.md: "A refund, dispute, or return after settlement marks
\* the attempt returned, marks the original receipt reversed": money that went
\* back does not stay in the books.
ReturnsReachBooks == \A k \in Keys : charge[k].status = "returned" ~> posted[k] = 0

\* The same, of charges whose every event has been processed.
ReturnedIsReversed ==
    \A k \in Keys : Settled(k) /\ charge[k].status = "returned" => posted[k] = 0
=============================================================================
