------------------------------ MODULE CardPayments ------------------------------
(***************************************************************************)
(* Resident card payments: make_payment in                                 *)
(* backend/app/routers/resident_portal.py when the saved method is a card. *)
(*                                                                         *)
(* A card payment leaves no attempt row. The handler plans the allocation, *)
(* charges the card once, and then records a receipt per invoice, each     *)
(* with a commit of its own; nothing ties the receipts to the key. A       *)
(* browser that saw no answer sends the same key and amount again          *)
(* (Resend), and so does a double click.                                   *)
(***************************************************************************)
EXTENDS Allocation

CONSTANTS CardKeys,         \* idempotency keys browsers make up
          Resend            \* may a key be sent more than once?

VARIABLES bill,             \* status of each month's invoice
          paid,             \* receipts: paid[k][i] under charge k on invoice i
          taken,            \* Stripe: the amount taken under each key, or 0
          request           \* the request each session has in flight

cardVars == <<bill, paid, taken, request>>

\* A browser's key is a string of at most 255 characters.
ASSUME CardAssumption == IsFiniteSet(CardKeys) /\ Resend \in BOOLEAN

ReceivedByCard(i) == SumFunctionOnSet([k \in CardKeys |-> paid[k][i]], CardKeys)
Outstanding == [i \in Invoices |->
          IF bill[i] = "finalized" THEN Monus(Rent, ReceivedByCard(i)) ELSE 0]

\* amount_received fails on an invoice that has a receipt (see BankPayments).
BalanceReadable == \A i \in Invoices : bill[i] = "finalized" => ReceivedByCard(i) = 0

NoRequest == [step |-> "idle"]

\* Keys that money was taken under, or that a request is using.
Used == {k \in CardKeys : taken[k] > 0
                          \/ \E s \in Sessions : request[s] # NoRequest /\ request[s].key = k}

\* make_payment, up to the call: within the balance, oldest invoice first.
PayByCard(s) ==
    /\ request[s] = NoRequest
    /\ BalanceReadable
    /\ \E k \in CardKeys, amount \in Amounts :
         /\ Resend \/ k \notin Used
         /\ amount <= SumOf(Outstanding)
         /\ request' = [request EXCEPT ![s] = [step |-> "calling", key |-> k,
                           amount |-> amount, plan |-> OldestFirst(Outstanding, amount)]]
    /\ UNCHANGED <<bill, paid, taken>>

\* charge_payment: the card is charged once per key; the same key with another
\* amount is refused.
ChargeCard(s) ==
    LET r == request[s] IN
    /\ r.step = "calling"
    /\ taken[r.key] \in {0, r.amount}
    /\ taken' = [taken EXCEPT ![r.key] = r.amount]
    /\ request' = [request EXCEPT ![s].step = "charged"]
    /\ UNCHANGED <<bill, paid>>

\* Mutant: the receipt is not struck off the plan.
RecordAgain(s) ==
    LET r == request[s] IN
    /\ r.step = "charged"
    /\ \E i \in Invoices :
         /\ r.plan[i] > 0
         /\ paid[r.key][i] <= 2 * Rent
         /\ paid' = [paid EXCEPT ![r.key][i] = @ + r.plan[i]]
    /\ UNCHANGED <<bill, taken, request>>

\* The next receipt of the plan is recorded and committed.
RecordReceipt(s) ==
    LET r == request[s] IN
    /\ r.step = "charged"
    /\ \E i \in Invoices :
         /\ r.plan[i] > 0
         /\ \A j \in 1 .. i - 1 : r.plan[j] = 0
         /\ bill[i] = "finalized"
         /\ paid' = [paid EXCEPT ![r.key][i] = @ + r.plan[i]]
         /\ request' = [request EXCEPT ![s].plan[i] = 0]
    /\ UNCHANGED <<bill, taken>>

\* The request is answered: everything recorded, the card declined or not
\* answered for, an invoice no longer finalized, or the process gone.
Finish(s) ==
    /\ request[s] # NoRequest
    /\ request' = [request EXCEPT ![s] = NoRequest]
    /\ UNCHANGED <<bill, paid, taken>>

\* The call times out after the card was charged.
TimeOut(s) ==
    LET r == request[s] IN
    /\ r.step = "calling"
    /\ taken[r.key] \in {0, r.amount}
    /\ taken' = [taken EXCEPT ![r.key] = r.amount]
    /\ request' = [request EXCEPT ![s] = NoRequest]
    /\ UNCHANGED <<bill, paid>>

\* An invoice without receipts is voided (routers/ar.py).
VoidUnpaid(i) ==
    /\ bill[i] = "finalized"
    /\ ReceivedByCard(i) = 0
    /\ bill' = [bill EXCEPT ![i] = "void"]
    /\ UNCHANGED <<paid, taken, request>>

CardInit ==
    /\ bill = [i \in Invoices |-> "finalized"]
    /\ paid = [k \in CardKeys |-> Nothing]
    /\ taken = [k \in CardKeys |-> 0]
    /\ request = [s \in Sessions |-> NoRequest]

CardNext ==
    \/ \E s \in Sessions : PayByCard(s) \/ ChargeCard(s) \/ RecordReceipt(s)
                           \/ Finish(s) \/ TimeOut(s)
    \/ \E i \in Invoices : VoidUnpaid(i)

CardSpec == CardInit /\ [][CardNext]_cardVars

-----------------------------------------------------------------------------
(* Properties.                                                              *)

CardRequest == [step : {"calling", "charged"}, key : CardKeys, amount : Amounts,
                plan : [Invoices -> Nat]]

\* The types of the variables.
CardTypeOK ==
    /\ bill \in [Invoices -> {"finalized", "void"}]
    /\ paid \in [CardKeys -> [Invoices -> Nat]]
    /\ taken \in [CardKeys -> Nat]
    /\ request \in [Sessions -> {NoRequest} \cup CardRequest]

\* make_payment: "so a double-submit is still collapsed": the receipts under a
\* charge do not exceed what the card was charged.
ReceiptsWithinCharge == \A k \in CardKeys : SumOf(paid[k]) <= taken[k]
=============================================================================
