------------------------------- MODULE Payables -------------------------------
(***************************************************************************)
(* Accounts payable (backend/app/routers/ap.py, ap_service.py) over        *)
(* purchasing, the maker-checker rules and the general ledger. One action  *)
(* per endpoint, requests served one after the other; the accounts a       *)
(* posting needs are taken to exist (Receivables is about a chart that     *)
(* lacks them).                                                            *)
(***************************************************************************)
EXTENDS Procurement, Ledger

CONSTANTS Bills, Payments,  \* identifiers, each used for one row only
          NoOrder           \* a bill without a purchase order

VARIABLES bill,             \* vendor_bills and their lines
          payment           \* vendor_payments

vars == <<requisition, quote, order, period, ledger, bill, payment>>

ASSUME PayablesAssumption == NoOrder \notin Orders /\ Periods # {} /\ Bills # {}

Bill == [status : {"absent", "draft", "finalized", "void", "deleted"},
         vendor : Vendors, order : Orders \cup {NoOrder}, total : Amounts, period : Periods,
         approval : ApprovalStatus, prepared : Users \cup {NoUser},
         submitted : Users \cup {NoUser}, approver : Users \cup {NoUser}]

Payment == [status : {"absent", "live", "deleted"}, bill : Bills, amount : Nat]

Entry == [period : Periods, amount : Nat]
BillRef(b)    == <<"bill", b>>
PaymentRef(p) == <<"payment", p>>
Refs == {BillRef(b) : b \in Bills} \cup {PaymentRef(p) : p \in Payments}

\* amount_paid
PaymentsOf(b) == {p \in Payments : payment[p].status = "live" /\ payment[p].bill = b}
Paid(b) == SumFunctionOnSet([p \in Payments |-> payment[p].amount], PaymentsOf(b))

Kept(b) == bill[b].status \notin {"absent", "deleted"}

-----------------------------------------------------------------------------
(* Bills.                                                                   *)

\* create_bill
CreateBill(u, b) ==
    /\ bill[b].status = "absent"
    /\ \E v \in Vendors, o \in Issued \cup {NoOrder}, total \in Amounts, p \in Periods :
         bill' = [bill EXCEPT ![b] =
           Initialize([@ EXCEPT !.status = "draft", !.vendor = v, !.order = o,
                                !.total = total, !.period = p], NeedsApproval(total), u)]
    /\ UNCHANGED <<requisition, quote, order, period, ledger, payment>>

\* update_bill: vendor and order stay.
UpdateBill(u, b) ==
    /\ bill[b].status = "draft"
    /\ \E total \in Amounts, p \in Periods :
         bill' = [bill EXCEPT ![b] =
           Initialize([@ EXCEPT !.total = total, !.period = p], NeedsApproval(total), u)]
    /\ UNCHANGED <<requisition, quote, order, period, ledger, payment>>

\* delete_bill
DeleteBill(b) ==
    /\ bill[b].status = "draft"
    /\ bill' = [bill EXCEPT ![b].status = "deleted"]
    /\ UNCHANGED <<requisition, quote, order, period, ledger, payment>>

\* submit_bill
SubmitBill(u, b) ==
    /\ bill[b].status = "draft"
    /\ MaySubmit(bill[b], NeedsApproval(bill[b].total))
    /\ bill' = [bill EXCEPT ![b] = Submit(@, NeedsApproval(bill[b].total), u)]
    /\ UNCHANGED <<requisition, quote, order, period, ledger, payment>>

\* approve_bill
ApproveBill(u, b) ==
    /\ Kept(b)
    /\ MayReview(bill[b], u)
    /\ bill' = [bill EXCEPT ![b] = Approve(@, u)]
    /\ UNCHANGED <<requisition, quote, order, period, ledger, payment>>

\* reject_bill
RejectBill(u, b) ==
    /\ Kept(b)
    /\ MayReview(bill[b], u)
    /\ bill' = [bill EXCEPT ![b] = Reject(@)]
    /\ UNCHANGED <<requisition, quote, order, period, ledger, payment>>

\* The most a bill against order o may come to.
Ceiling(o) == order[o].total + (order[o].total * Tolerance) \div 100

\* assert_bill_matches_order
MatchesOrder(row) ==
    row.order # NoOrder => /\ row.vendor = order[row.order].vendor
                           /\ order[row.order].status \in OpenStatuses
                           /\ order[row.order].received > 0
                           /\ row.total <= Ceiling(row.order)

\* finalize_bill and post_bill_to_gl
FinalizeBill(b) ==
    /\ bill[b].status = "draft"
    /\ Postable(bill[b])
    /\ MatchesOrder(bill[b])
    /\ IsOpen(bill[b].period)
    /\ bill' = [bill EXCEPT ![b].status = "finalized"]
    /\ Post(BillRef(b), ledger[BillRef(b)], [period |-> bill[b].period, amount |-> bill[b].total])
    /\ UNCHANGED <<requisition, quote, order, period, payment>>

Voidable(b) == bill[b].status = "finalized" /\ Paid(b) = 0

\* void_bill
VoidBill(b) ==
    /\ Voidable(b)
    /\ bill' = [bill EXCEPT ![b].status = "void"]
    /\ Erase(BillRef(b))
    /\ UNCHANGED <<requisition, quote, order, period, payment>>

-----------------------------------------------------------------------------
(* Payments.                                                                *)

\* create_payment and post_payment_to_gl
CreatePayment(p) ==
    /\ payment[p].status = "absent"
    /\ \E b \in Bills, day \in Periods :
         /\ bill[b].status = "finalized"
         /\ IsOpen(day)
         /\ \E amount \in 1 .. bill[b].total - Paid(b) :
              /\ payment' = [payment EXCEPT ![p] = [status |-> "live", bill |-> b, amount |-> amount]]
              /\ Post(PaymentRef(p), ledger[PaymentRef(p)], [period |-> day, amount |-> amount])
    /\ UNCHANGED <<requisition, quote, order, period, bill>>

\* delete_payment: whatever the state of the period its entry lies in.
DeletePayment(p) ==
    /\ payment[p].status = "live"
    /\ payment' = [payment EXCEPT ![p].status = "deleted"]
    /\ Erase(PaymentRef(p))
    /\ UNCHANGED <<requisition, quote, order, period, bill>>

-----------------------------------------------------------------------------

Init ==
    /\ PurchasingInit
    /\ period = [p \in Periods |-> "open"]
    /\ ledger = [ref \in Refs |-> {}]
    /\ bill = [b \in Bills |->
                 [status |-> "absent", vendor |-> CHOOSE v \in Vendors : TRUE, order |-> NoOrder,
                  total |-> Min(Amounts), period |-> CHOOSE p \in Periods : TRUE,
                  approval |-> "not_required", prepared |-> NoUser, submitted |-> NoUser,
                  approver |-> NoUser]]
    /\ payment = [p \in Payments |->
                    [status |-> "absent", bill |-> CHOOSE b \in Bills : TRUE, amount |-> 0]]

Next == \/ Purchase /\ UNCHANGED <<period, ledger, bill, payment>>
        \/ \E u \in Users, b \in Bills : \/ CreateBill(u, b) \/ UpdateBill(u, b) \/ SubmitBill(u, b)
                                         \/ ApproveBill(u, b) \/ RejectBill(u, b)
        \/ \E b \in Bills : DeleteBill(b) \/ FinalizeBill(b) \/ VoidBill(b)
        \/ \E p \in Payments : CreatePayment(p) \/ DeletePayment(p)
        \/ /\ \E p \in Periods : ClosePeriod(p) \/ ReopenPeriod(p)
           /\ UNCHANGED <<requisition, quote, order, bill, payment>>

Spec == Init /\ [][Next]_vars

-----------------------------------------------------------------------------
(* Properties.                                                              *)

\* The types of the variables.
TypeOK ==
    /\ requisition \in [Requisitions -> Requisition]
    /\ quote \in [Requisitions -> [Vendors -> Quote]]
    /\ order \in [Orders -> Order]
    /\ bill \in [Bills -> Bill]
    /\ payment \in [Payments -> Payment]
    /\ period \in [Periods -> PeriodStatus]
    /\ ledger \in [Refs -> SUBSET Entry]

Final(b) == bill[b].status = "finalized"

\* The three-way match still holds long after the bill was posted: the goods
\* came, and the order they came on cannot be cancelled under the bill.
BilledOrderStands ==
    \A b \in Bills : Final(b) /\ bill[b].order # NoOrder =>
      LET o == order[bill[b].order] IN
      /\ o.received > 0 /\ o.status # "cancelled"
      /\ o.vendor = bill[b].vendor /\ bill[b].total <= Ceiling(bill[b].order)
      /\ requisition[o.requisition].approval = "approved"

\* The ledger holds one entry of its amount for each finalized bill and each
\* live payment, and none for any other; and "paid bills cannot be voided":
\* the payments never exceed the bill, and only a finalized one has any.
BooksMatchBills ==
    /\ \A b \in Bills : Paid(b) <= IF Final(b) THEN bill[b].total ELSE 0
    /\ \A b \in Bills :
         {e.amount : e \in ledger[BillRef(b)]} = IF Final(b) THEN {bill[b].total} ELSE {}
    /\ \A p \in Payments :
         {e.amount : e \in ledger[PaymentRef(p)]} =
           IF payment[p].status = "live" THEN {payment[p].amount} ELSE {}
    /\ \A ref \in Refs : Cardinality(ledger[ref]) <= 1

\* A bill in the ledger is one that needed no second signature or has that of
\* somebody who neither prepared nor submitted it.
PostedBillSigned ==
    \A b \in Bills : Final(b) =>
      /\ NeedsApproval(bill[b].total) => bill[b].approval = "approved"
      /\ bill[b].approval = "approved" =>
           bill[b].approver \notin {NoUser, bill[b].prepared, bill[b].submitted}

\* Two signatures: what is ordered and what is posted above the limit.
SignedOff == OrderedOnSignOff /\ PostedBillSigned

\* assert_bill_matches_order: "the invoice must agree with what was ordered
\* and what was received": no more is billed than the share received costs.
BilledForReceived ==
    \A o \in Issued :
      Quantity * MapThenSumSet(LAMBDA b : bill[b].total, {b \in Bills : Final(b) /\ bill[b].order = o})
        <= order[o].received * Ceiling(o)
=============================================================================
