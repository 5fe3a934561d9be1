----------------------------- MODULE Procurement -----------------------------
(***************************************************************************)
(* Purchasing (backend/app/routers/procurement.py, procurement_service.py):*)
(* requisitions under the maker-checker rules, competing vendor quotes,    *)
(* purchase orders and what was received against them. One action per      *)
(* endpoint, requests served one after the other; a refused request        *)
(* changes nothing and is no action.                                       *)
(*                                                                         *)
(* The lines of a requisition are abstracted to their total; an order has  *)
(* one line of Quantity pieces.                                            *)
(***************************************************************************)
EXTENDS Approval, FiniteSetsExt, Integers

CONSTANTS Users,            \* buyers and approvers
          Vendors,
          Requisitions, Orders, \* identifiers, each used for one row only
          Amounts,          \* totals of requisitions, quotes and bills
          Threshold,        \* finance_approval_threshold
          BidThreshold,     \* procurement_bid_threshold
          RequiredBids,     \* procurement_required_bids
          Tolerance,        \* match_tolerance_percent of every order
          Quantity          \* pieces on an order

VARIABLES requisition,      \* purchase_requisitions
          quote,            \* vendor_quotes, at most one per vendor
          order             \* purchase_orders and their lines

purchasing == <<requisition, quote, order>>

ASSUME PurchasingAssumption ==
    /\ Amounts \subseteq Nat \ {0} /\ Amounts # {} /\ NoUser \notin Users
    /\ Threshold \in Nat /\ BidThreshold \in Nat /\ RequiredBids \in Nat
    /\ Tolerance \in Nat /\ Quantity \in Nat \ {0}
    /\ Requisitions # {} /\ Vendors # {}

Requisition == [status : {"absent", "draft", "submitted", "approved", "rejected",
                          "ordered", "deleted"},
                total : Amounts, approval : ApprovalStatus,
                prepared : Users \cup {NoUser}, submitted : Users \cup {NoUser},
                approver : Users \cup {NoUser}]

\* amount = 0: the vendor has not quoted.
Quote == [amount : Amounts \cup {0}, selected : BOOLEAN, justified : BOOLEAN]
NoQuote == [amount |-> 0, selected |-> FALSE, justified |-> FALSE]

Order == [status : {"absent", "issued", "partially_received", "received", "closed",
                    "cancelled"},
          requisition : Requisitions, vendor : Vendors, total : Amounts,
          received : 0 .. Quantity]
OpenStatuses == {"issued", "partially_received", "received"}

\* requires_approval
NeedsApproval(total) == total >= Threshold

Quoted(r)   == {v \in Vendors : quote[r][v].amount > 0}
Selected(r) == {v \in Vendors : quote[r][v].selected}
Loaded(r)   == requisition[r].status \notin {"absent", "deleted"}

-----------------------------------------------------------------------------
(* Requisitions.                                                            *)

\* create_requisition
CreateRequisition(u, r) ==
    /\ requisition[r].status = "absent"
    /\ \E total \in Amounts :
         requisition' = [requisition EXCEPT ![r] =
           Initialize([@ EXCEPT !.status = "draft", !.total = total], NeedsApproval(total), u)]
    /\ UNCHANGED <<quote, order>>

\* update_requisition
UpdateRequisition(u, r) ==
    /\ requisition[r].status \in {"draft", "rejected"}
    /\ \E total \in Amounts :
         requisition' = [requisition EXCEPT ![r] =
           Initialize([@ EXCEPT !.status = "draft", !.total = total], NeedsApproval(total), u)]
    /\ UNCHANGED <<quote, order>>

\* delete_requisition: a soft delete.
DeleteRequisition(r) ==
    /\ Loaded(r)
    /\ requisition[r].status # "ordered"
    /\ requisition' = [requisition EXCEPT ![r].status = "deleted"]
    /\ UNCHANGED <<quote, order>>

\* submit_requisition
SubmitRequisition(u, r) ==
    LET row == requisition[r]  needed == NeedsApproval(row.total) IN
    /\ row.status \in {"draft", "rejected"}
    /\ MaySubmit(row, needed)
    /\ requisition' = [requisition EXCEPT ![r] =
                         [Submit(row, needed, u) EXCEPT !.status = "submitted"]]
    /\ UNCHANGED <<quote, order>>

\* approve_requisition: whatever its status, as long as a review is pending.
ApproveRequisition(u, r) ==
    /\ Loaded(r)
    /\ MayReview(requisition[r], u)
    /\ requisition' = [requisition EXCEPT ![r] = [Approve(@, u) EXCEPT !.status = "approved"]]
    /\ UNCHANGED <<quote, order>>

\* reject_requisition
RejectRequisition(u, r) ==
    /\ Loaded(r)
    /\ MayReview(requisition[r], u)
    /\ requisition' = [requisition EXCEPT ![r] = [Reject(@) EXCEPT !.status = "rejected"]]
    /\ UNCHANGED <<quote, order>>

-----------------------------------------------------------------------------
(* Quotes.                                                                  *)

\* assert_bids_sufficient on the quotes qs of requisition r.
BidsSufficient(r, qs) ==
    LET quoted   == {v \in Vendors : qs[v].amount > 0}
        selected == {v \in Vendors : qs[v].selected}
    IN
    /\ Cardinality(selected) <= 1
    /\ requisition[r].total >= BidThreshold /\ RequiredBids > 0 =>
         Cardinality(quoted) >= RequiredBids /\ selected # {}
    /\ \A w \in selected, v \in quoted : qs[w].amount <= qs[v].amount \/ qs[w].justified

\* add_quote
AddQuote(r) ==
    /\ Loaded(r)
    /\ requisition[r].status # "ordered"
    /\ \E v \in Vendors \ Quoted(r), amount \in Amounts :
         quote' = [quote EXCEPT ![r][v] = [NoQuote EXCEPT !.amount = amount]]
    /\ UNCHANGED <<requisition, order>>

\* select_quote: the others lose their mark and their reason.
SelectQuote(r) ==
    /\ Loaded(r)
    /\ requisition[r].status # "ordered"
    /\ \E w \in Quoted(r), justified \in BOOLEAN :
         LET marked == [v \in Vendors |->
                          [quote[r][v] EXCEPT !.selected = v = w, !.justified = v = w /\ justified]]
         IN /\ BidsSufficient(r, marked)
            /\ quote' = [quote EXCEPT ![r] = marked]
    /\ UNCHANGED <<requisition, order>>

\* delete_quote: at any time, even after the order.
DeleteQuote(r) ==
    /\ Loaded(r)
    /\ \E v \in Quoted(r) : quote' = [quote EXCEPT ![r][v] = NoQuote]
    /\ UNCHANGED <<requisition, order>>

-----------------------------------------------------------------------------
(* Purchase orders.                                                         *)

\* The guards of issue_purchase_order.
Issuable(r) == /\ requisition[r].status = "approved"
               /\ Postable(requisition[r])
               /\ BidsSufficient(r, quote[r])

\* Mutant: the requisition is not marked as ordered.
Unmarked(row) == row
Ordered(row) == [row EXCEPT !.status = "ordered"]

\* issue_purchase_order: to the selected vendor at the price quoted; with none
\* selected, to any vendor at the estimate.
IssueOrder(o, r) ==
    /\ order[o].status = "absent"
    /\ Issuable(r)
    /\ \E v \in IF Selected(r) = {} THEN Vendors ELSE Selected(r) :
         order' = [order EXCEPT ![o] =
           [status |-> "issued", requisition |-> r, vendor |-> v, received |-> 0,
            total |-> IF Selected(r) = {} THEN requisition[r].total ELSE quote[r][v].amount]]
    /\ requisition' = [requisition EXCEPT ![r] = Ordered(@)]
    /\ UNCHANGED quote

\* recompute_status
Recomputed(row) ==
    [row EXCEPT !.status = IF @ \in {"cancelled", "closed"} THEN @
                           ELSE IF row.received = 0 THEN "issued"
                           ELSE IF row.received >= Quantity THEN "received"
                           ELSE "partially_received"]

\* record_receipt
RecordReceipt(o) ==
    /\ order[o].status \in OpenStatuses
    /\ \E n \in 1 .. Quantity :
         /\ order[o].received + n <= Quantity
         /\ order' = [order EXCEPT ![o] = Recomputed([order[o] EXCEPT !.received = @ + n])]
    /\ UNCHANGED <<requisition, quote>>

\* close_purchase_order
CloseOrder(o) ==
    /\ order[o].status \notin {"absent", "cancelled"}
    /\ order' = [order EXCEPT ![o].status = "closed"]
    /\ UNCHANGED <<requisition, quote>>

\* Mutant: receipts do not stand in the way.
CancellableAlways(o) == order[o].status # "absent"
Cancellable(o) == order[o].status # "absent" /\ order[o].received = 0

\* cancel_purchase_order: a closed one, too.
CancelOrder(o) ==
    /\ Cancellable(o)
    /\ order' = [order EXCEPT ![o].status = "cancelled"]
    /\ UNCHANGED <<requisition, quote>>

PurchasingInit ==
    /\ requisition = [r \in Requisitions |->
                        [status |-> "absent", total |-> Min(Amounts), approval |-> "not_required",
                         prepared |-> NoUser, submitted |-> NoUser, approver |-> NoUser]]
    /\ quote = [r \in Requisitions |-> [v \in Vendors |-> NoQuote]]
    /\ order = [o \in Orders |->
                  [status |-> "absent", requisition |-> CHOOSE r \in Requisitions : TRUE,
                   vendor |-> CHOOSE v \in Vendors : TRUE, total |-> Min(Amounts), received |-> 0]]

Purchase == \/ \E u \in Users, r \in Requisitions :
                 \/ CreateRequisition(u, r) \/ UpdateRequisition(u, r) \/ SubmitRequisition(u, r)
                 \/ ApproveRequisition(u, r) \/ RejectRequisition(u, r)
            \/ \E r \in Requisitions : \/ DeleteRequisition(r) \/ AddQuote(r) \/ SelectQuote(r)
                                       \/ DeleteQuote(r) \/ \E o \in Orders : IssueOrder(o, r)
            \/ \E o \in Orders : RecordReceipt(o) \/ CloseOrder(o) \/ CancelOrder(o)

-----------------------------------------------------------------------------
(* Properties.                                                              *)

Issued == {o \in Orders : order[o].status # "absent"}

\* "A purchase order has already been issued for this requisition": each order
\* has a requisition of its own, which a second person approved and nobody
\* changed since.
OrderedOnSignOff ==
    /\ \A o \in Issued :
         LET row == requisition[order[o].requisition] IN
         /\ row.status = "ordered" /\ row.approval = "approved"
         /\ row.approver \notin {NoUser, row.prepared, row.submitted}
    /\ \A o, p \in Issued : order[o].requisition = order[p].requisition => o = p
=============================================================================
