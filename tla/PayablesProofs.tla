---------------------------- MODULE PayablesProofs ----------------------------
(***************************************************************************)
(* Proofs about Payables, for any users, vendors, documents, amounts and   *)
(* thresholds.                                                             *)
(*                                                                         *)
(* Whatever the sequence of calls, a review that says "approved" names     *)
(* somebody else than the maker (Reviewed), and the status of a document   *)
(* says enough about its review (RequisitionInv, BillInv) for what is      *)
(* ordered and posted to be signed off. An order has a requisition that    *)
(* nobody can touch any more (OrderInv), so what was matched when a bill   *)
(* was posted stands. The books need no more than the types and that the   *)
(* payments of a bill are finitely many (BooksInv).                        *)
(***************************************************************************)
EXTENDS Payables, Sums, TLAPS

USE PurchasingAssumption, PayablesAssumption

-----------------------------------------------------------------------------
(* Type correctness.                                                        *)

\* The amounts have a smallest one, which the rows are initialized with.
LEMMA MinOfAmounts == Min(Amounts) \in Amounts
<1>1. Amounts \in SUBSET Nat /\ Amounts # {}
  BY DEF PurchasingAssumption
<1>2. PICK x \in Amounts : \A y \in Amounts : <<y, x>> \notin OpToRel(<, Nat)
  BY <1>1, NatLessThanWellFounded, WFMin, Zenon
<1>3. \A y \in Amounts : x <= y
  <2> TAKE y \in Amounts
  <2>1. <<y, x>> \notin OpToRel(<, Nat) /\ x \in Nat /\ y \in Nat
    BY <1>1, <1>2
  <2> QED
    BY <2>1 DEF OpToRel
<1> QED
  BY <1>3 DEF Min

\* The review columns of a requisition keep their types.
LEMMA RequisitionRow ==
    ASSUME NEW row \in Requisition, NEW u \in Users, NEW needed \in BOOLEAN,
           NEW total \in Amounts
    PROVE  /\ Initialize([row EXCEPT !.status = "draft", !.total = total], needed, u) \in Requisition
           /\ [Submit(row, needed, u) EXCEPT !.status = "submitted"] \in Requisition
           /\ [Approve(row, u) EXCEPT !.status = "approved"] \in Requisition
           /\ [Reject(row) EXCEPT !.status = "rejected"] \in Requisition
  BY DEF Requisition, Initialize, Submit, Approve, Reject, ApprovalStatus

\* So do those of a bill.
LEMMA BillRow ==
    ASSUME NEW row \in Bill, NEW u \in Users, NEW needed \in BOOLEAN
    PROVE  /\ Initialize(row, needed, u) \in Bill
           /\ Submit(row, needed, u) \in Bill
           /\ Approve(row, u) \in Bill
           /\ Reject(row) \in Bill
  BY DEF Bill, Initialize, Submit, Approve, Reject, ApprovalStatus

\* A vendor is selected by a quote that has an amount.
SelectedQuoted ==
    \A r \in Requisitions, v \in Vendors : quote[r][v].selected => quote[r][v].amount # 0

\* The types of what Procurement keeps.
PurchasingTypes ==
    /\ requisition \in [Requisitions -> Requisition]
    /\ quote \in [Requisitions -> [Vendors -> Quote]]
    /\ order \in [Orders -> Order]
    /\ SelectedQuoted

Typed == TypeOK /\ SelectedQuoted

\* The types at the start.
LEMMA TypeInit == Init => Typed
<1> SUFFICES ASSUME Init PROVE Typed
  OBVIOUS
<1>1. Min(Amounts) \in Amounts
  BY MinOfAmounts
<1>2. PurchasingTypes
  <2>1. requisition \in [Requisitions -> Requisition]
    BY <1>1 DEF Init, PurchasingInit, Requisition, ApprovalStatus
  <2>2. NoQuote \in Quote
    BY DEF NoQuote, Quote
  <2>3. quote \in [Requisitions -> [Vendors -> Quote]]
    BY <2>2 DEF Init, PurchasingInit
  <2>4. order \in [Orders -> Order]
    <3>1. (CHOOSE r \in Requisitions : TRUE) \in Requisitions /\ (CHOOSE v \in Vendors : TRUE) \in Vendors
      BY DEF PurchasingAssumption
    <3>2. 0 \in 0 .. Quantity
      BY DEF PurchasingAssumption
    <3> QED
      BY <1>1, <3>1, <3>2 DEF Init, PurchasingInit, Order
  <2>5. SelectedQuoted
    BY DEF Init, PurchasingInit, NoQuote, SelectedQuoted
  <2> QED
    BY <2>1, <2>3, <2>4, <2>5 DEF PurchasingTypes
<1>3. bill \in [Bills -> Bill]
  <2>1. (CHOOSE p \in Periods : TRUE) \in Periods /\ (CHOOSE v \in Vendors : TRUE) \in Vendors
    BY DEF PurchasingAssumption, PayablesAssumption
  <2> QED
    BY <1>1, <2>1 DEF Init, Bill, ApprovalStatus
<1>4. payment \in [Payments -> Payment]
  <2>1. (CHOOSE b \in Bills : TRUE) \in Bills
    BY DEF PayablesAssumption
  <2> QED
    BY <2>1 DEF Init, Payment
<1>5. period \in [Periods -> PeriodStatus] /\ ledger \in [Refs -> SUBSET Entry]
  BY DEF Init, PeriodStatus
<1> QED
  BY <1>2, <1>3, <1>4, <1>5 DEF Typed, TypeOK, PurchasingTypes

\* A row that is replaced by one of its type leaves a table of that type.
LEMMA RequisitionReplaced ==
    ASSUME Typed, NEW r \in Requisitions, NEW row \in Requisition,
           requisition' = [requisition EXCEPT ![r] = row], UNCHANGED <<quote, order>>
    PROVE  PurchasingTypes'
  BY DEF Typed, TypeOK, PurchasingTypes, SelectedQuoted

LEMMA OrderReplaced ==
    ASSUME Typed, NEW o \in Orders, NEW row \in Order,
           order' = [order EXCEPT ![o] = row], UNCHANGED <<requisition, quote>>
    PROVE  PurchasingTypes'
  BY DEF Typed, TypeOK, PurchasingTypes, SelectedQuoted

LEMMA QuotesReplaced ==
    ASSUME Typed, NEW r \in Requisitions, NEW qs \in [Vendors -> Quote],
           \A v \in Vendors : qs[v].selected => qs[v].amount # 0,
           quote' = [quote EXCEPT ![r] = qs], UNCHANGED <<requisition, order>>
    PROVE  PurchasingTypes'
  BY DEF Typed, TypeOK, PurchasingTypes, SelectedQuoted

\* Purchasing keeps its types.
LEMMA PurchaseTypes ==
    ASSUME Typed, Purchase
    PROVE  PurchasingTypes'
<1> USE DEF Typed, TypeOK
<1>1. ASSUME NEW u \in Users, NEW r \in Requisitions, CreateRequisition(u, r) \/ UpdateRequisition(u, r)
      PROVE  PurchasingTypes'
  <2>1. PICK total \in Amounts :
          requisition' = [requisition EXCEPT ![r] =
            Initialize([@ EXCEPT !.status = "draft", !.total = total], NeedsApproval(total), u)]
    BY <1>1 DEF CreateRequisition, UpdateRequisition
  <2>2. requisition[r] \in Requisition /\ NeedsApproval(total) \in BOOLEAN
    BY DEF NeedsApproval
  <2> QED
    BY <1>1, <2>1, <2>2, RequisitionRow, RequisitionReplaced DEF CreateRequisition, UpdateRequisition
<1>2. ASSUME NEW u \in Users, NEW r \in Requisitions,
             SubmitRequisition(u, r) \/ ApproveRequisition(u, r) \/ RejectRequisition(u, r)
      PROVE  PurchasingTypes'
  <2>1. requisition[r] \in Requisition /\ NeedsApproval(requisition[r].total) \in BOOLEAN
    BY DEF NeedsApproval
  <2>2. requisition[r].total \in Amounts
    BY <2>1 DEF Requisition
  <2> QED
    BY <1>2, <2>1, <2>2, RequisitionRow, RequisitionReplaced
       DEF SubmitRequisition, ApproveRequisition, RejectRequisition
<1>3. ASSUME NEW r \in Requisitions, DeleteRequisition(r)
      PROVE  PurchasingTypes'
  <2> requisition[r] \in Requisition
    OBVIOUS
  <2>1. [requisition[r] EXCEPT !.status = "deleted"] \in Requisition
    BY DEF Requisition
  <2> QED
    BY <1>3, <2>1, RequisitionReplaced DEF DeleteRequisition
<1>4. ASSUME NEW r \in Requisitions, AddQuote(r) \/ DeleteQuote(r)
      PROVE  PurchasingTypes'
  <2>1. PICK v \in Vendors, amount \in Amounts \cup {0} :
          quote' = [quote EXCEPT ![r] = [quote[r] EXCEPT ![v] = [NoQuote EXCEPT !.amount = amount]]]
    <3>1. CASE AddQuote(r)
      BY <3>1 DEF AddQuote
    <3>2. CASE DeleteQuote(r)
      <4>1. NoQuote = [NoQuote EXCEPT !.amount = 0]
        BY DEF NoQuote
      <4> QED
        BY <3>2, <4>1 DEF DeleteQuote, Quoted
    <3> QED
      BY <1>4, <3>1, <3>2
  <2>2. [NoQuote EXCEPT !.amount = amount] \in Quote /\ ~[NoQuote EXCEPT !.amount = amount].selected
    BY DEF NoQuote, Quote
  <2>3. quote[r] \in [Vendors -> Quote]
    OBVIOUS
  <2> DEFINE qs == [quote[r] EXCEPT ![v] = [NoQuote EXCEPT !.amount = amount]]
  <2>4. qs \in [Vendors -> Quote] /\ \A w \in Vendors : qs[w].selected => qs[w].amount # 0
    BY <2>2, <2>3 DEF SelectedQuoted
  <2>5. UNCHANGED <<requisition, order>>
    BY <1>4 DEF AddQuote, DeleteQuote
  <2> HIDE DEF qs
  <2>6. quote' = [quote EXCEPT ![r] = qs]
    BY <2>1 DEF qs
  <2> QED
    BY <2>4, <2>5, <2>6, QuotesReplaced
<1>5. ASSUME NEW r \in Requisitions, SelectQuote(r)
      PROVE  PurchasingTypes'
  <2>1. PICK w \in Quoted(r), justified \in BOOLEAN :
          quote' = [quote EXCEPT ![r] =
            [v \in Vendors |-> [quote[r][v] EXCEPT !.selected = v = w, !.justified = v = w /\ justified]]]
    BY <1>5 DEF SelectQuote
  <2> DEFINE qs == [v \in Vendors |->
                      [quote[r][v] EXCEPT !.selected = v = w, !.justified = v = w /\ justified]]
  <2>2. ASSUME NEW v \in Vendors
        PROVE  qs[v] \in Quote /\ (qs[v].selected => v = w) /\ qs[v].amount = quote[r][v].amount
    <3>1. quote[r][v] \in Quote
      OBVIOUS
    <3> QED
      BY <3>1 DEF Quote
  <2>3. quote[r][w].amount # 0
    BY DEF Quoted
  <2>4. qs \in [Vendors -> Quote] /\ \A v \in Vendors : qs[v].selected => qs[v].amount # 0
    BY <2>2, <2>3
  <2>5. UNCHANGED <<requisition, order>>
    BY <1>5 DEF SelectQuote
  <2>6. quote' = [quote EXCEPT ![r] = qs]
    BY <2>1
  <2> HIDE DEF qs
  <2> QED
    BY <2>4, <2>5, <2>6, QuotesReplaced
<1>6. ASSUME NEW r \in Requisitions, NEW o \in Orders, IssueOrder(o, r)
      PROVE  PurchasingTypes'
  <2>1. PICK row \in Order : order' = [order EXCEPT ![o] = row]
    <3>1. PICK v \in IF Selected(r) = {} THEN Vendors ELSE Selected(r) :
            order' = [order EXCEPT ![o] =
             [status |-> "issued", requisition |-> r, vendor |-> v, received |-> 0,
              total |-> IF Selected(r) = {} THEN requisition[r].total ELSE quote[r][v].amount]]
      BY <1>6 DEF IssueOrder
    <3>2. v \in Vendors /\ 0 \in 0 .. Quantity
      BY DEF Selected, PurchasingAssumption
    <3>3. Selected(r) = {} => requisition[r].total \in Amounts
      BY DEF Requisition
    <3>4. Selected(r) # {} => quote[r][v].amount \in Amounts
      <4>1. quote[r][v] \in Quote
        BY <3>2
      <4> QED
        BY <3>2, <4>1 DEF Selected, Quote, SelectedQuoted
    <3> QED
      BY <3>1, <3>2, <3>3, <3>4 DEF Order
  <2>2. PICK rq \in Requisition : requisition' = [requisition EXCEPT ![r] = rq]
    <3> requisition[r] \in Requisition
      OBVIOUS
    <3>1. [requisition[r] EXCEPT !.status = "ordered"] \in Requisition
      BY DEF Requisition
    <3> QED
      BY <1>6, <3>1 DEF IssueOrder, Ordered
  <2>3. quote' = quote
    BY <1>6 DEF IssueOrder
  <2> QED
    BY <2>1, <2>2, <2>3 DEF PurchasingTypes, SelectedQuoted
<1>7. ASSUME NEW o \in Orders, RecordReceipt(o)
      PROVE  PurchasingTypes'
  <2>1. PICK n \in 1 .. Quantity :
          /\ order[o].received + n <= Quantity
          /\ order' = [order EXCEPT ![o] = Recomputed([order[o] EXCEPT !.received = @ + n])]
    BY <1>7 DEF RecordReceipt
  <2>2. order[o] \in Order /\ Quantity \in Nat
    BY DEF PurchasingAssumption
  <2>3. order[o].received + n \in 0 .. Quantity
    BY <2>1, <2>2 DEF Order
  <2>4. [order[o] EXCEPT !.received = @ + n] \in Order
    BY <2>2, <2>3 DEF Order
  <2> DEFINE row == Recomputed([order[o] EXCEPT !.received = @ + n])
  <2>5. row \in Order
    BY <2>4 DEF Recomputed, Order
  <2>6. order' = [order EXCEPT ![o] = row]
    BY <2>1
  <2>7. UNCHANGED <<requisition, quote>>
    BY <1>7 DEF RecordReceipt
  <2> HIDE DEF row
  <2> QED
    BY <2>5, <2>6, <2>7, OrderReplaced
<1>8. ASSUME NEW o \in Orders, CloseOrder(o) \/ CancelOrder(o)
      PROVE  PurchasingTypes'
  <2>1. order[o] \in Order
    OBVIOUS
  <2>2. [order[o] EXCEPT !.status = "closed"] \in Order
    BY <2>1 DEF Order
  <2>3. [order[o] EXCEPT !.status = "cancelled"] \in Order
    BY <2>1 DEF Order
  <2> QED
    BY <1>8, <2>2, <2>3, OrderReplaced DEF CloseOrder, CancelOrder
<1> QED
  BY <1>1, <1>2, <1>3, <1>4, <1>5, <1>6, <1>7, <1>8 DEF Purchase

\* What an operation on a bill may leave in its row.
LEMMA BillReplaced ==
    ASSUME Typed, NEW b \in Bills, NEW row \in Bill, bill' = [bill EXCEPT ![b] = row]
    PROVE  bill' \in [Bills -> Bill]
  BY DEF Typed, TypeOK

LEMMA BillTypes ==
    ASSUME Typed, NEW u \in Users, NEW b \in Bills,
           \/ CreateBill(u, b) \/ UpdateBill(u, b) \/ SubmitBill(u, b)
           \/ ApproveBill(u, b) \/ RejectBill(u, b)
    PROVE  bill' \in [Bills -> Bill]
<1> bill[b] \in Bill
  BY DEF Typed, TypeOK
<1>1. CASE CreateBill(u, b)
  <2>1. PICK v \in Vendors, o \in Issued \cup {NoOrder}, total \in Amounts, p \in Periods :
          bill' = [bill EXCEPT ![b] =
            Initialize([@ EXCEPT !.status = "draft", !.vendor = v, !.order = o,
                                 !.total = total, !.period = p], NeedsApproval(total), u)]
    BY <1>1 DEF CreateBill
  <2>2. [bill[b] EXCEPT !.status = "draft", !.vendor = v, !.order = o,
                        !.total = total, !.period = p] \in Bill
    BY DEF Bill, Issued
  <2>3. NeedsApproval(total) \in BOOLEAN
    BY DEF NeedsApproval
  <2> QED
    BY <2>1, <2>2, <2>3, BillRow, BillReplaced
<1>2. CASE UpdateBill(u, b)
  <2>1. PICK total \in Amounts, p \in Periods :
          bill' = [bill EXCEPT ![b] =
            Initialize([@ EXCEPT !.total = total, !.period = p], NeedsApproval(total), u)]
    BY <1>2 DEF UpdateBill
  <2>2. [bill[b] EXCEPT !.total = total, !.period = p] \in Bill
    BY DEF Bill
  <2>3. NeedsApproval(total) \in BOOLEAN
    BY DEF NeedsApproval
  <2> QED
    BY <2>1, <2>2, <2>3, BillRow, BillReplaced
<1>3. CASE SubmitBill(u, b) \/ ApproveBill(u, b) \/ RejectBill(u, b)
  <2>1. NeedsApproval(bill[b].total) \in BOOLEAN
    BY DEF NeedsApproval
  <2> QED
    BY <1>3, <2>1, BillRow, BillReplaced DEF SubmitBill, ApproveBill, RejectBill
<1> QED
  BY <1>1, <1>2, <1>3

\* An entry that is posted has the type of one.
LEMMA PostTypes ==
    ASSUME Typed, NEW ref \in Refs, NEW dropped, NEW e \in Entry, Post(ref, dropped, e)
    PROVE  ledger' \in [Refs -> SUBSET Entry]
  BY DEF Typed, TypeOK, Post

LEMMA EraseTypes ==
    ASSUME Typed, NEW ref \in Refs, Erase(ref)
    PROVE  ledger' \in [Refs -> SUBSET Entry]
  BY DEF Typed, TypeOK, Erase

\* Every step keeps the types.
LEMMA TypeNext == Typed /\ [Next]_vars => Typed'
<1> SUFFICES ASSUME Typed, [Next]_vars PROVE Typed'
  OBVIOUS
<1> USE DEF Typed, TypeOK
<1>1. CASE Purchase /\ UNCHANGED <<period, ledger, bill, payment>>
  BY <1>1, PurchaseTypes DEF PurchasingTypes
<1>2. ASSUME NEW u \in Users, NEW b \in Bills,
             \/ CreateBill(u, b) \/ UpdateBill(u, b) \/ SubmitBill(u, b)
             \/ ApproveBill(u, b) \/ RejectBill(u, b)
      PROVE  Typed'
  <2>1. bill' \in [Bills -> Bill]
    BY <1>2, BillTypes
  <2> QED
    BY <1>2, <2>1
       DEF CreateBill, UpdateBill, SubmitBill, ApproveBill, RejectBill, SelectedQuoted
<1>3. ASSUME NEW b \in Bills, DeleteBill(b) \/ FinalizeBill(b) \/ VoidBill(b)
      PROVE  Typed'
  <2> bill[b] \in Bill
    OBVIOUS
  <2>1. \A status \in {"deleted", "finalized", "void"} : [bill[b] EXCEPT !.status = status] \in Bill
    BY DEF Bill
  <2>2. bill' \in [Bills -> Bill]
    BY <1>3, <2>1 DEF DeleteBill, FinalizeBill, VoidBill
  <2>3. BillRef(b) \in Refs
    BY DEF Refs
  <2>4. [period |-> bill[b].period, amount |-> bill[b].total] \in Entry
    BY DEF Bill, Entry, PurchasingAssumption
  <2>5. ledger' \in [Refs -> SUBSET Entry]
    BY <1>3, <2>3, <2>4, PostTypes, EraseTypes DEF DeleteBill, FinalizeBill, VoidBill
  <2> QED
    BY <1>3, <2>2, <2>5 DEF DeleteBill, FinalizeBill, VoidBill, SelectedQuoted
<1>4. ASSUME NEW p \in Payments, CreatePayment(p)
      PROVE  Typed'
  <2> PICK b \in Bills, day \in Periods : \E amount \in 1 .. bill[b].total - Paid(b) :
          /\ payment' = [payment EXCEPT ![p] = [status |-> "live", bill |-> b, amount |-> amount]]
          /\ Post(PaymentRef(p), ledger[PaymentRef(p)], [period |-> day, amount |-> amount])
    BY <1>4 DEF CreatePayment
  <2>1. PICK amount \in 1 .. bill[b].total - Paid(b) :
          /\ payment' = [payment EXCEPT ![p] = [status |-> "live", bill |-> b, amount |-> amount]]
          /\ Post(PaymentRef(p), ledger[PaymentRef(p)], [period |-> day, amount |-> amount])
    OBVIOUS
  <2>2. amount \in Nat /\ PaymentRef(p) \in Refs
    BY DEF Refs
  <2>3. [status |-> "live", bill |-> b, amount |-> amount] \in Payment
    BY <2>2 DEF Payment
  <2>4. [period |-> day, amount |-> amount] \in Entry
    BY <2>2 DEF Entry
  <2>5. ledger' \in [Refs -> SUBSET Entry]
    BY <2>1, <2>2, <2>4, PostTypes
  <2>6. payment' \in [Payments -> Payment]
    BY <2>1, <2>3
  <2> QED
    BY <1>4, <2>5, <2>6 DEF CreatePayment, SelectedQuoted
<1>5. ASSUME NEW p \in Payments, DeletePayment(p)
      PROVE  Typed'
  <2> payment[p] \in Payment
    OBVIOUS
  <2>1. [payment[p] EXCEPT !.status = "deleted"] \in Payment
    BY DEF Payment
  <2>2. ledger' \in [Refs -> SUBSET Entry]
    BY <1>5, EraseTypes DEF DeletePayment, Refs
  <2> QED
    BY <1>5, <2>1, <2>2 DEF DeletePayment, SelectedQuoted
<1>6. ASSUME NEW p \in Periods, ClosePeriod(p) \/ ReopenPeriod(p),
             UNCHANGED <<requisition, quote, order, bill, payment>>
      PROVE  Typed'
  BY <1>6 DEF ClosePeriod, ReopenPeriod, PeriodStatus, SelectedQuoted
<1>7. CASE UNCHANGED vars
  BY <1>7 DEF vars, SelectedQuoted
<1> QED
  BY <1>1, <1>2, <1>3, <1>4, <1>5, <1>6, <1>7 DEF Next

\* Every variable always has its type.
THEOREM TypeCorrect == Spec => []TypeOK
<1>1. Spec => []Typed
  BY TypeInit, TypeNext, PTL DEF Spec
<1> QED
  BY <1>1, PTL DEF Typed

-----------------------------------------------------------------------------
(* Signatures.                                                              *)

\* Who approved a document neither prepared nor submitted it.
Reviewed(doc) ==
    doc.approval = "approved" => doc.approver \notin {NoUser, doc.prepared, doc.submitted}

\* A requisition that may be or was ordered has been approved.
RequisitionSigned(row) ==
    /\ Reviewed(row)
    /\ row.status \in {"approved", "ordered"} => row.approval = "approved"

RequisitionInv == \A r \in Requisitions : RequisitionSigned(requisition[r])

\* An order has an ordered requisition to itself.
OrderInv ==
    /\ \A o \in Orders : order[o].status = "absent" => order[o].received = 0
    /\ \A o \in Issued : requisition[order[o].requisition].status = "ordered"
    /\ \A o, p \in Issued : order[o].requisition = order[p].requisition => o = p

\* A bill above the limit is under review until it is approved, and it is posted
\* only then.
BillSigned(row) ==
    /\ Reviewed(row)
    /\ row.status # "absent" /\ NeedsApproval(row.total) => row.approval # "not_required"
    /\ row.status = "finalized" => row.approval \in {"approved", "not_required"}

BillInv == \A b \in Bills : BillSigned(bill[b])

\* The invariant from which the signatures follow.
SignInv == Typed /\ RequisitionInv /\ OrderInv /\ BillInv

\* What the rules of the review leave in a row.
LEMMA ReviewKept ==
    ASSUME NEW row \in Requisition \cup Bill, NEW u \in Users, NEW needed \in BOOLEAN
    PROVE  /\ Reviewed(Initialize(row, needed, u)) /\ Reviewed(Submit(row, needed, u))
           /\ Reviewed(Reject(row))
           /\ MayReview(row, u) => Reviewed(Approve(row, u))
           /\ Initialize(row, needed, u).approval = IF needed THEN "pending" ELSE "not_required"
           /\ Submit(row, needed, u).approval = IF needed THEN "pending" ELSE "not_required"
<1>1. CASE row \in Requisition
  BY <1>1 DEF Requisition, Reviewed, Initialize, Submit, Reject, Approve, MayReview, DifferentPerson,
              PurchasingAssumption
<1>2. CASE row \in Bill
  BY <1>2 DEF Bill, Reviewed, Initialize, Submit, Reject, Approve, MayReview, DifferentPerson,
              PurchasingAssumption
<1> QED
  BY <1>1, <1>2

\* A step that is not an order changes one requisition that is not ordered, and
\* keeps its signatures in order.
LEMMA RequisitionStep ==
    ASSUME SignInv, NEW r \in Requisitions,
           \/ \E u \in Users :
                \/ CreateRequisition(u, r) \/ UpdateRequisition(u, r) \/ SubmitRequisition(u, r)
                \/ ApproveRequisition(u, r) \/ RejectRequisition(u, r)
           \/ DeleteRequisition(r)
    PROVE  /\ requisition[r].status # "ordered"
           /\ \E row \in Requisition : /\ requisition' = [requisition EXCEPT ![r] = row]
                                       /\ RequisitionSigned(row)
           /\ UNCHANGED <<quote, order>>
<1> DEFINE Goal == /\ requisition[r].status # "ordered"
                   /\ \E row \in Requisition : /\ requisition' = [requisition EXCEPT ![r] = row]
                                               /\ RequisitionSigned(row)
                   /\ UNCHANGED <<quote, order>>
<1>1. requisition[r] \in Requisition /\ RequisitionSigned(requisition[r])
  BY DEF SignInv, Typed, TypeOK, RequisitionInv
<1>2. ASSUME NEW u \in Users, CreateRequisition(u, r) \/ UpdateRequisition(u, r)
      PROVE  Goal
  <2>1. PICK total \in Amounts :
          requisition' = [requisition EXCEPT ![r] =
            Initialize([@ EXCEPT !.status = "draft", !.total = total], NeedsApproval(total), u)]
    BY <1>2 DEF CreateRequisition, UpdateRequisition
  <2> DEFINE doc == [requisition[r] EXCEPT !.status = "draft", !.total = total]
             row == Initialize(doc, NeedsApproval(total), u)
  <2>2. doc \in Requisition /\ NeedsApproval(total) \in BOOLEAN
    <3>1. NeedsApproval(total) \in BOOLEAN
      BY DEF NeedsApproval
    <3>2. doc \in Requisition
      BY <1>1 DEF Requisition
    <3> QED
      BY <3>1, <3>2
  <2>3. Reviewed(row)
    BY <2>2, ReviewKept
  <2>4. row \in Requisition /\ row.status = "draft"
    BY <1>1, <2>2 DEF Initialize, Requisition, ApprovalStatus
  <2>5. requisition' = [requisition EXCEPT ![r] = row]
    BY <2>1
  <2>6. requisition[r].status # "ordered" /\ UNCHANGED <<quote, order>>
    BY <1>2 DEF CreateRequisition, UpdateRequisition
  <2> HIDE DEF row
  <2> QED
    BY <2>3, <2>4, <2>5, <2>6 DEF RequisitionSigned
<1>3. ASSUME NEW u \in Users, SubmitRequisition(u, r)
      PROVE  Goal
  <2> DEFINE needed == NeedsApproval(requisition[r].total)
             row == [Submit(requisition[r], needed, u) EXCEPT !.status = "submitted"]
  <2>1. needed \in BOOLEAN
    BY DEF NeedsApproval
  <2>2. row \in Requisition /\ Reviewed(row) /\ row.status = "submitted"
    BY <1>1, <2>1 DEF Submit, Requisition, ApprovalStatus, Reviewed
  <2>3. requisition' = [requisition EXCEPT ![r] = row]
    BY <1>3 DEF SubmitRequisition
  <2> HIDE DEF row
  <2> QED
    BY <1>3, <2>2, <2>3 DEF SubmitRequisition, RequisitionSigned
<1>4. ASSUME NEW u \in Users, ApproveRequisition(u, r)
      PROVE  Goal
  <2> DEFINE row == [Approve(requisition[r], u) EXCEPT !.status = "approved"]
  <2>1. MayReview(requisition[r], u) /\ requisition[r].status # "ordered"
    BY <1>1, <1>4 DEF ApproveRequisition, MayReview, RequisitionSigned
  <2>2. row \in Requisition /\ Reviewed(row) /\ row.approval = "approved"
    BY <1>1, <2>1 DEF Approve, MayReview, DifferentPerson, Requisition, ApprovalStatus, Reviewed,
                      PurchasingAssumption
  <2>3. requisition' = [requisition EXCEPT ![r] = row]
    BY <1>4 DEF ApproveRequisition, Approve
  <2> HIDE DEF row
  <2> QED
    BY <1>4, <2>1, <2>2, <2>3 DEF ApproveRequisition, RequisitionSigned
<1>5. ASSUME NEW u \in Users, RejectRequisition(u, r)
      PROVE  Goal
  <2> DEFINE row == [Reject(requisition[r]) EXCEPT !.status = "rejected"]
  <2>1. requisition[r].status # "ordered"
    BY <1>1, <1>5 DEF RejectRequisition, MayReview, RequisitionSigned
  <2>2. row \in Requisition /\ Reviewed(row) /\ row.status = "rejected"
    BY <1>1 DEF Reject, Requisition, ApprovalStatus, Reviewed
  <2>3. requisition' = [requisition EXCEPT ![r] = row]
    BY <1>5 DEF RejectRequisition, Reject
  <2> HIDE DEF row
  <2> QED
    BY <1>5, <2>1, <2>2, <2>3 DEF RejectRequisition, RequisitionSigned
<1>6. CASE DeleteRequisition(r)
  <2> DEFINE row == [requisition[r] EXCEPT !.status = "deleted"]
  <2>1. row \in Requisition /\ RequisitionSigned(row)
    BY <1>1 DEF Requisition, RequisitionSigned, Reviewed
  <2> QED
    BY <1>6, <2>1 DEF DeleteRequisition
<1> QED
  BY <1>2, <1>3, <1>4, <1>5, <1>6

\* An order takes a requisition that was approved and not ordered yet.
LEMMA OrderStep ==
    ASSUME SignInv, NEW r \in Requisitions, NEW o \in Orders, IssueOrder(o, r)
    PROVE  RequisitionInv' /\ OrderInv'
<1>1. /\ requisition[r] \in Requisition /\ RequisitionSigned(requisition[r])
      /\ requisition[r].status = "approved"
  BY DEF SignInv, Typed, TypeOK, RequisitionInv, IssueOrder, Issuable
<1>2. requisition' = [requisition EXCEPT ![r].status = "ordered"]
  BY DEF IssueOrder, Ordered
<1>3. PICK v, total : v \in Vendors /\
        order' = [order EXCEPT ![o] = [status |-> "issued", requisition |-> r, vendor |-> v,
                                       received |-> 0, total |-> total]]
  BY DEF IssueOrder, Selected
<1>4. RequisitionInv'
  BY <1>1, <1>2 DEF RequisitionInv, RequisitionSigned, Reviewed, SignInv, Typed, TypeOK, Requisition
<1>5. \A p \in Issued : order[p].requisition # r
  BY <1>1 DEF SignInv, OrderInv
<1>6. Issued' = Issued \cup {o} /\ order[o].status = "absent" /\ o \notin Issued
  BY <1>3 DEF Issued, IssueOrder, SignInv, Typed, TypeOK
<1>7. \A p \in Orders \ {o} : order'[p] = order[p]
  BY <1>3 DEF SignInv, Typed, TypeOK
<1>8. order'[o].requisition = r /\ order'[o].status = "issued"
  BY <1>3 DEF SignInv, Typed, TypeOK
<1>9. \A q \in Requisitions : requisition[q].status = "ordered" \/ q = r => requisition'[q].status = "ordered"
  BY <1>1, <1>2 DEF SignInv, Typed, TypeOK, Requisition
<1>10. Issued \subseteq Orders /\ \A p \in Issued : order[p].requisition \in Requisitions
  BY DEF Issued, SignInv, Typed, TypeOK, Order
<1>11. OrderInv'
  <2>1. \A p \in Orders : order'[p].status = "absent" => order'[p].received = 0
    BY <1>7, <1>8 DEF SignInv, OrderInv
  <2>2. \A p \in Issued' : requisition'[order'[p].requisition].status = "ordered"
    BY <1>6, <1>7, <1>8, <1>9, <1>10 DEF SignInv, OrderInv
  <2>3. \A p, q \in Issued' : order'[p].requisition = order'[q].requisition => p = q
    BY <1>5, <1>6, <1>7, <1>8, <1>10 DEF SignInv, OrderInv
  <2> QED
    BY <2>1, <2>2, <2>3 DEF OrderInv
<1> QED
  BY <1>4, <1>11

\* What receiving, closing and cancelling leave of an order.
LEMMA OrderProgress ==
    ASSUME Typed, NEW o \in Orders, RecordReceipt(o) \/ CloseOrder(o) \/ CancelOrder(o)
    PROVE  /\ UNCHANGED <<requisition, quote>>
           /\ order[o].status # "absent"
           /\ \E row \in Order : /\ order' = [order EXCEPT ![o] = row]
                                 /\ row.status # "absent"
                                 /\ row.requisition = order[o].requisition
                                 /\ row.vendor = order[o].vendor /\ row.total = order[o].total
                                 /\ row.received >= order[o].received
                                 /\ row.status = "cancelled" =>
                                      row.received = 0 \/ order[o].status = "cancelled"
<1>1. order[o] \in Order /\ Quantity \in Nat
  BY DEF Typed, TypeOK, PurchasingAssumption
<1>2. CASE RecordReceipt(o)
  <2>1. PICK n \in 1 .. Quantity :
          /\ order[o].received + n <= Quantity
          /\ order' = [order EXCEPT ![o] = Recomputed([order[o] EXCEPT !.received = @ + n])]
    BY <1>2 DEF RecordReceipt
  <2> DEFINE row == Recomputed([order[o] EXCEPT !.received = @ + n])
  <2>2. order[o].received + n \in 0 .. Quantity
    BY <1>1, <2>1 DEF Order
  <2>3. order[o].status \in OpenStatuses
    BY <1>2 DEF RecordReceipt
  <2>4. /\ row \in Order /\ row.requisition = order[o].requisition
        /\ row.vendor = order[o].vendor /\ row.total = order[o].total
        /\ row.received >= order[o].received
        /\ row.status \in OpenStatuses
    <3> DEFINE more == [order[o] EXCEPT !.received = @ + n]
    <3>1. /\ more \in Order /\ more.requisition = order[o].requisition
          /\ more.vendor = order[o].vendor /\ more.total = order[o].total
          /\ more.received >= order[o].received
          /\ more.status = order[o].status
      BY <1>1, <2>1, <2>2 DEF Order
    <3> HIDE DEF more
    <3>2. /\ Recomputed(more) \in Order /\ Recomputed(more).requisition = more.requisition
          /\ Recomputed(more).vendor = more.vendor /\ Recomputed(more).total = more.total
          /\ Recomputed(more).received = more.received
      BY <3>1 DEF Recomputed, Order
    <3>3. Recomputed(more).status \in OpenStatuses
      BY <2>3, <3>1 DEF Recomputed, Order, OpenStatuses
    <3> QED
      BY <3>1, <3>2, <3>3 DEF more
  <2>5. order' = [order EXCEPT ![o] = row]
    BY <2>1
  <2> HIDE DEF row
  <2> QED
    BY <1>2, <2>3, <2>4, <2>5 DEF RecordReceipt, OpenStatuses
<1>3. CASE CloseOrder(o)
  <2> DEFINE row == [order[o] EXCEPT !.status = "closed"]
  <2>1. /\ row \in Order /\ row.requisition = order[o].requisition /\ row.status = "closed"
        /\ row.vendor = order[o].vendor /\ row.total = order[o].total
        /\ row.received >= order[o].received
    BY <1>1 DEF Order
  <2>2. order' = [order EXCEPT ![o] = row]
    BY <1>3 DEF CloseOrder
  <2> HIDE DEF row
  <2> QED
    BY <1>3, <2>1, <2>2 DEF CloseOrder
<1>4. CASE CancelOrder(o)
  <2> DEFINE row == [order[o] EXCEPT !.status = "cancelled"]
  <2>1. /\ row \in Order /\ row.requisition = order[o].requisition /\ row.status = "cancelled"
        /\ row.vendor = order[o].vendor /\ row.total = order[o].total
        /\ row.received = order[o].received /\ row.received >= order[o].received
    BY <1>1 DEF Order
  <2>2. order' = [order EXCEPT ![o] = row]
    BY <1>4 DEF CancelOrder
  <2>3. order[o].received = 0 /\ order[o].status # "absent"
    BY <1>4 DEF CancelOrder, Cancellable
  <2> HIDE DEF row
  <2> QED
    BY <1>4, <2>1, <2>2, <2>3 DEF CancelOrder
<1> QED
  BY <1>2, <1>3, <1>4

\* A step of purchasing is one of five kinds; what each does is above.
LEMMA PurchaseSigned ==
    ASSUME SignInv, Purchase
    PROVE  RequisitionInv' /\ OrderInv'
<1> USE DEF SignInv, Typed, TypeOK
<1>1. ASSUME NEW r \in Requisitions,
             \/ \E u \in Users :
                  \/ CreateRequisition(u, r) \/ UpdateRequisition(u, r) \/ SubmitRequisition(u, r)
                  \/ ApproveRequisition(u, r) \/ RejectRequisition(u, r)
             \/ DeleteRequisition(r)
      PROVE  RequisitionInv' /\ OrderInv'
  <2>1. /\ requisition[r].status # "ordered"
        /\ UNCHANGED <<quote, order>>
    BY <1>1, RequisitionStep
  <2>2. PICK row \in Requisition : /\ requisition' = [requisition EXCEPT ![r] = row]
                                   /\ RequisitionSigned(row)
    BY <1>1, RequisitionStep
  <2>3. RequisitionInv'
    BY <2>2 DEF RequisitionInv
  <2>4. \A o \in Issued : order[o].requisition # r
    BY <2>1 DEF OrderInv
  <2>5. Issued' = Issued /\ Issued \subseteq Orders /\ \A o \in Issued : order[o].requisition \in Requisitions
    BY <2>1 DEF Issued, Order
  <2>6. \A q \in Requisitions \ {r} : requisition'[q] = requisition[q]
    BY <2>2
  <2>7. OrderInv'
    BY <2>1, <2>4, <2>5, <2>6 DEF OrderInv
  <2> QED
    BY <2>3, <2>7
<1>2. ASSUME NEW r \in Requisitions, AddQuote(r) \/ SelectQuote(r) \/ DeleteQuote(r)
      PROVE  RequisitionInv' /\ OrderInv'
  BY <1>2 DEF AddQuote, SelectQuote, DeleteQuote, RequisitionInv, OrderInv, Issued
<1>3. ASSUME NEW r \in Requisitions, NEW o \in Orders, IssueOrder(o, r)
      PROVE  RequisitionInv' /\ OrderInv'
  BY <1>3, OrderStep
<1>4. ASSUME NEW o \in Orders, RecordReceipt(o) \/ CloseOrder(o) \/ CancelOrder(o)
      PROVE  RequisitionInv' /\ OrderInv'
  <2>1. UNCHANGED requisition /\ order[o].status # "absent"
    BY <1>4, OrderProgress
  <2>2. PICK row \in Order : /\ order' = [order EXCEPT ![o] = row]
                             /\ row.status # "absent"
                             /\ row.requisition = order[o].requisition
    BY <1>4, OrderProgress
  <2>3. \A p \in Orders : /\ order'[p].requisition = order[p].requisition
                          /\ order'[p].status = "absent" <=> order[p].status = "absent"
                          /\ order'[p].status = "absent" => order'[p] = order[p]
    BY <2>1, <2>2
  <2>4. Issued' = Issued
    BY <2>3 DEF Issued
  <2>5. RequisitionInv'
    BY <2>1 DEF RequisitionInv
  <2>6. OrderInv'
    BY <2>1, <2>3, <2>4 DEF OrderInv, Issued
  <2> QED
    BY <2>5, <2>6
<1> QED
  BY <1>1, <1>2, <1>3, <1>4 DEF Purchase

\* What happens to a bill that is not posted: it stays in order and is not posted.
LEMMA BillStep ==
    ASSUME SignInv, NEW b \in Bills,
           \/ \E u \in Users : \/ CreateBill(u, b) \/ UpdateBill(u, b) \/ SubmitBill(u, b)
                               \/ ApproveBill(u, b) \/ RejectBill(u, b)
           \/ DeleteBill(b)
    PROVE  \E row : /\ bill' = [bill EXCEPT ![b] = row]
                    /\ BillSigned(row) /\ row.status # "finalized"
<1> DEFINE Goal == \E row : /\ bill' = [bill EXCEPT ![b] = row]
                            /\ BillSigned(row) /\ row.status # "finalized"
<1>1. bill[b] \in Bill /\ BillSigned(bill[b])
  BY DEF SignInv, Typed, TypeOK, BillInv
<1>2. \A total : NeedsApproval(total) \in BOOLEAN
  BY DEF NeedsApproval
<1>3. ASSUME NEW u \in Users, CreateBill(u, b)
      PROVE  Goal
  <2>1. PICK v \in Vendors, o \in Issued \cup {NoOrder}, total \in Amounts, p \in Periods :
          bill' = [bill EXCEPT ![b] =
            Initialize([@ EXCEPT !.status = "draft", !.vendor = v, !.order = o,
                                 !.total = total, !.period = p], NeedsApproval(total), u)]
    BY <1>3 DEF CreateBill
  <2> DEFINE doc == [bill[b] EXCEPT !.status = "draft", !.vendor = v, !.order = o,
                                    !.total = total, !.period = p]
             row == Initialize(doc, NeedsApproval(total), u)
  <2>2. doc \in Bill /\ doc.total = total /\ doc.status = "draft"
    BY <1>1 DEF Bill, Issued
  <2>3. Reviewed(row) /\ row.approval = IF NeedsApproval(total) THEN "pending" ELSE "not_required"
    BY <1>2, <2>2, ReviewKept
  <2>4. row.status = "draft" /\ row.total = total
    BY <2>2 DEF Initialize, Bill
  <2>5. bill' = [bill EXCEPT ![b] = row]
    BY <2>1
  <2> HIDE DEF row
  <2> QED
    BY <2>3, <2>4, <2>5 DEF BillSigned
<1>4. ASSUME NEW u \in Users, UpdateBill(u, b)
      PROVE  Goal
  <2>1. PICK total \in Amounts, p \in Periods :
          bill' = [bill EXCEPT ![b] =
            Initialize([@ EXCEPT !.total = total, !.period = p], NeedsApproval(total), u)]
    BY <1>4 DEF UpdateBill
  <2> DEFINE doc == [bill[b] EXCEPT !.total = total, !.period = p]
             row == Initialize(doc, NeedsApproval(total), u)
  <2>2. doc \in Bill /\ doc.total = total /\ doc.status = "draft"
    BY <1>1, <1>4 DEF Bill, UpdateBill
  <2>3. Reviewed(row) /\ row.approval = IF NeedsApproval(total) THEN "pending" ELSE "not_required"
    BY <1>2, <2>2, ReviewKept
  <2>4. row.status = "draft" /\ row.total = total
    BY <2>2 DEF Initialize, Bill
  <2>5. bill' = [bill EXCEPT ![b] = row]
    BY <2>1
  <2> HIDE DEF row
  <2> QED
    BY <2>3, <2>4, <2>5 DEF BillSigned
<1>5. ASSUME NEW u \in Users, SubmitBill(u, b)
      PROVE  Goal
  <2> DEFINE row == Submit(bill[b], NeedsApproval(bill[b].total), u)
  <2>1. /\ Reviewed(row)
        /\ row.approval = IF NeedsApproval(bill[b].total) THEN "pending" ELSE "not_required"
    BY <1>1, <1>2, ReviewKept
  <2>2. row.status = "draft" /\ row.total = bill[b].total
    BY <1>1, <1>5 DEF Submit, Bill, SubmitBill
  <2>3. bill' = [bill EXCEPT ![b] = row]
    BY <1>5 DEF SubmitBill
  <2> HIDE DEF row
  <2> QED
    BY <2>1, <2>2, <2>3 DEF BillSigned
<1>6. ASSUME NEW u \in Users, ApproveBill(u, b) \/ RejectBill(u, b)
      PROVE  Goal
  <2>1. MayReview(bill[b], u) /\ bill[b].approval = "pending" /\ bill[b].status # "finalized"
    BY <1>1, <1>6 DEF ApproveBill, RejectBill, MayReview, BillSigned
  <2>2. Reviewed(Approve(bill[b], u)) /\ Reviewed(Reject(bill[b]))
    <3>1. bill[b] \in Requisition \cup Bill
      BY <1>1
    <3>2. Reviewed(Reject(bill[b])) /\ (MayReview(bill[b], u) => Reviewed(Approve(bill[b], u)))
      BY <3>1, ReviewKept
    <3> QED
      BY <2>1, <3>2
  <2>3. /\ Approve(bill[b], u).status = bill[b].status /\ Approve(bill[b], u).approval = "approved"
        /\ Reject(bill[b]).status = bill[b].status /\ Reject(bill[b]).approval = "rejected"
    BY <1>1 DEF Approve, Reject, Bill
  <2>4. BillSigned(Approve(bill[b], u)) /\ BillSigned(Reject(bill[b]))
    BY <2>1, <2>2, <2>3 DEF BillSigned
  <2>5. \/ bill' = [bill EXCEPT ![b] = Approve(bill[b], u)]
        \/ bill' = [bill EXCEPT ![b] = Reject(bill[b])]
    BY <1>6 DEF ApproveBill, RejectBill
  <2> QED
    BY <2>1, <2>3, <2>4, <2>5
<1>7. CASE DeleteBill(b)
  <2> DEFINE row == [bill[b] EXCEPT !.status = "deleted"]
  <2>1. bill[b].status = "draft" /\ bill' = [bill EXCEPT ![b] = row]
    BY <1>7 DEF DeleteBill
  <2>2. BillSigned(row) /\ row.status = "deleted"
    BY <1>1, <2>1 DEF Bill, BillSigned, Reviewed
  <2> QED
    BY <2>1, <2>2
<1> QED
  BY <1>3, <1>4, <1>5, <1>6, <1>7

\* Posting asks for the signature.
LEMMA FinalizeStep ==
    ASSUME SignInv, NEW b \in Bills, FinalizeBill(b) \/ VoidBill(b)
    PROVE  BillInv'
<1>1. bill[b] \in Bill /\ BillSigned(bill[b])
  BY DEF SignInv, Typed, TypeOK, BillInv
<1>2. CASE FinalizeBill(b)
  <2> DEFINE row == [bill[b] EXCEPT !.status = "finalized"]
  <2>1. /\ bill[b].status = "draft" /\ bill[b].approval \in {"approved", "not_required"}
        /\ bill' = [bill EXCEPT ![b] = row]
    BY <1>2 DEF FinalizeBill, Postable
  <2>2. BillSigned(row)
    BY <1>1, <2>1 DEF Bill, BillSigned, Reviewed
  <2> QED
    BY <2>1, <2>2 DEF BillInv, SignInv, Typed, TypeOK
<1>3. CASE VoidBill(b)
  <2> DEFINE row == [bill[b] EXCEPT !.status = "void"]
  <2>1. bill[b].status = "finalized" /\ bill' = [bill EXCEPT ![b] = row]
    BY <1>3 DEF VoidBill, Voidable
  <2>2. BillSigned(row)
    BY <1>1, <2>1 DEF Bill, BillSigned, Reviewed
  <2> QED
    BY <2>1, <2>2 DEF BillInv, SignInv, Typed, TypeOK
<1> QED
  BY <1>2, <1>3

\* Nothing is reviewed at the start.
LEMMA SignInit == Init => SignInv
<1> SUFFICES ASSUME Init PROVE SignInv
  OBVIOUS
<1>1. Typed
  BY TypeInit
<1>2. RequisitionInv
  BY DEF Init, PurchasingInit, RequisitionInv, RequisitionSigned, Reviewed
<1>3. OrderInv
  BY DEF Init, PurchasingInit, OrderInv, Issued
<1>4. BillInv
  BY DEF Init, BillInv, BillSigned, Reviewed
<1> QED
  BY <1>1, <1>2, <1>3, <1>4 DEF SignInv

\* Every step keeps the signatures.
LEMMA SignNext == SignInv /\ [Next]_vars => SignInv'
<1> SUFFICES ASSUME SignInv, [Next]_vars PROVE RequisitionInv' /\ OrderInv' /\ BillInv'
  BY TypeNext DEF SignInv
<1>1. CASE Purchase /\ UNCHANGED <<period, ledger, bill, payment>>
  BY <1>1, PurchaseSigned DEF SignInv, BillInv
<1>2. ASSUME UNCHANGED <<requisition, quote, order>>
      PROVE  RequisitionInv' /\ OrderInv'
  BY <1>2 DEF SignInv, RequisitionInv, OrderInv, Issued
<1>3. ASSUME NEW b \in Bills,
             \/ \E u \in Users : \/ CreateBill(u, b) \/ UpdateBill(u, b) \/ SubmitBill(u, b)
                                 \/ ApproveBill(u, b) \/ RejectBill(u, b)
             \/ DeleteBill(b)
      PROVE  RequisitionInv' /\ OrderInv' /\ BillInv'
  <2>1. PICK row : bill' = [bill EXCEPT ![b] = row] /\ BillSigned(row)
    BY <1>3, BillStep
  <2>2. BillInv'
    BY <2>1 DEF BillInv, SignInv, Typed, TypeOK
  <2>3. UNCHANGED <<requisition, quote, order>>
    BY <1>3 DEF CreateBill, UpdateBill, SubmitBill, ApproveBill, RejectBill, DeleteBill
  <2> QED
    BY <1>2, <2>2, <2>3
<1>4. ASSUME NEW b \in Bills, FinalizeBill(b) \/ VoidBill(b)
      PROVE  RequisitionInv' /\ OrderInv' /\ BillInv'
  BY <1>2, <1>4, FinalizeStep DEF FinalizeBill, VoidBill
<1>5. ASSUME UNCHANGED <<requisition, quote, order, bill>>
      PROVE  RequisitionInv' /\ OrderInv' /\ BillInv'
  BY <1>2, <1>5 DEF SignInv, BillInv
<1> QED
  BY <1>1, <1>3, <1>4, <1>5 DEF Next, vars, CreatePayment, DeletePayment

\* The signatures always stand.
LEMMA Signed == Spec => []SignInv
  BY SignInit, SignNext, PTL DEF Spec

\* What is ordered and what is posted above the limit was approved by somebody who
\* neither prepared nor submitted it, and each requisition is ordered once.
THEOREM SignedOffCorrect == Spec => []SignedOff
<1>1. SignInv => SignedOff
  <2> SUFFICES ASSUME SignInv PROVE OrderedOnSignOff /\ PostedBillSigned
    BY DEF SignedOff
  <2>1. \A o \in Issued : order[o].requisition \in Requisitions
    BY DEF SignInv, Typed, TypeOK, Issued, Order
  <2>2. OrderedOnSignOff
    BY <2>1 DEF OrderedOnSignOff, SignInv, OrderInv, RequisitionInv, RequisitionSigned, Reviewed
  <2>3. PostedBillSigned
    BY DEF PostedBillSigned, Final, SignInv, BillInv, BillSigned, Reviewed
  <2> QED
    BY <2>2, <2>3
<1> QED
  BY <1>1, Signed, PTL

-----------------------------------------------------------------------------
(* Orders and bids.                                                         *)

\* Purchasing keeps what a bill was matched against: nothing but a receipt happens
\* to an order that goods came for, or it is closed.
LEMMA OrderKept ==
    ASSUME SignInv, Purchase, NEW o \in Issued
    PROVE  /\ o \in Issued'
           /\ order'[o].requisition = order[o].requisition
           /\ order'[o].vendor = order[o].vendor /\ order'[o].total = order[o].total
           /\ order[o].received > 0 =>
                order'[o].received > 0 /\ (order'[o].status = "cancelled" => order[o].status = "cancelled")
<1> DEFINE Goal == /\ o \in Issued'
                   /\ order'[o].requisition = order[o].requisition
                   /\ order'[o].vendor = order[o].vendor /\ order'[o].total = order[o].total
                   /\ order[o].received > 0 =>
                        /\ order'[o].received > 0
                        /\ order'[o].status = "cancelled" => order[o].status = "cancelled"
<1>1. o \in Orders /\ order[o] \in Order /\ order[o].status # "absent"
  BY DEF SignInv, Typed, TypeOK, Issued
<1>2. ASSUME order'[o] = order[o]
      PROVE  Goal
  BY <1>1, <1>2 DEF Issued
<1>3. ASSUME NEW r \in Requisitions, NEW p \in Orders, IssueOrder(p, r)
      PROVE  Goal
  <2>1. p # o
    BY <1>1, <1>3 DEF IssueOrder
  <2> QED
    BY <1>2, <1>3, <2>1 DEF IssueOrder, SignInv, Typed, TypeOK
<1>4. ASSUME NEW p \in Orders, RecordReceipt(p) \/ CloseOrder(p) \/ CancelOrder(p)
      PROVE  Goal
  <2>1. PICK row \in Order : /\ order' = [order EXCEPT ![p] = row]
                             /\ row.status # "absent"
                             /\ row.requisition = order[p].requisition
                             /\ row.vendor = order[p].vendor /\ row.total = order[p].total
                             /\ row.received >= order[p].received
                             /\ row.status = "cancelled" =>
                                  row.received = 0 \/ order[p].status = "cancelled"
    BY <1>4, OrderProgress DEF SignInv
  <2>2. CASE p = o
    <3>1. order'[o] = row
      BY <1>1, <2>1, <2>2 DEF SignInv, Typed, TypeOK
    <3>2. row.received \in Nat /\ order[o].received \in Nat
      BY <1>1 DEF Order, PurchasingAssumption
    <3> QED
      BY <1>1, <2>1, <2>2, <3>1, <3>2 DEF Issued
  <2>3. CASE p # o
    BY <1>2, <2>1, <2>3 DEF SignInv, Typed, TypeOK
  <2> QED
    BY <2>2, <2>3
<1>5. ASSUME UNCHANGED order
      PROVE  Goal
  BY <1>2, <1>5
<1> QED
  BY <1>3, <1>4, <1>5
     DEF Purchase, CreateRequisition, UpdateRequisition, SubmitRequisition, ApproveRequisition,
         RejectRequisition, DeleteRequisition, AddQuote, SelectQuote, DeleteQuote

\* A bill that is posted and was posted before is still the same.
LEMMA FinalBill ==
    ASSUME SignInv, [Next]_vars, NEW b \in Bills, Final(b)', ~FinalizeBill(b)
    PROVE  bill'[b] = bill[b]
<1>1. bill \in [Bills -> Bill] /\ bill[b] \in Bill
  BY DEF SignInv, Typed, TypeOK
<1>2. ASSUME NEW c \in Bills,
             \/ \E u \in Users : \/ CreateBill(u, c) \/ UpdateBill(u, c) \/ SubmitBill(u, c)
                                 \/ ApproveBill(u, c) \/ RejectBill(u, c)
             \/ DeleteBill(c)
      PROVE  bill'[b] = bill[b]
  <2>1. PICK row : bill' = [bill EXCEPT ![c] = row] /\ row.status # "finalized"
    BY <1>2, BillStep
  <2>2. c # b
    BY <1>1, <2>1 DEF Final
  <2> QED
    BY <1>1, <2>1, <2>2
<1>3. ASSUME NEW c \in Bills, VoidBill(c)
      PROVE  bill'[b] = bill[b]
  <2>1. bill' = [bill EXCEPT ![c].status = "void"]
    BY <1>3 DEF VoidBill
  <2>2. c # b
    BY <1>1, <2>1 DEF Final, Bill
  <2> QED
    BY <1>1, <2>1, <2>2
<1>4. ASSUME NEW c \in Bills, FinalizeBill(c)
      PROVE  bill'[b] = bill[b]
  <2>1. c # b
    BY <1>4
  <2> QED
    BY <1>1, <1>4, <2>1 DEF FinalizeBill
<1>5. CASE UNCHANGED bill
  BY <1>5
<1> QED
  BY <1>2, <1>3, <1>4, <1>5 DEF Next, vars, CreatePayment, DeletePayment

\* The ceiling of an order, by its row.
Most(row) == row.total + (row.total * Tolerance) \div 100

\* The match of a bill and its order outlives everything that is done to either.
THEOREM MatchStands == Spec => []BilledOrderStands
<1>1. Init => BilledOrderStands
  BY DEF Init, BilledOrderStands, Final
<1>2. SignInv /\ SignInv' /\ BilledOrderStands /\ [Next]_vars => BilledOrderStands'
  <2> SUFFICES ASSUME SignInv, SignInv', BilledOrderStands, [Next]_vars,
                      NEW b \in Bills, Final(b)', bill'[b].order # NoOrder
               PROVE  LET row == order'[bill'[b].order] IN
                      /\ row.received > 0 /\ row.status # "cancelled"
                      /\ row.vendor = bill'[b].vendor /\ bill'[b].total <= Most(row)
                      /\ requisition'[row.requisition].approval = "approved"
    BY DEF BilledOrderStands, Ceiling, Most
  <2> DEFINE o == bill'[b].order
  <2>1. o \in Orders /\ bill[b] \in Bill /\ bill'[b] \in Bill
    BY DEF SignInv, Typed, TypeOK, Bill
  <2>2. CASE FinalizeBill(b)
    <3>1. /\ bill'[b].order = bill[b].order /\ bill'[b].vendor = bill[b].vendor
          /\ bill'[b].total = bill[b].total /\ MatchesOrder(bill[b])
          /\ UNCHANGED <<requisition, order>>
      BY <2>1, <2>2 DEF FinalizeBill, SignInv, Typed, TypeOK, Bill
    <3>2. /\ order[o].vendor = bill[b].vendor /\ order[o].status \in OpenStatuses
          /\ order[o].received > 0 /\ bill[b].total <= Most(order[o])
      BY <3>1 DEF MatchesOrder, Ceiling, Most
    <3>3. o \in Issued /\ order[o].requisition \in Requisitions
      BY <2>1, <3>2 DEF Issued, OpenStatuses, SignInv, Typed, TypeOK, Order
    <3>4. requisition[order[o].requisition].approval = "approved"
      BY <3>3 DEF SignInv, OrderInv, RequisitionInv, RequisitionSigned
    <3> QED
      BY <3>1, <3>2, <3>4 DEF OpenStatuses
  <2>3. CASE ~FinalizeBill(b)
    <3>1. bill'[b] = bill[b] /\ Final(b)
      BY <2>3, FinalBill DEF Final
    <3>2. /\ order[o].received > 0 /\ order[o].status # "cancelled"
          /\ order[o].vendor = bill[b].vendor /\ bill[b].total <= Most(order[o])
      BY <3>1 DEF BilledOrderStands, Ceiling, Most
    <3>3. o \in Issued
      BY <2>1, <3>2 DEF Issued, SignInv, OrderInv
    <3>4. /\ o \in Issued'
          /\ order'[o].requisition = order[o].requisition
          /\ order'[o].vendor = order[o].vendor /\ order'[o].total = order[o].total
          /\ order'[o].received > 0 /\ order'[o].status # "cancelled"
      <4>1. CASE Purchase
        BY <3>2, <3>3, <4>1, OrderKept
      <4>2. CASE UNCHANGED order
        BY <3>2, <3>3, <4>2 DEF Issued
      <4> QED
        BY <4>1, <4>2
           DEF Next, vars, CreateBill, UpdateBill, SubmitBill, ApproveBill, RejectBill, DeleteBill,
               FinalizeBill, VoidBill, CreatePayment, DeletePayment
    <3>5. order'[o].requisition \in Requisitions
      BY <2>1 DEF SignInv, Typed, TypeOK, Order
    <3>6. requisition'[order'[o].requisition].approval = "approved"
      BY <3>4, <3>5 DEF SignInv, OrderInv, RequisitionInv, RequisitionSigned
    <3>7. bill'[b].total <= Most(order'[o])
      BY <3>1, <3>2, <3>4 DEF Most
    <3> QED
      BY <3>1, <3>2, <3>4, <3>6, <3>7
  <2> QED
    BY <2>2, <2>3
<1> QED
  BY <1>1, <1>2, Signed, PTL DEF Spec

-----------------------------------------------------------------------------
(* The books.                                                               *)

BooksInv == Typed /\ BooksMatchBills /\ \A b \in Bills : IsFiniteSet(PaymentsOf(b))

\* Which entries a document should have.
EntryOfBill(b) == {e.amount : e \in ledger[BillRef(b)]} = IF Final(b) THEN {bill[b].total} ELSE {}
EntryOfPayment(p) == {e.amount : e \in ledger[PaymentRef(p)]}
                       = IF payment[p].status = "live" THEN {payment[p].amount} ELSE {}

LEMMA BooksParts ==
    BooksMatchBills <=> /\ \A b \in Bills : Paid(b) <= IF Final(b) THEN bill[b].total ELSE 0
                        /\ \A b \in Bills : EntryOfBill(b)
                        /\ \A p \in Payments : EntryOfPayment(p)
                        /\ \A ref \in Refs : Cardinality(ledger[ref]) <= 1
BY DEF BooksMatchBills, EntryOfBill, EntryOfPayment

\* The documents have references of their own.
LEMMA RefsApart ==
    /\ \A b \in Bills : BillRef(b) \in Refs
    /\ \A p \in Payments : PaymentRef(p) \in Refs
    /\ \A b, c \in Bills : BillRef(b) = BillRef(c) => b = c
    /\ \A p, q \in Payments : PaymentRef(p) = PaymentRef(q) => p = q
    /\ \A b \in Bills, p \in Payments : BillRef(b) # PaymentRef(p)
BY DEF Refs, BillRef, PaymentRef

\* An entry that is posted takes the place of the one before; one erased leaves none.
LEMMA Posted ==
    ASSUME Typed, NEW ref \in Refs, NEW e, Post(ref, ledger[ref], e)
    PROVE  /\ ledger'[ref] = {e} /\ Cardinality(ledger'[ref]) <= 1
           /\ \A other \in Refs \ {ref} : ledger'[other] = ledger[other]
<1>1. ledger' = [ledger EXCEPT ![ref] = (ledger[ref] \ ledger[ref]) \cup {e}]
  BY DEF Post
<1>2. ledger'[ref] = {e} /\ \A other \in Refs \ {ref} : ledger'[other] = ledger[other]
  BY <1>1 DEF Typed, TypeOK
<1>3. Cardinality({e}) = 1
  BY FS_Singleton
<1> QED
  BY <1>2, <1>3

LEMMA Erased ==
    ASSUME Typed, NEW ref \in Refs, Erase(ref)
    PROVE  /\ ledger'[ref] = {} /\ Cardinality(ledger'[ref]) <= 1
           /\ \A other \in Refs \ {ref} : ledger'[other] = ledger[other]
<1>1. ledger'[ref] = {} /\ \A other \in Refs \ {ref} : ledger'[other] = ledger[other]
  BY DEF Erase, Typed, TypeOK
<1>2. Cardinality({}) = 0
  BY FS_EmptySet
<1> QED
  BY <1>1, <1>2

\* What is paid of a bill is a number.
LEMMA PaidNumber ==
    ASSUME BooksInv, NEW b \in Bills
    PROVE  Paid(b) \in Nat
<1> DEFINE f == [p \in Payments |-> payment[p].amount]
           S == PaymentsOf(b)
<1>1. S \subseteq Payments /\ IsFiniteSet(S)
  BY DEF PaymentsOf, BooksInv
<1>2. \A p \in Payments : f[p] \in Nat
  BY DEF BooksInv, Typed, TypeOK, Payment
<1>3. Paid(b) = SumFunctionOnSet(f, S)
  BY DEF Paid
<1> HIDE DEF f, S
<1> QED
  BY <1>1, <1>2, <1>3, SumType

\* A bill's own row changes, and its entry with it; payments stay.
LEMMA BillBooks ==
    ASSUME BooksInv, Typed', NEW b \in Bills, UNCHANGED payment,
           \A c \in Bills \ {b} : bill'[c] = bill[c],
           /\ \A ref \in Refs \ {BillRef(b)} : ledger'[ref] = ledger[ref]
           /\ Cardinality(ledger'[BillRef(b)]) <= 1,
           EntryOfBill(b)', Final(b)' \/ (Paid(b) = 0 \/ ~Final(b)),
           Final(b)' => bill'[b].total >= IF Final(b) THEN bill[b].total ELSE 0
    PROVE  BooksInv'
<1>1. \A c \in Bills : PaymentsOf(c)' = PaymentsOf(c) /\ Paid(c)' = Paid(c)
  BY DEF PaymentsOf, Paid
<1>2. \A c \in Bills : Paid(c) \in Nat
  BY PaidNumber
<1>3. ASSUME NEW c \in Bills
      PROVE  Paid(c)' <= (IF Final(c) THEN bill[c].total ELSE 0)'
  <2>1. CASE c # b
    BY <1>1, <2>1, BooksParts DEF BooksInv, Final
  <2>2. CASE c = b
    <3>1. Paid(b) <= IF Final(b) THEN bill[b].total ELSE 0
      BY BooksParts DEF BooksInv
    <3>2. bill[b].total \in Nat /\ bill'[b].total \in Nat
      <4>1. bill[b] \in Bill /\ bill'[b] \in Bill
        BY DEF BooksInv, Typed, TypeOK
      <4> QED
        BY <4>1 DEF Bill, PurchasingAssumption
    <3> QED
      BY <1>1, <1>2, <2>2, <3>1, <3>2 DEF Final
  <2> QED
    BY <2>1, <2>2
<1>4. ASSUME NEW c \in Bills
      PROVE  EntryOfBill(c)'
  <2>1. CASE c # b
    BY <2>1, RefsApart, BooksParts DEF BooksInv, EntryOfBill, Final
  <2> QED
    BY <2>1
<1>5. ASSUME NEW p \in Payments
      PROVE  EntryOfPayment(p)'
  BY RefsApart, BooksParts DEF BooksInv, EntryOfPayment
<1>6. \A ref \in Refs : Cardinality(ledger'[ref]) <= 1
  BY BooksParts DEF BooksInv
<1>7. BooksMatchBills'
  BY <1>3, <1>4, <1>5, <1>6 DEF BooksMatchBills, EntryOfBill, EntryOfPayment
<1> QED
  BY <1>1, <1>7 DEF BooksInv

\* A payment comes or goes, and its entry with it; the bills stay.
LEMMA PaymentBooks ==
    ASSUME BooksInv, Typed', NEW x \in Payments, UNCHANGED bill,
           \A p \in Payments \ {x} : payment'[p] = payment[p],
           /\ \A ref \in Refs \ {PaymentRef(x)} : ledger'[ref] = ledger[ref]
           /\ Cardinality(ledger'[PaymentRef(x)]) <= 1,
           EntryOfPayment(x)',
           \A b \in Bills : /\ IsFiniteSet(PaymentsOf(b)')
                            /\ Paid(b)' <= IF Final(b) THEN bill[b].total ELSE 0
    PROVE  BooksInv'
<1>1. \A b \in Bills : Paid(b)' <= (IF Final(b) THEN bill[b].total ELSE 0)'
  BY DEF Final
<1>2. ASSUME NEW b \in Bills
      PROVE  EntryOfBill(b)'
  BY RefsApart, BooksParts DEF BooksInv, EntryOfBill, Final
<1>3. ASSUME NEW p \in Payments
      PROVE  EntryOfPayment(p)'
  <2>1. CASE p # x
    BY <2>1, RefsApart, BooksParts DEF BooksInv, EntryOfPayment
  <2> QED
    BY <2>1
<1>4. \A ref \in Refs : Cardinality(ledger'[ref]) <= 1
  BY BooksParts DEF BooksInv
<1>5. BooksMatchBills'
  BY <1>1, <1>2, <1>3, <1>4 DEF BooksMatchBills, EntryOfBill, EntryOfPayment
<1> QED
  BY <1>5 DEF BooksInv

\* A payment that comes adds its amount to what is paid of its bill, and one that goes
\* takes it along.
LEMMA PaymentComes ==
    ASSUME BooksInv, Typed', NEW x \in Payments, payment[x].status # "live",
           \A p \in Payments \ {x} : payment'[p] = payment[p], NEW b \in Bills,
           payment'[x].status = "live"
    PROVE  /\ IsFiniteSet(PaymentsOf(b)')
           /\ payment'[x].bill = b => Paid(b)' = Paid(b) + payment'[x].amount
           /\ payment'[x].bill # b => Paid(b)' = Paid(b)
<1> DEFINE f == [p \in Payments |-> payment[p].amount]
           g == [p \in Payments |-> payment'[p].amount]
           S == PaymentsOf(b)
<1>1. \A p \in Payments : f[p] \in Nat /\ g[p] \in Nat
  BY DEF BooksInv, Typed, TypeOK, Payment
<1>2. S \subseteq Payments /\ x \notin S /\ IsFiniteSet(S)
  BY DEF PaymentsOf, BooksInv
<1>3. \A y \in S : f[y] = g[y]
  BY <1>2
<1>4. PaymentsOf(b)' = IF payment'[x].bill = b THEN S \cup {x} ELSE S
  BY DEF PaymentsOf
<1>5. /\ Paid(b) = SumFunctionOnSet(f, S) /\ g[x] = payment'[x].amount
      /\ Paid(b)' = SumFunctionOnSet(g, IF payment'[x].bill = b THEN S \cup {x} ELSE S)
  BY <1>4 DEF Paid
<1> HIDE DEF f, g, S
<1>6. IsFiniteSet(PaymentsOf(b)')
  BY <1>2, <1>4, FS_AddElement
<1>7. CASE payment'[x].bill = b
  <2> DEFINE T == S \cup {x}
  <2>1. x \in T /\ S = T \ {x} /\ \A y \in T : g[y] \in Int
    BY <1>1, <1>2
  <2> HIDE DEF T
  <2>2. SumFunctionOnSet(g, T) = SumFunctionOnSet(f, S) + g[x]
    BY <1>2, <1>3, <2>1, SumGains
  <2> QED
    BY <1>5, <1>6, <1>7, <2>2 DEF T
<1>8. CASE payment'[x].bill # b
  BY <1>2, <1>3, <1>5, <1>6, <1>8, SumSame
<1> QED
  BY <1>7, <1>8

LEMMA PaymentGoes ==
    ASSUME BooksInv, Typed', NEW x \in Payments, payment'[x].status # "live",
           \A p \in Payments \ {x} : payment'[p] = payment[p], NEW b \in Bills
    PROVE  IsFiniteSet(PaymentsOf(b)') /\ Paid(b)' \in Nat /\ Paid(b)' <= Paid(b)
<1> DEFINE f == [p \in Payments |-> payment[p].amount]
           g == [p \in Payments |-> payment'[p].amount]
           S == PaymentsOf(b)
<1>1. \A p \in Payments : f[p] \in Nat /\ g[p] \in Nat
  BY DEF BooksInv, Typed, TypeOK, Payment
<1>2. S \subseteq Payments /\ IsFiniteSet(S)
  BY DEF PaymentsOf, BooksInv
<1>3. \A y \in S \ {x} : f[y] = g[y]
  BY <1>2
<1>4. PaymentsOf(b)' = S \ {x}
  BY DEF PaymentsOf
<1>5. /\ Paid(b) = SumFunctionOnSet(f, S) /\ Paid(b)' = SumFunctionOnSet(g, S \ {x})
  BY <1>4 DEF Paid
<1> HIDE DEF f, g, S
<1>6. IsFiniteSet(PaymentsOf(b)')
  BY <1>2, <1>4, FS_RemoveElement
<1>7. SumFunctionOnSet(f, S) \in Nat /\ Paid(b)' \in Nat
  <2>1. IsFiniteSet(S \ {x}) /\ \A y \in S \ {x} : g[y] \in Nat
    BY <1>1, <1>2, FS_RemoveElement
  <2> QED
    BY <1>1, <1>2, <1>5, <2>1, SumType
<1>8. CASE x \in S
  <2> DEFINE T == S \ {x}
  <2>1. T = S \ {x} /\ \A y \in S : f[y] \in Int
    BY <1>1, <1>2
  <2> HIDE DEF T
  <2>2. SumFunctionOnSet(g, T) = SumFunctionOnSet(f, S) - f[x]
    BY <1>2, <1>3, <1>8, <2>1, SumLoses
  <2> QED
    BY <1>1, <1>5, <1>6, <1>7, <2>1, <2>2
<1>9. CASE x \notin S
  <2>1. S \ {x} = S
    BY <1>9
  <2>2. SumFunctionOnSet(f, S) = SumFunctionOnSet(g, S)
    BY <1>2, <1>3, <2>1, SumSame
  <2> QED
    BY <1>5, <1>6, <1>7, <2>1, <2>2
<1> QED
  BY <1>8, <1>9

LEMMA BooksInit == Init => BooksInv
<1> SUFFICES ASSUME Init PROVE BooksInv
  OBVIOUS
<1>1. Typed
  BY TypeInit
<1>2. \A b \in Bills : PaymentsOf(b) = {} /\ ~Final(b) /\ EntryOfBill(b)
  BY RefsApart DEF Init, PaymentsOf, Final, EntryOfBill
<1>3. \A p \in Payments : EntryOfPayment(p)
  BY RefsApart DEF Init, EntryOfPayment
<1>4. \A b \in Bills : Paid(b) = 0 /\ IsFiniteSet(PaymentsOf(b))
  <2> TAKE b \in Bills
  <2>1. IsFiniteSet({}) /\ SumFunctionOnSet([p \in Payments |-> payment[p].amount], {}) = 0
    BY FS_EmptySet, SumTurn
  <2> QED
    BY <1>2, <2>1 DEF Paid
<1>5. \A ref \in Refs : Cardinality(ledger[ref]) <= 1
  BY FS_EmptySet DEF Init
<1> QED
  BY <1>1, <1>2, <1>3, <1>4, <1>5, BooksParts DEF BooksInv

LEMMA BooksNext ==
    ASSUME BooksInv, [Next]_vars
    PROVE  BooksInv'
<1>1. Typed /\ Typed'
  BY TypeNext DEF BooksInv
<1>2. ASSUME UNCHANGED <<bill, payment, ledger>>
      PROVE  BooksInv'
  <2>1. \A b \in Bills : PaymentsOf(b)' = PaymentsOf(b) /\ Paid(b)' = Paid(b)
    BY <1>2 DEF PaymentsOf, Paid
  <2> QED
    BY <1>1, <1>2, <2>1 DEF BooksInv, BooksMatchBills, Final
\* What leaves a bill and its total alone, or works on a draft.
<1>3. ASSUME NEW b \in Bills, NEW row, bill' = [bill EXCEPT ![b] = row], UNCHANGED <<payment, ledger>>,
             \/ bill[b].status # "finalized" /\ row.status # "finalized"
             \/ row.status = bill[b].status /\ row.total = bill[b].total
      PROVE  BooksInv'
  <2>1. bill'[b] = row /\ \A c \in Bills \ {b} : bill'[c] = bill[c]
    BY <1>1, <1>3 DEF Typed, TypeOK
  <2>2. (Final(b)' <=> Final(b)) /\ (Final(b) => bill'[b].total = bill[b].total)
    BY <1>3, <2>1 DEF Final
  <2>3. EntryOfBill(b)'
    BY <1>3, <2>2, BooksParts DEF BooksInv, EntryOfBill
  <2>4. /\ \A ref \in Refs \ {BillRef(b)} : ledger'[ref] = ledger[ref]
        /\ Cardinality(ledger'[BillRef(b)]) <= 1
    BY <1>3, RefsApart, BooksParts DEF BooksInv
  <2>5. bill[b].total \in Nat
    <3>1. bill[b] \in Bill
      BY <1>1 DEF Typed, TypeOK
    <3> QED
      BY <3>1 DEF Bill, PurchasingAssumption
  <2>6. Final(b)' => bill'[b].total >= IF Final(b) THEN bill[b].total ELSE 0
    BY <2>2, <2>5
  <2>7. Final(b)' \/ (Paid(b) = 0 \/ ~Final(b))
    BY <2>2
  <2> QED
    BY <1>1, <1>3, <2>1, <2>3, <2>4, <2>6, <2>7, BillBooks
<1>4. ASSUME NEW u \in Users, NEW b \in Bills,
             \/ CreateBill(u, b) \/ UpdateBill(u, b) \/ SubmitBill(u, b)
             \/ ApproveBill(u, b) \/ RejectBill(u, b)
      PROVE  BooksInv'
  <2>0. bill[b] \in Bill
    BY <1>1 DEF Typed, TypeOK
  <2>1. CASE CreateBill(u, b)
    <3>1. PICK v, o, total, p :
            bill' = [bill EXCEPT ![b] =
              Initialize([bill[b] EXCEPT !.status = "draft", !.vendor = v, !.order = o,
                                         !.total = total, !.period = p], NeedsApproval(total), u)]
      BY <2>1 DEF CreateBill
    <3> DEFINE row == Initialize([bill[b] EXCEPT !.status = "draft", !.vendor = v, !.order = o,
                                         !.total = total, !.period = p], NeedsApproval(total), u)
    <3>2. row.status = "draft" /\ bill' = [bill EXCEPT ![b] = row]
      BY <2>0, <3>1 DEF Initialize, Bill
    <3> HIDE DEF row
    <3> QED
      BY <1>3, <2>1, <3>2 DEF CreateBill
  <2>2. CASE UpdateBill(u, b)
    <3>1. PICK total, p :
            bill' = [bill EXCEPT ![b] =
              Initialize([bill[b] EXCEPT !.total = total, !.period = p], NeedsApproval(total), u)]
      BY <2>2 DEF UpdateBill
    <3> DEFINE row == Initialize([bill[b] EXCEPT !.total = total, !.period = p], NeedsApproval(total), u)
    <3>2. row.status = "draft" /\ bill' = [bill EXCEPT ![b] = row]
      BY <2>0, <2>2, <3>1 DEF Initialize, Bill, UpdateBill
    <3> HIDE DEF row
    <3> QED
      BY <1>3, <2>2, <3>2 DEF UpdateBill
  <2>3. CASE SubmitBill(u, b)
    <3> DEFINE row == Submit(bill[b], NeedsApproval(bill[b].total), u)
    <3>1. row.status = bill[b].status /\ row.total = bill[b].total /\ bill' = [bill EXCEPT ![b] = row]
      BY <2>0, <2>3 DEF SubmitBill, Submit, Bill
    <3> HIDE DEF row
    <3> QED
      BY <1>3, <2>3, <3>1 DEF SubmitBill
  <2>4. CASE ApproveBill(u, b)
    <3> DEFINE row == Approve(bill[b], u)
    <3>1. row.status = bill[b].status /\ row.total = bill[b].total /\ bill' = [bill EXCEPT ![b] = row]
      BY <2>0, <2>4 DEF ApproveBill, Approve, Bill
    <3> HIDE DEF row
    <3> QED
      BY <1>3, <2>4, <3>1 DEF ApproveBill
  <2>5. CASE RejectBill(u, b)
    <3> DEFINE row == Reject(bill[b])
    <3>1. row.status = bill[b].status /\ row.total = bill[b].total /\ bill' = [bill EXCEPT ![b] = row]
      BY <2>0, <2>5 DEF RejectBill, Reject, Bill
    <3> HIDE DEF row
    <3> QED
      BY <1>3, <2>5, <3>1 DEF RejectBill
  <2> QED
    BY <1>4, <2>1, <2>2, <2>3, <2>4, <2>5
<1>5. ASSUME NEW b \in Bills, DeleteBill(b)
      PROVE  BooksInv'
  <2> DEFINE row == [bill[b] EXCEPT !.status = "deleted"]
  <2>0. bill[b] \in Bill
    BY <1>1 DEF Typed, TypeOK
  <2>1. /\ bill' = [bill EXCEPT ![b] = row] /\ row.status = "deleted" /\ bill[b].status = "draft"
        /\ UNCHANGED <<payment, ledger>>
    BY <1>5, <2>0 DEF DeleteBill, Bill
  <2> HIDE DEF row
  <2> QED
    BY <1>3, <2>1
<1>6. ASSUME NEW b \in Bills, FinalizeBill(b)
      PROVE  BooksInv'
  <2>0. bill[b] \in Bill
    BY <1>1 DEF Typed, TypeOK
  <2>1. /\ bill[b].status = "draft" /\ bill'[b].status = "finalized" /\ bill'[b].total = bill[b].total
        /\ \A c \in Bills \ {b} : bill'[c] = bill[c]
    BY <1>1, <1>6, <2>0 DEF FinalizeBill, Typed, TypeOK, Bill
  <2>2. /\ ledger'[BillRef(b)] = {[period |-> bill[b].period, amount |-> bill[b].total]}
        /\ Cardinality(ledger'[BillRef(b)]) <= 1
        /\ \A ref \in Refs \ {BillRef(b)} : ledger'[ref] = ledger[ref]
    BY <1>1, <1>6, RefsApart, Posted DEF FinalizeBill
  <2>3. EntryOfBill(b)'
    BY <2>1, <2>2 DEF EntryOfBill, Final
  <2>4. bill[b].total \in Nat
    BY <2>0 DEF Bill, PurchasingAssumption
  <2>5. Final(b)' /\ bill'[b].total >= IF Final(b) THEN bill[b].total ELSE 0
    BY <2>1, <2>4 DEF Final
  <2> QED
    BY <1>1, <1>6, <2>1, <2>2, <2>3, <2>5, BillBooks DEF FinalizeBill
<1>7. ASSUME NEW b \in Bills, VoidBill(b)
      PROVE  BooksInv'
  <2>1. /\ bill'[b].status = "void" /\ Paid(b) = 0
        /\ \A c \in Bills \ {b} : bill'[c] = bill[c]
    BY <1>1, <1>7 DEF VoidBill, Voidable, Typed, TypeOK, Bill
  <2>2. /\ ledger'[BillRef(b)] = {} /\ Cardinality(ledger'[BillRef(b)]) <= 1
        /\ \A ref \in Refs \ {BillRef(b)} : ledger'[ref] = ledger[ref]
    BY <1>1, <1>7, RefsApart, Erased DEF VoidBill
  <2>3. ~Final(b)' /\ EntryOfBill(b)'
    BY <2>1, <2>2 DEF EntryOfBill, Final
  <2> QED
    BY <1>1, <1>7, <2>1, <2>2, <2>3, BillBooks DEF VoidBill
<1>8. ASSUME NEW p \in Payments, CreatePayment(p)
      PROVE  BooksInv'
  <2>1. PICK b \in Bills, day \in Periods :
          /\ bill[b].status = "finalized"
          /\ \E amount \in 1 .. bill[b].total - Paid(b) :
               /\ payment' = [payment EXCEPT ![p] = [status |-> "live", bill |-> b, amount |-> amount]]
               /\ Post(PaymentRef(p), ledger[PaymentRef(p)], [period |-> day, amount |-> amount])
    BY <1>8 DEF CreatePayment
  <2>2. PICK amount \in 1 .. bill[b].total - Paid(b) :
          /\ payment' = [payment EXCEPT ![p] = [status |-> "live", bill |-> b, amount |-> amount]]
          /\ Post(PaymentRef(p), ledger[PaymentRef(p)], [period |-> day, amount |-> amount])
    BY <2>1
  <2>3. /\ payment'[p] = [status |-> "live", bill |-> b, amount |-> amount]
        /\ \A q \in Payments \ {p} : payment'[q] = payment[q]
    BY <1>1, <2>2 DEF Typed, TypeOK
  <2>4. /\ ledger'[PaymentRef(p)] = {[period |-> day, amount |-> amount]}
        /\ Cardinality(ledger'[PaymentRef(p)]) <= 1
        /\ \A ref \in Refs \ {PaymentRef(p)} : ledger'[ref] = ledger[ref]
    BY <1>1, <2>2, RefsApart, Posted
  <2>5. EntryOfPayment(p)'
    BY <2>3, <2>4 DEF EntryOfPayment
  <2>6. payment[p].status # "live"
    BY <1>8 DEF CreatePayment
  <2>7. ASSUME NEW c \in Bills
        PROVE  /\ IsFiniteSet(PaymentsOf(c)')
               /\ Paid(c)' <= IF Final(c) THEN bill[c].total ELSE 0
    <3>1. /\ IsFiniteSet(PaymentsOf(c)')
          /\ b = c => Paid(c)' = Paid(c) + amount
          /\ b # c => Paid(c)' = Paid(c)
      BY <1>1, <2>3, <2>6, PaymentComes
    <3>2. Paid(c) \in Nat /\ Paid(c) <= IF Final(c) THEN bill[c].total ELSE 0
      BY PaidNumber, BooksParts DEF BooksInv
    <3>3. CASE b = c
      <4>1. bill[b] \in Bill
        BY <1>1 DEF Typed, TypeOK
      <4>2. bill[b].total \in Nat
        BY <4>1 DEF Bill, PurchasingAssumption
      <4> QED
        BY <2>1, <2>2, <3>1, <3>2, <3>3, <4>2 DEF Final
    <3> QED
      BY <3>1, <3>2, <3>3
  <2> QED
    BY <1>1, <1>8, <2>3, <2>4, <2>5, <2>7, PaymentBooks DEF CreatePayment
<1>9. ASSUME NEW p \in Payments, DeletePayment(p)
      PROVE  BooksInv'
  <2>1. payment'[p].status = "deleted" /\ \A q \in Payments \ {p} : payment'[q] = payment[q]
    BY <1>1, <1>9 DEF DeletePayment, Typed, TypeOK, Payment
  <2>2. /\ ledger'[PaymentRef(p)] = {} /\ Cardinality(ledger'[PaymentRef(p)]) <= 1
        /\ \A ref \in Refs \ {PaymentRef(p)} : ledger'[ref] = ledger[ref]
    BY <1>1, <1>9, RefsApart, Erased DEF DeletePayment
  <2>3. EntryOfPayment(p)'
    BY <2>1, <2>2 DEF EntryOfPayment
  <2>4. ASSUME NEW c \in Bills
        PROVE  /\ IsFiniteSet(PaymentsOf(c)')
               /\ Paid(c)' <= IF Final(c) THEN bill[c].total ELSE 0
    <3>1. IsFiniteSet(PaymentsOf(c)') /\ Paid(c)' \in Nat /\ Paid(c)' <= Paid(c)
      BY <1>1, <2>1, PaymentGoes
    <3>2. Paid(c) \in Nat /\ Paid(c) <= IF Final(c) THEN bill[c].total ELSE 0
      BY PaidNumber, BooksParts DEF BooksInv
    <3>3. Final(c) => bill[c].total \in Nat
      <4>1. bill[c] \in Bill
        BY <1>1 DEF Typed, TypeOK
      <4> QED
        BY <4>1 DEF Bill, PurchasingAssumption
    <3> QED
      BY <3>1, <3>2, <3>3
  <2> QED
    BY <1>1, <1>9, <2>1, <2>2, <2>3, <2>4, PaymentBooks DEF DeletePayment
<1>10. CASE Purchase /\ UNCHANGED <<period, ledger, bill, payment>>
  BY <1>2, <1>10
<1>11. ASSUME NEW p \in Periods, ClosePeriod(p) \/ ReopenPeriod(p),
              UNCHANGED <<requisition, quote, order, bill, payment>>
       PROVE  BooksInv'
  BY <1>2, <1>11 DEF ClosePeriod, ReopenPeriod
<1>12. CASE UNCHANGED vars
  BY <1>2, <1>12 DEF vars
<1> QED
  BY <1>4, <1>5, <1>6, <1>7, <1>8, <1>9, <1>10, <1>11, <1>12 DEF Next

\* The ledger holds one entry of its amount for each finalized bill and each live
\* payment, and no bill is paid beyond its total, or at all when it is not posted.
THEOREM BooksCorrect == Spec => []BooksMatchBills
<1>1. BooksInv /\ [Next]_vars => BooksInv'
  BY BooksNext
<1> QED
  BY <1>1, BooksInit, PTL DEF Spec, BooksInv
=============================================================================
