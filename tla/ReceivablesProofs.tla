-------------------------- MODULE ReceivablesProofs --------------------------
(* Theorems of Receivables, for every set of users, invoices, receipts,     *)
(* periods and amounts.                                                     *)
EXTENDS Receivables, Sums, TLAPS

-----------------------------------------------------------------------------
(* Type correctness.                                                        *)

\* Distinct documents have distinct references, all of them in Refs.
LEMMA RefsDistinct ==
    /\ \A i \in Invoices : InvoiceRef(i) \in Refs
    /\ \A r \in Receipts : ReceiptRef(r) \in Refs
    /\ \A i, j : InvoiceRef(i) = InvoiceRef(j) => i = j
    /\ \A i, j : ReceiptRef(i) = ReceiptRef(j) => i = j
    /\ \A i, j : InvoiceRef(i) # ReceiptRef(j)
BY DEF Refs, InvoiceRef, ReceiptRef

\* What a request in flight holds, by its step.
LEMMA RequestFields ==
    ASSUME NEW r \in Request
    PROVE  /\ r # Idle => r.step # "idle" /\ r.invoice \in Invoices
           /\ r.step \in {"edit", "submit", "approve", "reject"} => r.patch \in PatchType
           /\ r.step = "edit" => r.dropped \in SUBSET Line /\ r.added \in SUBSET Line
           /\ r.step = "approve" => r.lines \in SUBSET Line
           /\ r.step \in {"finalize", "committed", "locked", "selected"} =>
                r.period \in Periods /\ r.amount \in Totals
           /\ r.step \in {"locked", "selected", "voiding"} => r.prior \in SUBSET Entry
           /\ r.step = "receipt" => r.period \in Periods /\ r.amount \in Amounts
BY DEF Request, Idle

\* The approval rules and the column-wise write keep an invoice an invoice.
LEMMA RowTypes ==
    ASSUME NEW row \in Invoice, NEW u \in Users
    PROVE  /\ \A n \in BOOLEAN : Initialize(row, n, u) \in Invoice
           /\ \A n \in BOOLEAN : Submit(row, n, u) \in Invoice
           /\ Approve(row, u) \in Invoice
           /\ Reject(row) \in Invoice
           /\ \A w \in Invoice : Patch(row, w) \in PatchType
           /\ \A p \in PatchType : Patched(row, p) \in Invoice
<1>1. \A n \in BOOLEAN : Initialize(row, n, u) \in Invoice
  BY DEF Initialize, Invoice, ApprovalStatus
<1>2. \A n \in BOOLEAN : Submit(row, n, u) \in Invoice
  BY DEF Submit, Invoice, ApprovalStatus
<1>3. Approve(row, u) \in Invoice /\ Reject(row) \in Invoice
  BY DEF Approve, Reject, Invoice, ApprovalStatus
<1>4. \A w \in Invoice : Patch(row, w) \in PatchType
  BY DEF Patch, PatchType, Changed, Invoice
<1>5. ASSUME NEW p \in PatchType PROVE Patched(row, p) \in Invoice
  BY DEF Patched, PatchType, Written, Invoice
<1> QED
  BY <1>1, <1>2, <1>3, <1>4, <1>5

LEMMA TypeInit == Init => TypeOK
<1> SUFFICES ASSUME Init PROVE TypeOK
  OBVIOUS
<1>1. (CHOOSE p \in Periods : TRUE) \in Periods /\ (CHOOSE i \in Invoices : TRUE) \in Invoices
      /\ (CHOOSE a \in Amounts : TRUE) \in Amounts
  BY SomeAssumption
<1>2. period \in [Periods -> PeriodStatus] /\ ledger \in [Refs -> SUBSET Entry]
  BY DEF Init, PeriodStatus
<1>3. invoice \in [Invoices -> Invoice] /\ receipt \in [Receipts -> Receipt]
  BY <1>1 DEF Init, Invoice, InvoiceStatus, ApprovalStatus, Receipt
<1>4. accounts \in {"complete", "lacking", "added"} /\ request \in [Users -> Request] /\ signed \in [Invoices -> SUBSET Line]
  BY FlagsAssumption DEF Init, Request
<1> QED
  BY <1>2, <1>3, <1>4 DEF TypeOK

\* Starting a request: the loads that end in Begin change nothing else.
LEMMA TypeBegin ==
    ASSUME TypeOK, NEW u \in Users, NEW r \in Request, Begin(u, r)
    PROVE  TypeOK'
BY DEF TypeOK, Begin, IsOpen

LEMMA TypeLoad ==
    ASSUME TypeOK, NEW u \in Users, Load(u)
    PROVE  TypeOK'
<1>1. \A i \in Invoices : invoice[i] \in Invoice
  BY DEF TypeOK
<1>2. \A a \in Amounts : [author |-> u, amount |-> a] \in Line
  BY DEF Line
<1>3. \A S \in SUBSET Line : Total(S) \in Totals /\ NeedsApproval(S) \in BOOLEAN
  BY DEF Totals, NeedsApproval
<1>4. CASE CreateInvoice(u)
  <2>1. PICK i \in Invoices, a \in Amounts, p \in Periods :
          invoice' = [invoice EXCEPT
             ![i] = Initialize([invoice[i] EXCEPT !.status = "draft",
                                  !.lines = {[author |-> u, amount |-> a]}, !.period = p],
                               NeedsApproval({[author |-> u, amount |-> a]}), u)]
    BY <1>4 DEF CreateInvoice
  <2>2. [invoice[i] EXCEPT !.status = "draft",
            !.lines = {[author |-> u, amount |-> a]}, !.period = p] \in Invoice
    BY <1>1, <1>2 DEF Invoice, InvoiceStatus
  <2>3. invoice' \in [Invoices -> Invoice]
    BY <2>1, <2>2, <1>2, <1>3, RowTypes DEF TypeOK
  <2> QED
    BY <2>3, <1>4 DEF TypeOK, CreateInvoice
<1>5. CASE UpdateInvoice(u)
  <2>1. PICK i \in Invoices, a \in Amounts, p \in Periods :
          Begin(u, [step |-> "edit", invoice |-> i,
                    patch |-> Patch(invoice[i],
                                    Initialize([invoice[i] EXCEPT !.period = p],
                                      NeedsApproval({[author |-> u, amount |-> a]}), u)),
                    dropped |-> invoice[i].lines, added |-> {[author |-> u, amount |-> a]}])
    BY <1>5 DEF UpdateInvoice
  <2>2. [invoice[i] EXCEPT !.period = p] \in Invoice /\ invoice[i].lines \in SUBSET Line
    BY <1>1 DEF Invoice
  <2>3. Patch(invoice[i], Initialize([invoice[i] EXCEPT !.period = p],
                NeedsApproval({[author |-> u, amount |-> a]}), u)) \in PatchType
    BY <2>2, <1>1, <1>2, <1>3, RowTypes
  <2> QED
    BY <2>1, <2>2, <2>3, <1>2, TypeBegin DEF Request
<1>6. CASE SubmitInvoice(u)
  <2>1. PICK i \in Invoices :
          Begin(u, [step |-> "submit", invoice |-> i,
                    patch |-> Patch(invoice[i],
                                    Submit(invoice[i], NeedsApproval(invoice[i].lines), u))])
    BY <1>6 DEF SubmitInvoice
  <2>2. invoice[i].lines \in SUBSET Line
    BY <1>1 DEF Invoice
  <2>3. Patch(invoice[i], Submit(invoice[i], NeedsApproval(invoice[i].lines), u)) \in PatchType
    BY <2>2, <1>1, <1>3, RowTypes
  <2> QED
    BY <2>1, <2>3, TypeBegin DEF Request
<1>7. CASE ApproveInvoice(u)
  <2>1. PICK i \in Invoices :
          Begin(u, [step |-> "approve", invoice |-> i,
                    patch |-> Patch(invoice[i], Approve(invoice[i], u)),
                    lines |-> invoice[i].lines])
    BY <1>7 DEF ApproveInvoice
  <2>2. invoice[i].lines \in SUBSET Line
    BY <1>1 DEF Invoice
  <2>3. Patch(invoice[i], Approve(invoice[i], u)) \in PatchType
    BY <1>1, RowTypes
  <2> QED
    BY <2>1, <2>2, <2>3, TypeBegin DEF Request
<1>8. CASE RejectInvoice(u)
  <2>1. PICK i \in Invoices :
          Begin(u, [step |-> "reject", invoice |-> i,
                    patch |-> Patch(invoice[i], Reject(invoice[i]))])
    BY <1>8 DEF RejectInvoice
  <2>2. Patch(invoice[i], Reject(invoice[i])) \in PatchType
    BY <1>1, RowTypes
  <2> QED
    BY <2>1, <2>2, TypeBegin DEF Request
<1>9. CASE DeleteInvoice(u)
  <2>1. PICK i \in Invoices : Begin(u, [step |-> "delete", invoice |-> i])
    BY <1>9 DEF DeleteInvoice
  <2> QED
    BY <2>1, TypeBegin DEF Request
<1>10. CASE FinalizeInvoice(u)
  <2>1. PICK i \in Invoices :
          Begin(u, [step |-> "finalize", invoice |-> i, period |-> invoice[i].period,
                    amount |-> Total(invoice[i].lines)])
    BY <1>10 DEF FinalizeInvoice
  <2>2. invoice[i].lines \in SUBSET Line /\ invoice[i].period \in Periods
    BY <1>1 DEF Invoice
  <2> QED
    BY <2>1, <2>2, <1>3, TypeBegin DEF Request
<1>11. CASE VoidInvoice(u)
  <2>1. PICK i \in Invoices : Begin(u, [step |-> "void", invoice |-> i])
    BY <1>11 DEF VoidInvoice
  <2> QED
    BY <2>1, TypeBegin DEF Request
<1>12. CASE CreateReceipt(u)
  <2>1. PICK i \in Invoices, a \in Amounts, p \in Periods :
          Begin(u, [step |-> "receipt", invoice |-> i, period |-> p, amount |-> a])
    BY <1>12 DEF CreateReceipt
  <2> QED
    BY <2>1, TypeBegin DEF Request
<1> QED
  BY <1>4, <1>5, <1>6, <1>7, <1>8, <1>9, <1>10, <1>11, <1>12 DEF Load

LEMMA TypeWrite ==
    ASSUME TypeOK, NEW u \in Users, Write(u)
    PROVE  TypeOK'
<1> DEFINE r == request[u]
<1>1. /\ r \in Request
      /\ \A i \in Invoices : invoice[i] \in Invoice
      /\ Idle \in Request
  BY DEF TypeOK, Request
<1>2. Done(u) => request' \in [Users -> Request]
  BY <1>1 DEF Done, TypeOK
<1>3. r.step # "idle" => r.invoice \in Invoices /\ invoice[r.invoice] \in Invoice
  BY <1>1, RequestFields DEF Idle
<1>4. CASE WriteReview(u)
  <2>1. r.step \in {"submit", "approve", "reject"} /\ Done(u)
        /\ invoice' = [invoice EXCEPT ![r.invoice] = Patched(invoice[r.invoice], r.patch)]
    BY <1>4 DEF WriteReview
  <2>2. r.patch \in PatchType
    BY <2>1, <1>1, RequestFields
  <2>3. invoice' \in [Invoices -> Invoice]
    BY <2>1, <2>2, <1>3, RowTypes DEF TypeOK
  <2>4. signed' \in [Invoices -> SUBSET Line]
    BY <1>4, <1>1, <1>3, RequestFields DEF WriteReview, TypeOK
  <2> QED
    BY <2>1, <2>3, <2>4, <1>2, <1>4 DEF WriteReview, TypeOK
<1>5. CASE WriteEdit(u)
  <2> DEFINE row == Patched(invoice[r.invoice], r.patch)
  <2>1. r.step = "edit" /\ Done(u)
        /\ invoice' = [invoice EXCEPT
             ![r.invoice] = [row EXCEPT !.lines = (row.lines \ r.dropped) \cup r.added]]
    BY <1>5 DEF WriteEdit
  <2>2. r.patch \in PatchType /\ r.dropped \in SUBSET Line /\ r.added \in SUBSET Line
    BY <2>1, <1>1, RequestFields
  <2>3. row \in Invoice
    BY <2>1, <2>2, <1>3, RowTypes
  <2>4. row.lines \in SUBSET Line
    BY <2>3 DEF Invoice
  <2>5. [row EXCEPT !.lines = (row.lines \ r.dropped) \cup r.added] \in Invoice
    BY <2>2, <2>3, <2>4 DEF Invoice
  <2>6. invoice' \in [Invoices -> Invoice]
    BY <2>1, <2>5, <1>3 DEF TypeOK
  <2> QED
    BY <2>1, <2>6, <1>2, <1>5 DEF WriteEdit, TypeOK
<1>6. CASE WriteDelete(u)
  <2>1. invoice' \in [Invoices -> Invoice]
    BY <1>6, <1>3 DEF WriteDelete, TypeOK, Invoice, InvoiceStatus
  <2>2. receipt' \in [Receipts -> Receipt]
    BY <1>6 DEF WriteDelete, TypeOK, Receipt
  <2> QED
    BY <2>1, <2>2, <1>2, <1>6 DEF WriteDelete, TypeOK
<1>7. CASE WriteVoid(u)
  <2>1. invoice' \in [Invoices -> Invoice]
    BY <1>7, <1>3 DEF WriteVoid, TypeOK, Invoice, InvoiceStatus
  <2>2. ledger' \in [Refs -> SUBSET Entry]
    BY <1>7 DEF WriteVoid, TypeOK, Remove
  <2> QED
    BY <2>1, <2>2, <1>2, <1>7 DEF WriteVoid, TypeOK
<1>8. CASE LockInvoice(u) \/ SelectPrior(u)
  <2>1. r.step \in {"finalize", "committed"}
    BY <1>8 DEF LockInvoice, SelectPrior
  <2>2. r.invoice \in Invoices /\ r.period \in Periods /\ r.amount \in Totals
    BY <2>1, <1>1, <1>3, RequestFields
  <2>3. ledger[InvoiceRef(r.invoice)] \in SUBSET Entry
    BY <2>2, RefsDistinct DEF TypeOK
  <2>4. \A s \in {"locked", "selected"} :
          [step |-> s, invoice |-> r.invoice, period |-> r.period, amount |-> r.amount,
           prior |-> ledger[InvoiceRef(r.invoice)]] \in Request
    BY <2>2, <2>3 DEF Request
  <2>5. request' \in [Users -> Request]
    BY <2>4, <1>8 DEF LockInvoice, SelectPrior, TypeOK
  <2> QED
    BY <2>5, <1>8 DEF LockInvoice, SelectPrior, TypeOK
<1>9. CASE CommitAccounts(u)
  <2>1. r.step = "finalize" /\ request' = [request EXCEPT ![u].step = "committed"]
    BY <1>9 DEF CommitAccounts
  <2>2. [r EXCEPT !.step = "committed"] \in Request
    BY <2>1, <1>1 DEF Request, Idle
  <2>3. request' \in [Users -> Request]
    BY <2>1, <2>2 DEF TypeOK
  <2>4. invoice' \in [Invoices -> Invoice]
    BY <1>9, <1>3 DEF CommitAccounts, TypeOK, Invoice, InvoiceStatus
  <2> QED
    BY <2>3, <2>4, <1>9 DEF CommitAccounts, TypeOK
<1>10. CASE PostInvoice(u)
  <2>1. r.step \in {"locked", "selected"}
    BY <1>10 DEF PostInvoice
  <2>2. r.invoice \in Invoices /\ r.period \in Periods /\ r.amount \in Totals
    BY <2>1, <1>1, <1>3, RequestFields
  <2>3. [by |-> u, period |-> r.period, amount |-> r.amount] \in Entry
    BY <2>2 DEF Entry
  <2>4. ledger' \in [Refs -> SUBSET Entry]
    BY <2>3, <1>10 DEF PostInvoice, Post, TypeOK
  <2>5. invoice' \in [Invoices -> Invoice]
    BY <1>10, <1>3 DEF PostInvoice, TypeOK, Invoice, InvoiceStatus
  <2> QED
    BY <2>4, <2>5, <1>2, <1>10 DEF PostInvoice, TypeOK
<1>11. CASE WriteReceipt(u)
  <2>1. r.step = "receipt" /\ r.invoice \in Invoices /\ r.period \in Periods /\ r.amount \in Amounts
    BY <1>11, <1>1, <1>3, RequestFields DEF WriteReceipt
  <2>2. PICK x \in Receipts :
          /\ receipt' = [receipt EXCEPT ![x] = [state |-> "live", invoice |-> r.invoice,
                                                amount |-> r.amount]]
          /\ Post(ReceiptRef(x), {}, [by |-> u, period |-> r.period, amount |-> r.amount])
    BY <1>11 DEF WriteReceipt
  <2>3. receipt' \in [Receipts -> Receipt]
    BY <2>1, <2>2 DEF TypeOK, Receipt
  <2>4. [by |-> u, period |-> r.period, amount |-> r.amount] \in Entry
    BY <2>1 DEF Entry
  <2>5. ledger' \in [Refs -> SUBSET Entry]
    BY <2>2, <2>4 DEF TypeOK, Post
  <2> QED
    BY <2>3, <2>5, <1>2, <1>11 DEF WriteReceipt, TypeOK
<1>12. CASE SelectVoided(u)
  <2>1. r.invoice \in Invoices
    BY <1>12, <1>3 DEF SelectVoided
  <2>2. ledger[InvoiceRef(r.invoice)] \in SUBSET Entry
    BY <2>1, RefsDistinct DEF TypeOK
  <2>3. [step |-> "voiding", invoice |-> r.invoice,
         prior |-> ledger[InvoiceRef(r.invoice)]] \in Request
    BY <2>1, <2>2 DEF Request
  <2>4. request' \in [Users -> Request]
    BY <2>3, <1>12 DEF SelectVoided, TypeOK
  <2> QED
    BY <2>4, <1>12 DEF SelectVoided, TypeOK
<1> QED
  BY <1>4, <1>5, <1>6, <1>7, <1>8, <1>9, <1>10, <1>11, <1>12 DEF Write

LEMMA TypeNext == TypeOK /\ [Next]_vars => TypeOK'
<1> SUFFICES ASSUME TypeOK, [Next]_vars PROVE TypeOK'
  OBVIOUS
<1>1. ASSUME NEW u \in Users, DeleteReceipt(u) PROVE TypeOK'
  <2>1. receipt' \in [Receipts -> Receipt] /\ ledger' \in [Refs -> SUBSET Entry]
    BY <1>1 DEF DeleteReceipt, Erase, TypeOK, Receipt
  <2> QED
    BY <2>1, <1>1 DEF DeleteReceipt, TypeOK
<1>3. ASSUME NEW u \in Users, Abort(u) PROVE TypeOK'
  BY <1>3 DEF Abort, Done, TypeOK, Request
<1>4. ASSUME NEW u \in Users, ChangePeriod(u) PROVE TypeOK'
  BY <1>4 DEF ChangePeriod, ClosePeriod, ReopenPeriod, TypeOK, PeriodStatus
<1>5. CASE UNCHANGED vars
  BY <1>5 DEF vars, TypeOK
<1> QED
  BY <1>1, <1>3, <1>4, <1>5, TypeLoad, TypeWrite DEF Next

\* Every variable keeps its type, for every set of users, documents and periods.
THEOREM TypeCorrect == Spec => []TypeOK
BY TypeInit, TypeNext, PTL DEF Spec

-----------------------------------------------------------------------------
(* Receipts and their entries.                                              *)

\* A posting holds its lock on an invoice that exists, for a delete waits.
LockedExist == \A u \in Users, i \in Invoices : Locks(u, i) => Exists(i)

ReceiptsInv == LockedExist /\ ReceiptsMatchEntries

\* The only step that deletes an invoice, and the one that takes its lock.
LEMMA StatusNext ==
    ASSUME TypeOK, LockedExist, [Next]_vars, NEW i \in Invoices
    PROVE  /\ invoice[i].status = "deleted" => invoice'[i].status = "deleted"
           /\ Exists(i) => Exists(i)' \/ (Unlocked(i) /\ Unlocked(i)')
           /\ \A u \in Users : Locks(u, i)' => Locks(u, i) \/ Exists(i)
<1>1. /\ invoice[i] \in Invoice
      /\ \A v \in Users : request[v] \in Request
  BY DEF TypeOK
<1>2. ASSUME UNCHANGED invoice, \A u \in Users : Locks(u, i)' => Locks(u, i) \/ Exists(i)
      PROVE  /\ invoice[i].status = "deleted" => invoice'[i].status = "deleted"
             /\ Exists(i) => Exists(i)' \/ (Unlocked(i) /\ Unlocked(i)')
             /\ \A u \in Users : Locks(u, i)' => Locks(u, i) \/ Exists(i)
  BY <1>2 DEF Exists
<1>3. ASSUME NEW u \in Users, Begin(u, Idle) \/ Done(u) \/ UNCHANGED request
      PROVE  \A v \in Users : Locks(v, i)' => Locks(v, i)
  BY <1>3 DEF Begin, Done, Locks, Idle, TypeOK
<1>4. ASSUME NEW u \in Users, Load(u)
      PROVE  \A v \in Users : Locks(v, i)' => Locks(v, i)
  <2>1. CASE CreateInvoice(u)
    BY <2>1, <1>3 DEF CreateInvoice
  <2>2. ASSUME NEW r, Begin(u, r), r.step # "locked"
        PROVE  \A v \in Users : Locks(v, i)' => Locks(v, i)
    BY <2>2 DEF Begin, Locks, TypeOK
  <2>3. UpdateInvoice(u) => \E r : Begin(u, r) /\ r.step # "locked"
    <3> SUFFICES ASSUME UpdateInvoice(u) PROVE \E r : Begin(u, r) /\ r.step # "locked"
      OBVIOUS
    <3>1. PICK r : Begin(u, r) /\ r.step = "edit"
      BY DEF UpdateInvoice
    <3> QED
      BY <3>1
  <2>4. SubmitInvoice(u) \/ ApproveInvoice(u) \/ RejectInvoice(u) =>
          \E r : Begin(u, r) /\ r.step # "locked"
    <3>1. SubmitInvoice(u) => \E r : Begin(u, r) /\ r.step = "submit"
      BY DEF SubmitInvoice
    <3>2. ApproveInvoice(u) => \E r : Begin(u, r) /\ r.step = "approve"
      BY DEF ApproveInvoice
    <3>3. RejectInvoice(u) => \E r : Begin(u, r) /\ r.step = "reject"
      BY DEF RejectInvoice
    <3>4. "submit" # "locked" /\ "approve" # "locked" /\ "reject" # "locked"
      OBVIOUS
    <3> QED
      BY <3>1, <3>2, <3>3, <3>4
  <2>5. DeleteInvoice(u) \/ FinalizeInvoice(u) \/ VoidInvoice(u) \/ CreateReceipt(u) =>
          \E r : Begin(u, r) /\ r.step # "locked"
    <3>1. DeleteInvoice(u) => \E r : Begin(u, r) /\ r.step = "delete"
      BY DEF DeleteInvoice
    <3>2. FinalizeInvoice(u) => \E r : Begin(u, r) /\ r.step = "finalize"
      BY DEF FinalizeInvoice
    <3>3. VoidInvoice(u) => \E r : Begin(u, r) /\ r.step = "void"
      BY DEF VoidInvoice
    <3>4. CreateReceipt(u) => \E r : Begin(u, r) /\ r.step = "receipt"
      BY DEF CreateReceipt
    <3>5. "delete" # "locked" /\ "finalize" # "locked" /\ "void" # "locked" /\ "receipt" # "locked"
      OBVIOUS
    <3> QED
      BY <3>1, <3>2, <3>3, <3>4, <3>5
  <2> QED
    BY <1>4, <2>1, <2>2, <2>3, <2>4, <2>5 DEF Load
<1>5. ASSUME NEW u \in Users, Load(u)
      PROVE  /\ invoice[i].status = "deleted" => invoice'[i].status = "deleted"
             /\ Exists(i) => Exists(i)'
  <2>1. CASE CreateInvoice(u)
    <3>1. PICK j \in Invoices, a \in Amounts, p \in Periods :
            /\ invoice[j].status = "absent"
            /\ invoice' = [invoice EXCEPT
                 ![j] = Initialize([invoice[j] EXCEPT !.status = "draft",
                                      !.lines = {[author |-> u, amount |-> a]}, !.period = p],
                                   NeedsApproval({[author |-> u, amount |-> a]}), u)]
      BY <2>1 DEF CreateInvoice
    <3>2. i # j => invoice'[i] = invoice[i]
      BY <3>1 DEF TypeOK
    <3> QED
      BY <3>1, <3>2 DEF Exists
  <2>2. CASE ~CreateInvoice(u)
    <3>1. UNCHANGED invoice
      BY <1>5, <2>2 DEF Load, UpdateInvoice, SubmitInvoice, ApproveInvoice, RejectInvoice,
                        DeleteInvoice, FinalizeInvoice, VoidInvoice, CreateReceipt, Begin
    <3> QED
      BY <3>1 DEF Exists
  <2> QED
    BY <2>1, <2>2
<1>6. ASSUME NEW u \in Users, WriteReview(u) \/ WriteEdit(u)
      PROVE  /\ invoice'[i].status = invoice[i].status
             /\ \A v \in Users : Locks(v, i)' => Locks(v, i)
  <2>1. Done(u)
    BY <1>6 DEF WriteReview, WriteEdit
  <2>2. invoice'[i].status = invoice[i].status
    <3>1. CASE WriteReview(u)
      BY <3>1, <1>1 DEF WriteReview, Patched, TypeOK
    <3>2. CASE WriteEdit(u)
      BY <3>2, <1>1 DEF WriteEdit, Patched, TypeOK
    <3> QED
      BY <1>6, <3>1, <3>2
  <2> QED
    BY <2>1, <2>2, <1>3
<1>7. ASSUME NEW u \in Users, WriteVoid(u) \/ CommitAccounts(u) \/ PostInvoice(u)
      PROVE  /\ invoice'[i] # invoice[i] => Exists(i) /\ Exists(i)'
             /\ \A v \in Users : Locks(v, i)' => Locks(v, i)
  <2> DEFINE j == request[u].invoice
  <2>1. CASE CommitAccounts(u)
    <3>1. /\ Exists(j) /\ request[u].step = "finalize"
          /\ invoice' = [invoice EXCEPT ![j].status = "finalized"]
          /\ request' = [request EXCEPT ![u].step = "committed"]
      BY <2>1 DEF CommitAccounts
    <3>2. invoice'[i] # invoice[i] => i = j /\ invoice'[i].status = "finalized"
      BY <3>1, <1>1 DEF TypeOK, Invoice
    <3>3. [request[u] EXCEPT !.step = "committed"].step = "committed"
      BY <3>1, <1>1 DEF Request, Idle
    <3>4. request'[u].step = "committed" /\ \A v \in Users : v # u => request'[v] = request[v]
      BY <3>1, <3>3 DEF TypeOK
    <3> QED
      BY <3>1, <3>2, <3>4 DEF Exists, Locks
  <2>2. CASE WriteVoid(u)
    <3>1. Exists(j) /\ Done(u) /\ invoice' = [invoice EXCEPT ![j].status = "void"]
      BY <2>2 DEF WriteVoid
    <3>2. invoice'[i] # invoice[i] => i = j /\ invoice'[i].status = "void"
      BY <3>1, <1>1 DEF TypeOK, Invoice
    <3> QED
      BY <3>1, <3>2, <1>3 DEF Exists
  <2>3. CASE PostInvoice(u)
    <3>1. /\ Done(u)
          /\ \/ /\ request[u].step = "locked"
                /\ invoice' = [invoice EXCEPT ![j].status = "finalized"]
             \/ UNCHANGED invoice
      BY <2>3 DEF PostInvoice
    <3>2. invoice'[i] # invoice[i] =>
            i = j /\ request[u].step = "locked" /\ invoice'[i].status = "finalized"
      BY <3>1, <1>1 DEF TypeOK, Invoice
    <3>3. invoice'[i] # invoice[i] => Exists(i)
      BY <3>2 DEF LockedExist, Locks
    <3> QED
      BY <3>1, <3>2, <3>3, <1>3 DEF Exists
  <2> QED
    BY <1>7, <2>1, <2>2, <2>3
<1>8. ASSUME NEW u \in Users, WriteDelete(u)
      PROVE  /\ invoice'[i] # invoice[i] => Unlocked(i) /\ invoice'[i].status = "deleted"
             /\ \A v \in Users : Locks(v, i)' => Locks(v, i)
  <2>1. /\ Unlocked(request[u].invoice) /\ Done(u)
        /\ invoice' = [invoice EXCEPT ![request[u].invoice].status = "deleted"]
    BY <1>8 DEF WriteDelete
  <2>2. invoice'[i] # invoice[i] => i = request[u].invoice /\ invoice'[i].status = "deleted"
    BY <2>1, <1>1 DEF TypeOK, Invoice
  <2> QED
    BY <2>1, <2>2, <1>3
<1>9. ASSUME NEW u \in Users, LockInvoice(u)
      PROVE  UNCHANGED invoice /\ \A v \in Users : Locks(v, i)' => Locks(v, i) \/ Exists(i)
  <2>1. /\ UNCHANGED invoice /\ Exists(request[u].invoice)
        /\ request'[u].invoice = request[u].invoice
        /\ \A v \in Users : v # u => request'[v] = request[v]
    BY <1>9 DEF LockInvoice, TypeOK
  <2> QED
    BY <2>1 DEF Locks
<1>10. ASSUME NEW u \in Users, SelectVoided(u) \/ SelectPrior(u)
       PROVE  UNCHANGED invoice /\ \A v \in Users : Locks(v, i)' => Locks(v, i)
  BY <1>10 DEF SelectVoided, SelectPrior, Locks, TypeOK
<1>11. ASSUME NEW u \in Users,
              WriteReceipt(u) \/ Abort(u) \/ DeleteReceipt(u) \/ ChangePeriod(u)
       PROVE  UNCHANGED invoice /\ \A v \in Users : Locks(v, i)' => Locks(v, i)
  <2>1. UNCHANGED invoice /\ (Done(u) \/ UNCHANGED request)
    BY <1>11 DEF WriteReceipt, Abort, DeleteReceipt, ChangePeriod
  <2> QED
    BY <2>1, <1>3
<1>12. UNCHANGED vars => UNCHANGED invoice /\ \A v \in Users : Locks(v, i)' => Locks(v, i)
  BY DEF vars, Locks
<1>13. ASSUME NEW u \in Users, WriteDelete(u)
       PROVE  /\ invoice[i].status = "deleted" => invoice'[i].status = "deleted"
              /\ Exists(i) => Exists(i)' \/ (Unlocked(i) /\ Unlocked(i)')
  BY <1>13, <1>8 DEF Exists, Unlocked
<1>14. ASSUME NEW u \in Users, WriteVoid(u) \/ CommitAccounts(u) \/ PostInvoice(u)
       PROVE  /\ invoice[i].status = "deleted" => invoice'[i].status = "deleted"
              /\ Exists(i) => Exists(i)'
  BY <1>14, <1>7 DEF Exists
<1> QED
  BY <1>2, <1>4, <1>5, <1>6, <1>7, <1>8, <1>9, <1>10, <1>11, <1>12, <1>13, <1>14
     DEF Next, Write, Exists

LEMMA LockedNext == TypeOK /\ LockedExist /\ [Next]_vars => LockedExist'
<1> SUFFICES ASSUME TypeOK, LockedExist, [Next]_vars,
                    NEW u \in Users, NEW i \in Invoices, Locks(u, i)'
             PROVE  Exists(i)'
  BY DEF LockedExist
<1>1. Exists(i)
  BY StatusNext DEF LockedExist
<1>2. ~Unlocked(i)'
  BY DEF Unlocked
<1> QED
  BY <1>1, <1>2, StatusNext

\* The steps that touch neither the receipts nor the entries of receipts.
LEMMA ReceiptsUntouched ==
    ASSUME TypeOK, ReceiptsMatchEntries, UNCHANGED receipt,
           \A i \in Invoices : invoice[i].status = "deleted" => invoice'[i].status = "deleted",
           \A r \in Receipts : ledger'[ReceiptRef(r)] = ledger[ReceiptRef(r)]
    PROVE  ReceiptsMatchEntries'
BY DEF ReceiptsMatchEntries, TypeOK, Receipt

LEMMA ReceiptsInit == Init => ReceiptsInv
<1> SUFFICES ASSUME Init PROVE ReceiptsInv
  OBVIOUS
<1>1. \A r \in Receipts : receipt[r].state = "absent" /\ ledger[ReceiptRef(r)] = {}
  BY RefsDistinct DEF Init
<1>2. LockedExist
  BY DEF Init, LockedExist, Locks, Idle
<1> QED
  BY <1>1, <1>2 DEF ReceiptsInv, ReceiptsMatchEntries

LEMMA ReceiptsNext == TypeOK /\ ReceiptsInv /\ [Next]_vars => ReceiptsInv'
<1> SUFFICES ASSUME TypeOK, ReceiptsInv, [Next]_vars PROVE ReceiptsMatchEntries'
  BY LockedNext DEF ReceiptsInv
<1>0. /\ ReceiptsMatchEntries
      /\ \A i \in Invoices : invoice[i].status = "deleted" => invoice'[i].status = "deleted"
      /\ \A r \in Receipts : receipt[r].invoice \in Invoices
  BY StatusNext DEF ReceiptsInv, TypeOK, Receipt
<1>1. ASSUME UNCHANGED <<receipt, ledger>> PROVE ReceiptsMatchEntries'
  BY <1>0, <1>1, ReceiptsUntouched
<1>2. ASSUME NEW u \in Users, Load(u) PROVE UNCHANGED <<receipt, ledger>>
  BY <1>2 DEF Load, CreateInvoice, UpdateInvoice, SubmitInvoice, ApproveInvoice, RejectInvoice,
              DeleteInvoice, FinalizeInvoice, VoidInvoice, CreateReceipt, Begin
<1>3. ASSUME NEW u \in Users,
             \/ WriteReview(u) \/ WriteEdit(u) \/ LockInvoice(u) \/ CommitAccounts(u)
             \/ SelectPrior(u) \/ SelectVoided(u) \/ Abort(u) \/ ChangePeriod(u)
      PROVE  UNCHANGED <<receipt, ledger>>
  BY <1>3 DEF WriteReview, WriteEdit, LockInvoice, CommitAccounts, SelectPrior, SelectVoided,
              Abort, ChangePeriod, ClosePeriod, ReopenPeriod
<1>4. ASSUME NEW u \in Users, WriteVoid(u) \/ PostInvoice(u) PROVE ReceiptsMatchEntries'
  <2>1. UNCHANGED receipt
    BY <1>4 DEF WriteVoid, PostInvoice
  <2>2. \A ref : ref # InvoiceRef(request[u].invoice) /\ ref \in Refs =>
                   ledger'[ref] = ledger[ref]
    BY <1>4 DEF WriteVoid, PostInvoice, Remove, Post, TypeOK
  <2> QED
    BY <1>0, <2>1, <2>2, RefsDistinct, ReceiptsUntouched
<1>5. ASSUME NEW u \in Users, WriteDelete(u) PROVE ReceiptsMatchEntries'
  <2> DEFINE i == request[u].invoice
  <2>1. /\ i \in Invoices /\ UNCHANGED ledger
        /\ invoice' = [invoice EXCEPT ![i].status = "deleted"]
        /\ receipt' = [x \in Receipts |->
                         IF receipt[x].invoice = i /\ receipt[x].state # "absent"
                           THEN [receipt[x] EXCEPT !.state = "deleted"] ELSE receipt[x]]
    BY <1>5, RequestFields DEF WriteDelete, TypeOK, Idle
  <2>2. invoice'[i].status = "deleted"
    BY <2>1 DEF TypeOK, Invoice
  <2>3. ASSUME NEW r \in Receipts
        PROVE  \/ receipt'[r] = receipt[r]
               \/ /\ receipt'[r].state = "deleted" /\ receipt'[r].invoice = receipt[r].invoice
                  /\ receipt[r].invoice = i
    BY <2>1 DEF TypeOK, Receipt
  <2> HIDE DEF i
  <2> QED
    BY <1>0, <2>1, <2>2, <2>3 DEF ReceiptsMatchEntries
<1>6. ASSUME NEW u \in Users, WriteReceipt(u) PROVE ReceiptsMatchEntries'
  <2>1. PICK x \in Receipts :
          /\ receipt[x].state = "absent"
          /\ receipt' = [receipt EXCEPT ![x] = [state |-> "live", invoice |-> request[u].invoice,
                                                amount |-> request[u].amount]]
          /\ Post(ReceiptRef(x), {}, [by |-> u, period |-> request[u].period,
                                      amount |-> request[u].amount])
    BY <1>6 DEF WriteReceipt
  <2>2. ledger'[ReceiptRef(x)] = ledger[ReceiptRef(x)]
           \cup {[by |-> u, period |-> request[u].period, amount |-> request[u].amount]}
    BY <2>1, RefsDistinct DEF Post, TypeOK
  <2>3. \A ref \in Refs : ref # ReceiptRef(x) => ledger'[ref] = ledger[ref]
    BY <2>1 DEF Post, TypeOK
  <2>4. receipt'[x].state = "live" /\ receipt'[x].amount = request[u].amount
        /\ (\A r \in Receipts : r # x => receipt'[r] = receipt[r])
        /\ UNCHANGED invoice
    BY <1>6, <2>1 DEF WriteReceipt, TypeOK
  <2> QED
    BY <1>0, <2>1, <2>2, <2>3, <2>4, RefsDistinct DEF ReceiptsMatchEntries
<1>7. ASSUME NEW u \in Users, DeleteReceipt(u) PROVE ReceiptsMatchEntries'
  <2>1. PICK x \in Receipts : receipt' = [receipt EXCEPT ![x].state = "deleted"]
                              /\ Erase(ReceiptRef(x))
    BY <1>7 DEF DeleteReceipt
  <2>2. receipt'[x].state = "deleted" /\ \A r \in Receipts : r # x => receipt'[r] = receipt[r]
    BY <2>1 DEF TypeOK, Receipt
  <2>3. /\ ledger'[ReceiptRef(x)] = {}
        /\ \A ref \in Refs : ref # ReceiptRef(x) => ledger'[ref] = ledger[ref]
    BY <2>1, RefsDistinct DEF Erase, TypeOK
  <2>4. UNCHANGED invoice
    BY <1>7 DEF DeleteReceipt
  <2> QED
    BY <1>0, <2>2, <2>3, <2>4, RefsDistinct DEF ReceiptsMatchEntries
<1>9. CASE UNCHANGED vars
  BY <1>9, <1>1 DEF vars
<1> QED
  BY <1>1, <1>2, <1>3, <1>4, <1>5, <1>6, <1>7, <1>9 DEF Next, Write

\* A receipt and its journal entry come and go together, however the requests
\* of any number of users overlap and whether or not the accounts exist.
THEOREM ReceiptsCorrect == Spec => []ReceiptsMatchEntries
<1>1. TypeOK /\ ReceiptsInv /\ [Next]_vars => TypeOK' /\ ReceiptsInv'
  BY TypeNext, ReceiptsNext
<1>2. ReceiptsInv => ReceiptsMatchEntries
  BY DEF ReceiptsInv
<1> QED
  BY <1>1, <1>2, TypeInit, ReceiptsInit, PTL DEF Spec

-----------------------------------------------------------------------------
(* One entry per document.  The invariant says why: when the accounts exist *)
(* every posting keeps its row lock from the selection of the prior entries *)
(* to its commit; at most one request holds the lock of an invoice, and the *)
(* entries it selected are still all there are.                             *)

BooksInv == LockHeld /\ OneEntryPerDocument /\ FinalizedHasEntry

\* Without the account-creating commit, the invariant needs no more than the
\* requests, the ledger and the status of the invoices.
LEMMA BooksUntouched ==
    ASSUME TypeOK, BooksInv, UNCHANGED <<accounts, ledger>>,
           \A u \in Users : request'[u] = request[u]
                            \/ request'[u].step \notin {"locked", "committed", "selected"},
           \A i \in Invoices : \/ invoice'[i].status = invoice[i].status
                               \/ invoice'[i].status = "deleted"
                               \/ invoice[i].status = "absent" /\ invoice'[i].status = "draft"
    PROVE  BooksInv'
<1>1. LockHeld'
  BY DEF BooksInv, LockHeld, Locks
<1>2. OneEntryPerDocument' /\ FinalizedHasEntry'
  BY DEF BooksInv, OneEntryPerDocument, FinalizedHasEntry
<1> QED
  BY <1>1, <1>2 DEF BooksInv

LEMMA BooksInit == Init => BooksInv
<1> SUFFICES ASSUME Init PROVE BooksInv
  OBVIOUS
<1>1. LockHeld
  BY DEF Init, LockHeld, Locks, Idle
<1>2. OneEntryPerDocument /\ FinalizedHasEntry
  BY RefsDistinct DEF Init, OneEntryPerDocument, FinalizedHasEntry
<1> QED
  BY <1>1, <1>2 DEF BooksInv

\* A chart is complete from the start or never: a posting adds the accounts.
LEMMA ChartKept == accounts # "complete" /\ [Next]_vars => accounts' # "complete"
<1> SUFFICES ASSUME accounts # "complete", [Next]_vars PROVE accounts' # "complete"
  OBVIOUS
<1>1. ASSUME NEW u \in Users, Load(u) PROVE UNCHANGED accounts
  BY <1>1 DEF Load, CreateInvoice, UpdateInvoice, SubmitInvoice, ApproveInvoice,
              RejectInvoice, DeleteInvoice, FinalizeInvoice, VoidInvoice, CreateReceipt, Begin
<1>2. ASSUME NEW u \in Users, Write(u) PROVE accounts' \in {accounts, "added"}
  BY <1>2 DEF Write, WriteReview, WriteEdit, WriteDelete, SelectVoided, WriteVoid,
              LockInvoice, CommitAccounts, SelectPrior, PostInvoice, WriteReceipt
<1>3. ASSUME NEW u \in Users, Abort(u) \/ DeleteReceipt(u) \/ ChangePeriod(u)
      PROVE  UNCHANGED accounts
  BY <1>3 DEF Abort, DeleteReceipt, ChangePeriod
<1> QED
  BY <1>1, <1>2, <1>3 DEF Next, vars

LEMMA BooksNext ==
    TypeOK /\ ReceiptsInv /\ BooksInv /\ [Next]_vars => BooksInv'
<1>0. ASSUME accounts # "complete", [Next]_vars PROVE BooksInv'
  BY <1>0, ChartKept DEF BooksInv, LockHeld, OneEntryPerDocument, FinalizedHasEntry
<1> SUFFICES ASSUME TypeOK, ReceiptsInv, BooksInv, [Next]_vars,
                    accounts = "complete"
             PROVE  BooksInv'
  BY <1>0
<1>1. ASSUME NEW u \in Users, Done(u)
      PROVE  request'[u] = Idle /\ \A v \in Users : v # u => request'[v] = request[v]
  BY <1>1 DEF Done, TypeOK
<1>2. ASSUME NEW u \in Users, Load(u) PROVE BooksInv'
  <2>1. UNCHANGED <<accounts, ledger>>
    BY <1>2 DEF Load, CreateInvoice, UpdateInvoice, SubmitInvoice, ApproveInvoice,
                RejectInvoice, DeleteInvoice, FinalizeInvoice, VoidInvoice, CreateReceipt, Begin
  <2>2. CASE CreateInvoice(u)
    <3>1. UNCHANGED request
      BY <2>2 DEF CreateInvoice
    <3>2. PICK i \in Invoices, a \in Amounts, p \in Periods :
            /\ invoice[i].status = "absent"
            /\ invoice' = [invoice EXCEPT
                 ![i] = Initialize([invoice[i] EXCEPT !.status = "draft",
                                      !.lines = {[author |-> u, amount |-> a]}, !.period = p],
                                   NeedsApproval({[author |-> u, amount |-> a]}), u)]
      BY <2>2 DEF CreateInvoice
    <3>3. invoice'[i].status = "draft" /\ \A j \in Invoices : j # i => invoice'[j] = invoice[j]
      BY <3>2 DEF Initialize, TypeOK, Invoice
    <3> QED
      BY <2>1, <3>1, <3>2, <3>3, BooksUntouched
  <2>3. CASE ~CreateInvoice(u)
    <3>1. UNCHANGED invoice /\ \E r : request' = [request EXCEPT ![u] = r]
      BY <1>2, <2>3 DEF Load, UpdateInvoice, SubmitInvoice, ApproveInvoice, RejectInvoice,
                        DeleteInvoice, FinalizeInvoice, VoidInvoice, CreateReceipt, Begin
    <3>2. UpdateInvoice(u) => request'[u].step = "edit"
      BY DEF UpdateInvoice, Begin, TypeOK
    <3>3. SubmitInvoice(u) => request'[u].step = "submit"
      BY DEF SubmitInvoice, Begin, TypeOK
    <3>4. ApproveInvoice(u) => request'[u].step = "approve"
      BY DEF ApproveInvoice, Begin, TypeOK
    <3>5. RejectInvoice(u) => request'[u].step = "reject"
      BY DEF RejectInvoice, Begin, TypeOK
    <3>6. DeleteInvoice(u) \/ VoidInvoice(u) => request'[u].step \in {"delete", "void"}
      BY DEF DeleteInvoice, VoidInvoice, Begin, TypeOK
    <3>7. FinalizeInvoice(u) \/ CreateReceipt(u) => request'[u].step \in {"finalize", "receipt"}
      BY DEF FinalizeInvoice, CreateReceipt, Begin, TypeOK
    <3>8. request'[u].step \notin {"locked", "committed", "selected"}
      BY <1>2, <2>3, <3>2, <3>3, <3>4, <3>5, <3>6, <3>7 DEF Load
    <3>9. \A v \in Users : v # u => request'[v] = request[v]
      BY <3>1 DEF TypeOK
    <3> QED
      BY <2>1, <3>1, <3>8, <3>9, BooksUntouched
  <2> QED
    BY <2>2, <2>3
<1>3. ASSUME NEW u \in Users, WriteReview(u) \/ WriteEdit(u) \/ WriteDelete(u) PROVE BooksInv'
  <2>1. Done(u) /\ UNCHANGED <<accounts, ledger>>
    BY <1>3 DEF WriteReview, WriteEdit, WriteDelete
  <2>2. \A i \in Invoices : invoice'[i].status \in {invoice[i].status, "deleted"}
    <3>1. CASE WriteReview(u)
      BY <3>1 DEF WriteReview, Patched, TypeOK, Invoice
    <3>2. CASE WriteEdit(u)
      BY <3>2 DEF WriteEdit, Patched, TypeOK, Invoice
    <3>3. CASE WriteDelete(u)
      BY <3>3 DEF WriteDelete, TypeOK, Invoice
    <3> QED
      BY <1>3, <3>1, <3>2, <3>3
  <2> QED
    BY <2>1, <2>2, <1>1, BooksUntouched DEF Idle
<1>4. ASSUME NEW u \in Users, WriteVoid(u) PROVE BooksInv'
  <2> DEFINE i == request[u].invoice
  <2>1. /\ Done(u) /\ UNCHANGED accounts /\ Unlocked(i) /\ i \in Invoices
        /\ ledger' = [ledger EXCEPT ![InvoiceRef(i)] = ledger[InvoiceRef(i)] \ request[u].prior]
        /\ invoice' = [invoice EXCEPT ![i].status = "void"]
    BY <1>4, RequestFields DEF WriteVoid, Remove, TypeOK, Idle
  <2>2. /\ ledger'[InvoiceRef(i)] \subseteq ledger[InvoiceRef(i)]
        /\ \A ref \in Refs : ref # InvoiceRef(i) => ledger'[ref] = ledger[ref]
    BY <2>1, RefsDistinct DEF TypeOK
  <2>3. invoice'[i].status = "void" /\ \A j \in Invoices : j # i => invoice'[j] = invoice[j]
    BY <2>1 DEF TypeOK, Invoice
  <2>4. LockHeld'
    BY <2>1, <2>2, <1>1, RefsDistinct DEF BooksInv, LockHeld, Locks, Unlocked, Idle
  <2>5. OneEntryPerDocument'
    BY <2>1, <2>2, RefsDistinct DEF BooksInv, OneEntryPerDocument
  <2>6. FinalizedHasEntry'
    BY <2>2, <2>3, RefsDistinct DEF BooksInv, FinalizedHasEntry
  <2> QED
    BY <2>4, <2>5, <2>6 DEF BooksInv
<1>5. ASSUME NEW u \in Users, LockInvoice(u) PROVE BooksInv'
  <2> DEFINE i == request[u].invoice
  <2>1. /\ i \in Invoices /\ Unlocked(i) /\ UNCHANGED <<accounts, ledger, invoice>>
        /\ request'[u].step = "locked" /\ request'[u].invoice = i
        /\ request'[u].prior = ledger[InvoiceRef(i)]
        /\ \A v \in Users : v # u => request'[v] = request[v]
    BY <1>5, RequestFields DEF LockInvoice, TypeOK, Idle
  <2>2. LockHeld'
    BY <2>1, RefsDistinct DEF BooksInv, LockHeld, Locks, Unlocked
  <2> QED
    BY <2>1, <2>2 DEF BooksInv, OneEntryPerDocument, FinalizedHasEntry
<1>6. ASSUME NEW u \in Users PROVE ~CommitAccounts(u) /\ ~SelectPrior(u)
  BY DEF BooksInv, LockHeld, CommitAccounts, SelectPrior
<1>7. ASSUME NEW u \in Users, PostInvoice(u) PROVE BooksInv'
  <2> DEFINE i == request[u].invoice
             e == [by |-> u, period |-> request[u].period, amount |-> request[u].amount]
  <2>1. request[u].step = "locked"
    BY <1>7 DEF BooksInv, LockHeld, PostInvoice
  <2>2. i \in Invoices /\ Locks(u, i) /\ request[u].prior = ledger[InvoiceRef(i)]
    BY <2>1, RequestFields DEF BooksInv, LockHeld, Locks, TypeOK, Idle
  <2>3. /\ Done(u) /\ UNCHANGED accounts
        /\ invoice' = [invoice EXCEPT ![i].status = "finalized"]
        /\ Post(InvoiceRef(i), request[u].prior, e)
    BY <1>7, <2>1 DEF PostInvoice
  <2>4. /\ ledger'[InvoiceRef(i)] = {e}
        /\ \A ref \in Refs : ref # InvoiceRef(i) => ledger'[ref] = ledger[ref]
    BY <2>2, <2>3, RefsDistinct DEF Post, TypeOK
  <2>5. invoice'[i].status = "finalized" /\ \A j \in Invoices : j # i => invoice'[j] = invoice[j]
    BY <2>2, <2>3 DEF TypeOK, Invoice
  <2>6. LockHeld'
    BY <2>2, <2>3, <2>4, <1>1, RefsDistinct DEF BooksInv, LockHeld, Locks, Idle
  <2>7. OneEntryPerDocument'
    BY <2>4 DEF BooksInv, OneEntryPerDocument
  <2>8. FinalizedHasEntry'
    BY <2>4, <2>5, RefsDistinct DEF BooksInv, FinalizedHasEntry
  <2> QED
    BY <2>6, <2>7, <2>8 DEF BooksInv
<1>8. ASSUME NEW x \in Receipts, NEW ref \in {ReceiptRef(x)},
             \A e, f \in ledger'[ref] : e = f,
             \A o \in Refs : o # ref => ledger'[o] = ledger[o],
             accounts' = accounts, invoice' = invoice,
             \A v \in Users : request'[v] = request[v] \/ request'[v] = Idle
      PROVE  BooksInv'
  <2>2. \A i \in Invoices : ledger'[InvoiceRef(i)] = ledger[InvoiceRef(i)]
    BY <1>8, RefsDistinct
  <2>3. LockHeld'
    BY <1>8, <2>2 DEF BooksInv, LockHeld, Locks, Idle
  <2>4. OneEntryPerDocument'
    BY <1>8 DEF BooksInv, OneEntryPerDocument
  <2>5. FinalizedHasEntry'
    BY <1>8, <2>2 DEF BooksInv, FinalizedHasEntry
  <2> QED
    BY <2>3, <2>4, <2>5 DEF BooksInv
<1>9. ASSUME NEW u \in Users, WriteReceipt(u) PROVE BooksInv'
  <2>1. PICK x \in Receipts :
          /\ receipt[x].state = "absent"
          /\ Post(ReceiptRef(x), {}, [by |-> u, period |-> request[u].period,
                                      amount |-> request[u].amount])
    BY <1>9 DEF WriteReceipt
  <2>2. ledger[ReceiptRef(x)] = {}
    BY <2>1 DEF ReceiptsInv, ReceiptsMatchEntries
  <2>3. /\ \A e, f \in ledger'[ReceiptRef(x)] : e = f
        /\ \A o \in Refs : o # ReceiptRef(x) => ledger'[o] = ledger[o]
    BY <2>1, <2>2, RefsDistinct DEF Post, TypeOK
  <2>4. /\ accounts' = accounts /\ invoice' = invoice
        /\ \A v \in Users : request'[v] = request[v] \/ request'[v] = Idle
    BY <1>9, <1>1 DEF WriteReceipt
  <2> QED
    BY <2>3, <2>4, <1>8
<1>10. ASSUME NEW u \in Users, DeleteReceipt(u) PROVE BooksInv'
  <2>1. PICK x \in Receipts : ledger' = [ledger EXCEPT ![ReceiptRef(x)] = {}]
    BY <1>10 DEF DeleteReceipt, Erase
  <2>2. /\ \A e, f \in ledger'[ReceiptRef(x)] : e = f
        /\ \A o \in Refs : o # ReceiptRef(x) => ledger'[o] = ledger[o]
    BY <2>1, RefsDistinct DEF TypeOK
  <2>3. accounts' = accounts /\ invoice' = invoice /\ request' = request
    BY <1>10 DEF DeleteReceipt
  <2> QED
    BY <2>2, <2>3, <1>8
<1>11. ASSUME NEW u \in Users, SelectVoided(u) PROVE BooksInv'
  <2>1. /\ UNCHANGED <<accounts, ledger, invoice>> /\ request'[u].step = "voiding"
        /\ \A v \in Users : v # u => request'[v] = request[v]
    BY <1>11 DEF SelectVoided, TypeOK
  <2> QED
    BY <2>1, BooksUntouched
<1>12. ASSUME NEW u \in Users, Abort(u) PROVE BooksInv'
  BY <1>12, <1>1, BooksUntouched DEF Abort, Idle
<1>13. ASSUME NEW u \in Users, ChangePeriod(u) PROVE BooksInv'
  BY <1>13, BooksUntouched DEF ChangePeriod, ClosePeriod, ReopenPeriod
<1>14. CASE UNCHANGED vars
  BY <1>14, BooksUntouched DEF vars
<1> QED
  BY <1>2, <1>3, <1>4, <1>5, <1>6, <1>7, <1>9, <1>10, <1>11, <1>12, <1>13, <1>14 DEF Next, Write

\* When the chart of accounts is complete, no document is ever in the ledger
\* twice, whatever requests overlap.
THEOREM NeverPostedTwice == Spec => []OneEntryPerDocument
<1>1. TypeOK /\ ReceiptsInv /\ BooksInv /\ [Next]_vars => TypeOK' /\ ReceiptsInv' /\ BooksInv'
  BY TypeNext, ReceiptsNext, BooksNext
<1>2. BooksInv => OneEntryPerDocument
  BY DEF BooksInv
<1> QED
  BY <1>1, <1>2, TypeInit, ReceiptsInit, BooksInit, PTL DEF Spec

\* ... and a finalized invoice is in the ledger and a draft is not. (A void one
\* may be: a posting can commit after the void selected what it deletes.)
THEOREM FinalizedEntered == Spec => []FinalizedHasEntry
<1>1. TypeOK /\ ReceiptsInv /\ BooksInv /\ [Next]_vars => TypeOK' /\ ReceiptsInv' /\ BooksInv'
  BY TypeNext, ReceiptsNext, BooksNext
<1>2. BooksInv => FinalizedHasEntry
  BY DEF BooksInv
<1> QED
  BY <1>1, <1>2, TypeInit, ReceiptsInit, BooksInit, PTL DEF Spec

-----------------------------------------------------------------------------
(* One request at a time: what the review and the ledger promise when no    *)
(* two requests overlap.                                                     *)

\* At most one request is under way.
OneRequest == \A u, v \in Users : request[u] # Idle /\ request[v] # Idle => u = v

\* The row u's request is going to leave behind.
Outcome(u) == Patched(invoice[request[u].invoice], request[u].patch)

\* What a request decided when it loaded the invoice still holds of the row it
\* will write to.
StillTrue(u) ==
    LET r == request[u]  row == invoice[r.invoice]
        reviewed == IF NeedsApproval(row.lines) THEN "pending" ELSE "not_required"
    IN
    /\ r.step = "edit" => /\ row.status = "draft"
                          /\ r.dropped = row.lines
                          /\ Outcome(u).approval =
                               IF NeedsApproval(r.added) THEN "pending" ELSE "not_required"
    /\ r.step = "submit" => /\ row.status = "draft"
                            /\ Outcome(u).approval = reviewed
    /\ r.step \in {"approve", "reject"} => row.approval = "pending"
    /\ r.step = "approve" => /\ r.lines = row.lines
                             /\ Outcome(u).approval = "approved"
                             /\ DifferentPerson(Outcome(u), Outcome(u).approver)
    /\ r.step = "reject" => Outcome(u).approval = "rejected"
    /\ r.step = "delete" => row.status = "draft"
    /\ r.step \in {"void", "voiding"} => row.status = "finalized"
    /\ r.step = "voiding" => r.prior = ledger[InvoiceRef(r.invoice)]
    /\ r.step \in {"finalize", "locked"} =>
         row.status = "draft" /\ row.approval \in {"not_required", "approved"}
    /\ r.step \in {"finalize", "locked", "committed", "selected"} =>
         r.period = row.period /\ r.amount = Total(row.lines)
    /\ r.step \in {"locked", "selected", "receipt"} => IsOpen(r.period)

\* The review state of an invoice is that of its lines.
Reviewed(i) ==
    LET row == invoice[i] IN
    row.status \in {"draft", "finalized"} =>
      /\ row.approval = "not_required" => ~NeedsApproval(row.lines)
      /\ row.approval = "approved" => DifferentPerson(row, row.approver) /\ signed[i] = row.lines
      /\ row.status = "finalized" => row.approval \in {"not_required", "approved"}

SerialInv == OneRequest /\ (\A u \in Users : StillTrue(u)) /\ \A i \in Invoices : Reviewed(i)

\* With the AR accounts in the chart: what the ledger carries for an invoice.
InLedger(i) ==
    IF invoice[i].status = "finalized"
      THEN \E e \in ledger[InvoiceRef(i)] :
             e.amount = Total(invoice[i].lines) /\ e.period = invoice[i].period
      ELSE ledger[InvoiceRef(i)] = {}

\* Writing the columns that changed leaves the row that was wanted.
LEMMA WantedIsWritten ==
    ASSUME NEW row \in Invoice, NEW want \in Invoice,
           want.status = row.status, want.lines = row.lines
    PROVE  Patched(row, Patch(row, want)) = want
<1>1. Keep \notin Periods /\ Keep \notin ApprovalStatus /\ Keep \notin Users \cup {NoUser}
  BY KeepAssumption
<1> QED
  BY <1>1 DEF Patched, Patch, Written, Changed, Invoice

\* A request that is not under way has nothing to keep true.
LEMMA IdleIsTrue == ASSUME NEW u \in Users, request[u] = Idle PROVE StillTrue(u)
BY DEF StillTrue, Idle

\* Served one at a time, a request begins when no other is under way.
LEMMA Begins ==
    ASSUME TypeOK, SerialInv, ~Overlap, NEW u \in Users, Free(u), NEW r, Begin(u, r),
           StillTrue(u)'
    PROVE  SerialInv'
<1>1. request'[u] = r /\ \A v \in Users : v # u => request[v] = Idle /\ request'[v] = Idle
  BY DEF Free, Begin, TypeOK
<1>2. OneRequest'
  BY <1>1 DEF OneRequest
<1>3. \A v \in Users : v # u => StillTrue(v)'
  BY <1>1, IdleIsTrue DEF StillTrue, Idle
<1>4. \A i \in Invoices : Reviewed(i)'
  BY DEF Begin, SerialInv, Reviewed, NeedsApproval
<1> QED
  BY <1>2, <1>3, <1>4 DEF SerialInv

\* ... and when it is over none is under way.
LEMMA Ends ==
    ASSUME TypeOK, SerialInv, NEW u \in Users, request[u] # Idle, Done(u),
           \A i \in Invoices : Reviewed(i)'
    PROVE  SerialInv'
<1>1. \A v \in Users : request'[v] = Idle
  BY DEF Done, SerialInv, OneRequest, TypeOK
<1>2. \A v \in Users : StillTrue(v)'
  BY <1>1 DEF StillTrue, Idle
<1> QED
  BY <1>1, <1>2 DEF SerialInv, OneRequest

LEMMA SerialInit == Init => SerialInv
<1> SUFFICES ASSUME Init PROVE SerialInv
  OBVIOUS
<1>1. OneRequest
  BY DEF Init, OneRequest
<1>2. \A u \in Users : StillTrue(u)
  BY IdleIsTrue DEF Init
<1>3. \A i \in Invoices : Reviewed(i)
  BY DEF Init, Reviewed
<1> QED
  BY <1>1, <1>2, <1>3 DEF SerialInv

\* What a load decides holds of the row it has just read.
LEMMA SerialLoad ==
    ASSUME TypeOK, SerialInv, ~Overlap, NEW u \in Users, Load(u)
    PROVE  SerialInv'
<1>1. \A i \in Invoices : invoice[i] \in Invoice /\ Reviewed(i)
  BY DEF TypeOK, SerialInv
<1>2. \A S : NeedsApproval(S) \in BOOLEAN
  BY DEF NeedsApproval
<1>3. \A a \in Amounts : [author |-> u, amount |-> a] \in Line
  BY DEF Line
<1>4. \A r : Begin(u, r) => request'[u] = r /\ UNCHANGED <<invoice, receipt, period, signed>>
  BY DEF Begin, TypeOK
<1>5. CASE CreateInvoice(u)
  <2>1. PICK i \in Invoices, a \in Amounts, p \in Periods :
          LET line == [author |-> u, amount |-> a]
              row  == [invoice[i] EXCEPT !.status = "draft", !.lines = {line}, !.period = p]
          IN invoice' = [invoice EXCEPT ![i] = Initialize(row, NeedsApproval({line}), u)]
    BY <1>5 DEF CreateInvoice
  <2> DEFINE line == [author |-> u, amount |-> a]
  <2>2. /\ invoice'[i].lines = {line}
        /\ invoice'[i].status = "draft"
        /\ invoice'[i].approval = IF NeedsApproval({line}) THEN "pending" ELSE "not_required"
        /\ \A j \in Invoices : j # i => invoice'[j] = invoice[j]
    BY <2>1, <1>1 DEF TypeOK, Initialize, Invoice
  <2>3. \A j \in Invoices : Reviewed(j)'
    BY <2>2, <1>1, <1>5 DEF Reviewed, CreateInvoice, NeedsApproval
  <2>4. \A v \in Users : request[v] = Idle /\ request'[v] = Idle
    BY <1>5 DEF CreateInvoice, Free, TypeOK
  <2>5. \A v \in Users : StillTrue(v)'
    BY <2>4 DEF StillTrue, Idle
  <2> QED
    BY <2>3, <2>4, <2>5 DEF SerialInv, OneRequest
<1>6. CASE UpdateInvoice(u)
  <2>1. PICK i \in Invoices, a \in Amounts, p \in Periods :
          LET row  == invoice[i]
              line == [author |-> u, amount |-> a]
              want == Initialize([row EXCEPT !.period = p], NeedsApproval({line}), u)
          IN /\ row.status = "draft"
             /\ Begin(u, [step |-> "edit", invoice |-> i, patch |-> Patch(row, want),
                          dropped |-> row.lines, added |-> {line}])
    BY <1>6 DEF UpdateInvoice
  <2> DEFINE line == [author |-> u, amount |-> a]
             want == Initialize([invoice[i] EXCEPT !.period = p], NeedsApproval({line}), u)
  <2>2. [invoice[i] EXCEPT !.period = p] \in Invoice
    BY <1>1 DEF Invoice
  <2>3. want \in Invoice
    BY <2>2, <1>2, RowTypes
  <2>4. /\ want.status = invoice[i].status /\ want.lines = invoice[i].lines
        /\ want.approval = IF NeedsApproval({line}) THEN "pending" ELSE "not_required"
    BY <1>1 DEF Initialize, Invoice
  <2>5. Patched(invoice[i], Patch(invoice[i], want)) = want
    BY <2>3, <2>4, <1>1, WantedIsWritten
  <2> HIDE DEF want
  <2>6. StillTrue(u)'
    BY <2>1, <2>4, <2>5, <1>4 DEF StillTrue, Outcome, NeedsApproval, want
  <2> QED
    BY <2>1, <2>6, <1>6, Begins DEF UpdateInvoice
<1>7. CASE SubmitInvoice(u)
  <2>1. PICK i \in Invoices :
          LET row == invoice[i]  needed == NeedsApproval(row.lines)
          IN /\ row.status = "draft"
             /\ MaySubmit(row, needed)
             /\ Begin(u, [step |-> "submit", invoice |-> i,
                          patch |-> Patch(row, Submit(row, needed, u))])
    BY <1>7 DEF SubmitInvoice
  <2> DEFINE want == Submit(invoice[i], NeedsApproval(invoice[i].lines), u)
  <2>2. want \in Invoice
    BY <1>1, <1>2, RowTypes
  <2>3. /\ want.status = invoice[i].status /\ want.lines = invoice[i].lines
        /\ want.approval = IF NeedsApproval(invoice[i].lines) THEN "pending" ELSE "not_required"
    BY <1>1 DEF Submit, Invoice
  <2>4. Patched(invoice[i], Patch(invoice[i], want)) = want
    BY <2>2, <2>3, <1>1, WantedIsWritten
  <2> HIDE DEF want
  <2>5. StillTrue(u)'
    BY <2>1, <2>3, <2>4, <1>4 DEF StillTrue, Outcome, NeedsApproval, want
  <2> QED
    BY <2>1, <2>5, <1>7, Begins DEF SubmitInvoice
<1>8. CASE ApproveInvoice(u)
  <2>1. PICK i \in Invoices :
          LET row == invoice[i]
          IN /\ MayReview(row, u)
             /\ Begin(u, [step |-> "approve", invoice |-> i,
                          patch |-> Patch(row, Approve(row, u)), lines |-> row.lines])
    BY <1>8 DEF ApproveInvoice
  <2> DEFINE want == Approve(invoice[i], u)
  <2>2. want \in Invoice
    BY <1>1, RowTypes
  <2>3. /\ want.status = invoice[i].status /\ want.lines = invoice[i].lines
        /\ want.approval = "approved" /\ want.approver = u /\ DifferentPerson(want, u)
    BY <2>1, <1>1 DEF Approve, Invoice, MayReview, DifferentPerson
  <2>4. Patched(invoice[i], Patch(invoice[i], want)) = want
    BY <2>2, <2>3, <1>1, WantedIsWritten
  <2> HIDE DEF want
  <2>5. StillTrue(u)'
    BY <2>1, <2>3, <2>4, <1>4 DEF StillTrue, Outcome, MayReview, want
  <2> QED
    BY <2>1, <2>5, <1>8, Begins DEF ApproveInvoice
<1>9. CASE RejectInvoice(u)
  <2>1. PICK i \in Invoices :
          LET row == invoice[i]
          IN /\ MayReview(row, u)
             /\ Begin(u, [step |-> "reject", invoice |-> i, patch |-> Patch(row, Reject(row))])
    BY <1>9 DEF RejectInvoice
  <2> DEFINE want == Reject(invoice[i])
  <2>2. want \in Invoice
    BY <1>1, RowTypes
  <2>3. /\ want.status = invoice[i].status /\ want.lines = invoice[i].lines
        /\ want.approval = "rejected"
    BY <1>1 DEF Reject, Invoice
  <2>4. Patched(invoice[i], Patch(invoice[i], want)) = want
    BY <2>2, <2>3, <1>1, WantedIsWritten
  <2> HIDE DEF want
  <2>5. StillTrue(u)'
    BY <2>1, <2>3, <2>4, <1>4 DEF StillTrue, Outcome, MayReview, want
  <2> QED
    BY <2>1, <2>5, <1>9, Begins DEF RejectInvoice
<1>10. CASE DeleteInvoice(u)
  <2>1. PICK i \in Invoices : /\ invoice[i].status = "draft"
                              /\ Begin(u, [step |-> "delete", invoice |-> i])
    BY <1>10 DEF DeleteInvoice
  <2>2. StillTrue(u)'
    BY <2>1, <1>4 DEF StillTrue
  <2> QED
    BY <2>1, <2>2, <1>10, Begins DEF DeleteInvoice
<1>11. CASE FinalizeInvoice(u)
  <2>1. PICK i \in Invoices :
          /\ invoice[i].status = "draft" /\ Postable(invoice[i])
          /\ Begin(u, [step |-> "finalize", invoice |-> i, period |-> invoice[i].period,
                       amount |-> Total(invoice[i].lines)])
    BY <1>11 DEF FinalizeInvoice
  <2>2. StillTrue(u)'
    BY <2>1, <1>4 DEF StillTrue, Postable
  <2> QED
    BY <2>1, <2>2, <1>11, Begins DEF FinalizeInvoice
<1>12. CASE VoidInvoice(u)
  <2>1. PICK i \in Invoices : /\ invoice[i].status = "finalized"
                              /\ Begin(u, [step |-> "void", invoice |-> i])
    BY <1>12 DEF VoidInvoice
  <2>2. StillTrue(u)'
    BY <2>1, <1>4 DEF StillTrue
  <2> QED
    BY <2>1, <2>2, <1>12, Begins DEF VoidInvoice
<1>13. CASE CreateReceipt(u)
  <2>1. PICK i \in Invoices, a \in Amounts, p \in Periods :
          /\ IsOpen(p)
          /\ Begin(u, [step |-> "receipt", invoice |-> i, period |-> p, amount |-> a])
    BY <1>13 DEF CreateReceipt
  <2>2. StillTrue(u)'
    BY <2>1, <1>4 DEF StillTrue, IsOpen
  <2> QED
    BY <2>1, <2>2, <1>13, Begins DEF CreateReceipt
<1> QED
  BY <1>5, <1>6, <1>7, <1>8, <1>9, <1>10, <1>11, <1>12, <1>13 DEF Load

\* A request that goes on to its next step stays the only one.
LEMMA GoesOn ==
    ASSUME TypeOK, SerialInv, NEW u \in Users, request[u] # Idle,
           \A v \in Users : v # u => request'[v] = request[v],
           StillTrue(u)', \A i \in Invoices : Reviewed(i)'
    PROVE  SerialInv'
<1>1. \A v \in Users : v # u => request[v] = Idle /\ request'[v] = Idle
  BY DEF SerialInv, OneRequest
<1>2. OneRequest'
  BY <1>1 DEF OneRequest
<1>3. \A v \in Users : v # u => StillTrue(v)'
  BY <1>1 DEF StillTrue, Idle
<1> QED
  BY <1>2, <1>3 DEF SerialInv

\* The writes leave every invoice reviewed as its lines require.
LEMMA SerialWrite ==
    ASSUME TypeOK, SerialInv, NEW u \in Users, Write(u)
    PROVE  SerialInv'
<1> DEFINE r == request[u]
<1>1. /\ \A j \in Invoices : invoice[j] \in Invoice /\ Reviewed(j)
      /\ r \in Request /\ StillTrue(u)
  BY DEF TypeOK, SerialInv
<1>2. PICK i \in Invoices :
        /\ r.step # "idle" => r # Idle /\ i = r.invoice
        /\ r.step \in {"edit", "submit", "approve", "reject"} => r.patch \in PatchType
  BY <1>1, RequestFields, SomeAssumption DEF Idle
<1> HIDE DEF r
<1>3. ASSUME NEW j \in Invoices, invoice'[j] = invoice[j], signed'[j] = signed[j]
      PROVE  Reviewed(j)'
  BY <1>1, <1>3 DEF Reviewed, NeedsApproval
<1>4. CASE WriteReview(u)
  <2>1. /\ r.step \in {"submit", "approve", "reject"} /\ r # Idle /\ Done(u) /\ i \in Invoices
        /\ invoice' = [invoice EXCEPT ![i] = Outcome(u)]
        /\ signed' = IF r.step = "approve" THEN [signed EXCEPT ![i] = r.lines] ELSE signed
    BY <1>4, <1>2 DEF WriteReview, Outcome, r
  <2>2. /\ invoice'[i] = Outcome(u)
        /\ Outcome(u).status = invoice[i].status /\ Outcome(u).lines = invoice[i].lines
        /\ \A j \in Invoices : j # i => invoice'[j] = invoice[j] /\ signed'[j] = signed[j]
        /\ signed'[i] = IF r.step = "approve" THEN r.lines ELSE signed[i]
    BY <2>1, <1>2 DEF TypeOK, Outcome, Patched, r
  <2>3. ASSUME r.step = "submit" PROVE Reviewed(i)'
    <3>1. Outcome(u).approval
            = (IF NeedsApproval(invoice[i].lines) THEN "pending" ELSE "not_required")
          /\ invoice[i].status = "draft"
      BY <2>3, <1>1, <1>2 DEF StillTrue, r
    <3> QED
      BY <3>1, <2>2 DEF Reviewed, NeedsApproval
  <2>4. ASSUME r.step = "approve" PROVE Reviewed(i)'
    <3>1. /\ Outcome(u).approval = "approved" /\ r.lines = invoice[i].lines
          /\ DifferentPerson(Outcome(u), Outcome(u).approver)
          /\ invoice[i].approval = "pending"
      BY <2>4, <1>1, <1>2 DEF StillTrue, r
    <3>2. invoice[i].status # "finalized"
      BY <3>1, <2>1, <1>1 DEF Reviewed
    <3> QED
      BY <3>1, <3>2, <2>2, <2>4 DEF Reviewed, DifferentPerson
  <2>5. ASSUME r.step = "reject" PROVE Reviewed(i)'
    <3>1. Outcome(u).approval = "rejected" /\ invoice[i].approval = "pending"
      BY <2>5, <1>1, <1>2 DEF StillTrue, r
    <3>2. invoice[i].status # "finalized"
      BY <3>1, <2>1, <1>1 DEF Reviewed
    <3> QED
      BY <3>1, <3>2, <2>2 DEF Reviewed
  <2>6. Reviewed(i)'
    BY <2>1, <2>3, <2>4, <2>5
  <2>7. \A j \in Invoices : Reviewed(j)'
    BY <2>2, <2>6, <1>3
  <2> QED
    BY <2>1, <2>7, Ends DEF r
<1>5. CASE WriteEdit(u)
  <2>1. /\ r.step = "edit" /\ r # Idle /\ Done(u) /\ i \in Invoices /\ UNCHANGED signed
        /\ invoice' = [invoice EXCEPT
             ![i] = [Outcome(u) EXCEPT !.lines = (Outcome(u).lines \ r.dropped) \cup r.added]]
    BY <1>5, <1>2 DEF WriteEdit, Outcome, r
  <2>2. Outcome(u) \in Invoice
    BY <2>1, <1>1, <1>2, RowTypes DEF Outcome, r
  <2>3. /\ invoice'[i].status = "draft" /\ invoice'[i].lines = r.added
        /\ invoice'[i].approval = IF NeedsApproval(r.added) THEN "pending" ELSE "not_required"
        /\ \A j \in Invoices : j # i => invoice'[j] = invoice[j]
    BY <2>1, <2>2, <1>1, <1>2 DEF TypeOK, Invoice, StillTrue, Outcome, Patched, r
  <2>4. Reviewed(i)'
    BY <2>3 DEF Reviewed, NeedsApproval
  <2>5. \A j \in Invoices : Reviewed(j)'
    BY <2>1, <2>3, <2>4, <1>3
  <2> QED
    BY <2>1, <2>5, Ends DEF r
<1>6. CASE WriteDelete(u) \/ WriteVoid(u)
  <2>1. /\ r.step # "idle" /\ Done(u) /\ UNCHANGED signed
        /\ \E s \in {"deleted", "void"} : invoice' = [invoice EXCEPT ![i].status = s]
    BY <1>6, <1>2 DEF WriteDelete, WriteVoid, r
  <2>2. /\ invoice'[i].status \in {"deleted", "void"}
        /\ \A j \in Invoices : j # i => invoice'[j] = invoice[j]
    BY <2>1, <1>1, <1>2 DEF TypeOK, Invoice
  <2>3. Reviewed(i)'
    BY <2>2 DEF Reviewed
  <2>4. \A j \in Invoices : Reviewed(j)'
    BY <2>1, <2>2, <2>3, <1>3
  <2> QED
    BY <2>1, <2>4, <1>2, Ends DEF r
<1>7. CASE LockInvoice(u)
  <2>1. /\ r.step = "finalize" /\ IsOpen(r.period)
        /\ UNCHANGED <<period, invoice, signed>>
        /\ request'[u] = [step |-> "locked", invoice |-> i, period |-> r.period,
                          amount |-> r.amount, prior |-> ledger[InvoiceRef(i)]]
        /\ \A v \in Users : v # u => request'[v] = request[v]
    BY <1>7, <1>2 DEF LockInvoice, TypeOK, r
  <2>2. StillTrue(u)'
    BY <2>1, <1>1, <1>2 DEF StillTrue, IsOpen, r
  <2>3. \A j \in Invoices : Reviewed(j)'
    BY <2>1, <1>3
  <2> QED
    BY <2>1, <2>2, <2>3, <1>2, GoesOn DEF r
<1>8. CASE CommitAccounts(u)
  <2>1. /\ r.step = "finalize" /\ i \in Invoices /\ UNCHANGED signed
        /\ invoice' = [invoice EXCEPT ![i].status = "finalized"]
        /\ request' = [request EXCEPT ![u].step = "committed"]
    BY <1>8, <1>2 DEF CommitAccounts, r
  <2>2. /\ r.period = invoice[i].period /\ r.amount = Total(invoice[i].lines)
        /\ invoice[i].status = "draft" /\ invoice[i].approval \in {"not_required", "approved"}
    BY <2>1, <1>1, <1>2 DEF StillTrue, r
  <2>3. r \in [step : {"finalize", "committed"}, invoice : Invoices, period : Periods,
               amount : Totals]
    BY <2>1, <1>1 DEF Request, Idle
  <2>4. /\ request'[u].step = "committed" /\ request'[u].invoice = i
        /\ request'[u].period = r.period /\ request'[u].amount = r.amount
        /\ \A v \in Users : v # u => request'[v] = request[v]
    BY <2>1, <2>3, <1>2 DEF TypeOK, r
  <2>5. /\ invoice'[i].status = "finalized" /\ invoice'[i].lines = invoice[i].lines
        /\ invoice'[i].period = invoice[i].period /\ invoice'[i].approval = invoice[i].approval
        /\ invoice'[i].approver = invoice[i].approver
        /\ invoice'[i].prepared = invoice[i].prepared
        /\ invoice'[i].submitted = invoice[i].submitted
        /\ \A j \in Invoices : j # i => invoice'[j] = invoice[j]
    BY <2>1, <1>1 DEF TypeOK, Invoice
  <2>6. StillTrue(u)'
    BY <2>2, <2>4, <2>5 DEF StillTrue
  <2>7. Reviewed(i)'
    BY <2>1, <2>2, <2>5, <1>1 DEF Reviewed, NeedsApproval, DifferentPerson
  <2>8. \A j \in Invoices : Reviewed(j)'
    BY <2>1, <2>5, <2>7, <1>3
  <2> QED
    BY <2>1, <2>4, <2>6, <2>8, <1>2, GoesOn DEF r
<1>9. CASE SelectPrior(u)
  <2>1. /\ r.step = "committed" /\ IsOpen(r.period)
        /\ UNCHANGED <<period, invoice, signed>>
        /\ request'[u] = [step |-> "selected", invoice |-> i, period |-> r.period,
                          amount |-> r.amount, prior |-> ledger[InvoiceRef(i)]]
        /\ \A v \in Users : v # u => request'[v] = request[v]
    BY <1>9, <1>2 DEF SelectPrior, TypeOK, r
  <2>2. StillTrue(u)'
    BY <2>1, <1>1, <1>2 DEF StillTrue, IsOpen, r
  <2>3. \A j \in Invoices : Reviewed(j)'
    BY <2>1, <1>3
  <2> QED
    BY <2>1, <2>2, <2>3, <1>2, GoesOn DEF r
<1>10. CASE PostInvoice(u)
  <2>1. /\ r.step \in {"locked", "selected"} /\ i \in Invoices /\ Done(u) /\ UNCHANGED signed
        /\ \/ r.step = "locked" /\ invoice' = [invoice EXCEPT ![i].status = "finalized"]
           \/ UNCHANGED invoice
    BY <1>10, <1>2 DEF PostInvoice, r
  <2>2. ASSUME r.step = "locked", invoice' = [invoice EXCEPT ![i].status = "finalized"]
        PROVE  \A j \in Invoices : Reviewed(j)'
    <3>1. invoice[i].status = "draft" /\ invoice[i].approval \in {"not_required", "approved"}
      BY <2>2, <1>1, <1>2 DEF StillTrue, r
    <3>2. /\ invoice'[i].status = "finalized" /\ invoice'[i].lines = invoice[i].lines
          /\ invoice'[i].approval = invoice[i].approval
          /\ invoice'[i].approver = invoice[i].approver
          /\ invoice'[i].prepared = invoice[i].prepared
          /\ invoice'[i].submitted = invoice[i].submitted
          /\ \A j \in Invoices : j # i => invoice'[j] = invoice[j]
      BY <2>1, <2>2, <1>1 DEF TypeOK, Invoice
    <3>3. Reviewed(i)'
      BY <2>1, <3>1, <3>2, <1>1 DEF Reviewed, NeedsApproval, DifferentPerson
    <3> QED
      BY <2>1, <3>2, <3>3, <1>3
  <2>3. \A j \in Invoices : Reviewed(j)'
    BY <2>1, <2>2, <1>3
  <2> QED
    BY <2>1, <2>3, <1>2, Ends DEF r
<1>11. CASE WriteReceipt(u)
  <2>1. r.step = "receipt" /\ Done(u) /\ UNCHANGED <<invoice, signed>>
    BY <1>11, <1>2 DEF WriteReceipt, r
  <2> QED
    BY <2>1, <1>2, <1>3, Ends DEF r
<1>12. CASE SelectVoided(u)
  <2>1. /\ r.step = "void" /\ UNCHANGED <<ledger, invoice, signed>>
        /\ request'[u] = [step |-> "voiding", invoice |-> i, prior |-> ledger[InvoiceRef(i)]]
        /\ \A v \in Users : v # u => request'[v] = request[v]
    BY <1>12, <1>2 DEF SelectVoided, TypeOK, r
  <2>2. StillTrue(u)'
    BY <2>1, <1>1, <1>2 DEF StillTrue, r
  <2>3. \A j \in Invoices : Reviewed(j)'
    BY <2>1, <1>3
  <2> QED
    BY <2>1, <2>2, <2>3, <1>2, GoesOn DEF r
<1> QED
  BY <1>4, <1>5, <1>6, <1>7, <1>8, <1>9, <1>10, <1>11, <1>12 DEF Write

LEMMA SerialNext ==
    ~Overlap /\ TypeOK /\ SerialInv /\ [Next]_vars => SerialInv'
<1> SUFFICES ASSUME ~Overlap, TypeOK, SerialInv, [Next]_vars PROVE SerialInv'
  OBVIOUS
<1>1. ASSUME UNCHANGED <<invoice, signed>> PROVE \A i \in Invoices : Reviewed(i)'
  BY <1>1 DEF SerialInv, Reviewed, NeedsApproval
<1>2. ASSUME NEW u \in Users, Abort(u) PROVE SerialInv'
  BY <1>1, <1>2, Ends DEF Abort
<1>3. ASSUME NEW u \in Users, DeleteReceipt(u) \/ ChangePeriod(u) PROVE SerialInv'
  <2>1. /\ \A v \in Users : request[v] = Idle /\ request'[v] = Idle
        /\ UNCHANGED <<invoice, signed>>
    BY <1>3 DEF DeleteReceipt, ChangePeriod, Free
  <2>2. \A v \in Users : StillTrue(v)'
    BY <2>1 DEF StillTrue, Idle
  <2> QED
    BY <2>1, <2>2, <1>1 DEF SerialInv, OneRequest
<1>4. CASE UNCHANGED vars
  <2>1. \A v \in Users : StillTrue(v)'
    BY <1>4 DEF vars, SerialInv, StillTrue, Outcome, NeedsApproval, IsOpen
  <2> QED
    BY <1>1, <1>4, <2>1 DEF vars, SerialInv, OneRequest
<1> QED
  BY <1>2, <1>3, <1>4, SerialLoad, SerialWrite DEF Next

\* Requests one at a time: what posted was below the threshold, or signed by
\* somebody who neither created nor submitted it and was shown its very lines.
THEOREM SignedOffCorrect == ~Overlap => (Spec => []PostedIsSignedOff)
<1> SUFFICES ASSUME ~Overlap PROVE Spec => []PostedIsSignedOff
  OBVIOUS
<1>1. TypeOK /\ SerialInv /\ [Next]_vars => TypeOK' /\ SerialInv'
  BY TypeNext, SerialNext
<1>2. SerialInv => PostedIsSignedOff
  BY DEF SerialInv, Reviewed, PostedIsSignedOff
<1> QED
  BY <1>1, <1>2, TypeInit, SerialInit, PTL DEF Spec

\* With the AR accounts in the chart from the start: the chart stays so, and
\* the ledger carries each finalized invoice as its row says.
Booked == accounts = "complete" /\ \A i \in Invoices : InLedger(i)

LEMMA BookedInit == Charts = {"complete"} /\ Init => Booked
<1> SUFFICES ASSUME Charts = {"complete"}, Init PROVE Booked
  OBVIOUS
<1>1. accounts = "complete"
  BY DEF Init
<1>2. \A i \in Invoices : invoice[i].status # "finalized" /\ ledger[InvoiceRef(i)] = {}
  BY RefsDistinct DEF Init
<1> QED
  BY <1>1, <1>2 DEF Booked, InLedger

\* A step that leaves the entries of invoices alone and changes, if any,
\* invoices that are not finalized before and after.
LEMMA BookedUntouched ==
    ASSUME Booked, UNCHANGED accounts,
           \A i \in Invoices : ledger'[InvoiceRef(i)] = ledger[InvoiceRef(i)],
           \A i \in Invoices : \/ invoice'[i] = invoice[i]
                               \/ invoice[i].status # "finalized" /\ invoice'[i].status # "finalized"
    PROVE  Booked'
BY DEF Booked, InLedger

LEMMA BookedNext ==
    TypeOK /\ SerialInv /\ BooksInv /\ Booked /\ [Next]_vars => Booked'
<1> SUFFICES ASSUME TypeOK, SerialInv, BooksInv, Booked, [Next]_vars PROVE Booked'
  OBVIOUS
<1>1. /\ \A i \in Invoices : invoice[i] \in Invoice /\ Reviewed(i)
      /\ \A u \in Users : request[u] \in Request /\ StillTrue(u)
  BY DEF TypeOK, SerialInv
<1>2. ASSUME NEW u \in Users, Load(u) PROVE Booked'
  <2>1. UNCHANGED <<accounts, ledger>>
    BY <1>2 DEF Load, CreateInvoice, UpdateInvoice, SubmitInvoice, ApproveInvoice,
                RejectInvoice, DeleteInvoice, FinalizeInvoice, VoidInvoice, CreateReceipt, Begin
  <2>2. CASE CreateInvoice(u)
    <3>1. PICK i \in Invoices, a \in Amounts, p \in Periods :
            /\ invoice[i].status = "absent"
            /\ invoice' = [invoice EXCEPT
                 ![i] = Initialize([invoice[i] EXCEPT !.status = "draft",
                                      !.lines = {[author |-> u, amount |-> a]}, !.period = p],
                                   NeedsApproval({[author |-> u, amount |-> a]}), u)]
      BY <2>2 DEF CreateInvoice
    <3>2. invoice'[i].status = "draft" /\ \A j \in Invoices : j # i => invoice'[j] = invoice[j]
      BY <3>1 DEF Initialize, TypeOK, Invoice
    <3> QED
      BY <2>1, <3>1, <3>2, BookedUntouched
  <2>3. CASE ~CreateInvoice(u)
    <3>1. UNCHANGED invoice
      BY <1>2, <2>3 DEF Load, UpdateInvoice, SubmitInvoice, ApproveInvoice, RejectInvoice,
                        DeleteInvoice, FinalizeInvoice, VoidInvoice, CreateReceipt, Begin
    <3> QED
      BY <2>1, <3>1, BookedUntouched
  <2> QED
    BY <2>2, <2>3
<1>3. ASSUME NEW u \in Users, WriteReview(u) PROVE Booked'
  <2>1. request[u].step \in {"submit", "approve", "reject"}
        /\ invoice' = [invoice EXCEPT ![request[u].invoice] = Outcome(u)]
        /\ UNCHANGED <<accounts, ledger>>
    BY <1>3 DEF WriteReview, Outcome
  <2>2. request[u].invoice \in Invoices
    BY <2>1, <1>1, RequestFields DEF Idle
  <2>3. invoice[request[u].invoice].status # "finalized"
    BY <2>1, <2>2, <1>1 DEF StillTrue, Reviewed
  <2>4. Outcome(u).status = invoice[request[u].invoice].status
    BY DEF Outcome, Patched
  <2> QED
    BY <2>1, <2>2, <2>3, <2>4, BookedUntouched DEF TypeOK
<1>4. ASSUME NEW u \in Users, WriteEdit(u) PROVE Booked'
  <2> DEFINE edited == [Outcome(u) EXCEPT
                          !.lines = (Outcome(u).lines \ request[u].dropped) \cup request[u].added]
  <2>1. request[u].step = "edit" /\ UNCHANGED <<accounts, ledger>>
        /\ invoice' = [invoice EXCEPT ![request[u].invoice] = edited]
    BY <1>4 DEF WriteEdit, Outcome
  <2>2. request[u].invoice \in Invoices
    BY <2>1, <1>1, RequestFields DEF Idle
  <2>3. edited.status = invoice[request[u].invoice].status
    BY DEF Outcome, Patched
  <2>4. invoice[request[u].invoice].status = "draft"
    BY <2>1, <1>1 DEF StillTrue
  <2> HIDE DEF edited
  <2> QED
    BY <2>1, <2>2, <2>3, <2>4, BookedUntouched DEF TypeOK
<1>5. ASSUME NEW u \in Users, WriteDelete(u) PROVE Booked'
  <2>1. request[u].step = "delete" /\ UNCHANGED <<accounts, ledger>>
        /\ invoice' = [invoice EXCEPT ![request[u].invoice].status = "deleted"]
    BY <1>5 DEF WriteDelete
  <2>2. request[u].invoice \in Invoices /\ invoice[request[u].invoice].status = "draft"
    BY <2>1, <1>1, RequestFields DEF StillTrue, Idle
  <2> QED
    BY <2>1, <2>2, BookedUntouched DEF TypeOK, Invoice
<1>6. ASSUME NEW u \in Users, WriteVoid(u) PROVE Booked'
  <2>1. PICK i \in Invoices : i = request[u].invoice
    BY <1>6, <1>1, RequestFields DEF WriteVoid, Idle
  <2>2. /\ request[u].step = "voiding" /\ UNCHANGED accounts
        /\ ledger' = [ledger EXCEPT ![InvoiceRef(i)] = ledger[InvoiceRef(i)] \ request[u].prior]
        /\ invoice' = [invoice EXCEPT ![i].status = "void"]
    BY <1>6, <2>1 DEF WriteVoid, Remove
  <2>5. request[u].prior = ledger[InvoiceRef(i)]
    BY <2>1, <2>2, <1>1 DEF StillTrue
  <2>3. invoice'[i].status = "void" /\ ledger'[InvoiceRef(i)] = {}
    BY <2>2, <2>5, RefsDistinct DEF TypeOK, Invoice
  <2>4. \A j \in Invoices : j # i => /\ invoice'[j] = invoice[j]
                                     /\ ledger'[InvoiceRef(j)] = ledger[InvoiceRef(j)]
    BY <2>2, RefsDistinct DEF TypeOK
  <2> QED
    BY <2>2, <2>3, <2>4 DEF Booked, InLedger
<1>7. ASSUME NEW u \in Users, SelectVoided(u) \/ LockInvoice(u) \/ Abort(u) \/ ChangePeriod(u)
      PROVE  Booked'
  BY <1>7, BookedUntouched DEF SelectVoided, LockInvoice, Abort, ChangePeriod, ClosePeriod, ReopenPeriod
<1>8. ASSUME NEW u \in Users PROVE ~CommitAccounts(u) /\ ~SelectPrior(u)
  BY DEF Booked, BooksInv, LockHeld, CommitAccounts, SelectPrior
<1>9. ASSUME NEW u \in Users, PostInvoice(u) PROVE Booked'
  <2> DEFINE e == [by |-> u, period |-> request[u].period, amount |-> request[u].amount]
  <2>1. request[u].step = "locked"
    BY <1>9 DEF Booked, BooksInv, LockHeld, PostInvoice
  <2>2. PICK i \in Invoices : i = request[u].invoice
    BY <2>1, <1>1, RequestFields DEF Idle
  <2>3. UNCHANGED accounts
        /\ invoice' = [invoice EXCEPT ![i].status = "finalized"]
        /\ Post(InvoiceRef(i), request[u].prior, e)
    BY <1>9, <2>1, <2>2 DEF PostInvoice
  <2>4. e \in ledger'[InvoiceRef(i)]
    BY <2>3, RefsDistinct DEF Post, TypeOK
  <2>5. e.amount = Total(invoice[i].lines) /\ e.period = invoice[i].period
    BY <2>1, <2>2, <1>1 DEF StillTrue
  <2>6. /\ invoice'[i].status = "finalized" /\ invoice'[i].lines = invoice[i].lines
        /\ invoice'[i].period = invoice[i].period
    BY <2>3, <1>1 DEF TypeOK, Invoice
  <2>7. \A j \in Invoices : j # i => /\ invoice'[j] = invoice[j]
                                     /\ ledger'[InvoiceRef(j)] = ledger[InvoiceRef(j)]
    BY <2>3, RefsDistinct DEF TypeOK, Post
  <2> HIDE DEF e
  <2> QED
    BY <2>3, <2>4, <2>5, <2>6, <2>7 DEF Booked, InLedger
<1>10. ASSUME NEW u \in Users, WriteReceipt(u) \/ DeleteReceipt(u) PROVE Booked'
  <2>1. UNCHANGED <<accounts, invoice>>
    BY <1>10 DEF WriteReceipt, DeleteReceipt
  <2>2. \A i \in Invoices : ledger'[InvoiceRef(i)] = ledger[InvoiceRef(i)]
    BY <1>10, RefsDistinct DEF WriteReceipt, DeleteReceipt, Post, Erase, TypeOK
  <2> QED
    BY <2>1, <2>2, BookedUntouched
<1>11. CASE UNCHANGED vars
  BY <1>11, BookedUntouched DEF vars
<1> QED
  BY <1>2, <1>3, <1>4, <1>5, <1>6, <1>7, <1>8, <1>9, <1>10, <1>11 DEF Next, Write

\* Requests one at a time and the AR accounts in the chart: between requests
\* the ledger carries each finalized invoice at the total of its lines in its
\* month, and nothing for an invoice in another state.
THEOREM InvoicesCorrect ==
    ~Overlap /\ Charts = {"complete"} => (Spec => []InvoicesMatchEntries)
<1> SUFFICES ASSUME ~Overlap, Charts = {"complete"} PROVE Spec => []InvoicesMatchEntries
  OBVIOUS
<1>1. TypeOK /\ ReceiptsInv /\ BooksInv /\ SerialInv /\ Booked /\ [Next]_vars
        => TypeOK' /\ ReceiptsInv' /\ BooksInv' /\ SerialInv' /\ Booked'
  BY TypeNext, ReceiptsNext, BooksNext, SerialNext, BookedNext
<1>2. Init => TypeOK /\ ReceiptsInv /\ BooksInv /\ SerialInv /\ Booked
  BY TypeInit, ReceiptsInit, BooksInit, SerialInit, BookedInit
<1>3. Booked => InvoicesMatchEntries
  BY DEF Booked, InLedger, InvoicesMatchEntries
<1> QED
  BY <1>1, <1>2, <1>3, PTL DEF Spec

\* What each step adds to the ledger lies in a period that is open as it is taken.
LEMMA PostsWhenOpen ==
    ASSUME TypeOK, SerialInv, [Next]_vars, NEW ref \in Refs,
           NEW e, e \in ledger'[ref], e \notin ledger[ref]
    PROVE  period[e.period] = "open"
<1>1. \A u \in Users : StillTrue(u)
  BY DEF SerialInv
<1>2. ASSUME NEW u \in Users, Load(u) PROVE UNCHANGED ledger
  BY <1>2 DEF Load, CreateInvoice, UpdateInvoice, SubmitInvoice, ApproveInvoice,
              RejectInvoice, DeleteInvoice, FinalizeInvoice, VoidInvoice, CreateReceipt, Begin
<1>3. ASSUME NEW u \in Users,
             \/ WriteReview(u) \/ WriteEdit(u) \/ WriteDelete(u) \/ LockInvoice(u)
             \/ CommitAccounts(u) \/ SelectPrior(u) \/ SelectVoided(u) \/ Abort(u)
             \/ ChangePeriod(u)
      PROVE  UNCHANGED ledger
  BY <1>3 DEF WriteReview, WriteEdit, WriteDelete, LockInvoice, CommitAccounts, SelectPrior,
              SelectVoided, Abort, ChangePeriod, ClosePeriod, ReopenPeriod
<1>4. \A r, dropped, f : Post(r, dropped, f) => e = f
  BY DEF Post, TypeOK
<1>5. \A r, selected : ~Erase(r) /\ ~Remove(r, selected)
  BY DEF Erase, Remove, TypeOK
<1>6. ASSUME NEW u \in Users, PostInvoice(u) \/ WriteReceipt(u) PROVE period[e.period] = "open"
  <2>1. request[u].step \in {"locked", "selected", "receipt"} /\ e.period = request[u].period
    BY <1>4, <1>6 DEF PostInvoice, WriteReceipt
  <2> QED
    BY <2>1, <1>1 DEF StillTrue, IsOpen
<1>8. ASSUME NEW u \in Users PROVE ~WriteVoid(u) /\ ~DeleteReceipt(u)
  BY <1>5 DEF WriteVoid, DeleteReceipt
<1> QED
  BY <1>2, <1>3, <1>6, <1>8 DEF Next, Write, vars

\* Requests one at a time, no step adds an entry to a closed period.
THEOREM NothingPostedLate == ~Overlap => (Spec => NothingPostedWhenClosed)
<1> SUFFICES ASSUME ~Overlap PROVE Spec => NothingPostedWhenClosed
  OBVIOUS
<1>1. TypeOK /\ SerialInv /\ [Next]_vars => TypeOK' /\ SerialInv'
  BY TypeNext, SerialNext
<1>2. TypeOK /\ SerialInv /\ [Next]_vars
        => [\A ref \in Refs : \A e \in ledger'[ref] \ ledger[ref] : period[e.period] = "open"]_vars
  BY PostsWhenOpen
<1> QED
  BY <1>1, <1>2, TypeInit, SerialInit, PTL DEF Spec, NothingPostedWhenClosed

-----------------------------------------------------------------------------
(* Receipts, one request at a time.                                          *)

\* An invoice has a total, and what counts against it is within it; before it
\* is finalized and after it is void nothing counts.
Within(i) ==
    /\ IsFiniteSet(ReceiptsOf(i))
    /\ Total(invoice[i].lines) \in Nat
    /\ IF invoice[i].status = "finalized" THEN Received(i) <= Total(invoice[i].lines)
                                          ELSE ReceiptsOf(i) = {}

\* What a request decided about the receipts when it loaded them still holds.
StillFits(u) ==
    LET r == request[u]  row == invoice[r.invoice] IN
    /\ r.step = "edit" => Total(r.added) \in Nat
    /\ r.step \in {"void", "voiding"} => ReceiptsOf(r.invoice) = {}
    /\ r.step = "receipt" => /\ row.status = "finalized"
                             /\ r.amount + Received(r.invoice) <= Total(row.lines)

WithinInv == (\A i \in Invoices : Within(i)) /\ \A u \in Users : StillFits(u)

LEMMA TotalOfLine ==
    ASSUME NEW u \in Users, NEW a \in Amounts
    PROVE  Total({[author |-> u, amount |-> a]}) \in Nat
<1> DEFINE line == [author |-> u, amount |-> a]
           f == [l \in {line} |-> l.amount]
<1>0. f[line] = a /\ a \in Nat
  BY AmountsAssumption
<1>1. IsFiniteSet({line}) /\ \A x \in {line} : f[x] \in Nat
  BY <1>0, FS_Singleton
<1>2. SumFunctionOnSet(f, {line}) \in Nat
  BY <1>1, SumType
<1> QED
  BY <1>2 DEF Total

LEMMA TotalOfNone == Total({}) \in Nat
<1>1. SumFunctionOnSet([l \in {} |-> l.amount], {}) = 0
  BY SumTurn, FS_EmptySet
<1> QED
  BY <1>1 DEF Total

\* What is received is an amount, and none only if nothing was.
LEMMA ReceivedType ==
    ASSUME TypeOK, NEW i \in Invoices, IsFiniteSet(ReceiptsOf(i))
    PROVE  /\ Received(i) \in Nat
           /\ ReceiptsOf(i) = {} => Received(i) = 0
           /\ Received(i) = 0 => ReceiptsOf(i) = {}
<1> DEFINE f == [r \in Receipts |-> receipt[r].amount]
           S == ReceiptsOf(i)
<1>0. \A r \in Receipts : receipt[r].amount \in Amounts
  BY DEF TypeOK, Receipt
<1>1. \A x \in S : f[x] \in Nat /\ f[x] > 0
  <2> SUFFICES ASSUME NEW x \in Receipts PROVE f[x] \in Nat /\ f[x] > 0
    BY DEF ReceiptsOf
  <2>1. f[x] = receipt[x].amount
    OBVIOUS
  <2>2. \A a \in Amounts : a \in Nat /\ a > 0
    BY AmountsAssumption
  <2> HIDE DEF f
  <2> QED
    BY <2>1, <2>2, <1>0
<1>2. IsFiniteSet(S)
  OBVIOUS
<1> HIDE DEF f, S
<1>3. SumFunctionOnSet(f, S) \in Nat
  BY <1>1, <1>2, SumType
<1>4. S = {} => SumFunctionOnSet(f, S) = 0
  BY <1>2, SumTurn
<1>5. \A x \in S : f[x] <= SumFunctionOnSet(f, S)
  BY <1>1, <1>2, TermInSum
<1>6. SumFunctionOnSet(f, S) = 0 => S = {}
  BY <1>1, <1>3, <1>5
<1>7. Received(i) = SumFunctionOnSet(f, S)
  BY DEF Received, f, S
<1> QED
  BY <1>3, <1>4, <1>6, <1>7 DEF S

LEMMA ReceivedTypeNext ==
    ASSUME TypeOK', NEW i \in Invoices, IsFiniteSet(ReceiptsOf(i)')
    PROVE  Received(i)' \in Nat
<1> DEFINE f == [r \in Receipts |-> receipt'[r].amount]
           S == ReceiptsOf(i)'
<1>1. \A r \in Receipts : receipt'[r].amount \in Nat
  BY AmountsAssumption DEF TypeOK, Receipt
<1>2. \A x \in S : f[x] \in Nat
  BY <1>1 DEF ReceiptsOf
<1>3. Received(i)' = SumFunctionOnSet(f, S) /\ IsFiniteSet(S)
  BY DEF Received
<1> HIDE DEF f, S
<1> QED
  BY <1>2, <1>3, SumType

\* A receipt that comes adds its amount.
LEMMA ReceiptComes ==
    ASSUME TypeOK, TypeOK', NEW i \in Invoices, NEW x \in Receipts, IsFiniteSet(ReceiptsOf(i)),
           x \notin ReceiptsOf(i), ReceiptsOf(i)' = ReceiptsOf(i) \cup {x},
           \A y \in Receipts \ {x} : receipt'[y] = receipt[y]
    PROVE  IsFiniteSet(ReceiptsOf(i)') /\ Received(i)' = Received(i) + receipt'[x].amount
<1> DEFINE f == [r \in Receipts |-> receipt[r].amount]
           g == [r \in Receipts |-> receipt'[r].amount]
           S == ReceiptsOf(i)
           T == ReceiptsOf(i)'
<1>1. \A y \in Receipts : f[y] \in Nat /\ g[y] \in Nat
  BY AmountsAssumption DEF TypeOK, Receipt
<1>2. S \subseteq Receipts /\ T = S \cup {x} /\ S = T \ {x} /\ x \in T /\ IsFiniteSet(S)
  BY DEF ReceiptsOf
<1>3. \A y \in S : f[y] = g[y]
  BY <1>2
<1>4. Received(i) = SumFunctionOnSet(f, S) /\ Received(i)' = SumFunctionOnSet(g, T)
      /\ g[x] = receipt'[x].amount
  BY DEF Received
<1>5. T \subseteq Receipts
  BY <1>2
<1>6. T = ReceiptsOf(i)'
  OBVIOUS
<1> HIDE DEF f, g, S, T
<1>7. IsFiniteSet(T)
  BY <1>2, FS_AddElement
<1>8. SumFunctionOnSet(f, S) = SumFunctionOnSet(g, S)
  BY <1>2, <1>3, SumSame
<1>9. SumFunctionOnSet(g, T) = g[x] + SumFunctionOnSet(g, T \ {x})
  BY <1>1, <1>2, <1>5, <1>7, SumStep
<1>10. SumFunctionOnSet(g, S) \in Nat
  BY <1>1, <1>2, SumType
<1>11. SumFunctionOnSet(g, T) = g[x] + SumFunctionOnSet(f, S)
  BY <1>2, <1>8, <1>9
<1> QED
  BY <1>1, <1>4, <1>6, <1>7, <1>8, <1>10, <1>11

\* A receipt that goes takes its amount with it.
LEMMA ReceiptGoes ==
    ASSUME TypeOK, TypeOK', NEW i \in Invoices, NEW x \in Receipts, IsFiniteSet(ReceiptsOf(i)),
           ReceiptsOf(i)' = ReceiptsOf(i) \ {x},
           \A y \in Receipts \ {x} : receipt'[y] = receipt[y]
    PROVE  IsFiniteSet(ReceiptsOf(i)') /\ Received(i)' <= Received(i)
<1> DEFINE f == [r \in Receipts |-> receipt[r].amount]
           g == [r \in Receipts |-> receipt'[r].amount]
           S == ReceiptsOf(i)
           T == ReceiptsOf(i)'
<1>1. \A y \in Receipts : f[y] \in Nat /\ g[y] \in Nat
  BY AmountsAssumption DEF TypeOK, Receipt
<1>2. S \subseteq Receipts /\ T = S \ {x} /\ IsFiniteSet(S)
  BY DEF ReceiptsOf
<1>3. \A y \in T : f[y] = g[y]
  BY <1>2
<1>4. Received(i) = SumFunctionOnSet(f, S) /\ Received(i)' = SumFunctionOnSet(g, T)
  BY DEF Received
<1>5. T \subseteq Receipts
  BY <1>2
<1>6. T = ReceiptsOf(i)'
  OBVIOUS
<1> HIDE DEF f, g, S, T
<1>7. IsFiniteSet(T)
  BY <1>2, FS_RemoveElement
<1>8. SumFunctionOnSet(f, T) = SumFunctionOnSet(g, T)
  BY <1>3, <1>7, SumSame
<1>9. SumFunctionOnSet(f, T) \in Nat
  BY <1>1, <1>5, <1>7, SumType
<1>10. CASE x \in S
  <2>1. SumFunctionOnSet(f, S) = f[x] + SumFunctionOnSet(f, S \ {x})
    BY <1>1, <1>2, <1>10, SumStep
  <2>2. SumFunctionOnSet(f, S) = f[x] + SumFunctionOnSet(f, T)
    BY <2>1, <1>2
  <2> QED
    BY <2>2, <1>1, <1>4, <1>6, <1>7, <1>8, <1>9
<1>11. CASE x \notin S
  <2>1. T = S
    BY <1>2, <1>11
  <2> QED
    BY <2>1, <1>4, <1>6, <1>7, <1>8, <1>9
<1> QED
  BY <1>10, <1>11

LEMMA WithinInit == Init => WithinInv
<1> SUFFICES ASSUME Init PROVE WithinInv
  OBVIOUS
<1>1. \A i \in Invoices : ReceiptsOf(i) = {} /\ invoice[i].lines = {}
                          /\ invoice[i].status = "absent"
  BY DEF Init, ReceiptsOf
<1>2. \A i \in Invoices : Within(i)
  BY <1>1, TotalOfNone, FS_EmptySet DEF Within
<1>3. \A u \in Users : StillFits(u)
  BY DEF Init, StillFits, Idle
<1> QED
  BY <1>2, <1>3 DEF WithinInv

\* What was decided holds as long as the rows it was decided on do not change.
LEMMA FitsUntouched ==
    ASSUME NEW u \in Users, StillFits(u), UNCHANGED <<receipt, invoice>>, request'[u] = request[u]
    PROVE  StillFits(u)'
BY DEF StillFits, ReceiptsOf, Received

LEMMA WithinUntouched ==
    ASSUME NEW i \in Invoices, Within(i), UNCHANGED receipt, invoice'[i].lines = invoice[i].lines,
           \/ invoice'[i].status = invoice[i].status
           \/ invoice[i].status # "finalized" /\ invoice'[i].status # "finalized"
    PROVE  Within(i)'
BY DEF Within, ReceiptsOf, Received

\* When no request is under way, nothing was decided.
LEMMA NothingDecided ==
    ASSUME \A u \in Users : request'[u] = Idle
    PROVE  \A u \in Users : StillFits(u)'
BY DEF StillFits, Idle

LEMMA WithinLoad ==
    ASSUME TypeOK, SerialInv, WithinInv, ~Overlap, NEW u \in Users, Load(u)
    PROVE  WithinInv'
<1>1. /\ \A i \in Invoices : invoice[i] \in Invoice /\ Within(i)
      /\ \A v \in Users : StillFits(v)
  BY DEF TypeOK, WithinInv
<1>2. CASE CreateInvoice(u)
  <2>1. PICK i \in Invoices, a \in Amounts, p \in Periods :
          LET line == [author |-> u, amount |-> a]
              row  == [invoice[i] EXCEPT !.status = "draft", !.lines = {line}, !.period = p]
          IN /\ invoice[i].status = "absent"
             /\ invoice' = [invoice EXCEPT ![i] = Initialize(row, NeedsApproval({line}), u)]
    BY <1>2 DEF CreateInvoice
  <2> DEFINE line == [author |-> u, amount |-> a]
  <2>2. /\ invoice'[i].lines = {line}
        /\ invoice'[i].status = "draft"
        /\ \A j \in Invoices : j # i => invoice'[j] = invoice[j]
    BY <2>1, <1>1 DEF TypeOK, Initialize, Invoice
  <2>3. UNCHANGED receipt /\ \A v \in Users : request'[v] = Idle
    BY <1>2 DEF CreateInvoice, Free, TypeOK
  <2>4. Within(i)'
    <3>1. ReceiptsOf(i)' = ReceiptsOf(i) /\ ReceiptsOf(i) = {}
      BY <2>1, <2>3, <1>1 DEF ReceiptsOf, Within
    <3>2. Total({line}) \in Nat
      BY TotalOfLine
    <3> QED
      BY <2>2, <3>1, <3>2, FS_EmptySet DEF Within
  <2>5. \A j \in Invoices : Within(j)'
    BY <2>2, <2>3, <2>4, <1>1, WithinUntouched
  <2> QED
    BY <2>3, <2>5, NothingDecided DEF WithinInv
<1>3. CASE ~CreateInvoice(u)
  <2>1. PICK r : Begin(u, r) /\ StillFits(u)'
    <3>1. \A r : Begin(u, r) => request'[u] = r /\ UNCHANGED <<invoice, receipt>>
      BY DEF Begin, TypeOK
    <3>2. CASE UpdateInvoice(u)
      <4>1. PICK i \in Invoices, a \in Amounts : \E patch :
              Begin(u, [step |-> "edit", invoice |-> i, patch |-> patch,
                        dropped |-> invoice[i].lines, added |-> {[author |-> u, amount |-> a]}])
        BY <3>2 DEF UpdateInvoice
      <4>2. request'[u].step = "edit" /\ request'[u].added = {[author |-> u, amount |-> a]}
        BY <4>1, <3>1
      <4> QED
        BY <4>1, <4>2, TotalOfLine DEF StillFits
    <3>3. ASSUME NEW r, Begin(u, r), r.step \in {"submit", "approve", "reject", "delete", "finalize"}
          PROVE  \E q : Begin(u, q) /\ StillFits(u)'
      BY <3>3, <3>1 DEF StillFits
    <3>4. CASE \/ SubmitInvoice(u) \/ ApproveInvoice(u) \/ RejectInvoice(u)
               \/ DeleteInvoice(u) \/ FinalizeInvoice(u)
      <4>1. CASE SubmitInvoice(u)
        <5>1. PICK r : Begin(u, r) /\ r.step = "submit"
          BY <4>1 DEF SubmitInvoice
        <5> QED
          BY <5>1, <3>3
      <4>2. CASE ApproveInvoice(u)
        <5>1. PICK r : Begin(u, r) /\ r.step = "approve"
          BY <4>2 DEF ApproveInvoice
        <5> QED
          BY <5>1, <3>3
      <4>3. CASE RejectInvoice(u)
        <5>1. PICK r : Begin(u, r) /\ r.step = "reject"
          BY <4>3 DEF RejectInvoice
        <5> QED
          BY <5>1, <3>3
      <4>4. CASE DeleteInvoice(u)
        <5>1. PICK r : Begin(u, r) /\ r.step = "delete"
          BY <4>4 DEF DeleteInvoice
        <5> QED
          BY <5>1, <3>3
      <4>5. CASE FinalizeInvoice(u)
        <5>1. PICK r : Begin(u, r) /\ r.step = "finalize"
          BY <4>5 DEF FinalizeInvoice
        <5> QED
          BY <5>1, <3>3
      <4> QED
        BY <3>4, <4>1, <4>2, <4>3, <4>4, <4>5
    <3>5. CASE VoidInvoice(u)
      <4>1. PICK i \in Invoices : Received(i) = 0 /\ Begin(u, [step |-> "void", invoice |-> i])
        BY <3>5 DEF VoidInvoice
      <4>2. ReceiptsOf(i) = {}
        BY <4>1, <1>1, ReceivedType DEF Within
      <4>3. request'[u].step = "void" /\ request'[u].invoice = i /\ UNCHANGED receipt
        BY <4>1, <3>1
      <4>4. ReceiptsOf(i)' = {}
        BY <4>2, <4>3 DEF ReceiptsOf
      <4> QED
        BY <4>1, <4>3, <4>4 DEF StillFits
    <3>6. CASE CreateReceipt(u)
      <4>1. PICK i \in Invoices, a \in Amounts, p \in Periods :
              /\ invoice[i].status = "finalized"
              /\ a + Received(i) <= Total(invoice[i].lines)
              /\ Begin(u, [step |-> "receipt", invoice |-> i, period |-> p, amount |-> a])
        BY <3>6 DEF CreateReceipt
      <4>2. /\ request'[u].step = "receipt" /\ request'[u].invoice = i /\ request'[u].amount = a
            /\ UNCHANGED <<receipt, invoice>>
        BY <4>1, <3>1
      <4>3. Received(i)' = Received(i)
        BY <4>2 DEF Received, ReceiptsOf
      <4> QED
        BY <4>1, <4>2, <4>3 DEF StillFits
    <3> QED
      BY <1>3, <3>2, <3>4, <3>5, <3>6 DEF Load
  <2>2. UNCHANGED <<invoice, receipt>> /\ \A v \in Users \ {u} : request'[v] = request[v]
    BY <2>1 DEF Begin, TypeOK
  <2>3. \A i \in Invoices : Within(i)'
    BY <2>2, <1>1, WithinUntouched
  <2>4. \A v \in Users : StillFits(v)'
    BY <2>1, <2>2, <1>1, FitsUntouched
  <2> QED
    BY <2>3, <2>4 DEF WithinInv
<1> QED
  BY <1>2, <1>3

\* A request is over: with one at a time, nothing is decided then.
LEMMA NoneLeft ==
    ASSUME TypeOK, SerialInv, NEW u \in Users, request[u] # Idle, Done(u)
    PROVE  \A v \in Users : request'[v] = Idle
BY DEF Done, SerialInv, OneRequest, TypeOK

\* What is received does not change as long as the receipts that count do not.
LEMMA ReceivedSame ==
    ASSUME NEW i \in Invoices, IsFiniteSet(ReceiptsOf(i)), ReceiptsOf(i)' = ReceiptsOf(i),
           \A x \in ReceiptsOf(i) : receipt'[x] = receipt[x]
    PROVE  Received(i)' = Received(i)
<1> DEFINE f == [r \in Receipts |-> receipt[r].amount]
           g == [r \in Receipts |-> receipt'[r].amount]
           S == ReceiptsOf(i)
<1>1. \A x \in S : f[x] = g[x]
  BY DEF ReceiptsOf
<1>2. IsFiniteSet(S) /\ Received(i) = SumFunctionOnSet(f, S) /\ Received(i)' = SumFunctionOnSet(g, S)
  BY DEF Received
<1> HIDE DEF f, g, S
<1> QED
  BY <1>1, <1>2, SumSame

LEMMA WithinElsewhere ==
    ASSUME NEW i \in Invoices, Within(i), UNCHANGED invoice, ReceiptsOf(i)' = ReceiptsOf(i),
           \A x \in ReceiptsOf(i) : receipt'[x] = receipt[x]
    PROVE  Within(i)'
BY ReceivedSame DEF Within

LEMMA WithinWrite ==
    ASSUME TypeOK, TypeOK', SerialInv, WithinInv, NEW u \in Users, Write(u)
    PROVE  WithinInv'
<1>1. /\ \A i \in Invoices : invoice[i] \in Invoice /\ Within(i)
      /\ \A v \in Users : request[v] \in Request /\ StillFits(v) /\ StillTrue(v)
  BY DEF TypeOK, WithinInv, SerialInv
<1>2. request[u] # Idle
  BY DEF Write, WriteReview, WriteEdit, WriteDelete, SelectVoided, WriteVoid, LockInvoice,
         CommitAccounts, SelectPrior, PostInvoice, WriteReceipt, Idle
<1>3. PICK i \in Invoices : request[u].invoice = i
  BY <1>1, <1>2, RequestFields
<1>4. ASSUME Done(u) PROVE \A v \in Users : StillFits(v)'
  BY <1>2, <1>4, NoneLeft, NothingDecided
<1>5. CASE WriteReview(u)
  <2>1. /\ Done(u) /\ UNCHANGED receipt
        /\ invoice' = [invoice EXCEPT ![i] = Patched(invoice[i], request[u].patch)]
    BY <1>3, <1>5 DEF WriteReview
  <2>2. \A j \in Invoices : invoice'[j].lines = invoice[j].lines /\ invoice'[j].status = invoice[j].status
    BY <2>1 DEF TypeOK, Patched
  <2> QED
    BY <2>1, <2>2, <1>1, <1>4, WithinUntouched DEF WithinInv
<1>6. CASE WriteEdit(u)
  <2> DEFINE row == Patched(invoice[i], request[u].patch)
  <2>1. /\ request[u].step = "edit" /\ Done(u) /\ UNCHANGED receipt
        /\ invoice' = [invoice EXCEPT
             ![i] = [row EXCEPT !.lines = (row.lines \ request[u].dropped) \cup request[u].added]]
    BY <1>3, <1>6 DEF WriteEdit
  <2>2. row.lines = invoice[i].lines /\ row.status = invoice[i].status
    BY DEF Patched
  <2>3. invoice[i].status = "draft" /\ request[u].dropped = invoice[i].lines
        /\ Total(request[u].added) \in Nat
    BY <2>1, <1>1, <1>3 DEF StillTrue, StillFits
  <2>4. /\ invoice'[i].lines = (row.lines \ request[u].dropped) \cup request[u].added
        /\ invoice'[i].status = row.status
        /\ \A j \in Invoices : j # i => invoice'[j] = invoice[j]
    BY <2>1 DEF TypeOK, Patched
  <2> HIDE DEF row
  <2>5. invoice'[i].lines = request[u].added /\ invoice'[i].status = "draft"
    BY <2>2, <2>3, <2>4
  <2>6. Within(i)'
    <3>1. ReceiptsOf(i)' = {} /\ ReceiptsOf(i)' = ReceiptsOf(i)
      BY <2>1, <2>3, <1>1 DEF Within, ReceiptsOf
    <3>2. Total(invoice'[i].lines) \in Nat
      BY <2>3, <2>5
    <3> QED
      BY <2>5, <3>1, <3>2, FS_EmptySet DEF Within
  <2>7. \A j \in Invoices : Within(j)'
    BY <2>1, <2>4, <2>6, <1>1, WithinUntouched
  <2> QED
    BY <2>1, <2>7, <1>4 DEF WithinInv
<1>7. CASE WriteDelete(u)
  <2>1. /\ request[u].step = "delete" /\ Done(u)
        /\ invoice' = [invoice EXCEPT ![i].status = "deleted"]
        /\ \A x \in Receipts : receipt[x].invoice # i => receipt'[x] = receipt[x]
        /\ \A x \in Receipts : receipt[x].invoice = i =>
             receipt'[x] = receipt[x] \/ receipt'[x].state = "deleted"
    BY <1>3, <1>7 DEF WriteDelete, TypeOK, Receipt
  <2>2. invoice[i].status = "draft" /\ ReceiptsOf(i) = {}
    BY <2>1, <1>1, <1>3 DEF StillTrue, Within
  <2>3. \A x \in Receipts : receipt'[x] # receipt[x] =>
          receipt'[x].state = "deleted" /\ receipt[x].state # "live"
    BY <2>1, <2>2 DEF ReceiptsOf
  <2>4. \A j \in Invoices : ReceiptsOf(j)' = ReceiptsOf(j)
    BY <2>3 DEF ReceiptsOf
  <2>5. \A j \in Invoices : \A x \in ReceiptsOf(j) : receipt'[x] = receipt[x]
    BY <2>3 DEF ReceiptsOf
  <2>6. /\ invoice'[i].status = "deleted" /\ invoice'[i].lines = invoice[i].lines
        /\ \A j \in Invoices : j # i => invoice'[j] = invoice[j]
    BY <2>1, <1>1 DEF TypeOK, Invoice
  <2>7. \A j \in Invoices : IsFiniteSet(ReceiptsOf(j)) => Received(j)' = Received(j)
    BY <2>4, <2>5, ReceivedSame
  <2>8. \A j \in Invoices : Within(j)'
    BY <2>2, <2>4, <2>6, <2>7, <1>1 DEF Within
  <2> QED
    BY <2>1, <2>8, <1>4 DEF WithinInv
<1>8. CASE WriteVoid(u)
  <2>1. /\ request[u].step = "voiding" /\ Done(u) /\ UNCHANGED receipt
        /\ invoice' = [invoice EXCEPT ![i].status = "void"]
    BY <1>3, <1>8 DEF WriteVoid
  <2>2. /\ invoice'[i].status = "void" /\ invoice'[i].lines = invoice[i].lines
        /\ \A j \in Invoices : j # i => invoice'[j] = invoice[j]
    BY <2>1, <1>1 DEF TypeOK, Invoice
  <2>3. ReceiptsOf(i) = {}
    BY <2>1, <1>1, <1>3 DEF StillFits
  <2>4. Within(i)'
    BY <2>1, <2>2, <2>3, <1>1 DEF Within, ReceiptsOf
  <2>5. \A j \in Invoices : Within(j)'
    BY <2>1, <2>2, <2>4, <1>1, WithinUntouched
  <2> QED
    BY <2>1, <2>5, <1>4 DEF WithinInv
<1>9. CASE LockInvoice(u) \/ SelectPrior(u)
  <2>1. /\ UNCHANGED <<invoice, receipt>> /\ request'[u].step \in {"locked", "selected"}
        /\ \A v \in Users \ {u} : request'[v] = request[v]
    BY <1>9 DEF LockInvoice, SelectPrior, TypeOK
  <2>2. \A v \in Users : StillFits(v)'
    <3>1. StillFits(u)'
      BY <2>1 DEF StillFits
    <3>2. \A v \in Users \ {u} : StillFits(v)'
      BY <2>1, <1>1, FitsUntouched
    <3> QED
      BY <3>1, <3>2
  <2>3. \A j \in Invoices : Within(j)'
    BY <2>1, <1>1, WithinUntouched
  <2> QED
    BY <2>2, <2>3 DEF WithinInv
<1>10. ASSUME \/ CommitAccounts(u)
              \/ PostInvoice(u) /\ request[u].step = "locked"
       PROVE  \A j \in Invoices : Within(j)'
  <2>1. /\ request[u].step \in {"finalize", "locked"} /\ UNCHANGED receipt
        /\ invoice' = [invoice EXCEPT ![i].status = "finalized"]
    BY <1>3, <1>10 DEF CommitAccounts, PostInvoice
  <2>2. /\ invoice'[i].status = "finalized" /\ invoice'[i].lines = invoice[i].lines
        /\ \A j \in Invoices : j # i => invoice'[j] = invoice[j]
    BY <2>1, <1>1 DEF TypeOK, Invoice
  <2>3. invoice[i].status = "draft"
    BY <2>1, <1>1, <1>3 DEF StillTrue
  <2>4. ReceiptsOf(i) = {} /\ ReceiptsOf(i)' = ReceiptsOf(i) /\ Received(i)' = Received(i)
    BY <2>1, <2>3, <1>1 DEF Within, ReceiptsOf, Received
  <2>5. Received(i) = 0
    BY <2>4, <1>1, ReceivedType DEF Within
  <2>6. Within(i)'
    BY <2>2, <2>4, <2>5, <1>1 DEF Within
  <2> QED
    BY <2>1, <2>2, <2>6, <1>1, WithinUntouched
<1>11. CASE CommitAccounts(u)
  <2>1. \A v \in Users : StillFits(v)'
    <3>1. request'[u].step = "committed" /\ \A v \in Users : v # u => request'[v] = request[v]
      BY <1>11, <1>1 DEF CommitAccounts, TypeOK, Request
    <3>2. \A v \in Users : v # u => request'[v] = Idle
      BY <3>1, <1>2 DEF SerialInv, OneRequest
    <3> QED
      BY <3>1, <3>2 DEF StillFits, Idle
  <2> QED
    BY <2>1, <1>10, <1>11 DEF WithinInv
<1>12. CASE PostInvoice(u)
  <2>1. Done(u) /\ (request[u].step = "locked" \/ UNCHANGED <<invoice, receipt>>)
    BY <1>12 DEF PostInvoice
  <2>2. \A j \in Invoices : Within(j)'
    BY <2>1, <1>1, <1>10, <1>12, WithinUntouched
  <2> QED
    BY <2>1, <2>2, <1>4 DEF WithinInv
<1>13. CASE WriteReceipt(u)
  <2>1. PICK x \in Receipts :
          /\ receipt[x].state = "absent"
          /\ receipt' = [receipt EXCEPT ![x] = [state |-> "live", invoice |-> i,
                                                amount |-> request[u].amount]]
    BY <1>3, <1>13 DEF WriteReceipt
  <2>2. request[u].step = "receipt" /\ Done(u) /\ UNCHANGED invoice
    BY <1>13 DEF WriteReceipt
  <2>3. /\ receipt'[x].state = "live" /\ receipt'[x].invoice = i
        /\ receipt'[x].amount = request[u].amount
        /\ \A y \in Receipts \ {x} : receipt'[y] = receipt[y]
    BY <2>1 DEF TypeOK
  <2>4. x \notin ReceiptsOf(i) /\ ReceiptsOf(i)' = ReceiptsOf(i) \cup {x}
    BY <2>1, <2>3 DEF ReceiptsOf
  <2>5. IsFiniteSet(ReceiptsOf(i)') /\ Received(i)' = Received(i) + request[u].amount
    BY <2>3, <2>4, <1>1, ReceiptComes DEF Within
  <2>6. /\ invoice[i].status = "finalized"
        /\ request[u].amount + Received(i) <= Total(invoice[i].lines)
    BY <2>2, <1>1, <1>3 DEF StillFits
  <2>7. Received(i) \in Nat /\ request[u].amount \in Nat
    BY <2>2, <1>1, RequestFields, ReceivedType, AmountsAssumption DEF Within
  <2>8. Within(i)'
    <3>1. Received(i)' <= Total(invoice[i].lines)
      BY <2>5, <2>6, <2>7
    <3> QED
      BY <2>2, <2>5, <2>6, <3>1, <1>1 DEF Within
  <2>9. \A j \in Invoices : j # i => Within(j)'
    <3>1. \A j \in Invoices : j # i => /\ ReceiptsOf(j)' = ReceiptsOf(j)
                                       /\ \A y \in ReceiptsOf(j) : receipt'[y] = receipt[y]
      BY <2>1, <2>3 DEF ReceiptsOf
    <3> QED
      BY <2>2, <3>1, <1>1, WithinElsewhere
  <2> QED
    BY <2>2, <2>8, <2>9, <1>4 DEF WithinInv
<1>14. CASE SelectVoided(u)
  <2>1. /\ UNCHANGED <<invoice, receipt>> /\ request[u].step = "void"
        /\ request'[u].step = "voiding" /\ request'[u].invoice = i
        /\ \A v \in Users \ {u} : request'[v] = request[v]
    BY <1>3, <1>14 DEF SelectVoided, TypeOK
  <2>2. ReceiptsOf(i)' = {}
    BY <2>1, <1>1, <1>3 DEF StillFits, ReceiptsOf
  <2>3. StillFits(u)'
    BY <2>1, <2>2 DEF StillFits
  <2>4. \A v \in Users : StillFits(v)'
    BY <2>1, <2>3, <1>1, FitsUntouched
  <2>5. \A j \in Invoices : Within(j)'
    BY <2>1, <1>1, WithinUntouched
  <2> QED
    BY <2>4, <2>5 DEF WithinInv
<1> QED
  BY <1>5, <1>6, <1>7, <1>8, <1>9, <1>11, <1>12, <1>13, <1>14 DEF Write

LEMMA WithinNext ==
    ~Overlap /\ TypeOK /\ TypeOK' /\ SerialInv /\ WithinInv /\ [Next]_vars => WithinInv'
<1> SUFFICES ASSUME ~Overlap, TypeOK, TypeOK', SerialInv, WithinInv, [Next]_vars
             PROVE  WithinInv'
  OBVIOUS
<1>1. /\ \A i \in Invoices : Within(i)
      /\ \A v \in Users : StillFits(v)
  BY DEF WithinInv
<1>2. ASSUME NEW u \in Users, Abort(u) PROVE WithinInv'
  <2>1. request[u] # Idle /\ Done(u) /\ UNCHANGED <<invoice, receipt>>
    BY <1>2 DEF Abort
  <2> QED
    BY <2>1, <1>1, NoneLeft, NothingDecided, WithinUntouched DEF WithinInv
<1>3. ASSUME NEW u \in Users, ChangePeriod(u) PROVE WithinInv'
  BY <1>1, <1>3, FitsUntouched, WithinUntouched DEF WithinInv, ChangePeriod
<1>4. ASSUME NEW u \in Users, DeleteReceipt(u) PROVE WithinInv'
  <2>1. PICK x \in Receipts : receipt' = [receipt EXCEPT ![x].state = "deleted"]
    BY <1>4 DEF DeleteReceipt
  <2>2. UNCHANGED invoice /\ \A v \in Users : request'[v] = Idle
    BY <1>4 DEF DeleteReceipt, Free
  <2>3. /\ receipt'[x].state = "deleted"
        /\ \A y \in Receipts \ {x} : receipt'[y] = receipt[y]
    BY <2>1 DEF TypeOK, Receipt
  <2>4. ASSUME NEW i \in Invoices PROVE Within(i)'
    <3>1. ReceiptsOf(i)' = ReceiptsOf(i) \ {x}
      BY <2>3 DEF ReceiptsOf
    <3>2. IsFiniteSet(ReceiptsOf(i)) /\ IsFiniteSet(ReceiptsOf(i)') /\ Received(i)' <= Received(i)
      BY <2>3, <3>1, <1>1, ReceiptGoes DEF Within
    <3>3. Received(i) \in Nat /\ Received(i)' \in Nat
      BY <3>2, ReceivedType, ReceivedTypeNext
    <3> QED
      BY <2>2, <3>1, <3>2, <3>3, <1>1 DEF Within
  <2> QED
    BY <2>2, <2>4, NothingDecided DEF WithinInv
<1>5. CASE UNCHANGED vars
  BY <1>1, <1>5, FitsUntouched, WithinUntouched DEF WithinInv, vars
<1> QED
  BY <1>2, <1>3, <1>4, <1>5, WithinLoad, WithinWrite DEF Next

\* Requests one at a time: the receipts that count never exceed the invoice, and a
\* draft, void or deleted invoice has none.
THEOREM ReceiptsWithin == ~Overlap => (Spec => []ReceiptsWithinInvoice)
<1> SUFFICES ASSUME ~Overlap PROVE Spec => []ReceiptsWithinInvoice
  OBVIOUS
<1>1. TypeOK /\ SerialInv /\ WithinInv /\ [Next]_vars => TypeOK' /\ SerialInv' /\ WithinInv'
  BY TypeNext, SerialNext, WithinNext
<1>2. WithinInv => ReceiptsWithinInvoice
  BY DEF WithinInv, Within, ReceiptsWithinInvoice
<1> QED
  BY <1>1, <1>2, TypeInit, SerialInit, WithinInit, PTL DEF Spec
=============================================================================
