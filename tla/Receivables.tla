----------------------------- MODULE Receivables -----------------------------
(***************************************************************************)
(* Accounts receivable (backend/app/routers/ar.py, ar_service.py) over the *)
(* general ledger and the maker-checker rules.                             *)
(*                                                                         *)
(* Every HTTP request has a database session of its own at READ COMMITTED  *)
(* isolation and takes no row lock when it loads an invoice. A handler is  *)
(* therefore two steps or more: it loads the invoice and decides (one      *)
(* action per endpoint, below), and it writes later, against whatever the  *)
(* row holds by then (WriteInvoice ... PostInvoice). SQLAlchemy writes the *)
(* columns the handler changed and no other, which Patch and Patched keep  *)
(* apart. A user has one request at a time; Overlap = FALSE is the program *)
(* serving one request after the other.                                    *)
(***************************************************************************)
EXTENDS Ledger, Approval, FiniteSetsExt

CONSTANTS Users,            \* finance users
          Invoices, Receipts, \* identifiers, each used for one row only
          Amounts,          \* amounts of invoice lines and of receipts
          Threshold,        \* finance_approval_threshold
          Keep,             \* marks a column a request does not write
          Overlap,          \* may requests overlap?
          Charts            \* what the chart of accounts may be at first

VARIABLES accounts,         \* do the AR accounts exist, or did a posting add them?
          invoice,          \* customer_invoices and their lines
          receipt,          \* customer_receipts
          request,          \* the request each user has in flight
          signed            \* history: the lines the last approver was shown

vars == <<period, ledger, accounts, invoice, receipt, request, signed>>

ASSUME AmountsAssumption == Amounts \subseteq Nat \ {0}
ASSUME FlagsAssumption   == Overlap \in BOOLEAN /\ Charts \subseteq {"complete", "lacking"}
ASSUME NoUserAssumption  == NoUser \notin Users
ASSUME KeepAssumption    == Keep \notin Periods \cup Users \cup {NoUser} \cup ApprovalStatus
ASSUME SomeAssumption    == Periods # {} /\ Invoices # {} /\ Amounts # {}

-----------------------------------------------------------------------------
(* Rows.  A line carries its author: with one request per user at a time   *)
(* that identifies the line rows an edit replaces.                         *)

Line == [author : Users, amount : Amounts]
Total(lines) == SumFunctionOnSet([l \in lines |-> l.amount], lines)
Totals == {Total(lines) : lines \in SUBSET Line}

InvoiceStatus == {"absent", "draft", "finalized", "void", "deleted"}

Invoice == [status : InvoiceStatus, lines : SUBSET Line, period : Periods,
            approval : ApprovalStatus, prepared : Users \cup {NoUser},
            submitted : Users \cup {NoUser}, approver : Users \cup {NoUser}]

Receipt == [state : {"absent", "live", "deleted"}, invoice : Invoices, amount : Amounts]

\* A user posts an invoice once at most (it is never a draft again), so the
\* author tells the journal entries of an invoice apart.
Entry == [by : Users, period : Periods, amount : Totals \cup Amounts]

InvoiceRef(i)  == <<"invoice", i>>
ReceiptRef(r)  == <<"receipt", r>>
Refs == {InvoiceRef(i) : i \in Invoices} \cup {ReceiptRef(r) : r \in Receipts}

NeedsApproval(lines) == Total(lines) >= Threshold

\* amount_received and balance_due: the sum of the receipts. The sum tests
\* receipt.reversed_at, a column CustomerReceipt does not map, so it raises
\* AttributeError for every invoice that has a receipt (Readable).
ReceiptsOf(i) == {r \in Receipts : receipt[r].state = "live" /\ receipt[r].invoice = i}
Received(i)   == SumFunctionOnSet([r \in Receipts |-> receipt[r].amount], ReceiptsOf(i))
Readable(i)   == ReceiptsOf(i) = {}
Exists(i)     == invoice[i].status \notin {"absent", "deleted"}

(* The columns a request changed, and a row after they are written.        *)

Changed(old, new) == IF new = old THEN Keep ELSE new
Written(old, new) == IF new = Keep THEN old ELSE new

Patch(old, new) ==
    [period    |-> Changed(old.period, new.period),
     approval  |-> Changed(old.approval, new.approval),
     prepared  |-> Changed(old.prepared, new.prepared),
     submitted |-> Changed(old.submitted, new.submitted),
     approver  |-> Changed(old.approver, new.approver)]

Patched(row, patch) ==
    [status    |-> row.status,
     lines     |-> row.lines,
     period    |-> Written(row.period, patch.period),
     approval  |-> Written(row.approval, patch.approval),
     prepared  |-> Written(row.prepared, patch.prepared),
     submitted |-> Written(row.submitted, patch.submitted),
     approver  |-> Written(row.approver, patch.approver)]

-----------------------------------------------------------------------------
(* Requests.                                                               *)

Idle == [step |-> "idle"]

\* The invoice row is locked by the transaction that has flushed its UPDATE.
Locks(u, i) == request[u].step = "locked" /\ request[u].invoice = i
Unlocked(i) == \A u \in Users : ~Locks(u, i)

\* May user u's next request be served now?
Free(u) == /\ request[u] = Idle
           /\ Overlap \/ \A v \in Users : request[v] = Idle

\* u's request has loaded what it needs and decided what to write.
Begin(u, r) ==
    /\ request' = [request EXCEPT ![u] = r]
    /\ UNCHANGED <<period, ledger, accounts, invoice, receipt, signed>>

Done(u) == request' = [request EXCEPT ![u] = Idle]

\* create_invoice
CreateInvoice(u) ==
    /\ Free(u)
    /\ \E i \in Invoices, a \in Amounts, p \in Periods :
         LET line == [author |-> u, amount |-> a]
             row  == [invoice[i] EXCEPT !.status = "draft", !.lines = {line},
                                        !.period = p]
         IN /\ invoice[i].status = "absent"
            /\ invoice' = [invoice EXCEPT
                             ![i] = Initialize(row, NeedsApproval({line}), u)]
    /\ UNCHANGED <<period, ledger, accounts, receipt, request, signed>>

\* update_invoice, loading: replaces the lines, re-dates and re-initializes.
UpdateInvoice(u) ==
    /\ Free(u)
    /\ \E i \in Invoices, a \in Amounts, p \in Periods :
         LET row  == invoice[i]
             line == [author |-> u, amount |-> a]
             want == Initialize([row EXCEPT !.period = p], NeedsApproval({line}), u)
         IN /\ row.status = "draft"
            /\ Begin(u, [step |-> "edit", invoice |-> i, patch |-> Patch(row, want),
                         dropped |-> row.lines, added |-> {line}])

\* submit_invoice, loading.
SubmitInvoice(u) ==
    /\ Free(u)
    /\ \E i \in Invoices :
         LET row == invoice[i]  needed == NeedsApproval(row.lines)
         IN /\ row.status = "draft"
            /\ MaySubmit(row, needed)
            /\ Begin(u, [step |-> "submit", invoice |-> i,
                         patch |-> Patch(row, Submit(row, needed, u))])

\* approve_invoice, loading: only the review state is looked at.
ApproveInvoice(u) ==
    /\ Free(u)
    /\ \E i \in Invoices :
         LET row == invoice[i]
         IN /\ Exists(i)
            /\ MayReview(row, u)
            /\ Begin(u, [step |-> "approve", invoice |-> i,
                         patch |-> Patch(row, Approve(row, u)), lines |-> row.lines])

\* reject_invoice, loading.
RejectInvoice(u) ==
    /\ Free(u)
    /\ \E i \in Invoices :
         LET row == invoice[i]
         IN /\ Exists(i)
            /\ MayReview(row, u)
            /\ Begin(u, [step |-> "reject", invoice |-> i,
                         patch |-> Patch(row, Reject(row))])

\* delete_invoice, loading.
DeleteInvoice(u) ==
    /\ Free(u)
    /\ \E i \in Invoices : /\ invoice[i].status = "draft"
                           /\ Begin(u, [step |-> "delete", invoice |-> i])

\* finalize_invoice, loading.
FinalizeInvoice(u) ==
    /\ Free(u)
    /\ \E i \in Invoices :
         LET row == invoice[i]
         IN /\ row.status = "draft"
            /\ row.lines # {}
            /\ Postable(row)
            /\ Begin(u, [step |-> "finalize", invoice |-> i, period |-> row.period,
                         amount |-> Total(row.lines)])

\* Mutant: receipts are not looked at.
VoidWithReceipts(u) ==
    /\ Free(u)
    /\ \E i \in Invoices : /\ invoice[i].status = "finalized"
                           /\ Begin(u, [step |-> "void", invoice |-> i])

\* void_invoice, loading: no receipt may count against the invoice.
VoidInvoice(u) ==
    /\ Free(u)
    /\ \E i \in Invoices : /\ invoice[i].status = "finalized"
                           /\ Readable(i)
                           /\ Received(i) = 0
                           /\ Begin(u, [step |-> "void", invoice |-> i])

\* create_receipt, loading: within the balance, in a period seen open. The AR
\* accounts exist by now, so nothing is committed before the whole receipt is.
CreateReceipt(u) ==
    /\ Free(u)
    /\ \E i \in Invoices, a \in Amounts, p \in Periods :
         /\ invoice[i].status = "finalized"
         /\ Readable(i)
         /\ a + Received(i) <= Total(invoice[i].lines)
         /\ IsOpen(p)
         /\ Begin(u, [step |-> "receipt", invoice |-> i, period |-> p, amount |-> a])

-----------------------------------------------------------------------------
(* The writes.                                                             *)

\* The commit of submit, approve and reject. Writing a row that was deleted
\* meanwhile fails, and the request is lost (Abort).
WriteReview(u) ==
    LET r == request[u] IN
    /\ r.step \in {"submit", "approve", "reject"}
    /\ Unlocked(r.invoice) /\ Exists(r.invoice)
    /\ invoice' = [invoice EXCEPT ![r.invoice] = Patched(@, r.patch)]
    /\ signed' = IF r.step = "approve" THEN [signed EXCEPT ![r.invoice] = r.lines]
                                       ELSE signed
    /\ Done(u)
    /\ UNCHANGED <<period, ledger, accounts, receipt>>

\* The commit of an edit: the line rows it loaded go, its own line comes.
WriteEdit(u) ==
    LET r   == request[u]
        row == Patched(invoice[r.invoice], r.patch)
    IN
    /\ r.step = "edit"
    /\ Unlocked(r.invoice) /\ Exists(r.invoice)
    /\ invoice' = [invoice EXCEPT
          ![r.invoice] = [row EXCEPT !.lines = (row.lines \ r.dropped) \cup r.added]]
    /\ Done(u)
    /\ UNCHANGED <<period, ledger, accounts, receipt, signed>>

\* The commit of a delete; the foreign key takes the receipts along.
WriteDelete(u) ==
    LET r == request[u] IN
    /\ r.step = "delete"
    /\ Unlocked(r.invoice) /\ Exists(r.invoice)
    /\ invoice' = [invoice EXCEPT ![r.invoice].status = "deleted"]
    /\ receipt' = [x \in Receipts |->
                     IF receipt[x].invoice = r.invoice /\ receipt[x].state # "absent"
                       THEN [receipt[x] EXCEPT !.state = "deleted"] ELSE receipt[x]]
    /\ Done(u)
    /\ UNCHANGED <<period, ledger, accounts, signed>>

\* Mutant: delete_entries_by_source commits, as it does unless told not to.
SelectAndCommit(u) ==
    LET r == request[u] IN
    /\ r.step = "void"
    /\ request' = [request EXCEPT ![u] = [step |-> "voiding", invoice |-> r.invoice,
                                          prior |-> ledger[InvoiceRef(r.invoice)]]]
    /\ Erase(InvoiceRef(r.invoice))
    /\ UNCHANGED <<period, accounts, invoice, receipt, signed>>

\* void_invoice selects the invoice's entries; the row is not locked by then.
SelectVoided(u) ==
    LET r == request[u] IN
    /\ r.step = "void"
    /\ request' = [request EXCEPT ![u] = [step |-> "voiding", invoice |-> r.invoice,
                                          prior |-> ledger[InvoiceRef(r.invoice)]]]
    /\ UNCHANGED <<period, ledger, accounts, invoice, receipt, signed>>

\* The commit of a void: the selected entries go, whatever their period, and
\* the status changes. An entry posted since they were selected stays.
WriteVoid(u) ==
    LET r == request[u] IN
    /\ r.step = "voiding"
    /\ Unlocked(r.invoice) /\ Exists(r.invoice)
    /\ Remove(InvoiceRef(r.invoice), r.prior)
    /\ invoice' = [invoice EXCEPT ![r.invoice].status = "void"]
    /\ Done(u)
    /\ UNCHANGED <<period, accounts, receipt, signed>>

\* post_invoice_to_gl begins. With the AR accounts in the chart, its first
\* query flushes the UPDATE of the invoice: the row is locked until the commit,
\* the prior entries are selected and the period is read.
LockInvoice(u) ==
    LET r == request[u] IN
    /\ r.step = "finalize"
    /\ Unlocked(r.invoice) /\ Exists(r.invoice)
    /\ accounts # "lacking"
    /\ IsOpen(r.period)
    /\ request' = [request EXCEPT ![u] =
                     [step |-> "locked", invoice |-> r.invoice, period |-> r.period,
                      amount |-> r.amount, prior |-> ledger[InvoiceRef(r.invoice)]]]
    /\ UNCHANGED <<period, ledger, accounts, invoice, receipt, signed>>

\* With an account missing, ensure_accounts commits the session instead: the
\* invoice is finalized and its lock gone before anything is posted.
CommitAccounts(u) ==
    LET r == request[u] IN
    /\ r.step = "finalize"
    /\ Unlocked(r.invoice) /\ Exists(r.invoice)
    /\ accounts = "lacking"
    /\ accounts' = "added"
    /\ invoice' = [invoice EXCEPT ![r.invoice].status = "finalized"]
    /\ request' = [request EXCEPT ![u].step = "committed"]
    /\ UNCHANGED <<period, ledger, receipt, signed>>

\* ... then the prior entries are selected and the period read, with no lock.
SelectPrior(u) ==
    LET r == request[u] IN
    /\ r.step = "committed"
    /\ IsOpen(r.period)
    /\ request' = [request EXCEPT ![u] =
                     [step |-> "selected", invoice |-> r.invoice, period |-> r.period,
                      amount |-> r.amount, prior |-> ledger[InvoiceRef(r.invoice)]]]
    /\ UNCHANGED <<period, ledger, accounts, invoice, receipt, signed>>

\* post_invoice_to_gl commits: the prior entries go, the entry comes. The row
\* is already finalized when this is the second commit of the request.
PostInvoice(u) ==
    LET r == request[u] IN
    /\ \/ /\ r.step = "locked"
          /\ invoice' = [invoice EXCEPT ![r.invoice].status = "finalized"]
       \/ /\ r.step = "selected"
          /\ Unlocked(r.invoice) /\ Exists(r.invoice)
          /\ UNCHANGED invoice
    /\ Post(InvoiceRef(r.invoice), r.prior,
            [by |-> u, period |-> r.period, amount |-> r.amount])
    /\ Done(u)
    /\ UNCHANGED <<period, accounts, receipt, signed>>

\* create_receipt commits the receipt and its entry together.
WriteReceipt(u) ==
    LET r == request[u] IN
    /\ r.step = "receipt"
    /\ Exists(r.invoice)
    /\ \E x \in Receipts :
         /\ receipt[x].state = "absent"
         /\ receipt' = [receipt EXCEPT ![x] = [state |-> "live", invoice |-> r.invoice,
                                               amount |-> r.amount]]
         /\ Post(ReceiptRef(x), {}, [by |-> u, period |-> r.period, amount |-> r.amount])
    /\ Done(u)
    /\ UNCHANGED <<period, accounts, invoice, signed>>

\* Mutant: the journal entry is forgotten.
DeleteReceiptOnly(u) ==
    /\ Free(u)
    /\ \E x \in Receipts : /\ receipt[x].state = "live"
                           /\ receipt' = [receipt EXCEPT ![x].state = "deleted"]
    /\ UNCHANGED <<period, ledger, accounts, invoice, request, signed>>

\* delete_receipt: the receipt goes, and the entries under its reference; two
\* deletes of one receipt leave what one leaves. No balance is read.
DeleteReceipt(u) ==
    /\ Free(u)
    /\ \E x \in Receipts :
         /\ receipt[x].state = "live"
         /\ receipt' = [receipt EXCEPT ![x].state = "deleted"]
         /\ Erase(ReceiptRef(x))
    /\ UNCHANGED <<period, accounts, invoice, request, signed>>

\* A request fails or is cut off: its transaction is rolled back.
Abort(u) ==
    /\ request[u] # Idle
    /\ Done(u)
    /\ UNCHANGED <<period, ledger, accounts, invoice, receipt, signed>>

\* close_period and reopen_period, called by user u.
ChangePeriod(u) ==
    /\ Free(u)
    /\ \E p \in Periods : ClosePeriod(p) \/ ReopenPeriod(p)
    /\ UNCHANGED <<accounts, invoice, receipt, request, signed>>

-----------------------------------------------------------------------------
Init ==
    /\ period = [p \in Periods |-> "open"]
    /\ ledger = [ref \in Refs |-> {}]
    /\ accounts \in Charts
    /\ invoice = [i \in Invoices |->
                    [status |-> "absent", lines |-> {}, period |-> CHOOSE p \in Periods : TRUE,
                     approval |-> "not_required", prepared |-> NoUser,
                     submitted |-> NoUser, approver |-> NoUser]]
    /\ receipt = [r \in Receipts |-> [state |-> "absent", invoice |-> CHOOSE i \in Invoices : TRUE,
                                      amount |-> CHOOSE a \in Amounts : TRUE]]
    /\ request = [u \in Users |-> Idle]
    /\ signed = [i \in Invoices |-> {}]

Load(u) == \/ CreateInvoice(u) \/ UpdateInvoice(u) \/ SubmitInvoice(u)
           \/ ApproveInvoice(u) \/ RejectInvoice(u) \/ DeleteInvoice(u)
           \/ FinalizeInvoice(u) \/ VoidInvoice(u) \/ CreateReceipt(u)

Write(u) == \/ WriteReview(u) \/ WriteEdit(u) \/ WriteDelete(u) \/ SelectVoided(u)
            \/ WriteVoid(u) \/ LockInvoice(u) \/ CommitAccounts(u) \/ SelectPrior(u)
            \/ PostInvoice(u) \/ WriteReceipt(u)

Next == \E u \in Users : \/ Load(u) \/ Write(u) \/ Abort(u) \/ DeleteReceipt(u)
                         \/ ChangePeriod(u)

Spec == Init /\ [][Next]_vars

-----------------------------------------------------------------------------
(* Properties.                                                             *)

PatchType == [period : Periods \cup {Keep}, approval : ApprovalStatus \cup {Keep},
              prepared : Users \cup {NoUser, Keep}, submitted : Users \cup {NoUser, Keep},
              approver : Users \cup {NoUser, Keep}]

Request ==
    {Idle}
    \cup [step : {"edit"}, invoice : Invoices, patch : PatchType,
          dropped : SUBSET Line, added : SUBSET Line]
    \cup [step : {"submit", "reject"}, invoice : Invoices, patch : PatchType]
    \cup [step : {"approve"}, invoice : Invoices, patch : PatchType, lines : SUBSET Line]
    \cup [step : {"delete", "void"}, invoice : Invoices]
    \cup [step : {"voiding"}, invoice : Invoices, prior : SUBSET Entry]
    \cup [step : {"finalize", "committed"}, invoice : Invoices, period : Periods,
          amount : Totals]
    \cup [step : {"locked", "selected"}, invoice : Invoices, period : Periods,
          amount : Totals, prior : SUBSET Entry]
    \cup [step : {"receipt"}, invoice : Invoices, period : Periods, amount : Amounts]

\* The types of the variables.
TypeOK ==
    /\ period \in [Periods -> PeriodStatus]
    /\ ledger \in [Refs -> SUBSET Entry]
    /\ accounts \in {"complete", "lacking", "added"}
    /\ invoice \in [Invoices -> Invoice]
    /\ receipt \in [Receipts -> Receipt]
    /\ request \in [Users -> Request]
    /\ signed \in [Invoices -> SUBSET Line]

\* Re-posting never counts a document twice: post_invoice_to_gl drops what was
\* posted before, and the row lock its flush takes keeps two finalizes of one
\* invoice from each missing the other's entry. It takes a chart with the AR
\* accounts in it: the commit that adds them gives the lock up.
OneEntryPerDocument ==
    accounts = "complete" => \A ref \in Refs : \A e, f \in ledger[ref] : e = f

\* A receipt and the entry posted for it come and go together, whatever goes on
\* around them. The one exception is an invoice deleted on a stale look at a
\* draft: the database takes its receipts along, and nothing their entries.
ReceiptsMatchEntries ==
    \A r \in Receipts :
      /\ receipt[r].state = "live" =>
           \E e \in ledger[ReceiptRef(r)] : e.amount = receipt[r].amount
      /\ receipt[r].state = "absent" => ledger[ReceiptRef(r)] = {}
      /\ receipt[r].state = "deleted" /\ invoice[receipt[r].invoice].status # "deleted" =>
           ledger[ReceiptRef(r)] = {}

\* Between requests the ledger carries each finalized invoice at the total of
\* its lines in its month, and nothing for an invoice in another state.
InvoicesMatchEntries ==
    \A i \in Invoices : Unlocked(i) /\ (\A u \in Users : request[u] = Idle) =>
      IF invoice[i].status = "finalized"
        THEN \E e \in ledger[InvoiceRef(i)] :
               e.amount = Total(invoice[i].lines) /\ e.period = invoice[i].period
        ELSE ledger[InvoiceRef(i)] = {}

\* Receipts that count never exceed the invoice, and a void or deleted
\* invoice has none.
ReceiptsWithinInvoice ==
    \A i \in Invoices :
      IF invoice[i].status = "finalized" THEN Received(i) <= Total(invoice[i].lines)
                                         ELSE ReceiptsOf(i) = {}

\* What posted was below the threshold or signed, by someone who neither
\* created nor submitted it, who was shown the very lines that posted.
PostedIsSignedOff ==
    \A i \in Invoices : invoice[i].status = "finalized" =>
      \/ invoice[i].approval = "not_required" /\ ~NeedsApproval(invoice[i].lines)
      \/ /\ invoice[i].approval = "approved"
         /\ DifferentPerson(invoice[i], invoice[i].approver)
         /\ signed[i] = invoice[i].lines

\* A posting keeps its row lock from the selection of the prior entries to its
\* commit: one request at most holds the lock of an invoice, and the entries
\* it selected are still all there are when it drops them.
LockHeld ==
    accounts = "complete" =>
    /\ \A u \in Users : request[u].step \notin {"committed", "selected"}
    /\ \A i \in Invoices : \A u, v \in Users : Locks(u, i) /\ Locks(v, i) => u = v
    /\ \A u \in Users, i \in Invoices :
         Locks(u, i) => request[u].prior = ledger[InvoiceRef(i)]

\* While requests overlap, a finalized invoice is in the ledger and a draft is
\* not: with the AR accounts in the chart, the entry comes with the commit that
\* finalizes and goes with the one that voids, never before it.
FinalizedHasEntry ==
    accounts = "complete" => \A i \in Invoices :
      /\ invoice[i].status = "finalized" => ledger[InvoiceRef(i)] # {}
      /\ invoice[i].status \in {"absent", "draft"} => ledger[InvoiceRef(i)] = {}

\* A step never adds an entry to a period that is closed when it is taken.
NothingPostedWhenClosed ==
    [][\A ref \in Refs : \A e \in ledger'[ref] \ ledger[ref] : period[e.period] = "open"]_vars


-----------------------------------------------------------------------------
(* What the repository says of itself and the code does not keep.           *)

\* "reported financials for a closed period remain immutable"
\* (models/general_ledger.py): an entry of a closed period stays.
ClosedPeriodsImmutable ==
    [][\A ref \in Refs : \A e \in ledger[ref] :
         period[e.period] = "closed" => e \in ledger'[ref]]_vars

\* finalize_invoice: "Lock a draft invoice and post it to the GL": once the
\* request is over, a finalized invoice is in the ledger.
FinalizedIsPosted ==
    \A i \in Invoices :
      invoice[i].status = "finalized" /\ (\A u \in Users : request[u] = Idle) =>
        ledger[InvoiceRef(i)] # {}

\* void_invoice: "Void a finalized invoice, reversing its GL entry": a void
\* invoice is not in the ledger.
VoidIsReversed ==
    accounts = "complete" => \A i \in Invoices :
      invoice[i].status = "void" => ledger[InvoiceRef(i)] = {}

\* update_invoice: "Any edit invalidates a prior sign-off": what posted was
\* what the checker was shown.
SignOffCoversPosting ==
    \A i \in Invoices :
      invoice[i].status = "finalized" /\ invoice[i].approval = "approved" =>
        signed[i] = invoice[i].lines
=============================================================================
