----------------------------- MODULE RentBilling -----------------------------
(***************************************************************************)
(* Recurring rent (backend/app/services/rent_service.py, routers/rent.py): *)
(* the charges of resident leases, the run that bills every month due, the *)
(* billing of one month by hand, and late fees. The daily job of           *)
(* tasks/resident_autopay.py starts the run on a replica that got the      *)
(* job's lock; staff start it with a button.                               *)
(*                                                                         *)
(* An invoice is committed with its journal entry; that its month has been *)
(* billed is written to the charge in a second transaction. A run works on *)
(* the charges as they were when it started, looks for the invoice of a    *)
(* month before it creates one, and stops at the first month it cannot     *)
(* bill. The process may die between any two of these steps.               *)
(*                                                                         *)
(* Charges fall due on one day of the month: today is the last month whose *)
(* due day has come. An invoice is paid as a whole.                        *)
(*                                                                         *)
(* The balance of an invoice that has a receipt cannot be read             *)
(* (ar_service.py:73 asks a receipt for a column it does not have): late   *)
(* fees stop at the first one.                                             *)
(***************************************************************************)
EXTENDS Jobs, Integers, FiniteSets

CONSTANTS Charges,          \* rent_charges
          FeeCharges,       \* those with a late-fee policy
          HandBilled,       \* those staff also bill month by month
          LastMonth,        \* the months are 1 .. LastMonth
          Starts, Ends,     \* months a charge may start and end in; 0: it has no start
          Closable,         \* periods that may be closed
          Edited, Moved,    \* charges that are edited or deleted; whose start is moved
          Vacated,          \* charges whose lease may lose its occupants
          Paid, Voided,     \* months whose invoices may be paid; voided
          Grace,            \* grace_days, in whole months
          Clerk,            \* the member of staff at the buttons
          Overlap,          \* may a run of the job overlap one of the staff?
          MaxCrashes

VARIABLES today,
          closed,           \* the accounting periods that are closed
          occupied,         \* charges whose lease has an occupant
          charge, invoice,
          work,             \* the run each worker is in
          crashes

Months      == 1 .. LastMonth
Workers     == Replicas \cup {Clerk}
books       == <<closed, occupied, invoice>>
billingVars == <<today, closed, occupied, charge, invoice, work, crashes, holder>>

ASSUME BillingAssumption ==
    /\ HolderAssumption /\ IsFiniteSet(Charges) /\ Clerk \notin Replicas \cup {Nobody, DeadSession}
    /\ FeeCharges \subseteq Charges /\ HandBilled \subseteq Charges
    /\ Vacated \subseteq Charges /\ Edited \subseteq Charges /\ Moved \subseteq Edited
    /\ Starts \subseteq Months \cup {0} /\ Ends \subseteq Months /\ Closable \subseteq Months
    /\ Paid \subseteq Months /\ Voided \subseteq Months /\ Starts # {} /\ Ends # {}
    /\ LastMonth \in Nat \ {0} /\ Grace \in Nat /\ Overlap \in BOOLEAN /\ MaxCrashes \in Nat

\* start = 0: start_date is null. billed = 0: last_billed_period is null.
Charge == [state : {"absent", "active", "inactive", "deleted"},
           start : Starts, end : Ends, billed : {0} \cup Months]

\* The invoices of one charge and month, and the late fees assessed on them.
Invoice == [copies : Nat, status : {"none", "open", "paid", "void"}, fees : Nat]

Item == Charges \X Months
NoRun == [step |-> "idle"]
\* A run has one item in hand and others still to do.
Run  == [step : {"look", "post", "mark", "look fee", "post fee"}, asOf : Months,
         item : Item, todo : SUBSET Item]

-----------------------------------------------------------------------------
(* Charges.                                                                 *)

\* create_charge
CreateCharge(c) ==
    /\ charge[c].state = "absent"
    /\ \E first \in Starts, last \in Ends :
         charge' = [charge EXCEPT ![c] = [state |-> "active", start |-> first,
                                          end |-> last, billed |-> 0]]
    /\ UNCHANGED <<today, books, work, crashes, holder>>

\* update_charge, the fields a run looks at.
UpdateCharge(c) ==
    /\ charge[c].state \in {"active", "inactive"}
    /\ \E state \in {"active", "inactive"}, last \in Ends,
          first \in IF c \in Moved THEN Starts ELSE {charge[c].start} :
         /\ <<state, first, last>> # <<charge[c].state, charge[c].start, charge[c].end>>
         /\ charge' = [charge EXCEPT ![c].state = state, ![c].start = first, ![c].end = last]
    /\ UNCHANGED <<today, books, work, crashes, holder>>

\* delete_charge: a soft delete.
DeleteCharge(c) ==
    /\ charge[c].state \in {"active", "inactive"}
    /\ charge' = [charge EXCEPT ![c].state = "deleted"]
    /\ UNCHANGED <<today, books, work, crashes, holder>>

-----------------------------------------------------------------------------
(* What a run has to do.                                                    *)

\* The first month that is not yet recorded as billed; without a start, the run's.
FirstUnbilled(row, asOf) ==
    IF row.billed # 0 THEN row.billed + 1 ELSE IF row.start # 0 THEN row.start ELSE asOf

\* _periods_due
PeriodsDue(row, asOf) ==
    {m \in Months : row.state = "active" /\ FirstUnbilled(row, asOf) <= m /\ m <= row.end /\ m <= asOf}

BillsDue(asOf) == {item \in Item : item[2] \in PeriodsDue(charge[item[1]], asOf)}

\* The first month of each charge.
Oldest(bills) == {item \in bills : \A other \in bills : other[1] = item[1] => item[2] <= other[2]}

\* w starts a run over the items, with one of those that may come first.
Begin(w, step, asOf, items, first) ==
    /\ work[w] = NoRun
    /\ w \in Replicas => Overlap \/ work[Clerk] = NoRun
    /\ w = Clerk => Overlap \/ \A r \in Replicas : work[r] = NoRun
    /\ \E item \in first :
         work' = [work EXCEPT ![w] = [step |-> step, asOf |-> asOf,
                                      item |-> item, todo |-> items \ {item}]]
    /\ UNCHANGED <<today, books, charge, crashes>>

\* run_recurring_billing: the charges come in no particular order.
StartBilling(w, asOf) == Begin(w, "look", asOf, BillsDue(asOf), Oldest(BillsDue(asOf)))

\* run_resident_autopay, up to the collection of the rent.
StartBillingJob(r) == TryLock(r) /\ StartBilling(r, today)

\* run_billing: the button may name any date.
PushRunBilling == \E asOf \in Months : StartBilling(Clerk, asOf) /\ UNCHANGED holder

\* generate_invoice: any month of a charge that is not deleted, active or not.
GenerateInvoice ==
    /\ \E c \in HandBilled, m \in Months :
         /\ charge[c].state \in {"active", "inactive"}
         /\ Begin(Clerk, "look", m, {<<c, m>>}, {<<c, m>>})
    /\ UNCHANGED holder

Overdue(item, asOf) == asOf - item[2] > Grace

\* The open invoices of active charges with a policy that are past their grace.
Late(asOf) == {item \in Item : /\ item[1] \in FeeCharges /\ charge[item[1]].state = "active"
                               /\ invoice[item].status = "open"
                               /\ Overdue(item, asOf)}

\* The late ones a run gets to: they come in no particular order, and the first
\* invoice that was paid when the run loaded them, of any charge, ends it.
Reached(asOf) == IF \E item \in Item : invoice[item].status = "paid"
                   THEN SUBSET Late(asOf) ELSE {Late(asOf)}

\* apply_late_fees: the button may name any date.
ApplyLateFees ==
    /\ \E asOf \in Months : \E late \in Reached(asOf) : Begin(Clerk, "look fee", asOf, late, late)
    /\ UNCHANGED holder

-----------------------------------------------------------------------------
(* One month after the other.                                               *)

\* The run is over, however it ended; the job's lock goes with it.
Finish(w) ==
    /\ work' = [work EXCEPT ![w] = NoRun]
    /\ IF w \in Replicas THEN Unlock(w) ELSE UNCHANGED holder

ItemOf(w) == work[w].item

\* The next month of the charge in hand; when it has no more, the first of another.
NextBills(w) ==
    LET same == {item \in work[w].todo : item[1] = ItemOf(w)[1]}
    IN  Oldest(IF same = {} THEN work[w].todo ELSE same)

\* w turns to one of the items that may come next, at the step given.
Advance(w, step, next) ==
    IF work[w].todo = {}
      THEN Finish(w)
      ELSE /\ \E item \in next :
                work' = [work EXCEPT ![w] = [step |-> step, asOf |-> @.asOf,
                                             item |-> item, todo |-> @.todo \ {item}]]
           /\ UNCHANGED holder

Proceed(w, step) == work' = [work EXCEPT ![w].step = step] /\ UNCHANGED holder

\* Mutant: an invoice of the month is not looked for.
NeverThere(item) == FALSE

\* _invoice_exists, for the rent invoice; a void one counts.
InvoiceExists(item) == invoice[item].copies > 0

RecordBilled(item) == charge' = [charge EXCEPT ![item[1]].billed = item[2]]

\* Mutant: the month is recorded as billed before its invoice is there.
RecordFirst(w) ==
    /\ work[w].step = "look"
    /\ IF InvoiceExists(ItemOf(w))
         THEN Advance(w, "look", NextBills(w)) /\ UNCHANGED charge
         ELSE occupied[ItemOf(w)[1]] /\ Proceed(w, "post") /\ RecordBilled(ItemOf(w))
    /\ UNCHANGED <<today, books, crashes>>

\* generate_rent_invoice up to the insert: a month that has its invoice is passed by.
LookUpInvoice(w) ==
    /\ work[w].step = "look"
    /\ IF InvoiceExists(ItemOf(w))
         THEN Advance(w, "look", NextBills(w))
         ELSE occupied[ItemOf(w)[1]] /\ Proceed(w, "post")
    /\ UNCHANGED <<today, books, charge, crashes>>

\* The invoice and its entry are committed. (Where the chart has no receivables account
\* yet, the account's own commit comes between the two: here it has one.)
PostInvoice(w) ==
    LET item == ItemOf(w) IN
    /\ work[w].step = "post"
    /\ item[2] \notin closed
    /\ invoice' = [invoice EXCEPT ![item] = [copies |-> @.copies + 1, status |-> "open", fees |-> @.fees]]
    /\ Proceed(w, "mark")
    /\ UNCHANGED <<today, closed, occupied, charge, crashes>>

\* The second commit of generate_rent_invoice.
MarkBilled(w) ==
    /\ work[w].step = "mark"
    /\ RecordBilled(ItemOf(w))
    /\ Advance(w, "look", NextBills(w))
    /\ UNCHANGED <<today, books, crashes>>

\* _invoice_exists, for the late fee.
FeeExists(item) == invoice[item].fees > 0

LookUpFee(w) ==
    /\ work[w].step = "look fee"
    /\ IF FeeExists(ItemOf(w))
         THEN Advance(w, "look fee", work[w].todo)
         ELSE Proceed(w, "post fee")
    /\ UNCHANGED <<today, books, charge, crashes>>

\* The fee is dated the day of the run; each is committed by its posting.
PostFee(w) ==
    /\ work[w].step = "post fee"
    /\ work[w].asOf \notin closed
    /\ invoice' = [invoice EXCEPT ![ItemOf(w)].fees = @ + 1]
    /\ Advance(w, "look fee", work[w].todo)
    /\ UNCHANGED <<today, closed, occupied, charge, crashes>>

\* RentError: no occupant to bill. GLError: the period is closed.
Refused(w) ==
    \/ work[w].step = "look" /\ ~InvoiceExists(ItemOf(w)) /\ ~occupied[ItemOf(w)[1]]
    \/ work[w].step = "post" /\ ItemOf(w)[2] \in closed
    \/ work[w].step = "post fee" /\ work[w].asOf \in closed

\* The error ends the whole run; what it had committed stays.
Abort(w) ==
    /\ Refused(w)
    /\ Finish(w)
    /\ UNCHANGED <<today, books, charge, crashes>>

\* The process of w dies and the rest of its run with it.
CrashRun(w) ==
    /\ work[w] # NoRun /\ crashes < MaxCrashes
    /\ crashes' = crashes + 1
    /\ work' = [work EXCEPT ![w] = NoRun]
    /\ LoseSession(w)
    /\ UNCHANGED <<today, books, charge>>

ExpireSession == DropSession /\ UNCHANGED <<today, books, charge, work, crashes>>

-----------------------------------------------------------------------------
(* What goes on around the runs.                                            *)

NextMonth ==
    /\ today < LastMonth
    /\ today' = today + 1
    /\ UNCHANGED <<books, charge, work, crashes, holder>>

\* close_period, reopen_period
ClosePeriod(m) == m \notin closed /\ closed' = closed \cup {m}
ReopenPeriod(m) == m \in closed /\ closed' = closed \ {m}

ChangePeriod(m) ==
    /\ ClosePeriod(m) \/ ReopenPeriod(m)
    /\ UNCHANGED <<today, occupied, charge, invoice, work, crashes, holder>>

\* update_lease may leave a lease without occupants, or give it some.
ChangeOccupants(c) ==
    /\ occupied' = [occupied EXCEPT ![c] = ~@]
    /\ UNCHANGED <<today, closed, charge, invoice, work, crashes, holder>>

\* create_receipt for all of it, or void_invoice. Only late fees tell the difference.
SettleInvoice(item) ==
    /\ invoice[item].status = "open"
    /\ \/ item[2] \in Paid /\ invoice' = [invoice EXCEPT ![item].status = "paid"]
       \/ item[2] \in Voided /\ invoice' = [invoice EXCEPT ![item].status = "void"]
    /\ UNCHANGED <<today, closed, occupied, charge, work, crashes, holder>>

BillingInit ==
    /\ today = 1 /\ closed = {} /\ occupied = [c \in Charges |-> TRUE]
    /\ charge = [c \in Charges |-> [state |-> "absent", start |-> CHOOSE m \in Starts : TRUE,
                                end |-> CHOOSE m \in Ends : TRUE, billed |-> 0]]
    /\ invoice = [item \in Item |-> [copies |-> 0, status |-> "none", fees |-> 0]]
    /\ work = [w \in Workers |-> NoRun]
    /\ crashes = 0 /\ holder = Nobody

BillingStep(w) ==
    \/ LookUpInvoice(w) \/ PostInvoice(w) \/ MarkBilled(w)
    \/ LookUpFee(w) \/ PostFee(w) \/ Abort(w)

BillingNext ==
    \/ \E c \in Charges : CreateCharge(c)
    \/ \E c \in Edited : UpdateCharge(c) \/ DeleteCharge(c)
    \/ \E c \in Vacated : ChangeOccupants(c)
    \/ \E r \in Replicas : StartBillingJob(r)
    \/ PushRunBilling \/ GenerateInvoice \/ ApplyLateFees
    \/ \E w \in Workers : BillingStep(w) \/ CrashRun(w)
    \/ ExpireSession
    \/ NextMonth
    \/ \E m \in Closable : ChangePeriod(m)
    \/ \E item \in FeeCharges \X Months : SettleInvoice(item)

\* A process that is not killed goes on; the database notices a dead session; the
\* scheduler fires the job again every day, so it gets its turn some day.
BillingFairness ==
    /\ \A w \in Workers : WF_billingVars(BillingStep(w))
    /\ WF_billingVars(ExpireSession)
    /\ SF_billingVars(\E r \in Replicas : StartBillingJob(r))

BillingSpec == BillingInit /\ [][BillingNext]_billingVars /\ BillingFairness

-----------------------------------------------------------------------------
(* Properties.                                                              *)

\* Every variable holds what the code may store in it, and a job runs on the
\* replica that holds its lock.
BillingTypeOK ==
    /\ today \in Months /\ closed \subseteq Closable /\ occupied \in [Charges -> BOOLEAN]
    /\ charge \in [Charges -> Charge]
    /\ invoice \in [Item -> Invoice]
    /\ work \in [Workers -> {NoRun} \cup Run]
    /\ \A r \in Replicas : work[r] # NoRun => holder = r
    /\ crashes \in 0 .. MaxCrashes /\ holder \in Holders

\* A month of a charge has at most one invoice, whatever runs were started, were
\* cut short and started again, and whatever was billed by hand in between
\* ("Idempotent: returns None if an invoice for this charge+period already exists",
\* rent_service.py). It takes runs that do not overlap.
BilledOnce == \A item \in Item : invoice[item].copies <= 1

\* No month is left out between two that were billed, and the month recorded as the
\* last one billed has its invoice, however many months a crash left unrecorded
\* ("Bills every month from the charge's start (or its last billed period)",
\* _periods_due). A charge that is also billed by hand may skip months, and so may one
\* without a start, or whose start is moved, if a crash came before the month was recorded.
NoMonthLeftOut ==
    \A c \in Charges \ (HandBilled \cup Moved) :
        LET months == {m \in Months : InvoiceExists(<<c, m>>)} IN
        /\ charge[c].start # 0 => \A m, n \in months : m .. n \subseteq months
        /\ charge[c].billed \in months \cup {0}

\* An invoice gets at most one late fee, and only a rent invoice of a charge with a
\* policy does ("idempotent per originating invoice", apply_late_fees).
FeeOnce ==
    \A item \in Item : invoice[item].fees > 0 =>
        invoice[item].fees = 1 /\ InvoiceExists(item) /\ item[1] \in FeeCharges

\* Neither rent nor late fee is charged twice.
ChargedOnce == BilledOnce /\ FeeOnce

Unbilled(c, m) ==
    m \in PeriodsDue(charge[c], today) /\ ~InvoiceExists(<<c, m>>)

\* Every month an active charge owes is billed some day, as long as the staff does not
\* take it back: runs that die are made up for by later ones. It takes that no month
\* is closed and no lease vacant for good: one charge that cannot be billed stops the
\* run for all the others.
EveryMonthBilled ==
    <>[](closed = {} /\ \A c \in Charges : occupied[c])
      => \A c \in Charges, m \in Months : Unbilled(c, m) ~> ~Unbilled(c, m)
=============================================================================
