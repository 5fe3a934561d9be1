# Office manager: a TLA+ model of its bookkeeping and its workflows

This directory is a verification development for the backend of this repository
(`src/backend/app`, FastAPI, SQLAlchemy and PostgreSQL). It models the parts where several
actors write to the same rows or talk to an outside system that may not answer:
receivables and payables over the general ledger with maker-checker approval, purchasing,
recurring rent, residents' bank and card payments through Stripe, bank feeds and
reconciliations, the push of journal entries to QuickBooks, the signing of applications
and leases, and outbound webhooks under the lock that coordinates scheduled jobs. TLC
checks the models on small instances; TLAPS proves the most important properties for
every instance.

Contents: [the system](#the-system) · [modules](#the-modules) · [runs](#the-runs) ·
[fairness](#fairness) · [proofs](#what-is-proved) ·
[where the code and its words part](#where-the-code-and-its-words-part) ·
[what is left out](#what-is-left-out) · [not modelled](#not-modelled) · [plan](#plan)

## The system

A multi-tenant property-management service. Every HTTP request gets a database session of
its own at READ COMMITTED (`database.py`); almost nothing takes a row lock when it reads,
so a handler loads rows, decides, possibly waits for an external service, and writes
later, column by column. `tasks/scheduler.py` starts an APScheduler in every replica of
the backend; `tasks/job_status.py` puts a Postgres advisory lock around each job.

| Component | State | Operations | Talks to | Hard behaviour | What makes it correct |
|---|---|---|---|---|---|
| General ledger (`gl_service.py`) | accounts, periods, journal entries keyed by source and source_ref | seed and ensure accounts, close/reopen, post, delete by source, post lease schedule | every posting service | `ensure_accounts` commits in the middle of its caller's transaction; deletion ignores closed periods | balanced entries; nothing enters a closed period; one entry per document |
| Maker-checker approval (`approval_service.py`) | four columns of each finance document | initialize, submit, approve, reject, assert postable | receivables, payables, purchasing | an edit and an approval overlap | what posts was signed by someone else, who saw it |
| Receivables (`routers/ar.py`, `ar_service.py`) | customers, invoices and lines, receipts | create, edit, submit, approve, reject, finalize, void, delete; receipts: create, delete, reverse | approval, ledger, payments | overlapping finalizes; a void while an invoice is posted or a receipt recorded; re-posting | ledger and documents agree; receipts fit the invoice |
| Payables and procurement (`routers/ap.py`, `ap_service.py`, `routers/procurement.py`, `procurement_service.py`) | requisitions, quotes, orders, receipts of goods, bills, payments | as receivables, plus quoting, ordering, receiving, three-way match | approval, ledger | long sequences of legal calls by several people | what is ordered and posted is signed off; a bill's order stands |
| Rent billing, late fees, deposits (`rent_service.py`, `routers/rent.py`) | charges, last billed period, invoices, deposits | bill, assess, record, return | receivables, the autopay job | an invoice and its record are two commits; runs repeat; one refusal ends a run | each month billed once, none skipped, all some day |
| Resident bank payments (`resident_portal.py`, `resident_autopay.py`, `resident_payment_webhooks.py`, `resident_ach_service.py`) | payment attempts, processed events | pay, run autopay, settle, fail or return | Stripe, receivables | lost answers, duplicated and reordered events, crash between charge and record | money that cleared is posted once and debited once |
| Resident card payments (`resident_portal.py`) | receipts only | pay | Stripe, receivables | one commit per receipt; retried requests | receipts never exceed the charge |
| Bank reconciliation and feed (`routers/bank.py`, `bank_service.py`, `bank_feed/sync_service.py`) | statement lines, reconciliations, cursor | import, clear, unclear, complete, reopen, delete, sync | Plaid | syncs overlap and die half-way; reconciling in any order | a completed reconciliation balances; the feed skips nothing |
| QuickBooks push (`quickbooks/sync_service.py`, `client.py`) | sync rows, cursor, account mappings | connect, push | QuickBooks Online, ledger | lost answers, a commit after many remote writes | each entry is there once; none is left behind |
| Leasing funnel (`leasing_funnel_service.py`, `routers/leasing_funnel.py`) | applications, envelopes and their parties | send, view, sign, decline, expire, void; review, screen, decide, convert | applicants, screening provider | requests decide on what they read and write later | a completed lease is signed by all; decisions stand; one resident |
| Outbound webhooks (`webhook_service.py`, `webhook_retry.py`, `routers/webhooks.py`) | webhooks, deliveries | dispatch, retry, switch, delete | external receivers, scheduler | everything is sent before anything is committed; rows vanish mid-batch | bounded attempts; nothing forgotten; nothing re-sent after success |
| Job coordination (`job_status.py`, `scheduler.py`) | an advisory lock per job, in-memory registry | try lock, run, unlock | every scheduled job | replicas, dead sessions | at most one run at a time; a dead process does not stop the job |
| Owner accounting (`owner_service.py`) | owner ledger, distributions, trust accounts | record, distribute, pay, void, statement | ledger | two requests pay one distribution | a distribution is paid once |
| Lease accounting (`lease_accounting.py`), CAM, budgets | none (computed), reconciliations | schedules, allocation, post to ledger | ledger | re-posting over closed months | schedule and ledger agree |
| Subscription billing and metering (`routers/billing.py`, `metering_service.py`) | plan and status of the organization, lease months | checkout, Stripe events, hygiene, reconcile | Stripe | events out of order, mail sent before it is logged | the plan follows the subscription |
| Jobs over due rows (rules, PM work orders, escalation, reminders) | next dates, log of what was sent | run | mail, tickets | a job that runs again the same day | one action per cycle |
| Sessions, maintenance, inspections, units and self-storage, lease lifecycle, Buildium | records with a status | CRUD and transitions | notifications | little interaction | legal transitions |
| AI and search, mail, legal, SSO, imports, reports, frontends, infrastructure | | | | pure I/O, parsing or presentation | |

The rows from general ledger to job coordination are modelled, the others are not.
`PROJECT.json` lists the same components with their files and status, and the hazards of
this code at their lines, with the properties that watch each one.

## The modules

Each module extends those it stands beneath:

```
Ledger, Approval
    Receivables                   MCReceivables, ReceivablesProofs
    Procurement (Approval only)
        Payables (Ledger too)     PayablesProofs
Allocation
    BankPayments, CardPayments    PaymentsProofs; the first implements Collection
Jobs
    RentBilling, Webhooks         JobsProofs
BankRegister
    BankFeed                      MCBankFeed, BankFeedProofs
QuickBooks                        QuickBooksProofs
Requests
    Applications, LeaseSigning
        LeasingFunnel             LeasingFunnelProofs
Sums                              lemmas; used by three of the proof modules
```

### Documents and the ledger

**Ledger** – periods and the entries of each `source_ref`. An entry is its amount and its
month: `_validate_balanced` refuses every entry whose legs differ, and the services
modelled pass one debit and equal credits. `Post` is `create_journal_entry` after
`delete_entries_by_source` has dropped *the entries the transaction saw*; that they need
not be all there are is what makes re-posting interesting.

**Approval** – the five operations of `approval_service` as operators on a document row;
three kinds of document use them.

**Receivables** – every endpoint of `routers/ar.py` that changes an invoice or a receipt.
A handler is two or more steps. The first (`UpdateInvoice`, `FinalizeInvoice`, ...) has
the code's guards and computes what will be written; the second (`WriteEdit`,
`PostInvoice`, ...) writes it to whatever the row is by then. SQLAlchemy's UPDATE names
only the columns the handler changed, so a request carries a `Patch` and not a row: an
edit of a pending draft writes no review column at all. `finalize_invoice` is modelled to
the statement: with the receivables accounts in the chart the first query after the status
change flushes the UPDATE and so locks the row (`LockInvoice`), and the posting commits
it; with an account missing, `ensure_accounts` commits the session instead
(`CommitAccounts`), and the posting follows without a lock (`SelectPrior`).
`void_invoice` takes three steps: it loads the invoice, selects its entries without a lock
(`SelectVoided`), and deletes those it selected together with the change of status
(`WriteVoid`). Closing and reopening of months interleave with everything else. There is
no step for `reverse_receipt_in_gl`, which always raises, and a balance can be read only
while there is no receipt (`Readable`): see [below](#receipts-cannot-be-read). *History*:
`signed`, the lines the last approver was shown.

**Procurement** – requisitions under the maker-checker rules, quotes, orders and receipts
of goods. The lines of a requisition are their total; an order has one line of `Quantity`
pieces, which is what `recompute_status` and the match look at.

**Payables** – bills and payments over Procurement, Approval and Ledger, with the match of
a bill against its order. Both modules take one request at a time, an endpoint a step:
what goes wrong when two requests overlap is the subject of Receivables, whose handlers
have the same shape, and what is new here is the *sequence* of calls by several people.

### Collecting rent

**RentBilling** – charges, the run that bills every month due (by the daily job under
`Jobs`, by a button with any date), one month billed by hand, and late fees. A run takes a
month in three steps because the code commits between them: it looks for the invoice
(`LookUpInvoice`), posts and commits it (`PostInvoice`), and records the month as billed
in a second transaction (`MarkBilled`). It works on the charges as they were when it
started, and any refusal – a closed period, a lease without occupants – ends it (`Abort`).
A run of late fees ends at the first invoice that was paid when it loaded them, because
its balance cannot be read: `Reached` is what it gets to before.

**Allocation** – the oldest-first split of a payment and the balance of an invoice.

**BankPayments** – the portal's ACH payment and the autopay job, Stripe, and the webhook.
The attempt row is committed before the call to Stripe and written again afterwards, with
nothing locked in between; the webhook locks the row, re-reads it and commits once, so a
delivery is one step. Calls time out (`LostAnswers`), processes die (`Crash`), Stripe
delivers an event any number of times and in any order; invoices are billed and voided
underneath. An event that would reverse receipts is refused (`FailOrReturn`) and comes
again for ever, because the reversal raises; for the same reason nothing can be paid
while an invoice that counts has a receipt (`Readable`).

**Collection** – what collecting promises, in five lines of state machine: money that
cleared is posted, once and for good, and the books do nothing else. `BankPayments`
implements it, under the mapping at the end of that module. That money which goes back is
reversed is *not* part of it: the documentation says so, and the code cannot do it.

**CardPayments** – the same handler for a card, where no attempt row exists and each
receipt is a commit of its own.

### The bank and QuickBooks

**BankRegister** – the lines of one bank account and its reconciliations. A request loads
the register (`Load`) and decides on its copy, `view[u]`; its UPDATEs go to the rows as
they are and touch the columns it changed. `id` tells a row from one that was inserted
under the same fitid after it was deleted.

**BankFeed** – the Plaid sync over that register. The bank keeps a stream of changes, the
connection a cursor into it; a sync applies page after page to its session and commits
rows and cursor together. The SELECT of a page flushes what earlier pages staged, so those
rows are locked until the commit (`held`), and a flush may be refused (`Clash`). Any
number of syncs overlap, fail and die. *History*: `astray`, the lines the cursor does not
answer for: those a person deleted or reconciled before the bank changed them, and all of
them once a sync that another had overtaken was committed (`Overtaken`).

**QuickBooks** – the push of journal entries. Every call to QuickBooks is a step that may
fail, or succeed and lose its answer; sync rows and the cursor are committed once at the
end; a conflict rolls back the rows flushed so far. Entries are deleted and accounts
unmapped, and the connection dropped or replaced, while a push runs. `created_at` is the
key of the cursor: entries of one transaction share it (`Twins`), and an entry becomes
visible only when its transaction commits, in that order or not (`InOrder`).

### Leasing

**Requests** – what two requests without locks do to one row: a request reads, decides and
later sends an UPDATE of the columns whose value it changed. Between the two steps it *is*
that UPDATE. *History*: `overlapped`, the rows that two requests had in hand at once.

**Applications**, **LeaseSigning** – the handlers for an application and for the envelope
of a lease as decisions over Requests; **LeasingFunnel** puts one of each together.

### Jobs and webhooks

**Jobs** – the advisory lock of `run_tracked`. It belongs to a database session: given up
in the `finally`, or by the database some time after the process died.

**Webhooks** – `dispatch_webhook`, `retry_failed_webhooks` and the two endpoints that
switch and delete. Both senders post first and commit all outcomes at the end. In the
retry job, each look-up of the next webhook flushes what was processed before, so all
processed rows but the last are locked; a webhook that an administrator deletes takes its
deliveries along, the next write of a vanished row fails, and the batch is rolled back.

## The runs

| Run | Question | Instance | States |
|---|---|---|---|
| `receivablesSerial` | One request after the other: are only signed invoices posted, do ledger and documents agree between requests, do receipts fit, is nothing posted to a closed month? | 1 invoice, 2 receipts, 2 months, 3 users, amounts 1 and 2, threshold 2 | 42,716 |
| `receivablesOverlap` | Requests overlap and die: are receipts and entries still written together, and with a complete chart, is a document in the ledger once, a finalized invoice always and a draft never? | 1 invoice, 1 receipt, 1 month, 2 users, chart complete or lacking | 3,612,224 |
| `payables` | After any sequence of calls: were order and bill signed off by a second person, does the order of a posted bill stand, does the ledger hold what is owed and paid? | 1 requisition, 2 vendors, 2 orders, 1 bill, 2 payments, 1 period, amounts 1 and 2 on both sides of each threshold | 2,608,406 |
| `rentBilling` | Two replicas of the job, one crash, buttons with any date, months by hand, edits, a vacant lease, a closed period: is each month charged once, none skipped, and all billed some day? | 2 charges, 2 months, 1 period that closes | 611,544 |
| `bankPosting` | Portal and autopay pay one month's rent while answers are lost, events come in any order, processes die and the invoice may be voided: are receipts ever live twice? | 1 portal key, 1 autopay key, amounts 1 and 2, two kinds of late event | 184,634 |
| `bankPromise` | Autopay over two months, events in any order, the job dying anywhere: does it keep `Collection`, liveness included, and debit each invoice once? | 3 autopay keys, refund, partial refund and late failure | 55,663 |
| `cardOnce` | Do the receipts of a charge stay within it when the browser never repeats a key? | 2 sessions, 2 keys, 2 invoices, amounts 1 and 3 | 898 |
| `bankFeed` | Syncs overlap, stop half-way and die, a user reconciles between them: does a completed reconciliation balance, can every line be released again, does the feed skip nothing? | 2 lines from the feed, 1 each from file and keyboard, 2 reconciliations, 2 syncs, 2 changes at the bank | 4,490,681 |
| `quickbooks` | With lost answers, refused calls, crashes, deletions and a dropped connection: is every entry sent once, does nothing claim an entry that is not there, does every entry arrive? | 4 entries, 2 of one instant, 1 that is unmapped at times, batches of 2, 2 faults | 254,140 |
| `leasingFunnel` | Two requests at a time on one application and one envelope: is a completed lease signed by all, do parties and envelope agree, does what is final stay, is there one resident? | 2 parties, 2 requests under way | 3,845,742 |
| `webhooks` | Attempts bounded, nothing given up early, nothing sent again after it was taken, every recorded failure settled in the end? | 1 event, 2 receivers, 2 replicas, 2 losses | 124,687 |

and `quickbooksRetry`, which shows a statement of the documentation refuted
([below](#where-the-code-and-its-words-part)). The larger runs take one to three minutes
with two workers.

*Why the bounds are enough.*

- *Receivables, payables*: invoices share nothing but the accounts flag and the months, so
  what goes wrong with two goes wrong with one; two users are what it takes to overlap,
  three (maker, submitter, checker) what it takes to sign off serially in receivables, and
  two in payables, where one of them plays two parts. Two receipts (payments) make the
  balance of one beside another matter. Two amounts lie on both sides of
  the thresholds. Two orders are what it takes to order twice; two vendors give the two
  bids required above the bid threshold.
- *Rent*: two months are what it takes to skip or repeat one; two charges, so that one can
  be refused before the other; two replicas to exclude each other, one crash (`MaxCrashes`)
  between any two steps, which is followed by other runs. `Grace = 0` makes a late fee due
  after one month. Only one of the charges has a fee, and only the other is edited, billed
  by hand or vacant: both paths meet every run. Of the invoices with a fee policy the
  first month's may be voided and the second's paid (`Voided`, `Paid`): either takes an
  invoice out, and a paid one beside one that is late ends a run of late fees. Charges have a start or none
  (`Starts = {0, 1}`) and end after the last month; with `Ends = {1, 2}` the invariants
  hold too (1,784,696 states), but `EveryMonthBilled` takes too long to check.
- *Payments*: one autopay key pays one month, three the subsets of two months, which is
  when a key depends on which invoices are due. Two late events are the least that can be
  reordered with each other and with the success.
- *Feed*: two lines of the feed, which a page or two syncs treat differently, and one of
  each other origin; two changes (`MaxEvents`) are two lines added, or one added and
  changed or removed, in one page or in two; two inserts of a line (`MaxRows`) one that was
  deleted and came back. Two amounts, so that a changed line unbalances; two syncs, since a
  third can only do what two do. One line added, changed and removed was checked apart
  (`MaxEvents = 3`, one reconciliation, 15 million states), and so were five changes of two
  lines with no user about.
- *QuickBooks*: four entries and batches of two need two pushes, with two entries of one
  instant astride the border; two faults (`MaxFaults`) lose an answer and kill the retry.
- *Leasing*: two parties have a first and a last signer; two requests overlap, and finish,
  and overlap again without bound. `MaxResidents = 2` is one too many.
- *Webhooks*: two receivers make a batch in which one row vanishes and another is rolled
  back with it; two losses (`MaxLost`) are one for the dispatch and one for the job, or two
  for the job.

Other bounded counters: `LastMonth` (months billed), one charge per key, each late event
once per charge. Identifiers are used once, as UUIDs are. `SYMMETRY` permutes users and
receipts, reconciliations and syncs, in runs that check no liveness. `CHECK_DEADLOCK FALSE`
is set where the modelled world ends: when all money has come to rest, every delivery has
settled, all identifiers are used up or a lease is completed.

*What runs one at a time, and why.* `Overlap = FALSE` in `receivablesSerial`, `bankFeed`
(users among themselves and with syncs; syncs overlap freely) and `rentBilling` (job and
button; replicas overlap as far as the lock lets them) is a premise, not a claim: without
it the code does not have the properties, and the section below says how it loses them. In
LeasingFunnel the premise is in the properties, row by row (`overlapped`), so that one run
shows what needs it and what does not: `CompletedMeansSigned` and the approval behind a
resident hold however requests overlap.

*Each passing property can fail.* For every one of them `PROJECT.json` names a mutated
definition (a dropped guard, a missing reset, a swapped status, a lock not given up), kept
next to the definition it replaces and marked `Mutant` there, under which the run finds
it violated. Type invariants that TLAPS proves for every instance are not run again.

## Fairness

Safety needs none. Four runs check liveness, each under fairness of what the world really
keeps doing:

- `BankPayments!FairSpec`: Stripe redelivers an event until the webhook answers 2xx, so a
  delivery that stays possible is made (`WF(DeliverSome(k))`). Nothing is assumed of
  residents, of the autopay job, of the bank, or of calls coming back.
- `Webhooks!FairSpec`: time passes (`Elapse`); the database drops sessions whose client is
  gone (`DropDeadSession`); the two-minute interval trigger fires on some replica again and
  again (`\E r : StartJob(r)`, weakly fair because nothing but a run in progress disables
  it for good); and a run that has begun takes its steps (`RetryNext`, `CommitJob` or
  `FailJob`: every request has a ten-second timeout). Crashes and lost commits are
  adversarial, up to `MaxLost`; without a bound they could postpone settling for ever.
  Administrators and dispatches are not assumed to do anything.
- `RentBilling!BillingSpec`: a run goes on unless it is killed; the database drops dead sessions;
  the daily trigger finds the lock free some day (strong fairness of `StartJob`: it is
  disabled while another run, or the button, is at work, and again enabled every time that
  ends). `EveryMonthBilled` has a premise besides: from some time on no period is closed
  and every lease has occupants. It needs it for *all* charges, because one refused charge
  ends the run for the others.
- `QuickBooks!Spec`: a request that was started goes on unless it dies. `EveryEntryArrives`
  has as premises that the connection is kept from some time on and that somebody starts a
  push again and again (nothing schedules one), and speaks of entries whose accounts stay
  mapped.

## What is proved

All theorems hold for every value of the constants that satisfies the named `ASSUME`s
(which TLC evaluates in the runs). They cite no unproved fact. `tlapm 1.4.5` with Z3,
Zenon and LS4 checks them.

**Sums** – amounts are added with `SumFunctionOnSet` of the community modules, which takes
the elements in the order `CHOOSE` gives them. The lemmas say that it is the sum they have
in any order: `SumType`, `SumStep` (take any element out), `SumSame`, `SumChange`,
`SumGains` and `SumLoses` (one term or element more or less), `TermInSum`, `SumAtMost`. The
library's induction theorems take an operator and cannot be used; `SubsetInduction` and
`CountingUp` state induction for the *set* of subsets, or numbers, for which a statement
holds, and follow from its theorems on well-founded relations. `TallyExists` and
`TallyUnique` give the recursion behind the fold its solution.

**ReceivablesProofs** – any users, invoices, receipts, months, amounts, threshold, with or
without overlap and whatever the chart holds at first, unless a theorem says otherwise.

- `TypeCorrect`: `Spec => []TypeOK`. `RequestFields` and `RowTypes` give the shape of a
  request by its step and of a row after each approval rule.
- `ReceiptsCorrect`: `Spec => []ReceiptsMatchEntries`. Inductive given the types, because
  references of distinct documents are distinct (`RefsDistinct`) and each step touches the
  ledger under one reference.
- `NeverPostedTwice` and `FinalizedEntered` (`FinalizedHasEntry`): not inductive alone. The
  invariant `BooksInv == LockHeld /\ OneEntryPerDocument /\ FinalizedHasEntry` says why:
  with the accounts in the chart a posting keeps its row lock from the selection of the
  prior entries to its commit, one request at most has the lock of an invoice, and so what
  it selected is still all there is when it drops it. Of a void the
  invariant asks less: it may miss an entry, and a finalized invoice loses its own only
  with its status. `ChartKept` discharges charts that are not complete, where the lock is
  really given up.
- `SignedOffCorrect` (`~Overlap => ... PostedIsSignedOff`): at most one request is under way
  (`OneRequest`), so what it decided when it loaded the invoice is still true of the row it
  will write to (`StillTrue`), and the review columns of a row are those of its lines
  (`Reviewed`): approved ones were shown to the approver as they are, and what posts was
  approved or needed no approval.
- `InvoicesCorrect` (`InvoicesMatchEntries`, `~Overlap` and a complete chart): the ledger
  carries each invoice as its row says (`InLedger`), or as the request under way is about to
  leave it. With a chart that is not complete the property speaks of unlocked invoices only
  and stays with TLC.
- `NothingPostedLate` (`~Overlap => ... NothingPostedWhenClosed`), an action property, from the
  same invariant: a request that has selected its prior entries found the month open, and
  closing it is a request of its own.
- `ReceiptsWithin` (`~Overlap => ... ReceiptsWithinInvoice`): the receipts of an invoice add up
  to no more than its total (`Within`), the one about to be written included (`StillFits`).
  The total of an invoice with receipts cannot change, and a sum over receipts changes by
  one term (Sums).

**PaymentsProofs** – any keys, sessions, amounts, months, rent, replies, timeouts, crashes
and orders of delivery, unless a theorem says otherwise.

- `TypeCorrect`: `Spec => []TypeOK`, over all variables, the shares of an attempt included.
- `LiveOnceCorrect`: `Spec => []LiveOnce`. The strengthening `LiveInv` adds that one call at
  most is out for a key (`OneCaller`: a key belongs to the portal or to the job, and has a
  row before it has a call) and `KeyInv`: once receipts exist and a call is still out, the
  success event has been processed and will not be again, which is what makes the
  failure written over a settled row (below) harmless for the receipts.
- `CollectsSafely`: where Stripe answers every charge with "processing" (as it does for ACH)
  the payments refine the safety of `Collection`, in whatever order the events come: the
  success event is all that posts and it is processed once (`OnceInv`). `Followed` ties the two sides together: what Stripe has
  told agrees with where the money is (`Told`), what was processed had been told (`Heard`),
  and a charge that was not taken has a row that is pending, or no call (`Called`). Each
  step then moves the money or the books of one payment as one action of Collection, or
  neither. This is the half of `CollectsAsPromised` without fairness.
- `AutopayCorrect` (`~LostAnswers => ... AutopayTakesRentOnce`). Inductive is a bound on *more*
  than what was taken: the debits that are pending in the table, or taken at Stripe, add up
  to at most the rent (`Reserved`). A new debit is made only when none is pending; those
  taken are then posted (`Sure`: without lost answers a failed call means that there is no
  charge), so they are among what was received for the invoice (`DebitsReceived`), and the
  new one is for the rest.
- `BooksCorrect` (`BooksFollowBank`, with `~LostAnswers` and the answer "processing"): the
  success event posts, and the status it writes is never written over, because no call
  fails when Stripe has the charge and what would reverse is refused (`Certain`). The
  events may come in any order.

*of CardPayments*: `CardTypeCorrect`, and

- `CardReceiptsWithin` (`~Resend => ... ReceiptsWithinCharge`). What a request may still
  record fits what was taken under its key beside the receipts it has (`Fits`), and no other
  request has that key (`OneRequestPerKey`). It starts from `SpreadWithin`: what is spread
  over the invoices oldest first adds up to no more than the amount, for any number of
  invoices, by induction on how many of them have had their share.

**QuickBooksProofs** – any entries, companies, requests, batch limit and number of faults,
unless a theorem says otherwise.

- `TypeCorrect`: `TypeOK` with `Busy`, that a push which is not finished has an entry left
  and a connection it was started on.
- `SyncedIsCorrect`: `Spec => []SyncedIsThere`, also when pushes overlap and the client
  repeats its calls. The invariant (`There`) says the same of the rows a push has flushed
  and of the entry it is about to record: what is in QuickBooks stays there (`Grows`).
- `PostedOnceSerially`: `PostedOnce` for one request and `Retries = 0`, by the invariant
  that the entry about to be created is not in the company (`NotThere`), which the look-up
  established and no other step can break. With retries it is false.
- `CursorCorrect`: `CursorCovers` for one company, under any overlap, retries and faults, when
  entries become visible in the order of their `created_at` (`InOrder`, without which it is
  false). `Covered` says of the cursor each push would commit what is claimed of the
  connection's (`Passed`), and of every push that what is older than anything it still has
  to deal with was dealt with or is on its list (`Reached`). With several companies the
  same invariant gives that one of them has the entry.

**LeasingFunnelProofs** – any parties and any number of requests under way.

- `TypeCorrect`, and `CompletedIsSigned` (`CompletedMeansSigned` under any overlap): a
  request that will complete the lease counted signatures that are never taken back
  (`Counted`).
- `PartiesDecide` (`StatusMatchesParties`), `OneResidentEach` (`OneResident`) and
  `FinalIsFinal` (`FinalStands`): as long as no two requests had a row in hand, the one
  that has it would send what fits the row as it still is (`Fits`, `FitsApplication`);
  `Alone` keeps that so until the commit. That a resident was approved needs no such
  premise (`OnApproval`).

**BankFeedProofs** – any users, syncs, lines, reconciliations, amounts and changes at the bank.

- `TypeCorrect`: `TypeOK`, whatever overlaps, with `SyncShape`: a sync has its own copy of
  exactly the lines it has read, among them those it holds, so that no commit writes a row
  that was never loaded.
- `ClearedCorrect`: `~Overlap => (Spec => []ClearedIffReconciled)`. What a request has loaded
  is what there is (`Alone`). Syncs may overlap syncs: whatever row a commit finds, it
  leaves it with the reconciliation it had, or in none and not cleared (`CommitCleared`).
  With overlapping requests it is false: a deletion unties a line cleared meanwhile.
- `BalancesCorrect`: `~Overlap => (Spec => []CompletedBalances)`. A sync under way leaves alone
  every line that lies in a reconciliation (`SyncsLeaveAlone`: it has not read it, or found
  it retained), so the lines a reconciliation was balanced with keep their amounts, and what
  is summed for it is the same function as then.
- `CursorCorrect`: `~Overlap => (Spec => []CursorCovers)`. A sync whose first page is still
  where the cursor is has what the stream makes of each line up to its page, and the rows
  it read are still there (`Follows`); for one that was overtaken nothing is claimed, and
  its commit puts every line astray.

**PayablesProofs** – any users, vendors, documents, amounts, limits and tolerance.

- `TypeCorrect`: `TypeOK` with `SelectedQuoted`, that what is selected was quoted, without
  which an order could have no price.
- `SignedOffCorrect`: `Spec => []SignedOff`. The invariant `SignInv` says of every document,
  whatever its status, how it got its review (`Reviewed`: who approved it is not who
  submitted or prepared it): a requisition that is approved or ordered has one
  (`RequisitionInv`), an order belongs to an ordered requisition and to no other's
  (`OrderInv`), and a posted bill above the limit has one (`BillInv`).
- `MatchStands`: `Spec => []BilledOrderStands`. The match is made once, when the bill is
  posted; it stands because an ordered requisition can no longer be edited, an order keeps
  its vendor, price and receipts, and one with receipts cannot be cancelled (`OrderKept`),
  and a posted bill keeps its order and total (`FinalBill`).
- `BooksCorrect`: `Spec => []BooksMatchBills`: every bill and payment has the entry it should
  have and no other, and what was paid is within the bill and decides its status, for any
  number of payments (`BooksInv`; the payments of a bill are finitely many because each
  was created).

**JobsProofs** – any replicas, and

*of Webhooks*, any events, webhooks and number of losses:

- `TypeCorrect`, `AttemptsAreBounded`, `GivenUpRightly` (`Spec => []...`) and `TakenForGood`
  (`Spec => TakenIsFinal`, an action property) from one invariant `IInv`: only the holder of
  the lock runs (`Exclusive`); what a run selected is still so in the table, or was deleted
  there and not yet written (`BatchCurrent`); rows follow their webhooks and dispatches
  (`RowsFollow`, `DispatchShape`); and every post is an attempt in the table, one on its way
  there, or part of a lost batch (`Accounted`).

*of RentBilling*, any charges, months, grace and number of crashes:

- `ChargedOnceCorrect`: `~Overlap => (BillingSpec => []ChargedOnce)`. Between the look-up and
  the insert nothing holds the invoice, so what has to be shown is that only one worker has
  a run (`OneRun`: the job's is where the lock is, and not beside the staff's); what it did
  not find is then still not there when it posts (`LookedUp`), and a run over late fees
  works on invoices that exist (`FeesDue`). That a run was cut short, or what order it takes
  its months in, makes no difference: this proof never looks at which months are due.
- `BillingTypeCorrect`: `BillingSpec => []BillingTypeOK`, overlapping runs included.
- `NoMonthLeftOutCorrect`: `BillingSpec => []NoMonthLeftOut`, overlapping runs included. The
  invoices of a charge go from its start without a gap, and the month recorded has one
  (`FromStart`). That alone is not inductive: a run bills from a list made when it started.
  What is needed besides is that the list is still good (`InOrder`): every month before one
  that is pending has its invoice or is pending too, and the month in hand comes before the
  others of its charge. It stays so while others bill, because invoices are never deleted
  and the start of these charges stays (`Kept`); the two facts need each other.

*Only model-checked*: liveness (`FailuresSettle`, `EveryMonthBilled`, `EveryEntryArrives`,
the fairness half of `CollectsAsPromised`), which these provers cannot do. Every invariant
and every action property the runs check is also a theorem, under the hypotheses named above.

## Where the code and its words part

| Run | Statement | What happens |
|---|---|---|
| `quickbooksRetry` | "a retry adopts the existing QuickBooks entry instead of double-posting" (`docs/INTEGRATIONS.md`) | The client repeats every request that got no answer, the one that creates an entry included, and does not look for the entry in between. |

The following statements are refuted in the same way. They are not part of the regular
runs; each has its definition in the module and a configuration of its own, and
`tlc -config <name>.cfg <module>.tla` prints the behaviour within seconds.

| Configuration, module | Statement | What happens |
|---|---|---|
| `ClosedPeriod`, MCReceivables | "reported financials for a closed period remain immutable" | Voiding an invoice or deleting a receipt deletes its entry from a closed month: `delete_entries_by_source` does not look. |
| `VoidRace`, MCReceivables | "Void a finalized invoice, reversing its GL entry" | The void selects the entries without a lock. A finalize that loaded the draft long before commits its entry after that, and the void then deletes only what it selected: a void invoice with an entry. |
| `UnpostedInvoice`, MCReceivables | finalize will "Lock a draft invoice and post it" | With an account missing, the invoice is committed as finalized first; a closed month then refuses the entry. |
| `StaleSignOff`, MCReceivables | "Any edit invalidates a prior sign-off" | Editing a pending draft changes no review column, so none is written; an approval committed meanwhile survives the edit. |
| `BilledForReceived`, Payables | "the invoice must agree with what was ordered and what was received" | Each bill is held against the whole order; any piece received lets all of it be billed, and several bills the same order. |
| `ReturnRefused`, BankPayments | a return after settlement "marks the original receipt reversed" | The reversal raises ([below](#receipts-cannot-be-read)), the delivery is rolled back and comes again for ever; the receipt stays. |
| `LateSuccess`, BankPayments | returns after settlement leave the receipt reversed | A return processed before the success marks an empty attempt returned; the success then posts it for good. |
| `AutopayTimeout`, BankPayments | a retry "settles onto the same charge instead of taking the money twice" | A timeout is recorded as failed though Stripe has the charge; next month's key differs and debits the same invoice again. |
| `DoubleSubmit`, CardPayments | "a double-submit is still collapsed" | The card is charged once and the receipts are recorded twice. |
| `OvertakenSync`, MCBankFeed | "Only advance once the page's rows are staged, so a later failure resumes from this page instead of skipping it" | Two syncs of one connection overlap: the one that began earlier and commits later puts its own, older cursor and rows over the other's. Rows that were removed meanwhile come back, and when a third sync commits a later cursor the feed never mentions them again (`CaughtUp`). |
| `LockedLines`, MCBankFeed | "Never mutate a line that a completed reconciliation depends on" | The status of a line is looked at when a page is applied and the line is written at the next flush, after another call to Plaid; it may have been reconciled in between. |

### Receipts cannot be read

`amount_received` and `reverse_receipt_in_gl` (`ar_service.py:73` and `:275`) read
`reversed_at` of a receipt. Migration 122 adds that column and `reversal_journal_entry_id` to
`customer_receipts`; the classes have them on `CustomerInvoice` (`models/customer_invoice.py`,
118 to 121) and not on `CustomerReceipt`. So both raise `AttributeError` on every receipt:

- a second receipt, a void, a look at the balance, late fees, a portal payment and autopay
  fail once an invoice they read has a receipt (the first receipt is committed; the answer
  to the request that made it is an error);
- the return, refund or dispute of settled money is refused each time it is delivered.

`docs/INTEGRATIONS.md:188` describes the reversal, and tests rely on reading
(`test_ar.py::test_receipt_flow_and_state`,
`test_resident_payments.py::test_payment_reduces_balance`). The models follow the code. They
keep the sum that `amount_received` would compute, and guard its callers with `Readable`,
`BalanceReadable` and `Reached`; an event that would reverse receipts is refused.
`delete_receipt` reads no balance before it commits, so an invoice becomes readable again
when its receipt is deleted. The schema is taken to be the one made from the classes, as for
a fresh database; one that was migrated lacks the two columns on `customer_invoices`.

A second slip of the kind is *not* followed: `_outstanding_invoices` of the portal loads the
receipts but not the lines, which `balance_due` then reads outside of an `await`. As written
the portal cannot pay while an invoice is outstanding. BankPayments and CardPayments let it,
so they allow more than the code does; no liveness property rests on it.

### Read from the code

While modelling, without a configuration of their own:

*Receivables and approval*
- An editor of someone else's draft is not recorded as its preparer (the stamp is set
  once) and may approve their own lines; a pending draft can be approved without having
  been submitted.
- A receipt created between the load and the commit of a void ends up on a void invoice;
  overlapping receipts may exceed the balance together. `ReceiptsWithinInvoice` is
  therefore checked with requests served one at a time.
- Around the commit of `ensure_accounts`, two finalizes can post the same invoice twice;
  hence `accounts = "complete"` in `OneEntryPerDocument` and its kin. (The next re-post
  drops both.)

*Rent*
- Nothing but the job's lock keeps runs apart, and the button does not take it: with
  `Overlap = TRUE` in `RentBilling.cfg` a button pressed while the job is at the same
  charge bills the month twice.
- One refused charge ends the run, for every later charge and for the collection of rent
  that follows it in the job. One invoice that was paid ends a run of late fees.
- Billing a later month by hand records that month as the last one billed, and the months
  before it are never billed; `NoMonthLeftOut` leaves such charges out.
- `_periods_due` takes the first month from the start of the charge, or from the run when
  there is none, until a month is *recorded*. If a crash comes between an invoice and its
  recording, and the charge has no start or its start is moved before the next run, the
  months in between are not billed. `NoMonthLeftOut` is therefore about charges with a
  start that stays (`Moved` names the others).

*Payments*
- A failed call overwrites the status of an attempt the webhook settled meanwhile with
  "failed"; the receipts stay. That part of `BooksFollowBank` is checked without lost
  answers.
- A pending portal payment and an autopay debit do not see each other and both take the
  rent. `AutopayTakesRentOnce` speaks of autopay alone.
- An answer "succeeded" recorded after a return posts receipts for money that went back.
- A charge whose invoice was voided while the debit was pending can never be settled: the
  webhook fails on it for as long as Stripe redelivers.

*Bank and QuickBooks*
- With `Overlap = TRUE` a reconciliation is completed while another request clears or
  unclears its lines, and no longer balances; and one is deleted while another request
  clears a line in it, which then stays cleared in none.
- Two pushes at once both look for an entry, both create it, and only then meet at the
  unique sync row: the constraint protects the table, not QuickBooks.
- After that conflict the rollback expires the entries still to be sent, and the request
  fails when it reads the next one, unless it was at its last.
- Entries skipped for an unmapped account are passed by the cursor and stay behind once
  the account is mapped. `CursorCovers` leaves them out.
- Connecting another company resets the cursor and keeps the sync rows: what one company
  has is not sent to the other. The run `quickbooks` has one company.
- An entry that is deleted and posted again here stays in QuickBooks, and is sent again as
  a new one.

*Leasing*
- "The request completes once every party has signed" is so one request at a time. Two
  last signers at once each count the other as missing; the envelope stays partially
  signed, and nobody can sign again to complete it.
- The screening provider is awaited between reading the status and writing it: a decision
  made meanwhile is overwritten with "screening".
- A void, a decline or a deadline that overlaps the last signature: whichever commits last
  is the status of the envelope.
- `update_application` may set "converted" itself; no resident is made then, contrary to
  the comment at `resident_id`. No route makes a "draft".

*Jobs, webhooks*
- `dispatch_webhook` says failed deliveries "are scheduled for automatic retry"; when its
  commit fails they are recorded nowhere. The policy "3 times total ... (1 min, 5 min,
  30 min)" never waits 30 minutes: three attempts have two delays.
- `tasks/scheduler.py` says the lock ensures a job "runs at most once even across multiple
  backend replicas". It excludes overlap; a replica whose trigger fires after another's
  run has ended runs the job again.

## What is left out

- *Receivables*: entries are an amount and a month; lines carry an author and an amount;
  an edit replaces lines and date (a partial edit is the same write with fewer columns);
  row, lines and receipts are read in one step; a user has one request at a time; the
  approval threshold does not change; a period is read in the step that takes the lock or
  selects, the commit comes later (so it may close in between, as in the code); receipts
  find the accounts seeded, which finalizing did. Customers, drafts created from CAM and
  renamed accounts are not modelled.
- *Payables*: overlapping requests and a chart without the accounts (see Receivables);
  several lines on an order; other currencies, discounts and attachments; vendors.
- *Rent*: the chart has the receivables accounts (else their own commit comes between invoice
  and entry, as in Receivables); a charge falls due on one day of the month and an invoice
  is paid as a whole; edits change what a run looks at, its end and whether it is active; deposits, payments
  recorded by staff and what autopay collects (BankPayments).
- *Bank payments*: Stripe keeps an idempotency key for ever (it may drop one after a day,
  while the job runs daily); a 3-D Secure challenge is a failure; the object of a dispute
  event is taken for the charge, as the code does; looking up an attempt and inserting it
  is one step (its key is unique); settling in a closed month fails in the code and is not
  modelled; the processor is configured. Linking bank accounts is not modelled.
- *Bank*: opening and ending balances are their difference; parsers, accounts and links to
  journal entries; a page holds a line once; linking, replacing and removing an Item.
- *QuickBooks*: tokens (a refresh that fails is a push that does not start), the pull of the
  chart of accounts but for what it does to mappings, the layout of an entry.
- *Leasing*: templates, mails, documents, screening reports and financial verification;
  order of signing, which the code does not enforce either; several envelopes per lease.
- *Webhooks*: payload, signature, response and event filter; the registry of job outcomes;
  creating webhooks. An administrator who would wait for a row lock acts when it is free.
  A lock connection that breaks while its process lives on is not modelled: the exclusion
  of runs rests on that connection. Unlocking is part of the step that ends the run,
  selecting of the step that takes the lock. `FailJob` stands for every database error.
- Decimal rounding, currencies and formats everywhere; tenancy (each model is one
  organization; nothing is shared between two); authentication.

## Not modelled

- *Owner accounting*: `mark_distribution_paid` looks at the status of a row it did not lock
  and posts; two requests pay one distribution. *Deposits* (`rent_service.py`): what is left
  is checked on an unlocked row; two partial returns pay out more than was held. *Lease
  entries*: re-posting a lease deletes its entries in closed months and skips those months
  when it posts them again. These three belong on the ledger next.
- *Subscription billing*, *recurring tickets*, *work orders* and *escalations*: projections
  of Stripe events and daily jobs over due rows, each row for itself.
- *CAM*, *budgets*, the *ASC 842 schedule*: decimal arithmetic, which the repository's tests
  cover with examples and a model would only write down again.
- *Units and self-storage*, *maintenance*, *inspections*, *lease lifecycle*: records with a
  status; one request at a time nothing interacts, and overlapping they are Requests again.
- *AI, search, mail, legal, SSO, imports, reports, Buildium, frontends*: parsing, prompts
  and I/O, by far the largest part of the source. There is no state machine in it that a
  model could be faithful to and shorter than.

## Plan

1. **Deposits and owner distributions** as one module over Ledger (pay once, within what is
   held), with the abstract specification they share.
2. **GeneralLedger**: manual entries, lease re-posting and closing.
3. Overlapping requests in Payables, over Requests.
