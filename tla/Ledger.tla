------------------------------- MODULE Ledger -------------------------------
(***************************************************************************)
(* The part of the general ledger every posting service shares:            *)
(* accounting periods that are closed and reopened, and journal entries    *)
(* kept under the source_ref of the document they were generated from      *)
(* (backend/app/services/gl_service.py).                                   *)
(*                                                                         *)
(* A journal entry is abstracted to the amount it moves and the period it  *)
(* lies in: _validate_balanced refuses every entry whose legs differ, and  *)
(* the services modelled here always pass one debit and equal credits.     *)
(***************************************************************************)
CONSTANT Periods            \* the fiscal months documents can be dated in

VARIABLES period,           \* AccountingPeriod.status of every month
          ledger            \* source_ref -> the set of its journal entries

PeriodStatus == {"open", "closed"}

\* Mutant: no period check.
AlwaysOpen(p) == TRUE
IsOpen(p) == period[p] = "open"

\* Mutant: nothing is dropped before re-posting.
PostAgain(ref, dropped, entry) == ledger' = [ledger EXCEPT ![ref] = @ \cup {entry}]

\* create_journal_entry for a document, after delete_entries_by_source has
\* dropped the entries the transaction saw. The period check of the former is
\* a guard of the step that reads the period, which need not be this one.
Post(ref, dropped, entry) ==
    ledger' = [ledger EXCEPT ![ref] = (@ \ dropped) \cup {entry}]

\* Mutant: the entry stays when its document goes.
RemoveNothing(ref, selected) == UNCHANGED ledger

\* delete_entries_by_source at its commit: the rows its SELECT returned go,
\* those that still exist, whatever their period. The SELECT takes no lock, so
\* what was posted after it stays.
Remove(ref, selected) == ledger' = [ledger EXCEPT ![ref] = @ \ selected]

\* Mutant: the entry stays when its document goes.
EraseNothing(ref) == UNCHANGED ledger

\* The same where nothing else is posted under the reference meanwhile.
Erase(ref) == ledger' = [ledger EXCEPT ![ref] = {}]

ClosePeriod(p) ==
    /\ period[p] = "open"
    /\ period' = [period EXCEPT ![p] = "closed"]
    /\ UNCHANGED ledger

ReopenPeriod(p) ==
    /\ period[p] = "closed"
    /\ period' = [period EXCEPT ![p] = "open"]
    /\ UNCHANGED ledger
=============================================================================
