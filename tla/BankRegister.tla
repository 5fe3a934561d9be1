----------------------------- MODULE BankRegister -----------------------------
(***************************************************************************)
(* The register of one bank account and its reconciliations                *)
(* (backend/app/routers/bank.py, services/bank_service.py).                *)
(*                                                                         *)
(* A request loads what it needs (Load) and its handler decides on that    *)
(* copy, view[u], while its UPDATEs go to the rows as they are when it     *)
(* commits and touch the columns it changed. A row that was deleted in     *)
(* between fails the commit; that, like every 4xx answer, is Refuse.       *)
(* Overlap = FALSE is the program serving one request at a time.           *)
(***************************************************************************)
EXTENDS FiniteSetsExt, Integers

CONSTANTS Users,            \* finance users, one request each
          Recons, NoRecon,  \* identifiers of reconciliations
          FeedKeys,         \* lines the bank feed delivers, by fitid
          FileKeys,         \* lines of uploaded statements, by fitid
          ManualKeys,       \* lines typed in, which have no fitid
          Amounts,          \* signed amounts of lines
          MaxRows,          \* bound: times a line is inserted
          Overlap           \* may requests overlap?

VARIABLES line,             \* bank_transactions
          recon,            \* bank_reconciliations
          view              \* what the request of each user has loaded

register == <<line, recon, view>>

ASSUME RegisterAssumption == /\ Amounts \subseteq Int /\ Amounts # {}
                             /\ NoRecon \notin Recons
                             /\ MaxRows \in Nat /\ Overlap \in BOOLEAN

Keys == FeedKeys \cup FileKeys \cup ManualKeys

\* The row of a line: id tells a row from one inserted under the same fitid
\* after it was deleted.
Row == [id : 0 .. MaxRows, status : {"absent", "unmatched", "cleared"},
        amount : Amounts \cup {0}, recon : Recons \cup {NoRecon}]
Present(row) == row.status # "absent"
\* Mutant: a new line has a state the register does not know.
InsertedNew(row, amount) ==
    [id |-> row.id + 1, status |-> "new", amount |-> amount, recon |-> NoRecon]
Inserted(row, amount) ==
    [id |-> row.id + 1, status |-> "unmatched", amount |-> amount, recon |-> NoRecon]
Removed(row) == [id |-> row.id, status |-> "absent", amount |-> 0, recon |-> NoRecon]
NoRow == [id |-> 0, status |-> "absent", amount |-> 0, recon |-> NoRecon]

\* A statement is abstracted to the change of balance it shows, the ending
\* less the beginning balance.
Statement == [status : {"absent", "in_progress", "completed", "deleted"}, change : Int]

-----------------------------------------------------------------------------

Idle == [line |-> <<>>, recon |-> <<>>]
Busy(u) == view[u] # Idle

Load(u) ==
    /\ ~Busy(u)
    /\ Overlap \/ \A v \in Users : ~Busy(v)
    /\ view' = [view EXCEPT ![u] = [line |-> line, recon |-> recon]]
    /\ UNCHANGED <<line, recon>>

Answer(u) == view' = [view EXCEPT ![u] = Idle]

Refuse(u) == Busy(u) /\ Answer(u) /\ UNCHANGED <<line, recon>>

Seen(u, k)     == view[u].line[k]
SeenIn(u, r)   == {k \in Keys : Seen(u, k).recon = r}
Editable(u, r) == view[u].recon[r].status = "in_progress"

\* The rows of lines ks are still the ones u loaded.
StillThere(u, ks) == \A k \in ks : Present(line[k]) /\ line[k].id = Seen(u, k).id

\* create_transaction
CreateTransaction(u) ==
    /\ Busy(u)
    /\ \E k \in ManualKeys, amount \in Amounts \ {0} :
         /\ ~Present(line[k])
         /\ line[k].id < MaxRows
         /\ line' = [line EXCEPT ![k] = Inserted(@, amount)]
    /\ Answer(u)
    /\ UNCHANGED recon

\* import_transactions: lines whose fitid was not seen are inserted; one that
\* came in meanwhile is refused by the unique index, and the file with it.
ImportStatement(u) ==
    /\ Busy(u)
    /\ \E file \in SUBSET FileKeys, amount \in Amounts :
         LET new == {k \in file : ~Present(Seen(u, k))} IN
         /\ \A k \in new : ~Present(line[k]) /\ line[k].id < MaxRows
         /\ line' = [k \in Keys |-> IF k \in new THEN Inserted(line[k], amount) ELSE line[k]]
    /\ Answer(u)
    /\ UNCHANGED recon

\* delete_transaction
DeleteTransaction(u, k) ==
    /\ Busy(u)
    /\ Seen(u, k).status = "unmatched"
    /\ Seen(u, k).recon = NoRecon
    /\ line' = [line EXCEPT ![k] = IF StillThere(u, {k}) THEN Removed(@) ELSE @]
    /\ Answer(u)
    /\ UNCHANGED recon

\* create_reconciliation; both balances are in the payload.
CreateReconciliation(u) ==
    /\ Busy(u)
    /\ \E r \in Recons, change \in Amounts :
         /\ recon[r].status = "absent"
         /\ recon' = [recon EXCEPT ![r] = [status |-> "in_progress", change |-> change]]
    /\ Answer(u)
    /\ UNCHANGED line

\* clear_transactions: free lines of the account, or lines that are in r
\* already. Only columns that change are written; the foreign key refuses a
\* reconciliation that is gone.
ClearTransactions(u) ==
    /\ Busy(u)
    /\ \E r \in Recons, ks \in (SUBSET Keys) \ {{}} :
         /\ Editable(u, r)
         /\ \A k \in ks : Present(Seen(u, k)) /\ Seen(u, k).recon \in {NoRecon, r}
         /\ LET new == {k \in ks : Seen(u, k).recon = NoRecon} IN
            /\ new = {} \/ recon[r].status # "deleted"
            /\ StillThere(u, new)
            /\ line' = [k \in Keys |->
                          IF k \in new THEN [line[k] EXCEPT !.status = "cleared", !.recon = r]
                          ELSE line[k]]
    /\ Answer(u)
    /\ UNCHANGED recon

\* The lines ks that u saw in r go back to outstanding.
Release(u, ks) ==
    line' = [k \in Keys |-> IF k \in ks
                            THEN [line[k] EXCEPT !.status = "unmatched", !.recon = NoRecon]
                            ELSE line[k]]

\* unclear_transactions
UnclearTransactions(u) ==
    /\ Busy(u)
    /\ \E r \in Recons : \E ks \in SUBSET SeenIn(u, r) :
         /\ Editable(u, r)
         /\ StillThere(u, ks)
         /\ Release(u, ks)
    /\ Answer(u)
    /\ UNCHANGED recon

\* cleared_total, of reconciliation r among the given rows.
ClearedTotal(rows, r) ==
    LET tied == {k \in Keys : rows[k].recon = r}
    IN  SumFunctionOnSet([k \in tied |-> rows[k].amount], tied)

IsBalanced(rows, recons, r) == ClearedTotal(rows, r) = recons[r].change

\* Mutant: is_balanced is not asked.
CompleteAny(u, r) ==
    /\ Busy(u)
    /\ Editable(u, r)
    /\ recon' = [recon EXCEPT ![r].status = "completed"]
    /\ Answer(u)
    /\ UNCHANGED line

\* complete_reconciliation
CompleteReconciliation(u, r) ==
    /\ Busy(u)
    /\ Editable(u, r)
    /\ IsBalanced(view[u].line, view[u].recon, r)
    /\ recon[r].status # "deleted"
    /\ recon' = [recon EXCEPT ![r].status = "completed"]
    /\ Answer(u)
    /\ UNCHANGED line

\* reopen_reconciliation
ReopenReconciliation(u, r) ==
    /\ Busy(u)
    /\ view[u].recon[r].status = "completed"
    /\ recon[r].status # "deleted"
    /\ recon' = [recon EXCEPT ![r].status = "in_progress"]
    /\ Answer(u)
    /\ UNCHANGED line

\* Mutant: the lines are left to the foreign key, ON DELETE SET NULL.
DeleteAndForget(u, r) ==
    /\ Busy(u)
    /\ Editable(u, r)
    /\ recon' = [recon EXCEPT ![r].status = "deleted"]
    /\ line' = [k \in Keys |-> IF line[k].recon = r THEN [line[k] EXCEPT !.recon = NoRecon] ELSE line[k]]
    /\ Answer(u)

\* delete_reconciliation: the lines it saw are released, and the foreign key
\* unties any other.
DeleteReconciliation(u, r) ==
    /\ Busy(u)
    /\ Editable(u, r)
    /\ StillThere(u, SeenIn(u, r))
    /\ recon' = [recon EXCEPT ![r].status = "deleted"]
    /\ line' = [k \in Keys |->
                  IF k \in SeenIn(u, r) THEN [line[k] EXCEPT !.status = "unmatched", !.recon = NoRecon]
                  ELSE IF line[k].recon = r THEN [line[k] EXCEPT !.recon = NoRecon]
                  ELSE line[k]]
    /\ Answer(u)

RegisterInit == /\ line = [k \in Keys |-> NoRow]
                /\ recon = [r \in Recons |-> [status |-> "absent", change |-> 0]]
                /\ view = [u \in Users |-> Idle]

Edit(u) == \/ CreateTransaction(u) \/ ImportStatement(u)
           \/ CreateReconciliation(u) \/ ClearTransactions(u) \/ UnclearTransactions(u)
           \/ \E r \in Recons : \/ CompleteReconciliation(u, r) \/ ReopenReconciliation(u, r)
                                \/ DeleteReconciliation(u, r)
           \/ Refuse(u)

-----------------------------------------------------------------------------
(* Properties.                                                              *)

\* "Lock a reconciliation once its cleared activity ties out to the
\* statement": the lines of a completed reconciliation add up to its change.
CompletedBalances ==
    \A r \in Recons : recon[r].status = "completed" => IsBalanced(line, recon, r)

\* A line is cleared exactly while it lies in a reconciliation that exists;
\* one cleared nowhere could be neither uncleared nor deleted again.
ClearedIffReconciled ==
    \A k \in Keys : /\ line[k].status = "cleared" <=> line[k].recon # NoRecon
                    /\ line[k].recon # NoRecon => recon[line[k].recon].status \in {"in_progress", "completed"}
=============================================================================
