------------------------------- MODULE Collection -------------------------------
(***************************************************************************)
(* What collecting a resident's payment promises: the books follow the     *)
(* bank's decision. Money that cleared is posted, once and for good, also  *)
(* when it went back before the posting; nothing else touches the books.   *)
(* Abstract specification of BankPayments.                                 *)
(***************************************************************************)
CONSTANT Payments

VARIABLES bank,             \* where the resident's money is
          books             \* what the receivables ledger says of it

collectionVars == <<bank, books>>

TakeMoney(p) == /\ bank[p] = "none"
                /\ \E taken \in {"pending", "succeeded"} :
                      bank' = [bank EXCEPT ![p] = taken]
                /\ UNCHANGED books

DecideMoney(p) == /\ bank[p] = "pending"
                  /\ \E decision \in {"succeeded", "failed"} :
                        bank' = [bank EXCEPT ![p] = decision]
                  /\ UNCHANGED books

ReturnMoney(p) == /\ bank[p] = "succeeded"
                  /\ bank' = [bank EXCEPT ![p] = "returned"]
                  /\ UNCHANGED books

PostMoney(p) == /\ bank[p] \in {"succeeded", "returned"}
                /\ books[p] = "none"
                /\ books' = [books EXCEPT ![p] = "posted"]
                /\ UNCHANGED bank

CollectionInit == /\ bank = [p \in Payments |-> "none"]
                  /\ books = [p \in Payments |-> "none"]

CollectionNext == \E p \in Payments :
    TakeMoney(p) \/ DecideMoney(p) \/ ReturnMoney(p) \/ PostMoney(p)

\* What may happen to a payment, and what must.
CollectionSafety == CollectionInit /\ [][CollectionNext]_collectionVars

CollectionSpec == /\ CollectionSafety
                  /\ \A p \in Payments : WF_collectionVars(PostMoney(p))
=============================================================================
