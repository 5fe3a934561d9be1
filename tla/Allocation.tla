------------------------------- MODULE Allocation -------------------------------
(* How a resident's payment is spread over the invoices: oldest first           *)
(* (make_payment in backend/app/routers/resident_portal.py).                    *)
EXTENDS Integers, FiniteSets, Functions

CONSTANTS LastMonth,        \* the last month rent is billed for
          Rent,             \* the total of one month's invoice
          Sessions,         \* browser requests
          Amounts           \* amounts residents pay

ASSUME RentAssumption == LastMonth \in Nat \ {0} /\ Rent \in Nat \ {0}
ASSUME AmountsAssumption == Amounts \subseteq Nat \ {0}

\* A month's invoice is the month: they fall due in this order.
Invoices == 1 .. LastMonth

\* Mutant: nothing is floored.
Difference(a, b) == a - b
\* balance_due floors at zero.
Monus(a, b) == IF a > b THEN a - b ELSE 0
Lesser(a, b) == IF a < b THEN a ELSE b

SumOf(amounts) == SumFunctionOnSet(amounts, Invoices)
Nothing == [i \in Invoices |-> 0]

\* Each invoice gets what the older ones left, up to what is due on it.
OldestFirst(due, amount) ==
    [i \in Invoices |->
       Lesser(due[i], Monus(amount, SumFunctionOnSet(due, 1 .. i - 1)))]
=============================================================================
