---------------------------- MODULE PaymentsProofs ----------------------------
(***************************************************************************)
(* Proofs about BankPayments and CardPayments, for any keys, sessions,     *)
(* months and amounts. Of a bank payment:                                  *)
(*  - LiveOnceCorrect: its receipts never count twice at the same time,    *)
(*    whatever Stripe answers, loses and reorders;                         *)
(*  - CollectsSafely: where Stripe answers every charge with "processing"  *)
(*    the payments do what Collection allows;                              *)
(*  - AutopayCorrect: while no answer is lost, autopay takes a rent once;  *)
(*  - BooksCorrect: under both premises the receipts are there exactly     *)
(*    when the bank's yes has been processed.                              *)
(* Of a card payment:                                                      *)
(*  - CardReceiptsWithin: its receipts are within the charge, as long as   *)
(*    the browser does not send a key again.                               *)
(***************************************************************************)
EXTENDS BankPayments, CardPayments, Sums, SequenceTheorems, TLAPS

Cleared == "charge.succeeded"

\* Worker w is in a call for k's charge.
On(w, k) == work[w] # Idle /\ work[w].key = k

-----------------------------------------------------------------------------
(* The inductive invariant of LiveOnce.                                     *)

\* The shape of the rows; what an allocation holds is of no concern here.
Rows == /\ attempt = [k \in Keys |-> attempt[k]]
        /\ \A k \in Keys : /\ attempt[k] = [status |-> attempt[k].status,
                                            ref |-> attempt[k].ref,
                                            allocation |-> attempt[k].allocation]
                           /\ attempt[k].status \in Statuses

Shape == Rows /\ work \in [Workers -> Calls] /\ posted \in [Keys -> Nat]

\* A key is the portal's or the job's, and has a row before it has a call:
\* so one call at most is made for a key at a time.
OneCaller ==
    /\ \A s \in Sessions, k \in Keys : On(s, k) => k \in ClientKeys
    /\ \A k \in Keys : On(Scheduler, k) => k \in AutopayKeys
    /\ \A v, w \in Workers, k \in Keys : On(v, k) /\ On(w, k) => v = w
    /\ \A w \in Workers, k \in Keys : attempt[k].status = "none" => ~On(w, k)

\* A failure written over a settled row is the last call for it, and what
\* settled the row was the event, which is not processed again.
KeyInv(k) ==
    /\ posted[k] \in {0, 1}
    /\ attempt[k].status = "succeeded" => posted[k] = 1
    /\ attempt[k].status \in {"none", "processing", "returned"} => posted[k] = 0
    /\ \A w \in Workers : posted[k] = 1 /\ On(w, k) =>
         attempt[k].status = "succeeded" /\ <<k, Cleared>> \in seen
    /\ posted[k] = 1 /\ attempt[k].status = "failed" => <<k, Cleared>> \in seen

LiveInv == Shape /\ OneCaller /\ \A k \in Keys : KeyInv(k)

liveVars == <<attempt, posted, seen, work>>

-----------------------------------------------------------------------------
(* The steps.                                                               *)

LEMMA CallsFields ==
    ASSUME NEW k \in Keys, NEW r \in {"processing", "succeeded", "failed"}
    PROVE  /\ Calling(k) \in Calls /\ Calling(k) # Idle /\ Calling(k).key = k
           /\ Answered(k, r) \in Calls /\ Answered(k, r) # Idle /\ Answered(k, r).key = k
BY DEF Calls, Calling, Answered, Idle

LEMMA CallKey ==
    ASSUME Shape, NEW w \in Workers, work[w] # Idle
    PROVE  work[w].key \in Keys /\ On(w, work[w].key)
BY DEF Shape, Calls, Calling, Answered, Idle, On

LEMMA InitLive == Init => LiveInv
<1> SUFFICES ASSUME Init PROVE LiveInv
  OBVIOUS
<1>1. Shape
  <2>1. Rows
    BY Zenon DEF Init, Rows, Statuses
  <2>2. work \in [Workers -> Calls]
    BY DEF Init, Calls
  <2> QED
    BY <2>1, <2>2 DEF Init, Shape
<1>2. \A w \in Workers, k \in Keys : ~On(w, k)
  BY DEF Init, On
<1>3. OneCaller
  BY <1>2 DEF OneCaller, Workers
<1>4. \A k \in Keys : KeyInv(k)
  BY <1>2 DEF Init, KeyInv
<1> QED
  BY <1>1, <1>3, <1>4 DEF LiveInv

\* A step that leaves the rows, the receipts and the calls alone.
LEMMA LiveStutter == LiveInv /\ UNCHANGED liveVars => LiveInv'
BY DEF LiveInv, liveVars, Shape, Rows, OneCaller, On, KeyInv

\* A call ends or moves on; what is written meanwhile is another step.
LEMMA LiveCall ==
    ASSUME LiveInv, NEW w \in Workers, work[w] # Idle, NEW c \in Calls,
           c = Idle \/ c.key = work[w].key,
           work' = [work EXCEPT ![w] = c],
           UNCHANGED <<attempt, posted, seen>>
    PROVE  LiveInv'
<1>1. Shape'
  BY DEF LiveInv, Shape, Rows
<1>2. \A v \in Workers, k \in Keys : On(v, k)' => On(v, k)
  BY DEF LiveInv, Shape, On
<1>3. OneCaller'
  BY <1>2 DEF LiveInv, OneCaller, Workers
<1>4. \A k \in Keys : KeyInv(k)'
  BY <1>2 DEF LiveInv, KeyInv
<1> QED
  BY <1>1, <1>3, <1>4 DEF LiveInv

\* A new row, and the call for it.
LEMMA LiveInsert ==
    ASSUME LiveInv, NEW w \in Workers, NEW k \in Keys, NEW allocation,
           w \in Sessions => k \in ClientKeys, w = Scheduler => k \in AutopayKeys,
           work[w] = Idle, attempt[k].status = "none",
           Insert(w, k, allocation), UNCHANGED <<posted, seen>>
    PROVE  LiveInv'
<1>1. /\ attempt'[k].status = "processing"
      /\ \A j \in Keys \ {k} : attempt'[j] = attempt[j]
  BY DEF LiveInv, Shape, Rows, Insert
<1>2. \A v \in Workers, j \in Keys : On(v, j)' <=> On(v, j) \/ (v = w /\ j = k)
  BY CallsFields DEF LiveInv, Shape, Insert, On
<1>3. \A v \in Workers : ~On(v, k)
  BY DEF LiveInv, OneCaller
<1>4. Shape'
  <2>1. Rows'
    BY <1>1 DEF LiveInv, Shape, Rows, Insert, Statuses
  <2> QED
    BY <2>1, CallsFields DEF LiveInv, Shape, Insert
<1>5. OneCaller'
  BY <1>1, <1>2, <1>3, WorkersAssumption DEF LiveInv, OneCaller, Workers
<1>6. \A j \in Keys : KeyInv(j)'
  BY <1>1, <1>2, <1>3 DEF LiveInv, KeyInv
<1> QED
  BY <1>4, <1>5, <1>6 DEF LiveInv

\* The job repeats the call for a debit that may never have reached Stripe.
LEMMA LiveRepeat ==
    ASSUME LiveInv, NEW k \in PendingDebits, work[Scheduler] = Idle,
           work' = [work EXCEPT ![Scheduler] = Calling(k)],
           UNCHANGED <<attempt, posted, seen>>
    PROVE  LiveInv'
<1>1. k \in Keys /\ k \in AutopayKeys /\ attempt[k].status = "processing" /\ posted[k] = 0
  BY DEF PendingDebits, Keys, LiveInv, KeyInv
<1>2. \A v \in Workers, j \in Keys : On(v, j)' <=> On(v, j) \/ (v = Scheduler /\ j = k)
  BY <1>1, CallsFields DEF LiveInv, Shape, On, Workers
<1>3. \A v \in Workers : ~On(v, k)
  BY <1>1, KeysAssumption DEF LiveInv, OneCaller, Workers, On
<1>4. Shape'
  BY <1>1, CallsFields DEF LiveInv, Shape, Rows
<1>5. OneCaller'
  BY <1>1, <1>2, <1>3, WorkersAssumption DEF LiveInv, OneCaller, Workers
<1>6. \A j \in Keys : KeyInv(j)'
  BY <1>1, <1>2 DEF LiveInv, KeyInv
<1> QED
  BY <1>4, <1>5, <1>6 DEF LiveInv

\* A row is overwritten.
LEMMA WriteRow ==
    ASSUME Rows, NEW k \in Keys, NEW status \in Statuses, NEW ref,
           attempt' = [attempt EXCEPT ![k].status = status, ![k].ref = ref]
    PROVE  /\ Rows' /\ attempt'[k].status = status
           /\ \A j \in Keys \ {k} : attempt'[j] = attempt[j]
<1> DEFINE row == [status |-> status, ref |-> ref, allocation |-> attempt[k].allocation]
<1> DEFINE g == [attempt EXCEPT ![k].status = status]
<1>1. attempt[k] = [status |-> attempt[k].status, ref |-> attempt[k].ref,
                    allocation |-> attempt[k].allocation]
  BY DEF Rows
<1>2. [attempt[k] EXCEPT !.status = status] =
        [status |-> status, ref |-> attempt[k].ref, allocation |-> attempt[k].allocation]
  BY <1>1
<1>3. g = [j \in Keys |-> IF j = k THEN [attempt[k] EXCEPT !.status = status] ELSE attempt[j]]
  BY DEF Rows
<1>4. [g[k] EXCEPT !.ref = ref] = row
  <2>1. g[k] = [attempt[k] EXCEPT !.status = status]
    BY <1>3
  <2> HIDE DEF g
  <2>2. g[k] = [status |-> status, ref |-> attempt[k].ref,
                allocation |-> attempt[k].allocation]
    BY <1>2, <2>1
  <2> QED
    BY <2>2
<1>5. [g EXCEPT ![k].ref = ref] = [j \in Keys |-> IF j = k THEN row ELSE attempt[j]]
  BY <1>3, <1>4
<1>6. attempt' = [g EXCEPT ![k].ref = ref]
  BY Zenon
<1> HIDE DEF g
<1>7. attempt' = [j \in Keys |-> IF j = k THEN row ELSE attempt[j]]
  BY <1>5, <1>6
<1> QED
  BY <1>7 DEF Rows

\* Only the reference of a row is overwritten.
LEMMA WriteRef ==
    ASSUME Rows, NEW k \in Keys, attempt' = [attempt EXCEPT ![k].ref = TRUE]
    PROVE  Rows' /\ \A j \in Keys : attempt'[j].status = attempt[j].status
<1> DEFINE status == attempt[k].status
<1>1. status \in Statuses
  BY DEF Rows
<1>2. attempt' = [attempt EXCEPT ![k].status = status, ![k].ref = TRUE]
  BY DEF Rows
<1> HIDE DEF status
<1>3. Rows' /\ attempt'[k].status = status /\ \A j \in Keys \ {k} : attempt'[j] = attempt[j]
  BY <1>1, <1>2, WriteRow
<1> QED
  BY <1>3 DEF status

\* What settle_attempt writes.
LEMMA SettleEffect ==
    ASSUME LiveInv, NEW k \in Keys, Settle(k)
    PROVE  /\ Rows' /\ posted' \in [Keys -> Nat]
           /\ attempt'[k].status = "succeeded"
           /\ posted'[k] = IF attempt[k].status = "succeeded" THEN posted[k] ELSE posted[k] + 1
           /\ \A j \in Keys \ {k} : attempt'[j] = attempt[j] /\ posted'[j] = posted[j]
<1>1. /\ Rows' /\ attempt'[k].status = "succeeded"
      /\ \A j \in Keys \ {k} : attempt'[j] = attempt[j]
  <2> Rows /\ "succeeded" \in Statuses
    BY DEF LiveInv, Shape, Statuses
  <2> attempt' = [attempt EXCEPT ![k].status = "succeeded", ![k].ref = TRUE]
    BY DEF Settle
  <2> QED
    BY WriteRow
<1>3. /\ posted' \in [Keys -> Nat]
      /\ posted'[k] = IF attempt[k].status = "succeeded" THEN posted[k] ELSE posted[k] + 1
      /\ \A j \in Keys \ {k} : posted'[j] = posted[j]
  <2> CASE attempt[k].status = "succeeded"
    BY DEF LiveInv, Shape, Settle
  <2> CASE attempt[k].status # "succeeded"
    BY DEF LiveInv, Shape, Settle
  <2> QED OBVIOUS
<1> QED
  BY <1>1, <1>3

\* The answer settles the attempt, or its reference is recorded.
LEMMA LiveAnswer ==
    ASSUME LiveInv, NEW w \in Workers, RecordAnswer(w), NEW k \in Keys, work[w].key = k
    PROVE  LiveInv'
<1>1. On(w, k) /\ work[w] # Idle
  BY DEF RecordAnswer, Idle, On
<1>2. /\ work' \in [Workers -> Calls]
      /\ \A v \in Workers, j \in Keys : On(v, j)' <=> On(v, j) /\ v # w
  BY DEF LiveInv, Shape, RecordAnswer, On, Calls
<1>3. seen' = seen
  BY DEF RecordAnswer
<1>4. CASE Settle(k)
  <2>1. Shape'
    BY <1>2, <1>4, SettleEffect DEF LiveInv, Shape
  <2>2. OneCaller'
    BY <1>1, <1>2, <1>4, SettleEffect DEF LiveInv, OneCaller, Workers
  <2>3. \A v \in Workers : ~On(v, k)'
    BY <1>1, <1>2 DEF LiveInv, OneCaller
  <2>4. posted'[k] = 1
    <3>1. posted[k] \in {0, 1} /\ (posted[k] = 1 => attempt[k].status = "succeeded")
                               /\ (attempt[k].status = "succeeded" => posted[k] = 1)
      BY <1>1 DEF LiveInv, KeyInv
    <3> QED
      BY <1>4, <3>1, SettleEffect
  <2>5. KeyInv(k)'
    BY <1>4, <2>3, <2>4, SettleEffect DEF KeyInv
  <2>6. ASSUME NEW j \in Keys \ {k} PROVE KeyInv(j)'
    BY <1>2, <1>3, <1>4, SettleEffect DEF LiveInv, KeyInv
  <2> QED
    BY <2>1, <2>2, <2>5, <2>6 DEF LiveInv
<1>5. CASE attempt' = [attempt EXCEPT ![k].ref = TRUE] /\ UNCHANGED posted
  <2>1. Rows' /\ \A j \in Keys : attempt'[j].status = attempt[j].status
    BY <1>5, WriteRef DEF LiveInv, Shape
  <2>2. Shape'
    BY <1>2, <1>5, <2>1 DEF LiveInv, Shape
  <2>3. OneCaller'
    BY <1>2, <2>1 DEF LiveInv, OneCaller, Workers
  <2>4. \A j \in Keys : KeyInv(j)'
    BY <1>2, <1>3, <1>5, <2>1 DEF LiveInv, KeyInv
  <2> QED
    BY <2>2, <2>3, <2>4 DEF LiveInv
<1> QED
  BY <1>4, <1>5 DEF RecordAnswer

\* A failed call is written over the row.
LEMMA LiveFailure ==
    ASSUME LiveInv, NEW w \in Workers, RecordFailure(w), NEW k \in Keys, work[w].key = k
    PROVE  LiveInv'
<1>1. On(w, k) /\ work[w] # Idle
  BY DEF RecordFailure, Idle, On
<1>2. /\ work' \in [Workers -> Calls]
      /\ \A v \in Workers, j \in Keys : On(v, j)' <=> On(v, j) /\ v # w
  BY DEF LiveInv, Shape, RecordFailure, On, Calls
<1>3. /\ Rows' /\ attempt'[k].status = "failed"
      /\ \A j \in Keys \ {k} : attempt'[j] = attempt[j]
  <2> Rows /\ "failed" \in Statuses
    BY DEF LiveInv, Shape, Statuses
  <2>1. PICK ref : attempt' = [attempt EXCEPT ![k].status = "failed", ![k].ref = ref]
    BY DEF RecordFailure
  <2> QED
    BY <2>1, WriteRow
<1>4. UNCHANGED <<posted, seen>>
  BY DEF RecordFailure
<1>5. Shape'
  BY <1>2, <1>3, <1>4 DEF LiveInv, Shape
<1>6. OneCaller'
  BY <1>2, <1>3 DEF LiveInv, OneCaller, Workers
<1>7. KeyInv(k)'
  <2>1. \A v \in Workers : ~On(v, k)'
    BY <1>1, <1>2 DEF LiveInv, OneCaller
  <2> QED
    BY <1>1, <1>3, <1>4, <2>1 DEF LiveInv, KeyInv
<1>8. \A j \in Keys \ {k} : KeyInv(j)'
  BY <1>2, <1>3, <1>4 DEF LiveInv, KeyInv
<1> QED
  BY <1>5, <1>6, <1>7, <1>8 DEF LiveInv

\* An event that says the money did not come, or went back.
LEMMA FailOrReturnEffect ==
    ASSUME LiveInv, NEW k \in Keys, NEW event, FailOrReturn(k, event)
    PROVE  /\ Rows' /\ posted' = posted
           /\ \A j \in Keys \ {k} : attempt'[j] = attempt[j]
           /\ \/ attempt'[k].status = "returned" /\ posted[k] = 0
              \/ attempt'[k].status = attempt[k].status
              \/ attempt[k].status = "processing" /\ attempt'[k].status = "failed"
<1> Rows
  BY DEF LiveInv, Shape
<1>1. CASE event # "partial_refund" /\ (attempt[k].status = "succeeded" \/ event \in ReturnEvents)
  <2>1. "returned" \in Statuses
    BY DEF Statuses
  <2>2. /\ attempt' = [attempt EXCEPT ![k].status = "returned", ![k].ref = TRUE]
        /\ posted[k] = 0 /\ posted' = posted
    BY <1>1 DEF FailOrReturn
  <2>3. /\ Rows' /\ attempt'[k].status = "returned"
        /\ \A j \in Keys \ {k} : attempt'[j] = attempt[j]
    BY <2>1, <2>2, WriteRow
  <2> QED
    BY <2>2, <2>3
<1>2. CASE ~(event # "partial_refund" /\ (attempt[k].status = "succeeded" \/ event \in ReturnEvents))
  <2> DEFINE status == IF event = "charge.failed" /\ attempt[k].status = "processing"
                         THEN "failed" ELSE attempt[k].status
  <2>1. status \in Statuses
    BY DEF Rows, Statuses
  <2>2. /\ attempt' = [attempt EXCEPT ![k].status = status, ![k].ref = TRUE]
        /\ UNCHANGED posted
    BY <1>2 DEF FailOrReturn, Rows
  <2> HIDE DEF status
  <2>3. /\ Rows' /\ attempt'[k].status = status
        /\ \A j \in Keys \ {k} : attempt'[j] = attempt[j]
    BY <2>1, <2>2, WriteRow
  <2> QED
    BY <2>2, <2>3 DEF status
<1> QED
  BY <1>1, <1>2

\* The webhook processes an event it has not seen.
LEMMA LiveDeliver ==
    ASSUME LiveInv, NEW k \in Keys, NEW n \in DOMAIN sent[k], Deliver(k, n)
    PROVE  LiveInv'
<1> DEFINE event == sent[k][n]
<1>1. /\ <<k, event>> \notin seen
      /\ seen' = seen \cup {<<k, event>>}
      /\ work' = work
  BY DEF Deliver, Replayed
<1>2. \A v \in Workers, j \in Keys : On(v, j)' <=> On(v, j)
  BY <1>1 DEF On
<1>3. CASE event = Cleared
  <2>1. Settle(k)
    BY <1>3 DEF Deliver, Cleared
  <2>2. Shape'
    BY <1>1, <2>1, SettleEffect DEF LiveInv, Shape
  <2>3. OneCaller'
    BY <1>2, <2>1, SettleEffect DEF LiveInv, OneCaller, Workers
  <2>4. posted'[k] = 1
    <3>1. posted[k] = 1 <=> attempt[k].status = "succeeded"
      BY <1>1, <1>3 DEF LiveInv, KeyInv, Shape, Rows, Statuses
    <3>2. posted[k] \in {0, 1}
      BY DEF LiveInv, KeyInv
    <3> QED
      BY <2>1, <3>1, <3>2, SettleEffect
  <2>5. KeyInv(k)'
    BY <1>1, <1>3, <2>1, <2>4, SettleEffect DEF KeyInv
  <2>6. ASSUME NEW j \in Keys \ {k} PROVE KeyInv(j)'
    BY <1>1, <1>2, <2>1, SettleEffect DEF LiveInv, KeyInv
  <2> QED
    BY <2>2, <2>3, <2>5, <2>6 DEF LiveInv
<1>4. CASE event # Cleared
  <2>1. FailOrReturn(k, event)
    BY <1>4 DEF Deliver, Cleared
  <2> HIDE DEF event
  <2>2. Shape'
    BY <1>1, <2>1, FailOrReturnEffect DEF LiveInv, Shape
  <2>3. OneCaller'
    BY <1>2, <2>1, FailOrReturnEffect DEF LiveInv, OneCaller, Workers
  <2>4. KeyInv(k)'
    BY <1>1, <1>2, <2>1, FailOrReturnEffect DEF LiveInv, KeyInv
  <2>5. ASSUME NEW j \in Keys \ {k} PROVE KeyInv(j)'
    BY <1>1, <1>2, <2>1, FailOrReturnEffect DEF LiveInv, KeyInv
  <2> QED
    BY <2>2, <2>3, <2>4, <2>5 DEF LiveInv
<1> QED
  BY <1>3, <1>4

LEMMA NextLive == LiveInv /\ [Next]_vars => LiveInv'
<1> SUFFICES ASSUME LiveInv, [Next]_vars PROVE LiveInv'
  OBVIOUS
<1>1. ASSUME NEW s \in Sessions, MakePayment(s) PROVE LiveInv'
  <2>1. PICK k \in ClientKeys, amount \in Amounts :
           attempt[k].status = "none" /\ Insert(s, k, OldestFirst(Due, amount))
    BY <1>1 DEF MakePayment
  <2>2. work[s] = Idle /\ UNCHANGED <<posted, seen>>
    BY <1>1 DEF MakePayment
  <2> QED
    BY <2>1, <2>2, LiveInsert, WorkersAssumption DEF Keys, Workers
<1>2. ASSUME RunAutopay PROVE LiveInv'
  <2>1. work[Scheduler] = Idle /\ UNCHANGED <<posted, seen>>
    BY <1>2 DEF RunAutopay
  <2>2. ASSUME NEW k \in PendingDebits,
               work' = [work EXCEPT ![Scheduler] = Calling(k)], UNCHANGED attempt
        PROVE  LiveInv'
    BY <2>1, <2>2, LiveRepeat
  <2>3. ASSUME attempt[AutopayKey(DueInvoices)].status = "none",
               Insert(Scheduler, AutopayKey(DueInvoices), Due)
        PROVE  LiveInv'
    <3>1. AutopayKey(DueInvoices) \in AutopayKeys
      <4>1. DueInvoices \in (SUBSET Invoices) \ {{}}
        <5>1. DueInvoices \subseteq Invoices
          BY DEF DueInvoices
        <5>2. DueInvoices # {}
          BY <1>2 DEF RunAutopay
        <5> QED
          BY <5>1, <5>2
      <4> QED
        BY <4>1 DEF AutopayKeys
    <3> QED
      BY <2>1, <2>3, <3>1, LiveInsert, WorkersAssumption DEF Keys, Workers
  <2> QED
    BY <1>2, <2>2, <2>3 DEF RunAutopay
<1>3. ASSUME NEW w \in Workers,
             TakeCharge(w) \/ DeclineCharge(w) \/ RecordAnswer(w) \/ RecordFailure(w) \/ Crash(w)
      PROVE  LiveInv'
  <2> DEFINE k == work[w].key
  <2>0. work[w].step = "calling" \/ work[w].step = "answered" \/ work[w] # Idle
    BY <1>3 DEF TakeCharge, DeclineCharge, RecordAnswer, RecordFailure, Crash
  <2>1. work[w] # Idle /\ k \in Keys
    BY <2>0, CallKey DEF LiveInv, Idle
  <2>2. CASE TakeCharge(w)
    <3>1. PICK r \in {"processing", "succeeded", "failed"} :
             work' = [work EXCEPT ![w] = Answered(k, r)]
      BY <2>2, StripeAssumption DEF TakeCharge
    <3> QED
      BY <2>1, <2>2, <3>1, LiveCall, CallsFields DEF TakeCharge
  <2>3. CASE DeclineCharge(w)
    BY <2>1, <2>3, LiveCall, CallsFields DEF DeclineCharge
  <2>4. CASE RecordAnswer(w)
    BY <2>1, <2>4, LiveAnswer
  <2>5. CASE RecordFailure(w)
    BY <2>1, <2>5, LiveFailure
  <2>6. CASE Crash(w)
    <3>1. Idle \in Calls
      BY DEF Calls
    <3>2. work' = [work EXCEPT ![w] = Idle] /\ UNCHANGED <<attempt, posted, seen>>
      BY <2>6 DEF Crash
    <3> QED
      BY <2>1, <3>1, <3>2, LiveCall
  <2> QED
    BY <1>3, <2>2, <2>3, <2>4, <2>5, <2>6
<1>4. ASSUME NEW k \in Keys, DecideCharge(k) \/ ReturnCharge(k) \/ DeliverSome(k)
      PROVE  LiveInv'
  <2>1. CASE DecideCharge(k) \/ ReturnCharge(k)
    BY <2>1, LiveStutter DEF DecideCharge, ReturnCharge, liveVars
  <2>2. CASE DeliverSome(k)
    BY <2>2, LiveDeliver DEF DeliverSome
  <2> QED
    BY <1>4, <2>1, <2>2
<1>5. CASE Bill \/ Void \/ UNCHANGED vars
  BY <1>5, LiveStutter DEF Bill, Void, vars, liveVars
<1> QED
  BY <1>1, <1>2, <1>3, <1>4, <1>5 DEF Next

\* However answers, timeouts, events, crashes and re-runs of the job follow
\* each other, a payment's receipts are live at most once, and an attempt that
\* says succeeded has them.
THEOREM LiveOnceCorrect == Spec => []LiveOnce
<1>1. LiveInv => LiveOnce
  <2> SUFFICES ASSUME LiveInv, NEW k \in Keys
               PROVE  posted[k] <= 1 /\ (attempt[k].status = "succeeded" => posted[k] = 1)
    BY DEF LiveOnce
  <2>1. KeyInv(k)
    BY DEF LiveInv
  <2> QED
    BY <2>1 DEF KeyInv
<1> QED
  BY InitLive, NextLive, <1>1, PTL DEF Spec

-----------------------------------------------------------------------------
(* Where Stripe answers every charge with "processing", the event is the only *)
(* thing that posts, and it is processed once.                                *)

OnceInv ==
    /\ \A w \in Workers : work[w].step = "answered" => work[w].result # "succeeded"
    /\ \A k \in Keys : /\ posted[k] <= 1
                       /\ posted[k] = 1 <=> <<k, Cleared>> \in seen

\* How each step moves the calls and the receipts.
LEMMA OnceCalls ==
    ASSUME LiveInv, OnceInv, Replies = {"processing"}, [Next]_vars, NEW w \in Workers,
           work'[w].step = "answered"
    PROVE  work'[w].result # "succeeded"
<1> work \in [Workers -> Calls] /\ Workers = Sessions \cup {Scheduler}
  BY DEF LiveInv, Shape, Workers
<1>1. CASE work'[w] = work[w]
  BY <1>1 DEF OnceInv
<1>2. CASE work'[w] = Idle
  BY <1>2 DEF Idle
<1>3. CASE \E k : work'[w] = Calling(k)
  BY <1>3 DEF Calling
<1>4. CASE \E k, r : r # "succeeded" /\ work'[w] = Answered(k, r)
  BY <1>4 DEF Answered
<1>5. ASSUME NEW v \in Workers,
             TakeCharge(v) \/ DeclineCharge(v) \/ RecordAnswer(v) \/ RecordFailure(v) \/ Crash(v)
      PROVE  \/ work'[w] = work[w] \/ work'[w] = Idle
             \/ \E k, r : r # "succeeded" /\ work'[w] = Answered(k, r)
  <2>1. CASE TakeCharge(v)
    <3>1. PICK r \in {"processing", "failed"} :
             work' = [work EXCEPT ![v] = Answered(work[v].key, r)]
      BY <2>1 DEF TakeCharge
    <3> QED
      BY <3>1
  <2>2. CASE DeclineCharge(v)
    <3>1. work' = [work EXCEPT ![v] = Answered(work[v].key, "failed")]
      BY <2>2 DEF DeclineCharge
    <3> QED
      BY <3>1
  <2>3. CASE RecordAnswer(v) \/ RecordFailure(v) \/ Crash(v)
    <3>1. work' = [work EXCEPT ![v] = Idle]
      BY <2>3 DEF RecordAnswer, RecordFailure, Crash
    <3> QED
      BY <3>1
  <2> QED
    BY <1>5, <2>1, <2>2, <2>3
<1>6. ASSUME NEW s \in Sessions, MakePayment(s)
      PROVE  work'[w] = work[w] \/ \E k : work'[w] = Calling(k)
  <2>1. PICK k : work' = [work EXCEPT ![s] = Calling(k)]
    BY <1>6 DEF MakePayment, Insert
  <2> QED
    BY <2>1
<1>7. ASSUME RunAutopay
      PROVE  work'[w] = work[w] \/ \E k : work'[w] = Calling(k)
  <2>1. PICK k : work' = [work EXCEPT ![Scheduler] = Calling(k)]
    BY <1>7 DEF RunAutopay, Insert
  <2> QED
    BY <2>1
<1>8. ASSUME \/ \E k \in Keys : DecideCharge(k) \/ ReturnCharge(k) \/ DeliverSome(k)
             \/ Bill \/ Void \/ UNCHANGED vars
      PROVE  work'[w] = work[w]
  BY <1>8 DEF DecideCharge, ReturnCharge, DeliverSome, Deliver, Bill, Void, vars
<1> QED
  BY <1>1, <1>2, <1>3, <1>4, <1>5, <1>6, <1>7, <1>8 DEF Next

LEMMA OnceReceipts ==
    ASSUME LiveInv, OnceInv, [Next]_vars, NEW k \in Keys
    PROVE  posted'[k] <= 1 /\ (posted'[k] = 1 <=> <<k, Cleared>> \in seen')
<1> posted \in [Keys -> Nat]
  BY DEF LiveInv, Shape
<1>1. CASE UNCHANGED <<posted, seen>>
  BY <1>1 DEF OnceInv
<1>2. ASSUME NEW w \in Workers, RecordAnswer(w) PROVE UNCHANGED <<posted, seen>>
  BY <1>2 DEF RecordAnswer, OnceInv
<1>3. ASSUME NEW j \in Keys, NEW n \in DOMAIN sent[j], Deliver(j, n)
      PROVE  posted'[k] <= 1 /\ (posted'[k] = 1 <=> <<k, Cleared>> \in seen')
  <2> DEFINE event == sent[j][n]
  <2>1. <<j, event>> \notin seen /\ seen' = seen \cup {<<j, event>>}
    BY <1>3 DEF Deliver, Replayed
  <2>2. CASE event = Cleared
    <3>1. Settle(j)
      BY <1>3, <2>2 DEF Deliver, Cleared
    <3>2. CASE k = j
      <4>1. posted[k] = 0
        BY <2>1, <2>2, <3>2 DEF OnceInv
      <4>2. attempt[k].status # "succeeded"
        <5>1. attempt[k].status = "succeeded" => posted[k] = 1
          BY DEF LiveInv, KeyInv
        <5> QED
          BY <4>1, <5>1
      <4> QED
        BY <2>1, <2>2, <3>1, <3>2, <4>1, <4>2, SettleEffect
    <3>3. CASE k # j
      BY <2>1, <3>1, <3>3, SettleEffect DEF OnceInv
    <3> QED
      BY <3>2, <3>3
  <2>3. CASE event # Cleared
    <3>1. FailOrReturn(j, event)
      BY <1>3, <2>3 DEF Deliver, Cleared
    <3> HIDE DEF event
    <3>2. posted' = posted
      BY <3>1, FailOrReturnEffect
    <3>3. <<k, Cleared>> \in seen' <=> <<k, Cleared>> \in seen
      BY <2>1, <2>3
    <3> QED
      BY <3>2, <3>3 DEF OnceInv
  <2> QED
    BY <2>2, <2>3
<1>4. ASSUME \/ \E s \in Sessions : MakePayment(s)
             \/ RunAutopay
             \/ \E w \in Workers : TakeCharge(w) \/ DeclineCharge(w) \/ RecordFailure(w) \/ Crash(w)
             \/ \E j \in Keys : DecideCharge(j) \/ ReturnCharge(j)
             \/ Bill \/ Void \/ UNCHANGED vars
      PROVE  UNCHANGED <<posted, seen>>
  BY <1>4 DEF MakePayment, RunAutopay, TakeCharge, DeclineCharge, RecordFailure, Crash,
              DecideCharge, ReturnCharge, Bill, Void, vars
<1> QED
  BY <1>1, <1>2, <1>3, <1>4 DEF Next, DeliverSome

-----------------------------------------------------------------------------
(* Types.                                                                   *)

Row == [status : Statuses, ref : BOOLEAN, allocation : [Invoices -> Nat]]

LEMMA KeysFinite == IsFiniteSet(Keys) /\ \A S \in SUBSET Keys : IsFiniteSet(S)
<1>1. LastMonth \in Nat
  BY RentAssumption DEF RentAssumption
<1>2. IsFiniteSet(Invoices)
  BY <1>1, FS_Interval DEF Invoices
<1> DEFINE Dues == (SUBSET Invoices) \ {{}}
<1>3. IsFiniteSet(Dues)
  BY <1>2, FS_SUBSET, FS_Difference
<1> HIDE DEF Dues
<1>4. IsFiniteSet({AutopayKey(due) : due \in Dues})
  <2> DEFINE f == [due \in Dues |-> AutopayKey(due)]
  <2>1. f \in Surjection(Dues, {AutopayKey(due) : due \in Dues})
    BY DEF Surjection
  <2> HIDE DEF f
  <2> QED
    BY <1>3, <2>1, FS_Surjection
<1>5. IsFiniteSet(AutopayKeys)
  BY <1>4 DEF AutopayKeys, Dues
<1>6. IsFiniteSet(Keys)
  BY <1>5, KeysAssumption, FS_Union DEF Keys
<1> QED
  BY <1>6, FS_Subset

\* What was received on an invoice is a sum of whole postings of its allocations.
LEMMA ReceivedType ==
    ASSUME TypeOK, NEW i \in Invoices
    PROVE  Received(i) \in Nat
<1> DEFINE f == [k \in Keys |-> posted[k] * attempt[k].allocation[i]]
<1>1. \A k \in Keys : f[k] \in Nat
  <2> TAKE k \in Keys
  <2>1. posted[k] \in Nat /\ attempt[k].allocation[i] \in Nat
    BY DEF TypeOK
  <2>2. \A a, b \in Nat : a * b \in Nat
    OBVIOUS
  <2> QED
    BY <2>1, <2>2
<1> HIDE DEF f
<1>2. SumFunctionOnSet(f, Keys) \in Nat
  BY <1>1, KeysFinite, SumType
<1> QED
  BY <1>2 DEF Received, f

LEMMA DueType == ASSUME TypeOK PROVE Due \in [Invoices -> Nat]
<1>1. \A i \in Invoices : Received(i) \in Nat
  BY ReceivedType
<1>2. \A a, b \in Nat : Monus(a, b) \in Nat
  BY DEF Monus
<1>3. Rent \in Nat
  BY RentAssumption DEF RentAssumption
<1> QED
  BY <1>1, <1>2, <1>3 DEF Due

LEMMA OldestFirstType ==
    ASSUME NEW due \in [Invoices -> Nat], NEW amount \in Nat
    PROVE  OldestFirst(due, amount) \in [Invoices -> Nat]
<1>1. \A a, b \in Nat : Monus(a, b) \in Nat /\ Lesser(a, b) \in Nat
  BY DEF Monus, Lesser
<1>2. ASSUME NEW i \in Invoices PROVE SumFunctionOnSet(due, 1 .. i - 1) \in Nat
  <2> DEFINE S == 1 .. i - 1
  <2>1. i \in Int /\ S \subseteq Invoices /\ IsFiniteSet(S)
    <3>1. i \in 1 .. LastMonth /\ LastMonth \in Nat
      BY RentAssumption DEF Invoices, RentAssumption
    <3>2. i \in Int /\ S \subseteq 1 .. LastMonth
      BY <3>1
    <3> QED
      BY <3>2, FS_Interval DEF Invoices
  <2>2. \A j \in S : due[j] \in Nat
    BY <2>1
  <2> HIDE DEF S
  <2>3. SumFunctionOnSet(due, S) \in Nat
    BY <2>1, <2>2, SumType
  <2> QED
    BY <2>3 DEF S
<1>3. \A i \in Invoices : Lesser(due[i], Monus(amount, SumFunctionOnSet(due, 1 .. i - 1))) \in Nat
  BY <1>1, <1>2
<1> QED
  BY <1>3 DEF OldestFirst

\* A row whose status or reference is written is a row with its allocation.
LEMMA RowWritten ==
    ASSUME attempt \in [Keys -> Row], NEW k \in Keys, NEW status \in Statuses, NEW ref \in BOOLEAN,
           \/ attempt' = [attempt EXCEPT ![k].status = status, ![k].ref = ref]
           \/ attempt' = [attempt EXCEPT ![k].status = status] /\ ref = attempt[k].ref
           \/ attempt' = [attempt EXCEPT ![k].ref = ref] /\ status = attempt[k].status
    PROVE  /\ attempt' \in [Keys -> Row]
           /\ attempt'[k].status = status /\ attempt'[k].ref = ref
           /\ \A j \in Keys : attempt'[j].allocation = attempt[j].allocation
           /\ \A j \in Keys \ {k} : attempt'[j] = attempt[j]
<1> DEFINE row == [status |-> status, ref |-> ref, allocation |-> attempt[k].allocation]
<1>1. attempt[k] \in Row /\ row \in Row
  BY DEF Row
<1>2. attempt' = [attempt EXCEPT ![k] = row]
  <2>1. [attempt[k] EXCEPT !.status = status] \in Row
    BY <1>1 DEF Row
  <2>2. CASE attempt' = [attempt EXCEPT ![k].status = status, ![k].ref = ref]
    <3> DEFINE mid == [attempt[k] EXCEPT !.status = status]
               g == [attempt EXCEPT ![k].status = status]
    <3>1. g = [attempt EXCEPT ![k] = mid] /\ attempt' = [g EXCEPT ![k].ref = ref]
      BY <2>2
    <3>2. mid \in Row /\ mid.allocation = attempt[k].allocation /\ mid.status = status
      BY <1>1 DEF Row
    <3> HIDE DEF mid, g
    <3>3. [mid EXCEPT !.ref = ref] = row
      BY <3>2 DEF Row
    <3>4. g[k] = mid
      BY <3>1
    <3>5. attempt' = [g EXCEPT ![k] = row]
      BY <3>1, <3>3, <3>4
    <3> HIDE DEF row
    <3> QED
      BY <3>1, <3>5
  <2>3. CASE attempt' = [attempt EXCEPT ![k].status = status] /\ ref = attempt[k].ref
    BY <1>1, <2>3 DEF Row
  <2>4. CASE attempt' = [attempt EXCEPT ![k].ref = ref] /\ status = attempt[k].status
    BY <1>1, <2>4 DEF Row
  <2> QED
    BY <2>2, <2>3, <2>4
<1>3. row.status = status /\ row.ref = ref /\ row.allocation = attempt[k].allocation
  OBVIOUS
<1> HIDE DEF row
<1>4. attempt' \in [Keys -> Row] /\ attempt'[k] = row /\ \A j \in Keys \ {k} : attempt'[j] = attempt[j]
  BY <1>1, <1>2
<1> QED
  BY <1>3, <1>4

\* A new row.
LEMMA RowInserted ==
    ASSUME attempt \in [Keys -> Row], NEW w \in Workers, NEW k \in Keys,
           NEW allocation \in [Invoices -> Nat], Insert(w, k, allocation)
    PROVE  /\ attempt' \in [Keys -> Row]
           /\ attempt'[k].status = "processing" /\ attempt'[k].allocation = allocation
           /\ \A j \in Keys \ {k} : attempt'[j] = attempt[j]
  BY DEF Insert, Row, Statuses

\* The row after a failed call.
LEMMA FailureWritten ==
    ASSUME attempt \in [Keys -> Row], NEW w \in Workers, RecordFailure(w),
           NEW own \in Keys, own = work[w].key
    PROVE  /\ attempt' \in [Keys -> Row]
           /\ attempt'[own].status = "failed" /\ attempt'[own].allocation = attempt[own].allocation
           /\ \A j \in Keys \ {own} : attempt'[j] = attempt[j]
<1>1. attempt[own].ref \in BOOLEAN /\ "failed" \in Statuses
  BY DEF Row, Statuses
<1>2. PICK ref \in {attempt[own].ref, TRUE} :
        attempt' = [attempt EXCEPT ![own].status = "failed", ![own].ref = ref]
  BY DEF RecordFailure
<1>3. ref \in BOOLEAN
  BY <1>1, <1>2
<1>4. /\ attempt' \in [Keys -> Row] /\ attempt'[own].status = "failed"
      /\ \A j \in Keys : attempt'[j].allocation = attempt[j].allocation
      /\ \A j \in Keys \ {own} : attempt'[j] = attempt[j]
  BY <1>1, <1>2, <1>3, RowWritten
<1> QED
  BY <1>4

LEMMA SettleTypes ==
    ASSUME TypeOK, NEW k \in Keys, Settle(k)
    PROVE  /\ attempt' \in [Keys -> Row] /\ posted' \in [Keys -> Nat]
           /\ attempt'[k].status = "succeeded"
           /\ \A j \in Keys : attempt'[j].allocation = attempt[j].allocation
           /\ \A j \in Keys \ {k} : attempt'[j] = attempt[j] /\ posted'[j] = posted[j]
<1>1. attempt \in [Keys -> Row] /\ posted \in [Keys -> Nat] /\ "succeeded" \in Statuses
  BY DEF TypeOK, Row, Statuses
<1>2. attempt' = [attempt EXCEPT ![k].status = "succeeded", ![k].ref = TRUE]
  BY DEF Settle
<1>3. /\ posted' \in [Keys -> Nat]
      /\ \A j \in Keys \ {k} : posted'[j] = posted[j]
  <2> CASE attempt[k].status = "succeeded"
    BY <1>1 DEF Settle
  <2> CASE attempt[k].status # "succeeded"
    BY <1>1 DEF Settle
  <2> QED OBVIOUS
<1> QED
  BY <1>1, <1>2, <1>3, RowWritten

LEMMA FailOrReturnTypes ==
    ASSUME TypeOK, NEW k \in Keys, NEW event, FailOrReturn(k, event)
    PROVE  /\ attempt' \in [Keys -> Row] /\ posted' = posted
           /\ \A j \in Keys : attempt'[j].allocation = attempt[j].allocation
           /\ \A j \in Keys \ {k} : attempt'[j] = attempt[j]
<1>1. /\ attempt \in [Keys -> Row]
      /\ {"returned", "failed"} \subseteq Statuses /\ attempt[k].status \in Statuses
  BY DEF TypeOK, Row, Statuses
<1>2. CASE event # "partial_refund" /\ (attempt[k].status = "succeeded" \/ event \in ReturnEvents)
  <2>1. attempt' = [attempt EXCEPT ![k].status = "returned", ![k].ref = TRUE] /\ posted' = posted
    BY <1>2 DEF FailOrReturn
  <2> QED
    BY <1>1, <2>1, RowWritten
<1>3. CASE ~(event # "partial_refund" /\ (attempt[k].status = "succeeded" \/ event \in ReturnEvents))
  <2> DEFINE status == IF event = "charge.failed" /\ attempt[k].status = "processing"
                         THEN "failed" ELSE attempt[k].status
  <2>1. status \in Statuses
    BY <1>1
  <2>2. attempt' = [attempt EXCEPT ![k].status = status, ![k].ref = TRUE] /\ posted' = posted
    BY <1>1, <1>3 DEF FailOrReturn
  <2> HIDE DEF status
  <2> QED
    BY <1>1, <2>1, <2>2, RowWritten
<1> QED
  BY <1>2, <1>3

\* What a call that is not over is: for a key, answered or not.
LEMMA CallShape ==
    ASSUME TypeOK, NEW w \in Workers
    PROVE  /\ work[w] \in Calls
           /\ work[w].step \in {"calling", "answered"} => work[w] # Idle /\ work[w].key \in Keys
           /\ work[w] # Idle => /\ work[w].key \in Keys
                                /\ work[w].step \in {"calling", "answered"}
                                /\ work[w].step = "answered" =>
                                      work[w].result \in {"processing", "succeeded", "failed"}
<1>1. work[w] \in Calls
  BY DEF TypeOK, Calls
<1> QED
  BY <1>1 DEF Calls, Calling, Answered, Idle

\* Stripe's side after one of its charges changes.
LEMMA EventSent ==
    ASSUME TypeOK, NEW k \in Keys, NEW event \in Events, Emit(k, event)
    PROVE  /\ sent' \in [Keys -> Seq(Events)]
           /\ sent'[k] = Append(sent[k], event)
           /\ \A j \in Keys \ {k} : sent'[j] = sent[j]
<1>1. sent \in [Keys -> Seq(Events)]
  BY DEF TypeOK
<1>2. Append(sent[k], event) \in Seq(Events)
  BY <1>1, AppendProperties
<1>3. sent' = [sent EXCEPT ![k] = Append(sent[k], event)]
  BY DEF Emit
<1> QED
  BY <1>1, <1>2, <1>3

Charges == [status : {"none", "pending", "succeeded", "failed", "returned"},
            reply : {"processing", "succeeded"}]

LEMMA StatusChanged ==
    ASSUME charge \in [Keys -> Charges], NEW k \in Keys,
           NEW status \in {"none", "pending", "succeeded", "failed", "returned"},
           charge' = [charge EXCEPT ![k].status = status]
    PROVE  /\ charge' \in [Keys -> Charges] /\ charge'[k].status = status
           /\ \A j \in Keys \ {k} : charge'[j] = charge[j]
  BY DEF Charges

\* The type invariant in the terms used here.
LEMMA TypeIs ==
    TypeOK <=> /\ invoice \in [Invoices -> {"unbilled", "finalized", "void"}]
               /\ attempt \in [Keys -> Row] /\ posted \in [Keys -> Nat]
               /\ seen \subseteq Keys \X Events /\ charge \in [Keys -> Charges]
               /\ sent \in [Keys -> Seq(Events)] /\ work \in [Workers -> Calls]
  BY DEF TypeOK, Row, Charges

\* A call that moves on to an answer or is over.
LEMMA CallsMove ==
    ASSUME TypeOK, NEW w \in Workers, NEW c \in Calls, work' = [work EXCEPT ![w] = c]
    PROVE  work' \in [Workers -> Calls]
  BY TypeIs

LEMMA ChargeTaken ==
    ASSUME TypeOK, NEW w \in Workers, TakeCharge(w)
    PROVE  /\ charge' \in [Keys -> Charges] /\ sent' \in [Keys -> Seq(Events)]
           /\ work' \in [Workers -> Calls]
           /\ \A j \in Keys \ {work[w].key} : charge'[j] = charge[j] /\ sent'[j] = sent[j]
           /\ \/ UNCHANGED stripe /\ charge[work[w].key].status # "none"
              \/ /\ charge[work[w].key].status = "none"
                 /\ \/ charge'[work[w].key].status = "pending" /\ sent' = sent
                    \/ /\ charge'[work[w].key].status = "succeeded" /\ "succeeded" \in Replies
                       /\ sent'[work[w].key] = Append(sent[work[w].key], Cleared)
           /\ \E result \in Replies \cup (IF LostAnswers THEN {"failed"} ELSE {}) :
                 work' = [work EXCEPT ![w] = Answered(work[w].key, result)]
<1>1. PICK k \in Keys : k = work[w].key
  BY CallShape DEF TakeCharge
<1>2. PICK reply \in Replies :
        /\ IF charge[k].status = "none"
              THEN /\ charge' = [charge EXCEPT ![k] =
                         [status |-> IF reply = "succeeded" THEN "succeeded" ELSE "pending",
                          reply |-> reply]]
                   /\ IF reply = "succeeded" THEN Emit(k, "charge.succeeded")
                                             ELSE UNCHANGED sent
              ELSE reply = charge[k].reply /\ UNCHANGED stripe
        /\ \E result \in {reply} \cup (IF LostAnswers THEN {"failed"} ELSE {}) :
              work' = [work EXCEPT ![w] = Answered(k, result)]
  BY <1>1 DEF TakeCharge
<1>3. /\ reply \in {"processing", "succeeded"} /\ charge \in [Keys -> Charges]
      /\ sent \in [Keys -> Seq(Events)]
  BY StripeAssumption DEF StripeAssumption, TypeOK, Charges
<1>4. /\ work' \in [Workers -> Calls]
      /\ \E result \in Replies \cup (IF LostAnswers THEN {"failed"} ELSE {}) :
            work' = [work EXCEPT ![w] = Answered(k, result)]
  <2>1. PICK result \in {reply} \cup (IF LostAnswers THEN {"failed"} ELSE {}) :
          work' = [work EXCEPT ![w] = Answered(k, result)]
    BY <1>2
  <2>2. result \in {"processing", "succeeded", "failed"}
    BY <1>3, <2>1
  <2> QED
    BY <2>1, <2>2, CallsFields, CallsMove
<1>5. CASE charge[k].status # "none"
  BY <1>1, <1>2, <1>3, <1>4, <1>5 DEF stripe
<1>6. CASE charge[k].status = "none" /\ reply = "processing"
  <2>1. charge' = [charge EXCEPT ![k] = [status |-> "pending", reply |-> "processing"]] /\ sent' = sent
    BY <1>2, <1>6
  <2>2. [status |-> "pending", reply |-> "processing"] \in Charges
    BY DEF Charges
  <2> QED
    BY <1>1, <1>3, <1>4, <1>6, <2>1, <2>2
<1>7. CASE charge[k].status = "none" /\ reply = "succeeded"
  <2>1. /\ charge' = [charge EXCEPT ![k] = [status |-> "succeeded", reply |-> "succeeded"]]
        /\ Emit(k, "charge.succeeded")
    BY <1>2, <1>7
  <2>2. [status |-> "succeeded", reply |-> "succeeded"] \in Charges /\ Cleared \in Events
    BY DEF Charges, Events, Cleared
  <2>3. /\ sent' \in [Keys -> Seq(Events)] /\ sent'[k] = Append(sent[k], Cleared)
        /\ \A j \in Keys \ {k} : sent'[j] = sent[j]
    BY <2>1, <2>2, EventSent DEF Cleared
  <2>4. /\ charge' \in [Keys -> Charges] /\ charge'[k].status = "succeeded"
        /\ \A j \in Keys \ {k} : charge'[j] = charge[j]
    BY <1>3, <2>1, <2>2
  <2> QED
    BY <1>1, <1>2, <1>4, <1>7, <2>3, <2>4
<1> QED
  BY <1>3, <1>5, <1>6, <1>7

\* The bank decides, or the money goes back.
LEMMA ChargeMoves ==
    ASSUME TypeOK, NEW k \in Keys, DecideCharge(k) \/ ReturnCharge(k)
    PROVE  /\ charge' \in [Keys -> Charges] /\ sent' \in [Keys -> Seq(Events)]
           /\ \A j \in Keys \ {k} : charge'[j] = charge[j] /\ sent'[j] = sent[j]
           /\ \/ /\ charge[k].status = "pending"
                 /\ \/ charge'[k].status = "succeeded" /\ sent'[k] = Append(sent[k], Cleared)
                    \/ charge'[k].status = "failed" /\ sent'[k] = Append(sent[k], "charge.failed")
              \/ /\ charge[k].status \in {"succeeded", "returned"}
                 /\ \E event \in Events \ {Cleared} :
                       /\ sent'[k] = Append(sent[k], event)
                       /\ charge'[k].status = IF event = "partial_refund" THEN charge[k].status
                                                                          ELSE "returned"
<1>1. charge \in [Keys -> Charges] /\ {"charge.succeeded", "charge.failed"} \subseteq Events
  BY DEF TypeOK, Charges, Events
<1>2. CASE DecideCharge(k)
  <2>1. PICK decision \in {"succeeded", "failed"} :
          /\ charge' = [charge EXCEPT ![k].status = decision]
          /\ Emit(k, IF decision = "succeeded" THEN "charge.succeeded" ELSE "charge.failed")
    BY <1>2 DEF DecideCharge
  <2>2. charge[k].status = "pending"
    BY <1>2 DEF DecideCharge
  <2>3. /\ charge' \in [Keys -> Charges] /\ charge'[k].status = decision
        /\ \A j \in Keys \ {k} : charge'[j] = charge[j]
    BY <1>1, <2>1, StatusChanged
  <2>4. CASE decision = "succeeded"
    BY <1>1, <2>1, <2>2, <2>3, <2>4, EventSent DEF Cleared
  <2>5. CASE decision = "failed"
    BY <1>1, <2>1, <2>2, <2>3, <2>5, EventSent
  <2> QED
    BY <2>4, <2>5
<1>3. CASE ReturnCharge(k)
  <2>1. PICK event \in LateEvents :
          /\ charge' = [charge EXCEPT ![k].status = IF event = "partial_refund" THEN @ ELSE "returned"]
          /\ Emit(k, event)
    BY <1>3 DEF ReturnCharge
  <2>2. charge[k].status \in {"succeeded", "returned"} /\ event \in Events \ {Cleared}
    BY <1>3, StripeAssumption DEF ReturnCharge, StripeAssumption, Cleared
  <2> DEFINE status == IF event = "partial_refund" THEN charge[k].status ELSE "returned"
  <2>3. charge' = [charge EXCEPT ![k].status = status]
    BY <2>1
  <2>4. status \in {"none", "pending", "succeeded", "failed", "returned"}
    BY <2>2
  <2> HIDE DEF status
  <2>5. /\ charge' \in [Keys -> Charges] /\ charge'[k].status = status
        /\ \A j \in Keys \ {k} : charge'[j] = charge[j]
    BY <1>1, <2>3, <2>4, StatusChanged
  <2>6. /\ sent' \in [Keys -> Seq(Events)] /\ sent'[k] = Append(sent[k], event)
        /\ \A j \in Keys \ {k} : sent'[j] = sent[j]
    BY <2>1, <2>2, EventSent
  <2> QED
    BY <2>2, <2>5, <2>6 DEF status
<1> QED
  BY <1>2, <1>3

LEMMA TypeInit == Init => TypeOK
<1> SUFFICES ASSUME Init PROVE TypeOK
  OBVIOUS
<1>1. attempt \in [Keys -> Row]
  BY DEF Init, Row, Statuses, Nothing
<1>2. sent \in [Keys -> Seq(Events)]
  BY DEF Init
<1>3. charge \in [Keys -> Charges]
  BY DEF Init, Charges
<1>4. work \in [Workers -> Calls]
  BY DEF Init, Calls
<1> QED
  BY <1>1, <1>2, <1>3, <1>4 DEF Init, TypeOK, Row, Charges

LEMMA TypeNext == TypeOK /\ [Next]_vars => TypeOK'
<1> SUFFICES ASSUME TypeOK, [Next]_vars PROVE TypeOK'
  OBVIOUS
<1>t. /\ invoice \in [Invoices -> {"unbilled", "finalized", "void"}]
      /\ attempt \in [Keys -> Row] /\ posted \in [Keys -> Nat]
      /\ seen \subseteq Keys \X Events /\ charge \in [Keys -> Charges]
      /\ sent \in [Keys -> Seq(Events)] /\ work \in [Workers -> Calls]
  BY TypeIs
<1>q. ASSUME invoice' \in [Invoices -> {"unbilled", "finalized", "void"}],
             attempt' \in [Keys -> Row], posted' \in [Keys -> Nat],
             seen' \subseteq Keys \X Events, charge' \in [Keys -> Charges],
             sent' \in [Keys -> Seq(Events)], work' \in [Workers -> Calls]
      PROVE  TypeOK'
  <2>1. (/\ invoice \in [Invoices -> {"unbilled", "finalized", "void"}]
         /\ attempt \in [Keys -> Row] /\ posted \in [Keys -> Nat]
         /\ seen \subseteq Keys \X Events /\ charge \in [Keys -> Charges]
         /\ sent \in [Keys -> Seq(Events)] /\ work \in [Workers -> Calls])'
    BY <1>q
  <2> QED
    BY <2>1, TypeIs, PTL
<1>c. Idle \in Calls
  BY DEF Calls
<1> USE DEF stripe
<1>1. ASSUME NEW s \in Sessions, MakePayment(s) PROVE TypeOK'
  <2>1. PICK k \in ClientKeys, amount \in Amounts : Insert(s, k, OldestFirst(Due, amount))
    BY <1>1 DEF MakePayment
  <2>2. OldestFirst(Due, amount) \in [Invoices -> Nat]
    BY DueType, OldestFirstType, AmountsAssumption DEF AmountsAssumption
  <2>3. s \in Workers /\ k \in Keys
    BY DEF Workers, Keys
  <2>4. attempt' \in [Keys -> Row]
    BY <1>t, <2>1, <2>2, <2>3, RowInserted
  <2>5. work' \in [Workers -> Calls]
    BY <2>1, <2>3, CallsFields, CallsMove DEF Insert
  <2> QED
    BY <1>1, <1>t, <1>q, <2>4, <2>5 DEF MakePayment
<1>2. CASE RunAutopay
  <2>1. Scheduler \in Workers
    BY DEF Workers
  <2>2. ASSUME NEW k \in PendingDebits,
               work' = [work EXCEPT ![Scheduler] = Calling(k)], UNCHANGED attempt
        PROVE  TypeOK'
    <3>1. work' \in [Workers -> Calls]
      BY <2>1, <2>2, CallsFields, CallsMove DEF PendingDebits, Keys
    <3> QED
      BY <1>2, <1>t, <1>q, <2>2, <3>1 DEF RunAutopay
  <2>3. ASSUME Insert(Scheduler, AutopayKey(DueInvoices), Due) PROVE TypeOK'
    <3>1. AutopayKey(DueInvoices) \in Keys
      <4>1. DueInvoices \in (SUBSET Invoices) \ {{}}
        <5>1. DueInvoices \subseteq Invoices
          BY DEF DueInvoices
        <5>2. DueInvoices # {}
          BY <1>2 DEF RunAutopay
        <5> QED
          BY <5>1, <5>2
      <4> QED
        BY <4>1 DEF AutopayKeys, Keys
    <3>2. attempt' \in [Keys -> Row]
      BY <1>t, <2>1, <2>3, <3>1, DueType, RowInserted
    <3>3. work' \in [Workers -> Calls]
      BY <2>1, <2>3, <3>1, CallsFields, CallsMove DEF Insert
    <3> QED
      BY <1>2, <1>t, <1>q, <3>2, <3>3 DEF RunAutopay
  <2> QED
    BY <1>2, <2>2, <2>3 DEF RunAutopay
<1>3. ASSUME NEW w \in Workers, TakeCharge(w) PROVE TypeOK'
  BY <1>3, <1>t, <1>q, ChargeTaken DEF TakeCharge
<1>4. ASSUME NEW w \in Workers, DeclineCharge(w) PROVE TypeOK'
  <2>1. work[w].key \in Keys /\ work' = [work EXCEPT ![w] = Answered(work[w].key, "failed")]
    BY <1>4, CallShape DEF DeclineCharge
  <2>2. work' \in [Workers -> Calls]
    BY <2>1, CallsFields, CallsMove
  <2> QED
    BY <1>4, <1>t, <1>q, <2>2 DEF DeclineCharge
<1>5. ASSUME NEW w \in Workers, RecordAnswer(w) PROVE TypeOK'
  <2>1. PICK k \in Keys : k = work[w].key
    BY <1>5, CallShape DEF RecordAnswer
  <2>2. work' \in [Workers -> Calls]
    BY <1>5, <1>c, CallsMove DEF RecordAnswer
  <2>3. CASE Settle(k)
    BY <1>5, <1>t, <1>q, <2>2, <2>3, SettleTypes DEF RecordAnswer
  <2>4. CASE attempt' = [attempt EXCEPT ![k].ref = TRUE] /\ UNCHANGED posted
    <3>1. attempt[k].status \in Statuses
      BY <1>t DEF Row
    <3>2. attempt' \in [Keys -> Row]
      BY <1>t, <2>4, <3>1, RowWritten
    <3> QED
      BY <1>5, <1>t, <1>q, <2>2, <2>4, <3>2 DEF RecordAnswer
  <2> QED
    BY <1>5, <2>1, <2>3, <2>4 DEF RecordAnswer
<1>6. ASSUME NEW w \in Workers, RecordFailure(w) PROVE TypeOK'
  <2>1. PICK k \in Keys : k = work[w].key
    BY <1>6, CallShape DEF RecordFailure
  <2>2. work' \in [Workers -> Calls]
    BY <1>6, <1>c, CallsMove DEF RecordFailure
  <2>3. attempt[k].ref \in BOOLEAN /\ "failed" \in Statuses
    BY <1>t DEF Row, Statuses
  <2>4. attempt' \in [Keys -> Row]
    BY <1>6, <1>t, <2>1, <2>3, RowWritten DEF RecordFailure
  <2> QED
    BY <1>6, <1>t, <1>q, <2>2, <2>4 DEF RecordFailure
<1>7. ASSUME NEW w \in Workers, Crash(w) PROVE TypeOK'
  <2>1. work' \in [Workers -> Calls]
    BY <1>7, <1>c, CallsMove DEF Crash
  <2> QED
    BY <1>7, <1>t, <1>q, <2>1 DEF Crash
<1>8. ASSUME NEW k \in Keys, DecideCharge(k) \/ ReturnCharge(k) PROVE TypeOK'
  BY <1>8, <1>t, <1>q, ChargeMoves DEF DecideCharge, ReturnCharge
<1>9. ASSUME NEW k \in Keys, NEW n \in DOMAIN sent[k], Deliver(k, n) PROVE TypeOK'
  <2>1. PICK event \in Events : event = sent[k][n]
    BY <1>9, <1>t, ElementOfSeq
  <2>2. seen' \subseteq Keys \X Events
    BY <1>9, <1>t, <2>1 DEF Deliver
  <2>3. CASE Settle(k)
    BY <1>9, <1>t, <1>q, <2>2, <2>3, SettleTypes DEF Deliver
  <2>4. CASE FailOrReturn(k, event)
    BY <1>9, <1>t, <1>q, <2>2, <2>4, FailOrReturnTypes DEF Deliver
  <2> QED
    BY <1>9, <2>1, <2>3, <2>4 DEF Deliver
<1>10. CASE Bill
  BY <1>10, <1>t, <1>q DEF Bill
<1>11. CASE Void
  <2>1. PICK i : i \in Voidable /\ invoice' = [invoice EXCEPT ![i] = "void"]
    BY <1>11 DEF Void
  <2>2. invoice' \in [Invoices -> {"unbilled", "finalized", "void"}]
    BY <1>t, <2>1
  <2> QED
    BY <1>11, <1>t, <1>q, <2>2 DEF Void
<1>12. CASE UNCHANGED vars
  BY <1>12, <1>t, <1>q DEF vars
<1> QED
  BY <1>1, <1>2, <1>3, <1>4, <1>5, <1>6, <1>7, <1>8, <1>9, <1>10, <1>11, <1>12 DEF Next, DeliverSome

\* Whatever is paid, called for, decided, delivered or lost, the rows, receipts, events
\* and calls are what the code may write, allocations in whole amounts included.
THEOREM TypeCorrect == Spec => []TypeOK
  BY TypeInit, TypeNext, PTL DEF Spec

-----------------------------------------------------------------------------
(* What Stripe did, what it told and what was heard of it.                  *)

\* Money that is on its way has no event; a charge that cleared begins with the event
\* that says so; what else is told agrees with where the money is.
Told(k) ==
    /\ charge[k].status \in {"none", "pending"} => sent[k] = <<>>
    /\ charge[k].status = "succeeded" =>
         \A n \in DOMAIN sent[k] : sent[k][n] \in {Cleared, "partial_refund"}
    /\ charge[k].status = "failed" => \A n \in DOMAIN sent[k] : sent[k][n] = "charge.failed"
    /\ charge[k].status \in {"succeeded", "returned"} => sent[k] # <<>> /\ sent[k][1] = Cleared
    /\ charge[k].status = "returned" =>
         \E n \in DOMAIN sent[k] : sent[k][n] \notin {Cleared, "partial_refund"}

\* Only what was sent was processed.
Heard(k) ==
    \A event \in Events : <<k, event>> \in seen => \E n \in DOMAIN sent[k] : sent[k][n] = event

\* A charge that was not taken has a row that is pending, or no call; the answer that it
\* was taken comes after.
Called(k) ==
    /\ attempt[k].status = "none" => charge[k].status = "none"
    /\ \A w \in Workers : On(w, k) =>
         /\ work[w].step = "answered" /\ work[w].result # "failed" => charge[k].status # "none"
         /\ charge[k].status = "none" => attempt[k].status = "processing"

Followed == TypeOK /\ LiveInv /\ \A k \in Keys : Told(k) /\ Heard(k) /\ Called(k)

LEMMA FollowedInit == Init => Followed
<1> SUFFICES ASSUME Init PROVE Followed
  OBVIOUS
<1>1. \A k \in Keys : Told(k) /\ Heard(k) /\ Called(k)
  BY DEF Init, Told, Heard, Called, On
<1> QED
  BY <1>1, TypeInit, InitLive DEF Followed

\* What an event that is sent adds to the events.
LEMMA EventAdded ==
    ASSUME NEW s \in Seq(Events), NEW event \in Events
    PROVE  /\ Append(s, event) # <<>>
           /\ \A n \in DOMAIN Append(s, event) :
                 Append(s, event)[n] = event \/ (n \in DOMAIN s /\ Append(s, event)[n] = s[n])
           /\ \A n \in DOMAIN s : n \in DOMAIN Append(s, event) /\ Append(s, event)[n] = s[n]
           /\ \E n \in DOMAIN Append(s, event) : Append(s, event)[n] = event
           /\ s = <<>> => Append(s, event)[1] = event
           /\ s # <<>> => Append(s, event)[1] = s[1]
<1> DEFINE t == Append(s, event)
<1>1. /\ t \in Seq(Events) /\ Len(t) = Len(s) + 1 /\ Len(s) \in Nat
      /\ \A n \in 1 .. Len(s) : t[n] = s[n]
      /\ t[Len(s) + 1] = event
  BY AppendProperties, LenProperties
<1>2. DOMAIN s = 1 .. Len(s) /\ DOMAIN t = 1 .. Len(s) + 1
  BY <1>1, LenProperties
<1>3. s = <<>> <=> Len(s) = 0
  BY EmptySeq
<1> HIDE DEF t
<1>4. t # <<>>
  BY <1>1, EmptySeq
<1>5. /\ \A n \in DOMAIN t : t[n] = event \/ (n \in DOMAIN s /\ t[n] = s[n])
      /\ \A n \in DOMAIN s : n \in DOMAIN t /\ t[n] = s[n]
  BY <1>1, <1>2
<1>6. \E n \in DOMAIN t : t[n] = event
  <2>1. Len(s) + 1 \in DOMAIN t
    BY <1>1, <1>2
  <2> QED
    BY <1>1, <2>1
<1>7. (s = <<>> => t[1] = event) /\ (s # <<>> => t[1] = s[1])
  BY <1>1, <1>3
<1> QED
  BY <1>4, <1>5, <1>6, <1>7 DEF t

\* What was processed had been sent.
LEMMA HeardWhenSent ==
    ASSUME TypeOK, NEW k \in Keys, Heard(k), seen' = seen, sent' \in [Keys -> Seq(Events)],
           \/ sent'[k] = sent[k]
           \/ \E event \in Events : sent'[k] = Append(sent[k], event)
    PROVE  Heard(k)'
<1>1. sent[k] \in Seq(Events)
  BY DEF TypeOK
<1>2. \A n \in DOMAIN sent[k] : n \in DOMAIN sent'[k] /\ sent'[k][n] = sent[k][n]
  <2>1. CASE sent'[k] = sent[k]
    BY <2>1
  <2>2. ASSUME NEW event \in Events, sent'[k] = Append(sent[k], event)
        PROVE  \A n \in DOMAIN sent[k] : n \in DOMAIN sent'[k] /\ sent'[k][n] = sent[k][n]
    BY <1>1, <2>2, EventAdded
  <2> QED
    BY <2>1, <2>2
<1> QED
  BY <1>2 DEF Heard

\* A charge that is taken, or was taken before.
LEMMA TakeTells ==
    ASSUME Followed, NEW w \in Workers, TakeCharge(w)
    PROVE  \A k \in Keys : (Told(k) /\ Heard(k) /\ Called(k))'
<1> DEFINE own == work[w].key
<1>1. own \in Keys /\ On(w, own) /\ TypeOK
  BY CallShape DEF TakeCharge, On, Followed
<1>2. /\ charge' \in [Keys -> Charges] /\ sent' \in [Keys -> Seq(Events)]
      /\ \A j \in Keys \ {own} : charge'[j] = charge[j] /\ sent'[j] = sent[j]
      /\ \/ UNCHANGED stripe /\ charge[own].status # "none"
         \/ /\ charge[own].status = "none"
            /\ \/ charge'[own].status = "pending" /\ sent' = sent
               \/ /\ charge'[own].status = "succeeded" /\ "succeeded" \in Replies
                  /\ sent'[own] = Append(sent[own], Cleared)
  BY <1>1, ChargeTaken
<1>3. PICK result \in {"processing", "succeeded", "failed"} :
         work' = [work EXCEPT ![w] = Answered(own, result)]
  BY <1>1, ChargeTaken, StripeAssumption DEF StripeAssumption
<1>4. UNCHANGED <<attempt, seen>> /\ work \in [Workers -> Calls]
  BY <1>1, TypeIs DEF TakeCharge
<1>5. \A v \in Workers, k \in Keys : On(v, k)' => On(v, k)
  BY <1>1, <1>3, <1>4, CallsFields DEF On
<1>6. \A v \in Workers, k \in Keys : On(v, k) /\ v # w => k # own
  BY <1>1 DEF Followed, LiveInv, OneCaller
<1>7. \A v \in Workers : v # w => work'[v] = work[v]
  BY <1>3, <1>4
<1>8. work'[w] = Answered(own, result)
  BY <1>3, <1>4
<1>9. charge'[own].status # "none"
  BY <1>2 DEF stripe
<1>10. Cleared \in Events
  BY DEF Events, Cleared
<1> HIDE DEF own
<1> TAKE k \in Keys
<1>11. Heard(k)'
  BY <1>1, <1>2, <1>4, <1>10, HeardWhenSent DEF Followed, stripe
<1>12. Told(k)'
  <2>1. CASE k # own \/ UNCHANGED stripe
    BY <1>2, <2>1 DEF Followed, Told, stripe
  <2>2. CASE k = own /\ charge[own].status = "none" /\ charge'[own].status = "pending" /\ sent' = sent
    BY <2>2 DEF Followed, Told
  <2>3. CASE k = own /\ charge[own].status = "none" /\ charge'[own].status = "succeeded"
             /\ sent'[own] = Append(sent[own], Cleared)
    <3>1. sent[own] = <<>> /\ sent[own] \in Seq(Events)
      BY <1>1, <2>3 DEF Followed, Told, TypeOK
    <3>2. sent'[own] # <<>> /\ sent'[own][1] = Cleared
          /\ \A n \in DOMAIN sent'[own] : sent'[own][n] = Cleared
      BY <2>3, <3>1, <1>10, EventAdded
    <3> QED
      BY <2>3, <3>2 DEF Told
  <2> QED
    BY <1>2, <2>1, <2>2, <2>3
<1>13. Called(k)'
  <2>1. CASE k = own
    BY <1>1, <1>4, <1>9, <2>1 DEF Followed, Called, LiveInv, OneCaller
  <2>2. CASE k # own
    <3>1. ~On(w, k)'
      BY <1>8, <2>2, CallsFields, <1>1 DEF On
    <3>2. charge'[k] = charge[k] /\ attempt' = attempt /\ Called(k)
      BY <1>2, <1>4, <2>2 DEF Followed
    <3>3. \A v \in Workers : On(v, k)' => On(v, k) /\ work'[v] = work[v]
      BY <1>5, <1>7, <3>1
    <3> QED
      BY <3>2, <3>3 DEF Called
  <2> QED
    BY <2>1, <2>2
<1> QED
  BY <1>11, <1>12, <1>13

\* The bank decides, or the money goes back.
LEMMA MoveTells ==
    ASSUME Followed, NEW own \in Keys, DecideCharge(own) \/ ReturnCharge(own)
    PROVE  \A k \in Keys : (Told(k) /\ Heard(k) /\ Called(k))'
<1>1. /\ charge' \in [Keys -> Charges] /\ sent' \in [Keys -> Seq(Events)]
      /\ \A j \in Keys \ {own} : charge'[j] = charge[j] /\ sent'[j] = sent[j]
      /\ \/ /\ charge[own].status = "pending"
            /\ \/ charge'[own].status = "succeeded" /\ sent'[own] = Append(sent[own], Cleared)
               \/ charge'[own].status = "failed" /\ sent'[own] = Append(sent[own], "charge.failed")
         \/ /\ charge[own].status \in {"succeeded", "returned"}
            /\ \E event \in Events \ {Cleared} :
                  /\ sent'[own] = Append(sent[own], event)
                  /\ charge'[own].status = IF event = "partial_refund" THEN charge[own].status
                                                                      ELSE "returned"
  BY ChargeMoves DEF Followed
<1>2. UNCHANGED <<attempt, seen, work>> /\ TypeOK
  BY DEF DecideCharge, ReturnCharge, Followed
<1>3. {Cleared, "charge.failed"} \subseteq Events /\ Cleared # "charge.failed" /\ Cleared # "partial_refund"
  BY DEF Events, Cleared
<1> TAKE k \in Keys
<1>4. Heard(k)'
  BY <1>1, <1>2, <1>3, HeardWhenSent DEF Followed
<1>5. Called(k)'
  BY <1>1, <1>2 DEF Followed, Called, On
<1>6. Told(k)'
  <2>1. CASE k # own
    BY <1>1, <2>1 DEF Followed, Told
  <2>2. CASE k = own
    <3>1. sent[own] \in Seq(Events)
      BY <1>2 DEF TypeOK
    <3>2. CASE charge[own].status = "pending" /\ charge'[own].status = "succeeded"
               /\ sent'[own] = Append(sent[own], Cleared)
      <4>1. sent[own] = <<>>
        BY <3>2 DEF Followed, Told
      <4>2. sent'[own] # <<>> /\ sent'[own][1] = Cleared
            /\ \A n \in DOMAIN sent'[own] : sent'[own][n] = Cleared
        BY <1>3, <3>1, <3>2, <4>1, EventAdded
      <4> QED
        BY <2>2, <3>2, <4>2 DEF Told
    <3>3. CASE charge[own].status = "pending" /\ charge'[own].status = "failed"
               /\ sent'[own] = Append(sent[own], "charge.failed")
      <4>1. sent[own] = <<>>
        BY <3>3 DEF Followed, Told
      <4>2. \A n \in DOMAIN sent'[own] : sent'[own][n] = "charge.failed"
        BY <1>3, <3>1, <3>3, <4>1, EventAdded
      <4> QED
        BY <2>2, <3>3, <4>2 DEF Told
    <3>4. ASSUME charge[own].status \in {"succeeded", "returned"}, NEW event \in Events \ {Cleared},
                 sent'[own] = Append(sent[own], event),
                 charge'[own].status = IF event = "partial_refund" THEN charge[own].status ELSE "returned"
          PROVE  Told(own)'
      <4>1. sent[own] # <<>> /\ sent[own][1] = Cleared
        BY <3>4 DEF Followed, Told
      <4>2. sent'[own] # <<>> /\ sent'[own][1] = Cleared
        BY <3>1, <3>4, <4>1, EventAdded
      <4>3. CASE charge'[own].status = "succeeded"
        <5>1. event = "partial_refund" /\ charge[own].status = "succeeded"
          BY <3>4, <4>3
        <5>2. \A n \in DOMAIN sent'[own] : sent'[own][n] \in {Cleared, "partial_refund"}
          BY <3>1, <3>4, <5>1, EventAdded DEF Followed, Told
        <5> QED
          BY <4>2, <4>3, <5>2 DEF Told
      <4>4. CASE charge'[own].status = "returned"
        <5>1. \E n \in DOMAIN sent'[own] : sent'[own][n] \notin {Cleared, "partial_refund"}
          <6>1. CASE event = "partial_refund"
            <7>1. charge[own].status = "returned"
              BY <3>4, <4>4, <6>1
            <7>2. PICK n \in DOMAIN sent[own] : sent[own][n] \notin {Cleared, "partial_refund"}
              BY <7>1 DEF Followed, Told
            <7>3. n \in DOMAIN sent'[own] /\ sent'[own][n] = sent[own][n]
              BY <3>1, <3>4, <7>2, EventAdded
            <7> QED
              BY <7>2, <7>3
          <6>2. CASE event # "partial_refund"
            <7>1. \E n \in DOMAIN sent'[own] : sent'[own][n] = event
              BY <3>1, <3>4, EventAdded
            <7> QED
              BY <3>4, <6>2, <7>1
          <6> QED
            BY <6>1, <6>2
        <5> QED
          BY <4>2, <4>4, <5>1 DEF Told
      <4> QED
        BY <3>4, <4>3, <4>4
    <3> QED
      BY <1>1, <2>2, <3>2, <3>3, <3>4
  <2> QED
    BY <2>1, <2>2
<1> QED
  BY <1>4, <1>5, <1>6

\* A step that leaves Stripe's side alone and ends calls or leaves them as they are.
LEMMA QuietFollows ==
    ASSUME Followed, UNCHANGED stripe,
           \A w \in Workers, k \in Keys : On(w, k)' => On(w, k) /\ work'[w] = work[w],
           \A k \in Keys : attempt'[k].status = "none" => attempt[k].status = "none",
           \A w \in Workers, k \in Keys :
               On(w, k)' /\ charge[k].status = "none" /\ attempt[k].status = "processing"
                   => attempt'[k].status = "processing",
           \A k \in Keys, event \in Events : <<k, event>> \in seen' =>
               <<k, event>> \in seen \/ \E n \in DOMAIN sent[k] : sent[k][n] = event
    PROVE  \A k \in Keys : (Told(k) /\ Heard(k) /\ Called(k))'
<1>1. charge' = charge /\ sent' = sent
  BY DEF stripe
<1> TAKE k \in Keys
<1>2. Told(k)' /\ Heard(k)'
  BY <1>1 DEF Followed, Told, Heard
<1>3. Called(k)'
  <2>1. attempt'[k].status = "none" => charge'[k].status = "none"
    BY <1>1 DEF Followed, Called
  <2>2. ASSUME NEW w \in Workers, On(w, k)'
        PROVE  /\ work'[w].step = "answered" /\ work'[w].result # "failed" => charge'[k].status # "none"
               /\ charge'[k].status = "none" => attempt'[k].status = "processing"
    <3>1. On(w, k) /\ work'[w] = work[w] /\ Called(k)
      BY <2>2 DEF Followed
    <3> QED
      BY <1>1, <2>2, <3>1 DEF Called
  <2> QED
    BY <2>1, <2>2 DEF Called
<1> QED
  BY <1>2, <1>3

\* A new row and a call for it, or a call for a row that is pending.
LEMMA CallFollows ==
    ASSUME Followed, UNCHANGED <<stripe, seen>>, NEW w \in Workers, NEW own \in Keys,
           work' = [work EXCEPT ![w] = Calling(own)],
           \A k \in Keys \ {own} : attempt'[k] = attempt[k],
           attempt'[own].status = "processing"
    PROVE  \A k \in Keys : (Told(k) /\ Heard(k) /\ Called(k))'
<1>1. charge' = charge /\ sent' = sent /\ seen' = seen /\ work \in [Workers -> Calls]
  BY TypeIs DEF stripe, Followed
<1> TAKE k \in Keys
<1>2. Told(k)' /\ Heard(k)'
  BY <1>1 DEF Followed, Told, Heard
<1>3. attempt'[k].status = "none" => attempt[k].status = "none"
  BY DEF Followed
<1>4. attempt[k].status = "processing" => attempt'[k].status = "processing"
  BY DEF Followed
<1>5. work'[w] = Calling(own) /\ \A v \in Workers : v # w => work'[v] = work[v]
  BY <1>1
<1>6. ASSUME NEW v \in Workers, On(v, k)'
      PROVE  /\ work'[v].step = "answered" /\ work'[v].result # "failed" => charge'[k].status # "none"
             /\ charge'[k].status = "none" => attempt'[k].status = "processing"
  <2>1. CASE v = w
    <3>1. k = own /\ work'[v].step = "calling"
      BY <1>5, <1>6, <2>1 DEF On, Calling
    <3> QED
      BY <3>1
  <2>2. CASE v # w
    <3>1. On(v, k) /\ work'[v] = work[v] /\ Called(k)
      BY <1>5, <1>6, <2>2 DEF On, Followed
    <3> QED
      BY <1>1, <1>4, <3>1 DEF Called
  <2> QED
    BY <2>1, <2>2
<1> QED
  BY <1>1, <1>2, <1>3, <1>6 DEF Followed, Called

LEMMA FollowedNext == Followed /\ [Next]_vars => Followed'
<1> SUFFICES ASSUME Followed, [Next]_vars PROVE \A k \in Keys : (Told(k) /\ Heard(k) /\ Called(k))'
  BY TypeNext, NextLive DEF Followed
<1>t. TypeOK /\ LiveInv /\ attempt \in [Keys -> Row] /\ work \in [Workers -> Calls]
      /\ sent \in [Keys -> Seq(Events)]
  BY TypeIs DEF Followed
\* One call ends; a row that is written is its own.
<1>e. ASSUME NEW w \in Workers, NEW own \in Keys, On(w, own), work' = [work EXCEPT ![w] = Idle],
             UNCHANGED <<stripe, seen>>, \A k \in Keys \ {own} : attempt'[k] = attempt[k],
             attempt'[own].status = "none" => attempt[own].status = "none"
      PROVE  \A k \in Keys : (Told(k) /\ Heard(k) /\ Called(k))'
  <2>1. work'[w] = Idle /\ \A v \in Workers : v # w => work'[v] = work[v]
    BY <1>e, <1>t
  <2>2. \A v \in Workers, k \in Keys : On(v, k)' => On(v, k) /\ work'[v] = work[v] /\ v # w
    BY <2>1 DEF On
  <2>3. \A v \in Workers : v # w => ~On(v, own)
    BY <1>e, <1>t DEF LiveInv, OneCaller
  <2> QED
    BY <1>e, <2>2, <2>3, QuietFollows
<1>1. ASSUME NEW s \in Sessions, MakePayment(s) PROVE \A k \in Keys : (Told(k) /\ Heard(k) /\ Called(k))'
  <2>1. PICK k \in ClientKeys, amount \in Amounts : Insert(s, k, OldestFirst(Due, amount))
    BY <1>1 DEF MakePayment
  <2>2. OldestFirst(Due, amount) \in [Invoices -> Nat]
    BY <1>t, DueType, OldestFirstType, AmountsAssumption DEF AmountsAssumption
  <2>3. s \in Workers /\ k \in Keys /\ UNCHANGED <<stripe, seen>>
    BY <1>1 DEF Workers, Keys, MakePayment
  <2>4. attempt'[k].status = "processing" /\ \A j \in Keys \ {k} : attempt'[j] = attempt[j]
    BY <1>t, <2>1, <2>2, <2>3, RowInserted
  <2> QED
    BY <2>1, <2>3, <2>4, CallFollows DEF Insert
<1>2. CASE RunAutopay
  <2>1. Scheduler \in Workers /\ UNCHANGED <<stripe, seen>>
    BY <1>2 DEF Workers, RunAutopay
  <2>2. ASSUME NEW k \in PendingDebits,
               work' = [work EXCEPT ![Scheduler] = Calling(k)], UNCHANGED attempt
        PROVE  \A j \in Keys : (Told(j) /\ Heard(j) /\ Called(j))'
    <3>1. k \in Keys /\ attempt'[k].status = "processing"
      BY <2>2 DEF PendingDebits, Keys
    <3> QED
      BY <2>1, <2>2, <3>1, CallFollows
  <2>3. ASSUME Insert(Scheduler, AutopayKey(DueInvoices), Due)
        PROVE  \A j \in Keys : (Told(j) /\ Heard(j) /\ Called(j))'
    <3>1. AutopayKey(DueInvoices) \in Keys
      <4>1. DueInvoices \in (SUBSET Invoices) \ {{}}
        <5>1. DueInvoices \subseteq Invoices
          BY DEF DueInvoices
        <5>2. DueInvoices # {}
          BY <1>2 DEF RunAutopay
        <5> QED
          BY <5>1, <5>2
      <4> QED
        BY <4>1 DEF AutopayKeys, Keys
    <3>0. PICK k \in Keys : k = AutopayKey(DueInvoices)
      BY <3>1
    <3>2. attempt'[k].status = "processing" /\ \A j \in Keys \ {k} : attempt'[j] = attempt[j]
      BY <1>t, <2>1, <2>3, <3>0, DueType, RowInserted
    <3>3. work' = [work EXCEPT ![Scheduler] = Calling(k)]
      BY <2>3, <3>0 DEF Insert
    <3> QED
      BY <2>1, <3>2, <3>3, CallFollows
  <2> QED
    BY <1>2, <2>2, <2>3 DEF RunAutopay
<1>3. ASSUME NEW w \in Workers, TakeCharge(w) PROVE \A k \in Keys : (Told(k) /\ Heard(k) /\ Called(k))'
  BY <1>3, TakeTells
<1>4. ASSUME NEW w \in Workers, DeclineCharge(w) PROVE \A k \in Keys : (Told(k) /\ Heard(k) /\ Called(k))'
  <2>1. PICK own \in Keys : own = work[w].key /\ On(w, own)
    BY <1>4, <1>t, CallShape DEF DeclineCharge, On
  <2>2. /\ work'[w] = Answered(own, "failed") /\ \A v \in Workers : v # w => work'[v] = work[v]
        /\ UNCHANGED <<attempt, seen>> /\ charge' = charge /\ sent' = sent
    BY <1>4, <1>t, <2>1 DEF DeclineCharge, stripe
  <2> TAKE k \in Keys
  <2>3. Told(k)' /\ Heard(k)'
    BY <2>2 DEF Followed, Told, Heard
  <2>4. \A v \in Workers : On(v, k)' => On(v, k) /\ (work'[v] = work[v] \/ work'[v].result = "failed")
    BY <2>1, <2>2, CallsFields DEF On, Answered
  <2>5. Called(k)'
    <3>1. Called(k)
      BY DEF Followed
    <3> QED
      BY <2>2, <2>4, <3>1 DEF Called
  <2> QED
    BY <2>3, <2>5
<1>5. ASSUME NEW w \in Workers, RecordAnswer(w) PROVE \A k \in Keys : (Told(k) /\ Heard(k) /\ Called(k))'
  <2>1. PICK own \in Keys : own = work[w].key /\ On(w, own)
    BY <1>5, <1>t, CallShape DEF RecordAnswer, On
  <2>2. work' = [work EXCEPT ![w] = Idle] /\ UNCHANGED <<stripe, seen>>
    BY <1>5 DEF RecordAnswer
  <2>3. CASE Settle(own)
    <3>1. attempt'[own].status = "succeeded" /\ \A j \in Keys \ {own} : attempt'[j] = attempt[j]
      BY <1>t, <2>3, SettleTypes
    <3> QED
      BY <1>e, <2>1, <2>2, <3>1
  <2>4. CASE attempt' = [attempt EXCEPT ![own].ref = TRUE]
    <3>1. attempt[own].status \in Statuses
      BY <1>t DEF Row
    <3>2. /\ attempt'[own].status = attempt[own].status
          /\ \A j \in Keys \ {own} : attempt'[j] = attempt[j]
      BY <1>t, <2>4, <3>1, RowWritten
    <3> QED
      BY <1>e, <2>1, <2>2, <3>2
  <2> QED
    BY <1>5, <2>1, <2>3, <2>4 DEF RecordAnswer
<1>6. ASSUME NEW w \in Workers, RecordFailure(w) PROVE \A k \in Keys : (Told(k) /\ Heard(k) /\ Called(k))'
  <2>1. PICK own \in Keys : own = work[w].key /\ On(w, own)
    BY <1>6, <1>t, CallShape DEF RecordFailure, On
  <2>2. work' = [work EXCEPT ![w] = Idle] /\ UNCHANGED <<stripe, seen>>
    BY <1>6 DEF RecordFailure
  <2>4. attempt'[own].status = "failed" /\ \A j \in Keys \ {own} : attempt'[j] = attempt[j]
    BY <1>6, <1>t, <2>1, FailureWritten
  <2> QED
    BY <1>e, <2>1, <2>2, <2>4
<1>7. ASSUME NEW w \in Workers, Crash(w) PROVE \A k \in Keys : (Told(k) /\ Heard(k) /\ Called(k))'
  <2>1. PICK own \in Keys : On(w, own)
    BY <1>7, <1>t, CallShape DEF Crash, On
  <2>2. work' = [work EXCEPT ![w] = Idle] /\ UNCHANGED <<stripe, seen, attempt>>
    BY <1>7 DEF Crash
  <2> QED
    BY <1>e, <2>1, <2>2
<1>8. ASSUME NEW k \in Keys, DecideCharge(k) \/ ReturnCharge(k)
      PROVE  \A j \in Keys : (Told(j) /\ Heard(j) /\ Called(j))'
  BY <1>8, MoveTells
<1>9. ASSUME NEW k \in Keys, NEW n \in DOMAIN sent[k], Deliver(k, n)
      PROVE  \A j \in Keys : (Told(j) /\ Heard(j) /\ Called(j))'
  <2>1. PICK event \in Events : event = sent[k][n]
    BY <1>9, <1>t, ElementOfSeq
  <2>2. UNCHANGED <<stripe, work>> /\ seen' = seen \cup {<<k, event>>}
    BY <1>9, <2>1 DEF Deliver
  <2>3. charge[k].status # "none"
    <3>1. sent[k] # <<>>
      OBVIOUS
    <3> QED
      BY <3>1 DEF Followed, Told
  <2>4. attempt'[k].status # "none" \/ attempt[k].status = "none"
    <3>1. CASE Settle(k)
      BY <1>t, <3>1, SettleTypes
    <3>2. CASE FailOrReturn(k, event)
      BY <1>t, <3>2, FailOrReturnEffect
    <3> QED
      BY <1>9, <2>1, <3>1, <3>2 DEF Deliver
  <2>5. \A j \in Keys \ {k} : attempt'[j] = attempt[j]
    <3>1. CASE Settle(k)
      BY <1>t, <3>1, SettleTypes
    <3>2. CASE FailOrReturn(k, event)
      BY <1>t, <3>2, FailOrReturnTypes
    <3> QED
      BY <1>9, <2>1, <3>1, <3>2 DEF Deliver
  <2>6. \A v \in Workers, j \in Keys : On(v, j)' => On(v, j) /\ work'[v] = work[v]
    BY <2>2 DEF On
  <2>7. \A j \in Keys, e \in Events : <<j, e>> \in seen' =>
            <<j, e>> \in seen \/ \E m \in DOMAIN sent[j] : sent[j][m] = e
    BY <2>1, <2>2
  <2> QED
    BY <2>2, <2>3, <2>4, <2>5, <2>6, <2>7, QuietFollows
<1>10. CASE Bill \/ Void \/ UNCHANGED vars
  <2>1. UNCHANGED <<stripe, attempt, seen, work>>
    BY <1>10 DEF Bill, Void, vars, stripe
  <2>2. \A v \in Workers, j \in Keys : On(v, j)' => On(v, j) /\ work'[v] = work[v]
    BY <2>1 DEF On
  <2> QED
    BY <2>1, <2>2, QuietFollows
<1> QED
  BY <1>1, <1>2, <1>3, <1>4, <1>5, <1>6, <1>7, <1>8, <1>9, <1>10 DEF Next, DeliverSome

-----------------------------------------------------------------------------
(* The payments keep the safety of Collection.                              *)

Money == [k \in Keys |-> charge[k].status]
Ledger == [k \in Keys |-> IF posted[k] > 0 THEN "posted" ELSE "none"]

Kept == Followed /\ OnceInv

\* A step that moves neither the money nor the receipts.
LEMMA KeptStutter ==
    UNCHANGED <<charge, posted>> => [Promise!CollectionNext]_(Promise!collectionVars)
  BY DEF Promise!collectionVars

\* A step that moves the money of one charge.
LEMMA MoneyMoves ==
    ASSUME NEW own \in Keys, UNCHANGED posted,
           \A k \in Keys \ {own} : charge'[k] = charge[k]
    PROVE  /\ Money' = [Money EXCEPT ![own] = charge'[own].status]
           /\ Ledger' = Ledger
  BY DEF Money, Ledger

\* A step that moves the receipts of one payment.
LEMMA LedgerMoves ==
    ASSUME TypeOK, TypeOK', NEW own \in Keys, charge' = charge,
           \A k \in Keys \ {own} : posted'[k] = posted[k]
    PROVE  /\ Ledger' = [Ledger EXCEPT ![own] = IF posted'[own] > 0 THEN "posted" ELSE "none"]
           /\ Money' = Money
<1> DEFINE of(k) == IF posted'[k] > 0 THEN "posted" ELSE "none"
<1>1. \A k \in Keys : Ledger'[k] = of(k) /\ (k # own => Ledger[k] = of(k))
  BY DEF Ledger
<1>2. Ledger' = [k \in Keys |-> Ledger'[k]] /\ Ledger = [k \in Keys |-> Ledger[k]]
  BY DEF Ledger
<1> HIDE DEF of
<1>3. Ledger' = [Ledger EXCEPT ![own] = of(own)]
  BY <1>1, <1>2
<1>4. Money' = Money
  BY DEF Money
<1> QED
  BY <1>3, <1>4 DEF of

\* An event of a charge tells where its money is.
LEMMA EventTells ==
    ASSUME Followed, NEW k \in Keys, NEW n \in DOMAIN sent[k]
    PROVE  /\ sent[k][n] \in Events
           /\ sent[k][n] = Cleared => charge[k].status \in {"succeeded", "returned"}
           /\ sent[k][n] \notin {Cleared, "partial_refund"} => charge[k].status \in {"failed", "returned"}
<1>1. sent \in [Keys -> Seq(Events)] /\ charge \in [Keys -> Charges]
  BY TypeIs DEF Followed
<1>2. sent[k][n] \in Events /\ sent[k] # <<>>
  BY <1>1, ElementOfSeq
<1>3. charge[k].status \in {"succeeded", "failed", "returned"}
  BY <1>1, <1>2 DEF Followed, Told, Charges
<1> QED
  BY <1>2, <1>3 DEF Followed, Told, Cleared

\* What was processed tells as much.
LEMMA HeardTells ==
    ASSUME Followed, NEW k \in Keys, NEW event \in Events, <<k, event>> \in seen
    PROVE  /\ event = Cleared => charge[k].status \in {"succeeded", "returned"}
           /\ event \notin {Cleared, "partial_refund"} => charge[k].status \in {"failed", "returned"}
<1>1. PICK n \in DOMAIN sent[k] : sent[k][n] = event
  BY DEF Followed, Heard
<1> QED
  BY <1>1, EventTells

LEMMA KeptNext ==
    ASSUME Kept, TypeOK', [Next]_vars, Replies = {"processing"}
    PROVE  [Promise!CollectionNext]_(Promise!collectionVars)
<1>t. /\ TypeOK /\ LiveInv /\ Followed /\ OnceInv
      /\ posted \in [Keys -> Nat] /\ charge \in [Keys -> Charges]
  BY TypeIs DEF Kept, Followed
<1>m. ASSUME NEW own \in Keys, UNCHANGED posted, \A k \in Keys \ {own} : charge'[k] = charge[k],
             \/ charge'[own].status = charge[own].status
             \/ charge[own].status = "none" /\ charge'[own].status = "pending"
             \/ charge[own].status = "pending" /\ charge'[own].status \in {"succeeded", "failed"}
             \/ charge[own].status = "succeeded" /\ charge'[own].status = "returned"
      PROVE  [Promise!CollectionNext]_(Promise!collectionVars)
  <2>1. Money' = [Money EXCEPT ![own] = charge'[own].status] /\ Ledger' = Ledger
    BY <1>m, MoneyMoves
  <2>2. Money[own] = charge[own].status
    BY DEF Money
  <2>3. CASE charge'[own].status = charge[own].status
    <3>1. Money' = Money
      BY <2>1, <2>2, <2>3 DEF Money
    <3> QED
      BY <2>1, <3>1 DEF Promise!collectionVars, Money, Ledger
  <2>4. CASE charge[own].status = "none" /\ charge'[own].status = "pending"
    <3>1. Promise!TakeMoney(own)
      BY <2>1, <2>2, <2>4 DEF Promise!TakeMoney, Money, Ledger
    <3> QED
      BY <3>1 DEF Promise!CollectionNext
  <2>5. CASE charge[own].status = "pending" /\ charge'[own].status \in {"succeeded", "failed"}
    <3>1. Promise!DecideMoney(own)
      BY <2>1, <2>2, <2>5 DEF Promise!DecideMoney, Money, Ledger
    <3> QED
      BY <3>1 DEF Promise!CollectionNext
  <2>6. CASE charge[own].status = "succeeded" /\ charge'[own].status = "returned"
    <3>1. Promise!ReturnMoney(own)
      BY <2>1, <2>2, <2>6 DEF Promise!ReturnMoney, Money, Ledger
    <3> QED
      BY <3>1 DEF Promise!CollectionNext
  <2> QED
    BY <1>m, <2>3, <2>4, <2>5, <2>6
<1>1. ASSUME NEW w \in Workers, TakeCharge(w) PROVE [Promise!CollectionNext]_(Promise!collectionVars)
  <2>1. PICK own \in Keys : own = work[w].key
    BY <1>1, <1>t, CallShape DEF TakeCharge
  <2>2. UNCHANGED posted
    BY <1>1 DEF TakeCharge
  <2>3. \A j \in Keys \ {own} : charge'[j] = charge[j]
    BY <1>1, <1>t, <2>1, ChargeTaken
  <2>4. \/ charge'[own].status = charge[own].status
        \/ charge[own].status = "none" /\ charge'[own].status = "pending"
    BY <1>1, <1>t, <2>1, ChargeTaken DEF stripe
  <2> QED
    BY <1>m, <2>2, <2>3, <2>4
<1>2. ASSUME NEW own \in Keys, DecideCharge(own) \/ ReturnCharge(own)
      PROVE  [Promise!CollectionNext]_(Promise!collectionVars)
  <2>1. UNCHANGED posted
    BY <1>2 DEF DecideCharge, ReturnCharge
  <2>2. \A j \in Keys \ {own} : charge'[j] = charge[j]
    BY <1>2, <1>t, ChargeMoves
  <2>3. \/ charge'[own].status = charge[own].status
        \/ charge[own].status = "pending" /\ charge'[own].status \in {"succeeded", "failed"}
        \/ charge[own].status = "succeeded" /\ charge'[own].status = "returned"
    BY <1>2, <1>t, ChargeMoves
  <2> QED
    BY <1>m, <2>1, <2>2, <2>3
<1>3. ASSUME NEW own \in Keys, NEW n \in DOMAIN sent[own], Deliver(own, n)
      PROVE  [Promise!CollectionNext]_(Promise!collectionVars)
  <2>1. PICK event \in Events : event = sent[own][n]
    BY <1>t, EventTells
  <2>2. <<own, event>> \notin seen /\ charge' = charge /\ posted[own] \in Nat
    BY <1>3, <1>t, <2>1 DEF Deliver, Replayed, stripe
  <2>3. Ledger[own] = (IF posted[own] > 0 THEN "posted" ELSE "none")
        /\ Money[own] = charge[own].status
    BY DEF Ledger, Money
  <2>4. CASE event = Cleared
    <3>1. Settle(own)
      BY <1>3, <2>1, <2>4 DEF Deliver, Cleared
    <3>2. posted[own] = 0
      BY <1>t, <2>2, <2>4 DEF OnceInv
    <3>3. attempt[own].status # "succeeded"
      <4>1. attempt[own].status = "succeeded" => posted[own] = 1
        BY <1>t DEF LiveInv, KeyInv
      <4> QED
        BY <3>2, <4>1
    <3>4. /\ posted'[own] = 1
          /\ \A j \in Keys \ {own} : posted'[j] = posted[j]
      BY <1>t, <3>1, <3>2, <3>3, SettleEffect
    <3>5. Ledger' = [Ledger EXCEPT ![own] = "posted"] /\ Money' = Money
      BY <1>t, <2>2, <3>4, LedgerMoves
    <3>6. charge[own].status \in {"succeeded", "returned"}
      BY <1>t, <2>1, <2>4, EventTells
    <3>7. Promise!PostMoney(own)
      BY <2>3, <3>2, <3>5, <3>6 DEF Promise!PostMoney, Ledger, Money
    <3> QED
      BY <3>7 DEF Promise!CollectionNext
  <2>5. CASE event # Cleared
    <3>1. FailOrReturn(own, event)
      BY <1>3, <2>1, <2>5 DEF Deliver, Cleared
    <3>2. posted' = posted
      BY <1>t, <3>1, FailOrReturnEffect
    <3> QED
      BY <2>2, <3>2, KeptStutter
  <2> QED
    BY <2>4, <2>5
<1>4. ASSUME NEW w \in Workers, RecordAnswer(w) PROVE UNCHANGED <<charge, posted>>
  BY <1>4, <1>t DEF RecordAnswer, OnceInv, stripe
<1>5. ASSUME NEW w \in Workers, DeclineCharge(w) \/ RecordFailure(w) \/ Crash(w)
      PROVE UNCHANGED <<charge, posted>>
  BY <1>5 DEF DeclineCharge, RecordFailure, Crash, stripe
<1>6. ASSUME \/ \E s \in Sessions : MakePayment(s)
             \/ RunAutopay \/ Bill \/ Void \/ UNCHANGED vars
      PROVE UNCHANGED <<charge, posted>>
  BY <1>6 DEF MakePayment, RunAutopay, Bill, Void, vars, stripe
<1> QED
  BY <1>1, <1>2, <1>3, <1>4, <1>5, <1>6, KeptStutter DEF Next, DeliverSome

\* Where Stripe answers every charge with "processing", the payments do what Collection
\* allows and nothing else, whatever is lost, reordered or repeated: money that cleared is
\* posted once and for good, and nothing else ever is.
THEOREM CollectsSafely == Replies = {"processing"} /\ Spec => Promise!CollectionSafety
<1> SUFFICES ASSUME Replies = {"processing"} PROVE Spec => Promise!CollectionSafety
  OBVIOUS
<1>1. Init => Kept /\ Promise!CollectionInit
  <2> SUFFICES ASSUME Init PROVE Kept /\ Promise!CollectionInit
    OBVIOUS
  <2>1. OnceInv
    BY DEF Init, OnceInv, Idle
  <2>2. Promise!CollectionInit
    BY DEF Init, Promise!CollectionInit
  <2> QED
    BY <2>1, <2>2, FollowedInit DEF Kept
<1>2. Kept /\ [Next]_vars => Kept'
  BY FollowedNext, OnceCalls, OnceReceipts DEF Kept, OnceInv, Followed
<1>3. Kept /\ [Next]_vars => [Promise!CollectionNext]_(Promise!collectionVars)
  BY KeptNext, TypeNext DEF Kept, Followed
<1> QED
  BY <1>1, <1>2, <1>3, PTL DEF Spec, Promise!CollectionSafety

-----------------------------------------------------------------------------
(* When no answer is lost, a failed call is a declined one.                 *)

\* A failed call means that there is no charge, so the failure is not written over a row
\* whose money is on its way; and receipts are live only where the resident sees it.
Sure(k) ==
    /\ \A w \in Workers : On(w, k) /\ work[w].step = "answered" /\ work[w].result = "failed"
           => charge[k].status = "none"
    /\ charge[k].status \in {"pending", "succeeded"}
           => attempt[k].status \in {"processing", "succeeded"}
    /\ posted[k] > 0 => attempt[k].status = "succeeded"

AllSure == \A k \in Keys : Sure(k)

LEMMA AutopayKeyIn == RunAutopay => AutopayKey(DueInvoices) \in AutopayKeys
<1> SUFFICES ASSUME RunAutopay PROVE AutopayKey(DueInvoices) \in AutopayKeys
  OBVIOUS
<1>1. DueInvoices \subseteq Invoices
  BY DEF DueInvoices
<1>2. DueInvoices # {}
  BY DEF RunAutopay
<1>3. DueInvoices \in (SUBSET Invoices) \ {{}}
  BY <1>1, <1>2
<1> QED
  BY <1>3 DEF AutopayKeys

\* A step that leaves a payment as it is.
LEMMA SureStays ==
    ASSUME NEW k \in Keys, Sure(k), charge'[k].status = charge[k].status,
           attempt'[k].status = attempt[k].status, posted'[k] = posted[k],
           \A w \in Workers : On(w, k)' =>
               \/ On(w, k) /\ work'[w] = work[w]
               \/ work'[w].step # "answered" \/ work'[w].result # "failed"
    PROVE  Sure(k)'
  BY DEF Sure

\* An attempt is written as pending by the caller that goes on to call.
LEMMA SureCalls ==
    ASSUME Followed, AllSure, NEW w \in Workers, NEW own \in Keys,
           work' = [work EXCEPT ![w] = Calling(own)], UNCHANGED <<posted, charge>>,
           attempt[own].status \in {"none", "processing"}, attempt'[own].status = "processing",
           \A k \in Keys \ {own} : attempt'[k] = attempt[k]
    PROVE  AllSure'
<1>1. work'[w] = Calling(own) /\ \A v \in Workers : v # w => work'[v] = work[v]
  BY TypeIs DEF Followed
<1>2. \A v \in Workers, k \in Keys : On(v, k)' =>
          (On(v, k) /\ work'[v] = work[v]) \/ work'[v].step # "answered"
  BY <1>1 DEF On, Calling
<1>3. posted[own] = 0 /\ Sure(own)
  BY DEF Followed, LiveInv, KeyInv, AllSure
<1>4. Sure(own)'
  <2>1. \A v \in Workers : On(v, own)' /\ work'[v].step = "answered" /\ work'[v].result = "failed"
            => charge'[own].status = "none"
    BY <1>2, <1>3 DEF Sure
  <2> QED
    BY <1>3, <2>1 DEF Sure
<1>5. ASSUME NEW k \in Keys \ {own} PROVE Sure(k)'
  <2>1. Sure(k) /\ attempt'[k] = attempt[k]
    BY DEF AllSure
  <2> QED
    BY <1>2, <2>1, SureStays
<1> QED
  BY <1>4, <1>5 DEF AllSure

\* An event that is no news about the money.
LEMMA PartialRefundStatus ==
    ASSUME LiveInv, NEW k \in Keys, FailOrReturn(k, "partial_refund")
    PROVE  attempt'[k].status = attempt[k].status
<1>1. attempt[k].status \in Statuses /\ Rows
  BY DEF LiveInv, Shape, Rows
<1>2. attempt' = [attempt EXCEPT ![k].status = attempt[k].status, ![k].ref = TRUE]
  BY <1>1 DEF FailOrReturn, Rows
<1> QED
  BY <1>1, <1>2, WriteRow

LEMMA SureDelivery ==
    ASSUME Followed, AllSure, NEW own \in Keys, NEW n \in DOMAIN sent[own], Deliver(own, n)
    PROVE  AllSure'
<1>t. TypeOK /\ LiveInv /\ Sure(own) /\ KeyInv(own)
  BY DEF Followed, LiveInv, AllSure
<1>1. PICK event \in Events : event = sent[own][n]
  BY EventTells
<1>2. charge' = charge /\ work' = work
  BY DEF Deliver, stripe
<1>3. \A w \in Workers, k \in Keys : On(w, k)' => On(w, k) /\ work'[w] = work[w]
  BY <1>2 DEF On
<1>4. \A k \in Keys \ {own} : attempt'[k] = attempt[k] /\ posted'[k] = posted[k]
  <2>1. CASE Settle(own)
    BY <1>t, <2>1, SettleEffect
  <2>2. CASE FailOrReturn(own, event)
    BY <1>t, <2>2, FailOrReturnEffect
  <2> QED
    BY <1>1, <2>1, <2>2 DEF Deliver
<1>5. ASSUME NEW k \in Keys \ {own} PROVE Sure(k)'
  <2>1. Sure(k)
    BY DEF AllSure
  <2> QED
    BY <1>2, <1>3, <1>4, <2>1, SureStays
<1>6. Sure(own)'
  <2>1. CASE event = Cleared
    <3>1. Settle(own)
      BY <1>1, <2>1 DEF Deliver, Cleared
    <3>2. attempt'[own].status = "succeeded"
      BY <1>t, <3>1, SettleEffect
    <3> QED
      BY <1>2, <1>3, <1>t, <3>2 DEF Sure
  <2>2. CASE event # Cleared
    <3>1. FailOrReturn(own, event)
      BY <1>1, <2>2 DEF Deliver, Cleared
    <3>2. CASE event = "partial_refund"
      <4>1. attempt'[own].status = attempt[own].status
        BY <1>t, <3>1, <3>2, PartialRefundStatus
      <4>2. posted'[own] = posted[own]
        BY <1>t, <3>1, FailOrReturnEffect
      <4> QED
        BY <1>2, <1>3, <1>t, <4>1, <4>2, SureStays
    <3>3. CASE event # "partial_refund"
      <4>1. charge[own].status \in {"failed", "returned"}
        BY <1>1, <2>2, <3>3, EventTells
      <4>2. posted'[own] > 0 => attempt'[own].status = "succeeded"
        <5>1. posted'[own] = posted[own]
          BY <1>t, <3>1, FailOrReturnEffect
        <5>2. attempt[own].status = "processing" => posted[own] = 0
          BY <1>t DEF KeyInv
        <5>3. posted[own] > 0 => attempt[own].status = "succeeded"
          BY <1>t DEF Sure
        <5> QED
          BY <1>t, <3>1, <5>1, <5>2, <5>3, FailOrReturnEffect
      <4> QED
        BY <1>2, <1>3, <1>t, <4>1, <4>2 DEF Sure
    <3> QED
      BY <3>2, <3>3
  <2> QED
    BY <2>1, <2>2
<1> QED
  BY <1>5, <1>6 DEF AllSure

LEMMA SureNext == ~LostAnswers /\ Followed /\ AllSure /\ [Next]_vars => AllSure'
<1> SUFFICES ASSUME ~LostAnswers, Followed, AllSure, [Next]_vars PROVE AllSure'
  OBVIOUS
<1>t. /\ TypeOK /\ LiveInv /\ attempt \in [Keys -> Row] /\ work \in [Workers -> Calls]
      /\ \A k \in Keys : Sure(k) /\ Called(k)
  BY TypeIs DEF Followed, AllSure
\* One call ends; the row that is written is its own.
<1>e. ASSUME NEW w \in Workers, NEW own \in Keys, On(w, own), work' = [work EXCEPT ![w] = Idle],
             charge' = charge,
             \A k \in Keys \ {own} : attempt'[k] = attempt[k] /\ posted'[k] = posted[k],
             charge[own].status \in {"pending", "succeeded"}
                 => attempt'[own].status \in {"processing", "succeeded"},
             posted'[own] > 0 => attempt'[own].status = "succeeded"
      PROVE  AllSure'
  <2>1. work'[w] = Idle /\ \A v \in Workers : v # w => work'[v] = work[v]
    BY <1>e, <1>t
  <2>2. \A v \in Workers, k \in Keys : On(v, k)' => On(v, k) /\ work'[v] = work[v]
    BY <2>1 DEF On
  <2>3. ASSUME NEW k \in Keys \ {own} PROVE Sure(k)'
    BY <1>e, <1>t, <2>2, SureStays
  <2>4. Sure(own)'
    BY <1>e, <1>t, <2>2 DEF Sure
  <2> QED
    BY <2>3, <2>4 DEF AllSure
<1>1. ASSUME NEW s \in Sessions, MakePayment(s) PROVE AllSure'
  <2>1. PICK k \in ClientKeys, amount \in Amounts :
            attempt[k].status = "none" /\ Insert(s, k, OldestFirst(Due, amount))
    BY <1>1 DEF MakePayment
  <2>2. OldestFirst(Due, amount) \in [Invoices -> Nat]
    BY <1>t, DueType, OldestFirstType, AmountsAssumption DEF AmountsAssumption
  <2>3. s \in Workers /\ k \in Keys /\ UNCHANGED <<posted, charge>>
    BY <1>1 DEF Workers, Keys, MakePayment, stripe
  <2>4. attempt'[k].status = "processing" /\ \A j \in Keys \ {k} : attempt'[j] = attempt[j]
    BY <1>t, <2>1, <2>2, <2>3, RowInserted
  <2>5. work' = [work EXCEPT ![s] = Calling(k)]
    BY <2>1 DEF Insert
  <2> QED
    BY <2>1, <2>3, <2>4, <2>5, SureCalls
<1>2. CASE RunAutopay
  <2>1. Scheduler \in Workers /\ UNCHANGED <<posted, charge>>
    BY <1>2 DEF Workers, RunAutopay, stripe
  <2>2. ASSUME NEW k \in PendingDebits,
               work' = [work EXCEPT ![Scheduler] = Calling(k)], UNCHANGED attempt
        PROVE  AllSure'
    <3>1. k \in Keys /\ attempt[k].status = "processing"
      BY DEF PendingDebits, Keys
    <3> QED
      BY <2>1, <2>2, <3>1, SureCalls
  <2>3. ASSUME attempt[AutopayKey(DueInvoices)].status = "none",
               Insert(Scheduler, AutopayKey(DueInvoices), Due)
        PROVE  AllSure'
    <3>1. AutopayKey(DueInvoices) \in AutopayKeys
      BY <1>2, AutopayKeyIn
    <3>2. PICK k \in Keys : k = AutopayKey(DueInvoices)
      BY <3>1 DEF Keys
    <3>3. attempt'[k].status = "processing" /\ \A j \in Keys \ {k} : attempt'[j] = attempt[j]
      BY <1>t, <2>1, <2>3, <3>2, DueType, RowInserted
    <3>4. work' = [work EXCEPT ![Scheduler] = Calling(k)]
      BY <2>3, <3>2 DEF Insert
    <3> QED
      BY <2>1, <2>3, <3>2, <3>3, <3>4, SureCalls
  <2> QED
    BY <1>2, <2>2, <2>3 DEF RunAutopay
<1>3. ASSUME NEW w \in Workers, TakeCharge(w) PROVE AllSure'
  <2>1. PICK own \in Keys : own = work[w].key /\ On(w, own)
    BY <1>3, <1>t, CallShape DEF TakeCharge, On
  <2>2. PICK result \in Replies : work' = [work EXCEPT ![w] = Answered(own, result)]
    BY <1>3, <1>t, <2>1, ChargeTaken
  <2>3. UNCHANGED <<attempt, posted>> /\ result # "failed"
    BY <1>3, StripeAssumption DEF TakeCharge, StripeAssumption
  <2>4. work'[w] = Answered(own, result) /\ \A v \in Workers : v # w => work'[v] = work[v]
    BY <1>t, <2>2
  <2>5. \A v \in Workers, k \in Keys : On(v, k)' =>
            \/ On(v, k) /\ work'[v] = work[v] /\ v # w
            \/ work'[v].result # "failed"
    BY <2>3, <2>4 DEF On, Answered
  <2>6. \A k \in Keys \ {own} : charge'[k] = charge[k]
    BY <1>3, <1>t, <2>1, ChargeTaken
  <2>7. ASSUME NEW k \in Keys \ {own} PROVE Sure(k)'
    BY <1>t, <2>3, <2>5, <2>6, SureStays
  <2>8. Sure(own)'
    <3>1. \A v \in Workers : On(v, own)' => work'[v].result # "failed"
      BY <2>1, <2>5 DEF Followed, LiveInv, OneCaller
    <3>2. charge'[own].status \in {"pending", "succeeded"}
              => attempt[own].status \in {"processing", "succeeded"}
      <4>1. CASE charge[own].status = "none"
        BY <1>t, <2>1, <4>1 DEF Called
      <4>2. CASE UNCHANGED stripe
        BY <1>t, <4>2 DEF Sure, stripe
      <4> QED
        BY <1>3, <1>t, <2>1, <4>1, <4>2, ChargeTaken
    <3> QED
      BY <1>t, <2>3, <3>1, <3>2 DEF Sure
  <2> QED
    BY <2>7, <2>8 DEF AllSure
<1>4. ASSUME NEW w \in Workers, DeclineCharge(w) PROVE AllSure'
  <2>1. PICK own \in Keys : own = work[w].key /\ On(w, own)
    BY <1>4, <1>t, CallShape DEF DeclineCharge, On
  <2>2. /\ work'[w] = Answered(own, "failed") /\ \A v \in Workers : v # w => work'[v] = work[v]
        /\ UNCHANGED <<attempt, posted, charge>> /\ charge[own].status = "none"
    BY <1>4, <1>t, <2>1 DEF DeclineCharge, stripe
  <2>3. \A v \in Workers, k \in Keys : On(v, k)' =>
            (On(v, k) /\ work'[v] = work[v]) \/ k = own
    BY <2>1, <2>2, CallsFields DEF On, Answered
  <2>4. ASSUME NEW k \in Keys \ {own} PROVE Sure(k)'
    BY <1>t, <2>2, <2>3, SureStays
  <2>5. Sure(own)'
    BY <1>t, <2>2 DEF Sure
  <2> QED
    BY <2>4, <2>5 DEF AllSure
<1>5. ASSUME NEW w \in Workers, RecordAnswer(w) PROVE AllSure'
  <2>1. PICK own \in Keys : own = work[w].key /\ On(w, own)
    BY <1>5, <1>t, CallShape DEF RecordAnswer, On
  <2>2. work' = [work EXCEPT ![w] = Idle] /\ charge' = charge
    BY <1>5 DEF RecordAnswer, stripe
  <2>3. CASE Settle(own)
    <3>1. attempt'[own].status = "succeeded"
          /\ \A j \in Keys \ {own} : attempt'[j] = attempt[j] /\ posted'[j] = posted[j]
      BY <1>t, <2>3, SettleTypes
    <3> QED
      BY <1>e, <2>1, <2>2, <3>1
  <2>4. CASE attempt' = [attempt EXCEPT ![own].ref = TRUE] /\ UNCHANGED posted
    <3>1. attempt[own].status \in Statuses
      BY <1>t DEF Row
    <3>2. /\ attempt'[own].status = attempt[own].status
          /\ \A j \in Keys \ {own} : attempt'[j] = attempt[j]
      BY <1>t, <2>4, <3>1, RowWritten
    <3>3. posted' = posted /\ Sure(own)
      BY <1>t, <2>4
    <3> QED
      BY <1>e, <2>1, <2>2, <3>2, <3>3 DEF Sure
  <2> QED
    BY <1>5, <2>1, <2>3, <2>4 DEF RecordAnswer
<1>6. ASSUME NEW w \in Workers, RecordFailure(w) PROVE AllSure'
  <2>1. PICK own \in Keys : own = work[w].key /\ On(w, own)
    BY <1>6, <1>t, CallShape DEF RecordFailure, On
  <2>2. work' = [work EXCEPT ![w] = Idle] /\ UNCHANGED <<charge, posted>>
    BY <1>6 DEF RecordFailure, stripe
  <2>4. \A j \in Keys \ {own} : attempt'[j] = attempt[j]
    BY <1>6, <1>t, <2>1, FailureWritten
  <2>5. charge[own].status = "none"
    BY <1>6, <1>t, <2>1 DEF RecordFailure, Sure
  <2>6. posted[own] = 0
    BY <1>t, <2>1, <2>5 DEF Called, LiveInv, KeyInv
  <2>7. /\ \A j \in Keys \ {own} : attempt'[j] = attempt[j] /\ posted'[j] = posted[j]
        /\ charge[own].status \notin {"pending", "succeeded"} /\ ~(posted'[own] > 0)
    BY <2>2, <2>4, <2>5, <2>6
  <2> QED
    BY <1>e, <2>1, <2>2, <2>7
<1>7. ASSUME NEW w \in Workers, Crash(w) PROVE AllSure'
  <2>1. PICK own \in Keys : On(w, own)
    BY <1>7, <1>t, CallShape DEF Crash, On
  <2>2. work' = [work EXCEPT ![w] = Idle] /\ UNCHANGED <<charge, attempt, posted>>
    BY <1>7 DEF Crash, stripe
  <2>3. Sure(own)
    BY <1>t
  <2> QED
    BY <1>e, <2>1, <2>2, <2>3 DEF Sure
<1>8. ASSUME NEW own \in Keys, DecideCharge(own) \/ ReturnCharge(own) PROVE AllSure'
  <2>1. UNCHANGED <<attempt, posted, work>>
    BY <1>8 DEF DecideCharge, ReturnCharge
  <2>2. \A j \in Keys \ {own} : charge'[j] = charge[j]
    BY <1>8, <1>t, ChargeMoves
  <2>3. /\ charge[own].status # "none"
        /\ charge'[own].status \in {"pending", "succeeded"}
               => charge[own].status \in {"pending", "succeeded"}
    BY <1>8, <1>t, ChargeMoves
  <2>4. ASSUME NEW k \in Keys \ {own} PROVE Sure(k)'
    BY <1>t, <2>1, <2>2, SureStays DEF On
  <2>5. Sure(own)'
    BY <1>t, <2>1, <2>3 DEF Sure, On
  <2> QED
    BY <2>4, <2>5 DEF AllSure
<1>9. ASSUME NEW k \in Keys, NEW n \in DOMAIN sent[k], Deliver(k, n) PROVE AllSure'
  BY <1>9, SureDelivery
<1>10. CASE Bill \/ Void \/ UNCHANGED vars
  <2>1. UNCHANGED <<charge, attempt, posted, work>>
    BY <1>10 DEF Bill, Void, vars, stripe
  <2> QED
    BY <1>t, <2>1 DEF AllSure, Sure, On
<1> QED
  BY <1>1, <1>2, <1>3, <1>4, <1>5, <1>6, <1>7, <1>8, <1>9, <1>10 DEF Next, DeliverSome

LEMMA SureInit == Init => AllSure
  BY DEF Init, AllSure, Sure, On

-----------------------------------------------------------------------------
(* The books follow the bank.                                               *)

Certain == Followed /\ OnceInv /\ AllSure

LEMMA CertainFollows == Certain => BooksFollowBank
<1> SUFFICES ASSUME Certain, NEW k \in Keys
             PROVE  /\ posted[k] = 1 <=> <<k, Cleared>> \in seen
                    /\ posted[k] = 1 <=> attempt[k].status = "succeeded"
                    /\ posted[k] = 1 => charge[k].status \in {"succeeded", "returned"}
  BY DEF BooksFollowBank, Cleared
<1>1. posted[k] = 1 <=> <<k, Cleared>> \in seen
  BY DEF Certain, OnceInv
<1>2. posted[k] = 1 <=> attempt[k].status = "succeeded"
  <2>1. attempt[k].status = "succeeded" => posted[k] = 1
    BY DEF Certain, Followed, LiveInv, KeyInv
  <2>2. posted[k] = 1 => attempt[k].status = "succeeded"
    BY DEF Certain, AllSure, Sure
  <2> QED
    BY <2>1, <2>2
<1>3. posted[k] = 1 => charge[k].status \in {"succeeded", "returned"}
  <2>1. Cleared \in Events
    BY DEF Events, Cleared
  <2>2. Followed
    BY DEF Certain
  <2> QED
    BY <1>1, <2>1, <2>2, HeardTells
<1> QED
  BY <1>1, <1>2, <1>3

\* Where Stripe answers every charge with "processing" and no call to it is lost, a payment
\* has its receipts exactly when charge.succeeded was processed, is shown as succeeded
\* exactly then, and never without the bank's yes, in whatever order events come and
\* however deliveries, retries, runs of autopay and crashes interleave.
THEOREM BooksCorrect == ~LostAnswers /\ Replies = {"processing"} /\ Spec => []BooksFollowBank
<1> SUFFICES ASSUME ~LostAnswers, Replies = {"processing"}
             PROVE  Spec => []BooksFollowBank
  OBVIOUS
<1>1. Init => Certain
  <2> SUFFICES ASSUME Init PROVE Certain
    OBVIOUS
  <2>1. OnceInv
    BY DEF Init, OnceInv, Idle
  <2> QED
    BY <2>1, FollowedInit, SureInit DEF Certain
<1>2. Certain /\ [Next]_vars => Certain'
  <2> SUFFICES ASSUME Certain, [Next]_vars PROVE Certain'
    OBVIOUS
  <2>1. Followed' /\ AllSure'
    BY FollowedNext, SureNext DEF Certain
  <2>2. OnceInv'
    BY OnceCalls, OnceReceipts DEF Certain, OnceInv, Followed
  <2> QED
    BY <2>1, <2>2 DEF Certain
<1> QED
  BY <1>1, <1>2, CertainFollows, PTL DEF Spec

-----------------------------------------------------------------------------
(* Autopay takes the rent once.                                             *)

\* The autopay attempts whose money is taken, or may be any time.
Debits == {k \in AutopayKeys : \/ attempt[k].status = "processing"
                               \/ charge[k].status \in {"pending", "succeeded"}}

Shares(i) == [k \in Keys |-> attempt[k].allocation[i]]

\* Together they never ask for more than the rent.
Reserved == \A i \in Invoices : SumFunctionOnSet(Shares(i), Debits) <= Rent

LEMMA SharesType ==
    ASSUME TypeOK, NEW i \in Invoices
    PROVE  /\ IsFiniteSet(Debits) /\ Debits \subseteq Keys
           /\ \A k \in Keys : Shares(i)[k] \in Nat
           /\ SumFunctionOnSet(Shares(i), Debits) \in Nat
<1>1. Debits \subseteq Keys
  BY DEF Debits, Keys
<1>2. IsFiniteSet(Debits)
  BY <1>1, KeysFinite
<1>3. \A k \in Keys : Shares(i)[k] \in Nat
  BY DEF Shares, TypeOK
<1>4. SumFunctionOnSet(Shares(i), Debits) \in Nat
  BY <1>1, <1>2, <1>3, SumType
<1> QED
  BY <1>1, <1>2, <1>3, <1>4

\* A step that starts no debit.
LEMMA ReservedStays ==
    ASSUME TypeOK, TypeOK', Reserved, Debits' \subseteq Debits,
           \A k \in Debits' : attempt'[k].allocation = attempt[k].allocation
    PROVE  Reserved'
<1> SUFFICES ASSUME NEW i \in Invoices
             PROVE  SumFunctionOnSet(Shares(i)', Debits') <= Rent
  BY DEF Reserved
<1>1. PICK now, later : now = Shares(i) /\ later = Shares(i)'
  OBVIOUS
<1>2. PICK T, S : T = Debits /\ S = Debits'
  OBVIOUS
<1>3. /\ IsFiniteSet(T) /\ S \in SUBSET T /\ (\A k \in T : now[k] \in Nat)
      /\ SumFunctionOnSet(now, T) \in Nat
  BY <1>1, <1>2, SharesType
<1>4. \A k \in S : later[k] \in Nat /\ later[k] <= now[k]
  <2> TAKE k \in S
  <2>1. k \in Keys /\ now[k] \in Nat
    BY <1>2, <1>3 DEF Debits, Keys
  <2>2. later[k] = now[k]
    BY <1>1, <1>2, <2>1 DEF Shares
  <2> QED
    BY <2>1, <2>2
<1>5. SumFunctionOnSet(later, S) <= SumFunctionOnSet(now, T)
  BY <1>3, <1>4, SumAtMost
<1>6. SumFunctionOnSet(now, T) <= Rent /\ Rent \in Nat
  BY <1>1, <1>2, RentAssumption DEF Reserved, RentAssumption
<1>7. IsFiniteSet(S) /\ \A k \in S : later[k] \in Nat
  BY <1>3, <1>4, FS_Subset
<1>8. SumFunctionOnSet(later, S) \in Nat
  BY <1>7, SumType
<1>9. SumFunctionOnSet(later, S) <= Rent
  BY <1>3, <1>5, <1>6, <1>8
<1> QED
  BY <1>1, <1>2, <1>9

\* What the debits that are settled took is in what was received for the invoice.
LEMMA DebitsReceived ==
    ASSUME TypeOK, NEW i \in Invoices, \A k \in Debits : posted[k] = 1
    PROVE  SumFunctionOnSet(Shares(i), Debits) <= Received(i)
<1>1. PICK f : f = Shares(i)
  OBVIOUS
<1>2. PICK g : g = [k \in Keys |-> posted[k] * attempt[k].allocation[i]]
  OBVIOUS
<1>3. PICK S : S = Debits
  OBVIOUS
<1>4. IsFiniteSet(Keys) /\ S \in SUBSET Keys
  BY <1>3, KeysFinite DEF Debits, Keys
<1>5. \A k \in Keys : g[k] \in Nat
  <2> TAKE k \in Keys
  <2>1. posted[k] \in Nat /\ attempt[k].allocation[i] \in Nat
    BY DEF TypeOK
  <2>2. \A a, b \in Nat : a * b \in Nat
    OBVIOUS
  <2> QED
    BY <1>2, <2>1, <2>2
<1>6. \A k \in S : f[k] \in Nat /\ f[k] <= g[k]
  <2> TAKE k \in S
  <2>1. k \in Keys /\ posted[k] = 1 /\ attempt[k].allocation[i] \in Nat
    BY <1>3, <1>4 DEF TypeOK
  <2>2. f[k] = attempt[k].allocation[i] /\ g[k] = 1 * attempt[k].allocation[i]
    BY <1>1, <1>2, <2>1 DEF Shares
  <2> QED
    BY <2>1, <2>2
<1>7. SumFunctionOnSet(f, S) <= SumFunctionOnSet(g, Keys)
  BY <1>4, <1>5, <1>6, SumAtMost
<1> QED
  BY <1>1, <1>2, <1>3, <1>7 DEF Received

\* A new debit is for what is still due when every earlier one is settled.
LEMMA ReservedDebit ==
    ASSUME Followed, TypeOK', AllSure, Reserved, RunAutopay, PendingDebits = {}, charge' = charge,
           attempt[AutopayKey(DueInvoices)].status = "none",
           Insert(Scheduler, AutopayKey(DueInvoices), Due)
    PROVE  Reserved'
<1>t. TypeOK /\ attempt \in [Keys -> Row] /\ Due \in [Invoices -> Nat]
  BY TypeIs, DueType DEF Followed
<1>1. PICK own \in AutopayKeys : own = AutopayKey(DueInvoices)
  BY AutopayKeyIn
<1>2. own \in Keys /\ Scheduler \in Workers
  BY DEF Keys, Workers
<1>3. /\ attempt'[own].status = "processing" /\ attempt'[own].allocation = Due
      /\ \A j \in Keys \ {own} : attempt'[j] = attempt[j]
  BY <1>t, <1>1, <1>2, RowInserted
<1>4. charge[own].status = "none" /\ own \notin Debits
  <2>1. attempt[own].status = "none" /\ Called(own)
    BY <1>1, <1>2 DEF Followed
  <2> QED
    BY <2>1 DEF Called, Debits
<1>5. \A k \in Debits : k \in Keys /\ posted[k] = 1
  <2> TAKE k \in Debits
  <2>1. k \in Keys /\ k \in AutopayKeys
    BY DEF Debits, Keys
  <2>2. attempt[k].status # "processing"
    BY <2>1 DEF PendingDebits
  <2>3. charge[k].status \in {"pending", "succeeded"}
    BY <2>2 DEF Debits
  <2>4. attempt[k].status = "succeeded"
    BY <2>1, <2>2, <2>3 DEF AllSure, Sure
  <2> QED
    BY <2>1, <2>4 DEF Followed, LiveInv, KeyInv
<1>6. own \in Debits' /\ Debits = Debits' \ {own}
  <2>1. \A k \in AutopayKeys : k # own => (k \in Debits' <=> k \in Debits)
    BY <1>3 DEF Debits, Keys
  <2>2. own \in Debits'
    BY <1>3 DEF Debits
  <2>3. Debits \subseteq AutopayKeys /\ Debits' \subseteq AutopayKeys
    BY DEF Debits
  <2> QED
    BY <1>4, <2>1, <2>2, <2>3
<1> SUFFICES ASSUME NEW i \in Invoices
             PROVE  SumFunctionOnSet(Shares(i)', Debits') <= Rent
  BY DEF Reserved
<1>7. PICK f, g : f = Shares(i) /\ g = Shares(i)'
  OBVIOUS
<1>8. PICK S, T : S = Debits /\ T = Debits'
  OBVIOUS
<1>9. /\ IsFiniteSet(S) /\ own \in T /\ S = T \ {own}
      /\ (\A k \in S : f[k] \in Nat) /\ SumFunctionOnSet(f, S) \in Nat
  BY <1>t, <1>6, <1>7, <1>8, SharesType
<1>10. /\ \A k \in S : f[k] = g[k]
       /\ g[own] = Due[i] /\ Due[i] \in Nat
  <2>1. ASSUME NEW k \in S PROVE f[k] = g[k]
    <3>1. k \in Keys \ {own}
      BY <1>5, <1>8, <1>9
    <3> QED
      BY <1>3, <1>7, <3>1 DEF Shares
  <2>2. g[own] = Due[i] /\ Due[i] \in Nat
    BY <1>t, <1>2, <1>3, <1>7 DEF Shares
  <2> QED
    BY <2>1, <2>2
<1>11. \A k \in T : g[k] \in Nat
  BY <1>9, <1>10
<1>12. SumFunctionOnSet(g, T) = SumFunctionOnSet(f, S) + g[own]
  BY <1>9, <1>10, <1>11, SumGains
<1>13. SumFunctionOnSet(f, S) <= Received(i) /\ Received(i) \in Nat
  BY <1>t, <1>5, <1>7, <1>8, DebitsReceived, ReceivedType
<1>14. SumFunctionOnSet(f, S) <= Rent /\ Rent \in Nat
  BY <1>7, <1>8, RentAssumption DEF Reserved, RentAssumption
<1>15. Due[i] = 0 \/ Due[i] = Monus(Rent, Received(i))
  BY DEF Due
<1>16. SumFunctionOnSet(g, T) <= Rent
  <2>1. CASE Due[i] = 0
    BY <1>9, <1>12, <1>10, <1>14, <2>1
  <2>2. CASE Due[i] = Monus(Rent, Received(i))
    <3>1. PICK a, b, c : a = SumFunctionOnSet(f, S) /\ b = Received(i) /\ c = Due[i]
      OBVIOUS
    <3>2. a \in Nat /\ b \in Nat /\ c \in Nat /\ a <= b /\ a <= Rent /\ Rent \in Nat
          /\ c = Monus(Rent, b)
      BY <1>9, <1>10, <1>13, <1>14, <2>2, <3>1
    <3>3. a + c <= Rent
      BY <3>2 DEF Monus
    <3> QED
      BY <1>10, <1>12, <3>1, <3>3
  <2> QED
    BY <1>15, <2>1, <2>2
<1> QED
  BY <1>7, <1>8, <1>16

LEMMA ReservedNext ==
    ASSUME Followed, AllSure, Reserved, [Next]_vars, TypeOK'
    PROVE  Reserved'
<1>t. /\ TypeOK /\ LiveInv /\ attempt \in [Keys -> Row] /\ TypeOK'
      /\ \A k \in AutopayKeys : k \in Keys
  BY TypeIs DEF Followed, Keys
\* Nothing becomes pending and no money is taken that was not already.
<1>s. ASSUME \A k \in AutopayKeys : attempt'[k].allocation = attempt[k].allocation,
             \A k \in AutopayKeys : attempt'[k].status = "processing" => attempt[k].status = "processing",
             \A k \in AutopayKeys : charge'[k].status \in {"pending", "succeeded"} => k \in Debits
      PROVE  Reserved'
  <2>1. Debits' \subseteq Debits /\ Debits' \subseteq AutopayKeys
    BY <1>s DEF Debits
  <2> QED
    BY <1>s, <1>t, <2>1, ReservedStays
<1>a. \A k \in AutopayKeys : charge[k].status \in {"pending", "succeeded"} => k \in Debits
  BY DEF Debits
<1>1. ASSUME NEW s \in Sessions, MakePayment(s) PROVE Reserved'
  <2>1. PICK k \in ClientKeys, amount \in Amounts : Insert(s, k, OldestFirst(Due, amount))
    BY <1>1 DEF MakePayment
  <2>2. OldestFirst(Due, amount) \in [Invoices -> Nat]
    BY <1>t, DueType, OldestFirstType, AmountsAssumption DEF AmountsAssumption
  <2>3. s \in Workers /\ k \in Keys /\ charge' = charge
    BY <1>1 DEF Workers, Keys, MakePayment, stripe
  <2>4. \A j \in Keys \ {k} : attempt'[j] = attempt[j]
    BY <1>t, <2>1, <2>2, <2>3, RowInserted
  <2>5. \A j \in AutopayKeys : attempt'[j] = attempt[j]
    BY <1>t, <2>4, KeysAssumption DEF KeysAssumption
  <2> QED
    BY <1>a, <1>s, <2>3, <2>5
<1>2. CASE RunAutopay
  <2>1. charge' = charge
    BY <1>2 DEF RunAutopay, stripe
  <2>2. CASE UNCHANGED attempt
    BY <1>a, <1>s, <2>1, <2>2
  <2> QED
    BY <1>2, <2>1, <2>2, ReservedDebit, <1>t DEF RunAutopay
<1>3. ASSUME NEW w \in Workers, TakeCharge(w) PROVE Reserved'
  <2>1. PICK own \in Keys : own = work[w].key /\ On(w, own)
    BY <1>3, <1>t, CallShape DEF TakeCharge, On
  <2>2. attempt' = attempt /\ \A j \in Keys \ {own} : charge'[j] = charge[j]
    BY <1>3, <1>t, <2>1, ChargeTaken DEF TakeCharge
  <2>3. charge'[own].status = charge[own].status \/ attempt[own].status = "processing"
    <3>1. CASE charge[own].status = "none"
      BY <2>1, <3>1 DEF Followed, Called
    <3>2. CASE UNCHANGED stripe
      BY <3>2 DEF stripe
    <3> QED
      BY <1>3, <1>t, <2>1, <3>1, <3>2, ChargeTaken
  <2>4. ASSUME NEW k \in AutopayKeys, charge'[k].status \in {"pending", "succeeded"} PROVE k \in Debits
    BY <1>t, <2>2, <2>3, <2>4 DEF Debits
  <2> QED
    BY <1>s, <2>2, <2>4
<1>4. ASSUME NEW own \in Keys, DecideCharge(own) \/ ReturnCharge(own) PROVE Reserved'
  <2>1. attempt' = attempt /\ \A j \in Keys \ {own} : charge'[j] = charge[j]
    BY <1>4, <1>t, ChargeMoves DEF DecideCharge, ReturnCharge
  <2>2. charge'[own].status \in {"pending", "succeeded"} => charge[own].status \in {"pending", "succeeded"}
    BY <1>4, <1>t, ChargeMoves
  <2>3. ASSUME NEW k \in AutopayKeys, charge'[k].status \in {"pending", "succeeded"} PROVE k \in Debits
    BY <1>t, <2>1, <2>2, <2>3 DEF Debits
  <2> QED
    BY <1>s, <2>1, <2>3
\* A row is written by what is heard of its charge.
<1>w. ASSUME NEW own \in Keys, charge' = charge, attempt'[own].allocation = attempt[own].allocation,
             attempt'[own].status = "processing" => attempt[own].status = "processing",
             \A j \in Keys \ {own} : attempt'[j] = attempt[j]
      PROVE  Reserved'
  <2>1. \A k \in AutopayKeys :
            /\ attempt'[k].allocation = attempt[k].allocation
            /\ attempt'[k].status = "processing" => attempt[k].status = "processing"
    BY <1>t, <1>w
  <2> QED
    BY <1>a, <1>s, <1>w, <2>1
<1>5. ASSUME NEW w \in Workers, RecordAnswer(w) PROVE Reserved'
  <2>1. PICK own \in Keys : own = work[w].key
    BY <1>5, <1>t, CallShape DEF RecordAnswer
  <2>2. charge' = charge
    BY <1>5 DEF RecordAnswer, stripe
  <2>3. CASE Settle(own)
    <3>1. attempt'[own].status = "succeeded" /\ attempt'[own].allocation = attempt[own].allocation
          /\ \A j \in Keys \ {own} : attempt'[j] = attempt[j]
      BY <1>t, <2>3, SettleTypes
    <3> QED
      BY <1>w, <2>2, <3>1
  <2>4. CASE attempt' = [attempt EXCEPT ![own].ref = TRUE]
    <3>1. attempt[own].status \in Statuses
      BY <1>t DEF Row
    <3>2. /\ attempt'[own].status = attempt[own].status
          /\ attempt'[own].allocation = attempt[own].allocation
          /\ \A j \in Keys \ {own} : attempt'[j] = attempt[j]
      BY <1>t, <2>4, <3>1, RowWritten
    <3> QED
      BY <1>w, <2>2, <3>2
  <2> QED
    BY <1>5, <2>1, <2>3, <2>4 DEF RecordAnswer
<1>6. ASSUME NEW w \in Workers, RecordFailure(w) PROVE Reserved'
  <2>1. PICK own \in Keys : own = work[w].key
    BY <1>6, <1>t, CallShape DEF RecordFailure
  <2>2. charge' = charge
    BY <1>6 DEF RecordFailure, stripe
  <2>4. /\ attempt'[own].status = "failed" /\ attempt'[own].allocation = attempt[own].allocation
        /\ \A j \in Keys \ {own} : attempt'[j] = attempt[j]
    BY <1>6, <1>t, <2>1, FailureWritten
  <2> QED
    BY <1>w, <2>2, <2>4
<1>7. ASSUME NEW own \in Keys, NEW n \in DOMAIN sent[own], Deliver(own, n) PROVE Reserved'
  <2>1. PICK event \in Events : event = sent[own][n]
    BY EventTells
  <2>2. charge' = charge
    BY <1>7 DEF Deliver, stripe
  <2>3. CASE Settle(own)
    <3>1. attempt'[own].status = "succeeded" /\ attempt'[own].allocation = attempt[own].allocation
          /\ \A j \in Keys \ {own} : attempt'[j] = attempt[j]
      BY <1>t, <2>3, SettleTypes
    <3> QED
      BY <1>w, <2>2, <3>1
  <2>4. CASE FailOrReturn(own, event)
    <3>1. /\ attempt'[own].allocation = attempt[own].allocation
          /\ \A j \in Keys \ {own} : attempt'[j] = attempt[j]
      BY <1>t, <2>4, FailOrReturnTypes
    <3>2. attempt'[own].status = "processing" => attempt[own].status = "processing"
      BY <1>t, <2>4, FailOrReturnEffect
    <3> QED
      BY <1>w, <2>2, <3>1, <3>2
  <2> QED
    BY <1>7, <2>1, <2>3, <2>4 DEF Deliver
<1>8. ASSUME \/ \E w \in Workers : DeclineCharge(w) \/ Crash(w)
             \/ Bill \/ Void \/ UNCHANGED vars
      PROVE  Reserved'
  <2>1. UNCHANGED <<charge, attempt>>
    BY <1>8 DEF DeclineCharge, Crash, Bill, Void, vars, stripe
  <2> QED
    BY <1>a, <1>s, <2>1
<1> QED
  BY <1>1, <1>2, <1>3, <1>4, <1>5, <1>6, <1>7, <1>8 DEF Next, DeliverSome

LEMMA ReservedTakes == TypeOK /\ Reserved => AutopayTakesRentOnce
<1> SUFFICES ASSUME TypeOK, Reserved, NEW i \in Invoices PROVE Taken(AutopayKeys, i) <= Rent
  BY DEF AutopayTakesRentOnce
<1>1. PICK f : f = Shares(i)
  OBVIOUS
<1>2. PICK T : T = Debits
  OBVIOUS
<1>3. PICK S : S = {k \in AutopayKeys : charge[k].status \in {"pending", "succeeded"}}
  OBVIOUS
<1>4. IsFiniteSet(T) /\ (\A k \in T : f[k] \in Nat) /\ SumFunctionOnSet(f, T) \in Nat
  BY <1>1, <1>2, SharesType
<1>5. S \in SUBSET T
  BY <1>2, <1>3 DEF Debits
<1>6. \A k \in S : f[k] \in Nat /\ f[k] <= f[k]
  BY <1>4, <1>5
<1>7. SumFunctionOnSet(f, S) <= SumFunctionOnSet(f, T)
  BY <1>4, <1>5, <1>6, SumAtMost
<1>8. SumFunctionOnSet(f, T) <= Rent /\ Rent \in Nat
  BY <1>1, <1>2, RentAssumption DEF Reserved, RentAssumption
<1>9. IsFiniteSet(S) /\ \A k \in S : f[k] \in Nat
  BY <1>4, <1>5, FS_Subset
<1>10. SumFunctionOnSet(f, S) \in Nat
  BY <1>9, SumType
<1>11. SumFunctionOnSet(f, S) <= Rent
  BY <1>4, <1>7, <1>8, <1>10
<1> QED
  BY <1>1, <1>3, <1>11 DEF Taken, Shares

LEMMA ReservedInit == Init => Reserved
<1> SUFFICES ASSUME Init, NEW i \in Invoices PROVE SumFunctionOnSet(Shares(i), Debits) <= Rent
  BY DEF Reserved
<1>1. Debits = {}
  BY DEF Init, Debits, Keys
<1>2. SumFunctionOnSet(Shares(i), {}) = 0
  BY FS_EmptySet, SumTurn
<1>3. Rent \in Nat
  BY RentAssumption DEF RentAssumption
<1> QED
  BY <1>1, <1>2, <1>3

\* As long as no answer of Stripe is lost, the debits of autopay never take more than its
\* rent for an invoice, whenever the job dies and is run again, whatever the residents pay
\* meanwhile and however the events come, for every number of months and payments.
THEOREM AutopayCorrect == ~LostAnswers /\ Spec => []AutopayTakesRentOnce
<1> SUFFICES ASSUME ~LostAnswers PROVE Spec => []AutopayTakesRentOnce
  OBVIOUS
<1> DEFINE Inv == Followed /\ AllSure /\ Reserved
<1>1. Init => Inv
  BY FollowedInit, SureInit, ReservedInit
<1>2. Inv /\ [Next]_vars => Inv'
  <2> SUFFICES ASSUME Inv, [Next]_vars PROVE Inv'
    OBVIOUS
  <2>1. Followed' /\ AllSure' /\ TypeOK'
    BY FollowedNext, SureNext, TypeNext DEF Followed
  <2>2. Reserved'
    BY <2>1, ReservedNext
  <2> QED
    BY <2>1, <2>2
<1>3. Inv => AutopayTakesRentOnce
  BY ReservedTakes DEF Followed
<1> QED
  BY <1>1, <1>2, <1>3, PTL DEF Spec

-----------------------------------------------------------------------------
(* CardPayments.                                                            *)

\* What an amount is spread over takes no more than the amount: after the n oldest
\* invoices it has given what was due on them, or everything.
LEMMA SpreadWithin ==
    ASSUME NEW due \in [Invoices -> Nat], NEW amount \in Nat
    PROVE  SumOf(OldestFirst(due, amount)) <= amount
<1> DEFINE share == OldestFirst(due, amount)
           Owed(n) == SumFunctionOnSet(due, 1 .. n)
           Given(n) == SumFunctionOnSet(share, 1 .. n)
           Holds == {n \in Nat : n <= LastMonth => Given(n) = Lesser(amount, Owed(n))}
<1>1. LastMonth \in Nat /\ Invoices = 1 .. LastMonth
  BY RentAssumption DEF RentAssumption, Invoices
<1>2. share \in [Invoices -> Nat]
  BY OldestFirstType
<1>3. \A i \in Invoices : share[i] = Lesser(due[i], Monus(amount, Owed(i - 1)))
  BY DEF OldestFirst
<1>4. ASSUME NEW n \in Nat, n <= LastMonth PROVE Owed(n) \in Nat
  <2> DEFINE S == 1 .. n
  <2>1. IsFiniteSet(S) /\ S \subseteq Invoices
    BY <1>1, <1>4, FS_Interval
  <2> HIDE DEF S
  <2>2. SumFunctionOnSet(due, S) \in Nat
    BY <2>1, SumType
  <2> QED
    BY <2>2 DEF S
<1> HIDE DEF share
<1>5. 0 \in Holds
  <2>1. 1 .. 0 = {}
    OBVIOUS
  <2>2. Given(0) = 0 /\ Owed(0) = 0
    BY <2>1, SumTurn, FS_EmptySet
  <2> QED
    BY <2>2 DEF Lesser
<1>6. ASSUME NEW n \in Holds PROVE n + 1 \in Holds
  <2> SUFFICES ASSUME n + 1 <= LastMonth
               PROVE  Given(n + 1) = Lesser(amount, Owed(n + 1))
    OBVIOUS
  <2> DEFINE S == 1 .. n
             T == 1 .. (n + 1)
             x == n + 1
  <2>1. IsFiniteSet(S) /\ S = T \ {x} /\ x \in T /\ x \in Invoices /\ T \subseteq Invoices
    <3>1. n \in Int /\ 1 \in Int
      OBVIOUS
    <3>2. IsFiniteSet(S)
      BY <3>1, FS_Interval
    <3>3. S = T \ {x} /\ x \in T
      BY <3>1
    <3>4. x \in Invoices /\ T \subseteq Invoices
      BY <1>1, <3>1
    <3> QED
      BY <3>2, <3>3, <3>4
  <2>2. S \subseteq Invoices
    BY <2>1
  <2>3. Owed(n) \in Nat /\ Given(n) = Lesser(amount, Owed(n))
    BY <1>1, <1>4
  <2>4. share[x] = Lesser(due[x], Monus(amount, Owed(n)))
    <3>1. x - 1 = n
      OBVIOUS
    <3> QED
      BY <3>1, <2>1, <1>3
  <2>5. due[x] \in Nat
    BY <2>1
  <2> HIDE DEF S, T, x
  <2>6. /\ SumFunctionOnSet(due, T) = SumFunctionOnSet(due, S) + due[x]
        /\ SumFunctionOnSet(share, T) = SumFunctionOnSet(share, S) + share[x]
    <3>1. \A y \in T : due[y] \in Int /\ share[y] \in Int
      BY <2>1, <1>2
    <3> QED
      BY <3>1, <2>1, SumGains
  <2>7. Owed(n + 1) = Owed(n) + due[x] /\ Given(n + 1) = Given(n) + share[x]
    BY <2>6 DEF S, T, x
  <2> QED
    BY <2>3, <2>4, <2>5, <2>7 DEF Lesser, Monus
<1>7. LastMonth \in Holds
  <2>1. Holds \in SUBSET Nat
    OBVIOUS
  <2> HIDE DEF Holds
  <2> QED
    BY <1>1, <1>5, <1>6, <2>1, CountingUp
<1>8. Given(LastMonth) <= amount
  BY <1>1, <1>4, <1>7 DEF Lesser
<1> QED
  BY <1>1, <1>8 DEF SumOf, share

LEMMA ReceivedByCardType ==
    ASSUME CardTypeOK, NEW i \in Invoices
    PROVE  ReceivedByCard(i) \in Nat
<1> DEFINE f == [k \in CardKeys |-> paid[k][i]]
<1>1. \A k \in CardKeys : f[k] \in Nat
  BY DEF CardTypeOK
<1> HIDE DEF f
<1>2. SumFunctionOnSet(f, CardKeys) \in Nat
  BY <1>1, CardAssumption, SumType DEF CardAssumption
<1> QED
  BY <1>2 DEF ReceivedByCard, f

LEMMA OutstandingType == ASSUME CardTypeOK PROVE Outstanding \in [Invoices -> Nat]
<1>1. \A i \in Invoices : ReceivedByCard(i) \in Nat
  BY ReceivedByCardType
<1>2. \A a, b \in Nat : Monus(a, b) \in Nat
  BY DEF Monus
<1>3. Rent \in Nat
  BY RentAssumption DEF RentAssumption
<1> QED
  BY <1>1, <1>2, <1>3 DEF Outstanding

\* Receipts or a plan add up to an amount.
LEMMA SpreadType == ASSUME NEW f \in [Invoices -> Nat] PROVE SumOf(f) \in Nat
<1>1. IsFiniteSet(Invoices)
  BY RentAssumption, FS_Interval DEF RentAssumption, Invoices
<1> QED
  BY <1>1, SumType DEF SumOf

\* One invoice of such a function is given another amount.
LEMMA SpreadChange ==
    ASSUME NEW f \in [Invoices -> Nat], NEW g \in [Invoices -> Nat], NEW i \in Invoices,
           \A j \in Invoices \ {i} : f[j] = g[j]
    PROVE  SumOf(g) = SumOf(f) - f[i] + g[i]
<1>1. IsFiniteSet(Invoices)
  BY RentAssumption, FS_Interval DEF RentAssumption, Invoices
<1>2. \A j \in Invoices : f[j] \in Int /\ g[j] \in Int
  OBVIOUS
<1>3. SumFunctionOnSet(g, Invoices) = SumFunctionOnSet(f, Invoices) - f[i] + g[i]
  BY <1>1, <1>2, SumChange
<1> QED
  BY <1>3 DEF SumOf

\* What a request may still record fits what was taken under its key.
Fits(s) ==
    request[s] # NoRequest =>
      /\ request[s].step = "calling" => /\ taken[request[s].key] = 0
                                        /\ SumOf(request[s].plan) <= request[s].amount
      /\ request[s].step = "charged" =>
           SumOf(paid[request[s].key]) + SumOf(request[s].plan) <= taken[request[s].key]

OneRequestPerKey ==
    \A s, t \in Sessions :
      s # t /\ request[s] # NoRequest /\ request[t] # NoRequest => request[s].key # request[t].key

CardInv == CardTypeOK /\ OneRequestPerKey /\ ReceiptsWithinCharge /\ \A s \in Sessions : Fits(s)

\* A step of session s that touches what is under k, the key of no other request.
LEMMA UnderOneKey ==
    ASSUME CardInv, CardTypeOK', NEW s \in Sessions, NEW k \in CardKeys,
           \A t \in Sessions \ {s} :
             request'[t] = request[t] /\ (request[t] # NoRequest => request[t].key # k),
           \A j \in CardKeys \ {k} : paid'[j] = paid[j] /\ taken'[j] = taken[j],
           request'[s] # NoRequest => request'[s].key = k,
           Fits(s)', SumOf(paid'[k]) <= taken'[k]
    PROVE  CardInv'
<1>1. OneRequestPerKey'
  BY DEF CardInv, OneRequestPerKey
<1>2. ReceiptsWithinCharge'
  BY DEF CardInv, ReceiptsWithinCharge
<1>3. ASSUME NEW t \in Sessions \ {s} PROVE Fits(t)'
  <2> SUFFICES ASSUME request[t] # NoRequest PROVE Fits(t)'
    BY <1>3 DEF Fits
  <2>1. request'[t] = request[t] /\ request[t].key \in CardKeys \ {k}
    BY <1>3 DEF CardInv, CardTypeOK, CardRequest
  <2>2. paid'[request[t].key] = paid[request[t].key] /\ taken'[request[t].key] = taken[request[t].key]
    BY <2>1
  <2>3. Fits(t)
    BY <1>3 DEF CardInv
  <2> QED
    BY <2>1, <2>2, <2>3 DEF Fits
<1> QED
  BY <1>1, <1>2, <1>3 DEF CardInv

\* The request of a session that has one, and its key.
LEMMA CardRequestOf ==
    ASSUME CardInv, NEW s \in Sessions, request[s] # NoRequest
    PROVE  /\ request[s] \in CardRequest
           /\ request[s].key \in CardKeys /\ request[s].amount \in Nat \ {0}
           /\ request[s].plan \in [Invoices -> Nat]
           /\ SumOf(request[s].plan) \in Nat /\ SumOf(paid[request[s].key]) \in Nat
           /\ paid[request[s].key] \in [Invoices -> Nat] /\ taken[request[s].key] \in Nat
           /\ \A t \in Sessions \ {s} : request[t] # NoRequest => request[t].key # request[s].key
<1>1. /\ request[s] \in CardRequest
      /\ request[s].key \in CardKeys /\ request[s].amount \in Nat \ {0}
      /\ request[s].plan \in [Invoices -> Nat]
  BY AmountsAssumption DEF CardInv, CardTypeOK, CardRequest, AmountsAssumption
<1>2. paid[request[s].key] \in [Invoices -> Nat] /\ taken[request[s].key] \in Nat
  BY <1>1 DEF CardInv, CardTypeOK
<1>3. SumOf(request[s].plan) \in Nat /\ SumOf(paid[request[s].key]) \in Nat
  BY <1>1, <1>2, SpreadType
<1>4. \A t \in Sessions \ {s} : request[t] # NoRequest => request[t].key # request[s].key
  BY DEF CardInv, OneRequestPerKey
<1> QED
  BY <1>1, <1>2, <1>3, <1>4

LEMMA CardStart == CardInit => CardInv
<1> SUFFICES ASSUME CardInit PROVE CardInv
  OBVIOUS
<1>1. Nothing \in [Invoices -> Nat] /\ \A i \in Invoices : Nothing[i] = 0
  BY DEF Nothing
<1>2. CardTypeOK
  BY <1>1 DEF CardInit, CardTypeOK
<1>3. SumOf(Nothing) = 0
  <2> DEFINE Good == {T \in SUBSET Invoices : SumFunctionOnSet(Nothing, T) = 0}
  <2>1. IsFiniteSet(Invoices)
    BY RentAssumption, FS_Interval DEF RentAssumption, Invoices
  <2>2. {} \in Good
    BY SumTurn, FS_EmptySet
  <2>3. ASSUME NEW T \in SUBSET Invoices, T # {}, \A x \in T : T \ {x} \in Good
        PROVE  T \in Good
    <3>1. Pick(T) \in T /\ IsFiniteSet(T)
      BY <2>1, <2>3, PickIn, FS_Subset
    <3>2. SumFunctionOnSet(Nothing, T)
            = Nothing[Pick(T)] + SumFunctionOnSet(Nothing, T \ {Pick(T)})
      BY <3>1, <2>3, SumTurn
    <3> QED
      BY <3>1, <3>2, <1>1, <2>3
  <2> HIDE DEF Good
  <2>4. Good = SUBSET Invoices
    <3>1. Good \in SUBSET (SUBSET Invoices)
      BY DEF Good
    <3> QED
      BY <3>1, <2>1, <2>2, <2>3, SubsetInduction
  <2> QED
    BY <2>4 DEF Good, SumOf
<1> QED
  BY <1>2, <1>3 DEF CardInit, CardInv, OneRequestPerKey, ReceiptsWithinCharge, Fits

\* Every step keeps the types, with keys that are sent again too.
LEMMA CardTypesStep ==
    ASSUME CardTypeOK, [CardNext]_cardVars
    PROVE  CardTypeOK'
<1>1. ASSUME NEW s \in Sessions, PayByCard(s) PROVE CardTypeOK'
  <2>1. PICK k \in CardKeys, amount \in Amounts :
          request' = [request EXCEPT ![s] = [step |-> "calling", key |-> k,
                           amount |-> amount, plan |-> OldestFirst(Outstanding, amount)]]
    BY <1>1 DEF PayByCard
  <2>2. OldestFirst(Outstanding, amount) \in [Invoices -> Nat]
    BY OutstandingType, OldestFirstType, AmountsAssumption DEF AmountsAssumption
  <2>3. [step |-> "calling", key |-> k, amount |-> amount,
         plan |-> OldestFirst(Outstanding, amount)] \in CardRequest
    BY <2>2 DEF CardRequest
  <2> QED
    BY <1>1, <2>1, <2>3 DEF CardTypeOK, PayByCard
<1>2. ASSUME NEW s \in Sessions, ChargeCard(s) \/ RecordReceipt(s) \/ TimeOut(s)
      PROVE  CardTypeOK'
  <2>1. request[s] \in CardRequest
    BY <1>2 DEF CardTypeOK, ChargeCard, RecordReceipt, TimeOut, NoRequest
  <2>2. /\ request[s].key \in CardKeys /\ request[s].amount \in Nat
        /\ request[s].plan \in [Invoices -> Nat]
    BY <2>1, AmountsAssumption DEF CardRequest, AmountsAssumption
  <2>3. CASE ChargeCard(s)
    <3>1. [request[s] EXCEPT !.step = "charged"] \in CardRequest
      BY <2>1 DEF CardRequest
    <3> QED
      BY <2>2, <2>3, <3>1 DEF CardTypeOK, ChargeCard
  <2>4. CASE RecordReceipt(s)
    <3>1. PICK i \in Invoices :
            /\ paid' = [paid EXCEPT ![request[s].key][i] = @ + request[s].plan[i]]
            /\ request' = [request EXCEPT ![s].plan[i] = 0]
      BY <2>4 DEF RecordReceipt
    <3>2. paid[request[s].key] \in [Invoices -> Nat]
      BY <2>2 DEF CardTypeOK
    <3>3. paid[request[s].key][i] + request[s].plan[i] \in Nat
      BY <2>2, <3>2
    <3>4. [request[s] EXCEPT !.plan[i] = 0] \in CardRequest
      BY <2>1, <2>2 DEF CardRequest
    <3> QED
      BY <2>2, <2>4, <3>1, <3>2, <3>3, <3>4 DEF CardTypeOK, RecordReceipt
  <2>5. CASE TimeOut(s)
    BY <2>2, <2>5 DEF CardTypeOK, TimeOut
  <2> QED
    BY <1>2, <2>3, <2>4, <2>5
<1>3. ASSUME NEW s \in Sessions, Finish(s) PROVE CardTypeOK'
  BY <1>3 DEF CardTypeOK, Finish
<1>4. ASSUME NEW i \in Invoices, VoidUnpaid(i) PROVE CardTypeOK'
  BY <1>4 DEF CardTypeOK, VoidUnpaid
<1>5. CASE UNCHANGED cardVars
  BY <1>5 DEF CardTypeOK, cardVars
<1> QED
  BY <1>1, <1>2, <1>3, <1>4, <1>5 DEF CardNext

\* Each step keeps the receipts, and what is still to be recorded, within the charges.
LEMMA CardStep == ~Resend /\ CardInv /\ [CardNext]_cardVars => CardInv'
<1> SUFFICES ASSUME ~Resend, CardInv, [CardNext]_cardVars PROVE CardInv'
  OBVIOUS
<1>t. CardTypeOK /\ CardTypeOK'
  BY CardTypesStep DEF CardInv
<1>1. ASSUME NEW s \in Sessions, PayByCard(s) PROVE CardInv'
  <2>1. PICK k \in CardKeys, amount \in Amounts :
          /\ k \notin Used
          /\ request' = [request EXCEPT ![s] = [step |-> "calling", key |-> k,
                           amount |-> amount, plan |-> OldestFirst(Outstanding, amount)]]
    BY <1>1 DEF PayByCard
  <2> DEFINE plan == OldestFirst(Outstanding, amount)
             row == [step |-> "calling", key |-> k, amount |-> amount, plan |-> plan]
  <2>2. amount \in Nat /\ Outstanding \in [Invoices -> Nat]
    BY <1>t, OutstandingType, AmountsAssumption DEF AmountsAssumption
  <2>3. plan \in [Invoices -> Nat] /\ SumOf(plan) <= amount
    BY <2>2, OldestFirstType, SpreadWithin
  <2> HIDE DEF plan
  <2>4. /\ row \in CardRequest /\ row # NoRequest /\ row.key = k /\ row.step = "calling"
        /\ row.amount = amount /\ row.plan = plan
    BY <2>3 DEF CardRequest, NoRequest
  <2>5. request' = [request EXCEPT ![s] = row]
    BY <2>1 DEF plan
  <2> HIDE DEF row
  <2>6. UNCHANGED <<bill, paid, taken>>
    BY <1>1 DEF PayByCard
  <2>8. /\ request'[s] = row
        /\ \A t \in Sessions \ {s} :
             request'[t] = request[t] /\ (request[t] # NoRequest => request[t].key # k)
    BY <1>t, <2>1, <2>5 DEF CardTypeOK, Used
  <2>9. taken[k] = 0
    BY <1>t, <2>1 DEF CardTypeOK, Used
  <2>10. Fits(s)'
    BY <2>3, <2>4, <2>6, <2>8, <2>9 DEF Fits
  <2>11. SumOf(paid'[k]) <= taken'[k]
    BY <2>6 DEF CardInv, ReceiptsWithinCharge
  <2> QED
    BY <2>4, <2>6, <1>t, <2>8, <2>10, <2>11, UnderOneKey
<1>2. ASSUME NEW s \in Sessions, ChargeCard(s) \/ TimeOut(s) PROVE CardInv'
  <2> DEFINE k == request[s].key
             amount == request[s].amount
  <2>1. request[s].step = "calling" /\ request[s] # NoRequest
    BY <1>2 DEF ChargeCard, TimeOut, NoRequest
  <2>2. taken' = [taken EXCEPT ![k] = amount] /\ UNCHANGED <<bill, paid>>
    BY <1>2 DEF ChargeCard, TimeOut
  <2>3. PICK row : /\ request' = [request EXCEPT ![s] = row]
                   /\ \/ row = NoRequest
                      \/ /\ row \in CardRequest /\ row.key = k /\ row.step = "charged"
                         /\ row.plan = request[s].plan
    <3>1. CASE ChargeCard(s)
      <4> DEFINE row == [request[s] EXCEPT !.step = "charged"]
      <4>1. /\ row \in CardRequest /\ row.key = k /\ row.step = "charged"
            /\ row.plan = request[s].plan
        BY <2>1, CardRequestOf DEF CardRequest
      <4>2. request' = [request EXCEPT ![s] = row]
        BY <3>1 DEF ChargeCard
      <4> QED
        BY <4>1, <4>2
    <3>2. CASE TimeOut(s)
      BY <3>2 DEF TimeOut
    <3> QED
      BY <1>2, <3>1, <3>2
  <2>4. /\ k \in CardKeys /\ amount \in Nat \ {0} /\ SumOf(request[s].plan) \in Nat
        /\ SumOf(paid[k]) \in Nat /\ taken[k] \in Nat
        /\ \A t \in Sessions \ {s} : request[t] # NoRequest => request[t].key # k
    BY <2>1, CardRequestOf
  <2>5. taken[k] = 0 /\ SumOf(request[s].plan) <= amount /\ SumOf(paid[k]) <= taken[k]
    BY <2>1, <2>4 DEF CardInv, Fits, ReceiptsWithinCharge
  <2> HIDE DEF k, amount
  <2>7. /\ request'[s] = row
        /\ \A t \in Sessions \ {s} : request'[t] = request[t]
        /\ taken'[k] = amount /\ \A j \in CardKeys \ {k} : taken'[j] = taken[j]
        /\ paid' = paid
    BY <1>t, <2>2, <2>3, <2>4 DEF CardTypeOK
  <2>8. SumOf(paid'[k]) <= taken'[k]
    BY <2>4, <2>5, <2>7
  <2>9. Fits(s)'
    BY <2>3, <2>4, <2>5, <2>7 DEF Fits
  <2> QED
    BY <2>3, <2>4, <1>t, <2>7, <2>8, <2>9, UnderOneKey
<1>3. ASSUME NEW s \in Sessions, RecordReceipt(s) PROVE CardInv'
  <2> DEFINE k == request[s].key
             plan == request[s].plan
  <2>1. request[s].step = "charged" /\ request[s] # NoRequest
    BY <1>3 DEF RecordReceipt, NoRequest
  <2>2. PICK i \in Invoices :
          /\ paid' = [paid EXCEPT ![k][i] = @ + plan[i]]
          /\ request' = [request EXCEPT ![s].plan[i] = 0]
    BY <1>3 DEF RecordReceipt
  <2> DEFINE rest == [plan EXCEPT ![i] = 0]
             row == [request[s] EXCEPT !.plan = rest]
             sum == paid[k][i] + plan[i]
             receipts == [paid[k] EXCEPT ![i] = sum]
  <2>3. /\ k \in CardKeys /\ plan \in [Invoices -> Nat] /\ SumOf(plan) \in Nat
        /\ SumOf(paid[k]) \in Nat /\ paid[k] \in [Invoices -> Nat] /\ taken[k] \in Nat
        /\ request[s] \in CardRequest
        /\ \A t \in Sessions \ {s} : request[t] # NoRequest => request[t].key # k
    BY <2>1, CardRequestOf
  <2>4. paid' = [paid EXCEPT ![k] = receipts] /\ request' = [request EXCEPT ![s] = row]
    BY <2>2
  <2>5. /\ rest \in [Invoices -> Nat] /\ SumOf(rest) = SumOf(plan) - plan[i] + 0
        /\ receipts \in [Invoices -> Nat] /\ SumOf(receipts) = SumOf(paid[k]) - paid[k][i] + sum
        /\ plan[i] \in Nat /\ paid[k][i] \in Nat
    <3>1. sum \in Nat /\ plan[i] \in Nat /\ paid[k][i] \in Nat /\ 0 \in Nat
      BY <2>3
    <3> HIDE DEF sum, k, plan
    <3>2. rest \in [Invoices -> Nat] /\ rest[i] = 0 /\ \A j \in Invoices \ {i} : plan[j] = rest[j]
      BY <2>3
    <3>3. /\ receipts \in [Invoices -> Nat] /\ receipts[i] = sum
          /\ \A j \in Invoices \ {i} : paid[k][j] = receipts[j]
      BY <2>3, <3>1
    <3> HIDE DEF rest, receipts
    <3>4. SumOf(rest) = SumOf(plan) - plan[i] + 0
      BY <3>2, <2>3, SpreadChange
    <3>5. SumOf(receipts) = SumOf(paid[k]) - paid[k][i] + sum
      BY <3>3, <2>3, SpreadChange
    <3> QED
      BY <3>1, <3>2, <3>3, <3>4, <3>5
  <2>6. SumOf(receipts) + SumOf(rest) = SumOf(paid[k]) + SumOf(plan)
    BY <2>3, <2>5
  <2>7. SumOf(paid[k]) + SumOf(plan) <= taken[k]
    BY <2>1 DEF CardInv, Fits
  <2> HIDE DEF rest
  <2>8. row \in CardRequest /\ row.key = k /\ row.step = "charged" /\ row.plan = rest
    BY <2>1, <2>3, <2>5 DEF CardRequest
  <2> HIDE DEF receipts, row, k, plan
  <2>9. UNCHANGED <<bill, taken>>
    BY <1>3 DEF RecordReceipt
  <2>11. /\ request'[s] = row
         /\ \A t \in Sessions \ {s} : request'[t] = request[t]
         /\ paid'[k] = receipts /\ \A j \in CardKeys \ {k} : paid'[j] = paid[j]
    BY <1>t, <2>3, <2>4 DEF CardTypeOK
  <2>12. SumOf(rest) \in Nat /\ SumOf(receipts) \in Nat
    BY <2>5, SpreadType
  <2>13. SumOf(paid'[k]) + SumOf(rest) <= taken'[k] /\ SumOf(paid'[k]) <= taken'[k]
    BY <2>3, <2>6, <2>7, <2>9, <2>11, <2>12
  <2>14. Fits(s)'
    BY <2>8, <2>11, <2>13 DEF Fits
  <2> QED
    BY <2>3, <2>8, <2>9, <1>t, <2>11, <2>13, <2>14, UnderOneKey
<1>4. ASSUME NEW s \in Sessions, Finish(s) PROVE CardInv'
  <2>1. request[s] # NoRequest /\ UNCHANGED <<bill, paid, taken>>
    BY <1>4 DEF Finish
  <2>2. request' = [request EXCEPT ![s] = NoRequest]
    BY <1>4 DEF Finish
  <2>3. PICK k \in CardKeys : \A t \in Sessions \ {s} : request[t] # NoRequest => request[t].key # k
    BY <2>1, CardRequestOf
  <2>5. request'[s] = NoRequest /\ \A t \in Sessions \ {s} : request'[t] = request[t]
    BY <1>t, <2>2 DEF CardTypeOK
  <2>6. Fits(s)' /\ SumOf(paid'[k]) <= taken'[k]
    BY <2>1, <2>5 DEF Fits, CardInv, ReceiptsWithinCharge
  <2> QED
    BY <2>1, <2>3, <1>t, <2>5, <2>6, UnderOneKey
<1>5. ASSUME NEW i \in Invoices, VoidUnpaid(i) PROVE CardInv'
  <2>1. UNCHANGED <<paid, taken, request>> /\ bill' = [bill EXCEPT ![i] = "void"]
    BY <1>5 DEF VoidUnpaid
  <2> QED
    BY <1>t, <2>1 DEF CardInv, OneRequestPerKey, ReceiptsWithinCharge, Fits
<1>6. CASE UNCHANGED cardVars
  BY <1>6 DEF cardVars, CardInv, CardTypeOK, OneRequestPerKey, ReceiptsWithinCharge, Fits
<1> QED
  BY <1>1, <1>2, <1>3, <1>4, <1>5, <1>6 DEF CardNext

\* The variables of the card payments keep their types, whether or not browsers
\* send a key again.
THEOREM CardTypeCorrect == CardSpec => []CardTypeOK
<1>1. CardInit => CardTypeOK
  BY CardStart DEF CardInv
<1>2. CardTypeOK /\ [CardNext]_cardVars => CardTypeOK'
  <2> SUFFICES ASSUME CardTypeOK, [CardNext]_cardVars PROVE CardTypeOK'
    OBVIOUS
  <2> QED
    BY CardTypesStep
<1> QED
  BY <1>1, <1>2, PTL DEF CardSpec

\* make_payment with a card: as long as no key is sent again once money was taken
\* under it, the receipts under a charge add up to no more than the charge, for any
\* number of sessions and invoices, whatever times out, is voided or stops half-way.
THEOREM CardReceiptsWithin == ~Resend => (CardSpec => []ReceiptsWithinCharge)
<1> SUFFICES ASSUME ~Resend PROVE CardSpec => []ReceiptsWithinCharge
  OBVIOUS
<1>1. CardInit => CardInv
  BY CardStart
<1>2. CardInv /\ [CardNext]_cardVars => CardInv'
  BY CardStep
<1>3. CardInv => ReceiptsWithinCharge
  BY DEF CardInv
<1> QED
  BY <1>1, <1>2, <1>3, PTL DEF CardSpec
=============================================================================
