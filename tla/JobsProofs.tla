------------------------------ MODULE JobsProofs ------------------------------
(***************************************************************************)
(* What the scheduler runs on every replica under an advisory lock: the    *)
(* retry job of Webhooks and the billing job of RentBilling, for any       *)
(* replicas, events, webhooks, charges, months and number of losses.       *)
(***************************************************************************)
EXTENDS Webhooks, RentBilling, FiniteSetTheorems, TLAPS

-----------------------------------------------------------------------------
(* WEBHOOKS                                                                *)
(* The invariant ties the rows a run of the retry job holds in memory to   *)
(* the table: while it has the lock, what it selected is still what the    *)
(* table says, or deleted.                                                 *)

EventOf(d) == d[1]

-----------------------------------------------------------------------------
(* Types.                                                                  *)

LEMMA Pairs ==
    /\ \A d \in Deliveries : EventOf(d) \in Events /\ HookOf(d) \in Hooks
    /\ \A e \in Events, h \in Hooks :
         <<e, h>> \in Deliveries /\ EventOf(<<e, h>>) = e /\ HookOf(<<e, h>>) = h
    /\ \A d \in Deliveries : d = <<EventOf(d), HookOf(d)>>
    /\ NoDelivery \notin Deliveries
BY DEF Deliveries, EventOf, HookOf, NoDelivery

LEMMA IdleBatch == Idle \in Batch /\ DOMAIN Idle.rows = {} /\ Idle.todo = {}
<1>1. [d \in {} |-> NoRow] \in [{} -> Row]
  OBVIOUS
<1>2. [d \in {} |-> NoRow] \in PartialRows
  BY <1>1 DEF PartialRows
<1> QED
  BY <1>2 DEF Idle, Batch

LEMMA RowTypes ==
    /\ NoRow \in Row
    /\ \A ok \in BOOLEAN : FirstRow(ok) \in Row
    /\ \A row \in Row, ok \in BOOLEAN : row.attempts < MaxAttempts => Attempted(row, ok) \in Row
    /\ \A row \in Row : /\ [row EXCEPT !.retry = "never"] \in Row
                        /\ [row EXCEPT !.retry = "due"] \in Row
BY DEF NoRow, FirstRow, Attempted, Row, MaxAttempts

LEMMA TypeInit == Init => TypeOK
<1> SUFFICES ASSUME Init PROVE TypeOK
  OBVIOUS
<1>1. \A e \in Events : dispatch[e] \in Progress
  BY DEF Init, Progress
<1>2. delivery \in [Deliveries -> Row] /\ job \in [Replicas -> Batch]
  BY IdleBatch, RowTypes DEF Init
<1> QED
  BY <1>1, <1>2 DEF Init, TypeOK, Holders

\* What a batch becomes when delivery d of its todo has been processed.
LEMMA NextBatch ==
    ASSUME TypeOK, NEW r \in Replicas, NEW d \in job[r].todo, NEW row \in Row,
           NEW b, b = [todo |-> job[r].todo \ {d}, last |-> d,
                       rows |-> [x \in DOMAIN job[r].rows \cup {d} |->
                                   IF x = d THEN row ELSE job[r].rows[x]]]
    PROVE  b \in Batch
<1>1. PICK S \in SUBSET Deliveries : job[r].rows \in [S -> Row]
  <2>1. job[r].rows \in PartialRows
    BY DEF TypeOK, Batch
  <2> QED
    BY <2>1 DEF PartialRows
<1>2. d \in Deliveries /\ job[r].todo \subseteq Deliveries
  BY DEF TypeOK, Batch
<1>3. b.rows \in [S \cup {d} -> Row] /\ S \cup {d} \in SUBSET Deliveries
  BY <1>1, <1>2
<1>4. b.rows \in PartialRows
  BY <1>3 DEF PartialRows
<1> QED
  BY <1>2, <1>4 DEF Batch

-----------------------------------------------------------------------------
(* The invariant.                                                          *)

\* Only the holder of the lock runs the job.
Exclusive == \A r \in Replicas : Running(r) => holder = r

\* A delivery has no row before its dispatch commits; a row is deleted with
\* its webhook; a webhook that is off was switched off.
RowsFollow ==
    /\ \A d \in Deliveries :
         /\ dispatch[EventOf(d)].step # "done" => delivery[d] = NoRow
         /\ delivery[d].status = "deleted" => hook[HookOf(d)] = "deleted"
                                               /\ delivery[d].retry = "never"
         /\ hook[HookOf(d)] = "deleted" => delivery[d].status \in {"none", "deleted"}
    /\ \A h \in Hooks : hook[h] = "inactive" => h \in muted

\* What a run may make of row, which it selected; off: the webhook was off.
Outcome(row, new, off) ==
    \/ \E ok \in BOOLEAN : new = Attempted(row, ok)
    \/ new = [row EXCEPT !.retry = "never"] /\ off

\* What a batch selected is still so in the table, or deleted there; and a row
\* the run has written is not deleted.
Current(batch, table, off) ==
    /\ batch.todo \cap DOMAIN batch.rows = {}
    /\ \A d \in batch.todo : Retryable(table[d]) \/ table[d].status = "deleted"
    /\ \A d \in DOMAIN batch.rows :
         \/ Retryable(table[d]) /\ Outcome(table[d], batch.rows[d], HookOf(d) \in off)
         \/ table[d].status = "deleted" /\ d = batch.last

BatchCurrent == \A r \in Replicas : Current(job[r], delivery, muted)

\* Has a run posted d and not committed the attempt?
InFlight(d) == \E r \in Replicas : d \in DOMAIN job[r].rows
                                   /\ job[r].rows[d].attempts = delivery[d].attempts + 1

\* Is d posted by a dispatch that has not committed?
Dispatching(d) == dispatch[EventOf(d)].step = "sending" /\ HookOf(d) \in dispatch[EventOf(d)].sent

\* Every post is an attempt in the table, one on its way there, or was part of
\* a batch that was lost.
Accounted(d) ==
    /\ delivery[d].status = "none" => posts[d] <= lost + IF Dispatching(d) THEN 1 ELSE 0
    /\ delivery[d].status = "deleted" => posts[d] <= MaxAttempts + lost
    /\ delivery[d].status \in {"failed", "success"} =>
         posts[d] <= delivery[d].attempts + lost + IF InFlight(d) THEN 1 ELSE 0

\* A dispatch posts to a webhook once, and has posted nothing before it begins.
DispatchShape ==
    \A e \in Events : /\ dispatch[e].todo \cap dispatch[e].sent = {}
                      /\ dispatch[e].step = "new" => dispatch[e].sent = {}

IInv == /\ TypeOK /\ Exclusive /\ RowsFollow /\ BatchCurrent /\ DispatchShape
        /\ GivenUpForCause
        /\ \A d \in Deliveries : Accounted(d)

LEMMA InitIInv == Init => IInv
<1> SUFFICES ASSUME Init PROVE IInv
  OBVIOUS
<1>1. TypeOK
  BY TypeInit
<1>2. Exclusive
  BY DEF Init, Exclusive, Running
<1>3. RowsFollow /\ DispatchShape
  BY Pairs DEF Init, RowsFollow, DispatchShape, NoRow
<1>4. BatchCurrent
  BY IdleBatch DEF Init, BatchCurrent, Current
<1>5. GivenUpForCause
  BY DEF Init, GivenUpForCause, NoRow
<1>6. \A d \in Deliveries : Accounted(d)
  BY Pairs DEF Init, Accounted, NoRow, Dispatching
<1> QED
  BY <1>1, <1>2, <1>3, <1>4, <1>5, <1>6 DEF IInv

-----------------------------------------------------------------------------
(* Dispatch.                                                               *)

\* What an action leaves alone.
LEMMA Frame ==
    ASSUME UNCHANGED <<job, delivery>>
    PROVE  /\ BatchCurrent => ((\A h \in muted : h \in muted') => BatchCurrent')
           /\ \A d \in Deliveries : InFlight(d)' <=> InFlight(d)
<1>1. \A d \in Deliveries : InFlight(d)' <=> InFlight(d)
  BY DEF InFlight
<1>2. ASSUME BatchCurrent, \A h \in muted : h \in muted' PROVE BatchCurrent'
  BY <1>2 DEF BatchCurrent, Current, Outcome
<1> QED
  BY <1>1, <1>2

LEMMA BeginDispatchStep ==
    ASSUME IInv, NEW e \in Events, BeginDispatch(e)
    PROVE  IInv'
<1>1. /\ dispatch[e].step = "new" /\ dispatch[e].sent = {}
      /\ dispatch'[e].step = "sending" /\ dispatch'[e].sent = {}
      /\ \A f \in Events : f # e => dispatch'[f] = dispatch[f]
      /\ UNCHANGED <<holder, hook, delivery, job, posts, lost, muted>>
  BY DEF IInv, TypeOK, DispatchShape, BeginDispatch
<1>2. TypeOK'
  <2>1. [step |-> "sending", todo |-> {h \in Hooks : hook[h] = "active"},
         sent |-> {}, taken |-> {}] \in Progress
    BY DEF Progress
  <2> QED
    BY <2>1 DEF IInv, TypeOK, BeginDispatch
<1>3. Exclusive' /\ RowsFollow' /\ DispatchShape' /\ GivenUpForCause'
  BY <1>1, Pairs DEF IInv, Exclusive, Running, RowsFollow, DispatchShape, GivenUpForCause
<1>4. BatchCurrent'
  BY <1>1, Frame DEF IInv
<1>5. ASSUME NEW d \in Deliveries PROVE Accounted(d)'
  <2>1. (Dispatching(d)' <=> Dispatching(d)) /\ (InFlight(d)' <=> InFlight(d))
    BY <1>1, Pairs, Frame DEF Dispatching
  <2> QED
    BY <1>1, <2>1 DEF IInv, Accounted
<1> QED
  BY <1>2, <1>3, <1>4, <1>5 DEF IInv

LEMMA PostEventStep ==
    ASSUME IInv, NEW e \in Events, PostEvent(e)
    PROVE  IInv'
<1>1. PICK h \in dispatch[e].todo, ok \in BOOLEAN :
        /\ dispatch' = [dispatch EXCEPT
             ![e] = [step |-> "sending", todo |-> @.todo \ {h}, sent |-> @.sent \cup {h},
                     taken |-> IF ok THEN @.taken \cup {h} ELSE @.taken]]
        /\ posts' = [posts EXCEPT ![<<e, h>>] = @ + 1]
  BY DEF PostEvent
<1>2. /\ h \in Hooks /\ h \notin dispatch[e].sent
      /\ dispatch[e].step = "sending" /\ dispatch'[e].step = "sending"
      /\ dispatch'[e].sent = dispatch[e].sent \cup {h}
      /\ dispatch'[e].todo = dispatch[e].todo \ {h}
      /\ \A f \in Events : f # e => dispatch'[f] = dispatch[f]
      /\ UNCHANGED <<holder, hook, delivery, job, lost, muted>>
  <2>1. dispatch[e] \in Progress /\ dispatch \in [Events -> Progress]
    BY DEF IInv, TypeOK
  <2>2. h \in Hooks /\ h \notin dispatch[e].sent
    BY <2>1 DEF IInv, DispatchShape, Progress
  <2>3. /\ dispatch'[e] = [step |-> "sending", todo |-> dispatch[e].todo \ {h},
                             sent |-> dispatch[e].sent \cup {h},
                             taken |-> IF ok THEN dispatch[e].taken \cup {h}
                                             ELSE dispatch[e].taken]
        /\ \A f \in Events : f # e => dispatch'[f] = dispatch[f]
    BY <1>1, <2>1
  <2> QED
    BY <2>1, <2>2, <2>3 DEF PostEvent, Progress
<1>3. /\ posts'[<<e, h>>] = posts[<<e, h>>] + 1 /\ posts[<<e, h>>] \in Nat
      /\ \A d \in Deliveries : d # <<e, h>> => posts'[d] = posts[d]
  BY <1>1, <1>2, Pairs DEF IInv, TypeOK
<1>4. TypeOK'
  <2>1. dispatch' \in [Events -> Progress]
    <3>1. dispatch[e] \in Progress /\ dispatch \in [Events -> Progress]
      BY DEF IInv, TypeOK
    <3>2. [step |-> "sending", todo |-> dispatch[e].todo \ {h},
           sent |-> dispatch[e].sent \cup {h},
           taken |-> IF ok THEN dispatch[e].taken \cup {h} ELSE dispatch[e].taken] \in Progress
      BY <3>1, <1>2 DEF Progress
    <3> QED
      BY <1>1, <3>1, <3>2
  <2>2. posts' \in [Deliveries -> Nat]
    BY <1>1, <1>3, <1>2, Pairs DEF IInv, TypeOK
  <2> QED
    BY <1>2, <2>1, <2>2 DEF IInv, TypeOK
<1>5. Exclusive' /\ RowsFollow' /\ DispatchShape' /\ GivenUpForCause'
  BY <1>2, Pairs DEF IInv, Exclusive, Running, RowsFollow, DispatchShape, GivenUpForCause
<1>6. BatchCurrent'
  BY <1>2, Frame DEF IInv
<1>7. ASSUME NEW d \in Deliveries PROVE Accounted(d)'
  <2>1. InFlight(d)' <=> InFlight(d)
    BY <1>2, Frame
  <2>2. CASE d = <<e, h>>
    <3>1. EventOf(d) = e /\ HookOf(d) = h
      BY <2>2, <1>2, Pairs
    <3>2. delivery[d].status = "none" /\ ~Dispatching(d) /\ Dispatching(d)'
      BY <3>1, <1>2 DEF IInv, RowsFollow, NoRow, Dispatching
    <3>3. posts[d] <= lost
      BY <3>2 DEF IInv, Accounted, TypeOK
    <3>4. delivery'[d].status = "none" /\ posts'[d] <= lost' + 1
      BY <2>2, <3>2, <3>3, <1>2, <1>3 DEF IInv, TypeOK
    <3> QED
      BY <3>2, <3>4 DEF Accounted
  <2>3. CASE d # <<e, h>>
    <3>1. Dispatching(d)' <=> Dispatching(d)
      BY <2>3, <1>2, Pairs DEF Dispatching
    <3> QED
      BY <2>1, <2>3, <3>1, <1>2, <1>3 DEF IInv, Accounted
  <2> QED
    BY <2>2, <2>3
<1> QED
  BY <1>4, <1>5, <1>6, <1>7 DEF IInv

\* A dispatch that ends without a commit: its posts are lost.
LEMMA DispatchLost ==
    ASSUME IInv, NEW e \in Events, dispatch[e].step = "sending",
           dispatch' = [dispatch EXCEPT ![e].step = "done"], lost' = lost + 1,
           UNCHANGED <<holder, hook, delivery, job, posts, muted>>
    PROVE  IInv'
<1>1. dispatch \in [Events -> Progress] /\ lost \in Nat /\ posts \in [Deliveries -> Nat]
  BY DEF IInv, TypeOK
<1>2. /\ dispatch'[e] = [dispatch[e] EXCEPT !.step = "done"]
      /\ \A f \in Events : f # e => dispatch'[f] = dispatch[f]
  BY <1>1
<1>3. /\ dispatch'[e].step = "done" /\ dispatch'[e].todo = dispatch[e].todo
      /\ dispatch'[e].sent = dispatch[e].sent /\ dispatch'[e] \in Progress
  BY <1>1, <1>2 DEF Progress
<1>4. TypeOK'
  BY <1>1, <1>2, <1>3 DEF IInv, TypeOK
<1>5. Exclusive' /\ RowsFollow' /\ DispatchShape' /\ GivenUpForCause'
  BY <1>2, <1>3, Pairs DEF IInv, Exclusive, Running, RowsFollow, DispatchShape, GivenUpForCause
<1>6. BatchCurrent'
  BY Frame DEF IInv
<1>7. ASSUME NEW d \in Deliveries PROVE Accounted(d)'
  <2>1. InFlight(d)' <=> InFlight(d)
    BY Frame
  <2>2. delivery[d] \in Row /\ posts[d] \in Nat
    BY DEF IInv, TypeOK
  <2> QED
    BY <1>1, <2>1, <2>2 DEF IInv, Accounted, Row, MaxAttempts
<1> QED
  BY <1>4, <1>5, <1>6, <1>7 DEF IInv

LEMMA CommitDispatchStep ==
    ASSUME IInv, NEW e \in Events, CommitDispatch(e)
    PROVE  IInv'
<1> DEFINE s == dispatch[e].sent
           row(d) == FirstRow(HookOf(d) \in dispatch[e].taken)
           mine(d) == EventOf(d) = e /\ HookOf(d) \in s
<1>1. CASE \E h \in s : hook[h] = "deleted"
  BY <1>1, DispatchLost DEF CommitDispatch
<1>2. CASE ~(\E h \in s : hook[h] = "deleted")
  <2>1. /\ dispatch[e].step = "sending"
        /\ dispatch' = [dispatch EXCEPT ![e].step = "done"]
        /\ delivery' = [d \in Deliveries |-> IF mine(d) THEN row(d) ELSE delivery[d]]
        /\ UNCHANGED <<holder, hook, job, posts, lost, muted>>
    BY <1>2 DEF CommitDispatch, EventOf
  <2>2. /\ dispatch \in [Events -> Progress] /\ lost \in Nat
        /\ delivery \in [Deliveries -> Row] /\ posts \in [Deliveries -> Nat]
    BY DEF IInv, TypeOK
  <2>3. /\ dispatch'[e].step = "done" /\ dispatch'[e].todo = dispatch[e].todo
        /\ dispatch'[e].sent = s /\ dispatch'[e] \in Progress
        /\ \A f \in Events : f # e => dispatch'[f] = dispatch[f]
    BY <2>1, <2>2 DEF Progress
  <2>4. \A d \in Deliveries :
          /\ mine(d) => /\ delivery[d] = NoRow /\ delivery'[d] = row(d)
                        /\ row(d).attempts = 1 /\ row(d).status \in {"failed", "success"}
                        /\ row(d).status = "failed" => row(d).retry = "waiting"
          /\ ~mine(d) => delivery'[d] = delivery[d]
    BY <2>1 DEF IInv, RowsFollow, FirstRow
  <2>5. TypeOK'
    <3>1. \A d \in Deliveries : row(d) \in Row
      BY DEF FirstRow, Row, MaxAttempts
    <3>2. delivery' \in [Deliveries -> Row] /\ dispatch' \in [Events -> Progress]
      BY <2>1, <2>2, <2>3, <3>1
    <3> QED
      BY <2>1, <3>2 DEF IInv, TypeOK
  <2>6. Exclusive' /\ DispatchShape'
    BY <2>1, <2>3 DEF IInv, Exclusive, Running, DispatchShape
  <2>7. RowsFollow'
    <3>1. ASSUME NEW d \in Deliveries, mine(d)
          PROVE  /\ dispatch'[EventOf(d)].step = "done" /\ hook[HookOf(d)] # "deleted"
                 /\ delivery'[d].status # "deleted"
      BY <3>1, <1>2, <2>3, <2>4
    <3>2. ASSUME NEW d \in Deliveries, ~mine(d)
          PROVE  /\ delivery'[d] = delivery[d]
                 /\ dispatch'[EventOf(d)].step # "done" => dispatch[EventOf(d)].step # "done"
      BY <3>2, <2>3, <2>4, Pairs
    <3> QED
      BY <3>1, <3>2, <2>1 DEF IInv, RowsFollow
  <2>8. GivenUpForCause'
    BY <2>1, <2>4 DEF IInv, GivenUpForCause
  <2>9. \A r \in Replicas : \A d \in job[r].todo \cup DOMAIN job[r].rows : ~mine(d)
    <3>1. \A r \in Replicas : \A d \in job[r].todo \cup DOMAIN job[r].rows :
            delivery[d] # NoRow
      BY DEF IInv, BatchCurrent, Current, Retryable, NoRow
    <3>2. \A r \in Replicas : job[r].todo \cup DOMAIN job[r].rows \subseteq Deliveries
      <4>1. \A r \in Replicas : job[r].todo \subseteq Deliveries /\ job[r].rows \in PartialRows
        BY DEF IInv, TypeOK, Batch
      <4> QED
        BY <4>1 DEF PartialRows
    <3> QED
      BY <3>1, <3>2, <2>4
  <2>10. \A r \in Replicas : \A d \in job[r].todo \cup DOMAIN job[r].rows :
           d \in Deliveries /\ delivery'[d] = delivery[d]
    <3>1. \A r \in Replicas : job[r].todo \subseteq Deliveries /\ job[r].rows \in PartialRows
      BY DEF IInv, TypeOK, Batch
    <3>2. \A r \in Replicas : DOMAIN job[r].rows \subseteq Deliveries
      BY <3>1 DEF PartialRows
    <3> QED
      BY <3>1, <3>2, <2>4, <2>9
  <2>11. BatchCurrent'
    BY <2>1, <2>10 DEF IInv, BatchCurrent, Current
  <2>12. ASSUME NEW d \in Deliveries PROVE Accounted(d)'
    <3>1. Dispatching(d) => mine(d) \/ EventOf(d) # e
      BY DEF Dispatching
    <3>2. CASE mine(d)
      <4>1. delivery[d].status = "none" /\ posts[d] <= lost + 1
        BY <2>2, <2>4, <3>2 DEF IInv, Accounted, NoRow
      <4> QED
        BY <4>1, <2>1, <2>2, <2>4, <3>2 DEF Accounted, InFlight
    <3>3. CASE ~mine(d)
      <4>1. Dispatching(d)' <=> Dispatching(d)
        BY <2>3, <3>3, <3>1, Pairs DEF Dispatching
      <4>2. InFlight(d)' <=> InFlight(d)
        BY <2>1, <2>4, <3>3 DEF InFlight
      <4> QED
        BY <4>1, <4>2, <2>1, <2>4, <3>3 DEF IInv, Accounted
    <3> QED
      BY <3>2, <3>3
  <2> QED
    BY <2>5, <2>6, <2>7, <2>8, <2>11, <2>12 DEF IInv
<1> QED
  BY <1>1, <1>2

-----------------------------------------------------------------------------
(* The retry job.                                                          *)

LEMMA BatchTypes ==
    ASSUME TypeOK, NEW r \in Replicas
    PROVE  /\ job[r] \in Batch
           /\ job[r].todo \subseteq Deliveries
           /\ DOMAIN job[r].rows \subseteq Deliveries
           /\ \A d \in DOMAIN job[r].rows : job[r].rows[d] \in Row
<1>1. job[r] \in Batch /\ job[r].todo \subseteq Deliveries /\ job[r].rows \in PartialRows
  BY DEF TypeOK, Batch
<1> QED
  BY <1>1 DEF PartialRows

\* The others are idle while r runs, and no one runs while the lock is free.
LEMMA OnlyOne ==
    ASSUME IInv, NEW r \in Replicas, Running(r) \/ holder = Nobody,
           NEW q \in Replicas, q # r \/ holder = Nobody
    PROVE  job[q] = Idle /\ DOMAIN job[q].rows = {} /\ job[q].todo = {}
BY IdleBatch, JobsAssumption DEF IInv, Exclusive, Running, HolderAssumption

LEMMA StartJobStep ==
    ASSUME IInv, NEW r \in Replicas, StartJob(r)
    PROVE  IInv'
<1> DEFINE batch == {d \in Deliveries : Retryable(delivery[d])}
<1>1. /\ holder = Nobody /\ holder' = r
      /\ job' = [job EXCEPT ![r].todo = batch]
      /\ UNCHANGED <<hook, delivery, dispatch, posts, lost, muted>>
  BY DEF StartJob, TryLock
<1>2. \A q \in Replicas : job[q] = Idle
  BY <1>1, OnlyOne
<1>3. job'[r] = [Idle EXCEPT !.todo = batch] /\ \A q \in Replicas : q # r => job'[q] = Idle
  BY <1>1, <1>2 DEF IInv, TypeOK
<1>4. /\ job'[r].todo = batch /\ job'[r].rows = Idle.rows /\ job'[r].last = Idle.last
      /\ job'[r] \in Batch
  BY <1>3, IdleBatch DEF Idle, Batch
<1>5. TypeOK'
  BY <1>1, <1>3, <1>4, IdleBatch DEF IInv, TypeOK, Holders
<1>6. Exclusive' /\ RowsFollow' /\ DispatchShape' /\ GivenUpForCause'
  BY <1>1, <1>3 DEF IInv, Exclusive, Running, RowsFollow, DispatchShape, GivenUpForCause
<1>7. BatchCurrent'
  BY <1>1, <1>3, <1>4, IdleBatch DEF BatchCurrent, Current
<1>8. ASSUME NEW d \in Deliveries PROVE Accounted(d)'
  <2>1. ~InFlight(d) /\ ~InFlight(d)'
    BY <1>2, <1>3, <1>4, IdleBatch DEF InFlight
  <2> QED
    BY <1>1, <2>1 DEF IInv, Accounted, Dispatching
<1> QED
  BY <1>5, <1>6, <1>7, <1>8 DEF IInv

\* A run that ends without a commit: what it posted is lost.
LEMMA JobLost ==
    ASSUME IInv, NEW r \in Replicas, Running(r), job' = [job EXCEPT ![r] = Idle],
           lost' = lost + 1, holder' \in {Nobody, DeadSession},
           UNCHANGED <<hook, delivery, dispatch, posts, muted>>
    PROVE  IInv'
<1>1. \A q \in Replicas : job'[q] = Idle
  BY OnlyOne DEF IInv, TypeOK
<1>2. TypeOK'
  BY <1>1, IdleBatch DEF IInv, TypeOK, Holders
<1>3. Exclusive' /\ RowsFollow' /\ DispatchShape' /\ GivenUpForCause'
  BY <1>1 DEF IInv, Exclusive, Running, RowsFollow, DispatchShape, GivenUpForCause
<1>4. BatchCurrent'
  BY <1>1, IdleBatch DEF BatchCurrent, Current
<1>5. ASSUME NEW d \in Deliveries PROVE Accounted(d)'
  <2>1. posts[d] \in Nat /\ lost \in Nat /\ delivery[d] \in Row
    BY DEF IInv, TypeOK
  <2>2. ~InFlight(d)' /\ (Dispatching(d)' <=> Dispatching(d))
    BY <1>1, IdleBatch DEF InFlight, Dispatching
  <2> QED
    BY <2>1, <2>2 DEF IInv, Accounted, Row, MaxAttempts
<1> QED
  BY <1>2, <1>3, <1>4, <1>5 DEF IInv

LEMMA JobLostStep ==
    ASSUME IInv, NEW r \in Replicas, FailJob(r) \/ Crash(r)
    PROVE  IInv'
<1>1. Running(r) => holder = r
  BY DEF IInv, Exclusive
<1> QED
  BY <1>1, JobLost DEF FailJob, Crash, Unlock, LoseSession

\* The next delivery of the batch, d, becomes row; n posts are made of it.
LEMMA Processed ==
    ASSUME IInv, NEW r \in Replicas, NEW d \in job[r].todo, ~WriteFails(r), NEW row,
           NEW n \in {0, 1},
           job' = [job EXCEPT ![r] = [todo |-> job[r].todo \ {d}, last |-> d,
                     rows |-> [x \in DOMAIN job[r].rows \cup {d} |->
                                 IF x = d THEN row ELSE job[r].rows[x]]]],
           posts' = [posts EXCEPT ![d] = @ + n],
           UNCHANGED <<holder, hook, delivery, dispatch, lost, muted>>,
           \/ Retryable(delivery[d]) /\ Outcome(delivery[d], row, HookOf(d) \in muted)
           \/ delivery[d].status = "deleted" /\ row \in Row,
           n = 1 => Retryable(delivery[d]) /\ row.attempts = delivery[d].attempts + 1
    PROVE  IInv'
<1> DEFINE b == [todo |-> job[r].todo \ {d}, last |-> d,
                 rows |-> [x \in DOMAIN job[r].rows \cup {d} |->
                             IF x = d THEN row ELSE job[r].rows[x]]]
<1>1. /\ d \in Deliveries /\ delivery[d] \in Row /\ posts \in [Deliveries -> Nat] /\ lost \in Nat
      /\ d \notin DOMAIN job[r].rows
  BY BatchTypes DEF IInv, TypeOK, BatchCurrent, Current
<1>2. row \in Row
  BY <1>1, RowTypes DEF Outcome, Retryable
<1>3. b \in Batch
  BY <1>2, NextBatch DEF IInv
<1>4. job'[r] = b /\ \A q \in Replicas : q # r => job'[q] = job[q]
  BY DEF IInv, TypeOK
<1>5. /\ b.todo = job[r].todo \ {d} /\ b.last = d /\ DOMAIN b.rows = DOMAIN job[r].rows \cup {d}
      /\ b.rows[d] = row /\ \A x \in DOMAIN job[r].rows : b.rows[x] = job[r].rows[x]
  BY <1>1
<1>6. Running(r)
  BY IdleBatch DEF Running
<1> HIDE DEF b
<1>7. TypeOK'
  <2>1. posts' \in [Deliveries -> Nat]
    BY <1>1
  <2> QED
    BY <1>3, <1>4, <2>1 DEF IInv, TypeOK
<1>8. Exclusive'
  BY <1>4, <1>6 DEF IInv, Exclusive, Running
<1>9. RowsFollow' /\ DispatchShape' /\ GivenUpForCause'
  BY DEF IInv, RowsFollow, DispatchShape, GivenUpForCause
<1>10. BatchCurrent'
  <2>1. ASSUME NEW x \in DOMAIN job[r].rows
        PROVE  /\ Retryable(delivery[x])
               /\ Outcome(delivery[x], job[r].rows[x], HookOf(x) \in muted)
    <3>1. x \in Deliveries
      BY <2>1, BatchTypes DEF IInv
    <3>2. x = job[r].last => delivery[x].status # "deleted"
      BY <3>1, Pairs DEF WriteFails
    <3> QED
      BY <2>1, <3>2 DEF IInv, BatchCurrent, Current
  <2>2. Current(b, delivery, muted)
    BY <1>5, <2>1 DEF IInv, BatchCurrent, Current
  <2>3. \A q \in Replicas : Current(job'[q], delivery, muted)
    BY <2>2, <1>4 DEF IInv, BatchCurrent
  <2> QED
    BY <2>3 DEF BatchCurrent
<1>11. ASSUME NEW x \in Deliveries PROVE Accounted(x)'
  <2>1. Dispatching(x)' <=> Dispatching(x)
    BY DEF Dispatching
  <2>2. x # d => (InFlight(x)' <=> InFlight(x)) /\ posts'[x] = posts[x]
    <3> SUFFICES ASSUME x # d, NEW q \in Replicas
                 PROVE  /\ x \in DOMAIN job'[q].rows <=> x \in DOMAIN job[q].rows
                        /\ x \in DOMAIN job[q].rows => job'[q].rows[x] = job[q].rows[x]
      BY <1>1 DEF InFlight
    <3> QED
      BY <1>4, <1>5
  <2>3. ~InFlight(d)
    BY <1>1, <1>6, OnlyOne DEF InFlight
  <2>4. posts'[d] = posts[d] + n /\ (n = 1 => InFlight(d)')
    BY <1>1, <1>4, <1>5 DEF InFlight
  <2>5. CASE x = d /\ n = 1
    <3>1. delivery[d].status = "failed" /\ posts[d] <= delivery[d].attempts + lost
      BY <2>3, <2>5, <1>1 DEF IInv, Accounted, Retryable, Row, MaxAttempts
    <3> QED
      BY <3>1, <2>4, <2>5, <1>1 DEF Accounted, Row, MaxAttempts
  <2>6. CASE x = d /\ n = 0
    BY <2>1, <2>3, <2>4, <2>6, <1>1 DEF IInv, Accounted, Row, MaxAttempts
  <2>7. CASE x # d
    BY <2>1, <2>2, <2>7 DEF IInv, Accounted
  <2> QED
    BY <2>5, <2>6, <2>7
<1> QED
  BY <1>7, <1>8, <1>9, <1>10, <1>11 DEF IInv

LEMMA RetryNextStep ==
    ASSUME IInv, NEW r \in Replicas, RetryNext(r)
    PROVE  IInv'
<1>1. PICK d \in job[r].todo :
        LET became(row) == [todo |-> job[r].todo \ {d}, last |-> d,
               rows |-> [x \in DOMAIN job[r].rows \cup {d} |->
                           IF x = d THEN row ELSE job[r].rows[x]]]
        IN IF hook[HookOf(d)] # "active"
             THEN /\ job' = [job EXCEPT ![r] = became([delivery[d] EXCEPT !.retry = "never"])]
                  /\ UNCHANGED posts
             ELSE /\ \E ok \in BOOLEAN :
                       job' = [job EXCEPT ![r] = became(Attempted(delivery[d], ok))]
                  /\ posts' = [posts EXCEPT ![d] = @ + 1]
  BY DEF RetryNext
<1>2. /\ ~WriteFails(r) /\ UNCHANGED <<holder, hook, delivery, dispatch, lost, muted>>
      /\ d \in Deliveries /\ HookOf(d) \in Hooks
      /\ Retryable(delivery[d]) \/ delivery[d].status = "deleted"
      /\ posts \in [Deliveries -> Nat] /\ hook[HookOf(d)] \in {"active", "inactive", "deleted"}
  BY Pairs, BatchTypes DEF RetryNext, IInv, TypeOK, BatchCurrent, Current
<1>3. CASE hook[HookOf(d)] # "active"
  <2>1. posts' = [posts EXCEPT ![d] = @ + 0]
    BY <1>1, <1>2, <1>3
  <2>2. \/ Retryable(delivery[d]) /\ HookOf(d) \in muted
        \/ delivery[d].status = "deleted"
    BY <1>2, <1>3 DEF IInv, RowsFollow, Retryable
  <2> QED
    <3> DEFINE new == [delivery[d] EXCEPT !.retry = "never"]
    <3>1. job' = [job EXCEPT ![r] = [todo |-> job[r].todo \ {d}, last |-> d,
                    rows |-> [x \in DOMAIN job[r].rows \cup {d} |->
                                IF x = d THEN new ELSE job[r].rows[x]]]]
      BY <1>1, <1>3
    <3>2. \/ Retryable(delivery[d]) /\ Outcome(delivery[d], new, HookOf(d) \in muted)
          \/ delivery[d].status = "deleted" /\ new \in Row
      BY <2>2, <1>2 DEF Outcome, IInv, TypeOK, Row
    <3>3. 0 \in {0, 1} /\ 0 # 1
      OBVIOUS
    <3> HIDE DEF new
    <3> QED
      BY <1>2, <2>1, <3>1, <3>2, <3>3, Processed
<1>4. CASE hook[HookOf(d)] = "active"
  <2>1. Retryable(delivery[d])
    BY <1>2, <1>4 DEF IInv, RowsFollow
  <2>2. PICK ok \in BOOLEAN :
          job' = [job EXCEPT ![r] = [todo |-> job[r].todo \ {d}, last |-> d,
                    rows |-> [x \in DOMAIN job[r].rows \cup {d} |->
                                IF x = d THEN Attempted(delivery[d], ok) ELSE job[r].rows[x]]]]
    BY <1>1, <1>4
  <2>3. /\ Outcome(delivery[d], Attempted(delivery[d], ok), HookOf(d) \in muted)
        /\ Attempted(delivery[d], ok).attempts = delivery[d].attempts + 1
    BY DEF Outcome, Attempted
  <2>4. posts' = [posts EXCEPT ![d] = @ + 1]
    BY <1>1, <1>4
  <2> QED
    BY <1>2, <2>1, <2>2, <2>3, <2>4, Processed
<1> QED
  BY <1>3, <1>4

LEMMA CommitJobStep ==
    ASSUME IInv, NEW r \in Replicas, CommitJob(r)
    PROVE  IInv'
<1> DEFINE D == DOMAIN job[r].rows
<1>1. /\ Running(r) /\ ~WriteFails(r) /\ holder' = Nobody
      /\ delivery' = [d \in Deliveries |-> IF d \in D THEN job[r].rows[d] ELSE delivery[d]]
      /\ job' = [job EXCEPT ![r] = Idle]
      /\ UNCHANGED <<hook, dispatch, posts, lost, muted>>
  BY DEF CommitJob, Unlock
<1>2. \A q \in Replicas : job'[q] = Idle
  BY <1>1, OnlyOne DEF IInv, TypeOK
<1>3. /\ D \subseteq Deliveries /\ \A d \in D : job[r].rows[d] \in Row
      /\ delivery \in [Deliveries -> Row] /\ posts \in [Deliveries -> Nat] /\ lost \in Nat
  BY BatchTypes DEF IInv, TypeOK
<1>4. \A d \in D : /\ Retryable(delivery[d])
                   /\ Outcome(delivery[d], job[r].rows[d], HookOf(d) \in muted)
                   /\ delivery'[d] = job[r].rows[d]
  <2>1. \A d \in D : d = job[r].last => delivery[d].status # "deleted"
    BY <1>1, <1>3, Pairs DEF WriteFails
  <2> QED
    BY <1>1, <1>3, <2>1 DEF IInv, BatchCurrent, Current
<1>5. \A d \in Deliveries : d \notin D => delivery'[d] = delivery[d]
  BY <1>1
<1>6. \A d \in D :
        /\ delivery[d].status = "failed" /\ delivery[d].attempts < MaxAttempts
        /\ delivery'[d].status \in {"failed", "success"}
        /\ delivery'[d].attempts \in {delivery[d].attempts, delivery[d].attempts + 1}
        /\ delivery'[d].status = "failed" /\ delivery'[d].retry = "never" =>
             delivery'[d].attempts = MaxAttempts \/ HookOf(d) \in muted
  <2> SUFFICES ASSUME NEW d \in D
               PROVE  /\ delivery[d].status = "failed" /\ delivery[d].attempts < MaxAttempts
                      /\ delivery'[d].status \in {"failed", "success"}
                      /\ delivery'[d].attempts \in {delivery[d].attempts, delivery[d].attempts + 1}
                      /\ delivery'[d].status = "failed" /\ delivery'[d].retry = "never" =>
                           delivery'[d].attempts = MaxAttempts \/ HookOf(d) \in muted
    OBVIOUS
  <2>1. delivery[d] \in Row /\ Retryable(delivery[d])
    BY <1>3, <1>4
  <2>2. CASE \E ok \in BOOLEAN : delivery'[d] = Attempted(delivery[d], ok)
    BY <2>1, <2>2 DEF Attempted, Retryable, Row, MaxAttempts
  <2>3. CASE delivery'[d] = [delivery[d] EXCEPT !.retry = "never"] /\ HookOf(d) \in muted
    BY <2>1, <2>3 DEF Retryable, Row, MaxAttempts
  <2> QED
    BY <1>4, <2>2, <2>3 DEF Outcome
<1>7. TypeOK'
  BY <1>1, <1>2, <1>3, IdleBatch DEF IInv, TypeOK, Holders
<1>8. Exclusive' /\ DispatchShape'
  BY <1>1, <1>2 DEF IInv, Exclusive, Running, DispatchShape
<1>9. RowsFollow'
  <2>1. \A d \in D : /\ dispatch[EventOf(d)].step = "done" /\ hook[HookOf(d)] # "deleted"
                     /\ delivery'[d].status # "deleted"
    BY <1>3, <1>6 DEF IInv, RowsFollow, NoRow
  <2> QED
    BY <1>1, <1>5, <2>1 DEF IInv, RowsFollow
<1>10. GivenUpForCause'
  BY <1>1, <1>5, <1>6 DEF IInv, GivenUpForCause
<1>11. BatchCurrent'
  BY <1>2, IdleBatch DEF BatchCurrent, Current
<1>12. ASSUME NEW d \in Deliveries PROVE Accounted(d)'
  <2>1. ~InFlight(d)' /\ (Dispatching(d)' <=> Dispatching(d))
    BY <1>1, <1>2, IdleBatch DEF InFlight, Dispatching
  <2>2. CASE d \in D
    <3>1. InFlight(d) => delivery'[d].attempts = delivery[d].attempts + 1
      BY <1>1, <1>4, <2>2, OnlyOne DEF InFlight
    <3>2. posts[d] <= delivery[d].attempts + lost + IF InFlight(d) THEN 1 ELSE 0
      BY <1>6, <2>2 DEF IInv, Accounted
    <3>3. delivery[d].attempts \in Nat /\ posts[d] \in Nat
      BY <1>3 DEF Row, MaxAttempts
    <3> QED
      BY <1>1, <1>3, <1>6, <2>1, <2>2, <3>1, <3>2, <3>3 DEF Accounted
  <2>3. CASE d \notin D
    <3>1. ~InFlight(d)
      BY <1>1, <2>3, OnlyOne DEF InFlight
    <3> QED
      BY <1>1, <1>5, <2>1, <2>3, <3>1 DEF IInv, Accounted
  <2> QED
    BY <2>2, <2>3
<1> QED
  BY <1>7, <1>8, <1>9, <1>10, <1>11, <1>12 DEF IInv

-----------------------------------------------------------------------------
(* Time and the administrator.                                             *)

LEMMA ElapseStep ==
    ASSUME IInv, NEW d \in Deliveries, Elapse(d)
    PROVE  IInv'
<1>1. /\ delivery[d].retry = "waiting" /\ delivery[d] \in Row
      /\ delivery' = [delivery EXCEPT ![d].retry = "due"]
      /\ UNCHANGED <<holder, hook, dispatch, job, posts, lost, muted>>
  BY DEF Elapse, IInv, TypeOK
<1>2. /\ delivery'[d] = [delivery[d] EXCEPT !.retry = "due"]
      /\ \A x \in Deliveries : x # d => delivery'[x] = delivery[x]
  BY <1>1 DEF IInv, TypeOK
<1>3. delivery'[d].status = delivery[d].status /\ delivery'[d].attempts = delivery[d].attempts
      /\ delivery'[d].retry = "due"
  BY <1>1, <1>2 DEF Row
<1>4. delivery[d].status # "deleted" /\ delivery[d] # NoRow
  BY <1>1 DEF IInv, RowsFollow, NoRow
<1>5. TypeOK'
  BY <1>1, RowTypes DEF IInv, TypeOK
<1>6. Exclusive' /\ RowsFollow' /\ DispatchShape' /\ GivenUpForCause'
  <2>1. Exclusive' /\ DispatchShape'
    BY <1>1 DEF IInv, Exclusive, Running, DispatchShape
  <2>2. RowsFollow'
    BY <1>1, <1>2, <1>3, <1>4 DEF IInv, RowsFollow
  <2>3. GivenUpForCause'
    BY <1>1, <1>2, <1>3 DEF IInv, GivenUpForCause
  <2> QED
    BY <2>1, <2>2, <2>3
<1>7. \A r \in Replicas : d \notin job[r].todo /\ d \notin DOMAIN job[r].rows
  BY <1>1, <1>4 DEF IInv, BatchCurrent, Current, Retryable
<1>8. \A r \in Replicas : Current(job[r], delivery', muted)
  BY <1>2, <1>7, BatchTypes DEF IInv, BatchCurrent, Current
<1>9. BatchCurrent'
  BY <1>1, <1>8 DEF BatchCurrent
<1>10. ASSUME NEW x \in Deliveries PROVE Accounted(x)'
  <2>1. /\ InFlight(x)' <=> InFlight(x)
        /\ Dispatching(x)' <=> Dispatching(x)
    BY <1>1, <1>2, <1>3 DEF InFlight, Dispatching
  <2> QED
    BY <1>1, <1>2, <1>3, <2>1 DEF IInv, Accounted
<1> QED
  BY <1>5, <1>6, <1>9, <1>10 DEF IInv

LEMMA SwitchStep ==
    ASSUME IInv, NEW h \in Hooks, Switch(h)
    PROVE  IInv'
<1>1. /\ hook[h] \in {"active", "inactive"} /\ hook'[h] \in {"active", "inactive"}
      /\ \A g \in Hooks : g # h => hook'[g] = hook[g]
      /\ muted' = muted \cup {h}
      /\ UNCHANGED <<holder, delivery, dispatch, job, posts, lost>>
  BY DEF Switch, IInv, TypeOK
<1>2. TypeOK'
  BY <1>1 DEF IInv, TypeOK, Switch
<1>3. Exclusive' /\ RowsFollow' /\ DispatchShape' /\ GivenUpForCause'
  BY <1>1, Pairs DEF IInv, Exclusive, Running, RowsFollow, DispatchShape, GivenUpForCause
<1>4. BatchCurrent'
  BY <1>1, Frame DEF IInv
<1>5. ASSUME NEW d \in Deliveries PROVE Accounted(d)'
  BY <1>1, Frame DEF IInv, Accounted, Dispatching
<1> QED
  BY <1>2, <1>3, <1>4, <1>5 DEF IInv

LEMMA DeleteStep ==
    ASSUME IInv, NEW h \in Hooks, Delete(h)
    PROVE  IInv'
<1> DEFINE gone(d) == HookOf(d) = h /\ delivery[d].status # "none"
           none    == [NoRow EXCEPT !.status = "deleted"]
<1>1. /\ ~RowsLocked(h)
      /\ hook' = [hook EXCEPT ![h] = "deleted"]
      /\ delivery' = [d \in Deliveries |-> IF gone(d) THEN none ELSE delivery[d]]
      /\ UNCHANGED <<holder, dispatch, job, posts, lost, muted>>
  BY DEF Delete
<1>2. hook'[h] = "deleted" /\ \A g \in Hooks : g # h => hook'[g] = hook[g]
  BY <1>1 DEF IInv, TypeOK
<1>3. \A d \in Deliveries : /\ gone(d) => delivery'[d] = none
                            /\ ~gone(d) => delivery'[d] = delivery[d]
  BY <1>1
<1>4. none.status = "deleted" /\ none.retry = "never" /\ none.attempts = 0 /\ none \in Row
  BY DEF NoRow, Row, MaxAttempts
<1> HIDE DEF none
<1>5. TypeOK'
  BY <1>1, <1>4 DEF IInv, TypeOK
<1>6. Exclusive' /\ DispatchShape'
  BY <1>1 DEF IInv, Exclusive, Running, DispatchShape
<1>7. RowsFollow'
  <2>1. ASSUME NEW d \in Deliveries
        PROVE  /\ dispatch'[EventOf(d)].step # "done" => delivery'[d] = NoRow
               /\ delivery'[d].status = "deleted" => hook'[HookOf(d)] = "deleted"
                                                     /\ delivery'[d].retry = "never"
               /\ hook'[HookOf(d)] = "deleted" => delivery'[d].status \in {"none", "deleted"}
    BY <1>1, <1>2, <1>3, <1>4, Pairs DEF IInv, RowsFollow, NoRow
  <2>2. \A g \in Hooks : hook'[g] = "inactive" => g \in muted'
    BY <1>1, <1>2 DEF IInv, RowsFollow
  <2> QED
    BY <2>1, <2>2 DEF RowsFollow
<1>8. GivenUpForCause'
  BY <1>1, <1>3, <1>4 DEF IInv, GivenUpForCause
<1>9. BatchCurrent'
  <2>1. ASSUME NEW r \in Replicas PROVE Current(job[r], delivery', muted)
    <3>1. /\ job[r].todo \subseteq Deliveries /\ DOMAIN job[r].rows \subseteq Deliveries
          /\ Current(job[r], delivery, muted)
      BY BatchTypes DEF IInv, BatchCurrent
    <3>2. \A d \in DOMAIN job[r].rows : gone(d) => d = job[r].last
      BY <1>1, <3>1 DEF RowsLocked, Written
    <3> QED
      BY <1>3, <1>4, <3>1, <3>2 DEF Current
  <2> QED
    BY <1>1, <2>1 DEF BatchCurrent
<1>10. ASSUME NEW d \in Deliveries PROVE Accounted(d)'
  <2>1. /\ Dispatching(d)' <=> Dispatching(d)
        /\ posts[d] \in Nat /\ lost \in Nat /\ delivery[d] \in Row
    BY <1>1 DEF Dispatching, IInv, TypeOK
  <2>2. CASE gone(d)
    <3>1. InFlight(d) => delivery[d].attempts < MaxAttempts \/ delivery[d].status = "deleted"
      BY DEF InFlight, IInv, BatchCurrent, Current, Retryable
    <3>2. posts[d] <= MaxAttempts + lost
      BY <2>1, <2>2, <3>1 DEF IInv, Accounted, Row, MaxAttempts
    <3> QED
      BY <1>1, <1>3, <1>4, <2>2, <3>2 DEF Accounted
  <2>3. CASE ~gone(d)
    <3>1. InFlight(d)' <=> InFlight(d)
      BY <1>1, <1>3, <2>3 DEF InFlight
    <3> QED
      BY <1>1, <1>3, <2>1, <2>3, <3>1 DEF IInv, Accounted
  <2> QED
    BY <2>2, <2>3
<1> QED
  BY <1>5, <1>6, <1>7, <1>8, <1>9, <1>10 DEF IInv

LEMMA StutterStep ==
    ASSUME IInv, DropDeadSession \/ UNCHANGED vars
    PROVE  IInv'
<1>1. /\ UNCHANGED <<hook, delivery, dispatch, job, posts, lost, muted>>
      /\ holder' = holder \/ (holder = DeadSession /\ holder' = Nobody)
  BY DEF DropDeadSession, DropSession, vars
<1>2. TypeOK'
  BY <1>1 DEF IInv, TypeOK, Holders
<1>3. Exclusive'
  BY <1>1, JobsAssumption DEF IInv, Exclusive, Running, HolderAssumption
<1>4. RowsFollow' /\ DispatchShape' /\ GivenUpForCause'
  BY <1>1 DEF IInv, RowsFollow, DispatchShape, GivenUpForCause
<1>5. BatchCurrent'
  BY <1>1, Frame DEF IInv
<1>6. ASSUME NEW d \in Deliveries PROVE Accounted(d)'
  BY <1>1, Frame DEF IInv, Accounted, Dispatching
<1> QED
  BY <1>2, <1>3, <1>4, <1>5, <1>6 DEF IInv

-----------------------------------------------------------------------------
(* The theorems.                                                           *)

LEMMA NextIInv == IInv /\ [Next]_vars => IInv'
<1> SUFFICES ASSUME IInv, [Next]_vars PROVE IInv'
  OBVIOUS
<1>1. ASSUME NEW e \in Events, LoseDispatch(e) PROVE IInv'
  BY <1>1, DispatchLost DEF LoseDispatch
<1> QED
  BY <1>1, BeginDispatchStep, PostEventStep, CommitDispatchStep, StartJobStep, RetryNextStep,
     CommitJobStep, JobLostStep, ElapseStep, SwitchStep, DeleteStep, StutterStep
     DEF Next, Job

LEMMA Inductive == Spec => []IInv
BY InitIInv, NextIInv, PTL DEF Spec

\* Type correctness.
THEOREM TypeCorrect == Spec => []TypeOK
<1>1. IInv => TypeOK
  BY DEF IInv
<1> QED
  BY <1>1, Inductive, PTL

\* No receiver gets a delivery more than three times, and once more for every
\* batch whose outcomes were lost.
THEOREM AttemptsAreBounded == Spec => []AttemptsBounded
<1>1. IInv => AttemptsBounded
  <2> SUFFICES ASSUME IInv, NEW d \in Deliveries PROVE posts[d] <= MaxAttempts + lost
    BY DEF AttemptsBounded
  <2>1. posts[d] \in Nat /\ lost \in Nat /\ delivery[d] \in Row
    BY DEF IInv, TypeOK
  <2>2. InFlight(d) => delivery[d].attempts < MaxAttempts \/ delivery[d].status = "deleted"
    BY DEF InFlight, IInv, BatchCurrent, Current, Retryable
  <2> QED
    BY <2>1, <2>2 DEF IInv, Accounted, Row, MaxAttempts
<1> QED
  BY <1>1, Inductive, PTL

\* A delivery is given up for good reason only.
THEOREM GivenUpRightly == Spec => []GivenUpForCause
<1>1. IInv => GivenUpForCause
  BY DEF IInv
<1> QED
  BY <1>1, Inductive, PTL

\* A delivery recorded as taken is never sent again, by any replica.
THEOREM TakenForGood == Spec => TakenIsFinal
<1> DEFINE Step == \A d \in Deliveries : delivery[d].status = "success" => posts'[d] = posts[d]
<1>1. IInv /\ [Next]_vars => [Step]_vars
  <2> SUFFICES ASSUME IInv, Next PROVE Step
    OBVIOUS
  <2>1. ASSUME NEW e \in Events, PostEvent(e) PROVE Step
    <3>1. PICK h \in dispatch[e].todo : posts' = [posts EXCEPT ![<<e, h>>] = @ + 1]
      BY <2>1 DEF PostEvent
    <3>2. dispatch[e] \in Progress /\ dispatch[e].step = "sending"
      BY <2>1 DEF IInv, TypeOK, PostEvent
    <3>3. h \in Hooks
      BY <3>2 DEF Progress
    <3>4. delivery[<<e, h>>].status = "none"
      BY <3>2, <3>3, Pairs DEF IInv, RowsFollow, NoRow
    <3> QED
      BY <3>1, <3>4 DEF IInv, TypeOK
  <2>2. ASSUME NEW r \in Replicas, RetryNext(r) PROVE Step
    <3>1. PICK d \in job[r].todo : posts' \in {posts, [posts EXCEPT ![d] = @ + 1]}
      BY <2>2 DEF RetryNext
    <3>2. delivery[d].status # "success"
      BY DEF IInv, BatchCurrent, Current, Retryable
    <3> QED
      BY <3>1, <3>2 DEF IInv, TypeOK
  <2>3. ASSUME NEW e \in Events, BeginDispatch(e) \/ CommitDispatch(e) \/ LoseDispatch(e)
        PROVE  Step
    BY <2>3 DEF BeginDispatch, CommitDispatch, LoseDispatch
  <2>4. ASSUME NEW r \in Replicas, StartJob(r) \/ CommitJob(r) \/ FailJob(r) \/ Crash(r)
        PROVE  Step
    BY <2>4 DEF StartJob, CommitJob, FailJob, Crash
  <2>5. ASSUME NEW d \in Deliveries, Elapse(d) PROVE Step
    BY <2>5 DEF Elapse
  <2>6. ASSUME NEW h \in Hooks, Switch(h) \/ Delete(h) PROVE Step
    BY <2>6 DEF Switch, Delete
  <2>7. CASE DropDeadSession
    BY <2>7 DEF DropDeadSession
  <2> QED
    BY <2>1, <2>2, <2>3, <2>4, <2>5, <2>6, <2>7 DEF Next, Job
<1> QED
  BY <1>1, Inductive, PTL DEF Spec, TakenIsFinal

-----------------------------------------------------------------------------
(* RENT BILLING                                                            *)
(* What holds of every run, whatever overlaps: the types, and that no      *)
(* month is left out. And that neither rent nor late fees are charged      *)
(* twice, provided that no run of the job overlaps one of the staff.       *)

BillSteps == {"look", "post", "mark"}
FeeSteps  == {"look fee", "post fee"}
FeeItem   == FeeCharges \X Months

LEMMA FeeItems == FeeItem \subseteq Item
  BY BillingAssumption DEF FeeItem, Item

-----------------------------------------------------------------------------
(* The steps of a run.                                                      *)

\* What a worker has in hand and what is left are items.
LEMMA RunOf ==
    ASSUME BillingTypeOK, NEW w \in Workers, work[w] # NoRun
    PROVE  work[w] \in Run /\ ItemOf(w) \in Item /\ work[w].todo \in SUBSET Item
  BY DEF BillingTypeOK, Run, ItemOf

LEMMA OldestAmong == \A bills : Oldest(bills) \subseteq bills
  BY DEF Oldest

LEMMA NextAmong == \A w : NextBills(w) \subseteq work[w].todo
  BY DEF NextBills, Oldest

\* Only a worker that has a run takes a step of one.
LEMMA HasRun ==
    ASSUME NEW w, work[w].step \in BillSteps \cup FeeSteps
    PROVE  work[w] # NoRun
<1>1. NoRun.step = "idle"
  BY DEF NoRun
<1> QED
  BY <1>1 DEF BillSteps, FeeSteps

\* The run of w goes on with what it has in hand, ...
GoesOn(w, run, step) ==
    /\ run \in Run /\ run.step = step /\ run.item = ItemOf(w) /\ run.todo = work[w].todo
    /\ UNCHANGED holder

\* ... turns to something else it has to do, or ends.
TurnsTo(w, run, step, next) ==
    /\ run \in Run /\ run.step = step
    /\ run.item \in next /\ run.todo = work[w].todo \ {run.item}
    /\ UNCHANGED holder

LEMMA Proceeds ==
    ASSUME BillingTypeOK, NEW w \in Workers, work[w] # NoRun,
           NEW step \in BillSteps \cup FeeSteps, Proceed(w, step)
    PROVE  \E run : work' = [work EXCEPT ![w] = run] /\ GoesOn(w, run, step)
<1> DEFINE run == [work[w] EXCEPT !.step = step]
<1>1. work' = [work EXCEPT ![w] = run]
  BY DEF Proceed
<1>2. run \in Run /\ run.step = step /\ run.item = work[w].item /\ run.todo = work[w].todo
  BY RunOf DEF Run, BillSteps, FeeSteps
<1> QED
  BY <1>1, <1>2 DEF GoesOn, ItemOf, Proceed

LEMMA Advances ==
    ASSUME BillingTypeOK, NEW w \in Workers, work[w] # NoRun,
           NEW step \in BillSteps \cup FeeSteps, NEW next \in SUBSET work[w].todo,
           Advance(w, step, next)
    PROVE  \/ Finish(w)
           \/ \E run : work' = [work EXCEPT ![w] = run] /\ TurnsTo(w, run, step, next)
<1>1. CASE work[w].todo = {}
  BY <1>1 DEF Advance
<1>2. CASE work[w].todo # {}
  <2>1. PICK item \in next :
          work' = [work EXCEPT ![w] = [step |-> step, asOf |-> work[w].asOf,
                                       item |-> item, todo |-> work[w].todo \ {item}]]
    BY <1>2 DEF Advance
  <2> DEFINE run == [step |-> step, asOf |-> work[w].asOf,
                     item |-> item, todo |-> work[w].todo \ {item}]
  <2>2. run \in Run
    <3>1. work[w].asOf \in Months
      BY RunOf DEF Run
    <3> QED
      BY <3>1, RunOf DEF Run, BillSteps, FeeSteps
  <2>3. TurnsTo(w, run, step, next)
    BY <1>2, <2>2 DEF TurnsTo, Advance
  <2> HIDE DEF run
  <2> QED
    BY <2>1, <2>3 DEF run
<1> QED
  BY <1>1, <1>2

\* What each step of a run makes of it.
LEMMA StepOfRun ==
    ASSUME BillingTypeOK, NEW w \in Workers, BillingStep(w)
    PROVE  /\ work[w] # NoRun
           /\ \/ Finish(w)
              \/ \E run \in Run : work' = [work EXCEPT ![w] = run] /\ UNCHANGED holder
<1>1. work[w].step \in BillSteps \cup FeeSteps
  BY DEF BillingStep, LookUpInvoice, PostInvoice, MarkBilled, LookUpFee, PostFee, Abort, Refused,
         BillSteps, FeeSteps
<1>2. work[w] # NoRun
  BY <1>1, HasRun
<1>3. ASSUME NEW step \in BillSteps \cup FeeSteps, Proceed(w, step)
      PROVE  \E run \in Run : work' = [work EXCEPT ![w] = run] /\ UNCHANGED holder
  BY <1>2, <1>3, Proceeds DEF GoesOn
<1>4. ASSUME NEW step \in BillSteps \cup FeeSteps, NEW next \in SUBSET work[w].todo,
             Advance(w, step, next)
      PROVE  \/ Finish(w)
             \/ \E run \in Run : work' = [work EXCEPT ![w] = run] /\ UNCHANGED holder
  BY <1>2, <1>4, Advances DEF TurnsTo
<1>5. \/ \E step \in BillSteps \cup FeeSteps :
           \/ Proceed(w, step)
           \/ \E next \in SUBSET work[w].todo : Advance(w, step, next)
      \/ Finish(w)
  <2>1. {"look", "post", "mark", "look fee", "post fee"} \subseteq BillSteps \cup FeeSteps
    BY DEF BillSteps, FeeSteps
  <2>2. NextBills(w) \in SUBSET work[w].todo /\ work[w].todo \in SUBSET work[w].todo
    BY NextAmong
  <2>3. CASE LookUpInvoice(w) \/ PostInvoice(w) \/ MarkBilled(w)
    BY <2>1, <2>2, <2>3 DEF LookUpInvoice, PostInvoice, MarkBilled
  <2>4. CASE LookUpFee(w) \/ PostFee(w)
    BY <2>1, <2>2, <2>4 DEF LookUpFee, PostFee
  <2>5. CASE Abort(w)
    BY <2>5 DEF Abort
  <2> QED
    BY <2>3, <2>4, <2>5 DEF BillingStep
<1> QED
  BY <1>2, <1>3, <1>4, <1>5

\* A run that begins has its first item in hand.
LEMMA Begins ==
    ASSUME NEW w \in Workers, NEW step \in BillSteps \cup FeeSteps, NEW asOf \in Months,
           NEW items \in SUBSET Item, NEW first \in SUBSET items,
           Begin(w, step, asOf, items, first)
    PROVE  \E run \in Run :
             /\ work' = [work EXCEPT ![w] = run] /\ work[w] = NoRun
             /\ run.step = step /\ run.item \in first /\ run.todo = items \ {run.item}
             /\ invoice' = invoice /\ charge' = charge
<1>1. PICK item \in first :
        work' = [work EXCEPT ![w] = [step |-> step, asOf |-> asOf,
                                     item |-> item, todo |-> items \ {item}]]
  BY DEF Begin
<1> DEFINE run == [step |-> step, asOf |-> asOf, item |-> item, todo |-> items \ {item}]
<1>2. run \in Run /\ run.step = step /\ run.item = item /\ run.todo = items \ {item}
  BY DEF Run, BillSteps, FeeSteps
<1>3. work' = [work EXCEPT ![w] = run]
  BY <1>1
<1> HIDE DEF run
<1> QED
  BY <1>2, <1>3 DEF Begin, books

\* What a run may be started over, and what comes first.
Agenda(step, asOf, items, first) ==
    \/ step = "look" /\ items = BillsDue(asOf) /\ first = Oldest(items)
    \/ step = "look" /\ first = items /\ \E c \in HandBilled, m \in Months : items = {<<c, m>>}
    \/ step = "look fee" /\ items \subseteq Late(asOf) /\ first = items

\* Every run that is started is one over bills or over late fees.
LEMMA Starting ==
    ASSUME BillingTypeOK,
           \/ \E r \in Replicas : StartBillingJob(r)
           \/ PushRunBilling \/ GenerateInvoice \/ ApplyLateFees
    PROVE  \E w \in Workers, asOf \in Months, items \in SUBSET Item,
              step \in BillSteps \cup FeeSteps :
             /\ w \in Replicas => TryLock(w)
             /\ w = Clerk => UNCHANGED holder
             /\ \E first \in SUBSET items :
                  Begin(w, step, asOf, items, first) /\ Agenda(step, asOf, items, first)
<1>1. \A asOf : BillsDue(asOf) \in SUBSET Item /\ Late(asOf) \in SUBSET Item
  BY DEF BillsDue, Late
<1>2. Clerk \in Workers /\ Clerk \notin Replicas /\ Replicas \subseteq Workers
  BY BillingAssumption DEF Workers
<1>3. "look" \in BillSteps \cup FeeSteps /\ "look fee" \in BillSteps \cup FeeSteps
  BY DEF BillSteps, FeeSteps
<1>4. ASSUME NEW w \in Workers, NEW asOf \in Months, StartBilling(w, asOf)
      PROVE  \E items \in SUBSET Item : \E first \in SUBSET items :
               Begin(w, "look", asOf, items, first) /\ Agenda("look", asOf, items, first)
  <2>1. Begin(w, "look", asOf, BillsDue(asOf), Oldest(BillsDue(asOf)))
    BY <1>4 DEF StartBilling
  <2>2. Oldest(BillsDue(asOf)) \in SUBSET BillsDue(asOf)
    BY OldestAmong
  <2> QED
    BY <1>1, <2>1, <2>2 DEF Agenda
<1>5. CASE \E r \in Replicas : StartBillingJob(r)
  <2>1. PICK r \in Replicas : TryLock(r) /\ StartBilling(r, today)
    BY <1>5 DEF StartBillingJob
  <2> QED
    BY <1>2, <1>3, <1>4, <2>1 DEF BillingTypeOK
<1>6. CASE PushRunBilling
  BY <1>2, <1>3, <1>4, <1>6 DEF PushRunBilling
<1>7. CASE GenerateInvoice
  <2>1. PICK c \in HandBilled, m \in Months : Begin(Clerk, "look", m, {<<c, m>>}, {<<c, m>>})
    BY <1>7 DEF GenerateInvoice
  <2>2. {<<c, m>>} \in SUBSET Item /\ Agenda("look", m, {<<c, m>>}, {<<c, m>>})
    BY BillingAssumption DEF Item, Agenda
  <2> QED
    BY <1>2, <1>3, <1>7, <2>1, <2>2 DEF GenerateInvoice
<1>8. CASE ApplyLateFees
  <2>0. PICK asOf \in Months : \E late \in Reached(asOf) : Begin(Clerk, "look fee", asOf, late, late)
    BY <1>8 DEF ApplyLateFees
  <2>1. PICK late \in Reached(asOf) : Begin(Clerk, "look fee", asOf, late, late)
    BY <2>0
  <2>2. late \subseteq Late(asOf) /\ Agenda("look fee", asOf, late, late)
    BY <2>1 DEF Reached, Agenda
  <2> QED
    BY <1>1, <1>2, <1>3, <1>8, <2>1, <2>2 DEF ApplyLateFees
<1> QED
  BY <1>5, <1>6, <1>7, <1>8

-----------------------------------------------------------------------------
(* Types.                                                                   *)

LEMMA BillingTypeStart == BillingInit => BillingTypeOK
<1> SUFFICES ASSUME BillingInit PROVE BillingTypeOK
  OBVIOUS
<1>1. 1 \in Months /\ 0 \in 0 .. MaxCrashes
  BY BillingAssumption DEF Months
<1>2. (CHOOSE m \in Starts : TRUE) \in Starts /\ (CHOOSE m \in Ends : TRUE) \in Ends
  BY BillingAssumption
<1>3. charge \in [Charges -> Charge]
  BY <1>2 DEF BillingInit, Charge
<1>4. invoice \in [Item -> Invoice]
  BY DEF BillingInit, Invoice
<1> QED
  BY <1>1, <1>3, <1>4 DEF BillingInit, BillingTypeOK, Holders, Workers

\* What the staff does to the charges.
LEMMA EditWrites ==
    ASSUME BillingTypeOK, NEW c \in Charges, UpdateCharge(c) \/ DeleteCharge(c)
    PROVE  \E row \in Charge :
             /\ row.state # "absent" /\ row.billed = charge[c].billed
             /\ c \notin Moved => row.start = charge[c].start
             /\ charge' = [charge EXCEPT ![c] = row]
<1>1. charge[c] \in Charge
  BY DEF BillingTypeOK
<1>2. CASE UpdateCharge(c)
  <2>1. PICK state \in {"active", "inactive"}, last \in Ends,
             first \in IF c \in Moved THEN Starts ELSE {charge[c].start} :
          charge' = [charge EXCEPT ![c].state = state, ![c].start = first, ![c].end = last]
    BY <1>2 DEF UpdateCharge
  <2> DEFINE row == [charge[c] EXCEPT !.state = state, !.start = first, !.end = last]
  <2>2. first \in Starts
    BY <1>1 DEF Charge
  <2>3. /\ row \in Charge /\ row.state # "absent" /\ row.billed = charge[c].billed
        /\ c \notin Moved => row.start = charge[c].start
    BY <1>1, <2>2 DEF Charge
  <2>4. charge' = [charge EXCEPT ![c] = row]
    BY <2>1
  <2> QED
    BY <2>3, <2>4
<1>3. CASE DeleteCharge(c)
  <2> DEFINE row == [charge[c] EXCEPT !.state = "deleted"]
  <2>1. /\ row \in Charge /\ row.state # "absent" /\ row.billed = charge[c].billed
        /\ row.start = charge[c].start
    BY <1>1 DEF Charge
  <2>2. charge' = [charge EXCEPT ![c] = row]
    BY <1>3 DEF DeleteCharge
  <2> QED
    BY <2>1, <2>2
<1> QED
  BY <1>2, <1>3

LEMMA ChargeTypes ==
    ASSUME BillingTypeOK, NEW c \in Charges, CreateCharge(c) \/ UpdateCharge(c) \/ DeleteCharge(c)
    PROVE  \E row \in Charge : charge' = [charge EXCEPT ![c] = row]
<1>1. CASE CreateCharge(c)
  BY <1>1 DEF CreateCharge, Charge
<1> QED
  BY <1>1, EditWrites

\* What posting, charging a fee and settling write to an invoice.
LEMMA InvoiceTypes ==
    ASSUME invoice \in [Item -> Invoice], NEW item \in Item, NEW row \in Invoice,
           invoice' = [invoice EXCEPT ![item] = row]
    PROVE  invoice' \in [Item -> Invoice] /\ invoice'[item] = row
           /\ \A i \in Item \ {item} : invoice'[i] = invoice[i]
OBVIOUS

LEMMA PostWrites ==
    ASSUME BillingTypeOK, NEW w \in Workers, PostInvoice(w)
    PROVE  /\ ItemOf(w) \in Item
           /\ \E row \in Invoice :
                /\ row.copies = invoice[ItemOf(w)].copies + 1 /\ row.status = "open"
                /\ row.fees = invoice[ItemOf(w)].fees
                /\ invoice' = [invoice EXCEPT ![ItemOf(w)] = row]
<1>1. ItemOf(w) \in Item
  <2>1. work[w].step = "post"
    BY DEF PostInvoice
  <2> QED
    BY <2>1, HasRun, RunOf DEF BillSteps
<1>2. invoice[ItemOf(w)] \in Invoice
  BY <1>1 DEF BillingTypeOK
<1> DEFINE row == [copies |-> invoice[ItemOf(w)].copies + 1, status |-> "open",
                   fees |-> invoice[ItemOf(w)].fees]
<1>3. row \in Invoice
  BY <1>2 DEF Invoice
<1>4. invoice' = [invoice EXCEPT ![ItemOf(w)] = row]
  BY DEF PostInvoice
<1> QED
  BY <1>1, <1>3, <1>4

LEMMA FeeWrites ==
    ASSUME BillingTypeOK, NEW w \in Workers, PostFee(w)
    PROVE  /\ ItemOf(w) \in Item
           /\ \E row \in Invoice :
                /\ row.copies = invoice[ItemOf(w)].copies /\ row.status = invoice[ItemOf(w)].status
                /\ row.fees = invoice[ItemOf(w)].fees + 1
                /\ invoice' = [invoice EXCEPT ![ItemOf(w)] = row]
<1>1. ItemOf(w) \in Item
  <2>1. work[w].step = "post fee"
    BY DEF PostFee
  <2> QED
    BY <2>1, HasRun, RunOf DEF FeeSteps
<1>2. invoice[ItemOf(w)] \in Invoice
  BY <1>1 DEF BillingTypeOK
<1> DEFINE row == [invoice[ItemOf(w)] EXCEPT !.fees = @ + 1]
<1>3. row \in Invoice /\ row.copies = invoice[ItemOf(w)].copies
         /\ row.status = invoice[ItemOf(w)].status /\ row.fees = invoice[ItemOf(w)].fees + 1
  BY <1>2 DEF Invoice
<1>4. invoice' = [invoice EXCEPT ![ItemOf(w)] = row]
  BY DEF PostFee
<1> QED
  BY <1>1, <1>3, <1>4

LEMMA SettleWrites ==
    ASSUME BillingTypeOK, NEW item \in Item, SettleInvoice(item)
    PROVE  \E row \in Invoice :
             /\ row.copies = invoice[item].copies /\ row.fees = invoice[item].fees
             /\ row.status \in {"paid", "void"}
             /\ invoice' = [invoice EXCEPT ![item] = row]
<1>0. PICK status \in {"paid", "void"} : invoice' = [invoice EXCEPT ![item].status = status]
  BY DEF SettleInvoice
<1> DEFINE row == [invoice[item] EXCEPT !.status = status]
<1>1. invoice[item] \in Invoice
  BY DEF BillingTypeOK
<1>2. row \in Invoice /\ row.copies = invoice[item].copies /\ row.fees = invoice[item].fees
         /\ row.status \in {"paid", "void"}
  BY <1>0, <1>1 DEF Invoice
<1>3. invoice' = [invoice EXCEPT ![item] = row]
  BY <1>0
<1> QED
  BY <1>2, <1>3

\* The month a run has done is recorded.
LEMMA MarkWrites ==
    ASSUME BillingTypeOK, NEW w \in Workers, MarkBilled(w)
    PROVE  /\ ItemOf(w) \in Item /\ ItemOf(w)[1] \in Charges
           /\ \E row \in Charge :
                /\ row.state = charge[ItemOf(w)[1]].state /\ row.start = charge[ItemOf(w)[1]].start
                /\ row.billed = ItemOf(w)[2]
                /\ charge' = [charge EXCEPT ![ItemOf(w)[1]] = row]
<1>1. ItemOf(w) \in Item
  <2>1. work[w].step = "mark"
    BY DEF MarkBilled
  <2> QED
    BY <2>1, HasRun, RunOf DEF BillSteps
<1>2. ItemOf(w)[1] \in Charges /\ ItemOf(w)[2] \in Months
  BY <1>1 DEF Item
<1> DEFINE c == ItemOf(w)[1]
           row == [charge[c] EXCEPT !.billed = ItemOf(w)[2]]
<1>3. charge[c] \in Charge
  BY <1>2 DEF BillingTypeOK
<1>4. row \in Charge /\ row.state = charge[c].state /\ row.start = charge[c].start
         /\ row.billed = ItemOf(w)[2]
  BY <1>2, <1>3 DEF Charge
<1>5. charge' = [charge EXCEPT ![c] = row]
  BY DEF MarkBilled, RecordBilled
<1> QED
  BY <1>1, <1>2, <1>4, <1>5

\* What happens to the runs and the lock.
WorkTyped ==
    /\ work \in [Workers -> {NoRun} \cup Run]
    /\ \A r \in Replicas : work[r] # NoRun => holder = r
    /\ holder \in Holders

LEMMA RunEnds ==
    ASSUME WorkTyped, NEW w \in Workers, work[w] # NoRun, Finish(w)
    PROVE  WorkTyped'
BY DEF WorkTyped, Finish, Unlock, Holders

LEMMA RunGoesOn ==
    ASSUME WorkTyped, NEW w \in Workers, work[w] # NoRun, NEW run \in Run,
           work' = [work EXCEPT ![w] = run], UNCHANGED holder
    PROVE  WorkTyped'
BY DEF WorkTyped, Workers

LEMMA RunBegins ==
    ASSUME WorkTyped, NEW w \in Workers, NEW run \in Run, work' = [work EXCEPT ![w] = run],
           w \in Replicas => TryLock(w), w = Clerk => UNCHANGED holder
    PROVE  WorkTyped'
<1>1. CASE w \in Replicas
  BY <1>1, BillingAssumption DEF WorkTyped, Workers, TryLock, Holders, HolderAssumption
<1>2. CASE w = Clerk
  BY <1>2, BillingAssumption DEF WorkTyped, Workers
<1> QED
  BY <1>1, <1>2 DEF Workers

LEMMA RunDies ==
    ASSUME WorkTyped, NEW w \in Workers, CrashRun(w)
    PROVE  WorkTyped'
BY DEF WorkTyped, CrashRun, LoseSession, Holders

LEMMA WorkTypes ==
    ASSUME BillingTypeOK, [BillingNext]_billingVars
    PROVE  WorkTyped'
<1>1. WorkTyped
  BY DEF BillingTypeOK, WorkTyped
<1>2. ASSUME \/ \E r \in Replicas : StartBillingJob(r)
             \/ PushRunBilling \/ GenerateInvoice \/ ApplyLateFees
      PROVE  WorkTyped'
  <2>1. PICK w \in Workers, asOf \in Months, items \in SUBSET Item,
              step \in BillSteps \cup FeeSteps :
          /\ w \in Replicas => TryLock(w)
          /\ w = Clerk => UNCHANGED holder
          /\ \E first \in SUBSET items : Begin(w, step, asOf, items, first)
    BY <1>2, Starting
  <2>2. PICK run \in Run : work' = [work EXCEPT ![w] = run]
    BY <2>1, Begins
  <2> QED
    BY <1>1, <2>1, <2>2, RunBegins
<1>3. ASSUME NEW w \in Workers, BillingStep(w) PROVE WorkTyped'
  BY <1>1, <1>3, StepOfRun, RunEnds, RunGoesOn
<1>4. ASSUME NEW w \in Workers, CrashRun(w) PROVE WorkTyped'
  BY <1>1, <1>4, RunDies
<1>5. CASE ExpireSession
  BY <1>1, <1>5, BillingAssumption DEF ExpireSession, DropSession, WorkTyped, Holders, HolderAssumption
<1>6. CASE UNCHANGED <<work, holder>>
  BY <1>1, <1>6 DEF WorkTyped
<1> QED
  BY <1>2, <1>3, <1>4, <1>5, <1>6
     DEF BillingNext, billingVars, CreateCharge, UpdateCharge, DeleteCharge, ChangeOccupants, NextMonth,
         ChangePeriod, SettleInvoice

\* Every step keeps the types, whatever overlaps.
LEMMA BillingTypeNext ==
    ASSUME BillingTypeOK, [BillingNext]_billingVars
    PROVE  BillingTypeOK'
<1>w. WorkTyped'
  BY WorkTypes
<1> DEFINE Rest == /\ today' \in Months /\ closed' \subseteq Closable
                   /\ occupied' \in [Charges -> BOOLEAN]
                   /\ charge' \in [Charges -> Charge] /\ invoice' \in [Item -> Invoice]
                   /\ crashes' \in 0 .. MaxCrashes
<1> SUFFICES Rest
  BY <1>w DEF BillingTypeOK, WorkTyped
<1>1. ASSUME NEW c \in Charges, CreateCharge(c) \/ UpdateCharge(c) \/ DeleteCharge(c) PROVE Rest
  <2>1. PICK row \in Charge : charge' = [charge EXCEPT ![c] = row]
    BY <1>1, ChargeTypes
  <2>2. charge' \in [Charges -> Charge]
    BY <2>1 DEF BillingTypeOK
  <2> QED
    BY <1>1, <2>2 DEF CreateCharge, UpdateCharge, DeleteCharge, books, BillingTypeOK
<1>2. ASSUME \/ \E r \in Replicas : StartBillingJob(r)
             \/ PushRunBilling \/ GenerateInvoice \/ ApplyLateFees
      PROVE  Rest
  <2>1. PICK w \in Workers : \E step, asOf, items, first : Begin(w, step, asOf, items, first)
    BY <1>2, Starting
  <2> QED
    BY <2>1 DEF Begin, books, BillingTypeOK
<1>3. ASSUME NEW w \in Workers, BillingStep(w) PROVE Rest
  <2>1. CASE PostInvoice(w)
    <3>1. PICK row \in Invoice : ItemOf(w) \in Item /\ invoice' = [invoice EXCEPT ![ItemOf(w)] = row]
      BY <2>1, PostWrites
    <3>2. invoice' \in [Item -> Invoice]
      BY <3>1 DEF BillingTypeOK
    <3> QED
      BY <2>1, <3>2 DEF PostInvoice, BillingTypeOK
  <2>2. CASE PostFee(w)
    <3>1. PICK row \in Invoice : ItemOf(w) \in Item /\ invoice' = [invoice EXCEPT ![ItemOf(w)] = row]
      BY <2>2, FeeWrites
    <3>2. invoice' \in [Item -> Invoice]
      BY <3>1 DEF BillingTypeOK
    <3> QED
      BY <2>2, <3>2 DEF PostFee, BillingTypeOK
  <2>3. CASE MarkBilled(w)
    <3>1. PICK row \in Charge :
            ItemOf(w)[1] \in Charges /\ charge' = [charge EXCEPT ![ItemOf(w)[1]] = row]
      BY <2>3, MarkWrites
    <3>2. charge' \in [Charges -> Charge]
      BY <3>1 DEF BillingTypeOK
    <3> QED
      BY <2>3, <3>2 DEF MarkBilled, books, BillingTypeOK
  <2>4. CASE LookUpInvoice(w) \/ LookUpFee(w) \/ Abort(w)
    BY <2>4 DEF LookUpInvoice, LookUpFee, Abort, books, BillingTypeOK
  <2> QED
    BY <1>3, <2>1, <2>2, <2>3, <2>4 DEF BillingStep
<1>4. ASSUME NEW w \in Workers, CrashRun(w) PROVE Rest
  <2>1. crashes' \in 0 .. MaxCrashes
    BY <1>4, BillingAssumption DEF CrashRun, BillingTypeOK
  <2> QED
    BY <1>4, <2>1 DEF CrashRun, books, BillingTypeOK
<1>5. ASSUME NEW item \in FeeCharges \X Months, SettleInvoice(item) PROVE Rest
  <2>1. item \in Item
    BY FeeItems DEF FeeItem
  <2>2. PICK row \in Invoice : invoice' = [invoice EXCEPT ![item] = row]
    BY <1>5, <2>1, SettleWrites
  <2>3. invoice' \in [Item -> Invoice]
    BY <2>1, <2>2 DEF BillingTypeOK
  <2> QED
    BY <1>5, <2>3 DEF SettleInvoice, BillingTypeOK
<1>6. CASE NextMonth
  <2>1. today' \in Months
    BY <1>6, BillingAssumption DEF NextMonth, BillingTypeOK, Months
  <2> QED
    BY <1>6, <2>1 DEF NextMonth, books, BillingTypeOK
<1>7. ASSUME NEW m \in Closable, ChangePeriod(m) PROVE Rest
  BY <1>7 DEF ChangePeriod, ClosePeriod, ReopenPeriod, BillingTypeOK
<1>8. ASSUME NEW c \in Charges, ChangeOccupants(c) PROVE Rest
  BY <1>8 DEF ChangeOccupants, BillingTypeOK
<1>9. CASE ExpireSession \/ UNCHANGED billingVars
  BY <1>9 DEF ExpireSession, billingVars, books, BillingTypeOK
<1> QED
  BY <1>1, <1>2, <1>3, <1>4, <1>5, <1>6, <1>7, <1>8, <1>9, BillingAssumption DEF BillingNext

\* The types hold whatever overlaps, and the job runs on the replica with its lock.
THEOREM BillingTypeCorrect == BillingSpec => []BillingTypeOK
<1>1. BillingTypeOK /\ [BillingNext]_billingVars => BillingTypeOK'
  BY BillingTypeNext
<1> QED
  BY <1>1, BillingTypeStart, PTL DEF BillingSpec

-----------------------------------------------------------------------------
(* One run at a time.                                                       *)

\* The job does not run beside the staff; it runs on one replica, as it has the lock.
OneRun ==
    /\ BillingTypeOK
    /\ work[Clerk] # NoRun => \A r \in Replicas : work[r] = NoRun

\* So at most one worker has a run.
LEMMA OneWorker ==
    ASSUME OneRun, NEW v \in Workers, NEW w \in Workers, work[v] # NoRun, work[w] # NoRun
    PROVE  v = w
BY DEF OneRun, BillingTypeOK, Workers

LEMMA OneRunNext ==
    ASSUME OneRun, ~Overlap, [BillingNext]_billingVars
    PROVE  OneRun'
<1>t. BillingTypeOK /\ BillingTypeOK'
  BY BillingTypeNext DEF OneRun
<1> DEFINE Apart == work'[Clerk] # NoRun => \A r \in Replicas : work'[r] = NoRun
<1> SUFFICES Apart
  BY <1>t DEF OneRun
<1>1. ASSUME \/ \E r \in Replicas : StartBillingJob(r)
             \/ PushRunBilling \/ GenerateInvoice \/ ApplyLateFees
      PROVE  Apart
  <2>1. PICK w \in Workers : \E step, asOf, items, first : Begin(w, step, asOf, items, first)
    BY <1>1, <1>t, Starting
  <2>2. /\ w \in Replicas => work[Clerk] = NoRun
        /\ w = Clerk => \A r \in Replicas : work[r] = NoRun
        /\ \E run : work' = [work EXCEPT ![w] = run]
    BY <2>1 DEF Begin
  <2>3. Clerk \notin Replicas
    BY BillingAssumption
  <2> QED
    BY <1>t, <2>2, <2>3 DEF BillingTypeOK, Workers
<1>2. ASSUME NEW w \in Workers, BillingStep(w) \/ CrashRun(w) PROVE Apart
  <2>1. work[w] # NoRun /\ \E run : work' = [work EXCEPT ![w] = run]
    BY <1>2, <1>t, StepOfRun DEF CrashRun, Finish
  <2> QED
    BY <2>1 DEF OneRun, BillingTypeOK, Workers
<1>3. CASE UNCHANGED work
  BY <1>3 DEF OneRun
<1> QED
  BY <1>1, <1>2, <1>3
     DEF BillingNext, billingVars, CreateCharge, UpdateCharge, DeleteCharge, ChangeOccupants, NextMonth,
         ChangePeriod, SettleInvoice, ExpireSession

-----------------------------------------------------------------------------
(* Nothing is charged twice.                                                *)

\* What a run does next, it has looked up: the month it posts has no invoice, and
\* the one it posts a fee for has no fee. A run over late fees works on rent invoices
\* of charges with a policy.
LookedUp(w) ==
    /\ work[w].step = "post" => invoice[ItemOf(w)].copies = 0
    /\ work[w].step = "post fee" => invoice[ItemOf(w)].fees = 0

Pending(w) == {ItemOf(w)} \cup work[w].todo

FeesDue(w) ==
    work[w].step \in FeeSteps =>
        \A item \in Pending(w) : item \in FeeItem /\ invoice[item].copies > 0

InvoicesOnce ==
    \A item \in Item :
      /\ invoice[item].copies <= 1 /\ invoice[item].fees <= 1
      /\ invoice[item].status = "open" => invoice[item].copies > 0
      /\ invoice[item].fees > 0 => invoice[item].copies > 0 /\ item[1] \in FeeCharges

ChargeInv ==
    OneRun /\ InvoicesOnce /\ \A w \in Workers : LookedUp(w) /\ FeesDue(w)

\* A run that begins.
LEMMA ChargeStarts ==
    ASSUME ChargeInv, \/ \E r \in Replicas : StartBillingJob(r)
                      \/ PushRunBilling \/ GenerateInvoice \/ ApplyLateFees
    PROVE  InvoicesOnce' /\ \A v \in Workers : LookedUp(v)' /\ FeesDue(v)'
<1>t. BillingTypeOK
  BY DEF ChargeInv, OneRun
<1>1. PICK w \in Workers, asOf \in Months, items \in SUBSET Item,
            step \in BillSteps \cup FeeSteps :
        \E first \in SUBSET items :
          Begin(w, step, asOf, items, first) /\ Agenda(step, asOf, items, first)
  BY <1>t, Starting
<1>2. PICK first \in SUBSET items :
        Begin(w, step, asOf, items, first) /\ Agenda(step, asOf, items, first)
  BY <1>1
<1>b. Begin(w, step, asOf, items, first)
  BY <1>2
<1>3. PICK run \in Run :
        /\ work' = [work EXCEPT ![w] = run] /\ work[w] = NoRun
        /\ run.step = step /\ run.item \in first /\ run.todo = items \ {run.item}
        /\ invoice' = invoice /\ charge' = charge
  BY <1>b, Begins
<1>4. step \in {"look", "look fee"}
  BY <1>2 DEF Agenda
<1>5. \A v \in Workers : work'[v] = IF v = w THEN run ELSE work[v]
  BY <1>3, <1>t DEF BillingTypeOK
<1>6. InvoicesOnce'
  BY <1>3 DEF ChargeInv, InvoicesOnce
<1>7. LookedUp(w)' /\ FeesDue(w)'
  <2>1. work'[w] = run /\ run.step \in {"look", "look fee"}
    BY <1>3, <1>4, <1>5
  <2>2. ASSUME run.step = "look fee", NEW item \in items
        PROVE  item \in FeeItem /\ invoice[item].copies > 0
    <3>1. item \in Late(asOf)
      BY <2>2, <1>2, <1>3 DEF Agenda
    <3>2. item \in FeeItem
      BY <3>1 DEF Late, FeeItem, Item
    <3> QED
      BY <3>1, <3>2 DEF Late, ChargeInv, InvoicesOnce
  <2>3. FeesDue(w)'
    BY <1>3, <1>4, <2>1, <2>2 DEF FeesDue, FeeSteps, Pending, ItemOf
  <2> QED
    BY <2>1, <2>3 DEF LookedUp
<1>8. ASSUME NEW v \in Workers, v # w PROVE LookedUp(v)' /\ FeesDue(v)'
  <2>1. work'[v] = work[v] /\ invoice' = invoice
    BY <1>3, <1>5, <1>8
  <2>2. LookedUp(v) /\ FeesDue(v)
    BY DEF ChargeInv
  <2> QED
    BY <2>1, <2>2 DEF LookedUp, FeesDue, Pending, ItemOf
<1> QED
  BY <1>6, <1>7, <1>8

\* A run that goes on or ends is the only one, so nothing else need be looked at.
LEMMA ChargeFollows ==
    ASSUME ChargeInv, NEW w \in Workers, work[w] # NoRun, NEW run,
           work' = [work EXCEPT ![w] = run],
           run # NoRun => LookedUp(w)' /\ FeesDue(w)'
    PROVE  \A v \in Workers : LookedUp(v)' /\ FeesDue(v)'
<1>1. \A v \in Workers : work'[v] = IF v = w THEN run ELSE work[v]
  BY DEF ChargeInv, OneRun, BillingTypeOK
<1>2. \A v \in Workers : v # w => work'[v] = NoRun
  BY <1>1, OneWorker DEF ChargeInv
<1>3. NoRun.step = "idle"
  BY DEF NoRun
<1>4. ASSUME NEW v \in Workers, work'[v] = NoRun
      PROVE  LookedUp(v)' /\ FeesDue(v)'
  BY <1>3, <1>4 DEF LookedUp, FeesDue, FeeSteps
<1> QED
  BY <1>1, <1>2, <1>4

\* The rent: looked for, posted, recorded.
LEMMA RentStep ==
    ASSUME ChargeInv, NEW w \in Workers, LookUpInvoice(w) \/ PostInvoice(w) \/ MarkBilled(w)
    PROVE  InvoicesOnce' /\ \A v \in Workers : LookedUp(v)' /\ FeesDue(v)'
<1>t. BillingTypeOK
  BY DEF ChargeInv, OneRun
<1>1. work[w] # NoRun
  BY HasRun DEF LookUpInvoice, PostInvoice, MarkBilled, BillSteps
<1>2. {"look", "post", "mark"} \subseteq BillSteps \cup FeeSteps
  BY DEF BillSteps
<1>3. PICK run :
        /\ work' = [work EXCEPT ![w] = run]
        /\ \/ run = NoRun
           \/ run.step \in {"look", "mark"}
           \/ /\ run.step = "post" /\ run.item = ItemOf(w)
              /\ LookUpInvoice(w) /\ ~InvoiceExists(ItemOf(w))
  <2>1. CASE LookUpInvoice(w) /\ ~InvoiceExists(ItemOf(w))
    <3>1. Proceed(w, "post")
      BY <2>1 DEF LookUpInvoice
    <3> QED
      BY <1>t, <1>1, <1>2, <2>1, <3>1, Proceeds DEF GoesOn
  <2>2. CASE PostInvoice(w)
    <3>1. Proceed(w, "mark")
      BY <2>2 DEF PostInvoice
    <3> QED
      BY <1>t, <1>1, <1>2, <3>1, Proceeds DEF GoesOn
  <2>3. CASE MarkBilled(w) \/ (LookUpInvoice(w) /\ InvoiceExists(ItemOf(w)))
    <3>1. Advance(w, "look", NextBills(w))
      BY <2>3 DEF MarkBilled, LookUpInvoice
    <3> QED
      BY <1>t, <1>1, <1>2, <3>1, NextAmong, Advances DEF TurnsTo, Finish
  <2> QED
    BY <2>1, <2>2, <2>3
<1>4. InvoicesOnce'
  <2>1. CASE LookUpInvoice(w) \/ MarkBilled(w)
    BY <2>1 DEF LookUpInvoice, MarkBilled, books, ChargeInv, InvoicesOnce
  <2>2. CASE PostInvoice(w)
    <3>1. PICK row \in Invoice :
            /\ ItemOf(w) \in Item
            /\ row.copies = invoice[ItemOf(w)].copies + 1 /\ row.fees = invoice[ItemOf(w)].fees
            /\ invoice' = [invoice EXCEPT ![ItemOf(w)] = row]
      BY <1>t, <2>2, PostWrites
    <3>0. invoice[ItemOf(w)].copies = 0
      BY <2>2 DEF PostInvoice, ChargeInv, LookedUp
    <3>2. row.copies = 1
      BY <3>0, <3>1
    <3>3. invoice'[ItemOf(w)] = row /\ \A item \in Item \ {ItemOf(w)} : invoice'[item] = invoice[item]
      BY <1>t, <3>1 DEF BillingTypeOK
    <3> QED
      BY <3>1, <3>2, <3>3 DEF ChargeInv, InvoicesOnce
  <2> QED
    BY <2>1, <2>2
<1>5. run # NoRun => LookedUp(w)' /\ FeesDue(w)'
  <2> SUFFICES ASSUME run # NoRun PROVE LookedUp(w)' /\ FeesDue(w)'
    OBVIOUS
  <2>1. work'[w] = run
    BY <1>3, <1>t DEF BillingTypeOK
  <2>2. FeesDue(w)'
    BY <1>3, <2>1 DEF FeesDue, FeeSteps
  <2>3. ASSUME run.step = "post" PROVE invoice'[ItemOf(w)'].copies = 0
    <3>1. ItemOf(w)' = ItemOf(w) /\ ~InvoiceExists(ItemOf(w)) /\ invoice' = invoice
      BY <1>3, <2>1, <2>3 DEF ItemOf, LookUpInvoice, books
    <3>2. invoice[ItemOf(w)] \in Invoice
      BY <1>t, <1>1, RunOf DEF BillingTypeOK
    <3> QED
      BY <3>1, <3>2 DEF InvoiceExists, Invoice
  <2> QED
    BY <1>3, <2>1, <2>2, <2>3 DEF LookedUp
<1> QED
  BY <1>1, <1>3, <1>4, <1>5, ChargeFollows

\* The late fees: looked for, posted.
LEMMA FeeStep ==
    ASSUME ChargeInv, NEW w \in Workers, LookUpFee(w) \/ PostFee(w)
    PROVE  InvoicesOnce' /\ \A v \in Workers : LookedUp(v)' /\ FeesDue(v)'
<1>t. BillingTypeOK
  BY DEF ChargeInv, OneRun
<1>1. work[w] # NoRun /\ work[w].step \in FeeSteps
  BY HasRun DEF LookUpFee, PostFee, FeeSteps
<1>2. {"look fee", "post fee"} \subseteq BillSteps \cup FeeSteps
  BY DEF FeeSteps
<1>3. \A item \in Pending(w) : item \in FeeItem /\ item \in Item /\ invoice[item].copies > 0
  BY <1>1, FeeItems DEF ChargeInv, FeesDue
<1>4. PICK run :
        /\ work' = [work EXCEPT ![w] = run]
        /\ \/ run = NoRun
           \/ /\ run.step = "post fee" /\ run.item = ItemOf(w) /\ run.todo = work[w].todo
              /\ LookUpFee(w) /\ ~FeeExists(ItemOf(w))
           \/ /\ run.step = "look fee"
              /\ run.item \in work[w].todo /\ run.todo \subseteq work[w].todo
  <2>1. CASE LookUpFee(w) /\ ~FeeExists(ItemOf(w))
    <3>1. Proceed(w, "post fee")
      BY <2>1 DEF LookUpFee
    <3>2. "post fee" \in BillSteps \cup FeeSteps
      BY <1>2
    <3>3. PICK run : work' = [work EXCEPT ![w] = run] /\ GoesOn(w, run, "post fee")
      BY <1>t, <1>1, <3>1, <3>2, Proceeds
    <3> QED
      BY <2>1, <3>3 DEF GoesOn
  <2>2. CASE PostFee(w) \/ (LookUpFee(w) /\ FeeExists(ItemOf(w)))
    <3>1. Advance(w, "look fee", work[w].todo)
      BY <2>2 DEF PostFee, LookUpFee
    <3>2. "look fee" \in BillSteps \cup FeeSteps /\ work[w].todo \in SUBSET work[w].todo
      BY <1>2
    <3>3. \/ Finish(w)
          \/ \E run : work' = [work EXCEPT ![w] = run] /\ TurnsTo(w, run, "look fee", work[w].todo)
      BY <1>t, <1>1, <3>1, <3>2, Advances
    <3> QED
      BY <3>3 DEF TurnsTo, Finish
  <2> QED
    BY <2>1, <2>2
<1>5. InvoicesOnce' /\ \A item \in Item : invoice'[item].copies = invoice[item].copies
  <2>1. CASE LookUpFee(w)
    BY <2>1 DEF LookUpFee, books, ChargeInv, InvoicesOnce
  <2>2. CASE PostFee(w)
    <3>1. PICK row \in Invoice :
            /\ ItemOf(w) \in Item
            /\ row.copies = invoice[ItemOf(w)].copies /\ row.status = invoice[ItemOf(w)].status
            /\ row.fees = invoice[ItemOf(w)].fees + 1
            /\ invoice' = [invoice EXCEPT ![ItemOf(w)] = row]
      BY <1>t, <2>2, FeeWrites
    <3>0. invoice[ItemOf(w)].fees = 0
      BY <2>2 DEF PostFee, ChargeInv, LookedUp
    <3>2. row.fees = 1
      BY <3>0, <3>1
    <3>3. ItemOf(w)[1] \in FeeCharges /\ invoice[ItemOf(w)].copies > 0
      BY <1>3 DEF Pending, FeeItem
    <3>4. invoice'[ItemOf(w)] = row /\ \A item \in Item \ {ItemOf(w)} : invoice'[item] = invoice[item]
      BY <1>t, <3>1 DEF BillingTypeOK
    <3> QED
      BY <3>1, <3>2, <3>3, <3>4 DEF ChargeInv, InvoicesOnce
  <2> QED
    BY <2>1, <2>2
<1>6. run # NoRun => LookedUp(w)' /\ FeesDue(w)'
  <2> SUFFICES ASSUME run # NoRun PROVE LookedUp(w)' /\ FeesDue(w)'
    OBVIOUS
  <2>1. work'[w] = run
    BY <1>4, <1>t DEF BillingTypeOK
  <2>2. Pending(w)' \subseteq Pending(w)
    BY <1>4, <2>1 DEF Pending, ItemOf
  <2>3. FeesDue(w)'
    BY <1>3, <1>5, <2>2 DEF FeesDue
  <2>4. ASSUME run.step = "post fee" PROVE invoice'[ItemOf(w)'].fees = 0
    <3>1. ItemOf(w)' = ItemOf(w) /\ ~FeeExists(ItemOf(w)) /\ invoice' = invoice
      BY <1>4, <2>1, <2>4 DEF ItemOf, LookUpFee, books
    <3>2. invoice[ItemOf(w)] \in Invoice
      BY <1>t, <1>1, RunOf DEF BillingTypeOK
    <3> QED
      BY <3>1, <3>2 DEF FeeExists, Invoice
  <2> QED
    BY <1>4, <2>1, <2>3, <2>4 DEF LookedUp
<1> QED
  BY <1>1, <1>4, <1>5, <1>6, ChargeFollows

\* Every step keeps what is charged.
LEMMA ChargeNext ==
    ASSUME ChargeInv, ~Overlap, [BillingNext]_billingVars
    PROVE  ChargeInv'
<1> DEFINE Goal == InvoicesOnce' /\ \A v \in Workers : LookedUp(v)' /\ FeesDue(v)'
<1> SUFFICES Goal
  BY OneRunNext DEF ChargeInv
<1>t. BillingTypeOK
  BY DEF ChargeInv, OneRun
<1>1. CASE (\E r \in Replicas : StartBillingJob(r)) \/ PushRunBilling \/ GenerateInvoice \/ ApplyLateFees
  BY <1>1, ChargeStarts
<1>2. ASSUME NEW w \in Workers, Abort(w) \/ CrashRun(w)
      PROVE  Goal
  <2>1. work[w] # NoRun
    BY <1>2, HasRun DEF Abort, Refused, CrashRun, BillSteps, FeeSteps
  <2>2. work' = [work EXCEPT ![w] = NoRun] /\ UNCHANGED invoice
    BY <1>2 DEF Abort, CrashRun, Finish, books
  <2>3. InvoicesOnce'
    BY <2>2 DEF ChargeInv, InvoicesOnce
  <2> QED
    BY <2>1, <2>2, <2>3, ChargeFollows
<1>3. ASSUME NEW w \in Workers, BillingStep(w)
      PROVE  Goal
  BY <1>2, <1>3, RentStep, FeeStep DEF BillingStep
<1>4. ASSUME NEW item \in FeeCharges \X Months, SettleInvoice(item)
      PROVE  Goal
  <2>1. item \in Item
    BY FeeItems DEF FeeItem
  <2>2. PICK row \in Invoice :
          /\ row.copies = invoice[item].copies /\ row.fees = invoice[item].fees
          /\ row.status \in {"paid", "void"}
          /\ invoice' = [invoice EXCEPT ![item] = row]
    BY <1>t, <1>4, <2>1, SettleWrites
  <2>3. invoice'[item] = row /\ \A i \in Item \ {item} : invoice'[i] = invoice[i]
    BY <1>t, <2>1, <2>2 DEF BillingTypeOK
  <2>4. \A i \in Item : /\ invoice'[i].copies = invoice[i].copies
                        /\ invoice'[i].fees = invoice[i].fees
    BY <2>1, <2>2, <2>3
  <2>5. InvoicesOnce'
    BY <2>1, <2>2, <2>3 DEF ChargeInv, InvoicesOnce
  <2>6. ASSUME NEW v \in Workers PROVE LookedUp(v)' /\ FeesDue(v)'
    <3>1. work' = work
      BY <1>4 DEF SettleInvoice
    <3>2. LookedUp(v) /\ FeesDue(v)
      BY DEF ChargeInv
    <3>3. FeesDue(v)'
      BY <2>4, <3>1, <3>2, FeeItems DEF FeesDue, Pending, ItemOf
    <3>4. work[v].step \in {"post", "post fee"} => ItemOf(v) \in Item
      BY <1>t, HasRun, RunOf DEF BillSteps, FeeSteps
    <3>5. LookedUp(v)'
      BY <2>4, <3>1, <3>2, <3>4 DEF LookedUp, ItemOf
    <3> QED
      BY <3>3, <3>5
  <2> QED
    BY <2>5, <2>6
<1>5. CASE UNCHANGED <<work, invoice>>
  BY <1>5 DEF ChargeInv, InvoicesOnce, LookedUp, FeesDue, Pending, ItemOf
<1> QED
  BY <1>1, <1>2, <1>3, <1>4, <1>5
     DEF BillingNext, billingVars, books, CreateCharge, UpdateCharge, DeleteCharge, ChangeOccupants, NextMonth,
         ChangePeriod, ExpireSession

\* At the start nothing is charged.
LEMMA ChargeInit == BillingInit => ChargeInv
<1> SUFFICES ASSUME BillingInit PROVE ChargeInv
  OBVIOUS
<1>1. NoRun.step = "idle"
  BY DEF NoRun
<1>2. OneRun
  BY BillingTypeStart DEF BillingInit, OneRun, Workers
<1>3. InvoicesOnce
  BY DEF BillingInit, InvoicesOnce
<1>4. \A w \in Workers : LookedUp(w) /\ FeesDue(w)
  BY <1>1 DEF BillingInit, LookedUp, FeesDue, FeeSteps
<1> QED
  BY <1>2, <1>3, <1>4 DEF ChargeInv

\* As long as no run of the job overlaps one of the staff, no month of a charge gets
\* two invoices and no invoice two late fees.
THEOREM ChargedOnceCorrect == ~Overlap => (BillingSpec => []ChargedOnce)
<1>1. ~Overlap /\ ChargeInv /\ [BillingNext]_billingVars => ChargeInv'
  BY ChargeNext
<1>2. ChargeInv => ChargedOnce
  <2> SUFFICES ASSUME ChargeInv PROVE ChargedOnce
    OBVIOUS
  <2>1. \A item \in Item : invoice[item].copies \in Nat /\ invoice[item].fees \in Nat
    BY DEF ChargeInv, OneRun, BillingTypeOK, Invoice
  <2> QED
    BY <2>1 DEF ChargeInv, InvoicesOnce, ChargedOnce, BilledOnce, FeeOnce, InvoiceExists
<1> SUFFICES ASSUME ~Overlap PROVE BillingSpec => []ChargedOnce
  OBVIOUS
<1>3. ChargeInv /\ [BillingNext]_billingVars => ChargeInv'
  BY <1>1
<1> QED
  BY <1>2, <1>3, ChargeInit, PTL DEF BillingSpec

-----------------------------------------------------------------------------
(* No month is left out.                                                    *)

\* The charges only runs bill, from a start that is not moved.
Steady == Charges \ (HandBilled \cup Moved)

\* What a run has before it: every month of the charge before the item has its
\* invoice, or has its turn before.
NoneSkipped(w, item) ==
    /\ charge[item[1]].state # "absent"
    /\ charge[item[1]].start # 0 =>
         /\ charge[item[1]].start <= item[2]
         /\ \A n \in charge[item[1]].start .. item[2] - 1 :
              InvoiceExists(<<item[1], n>>) \/ <<item[1], n>> \in Pending(w)

\* A run over bills takes the months of a charge in their order.
InOrder(w) ==
    work[w].step \in BillSteps =>
      /\ \A item \in Pending(w) : item[1] \in Steady => NoneSkipped(w, item)
      /\ \A item \in work[w].todo : item[1] = ItemOf(w)[1] => ItemOf(w)[2] < item[2]
      /\ work[w].step = "mark" => InvoiceExists(ItemOf(w))

\* The invoices of a charge go from its start, if it has one, without a gap.
GapFree(c, m) ==
    /\ charge[c].state # "absent"
    /\ charge[c].start # 0 =>
         charge[c].start <= m /\ \A n \in charge[c].start .. m : InvoiceExists(<<c, n>>)

FromStart(c) ==
    /\ \A m \in Months : InvoiceExists(<<c, m>>) => GapFree(c, m)
    /\ charge[c].billed # 0 => InvoiceExists(<<c, charge[c].billed>>)

MonthInv ==
    /\ BillingTypeOK
    /\ \A c \in Steady : FromStart(c)
    /\ \A w \in Workers : InOrder(w)

\* The start of a charge stays unless it is moved, and no invoice goes away.
ChargesKept ==
    \A c \in Charges \ Moved : charge[c].state # "absent" =>
        charge'[c].state # "absent" /\ charge'[c].start = charge[c].start

InvoicesKept == \A item \in Item : InvoiceExists(item) => InvoiceExists(item)'

\* Months and items.
LEMMA Earlier ==
    ASSUME NEW start \in Months, NEW m \in Months, NEW n \in start .. m - 1
    PROVE  n \in Months /\ n < m
<1>1. Months \subseteq Int /\ start >= 1 /\ m <= LastMonth /\ LastMonth \in Int
  BY BillingAssumption DEF Months
<1>2. n \in Int /\ start <= n /\ n < m
  BY <1>1
<1> QED
  BY <1>1, <1>2 DEF Months

LEMMA Items ==
    /\ \A item \in Item : item[1] \in Charges /\ item[2] \in Months /\ item = <<item[1], item[2]>>
    /\ \A c \in Charges, m \in Months : <<c, m>> \in Item /\ <<c, m>>[1] = c /\ <<c, m>>[2] = m
    /\ \A m \in Months : m \in Int /\ m > 0
  BY BillingAssumption DEF Item, Months

LEMMA PendingItems ==
    ASSUME BillingTypeOK, NEW w \in Workers, work[w].step \in BillSteps
    PROVE  ItemOf(w) \in Item /\ work[w].todo \in SUBSET Item /\ Pending(w) \in SUBSET Item
<1>1. work[w] # NoRun
  BY HasRun
<1> QED
  BY <1>1, RunOf DEF Pending

\* An invoice that is written once more is there; the others stay as they are.
LEMMA OneWritten ==
    ASSUME BillingTypeOK, NEW item \in Item, NEW row \in Invoice,
           row.copies >= invoice[item].copies, invoice' = [invoice EXCEPT ![item] = row]
    PROVE  /\ InvoicesKept
           /\ \A other \in Item \ {item} : InvoiceExists(other)' <=> InvoiceExists(other)
           /\ invoice'[item] = row
<1>1. \A other \in Item : invoice'[other] = IF other = item THEN row ELSE invoice[other]
  BY DEF BillingTypeOK
<1>2. invoice[item].copies \in Nat /\ row.copies \in Nat
  BY DEF BillingTypeOK, Invoice
<1> QED
  BY <1>1, <1>2 DEF InvoicesKept, InvoiceExists

\* Every step keeps them.
LEMMA Kept ==
    ASSUME BillingTypeOK, [BillingNext]_billingVars
    PROVE  ChargesKept /\ InvoicesKept
<1>1. ASSUME UNCHANGED charge PROVE ChargesKept
  BY <1>1 DEF ChargesKept
<1>2. ASSUME UNCHANGED invoice PROVE InvoicesKept
  BY <1>2 DEF InvoicesKept, InvoiceExists
<1>3. ASSUME NEW c \in Charges, CreateCharge(c) PROVE ChargesKept /\ InvoicesKept
  <2>1. \A other \in Charges \ {c} : charge'[other] = charge[other]
    BY <1>3 DEF CreateCharge, BillingTypeOK
  <2> QED
    BY <1>2, <1>3, <2>1 DEF CreateCharge, ChargesKept, books
<1>4. ASSUME NEW c \in Charges, UpdateCharge(c) \/ DeleteCharge(c) PROVE ChargesKept /\ InvoicesKept
  <2>1. \A other \in Charges \ {c} : charge'[other] = charge[other]
    BY <1>4 DEF UpdateCharge, DeleteCharge, BillingTypeOK
  <2>2. charge'[c].state # "absent" /\ (c \notin Moved => charge'[c].start = charge[c].start)
    BY <1>4, EditWrites DEF BillingTypeOK
  <2> QED
    BY <1>2, <1>4, <2>1, <2>2 DEF UpdateCharge, DeleteCharge, ChargesKept, books
<1>5. ASSUME NEW w \in Workers, BillingStep(w) PROVE ChargesKept /\ InvoicesKept
  <2>1. CASE PostInvoice(w)
    <3>1. PICK row \in Invoice :
            /\ ItemOf(w) \in Item
            /\ row.copies = invoice[ItemOf(w)].copies + 1
            /\ invoice' = [invoice EXCEPT ![ItemOf(w)] = row]
      BY <2>1, PostWrites
    <3>2. row.copies >= invoice[ItemOf(w)].copies
      BY <3>1 DEF BillingTypeOK, Invoice
    <3> QED
      BY <1>1, <2>1, <3>1, <3>2, OneWritten DEF PostInvoice
  <2>2. CASE PostFee(w)
    <3>1. PICK row \in Invoice :
            /\ ItemOf(w) \in Item
            /\ row.copies = invoice[ItemOf(w)].copies
            /\ invoice' = [invoice EXCEPT ![ItemOf(w)] = row]
      BY <2>2, FeeWrites
    <3>2. row.copies >= invoice[ItemOf(w)].copies
      BY <3>1 DEF BillingTypeOK, Invoice
    <3> QED
      BY <1>1, <2>2, <3>1, <3>2, OneWritten DEF PostFee
  <2>3. CASE MarkBilled(w)
    <3>1. PICK row \in Charge :
            /\ ItemOf(w)[1] \in Charges
            /\ row.state = charge[ItemOf(w)[1]].state /\ row.start = charge[ItemOf(w)[1]].start
            /\ charge' = [charge EXCEPT ![ItemOf(w)[1]] = row]
      BY <2>3, MarkWrites
    <3>2. \A c \in Charges : charge'[c].state = charge[c].state /\ charge'[c].start = charge[c].start
      BY <3>1 DEF BillingTypeOK
    <3> QED
      BY <1>2, <2>3, <3>2 DEF MarkBilled, books, ChargesKept
  <2>4. CASE LookUpInvoice(w) \/ LookUpFee(w) \/ Abort(w)
    BY <1>1, <1>2, <2>4 DEF LookUpInvoice, LookUpFee, Abort, books
  <2> QED
    BY <1>5, <2>1, <2>2, <2>3, <2>4 DEF BillingStep
<1>6. ASSUME NEW item \in FeeCharges \X Months, SettleInvoice(item) PROVE ChargesKept /\ InvoicesKept
  <2>1. item \in Item
    BY FeeItems DEF FeeItem
  <2>2. PICK row \in Invoice :
          row.copies = invoice[item].copies /\ invoice' = [invoice EXCEPT ![item] = row]
    BY <1>6, <2>1, SettleWrites
  <2>3. row.copies >= invoice[item].copies
    BY <2>1, <2>2 DEF BillingTypeOK, Invoice
  <2> QED
    BY <1>1, <1>6, <2>1, <2>2, <2>3, OneWritten DEF SettleInvoice
<1>7. CASE UNCHANGED <<charge, invoice>>
  BY <1>1, <1>2, <1>7
<1>8. ASSUME \/ \E r \in Replicas : StartBillingJob(r)
             \/ PushRunBilling \/ GenerateInvoice \/ ApplyLateFees
      PROVE  UNCHANGED <<charge, invoice>>
  <2>1. PICK w \in Workers : \E step, asOf, items, first : Begin(w, step, asOf, items, first)
    BY <1>8, Starting
  <2> QED
    BY <2>1 DEF Begin, books
<1> QED
  BY <1>3, <1>4, <1>5, <1>6, <1>7, <1>8, BillingAssumption
     DEF BillingNext, billingVars, books, ChangeOccupants, NextMonth, ChangePeriod, ExpireSession, CrashRun

\* A run that goes on with what it had, apart from what has its invoice by now.
LEMMA OrderGoesOn ==
    ASSUME BillingTypeOK, NEW w \in Workers, InOrder(w), ChargesKept, InvoicesKept,
           work'[w].step \in BillSteps =>
             /\ work[w].step \in BillSteps
             /\ Pending(w)' \subseteq Pending(w)
             /\ \A item \in Pending(w) : item \in Pending(w)' \/ InvoiceExists(item)'
             /\ \A item \in work'[w].todo :
                  item[1] = work'[w].item[1] => work'[w].item[2] < item[2]
             /\ work'[w].step = "mark" => invoice'[work'[w].item].copies > 0
    PROVE  InOrder(w)'
<1> SUFFICES ASSUME work'[w].step \in BillSteps PROVE InOrder(w)'
  BY DEF InOrder
<1>1. ASSUME NEW item \in Pending(w)', item[1] \in Steady
      PROVE  NoneSkipped(w, item)'
  <2>1. item \in Pending(w) /\ item \in Item /\ NoneSkipped(w, item)
    BY <1>1, PendingItems DEF InOrder
  <2>2. item[1] \in Charges /\ item[2] \in Months
    BY <2>1, Items
  <2>3. charge'[item[1]].state # "absent" /\ charge'[item[1]].start = charge[item[1]].start
    BY <1>1, <2>1, <2>2 DEF NoneSkipped, ChargesKept, Steady
  <2>4. charge[item[1]].start # 0 => charge[item[1]].start \in Months
    BY <2>2, BillingAssumption DEF BillingTypeOK, Charge
  <2>5. ASSUME charge[item[1]].start # 0, NEW n \in charge[item[1]].start .. item[2] - 1
        PROVE  InvoiceExists(<<item[1], n>>)' \/ <<item[1], n>> \in Pending(w)'
    <3>1. n \in Months
      BY <2>2, <2>4, <2>5, Earlier
    <3>2. <<item[1], n>> \in Item
      BY <2>2, <3>1, Items
    <3> QED
      BY <2>1, <2>5, <3>2 DEF NoneSkipped, InvoicesKept
  <2> QED
    BY <2>1, <2>3, <2>5 DEF NoneSkipped
<1>2. \A item \in (work[w].todo)' : item[1] = ItemOf(w)'[1] => ItemOf(w)'[2] < item[2]
  BY DEF ItemOf
<1>3. (work[w].step)' = "mark" => InvoiceExists(ItemOf(w))'
  BY DEF InvoiceExists, ItemOf
<1> QED
  BY <1>1, <1>2, <1>3 DEF InOrder

\* A worker that does not take a step.
LEMMA OrderStays ==
    ASSUME BillingTypeOK, NEW w \in Workers, InOrder(w), ChargesKept, InvoicesKept,
           work'[w] = work[w]
    PROVE  InOrder(w)'
<1>1. work[w].step = "mark" => invoice'[ItemOf(w)].copies > 0
  BY PendingItems DEF InOrder, InvoicesKept, InvoiceExists, BillSteps
<1>2. Pending(w)' = Pending(w)
  BY DEF Pending, ItemOf
<1> QED
  BY <1>1, <1>2, OrderGoesOn DEF InOrder, ItemOf

\* The first item of a charge comes before its other ones.
LEMMA OldestFirst ==
    ASSUME NEW bills \in SUBSET Item, NEW item \in Oldest(bills),
           NEW other \in bills, other # item, other[1] = item[1]
    PROVE  item[2] < other[2]
<1>1. item \in Item /\ other \in Item /\ item[2] <= other[2]
  BY DEF Oldest
<1>2. item[2] # other[2]
  BY <1>1, Items
<1>3. item[2] \in Int /\ other[2] \in Int
  BY <1>1, Items
<1> QED
  BY <1>1, <1>2, <1>3

\* So does the item a run turns to.
LEMMA NextFirst ==
    ASSUME BillingTypeOK, NEW w \in Workers, work[w].step \in BillSteps,
           NEW item \in NextBills(w), NEW other \in work[w].todo, other # item, other[1] = item[1]
    PROVE  item[2] < other[2]
<1> DEFINE same == {i \in work[w].todo : i[1] = ItemOf(w)[1]}
<1>1. work[w].todo \in SUBSET Item
  BY PendingItems
<1>2. CASE same = {}
  <2>1. item \in Oldest(work[w].todo)
    BY <1>2 DEF NextBills
  <2> QED
    BY <1>1, <2>1, OldestFirst
<1>3. CASE same # {}
  <2>1. item \in Oldest(same)
    BY <1>3 DEF NextBills
  <2>2. item \in same /\ other \in same
    BY <2>1, OldestAmong
  <2>3. same \in SUBSET Item
    BY <1>1
  <2> HIDE DEF same
  <2> QED
    BY <2>1, <2>2, <2>3, OldestFirst
<1> QED
  BY <1>2, <1>3

\* A run that starts has every month of a charge before it that has no invoice yet.
LEMMA OrderStarts ==
    ASSUME MonthInv, ChargesKept, InvoicesKept,
           \/ \E r \in Replicas : StartBillingJob(r)
           \/ PushRunBilling \/ GenerateInvoice \/ ApplyLateFees
    PROVE  \A v \in Workers : InOrder(v)'
<1>t. BillingTypeOK
  BY DEF MonthInv
<1>1. PICK w \in Workers, asOf \in Months, items \in SUBSET Item,
            step \in BillSteps \cup FeeSteps :
        \E first \in SUBSET items :
          Begin(w, step, asOf, items, first) /\ Agenda(step, asOf, items, first)
  BY <1>t, Starting
<1>2. PICK first \in SUBSET items :
        Begin(w, step, asOf, items, first) /\ Agenda(step, asOf, items, first)
  BY <1>1
<1>3. PICK run \in Run :
        /\ work' = [work EXCEPT ![w] = run] /\ work[w] = NoRun
        /\ run.step = step /\ run.item \in first /\ run.todo = items \ {run.item}
        /\ invoice' = invoice /\ charge' = charge
  BY <1>2, Begins
<1>4. \A v \in Workers : work'[v] = IF v = w THEN run ELSE work[v]
  BY <1>3, <1>t DEF BillingTypeOK
<1>5. ASSUME NEW v \in Workers, v # w PROVE InOrder(v)'
  BY <1>4, <1>5, <1>t, OrderStays DEF MonthInv
<1>6. InOrder(w)'
  <2>1. work'[w] = run
    BY <1>4
  <2> SUFFICES ASSUME run.step \in BillSteps PROVE InOrder(w)'
    BY <2>1 DEF InOrder
  <2>2. step = "look"
    BY <1>2, <1>3 DEF Agenda, BillSteps
  <2>3. Pending(w)' = items
    BY <1>3, <2>1 DEF Pending, ItemOf
  <2>4. CASE items = BillsDue(asOf) /\ first = Oldest(items)
    <3>1. ASSUME NEW item \in items, item[1] \in Steady
          PROVE  NoneSkipped(w, item)'
      <4>1. item[1] \in Charges /\ item[2] \in Months
        BY Items
      <4>2. PICK c, m : c = item[1] /\ m = item[2]
        OBVIOUS
      <4>3. PICK row \in Charge : row = charge[c]
        BY <4>1, <4>2, <1>t DEF BillingTypeOK
      <4>4. /\ row.state = "active" /\ FirstUnbilled(row, asOf) <= m /\ m <= row.end /\ m <= asOf
            /\ c \in Steady /\ c \in Charges /\ m \in Months
        BY <2>4, <3>1, <4>1, <4>2, <4>3 DEF BillsDue, PeriodsDue
      <4>5. FromStart(c)
        BY <4>4 DEF MonthInv
      <4>6. row.start \in {0} \cup Months /\ row.end \in Months /\ row.billed \in {0} \cup Months
        BY BillingAssumption DEF Charge
      <4>7. \A k \in Months : k \in Int /\ k > 0
        BY Items
      <4>8. row.billed # 0 => row.billed \in Months /\ GapFree(c, row.billed)
        BY <4>3, <4>5, <4>6 DEF FromStart
      <4>9. row.start # 0 => row.start <= m
        BY <4>3, <4>4, <4>6, <4>7, <4>8 DEF FirstUnbilled, GapFree
      <4>10. ASSUME row.start # 0, NEW n \in row.start .. m - 1
             PROVE  InvoiceExists(<<c, n>>) \/ <<c, n>> \in items
        <5>1. n \in Months
          BY <4>4, <4>6, <4>10, Earlier
        <5>2. CASE FirstUnbilled(row, asOf) <= n
          <6>1. n < m /\ n \in Int /\ m \in Int /\ row.end \in Int /\ asOf \in Int
            BY <4>4, <4>6, <4>7, <4>10, Earlier
          <6>3. n <= row.end /\ n <= asOf
            BY <4>4, <6>1
          <6>2. <<c, n>> \in Item /\ <<c, n>>[1] = c /\ <<c, n>>[2] = n
            BY <4>4, <5>1, Items
          <6> QED
            BY <2>4, <4>3, <4>4, <5>1, <5>2, <6>2, <6>3 DEF BillsDue, PeriodsDue
        <5>3. CASE ~(FirstUnbilled(row, asOf) <= n)
          <6>0. n \in Int /\ row.start \in Int /\ m \in Int
            BY <4>4, <4>6, <4>7, <4>10, <5>1
          <6>1. row.billed \in Int
            BY <4>6, <4>7
          <6>2. row.start <= n
            BY <6>0
          <6>3. row.billed # 0 /\ n \in row.start .. row.billed
            BY <4>10, <5>3, <6>0, <6>1, <6>2 DEF FirstUnbilled
          <6> QED
            BY <4>3, <4>8, <4>10, <6>3 DEF GapFree
        <5> QED
          BY <5>2, <5>3
      <4>11. charge'[c] = row
        BY <1>3, <4>3
      <4>12. \A n : InvoiceExists(<<c, n>>)' <=> InvoiceExists(<<c, n>>)
        BY <1>3 DEF InvoiceExists
      <4> QED
        BY <2>3, <4>2, <4>4, <4>9, <4>10, <4>11, <4>12 DEF NoneSkipped
    <3>2. \A item \in run.todo : item[1] = run.item[1] => run.item[2] < item[2]
      BY <1>3, <2>4, OldestFirst
    <3> QED
      BY <1>3, <2>1, <2>2, <2>3, <3>1, <3>2 DEF InOrder, ItemOf
  <2>5. CASE first = items /\ \E c \in HandBilled, m \in Months : items = {<<c, m>>}
    <3>1. PICK c \in HandBilled, m \in Months : items = {<<c, m>>}
      BY <2>5
    <3>2. run.todo = {} /\ \A item \in items : item[1] \notin Steady
      BY <1>3, <2>5, <3>1 DEF Steady
    <3> QED
      BY <1>3, <2>1, <2>2, <2>3, <3>2 DEF InOrder
  <2> QED
    BY <1>2, <2>2, <2>4, <2>5 DEF Agenda
<1> QED
  BY <1>5, <1>6

\* A run over bills goes from one month to the next when the one in hand has its invoice.
LEMMA OrderAdvances ==
    ASSUME MonthInv, ChargesKept, InvoicesKept, NEW w \in Workers,
           work[w].step \in BillSteps, Advance(w, "look", NextBills(w)), invoice'[ItemOf(w)].copies > 0
    PROVE  InOrder(w)'
<1>t. BillingTypeOK /\ InOrder(w)
  BY DEF MonthInv
<1>1. work[w] # NoRun
  BY HasRun
<1>2. "look" \in BillSteps \cup FeeSteps /\ NextBills(w) \in SUBSET work[w].todo
  BY NextAmong DEF BillSteps
<1>3. \/ Finish(w)
      \/ \E run : work' = [work EXCEPT ![w] = run] /\ TurnsTo(w, run, "look", NextBills(w))
  BY <1>t, <1>1, <1>2, Advances
<1>4. CASE Finish(w)
  <2>1. work'[w] = NoRun
    BY <1>4, <1>t DEF Finish, BillingTypeOK
  <2> QED
    BY <2>1 DEF InOrder, NoRun, BillSteps
<1>5. CASE \E run : work' = [work EXCEPT ![w] = run] /\ TurnsTo(w, run, "look", NextBills(w))
  <2>1. PICK run : work' = [work EXCEPT ![w] = run] /\ TurnsTo(w, run, "look", NextBills(w))
    BY <1>5
  <2>2. work'[w] = run
    BY <1>t, <2>1 DEF BillingTypeOK
  <2>3. /\ run.step = "look" /\ run.item \in NextBills(w) /\ run.item \in work[w].todo
        /\ run.todo = work[w].todo \ {run.item}
    BY <1>2, <2>1 DEF TurnsTo
  <2>4. Pending(w)' = work[w].todo
    BY <2>2, <2>3 DEF Pending, ItemOf
  <2>5. \A item \in run.todo : item[1] = run.item[1] => run.item[2] < item[2]
    BY <1>t, <2>3, NextFirst
  <2>6. \A item \in Pending(w) : item \in Pending(w)' \/ InvoiceExists(item)'
    <3>1. ASSUME NEW item \in Pending(w), item \notin work[w].todo PROVE invoice'[item].copies > 0
      BY <3>1 DEF Pending
    <3> QED
      BY <2>4, <3>1 DEF InvoiceExists
  <2>7. Pending(w)' \subseteq Pending(w)
    BY <2>4 DEF Pending
  <2> QED
    BY <1>t, <2>2, <2>3, <2>5, <2>6, <2>7, OrderGoesOn
<1> QED
  BY <1>3, <1>4, <1>5

\* A run over bills that stays with the month in hand.
LEMMA OrderProceeds ==
    ASSUME MonthInv, ChargesKept, InvoicesKept, NEW w \in Workers, work[w].step \in BillSteps,
           NEW step \in BillSteps, Proceed(w, step),
           step = "mark" => invoice'[ItemOf(w)].copies > 0
    PROVE  InOrder(w)' /\ ItemOf(w)' = ItemOf(w)
<1>t. BillingTypeOK /\ InOrder(w)
  BY DEF MonthInv
<1>1. work[w] # NoRun
  BY HasRun
<1>2. PICK run : work' = [work EXCEPT ![w] = run] /\ GoesOn(w, run, step)
  BY <1>t, <1>1, Proceeds
<1>3. work'[w] = run /\ run.step = step /\ run.item = ItemOf(w) /\ run.todo = work[w].todo
  BY <1>t, <1>2 DEF BillingTypeOK, GoesOn
<1>4. Pending(w)' = Pending(w) /\ ItemOf(w)' = ItemOf(w)
  BY <1>3 DEF Pending, ItemOf
<1>5. \A item \in run.todo : item[1] = run.item[1] => run.item[2] < item[2]
  BY <1>t, <1>3 DEF InOrder
<1>6. step = "mark" => invoice'[run.item].copies > 0
  BY <1>3
<1> QED
  BY <1>t, <1>3, <1>4, <1>5, <1>6, OrderGoesOn

\* Every step keeps the order of the runs.
LEMMA OrderNext ==
    ASSUME MonthInv, [BillingNext]_billingVars
    PROVE  \A v \in Workers : InOrder(v)'
<1>t. BillingTypeOK /\ \A w \in Workers : InOrder(w)
  BY DEF MonthInv
<1>k. ChargesKept /\ InvoicesKept
  BY <1>t, Kept
<1>i. ASSUME NEW w \in Workers, work[w].step \in BillSteps, InvoiceExists(ItemOf(w))
      PROVE  invoice'[ItemOf(w)].copies > 0
  BY <1>t, <1>k, <1>i, PendingItems DEF InvoicesKept, InvoiceExists
<1>1. CASE (\E r \in Replicas : StartBillingJob(r)) \/ PushRunBilling \/ GenerateInvoice \/ ApplyLateFees
  BY <1>1, <1>k, OrderStarts
<1>2. ASSUME NEW w \in Workers, BillingStep(w) \/ CrashRun(w) PROVE \A v \in Workers : InOrder(v)'
  <2>1. ASSUME NEW v \in Workers, v # w PROVE InOrder(v)'
    <3>1. work'[v] = work[v]
      BY <1>2, <1>t, <2>1, StepOfRun DEF Finish, CrashRun, BillingTypeOK
    <3> QED
      BY <1>t, <1>k, <3>1, OrderStays
  <2> SUFFICES InOrder(w)'
    BY <2>1
  <2>2. CASE LookUpInvoice(w)
    <3>1. work[w].step \in BillSteps /\ "post" \in BillSteps
      BY <2>2 DEF LookUpInvoice, BillSteps
    <3>2. CASE InvoiceExists(ItemOf(w))
      BY <1>i, <1>k, <2>2, <3>1, <3>2, OrderAdvances DEF LookUpInvoice
    <3>3. CASE ~InvoiceExists(ItemOf(w))
      <4>1. Proceed(w, "post")
        BY <2>2, <3>3 DEF LookUpInvoice
      <4> QED
        BY <1>k, <3>1, <4>1, OrderProceeds
    <3> QED
      BY <3>2, <3>3
  <2>3. CASE PostInvoice(w)
    <3>1. work[w].step \in BillSteps /\ "mark" \in BillSteps /\ Proceed(w, "mark")
      BY <2>3 DEF PostInvoice, BillSteps
    <3>2. PICK row \in Invoice :
            /\ ItemOf(w) \in Item /\ row.copies = invoice[ItemOf(w)].copies + 1
            /\ invoice' = [invoice EXCEPT ![ItemOf(w)] = row]
      BY <1>t, <2>3, PostWrites
    <3>3. invoice[ItemOf(w)].copies \in Nat /\ invoice'[ItemOf(w)] = row
      BY <1>t, <3>2 DEF BillingTypeOK, Invoice
    <3>4. invoice'[ItemOf(w)].copies > 0
      BY <3>2, <3>3
    <3> QED
      BY <1>k, <3>1, <3>4, OrderProceeds
  <2>4. CASE MarkBilled(w)
    <3>1. work[w].step \in BillSteps /\ work[w].step = "mark" /\ Advance(w, "look", NextBills(w))
      BY <2>4 DEF MarkBilled, BillSteps
    <3>2. InvoiceExists(ItemOf(w))
      BY <1>t, <3>1 DEF InOrder
    <3> QED
      BY <1>i, <1>k, <3>1, <3>2, OrderAdvances
  <2>5. CASE LookUpFee(w) \/ PostFee(w)
    <3>1. work[w] # NoRun
      BY <2>5, HasRun DEF LookUpFee, PostFee, FeeSteps
    <3>2. "post fee" \in BillSteps \cup FeeSteps /\ "look fee" \in BillSteps \cup FeeSteps
      BY DEF FeeSteps
    <3>3. work[w].todo \in SUBSET work[w].todo
      OBVIOUS
    <3>4. Proceed(w, "post fee") \/ Advance(w, "look fee", work[w].todo)
      BY <2>5 DEF LookUpFee, PostFee
    <3>5. work'[w].step \in {"idle", "look fee", "post fee"}
      <4>1. CASE Proceed(w, "post fee")
        <5>1. PICK run : work' = [work EXCEPT ![w] = run] /\ GoesOn(w, run, "post fee")
          BY <1>t, <3>1, <3>2, <4>1, Proceeds
        <5> QED
          BY <1>t, <5>1 DEF GoesOn, BillingTypeOK
      <4>2. CASE Advance(w, "look fee", work[w].todo)
        <5>1. \/ Finish(w)
              \/ \E run : work' = [work EXCEPT ![w] = run] /\ TurnsTo(w, run, "look fee", work[w].todo)
          BY <1>t, <3>1, <3>2, <3>3, <4>2, Advances
        <5>2. CASE Finish(w)
          BY <1>t, <5>2 DEF Finish, NoRun, BillingTypeOK
        <5>3. ASSUME NEW run, work' = [work EXCEPT ![w] = run],
                     TurnsTo(w, run, "look fee", work[w].todo)
              PROVE  work'[w].step \in {"idle", "look fee", "post fee"}
          BY <1>t, <5>3 DEF TurnsTo, BillingTypeOK
        <5> QED
          BY <5>1, <5>2, <5>3
      <4> QED
        BY <3>4, <4>1, <4>2
    <3> QED
      BY <3>5 DEF InOrder, BillSteps
  <2>6. CASE Abort(w) \/ CrashRun(w)
    <3>1. work'[w].step = "idle"
      BY <1>t, <2>6 DEF Abort, CrashRun, Finish, NoRun, BillingTypeOK
    <3> QED
      BY <3>1 DEF InOrder, BillSteps
  <2> QED
    BY <1>2, <2>2, <2>3, <2>4, <2>5, <2>6 DEF BillingStep
<1>3. CASE UNCHANGED work
  BY <1>3, <1>t, <1>k, OrderStays
<1> QED
  BY <1>1, <1>2, <1>3
     DEF BillingNext, billingVars, CreateCharge, UpdateCharge, DeleteCharge, ChangeOccupants, NextMonth,
         ChangePeriod, SettleInvoice, ExpireSession

\* A charge whose invoices stay as they are.
LEMMA StartStays ==
    ASSUME NEW c \in Charges, FromStart(c),
           charge'[c].start = charge[c].start, charge'[c].billed = charge[c].billed,
           charge[c].state # "absent" => charge'[c].state # "absent",
           \A m : InvoiceExists(<<c, m>>)' <=> InvoiceExists(<<c, m>>)
    PROVE  FromStart(c)'
  BY DEF FromStart, GapFree

\* Every step keeps the invoices of a charge without a gap.
LEMMA FromStartNext ==
    ASSUME MonthInv, [BillingNext]_billingVars, NEW c \in Steady
    PROVE  FromStart(c)'
<1>t. BillingTypeOK /\ FromStart(c) /\ c \in Charges /\ c \notin Moved
  BY DEF MonthInv, Steady
<1>1. ASSUME UNCHANGED invoice, charge'[c] = charge[c] PROVE FromStart(c)'
  BY <1>1, <1>t, StartStays DEF InvoiceExists
<1>2. ASSUME NEW d \in Charges, CreateCharge(d) PROVE FromStart(c)'
  <2>1. CASE d = c
    <3>1. charge[c].state = "absent" /\ charge'[c].billed = 0 /\ UNCHANGED invoice
      BY <1>2, <1>t, <2>1 DEF CreateCharge, books, BillingTypeOK
    <3> QED
      BY <1>t, <3>1 DEF FromStart, GapFree, InvoiceExists
  <2>2. CASE d # c
    BY <1>1, <1>2, <1>t, <2>2 DEF CreateCharge, books, BillingTypeOK
  <2> QED
    BY <2>1, <2>2
<1>3. ASSUME NEW d \in Charges, UpdateCharge(d) \/ DeleteCharge(d) PROVE FromStart(c)'
  <2>1. CASE d = c
    <3>1. /\ charge'[c].start = charge[c].start /\ charge'[c].billed = charge[c].billed
          /\ charge'[c].state # "absent"
      BY <1>3, <1>t, <2>1, EditWrites DEF BillingTypeOK
    <3>2. \A m : InvoiceExists(<<c, m>>)' <=> InvoiceExists(<<c, m>>)
      BY <1>3 DEF UpdateCharge, DeleteCharge, books, InvoiceExists
    <3> QED
      BY <1>t, <3>1, <3>2, StartStays
  <2>2. CASE d # c
    BY <1>1, <1>3, <1>t, <2>2 DEF UpdateCharge, DeleteCharge, books, BillingTypeOK
  <2> QED
    BY <2>1, <2>2
<1>4. ASSUME NEW w \in Workers, PostInvoice(w) PROVE FromStart(c)'
  <2>1. PICK row \in Invoice :
          /\ ItemOf(w) \in Item /\ row.copies = invoice[ItemOf(w)].copies + 1
          /\ invoice' = [invoice EXCEPT ![ItemOf(w)] = row]
    BY <1>4, <1>t, PostWrites
  <2>2. invoice[ItemOf(w)].copies \in Nat
    BY <1>t, <2>1 DEF BillingTypeOK, Invoice
  <2>3. row.copies >= invoice[ItemOf(w)].copies /\ row.copies > 0
    BY <2>1, <2>2
  <2>4. PICK item \in Item : item = ItemOf(w)
    BY <2>1
  <2>5. /\ InvoicesKept /\ invoice'[item].copies > 0
        /\ \A other \in Item \ {item} : InvoiceExists(other)' <=> InvoiceExists(other)
    BY <1>t, <2>1, <2>3, <2>4, OneWritten
  <2>6. UNCHANGED charge
    BY <1>4 DEF PostInvoice
  <2>7. \A m \in Months : <<c, m>> \in Item /\ <<c, m>>[1] = c /\ <<c, m>>[2] = m
    BY <1>t, Items
  <2>8. ASSUME NEW m \in Months, <<c, m>> = item
        PROVE  GapFree(c, m)'
    <3>1. InOrder(w) /\ work[w].step = "post" /\ work[w].step \in BillSteps
      BY <1>4 DEF MonthInv, PostInvoice, BillSteps
    <3>2. item[1] = c /\ item[2] = m
      BY <2>7, <2>8
    <3>3. NoneSkipped(w, item) /\ \A other \in work[w].todo : other[1] = c => m < other[2]
      BY <2>4, <3>1, <3>2 DEF InOrder, Pending
    <3>4. charge[c].start # 0 => charge[c].start \in Months
      BY <1>t, BillingAssumption DEF BillingTypeOK, Charge
    <3>5. ASSUME charge[c].start # 0, NEW n \in charge[c].start .. m - 1 PROVE InvoiceExists(<<c, n>>)'
      <4>1. n \in Months /\ n < m /\ <<c, n>> \in Item /\ <<c, n>>[1] = c /\ <<c, n>>[2] = n
        BY <2>7, <3>4, <3>5, Earlier
      <4>2. InvoiceExists(<<c, n>>) \/ <<c, n>> \in Pending(w)
        BY <3>2, <3>3, <3>5 DEF NoneSkipped
      <4>3. m \in Int /\ n \in Int
        BY <4>1, Items
      <4>4. <<c, n>> # item /\ <<c, n>> \notin work[w].todo
        BY <3>2, <3>3, <4>1, <4>3
      <4> QED
        BY <2>4, <2>5, <4>1, <4>2, <4>4 DEF Pending, InvoicesKept
    <3>6. InvoiceExists(<<c, m>>)'
      BY <2>5, <2>8 DEF InvoiceExists
    <3>7. charge[c].start # 0 =>
            \A n \in charge[c].start .. m : n = m \/ n \in charge[c].start .. m - 1
      BY <3>4, Items
    <3> QED
      BY <2>6, <3>2, <3>3, <3>5, <3>6, <3>7 DEF NoneSkipped, GapFree
  <2>9. ASSUME NEW m \in Months, InvoiceExists(<<c, m>>) PROVE GapFree(c, m)'
    <3>1. GapFree(c, m)
      BY <1>t, <2>9 DEF FromStart
    <3>2. charge[c].start # 0 => charge[c].start \in Months
      BY <1>t, BillingAssumption DEF BillingTypeOK, Charge
    <3>3. charge[c].start # 0 => \A n \in charge[c].start .. m : n \in Months
      BY <3>2, Earlier, Items
    <3> QED
      BY <2>5, <2>6, <2>7, <3>1, <3>3 DEF GapFree, InvoicesKept
  <2>10. \A m \in Months : InvoiceExists(<<c, m>>)' => <<c, m>> = item \/ InvoiceExists(<<c, m>>)
    BY <2>5, <2>7
  <2>11. charge[c].billed # 0 => invoice'[<<c, charge[c].billed>>].copies > 0
    <3>1. PICK billed : billed = charge[c].billed
      OBVIOUS
    <3>2. billed # 0 => billed \in Months
      BY <1>t, <3>1 DEF BillingTypeOK, Charge
    <3>3. billed # 0 => InvoiceExists(<<c, billed>>)'
      BY <1>t, <2>5, <2>7, <3>1, <3>2 DEF FromStart, InvoicesKept
    <3> QED
      BY <3>1, <3>3 DEF InvoiceExists
  <2> QED
    BY <2>6, <2>8, <2>9, <2>10, <2>11 DEF FromStart, InvoiceExists
<1>5. ASSUME NEW w \in Workers, MarkBilled(w) PROVE FromStart(c)'
  <2>1. PICK row \in Charge :
          /\ ItemOf(w) \in Item /\ ItemOf(w)[1] \in Charges
          /\ row.state = charge[ItemOf(w)[1]].state /\ row.start = charge[ItemOf(w)[1]].start
          /\ row.billed = ItemOf(w)[2]
          /\ charge' = [charge EXCEPT ![ItemOf(w)[1]] = row]
    BY <1>5, <1>t, MarkWrites
  <2>2. UNCHANGED invoice
    BY <1>5 DEF MarkBilled, books
  <2>3. CASE ItemOf(w)[1] = c
    <3>1. charge'[c] = row
      BY <1>t, <2>1, <2>3 DEF BillingTypeOK
    <3>2. InvoiceExists(<<c, row.billed>>)
      <4>1. InvoiceExists(ItemOf(w))
        BY <1>5 DEF MonthInv, InOrder, MarkBilled, BillSteps
      <4>2. ItemOf(w) = <<c, row.billed>>
        BY <2>1, <2>3, Items
      <4> QED
        BY <4>1, <4>2
    <3>3. row.state = charge[c].state /\ row.start = charge[c].start
      BY <2>1, <2>3
    <3>4. \A m : InvoiceExists(<<c, m>>)' <=> InvoiceExists(<<c, m>>)
      BY <2>2 DEF InvoiceExists
    <3> QED
      BY <1>t, <3>1, <3>2, <3>3, <3>4 DEF FromStart, GapFree
  <2>4. CASE ItemOf(w)[1] # c
    BY <1>1, <1>t, <2>1, <2>2, <2>4 DEF BillingTypeOK
  <2> QED
    BY <2>3, <2>4
<1>6. ASSUME NEW item \in Item, NEW row \in Invoice, row.copies = invoice[item].copies,
             invoice' = [invoice EXCEPT ![item] = row], UNCHANGED charge
      PROVE  FromStart(c)'
  <2>1. \A m : InvoiceExists(<<c, m>>)' <=> InvoiceExists(<<c, m>>)
    BY <1>6, <1>t DEF InvoiceExists, BillingTypeOK
  <2> QED
    BY <1>6, <1>t, <2>1, StartStays
<1>7. ASSUME NEW w \in Workers, PostFee(w) PROVE FromStart(c)'
  BY <1>6, <1>7, <1>t, FeeWrites DEF PostFee
<1>8. ASSUME NEW item \in FeeCharges \X Months, SettleInvoice(item) PROVE FromStart(c)'
  <2>1. item \in Item
    BY FeeItems DEF FeeItem
  <2> QED
    BY <1>6, <1>8, <1>t, <2>1, SettleWrites DEF SettleInvoice
<1>9. ASSUME \/ \E r \in Replicas : StartBillingJob(r)
             \/ PushRunBilling \/ GenerateInvoice \/ ApplyLateFees
      PROVE  UNCHANGED <<charge, invoice>>
  <2>1. PICK w \in Workers : \E step, asOf, items, first : Begin(w, step, asOf, items, first)
    BY <1>9, <1>t, Starting
  <2> QED
    BY <2>1 DEF Begin, books
<1> QED
  BY <1>1, <1>2, <1>3, <1>4, <1>5, <1>7, <1>8, <1>9, BillingAssumption
     DEF BillingNext, billingVars, books, BillingStep, LookUpInvoice, LookUpFee, Abort, ChangeOccupants,
         NextMonth, ChangePeriod, ExpireSession, CrashRun

\* No month is left out, whatever runs overlap, die or are started again.
THEOREM NoMonthLeftOutCorrect == BillingSpec => []NoMonthLeftOut
<1>1. BillingInit => MonthInv
  <2> SUFFICES ASSUME BillingInit PROVE MonthInv
    OBVIOUS
  <2>1. BillingTypeOK
    BY BillingTypeStart
  <2>2. \A item \in Item : ~InvoiceExists(item)
    BY DEF BillingInit, InvoiceExists
  <2>3. \A c \in Steady : FromStart(c)
    BY <2>2, Items DEF BillingInit, FromStart, Steady
  <2>4. \A w \in Workers : InOrder(w)
    BY DEF BillingInit, InOrder, NoRun, BillSteps
  <2> QED
    BY <2>1, <2>3, <2>4 DEF MonthInv
<1>2. MonthInv /\ [BillingNext]_billingVars => MonthInv'
  <2> SUFFICES ASSUME MonthInv, [BillingNext]_billingVars PROVE MonthInv'
    OBVIOUS
  <2>1. BillingTypeOK'
    BY BillingTypeNext DEF MonthInv
  <2> QED
    BY <2>1, FromStartNext, OrderNext DEF MonthInv
<1>3. MonthInv => NoMonthLeftOut
  <2> SUFFICES ASSUME MonthInv, NEW c \in Steady
               PROVE  LET months == {m \in Months : InvoiceExists(<<c, m>>)} IN
                      /\ charge[c].start # 0 => \A m, n \in months : m .. n \subseteq months
                      /\ charge[c].billed \in months \cup {0}
    BY DEF NoMonthLeftOut, Steady
  <2> DEFINE months == {m \in Months : InvoiceExists(<<c, m>>)}
  <2>1. FromStart(c) /\ charge[c].start \in {0} \cup Months /\ charge[c].billed \in {0} \cup Months
    BY BillingAssumption DEF MonthInv, BillingTypeOK, Charge, Steady
  <2>2. ASSUME charge[c].start # 0, NEW m \in months, NEW n \in months, NEW k \in m .. n
        PROVE  k \in months
    <3>1. m \in Months /\ n \in Months /\ charge[c].start <= m
      BY <2>1, <2>2 DEF FromStart, GapFree
    <3>2. m \in Int /\ n \in Int /\ charge[c].start \in Int
      BY <2>1, <2>2, <3>1, Items
    <3>3. k \in Months
      BY <3>1, <3>2, BillingAssumption DEF Months
    <3>4. k \in charge[c].start .. n
      BY <3>1, <3>2
    <3> QED
      BY <2>1, <2>2, <3>1, <3>3, <3>4 DEF FromStart, GapFree
  <2>3. charge[c].billed \in months \cup {0}
    BY <2>1 DEF FromStart
  <2> QED
    BY <2>2, <2>3
<1> QED
  BY <1>1, <1>2, <1>3, PTL DEF BillingSpec
=============================================================================
