------------------------------ MODULE Webhooks ------------------------------
(***************************************************************************)
(* Outbound webhooks: dispatch_webhook (services/webhook_service.py), the  *)
(* job that retries failed deliveries (tasks/webhook_retry.py) and the     *)
(* endpoints that switch and delete webhooks (routers/webhooks.py), all    *)
(* under backend/app.                                                      *)
(*                                                                         *)
(* Both senders post first and commit the outcome of all their posts at    *)
(* the end. Until then the rows the retry job has processed are locked,    *)
(* all but the last, which SQLAlchemy writes when the next webhook is      *)
(* looked up, or at the commit. Rows that a deleted webhook took along     *)
(* make that write fail, and the whole batch is rolled back. The payload,  *)
(* its signature, the response and the event filter are left out.          *)
(***************************************************************************)
EXTENDS Jobs, Integers, FiniteSets

CONSTANTS Events,           \* domain events, each dispatched once
          Hooks,            \* registered webhooks
          MaxLost           \* bound: no crash or database error after that many losses

VARIABLES hook,             \* webhooks: is_active, or deleted
          delivery,         \* webhook_deliveries
          dispatch,         \* the dispatch of each event
          job,              \* the run of the retry job on each replica
          posts,            \* history: requests sent to the receiver
          lost,             \* history: batches of outcomes that were lost
          muted             \* history: webhooks ever switched off

vars == <<holder, hook, delivery, dispatch, job, posts, lost, muted>>

ASSUME JobsAssumption == HolderAssumption
ASSUME BoundAssumption == MaxLost \in Nat

-----------------------------------------------------------------------------
MaxAttempts == 3

Deliveries == Events \X Hooks
HookOf(d)  == d[2]

\* retry: is next_retry_at NULL, in the future, or reached?
Row == [status : {"none", "failed", "success", "deleted"}, attempts : 0..MaxAttempts,
        retry : {"never", "waiting", "due"}]

NoRow == [status |-> "none", attempts |-> 0, retry |-> "never"]

\* Mutant: the first attempt is not counted.
FirstRowUncounted(ok) ==
    [status |-> IF ok THEN "success" ELSE "failed", attempts |-> 0,
     retry |-> IF ok THEN "never" ELSE "waiting"]

\* What dispatch_webhook records of the first attempt.
FirstRow(ok) ==
    [status |-> IF ok THEN "success" ELSE "failed", attempts |-> 1,
     retry |-> IF ok THEN "never" ELSE "waiting"]

\* Mutant: gives up one attempt early.
GiveUpEarly(row, ok) ==
    [status   |-> IF ok THEN "success" ELSE "failed",
     attempts |-> row.attempts + 1,
     retry    |-> IF ok \/ row.attempts + 2 >= MaxAttempts THEN "never" ELSE "waiting"]

\* One more attempt: success, _schedule_next_retry, or exhausted.
Attempted(row, ok) ==
    [status   |-> IF ok THEN "success" ELSE "failed",
     attempts |-> row.attempts + 1,
     retry    |-> IF ok \/ row.attempts + 1 >= MaxAttempts THEN "never" ELSE "waiting"]

\* What a run selects.
Retryable(row) == row.status = "failed" /\ row.retry = "due" /\ row.attempts < MaxAttempts

(* A run of the retry job.  todo: the deliveries selected and not yet      *)
(* processed; rows: what the processed ones become; last: the one not yet  *)
(* written.                                                                *)

NoDelivery == <<>>
Idle == [todo |-> {}, rows |-> [d \in {} |-> NoRow], last |-> NoDelivery]
Running(r) == job[r] # Idle

\* The rows run r has written and not committed: locked.
Written(r) == DOMAIN job[r].rows \ {job[r].last}

\* A webhook row is locked by the new last_triggered_at after a success.
HookLocked(h) == \E r \in Replicas : \E d \in Written(r) :
                   HookOf(d) = h /\ job[r].rows[d].status = "success"
RowsLocked(h) == \E r \in Replicas : \E d \in Written(r) : HookOf(d) = h

-----------------------------------------------------------------------------
(* Dispatch.                                                               *)

\* dispatch_webhook: the active webhooks of the organization ...
BeginDispatch(e) ==
    /\ dispatch[e].step = "new"
    /\ dispatch' = [dispatch EXCEPT
         ![e] = [step |-> "sending", todo |-> {h \in Hooks : hook[h] = "active"},
                 sent |-> {}, taken |-> {}]]
    /\ UNCHANGED <<holder, hook, delivery, job, posts, lost, muted>>

\* ... are sent the event one after the other ...
PostEvent(e) ==
    /\ dispatch[e].step = "sending"
    /\ \E h \in dispatch[e].todo, ok \in BOOLEAN :
         /\ dispatch' = [dispatch EXCEPT
              ![e] = [step |-> "sending", todo |-> @.todo \ {h}, sent |-> @.sent \cup {h},
                      taken |-> IF ok THEN @.taken \cup {h} ELSE @.taken]]
         /\ posts' = [posts EXCEPT ![<<e, h>>] = @ + 1]
    /\ UNCHANGED <<holder, hook, delivery, job, lost, muted>>

\* ... and all outcomes are committed, or none when a webhook is gone.
CommitDispatch(e) ==
    LET s == dispatch[e].sent IN
    /\ dispatch[e].step = "sending" /\ dispatch[e].todo = {}
    /\ \A h \in s : ~HookLocked(h)
    /\ dispatch' = [dispatch EXCEPT ![e].step = "done"]
    /\ IF \E h \in s : hook[h] = "deleted"
         THEN lost' = lost + 1 /\ UNCHANGED delivery
         ELSE /\ delivery' = [d \in Deliveries |->
                    IF d[1] = e /\ HookOf(d) \in s
                      THEN FirstRow(HookOf(d) \in dispatch[e].taken) ELSE delivery[d]]
              /\ UNCHANGED lost
    /\ UNCHANGED <<holder, hook, job, posts, muted>>

\* The process dies, or the database refuses the commit.
LoseDispatch(e) ==
    /\ dispatch[e].step = "sending" /\ lost < MaxLost
    /\ dispatch' = [dispatch EXCEPT ![e].step = "done"]
    /\ lost' = lost + 1
    /\ UNCHANGED <<holder, hook, delivery, job, posts, muted>>

-----------------------------------------------------------------------------
(* The retry job.                                                          *)

\* retry_failed_webhooks begins, under the lock: selects what is due. A run
\* that finds nothing changes nothing.
StartJob(r) ==
    LET batch == {d \in Deliveries : Retryable(delivery[d])} IN
    /\ ~Running(r)
    /\ TryLock(r)
    /\ batch # {}
    /\ job' = [job EXCEPT ![r].todo = batch]
    /\ UNCHANGED <<hook, delivery, dispatch, posts, lost, muted>>

\* Was the row the run must write next deleted?
WriteFails(r) == job[r].last # NoDelivery /\ delivery[job[r].last].status = "deleted"

\* The next delivery: given up when its webhook is not active, else sent.
RetryNext(r) ==
    /\ ~WriteFails(r)
    /\ \E d \in job[r].todo :
         LET became(row) == [todo |-> job[r].todo \ {d}, last |-> d,
                rows |-> [x \in DOMAIN job[r].rows \cup {d} |->
                            IF x = d THEN row ELSE job[r].rows[x]]]
         IN IF hook[HookOf(d)] # "active"
              THEN /\ job' = [job EXCEPT ![r] = became([delivery[d] EXCEPT !.retry = "never"])]
                   /\ UNCHANGED posts
              ELSE /\ \E ok \in BOOLEAN :
                        job' = [job EXCEPT ![r] = became(Attempted(delivery[d], ok))]
                   /\ posts' = [posts EXCEPT ![d] = @ + 1]
    /\ UNCHANGED <<holder, hook, delivery, dispatch, lost, muted>>

\* The run ends with a commit ...
CommitJob(r) ==
    /\ Running(r) /\ job[r].todo = {} /\ ~WriteFails(r)
    /\ delivery' = [d \in Deliveries |-> IF d \in DOMAIN job[r].rows THEN job[r].rows[d]
                                                                   ELSE delivery[d]]
    /\ job' = [job EXCEPT ![r] = Idle]
    /\ Unlock(r)
    /\ UNCHANGED <<hook, dispatch, posts, lost, muted>>

\* ... or is rolled back: a row it writes is gone, or the database gives up.
FailJob(r) ==
    /\ Running(r)
    /\ WriteFails(r) \/ lost < MaxLost
    /\ job' = [job EXCEPT ![r] = Idle]
    /\ lost' = lost + 1
    /\ Unlock(r)
    /\ UNCHANGED <<hook, delivery, dispatch, posts, muted>>

\* The process dies in the middle of a run.
Crash(r) ==
    /\ Running(r) /\ lost < MaxLost
    /\ job' = [job EXCEPT ![r] = Idle]
    /\ lost' = lost + 1
    /\ LoseSession(r)
    /\ UNCHANGED <<hook, delivery, dispatch, posts, muted>>

DropDeadSession ==
    /\ DropSession
    /\ UNCHANGED <<hook, delivery, dispatch, job, posts, lost, muted>>

\* next_retry_at is reached.
Elapse(d) ==
    /\ delivery[d].retry = "waiting"
    /\ delivery' = [delivery EXCEPT ![d].retry = "due"]
    /\ UNCHANGED <<holder, hook, dispatch, job, posts, lost, muted>>

-----------------------------------------------------------------------------
(* The administrator.                                                      *)

\* update_webhook: is_active.
Switch(h) ==
    /\ hook[h] \in {"active", "inactive"} /\ ~HookLocked(h)
    /\ hook' = [hook EXCEPT ![h] = IF @ = "active" THEN "inactive" ELSE "active"]
    /\ muted' = muted \cup {h}
    /\ UNCHANGED <<holder, delivery, dispatch, job, posts, lost>>

\* delete_webhook: its deliveries go with it.
Delete(h) ==
    /\ hook[h] # "deleted" /\ ~RowsLocked(h)
    /\ hook' = [hook EXCEPT ![h] = "deleted"]
    /\ delivery' = [d \in Deliveries |->
         IF HookOf(d) = h /\ delivery[d].status # "none"
           THEN [NoRow EXCEPT !.status = "deleted"] ELSE delivery[d]]
    /\ UNCHANGED <<holder, dispatch, job, posts, lost, muted>>

-----------------------------------------------------------------------------
Init ==
    /\ holder = Nobody
    /\ hook = [h \in Hooks |-> "active"]
    /\ delivery = [d \in Deliveries |-> NoRow]
    /\ dispatch = [e \in Events |-> [step |-> "new", todo |-> {}, sent |-> {}, taken |-> {}]]
    /\ job = [r \in Replicas |-> Idle]
    /\ posts = [d \in Deliveries |-> 0]
    /\ lost = 0
    /\ muted = {}

Job(r) == StartJob(r) \/ RetryNext(r) \/ CommitJob(r) \/ FailJob(r)

Next == \/ \E e \in Events : \/ BeginDispatch(e) \/ PostEvent(e) \/ CommitDispatch(e)
                             \/ LoseDispatch(e)
        \/ \E r \in Replicas : Job(r) \/ Crash(r)
        \/ \E d \in Deliveries : Elapse(d)
        \/ \E h \in Hooks : Switch(h) \/ Delete(h)
        \/ DropDeadSession

Spec == Init /\ [][Next]_vars

\* Time passes, the database drops dead sessions, the interval trigger of
\* some replica finds the lock free, and a run in progress goes on.
Fairness == /\ \A d \in Deliveries : WF_vars(Elapse(d))
            /\ WF_vars(DropDeadSession)
            /\ WF_vars(\E r \in Replicas : StartJob(r))
            /\ \A r \in Replicas : WF_vars(RetryNext(r) \/ CommitJob(r) \/ FailJob(r))

FairSpec == Spec /\ Fairness

-----------------------------------------------------------------------------
(* Properties.                                                             *)

Progress == [step : {"new", "sending", "done"}, todo : SUBSET Hooks,
             sent : SUBSET Hooks, taken : SUBSET Hooks]
PartialRows == UNION {[S -> Row] : S \in SUBSET Deliveries}
Batch == [todo : SUBSET Deliveries, rows : PartialRows,
          last : Deliveries \cup {NoDelivery}]

\* The types of the variables.
TypeOK ==
    /\ holder \in Holders
    /\ hook \in [Hooks -> {"active", "inactive", "deleted"}]
    /\ delivery \in [Deliveries -> Row]
    /\ dispatch \in [Events -> Progress]
    /\ job \in [Replicas -> Batch]
    /\ posts \in [Deliveries -> Nat]
    /\ lost \in Nat
    /\ muted \subseteq Hooks

\* A receiver gets no more than the three attempts of the retry policy, and
\* one more for every batch of outcomes that a crash or a rollback lost: the
\* attempt count is committed after the attempt.
AttemptsBounded == \A d \in Deliveries : posts[d] <= MaxAttempts + lost

\* Once a delivery is recorded as taken it is never sent again, by whichever
\* replica: the lock is held from the selection of a batch to its commit.
TakenIsFinal ==
    [][\A d \in Deliveries : delivery[d].status = "success" => posts'[d] = posts[d]]_vars

\* No delivery is given up early: what is failed and will not be retried had
\* its three attempts, or its webhook was switched off.
GivenUpForCause ==
    \A d \in Deliveries :
      delivery[d].status = "failed" /\ delivery[d].retry = "never" =>
        delivery[d].attempts = MaxAttempts \/ HookOf(d) \in muted

\* A failed delivery is taken, given up or deleted in the end, whatever
\* crashes, rollbacks and dead sessions come before.
FailuresSettle ==
    \A d \in Deliveries :
      delivery[d].status = "failed" ~>
        \/ delivery[d].status \in {"success", "deleted"}
        \/ delivery[d].retry = "never"
=============================================================================
