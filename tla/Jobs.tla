-------------------------------- MODULE Jobs --------------------------------
(***************************************************************************)
(* The advisory lock run_tracked (backend/app/tasks/job_status.py) puts    *)
(* around every scheduled job. Each replica of the backend has a scheduler *)
(* of its own; a job runs on the replica whose database session got the    *)
(* lock and is skipped on the others. The lock belongs to the session: the *)
(* wrapper gives it up however the job ends, and when the process dies the *)
(* database gives it up once it notices. The in-memory status registry is  *)
(* left out: no job reads it.                                              *)
(***************************************************************************)
CONSTANTS Replicas,         \* processes of the backend
          Nobody,           \* the lock is free
          DeadSession       \* the lock is held by the session of a dead process

VARIABLE holder             \* who holds the advisory lock of the job

HolderAssumption == Nobody \notin Replicas /\ DeadSession \notin Replicas /\ Nobody # DeadSession

Holders == Replicas \cup {Nobody, DeadSession}

\* Mutant: the job runs whether or not the lock is held.
RunAnyway(r) == holder' = r

\* pg_try_advisory_lock; held by another session, the run is skipped.
TryLock(r) == holder = Nobody /\ holder' = r

\* Mutant: the lock is not given up.
KeepLock(r) == UNCHANGED holder

\* pg_advisory_unlock, in the finally clause.
Unlock(r) == holder' = Nobody

\* The process of r dies; its session lingers in the database ...
LoseSession(r) == holder' = IF holder = r THEN DeadSession ELSE holder

\* ... until the database drops it.
DropSession == holder = DeadSession /\ holder' = Nobody
=============================================================================
