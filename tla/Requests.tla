------------------------------ MODULE Requests ------------------------------
(***************************************************************************)
(* Requests that share a row without locking it (backend/app/database.py,  *)
(* get_db: READ COMMITTED, no version column). A request reads the row,    *)
(* decides from what it read and commits later; SQLAlchemy then updates    *)
(* only the columns whose value it changed. So between the two steps a     *)
(* request is nothing but the UPDATE it is going to send.                  *)
(***************************************************************************)
CONSTANTS Calls,     \* requests that can be under way at a time
          Nothing    \* no request; a column that is not updated; no party

VARIABLES calls,       \* the UPDATE each request under way will send
          overlapped   \* rows that two requests have had in hand at once

\* The value a request sends for a column it read as old: SQLAlchemy leaves
\* out a column that is set to the value it had.
Sent(new, old) == IF new = old THEN Nothing ELSE new

Written(sent, now) == IF sent = Nothing THEN now ELSE sent

\* A request has read the row, decided, and will send the update.
Decide(c, update) ==
    /\ calls[c] = Nothing
    /\ calls' = [calls EXCEPT ![c] = update]
    /\ overlapped' = IF \E d \in Calls : calls[d] # Nothing /\ calls[d].row = update.row
                     THEN overlapped \cup {update.row} ELSE overlapped

Finish(c) ==
    /\ calls[c] # Nothing
    /\ calls' = [calls EXCEPT ![c] = Nothing]
    /\ UNCHANGED overlapped

Committing(c, row) == calls[c] # Nothing /\ calls[c].row = row
=============================================================================
