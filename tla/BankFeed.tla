------------------------------- MODULE BankFeed -------------------------------
(***************************************************************************)
(* The Plaid feed of a bank account                                        *)
(* (backend/app/services/bank_feed/sync_service.py) over its register.     *)
(*                                                                         *)
(* The bank keeps a stream of changes; the connection keeps a cursor into  *)
(* it. A sync walks the stream page by page, stages the changes in its     *)
(* session and commits rows and cursor together. Any number of syncs may   *)
(* run at once: nothing keeps two users from pressing the button. The      *)
(* SELECT of a page flushes what the pages before it staged; the database  *)
(* then holds those rows for the sync, and other writers wait.             *)
(***************************************************************************)
EXTENDS BankRegister, SequencesExt

CONSTANTS Syncs,            \* requests of POST /connections/{id}/sync
          Unread,           \* the sync has not looked at the line
          MaxEvents         \* bound: changes at the bank

VARIABLES feed,             \* Plaid: the stream of changes
          cursor,           \* bank_feed_connections.last_sync_cursor
          sync,             \* the syncs in flight
          astray            \* history: lines the cursor does not answer for

feedVars == <<feed, cursor, sync, astray>>
vars == <<line, recon, view, feed, cursor, sync, astray>>

ASSUME FeedAssumption == /\ Unread \notin Row
                         /\ MaxEvents \in Nat
                         /\ FeedKeys \cap (FileKeys \cup ManualKeys) = {}

Change == [kind : {"added", "modified", "removed"}, key : FeedKeys, amount : Amounts]

\* The changes of line k, by their positions in the stream.
Changes(k) == {n \in DOMAIN feed : feed[n].key = k}

-----------------------------------------------------------------------------
(* The bank.                                                                *)

Happens(kind, k, amount) ==
    /\ Len(feed) < MaxEvents
    /\ feed' = Append(feed, [kind |-> kind, key |-> k, amount |-> amount])
    /\ UNCHANGED <<line, recon, view, cursor, sync, astray>>

BankAdds(k) ==
    Changes(k) = {} /\ \E amount \in Amounts : Happens("added", k, amount)

Known(k) == Changes(k) # {} /\ feed[Max(Changes(k))].kind # "removed"

BankModifies(k) ==
    Known(k) /\ \E amount \in Amounts \ {feed[Max(Changes(k))].amount} : Happens("modified", k, amount)

BankRemoves(k) == Known(k) /\ Happens("removed", k, feed[Max(Changes(k))].amount)

-----------------------------------------------------------------------------
(* A sync.  read[k] is the row as the session first read it, row[k] as the *)
(* session has it now; held are the lines it has flushed.                  *)

Ended == [from |-> 0, at |-> 0, read |-> <<>>, row |-> <<>>, held |-> {}, kept |-> {}]
Running(s) == sync[s] # Ended

BeginSync(s) ==
    /\ ~Running(s)
    /\ Overlap \/ \A u \in Users : ~Busy(u)
    /\ sync' = [sync EXCEPT ![s] = [from |-> cursor, at |-> cursor,
                  read |-> [k \in FeedKeys |-> Unread], row |-> [k \in FeedKeys |-> Unread],
                  held |-> {}, kept |-> {}]]
    /\ UNCHANGED <<line, recon, view, feed, cursor, astray>>

\* The row of line k in the session: its own copy, or the committed row.
Shown(s, k) == IF sync[s].read[k] = Unread THEN line[k] ELSE sync[s].row[k]

\* "Never mutate a line that a completed reconciliation depends on."
Retained(row) == row.status = "cleared" \/ row.recon # NoRecon

\* _apply_page, for one change and the row it finds.
Applied(row, change) ==
    CASE change.kind = "added"    -> IF Present(row) THEN row ELSE Inserted(row, change.amount)
      [] change.kind = "modified" -> IF ~Present(row) THEN Inserted(row, change.amount)
                                     ELSE IF Retained(row) THEN row
                                     ELSE [row EXCEPT !.amount = change.amount]
      [] change.kind = "removed"  -> IF Present(row) /\ ~Retained(row) THEN Removed(row) ELSE row

Staged(s) == {k \in FeedKeys : sync[s].read[k] # sync[s].row[k]}

\* A flush is refused: an INSERT meets a row that came in meanwhile, an UPDATE
\* misses its row.
Clash(s, k) ==
    LET read == sync[s].read[k]  row == sync[s].row[k] IN
    /\ Present(row)
    /\ IF Present(read) THEN ~Present(line[k]) \/ line[k].id # read.id ELSE Present(line[k])

\* Line k is held by a sync other than s.
HeldFrom(s, k) == \E other \in Syncs \ {s} : k \in sync[other].held

\* What s has staged can be written: not refused, and nobody to wait for.
Flushes(s) == \A k \in Staged(s) \ sync[s].held : ~Clash(s, k) /\ ~HeldFrom(s, k)

\* One page: the changes after the cursor up to next, each line at most once.
ApplyPage(s) ==
    /\ Running(s)
    /\ Flushes(s)
    /\ \E next \in sync[s].at + 1 .. Len(feed) :
         LET page == sync[s].at + 1 .. next
             hit  == {feed[n].key : n \in page}
             of(k) == CHOOSE n \in page : feed[n].key = k
         IN
         /\ Cardinality(hit) = next - sync[s].at
         /\ \A k \in hit : Present(Shown(s, k)) \/ Shown(s, k).id < MaxRows
         /\ sync' = [sync EXCEPT ![s] =
              [from |-> @.from, at |-> next,
               read |-> [k \in FeedKeys |-> IF k \in hit /\ @.read[k] = Unread THEN line[k] ELSE @.read[k]],
               row  |-> [k \in FeedKeys |-> IF k \in hit THEN Applied(Shown(s, k), feed[of(k)]) ELSE @.row[k]],
               held |-> @.held \cup Staged(s),
               kept |-> @.kept \cup {k \in hit : /\ feed[of(k)].kind # "added"
                                                 /\ Present(Shown(s, k)) /\ Retained(Shown(s, k))}]]
    /\ UNCHANGED <<line, recon, view, feed, cursor, astray>>

\* What the commit leaves of the row of line k: only the amount of a line is
\* written, and a DELETE that finds no row is no error.
Flushed(s, k) ==
    LET read == sync[s].read[k]  row == sync[s].row[k] IN
    IF Present(read) /\ Present(row) THEN [line[k] EXCEPT !.amount = row.amount]
    ELSE IF Present(row) THEN Inserted(line[k], row.amount)
    ELSE IF line[k].id = read.id THEN Removed(line[k])
    ELSE line[k]

\* Mutant: the cursor is committed ahead of the rows.
CommitCursorFirst(s) ==
    /\ Running(s)
    /\ cursor' = sync[s].at
    /\ sync' = [sync EXCEPT ![s] = Ended]
    /\ UNCHANGED <<line, recon, view, feed, astray>>

\* Another sync has moved the cursor since s began: s writes rows it read long
\* ago, and its own cursor over the other's.
Overtaken(s) == sync[s].from \notin {cursor, sync[s].at}

\* The single commit, after the last page, after MAX_SYNC_PAGES of them, or
\* when Plaid fails: the pages applied so far and the cursor behind them. An
\* unchanged cursor is not written.
CommitSync(s) ==
    /\ Running(s)
    /\ Flushes(s)
    /\ \A k \in Staged(s) : line[k].id < MaxRows \/ ~Present(sync[s].row[k]) \/ Present(sync[s].read[k])
    /\ line' = [k \in Keys |-> IF k \in Staged(s) \cup sync[s].held THEN Flushed(s, k) ELSE line[k]]
    /\ cursor' = IF sync[s].at = sync[s].from THEN cursor ELSE sync[s].at
    /\ astray' = IF Overtaken(s) THEN FeedKeys ELSE astray \cup sync[s].kept
    /\ sync' = [sync EXCEPT ![s] = Ended]
    /\ UNCHANGED <<recon, view, feed>>

\* A crash, or a commit that is refused: nothing of the sync remains.
AbortSync(s) ==
    /\ Running(s)
    /\ sync' = [sync EXCEPT ![s] = Ended]
    /\ UNCHANGED <<line, recon, view, feed, cursor, astray>>

-----------------------------------------------------------------------------

Init == /\ RegisterInit
        /\ feed = <<>> /\ cursor = 0
        /\ sync = [s \in Syncs |-> Ended]
        /\ astray = {}

\* The write of a user waits for the syncs that hold the line.
Waits == \A k \in FeedKeys : line'[k] # line[k] => \A s \in Syncs : k \notin sync[s].held

Request(u) ==
    \/ /\ Overlap \/ \A s \in Syncs : ~Running(s)
       /\ Load(u)
       /\ UNCHANGED feedVars
    \/ Edit(u) /\ Waits /\ UNCHANGED feedVars
    \/ \E k \in Keys : /\ DeleteTransaction(u, k)
                       /\ Waits
                       /\ astray' = astray \cup (FeedKeys \cap {k})
                       /\ UNCHANGED <<feed, cursor, sync>>

Next == \/ \E u \in Users : Request(u)
        \/ \E k \in FeedKeys : BankAdds(k) \/ BankModifies(k) \/ BankRemoves(k)
        \/ \E s \in Syncs : BeginSync(s) \/ ApplyPage(s) \/ CommitSync(s) \/ AbortSync(s)

Spec == Init /\ [][Next]_vars

-----------------------------------------------------------------------------
(* Properties.                                                              *)

\* The types of the variables.
TypeOK ==
    /\ line \in [Keys -> Row]
    /\ recon \in [Recons -> Statement]
    /\ \A u \in Users : Busy(u) => /\ view[u].line \in [Keys -> Row]
                                   /\ view[u].recon \in [Recons -> Statement]
    /\ feed \in Seq(Change) /\ cursor \in 0 .. Len(feed)
    /\ \A s \in Syncs : Running(s) =>
         /\ sync[s].from \in 0 .. Len(feed) /\ sync[s].at \in 0 .. Len(feed)
         /\ sync[s].read \in [FeedKeys -> Row \cup {Unread}]
         /\ sync[s].row \in [FeedKeys -> Row \cup {Unread}]
         /\ sync[s].held \subseteq FeedKeys
    /\ astray \in SUBSET FeedKeys

\* What the register holds of a line, and what the first p changes make of line k.
Holds(row) == IF Present(row) THEN {row.amount} ELSE {}
AtBank(k, p) ==
    LET past == {n \in Changes(k) : n <= p} IN
    IF past = {} \/ feed[Max(past)].kind = "removed" THEN {} ELSE {feed[Max(past)].amount}

\* "Only advance once the page's rows are staged, so a later failure resumes
\* from this page instead of skipping it": a line is what the stream makes of it
\* up to the cursor, unless a person deleted it or kept it from a change, or a
\* sync that another had overtaken was committed.
CursorCovers == \A k \in FeedKeys \ astray : Holds(line[k]) = AtBank(k, cursor)

\* Where no person acts, a register whose cursor has come to the end of the stream
\* shows what the bank shows. Syncs that overlap break it.
CaughtUp == cursor = Len(feed) => \A k \in FeedKeys : Holds(line[k]) = AtBank(k, Len(feed))

\* _apply_page: "Never mutate a line that a completed reconciliation depends
\* on": while a reconciliation stays completed, its lines stay as they are.
LockedLines ==
    [][\A k \in Keys : LET r == line[k].recon IN
         r # NoRecon /\ recon[r].status = "completed" /\ recon'[r].status = "completed"
           => line'[k] = line[k]]_vars
=============================================================================
