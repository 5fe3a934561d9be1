------------------------------ MODULE QuickBooks ------------------------------
(***************************************************************************)
(* The push of journal entries to QuickBooks Online                        *)
(* (backend/app/services/quickbooks/sync_service.py and client.py,         *)
(* routers/quickbooks.py), with the part of QuickBooks it relies on.       *)
(*                                                                         *)
(* A push reads the entries that have no sync row from its cursor on, at   *)
(* most Limit of them, and takes them oldest first: it asks QuickBooks for *)
(* the entry's DocNumber, creates what is not there and flushes a sync row.*)
(* The rows of a push and its cursor are committed once, at the end. Every *)
(* call to QuickBooks is a step of its own and may fail, or succeed and    *)
(* lose its answer; the client repeats it then. A push takes no lock:      *)
(* whoever clicks twice has two of them.                                   *)
(*                                                                         *)
(* Tokens are left out: a refresh that fails is a push that does not start,*)
(* and a token that is refused during a push fails the call like any other.*)
(***************************************************************************)
EXTENDS Integers, FiniteSetsExt

CONSTANTS Entries,          \* journal entries: numbers, by created_at and id
          Twins,            \* entries created at one instant
          InOrder,          \* do entries become visible in the order of created_at?
          Mappable,         \* entries with an account that is mapped and unmapped
          Companies,        \* QuickBooks companies (realm_id)
          Pushers,          \* requests for a push
          Limit,            \* QBO_PUSH_BATCH_LIMIT
          Retries,          \* QBO_MAX_RETRIES
          MaxFaults         \* failed calls, lost answers and crashes

VARIABLES entry,            \* journal_entries: status
          mapped,           \* entries whose accounts are all mapped
          synced,           \* quickbooks_entry_syncs
          conn,             \* quickbooks_connections
          posted,           \* QuickBooks: entries with the DocNumber, per company
          push,             \* the push each request is in
          faults

local == <<entry, mapped, synced>>
vars  == <<local, conn, posted, push, faults>>

ASSUME EntriesAssumption ==
    /\ Entries \subseteq Nat \ {0} /\ Twins \subseteq Entries /\ Mappable \subseteq Entries
    /\ \A d, e \in Twins, x \in Entries : d <= x /\ x <= e => x \in Twins
    /\ InOrder \in BOOLEAN /\ Limit \in Nat \ {0}
    /\ Retries \in Nat /\ MaxFaults \in Nat /\ "none" \notin Companies

\* Entries of one transaction may share their created_at.
CreatedAt(e) == IF e \in Twins THEN Min(Twins) ELSE e

\* cursor = 0: last_sync_cursor is null.
NoConnection == [realm |-> "none", cursor |-> 0]
Cursors == {0} \cup {CreatedAt(e) : e \in Entries}
Idle == [step |-> "idle"]
Push == [step : {"find", "create", "record", "finish"}, todo : SUBSET Entries,
         mapped : SUBSET Entries,      \* the account map as it was read
         flushed : SUBSET Entries,     \* sync rows that are not committed yet
         realm : Companies, cursor : Cursors,
         tries : 0 .. Retries,         \* repeats of the call under way
         stale : BOOLEAN]              \* the connection it loaded is gone

-----------------------------------------------------------------------------
(* The books, the account map and the connection.                           *)

\* create_journal_entry: the entry becomes visible when its posting commits.
PostEntry(e) ==
    /\ entry[e] = "absent"
    /\ InOrder => \A d \in Entries : d < e => entry[d] # "absent"
    /\ entry' = [entry EXCEPT ![e] = "posted"]
    /\ UNCHANGED <<mapped, synced, conn, posted, push, faults>>

\* delete_entries_by_source: the sync row goes with its entry; a row flushed and not
\* committed holds the entry.
DeleteEntry(e) ==
    /\ entry[e] = "posted"
    /\ \A u \in Pushers : push[u] # Idle => e \notin push[u].flushed
    /\ entry' = [entry EXCEPT ![e] = "deleted"]
    /\ synced' = synced \ {e}
    /\ UNCHANGED <<mapped, conn, posted, push, faults>>

\* update_account_mapping, pull_chart_of_accounts
ChangeMapping(e) ==
    /\ mapped' = IF e \in mapped THEN mapped \ {e} ELSE mapped \cup {e}
    /\ UNCHANGED <<entry, synced, conn, posted, push, faults>>

\* store_connection: another company resets the cursor and nothing else.
Connect(realm) ==
    /\ conn.realm # realm
    /\ conn' = [realm |-> realm, cursor |-> 0]
    /\ UNCHANGED <<local, posted, push, faults>>

\* disconnect: the sync rows are kept.
Disconnect ==
    /\ conn # NoConnection
    /\ conn' = NoConnection
    /\ push' = [u \in Pushers |-> IF push[u] = Idle THEN Idle ELSE [push[u] EXCEPT !.stale = TRUE]]
    /\ UNCHANGED <<local, posted, faults>>

-----------------------------------------------------------------------------
(* A push.                                                                  *)

\* Mutant: the cursor is exclusive.
After(e) == entry[e] = "posted" /\ e \notin synced /\ CreatedAt(e) > conn.cursor

\* _candidate_entries, without its limit: the cursor is inclusive.
Unsent(e) == entry[e] = "posted" /\ e \notin synced /\ CreatedAt(e) >= conn.cursor

\* The oldest of them, at most Limit.
Candidates ==
    {e \in Entries : Unsent(e) /\ Cardinality({d \in Entries : d < e /\ Unsent(d)}) < Limit}

Start(u) ==
    /\ push[u] = Idle /\ conn # NoConnection /\ Candidates # {}
    /\ push' = [push EXCEPT ![u] =
         [step |-> "find", todo |-> Candidates, mapped |-> mapped, flushed |-> {},
          realm |-> conn.realm, cursor |-> conn.cursor, tries |-> 0, stale |-> FALSE]]
    /\ UNCHANGED <<local, conn, posted, faults>>

\* The entry u is at: the oldest left.
Current(u) == Min(push[u].todo)
Goes(u, step) == push' = [push EXCEPT ![u].step = step]

IsLast(u) == push[u].todo = {Current(u)}

\* The push of u with that entry dealt with.
Advanced(u) == [push[u] EXCEPT !.todo = @ \ {Current(u)}, !.tries = 0,
                               !.step = IF IsLast(u) THEN "finish" ELSE "find"]

\* build_journal_entry_payload refuses an entry with an unmapped account.
SkipUnmapped(u) ==
    /\ push[u].step = "find" /\ Current(u) \notin push[u].mapped
    /\ push' = [push EXCEPT ![u] = Advanced(u)]
    /\ UNCHANGED <<local, conn, posted, faults>>

\* Mutant: QuickBooks is not asked.
NeverFound(u) == FALSE

InQuickBooks(u) == posted[push[u].realm][Current(u)] > 0

\* find_journal_entry_by_doc_number; what is there is adopted.
Find(u) ==
    /\ push[u].step = "find" /\ Current(u) \in push[u].mapped
    /\ Goes(u, IF InQuickBooks(u) THEN "record" ELSE "create")
    /\ UNCHANGED <<local, conn, posted, faults>>

\* QuickBooks takes the entry, whether or not it has one with the DocNumber.
Land(u) == posted' = [posted EXCEPT ![push[u].realm][Current(u)] = @ + 1]

\* create_journal_entry of the client, and the answer arrives.
Create(u) ==
    /\ push[u].step = "create"
    /\ Land(u)
    /\ Goes(u, "record")
    /\ UNCHANGED <<local, conn, faults>>

Fault == faults < MaxFaults /\ faults' = faults + 1

\* Mutant: a call that failed is taken for one that was answered.
TakenForDone(u) == Goes(u, "record")

\* Mutant: the loop goes on with the next entry.
PassedBy(u) == push' = [push EXCEPT ![u] = Advanced(u)]

\* An error ends the loop; what was done so far is committed.
BreakOff(u) == Goes(u, "finish")

\* The search fails for good.
FindFails(u) ==
    /\ push[u].step = "find" /\ Current(u) \in push[u].mapped
    /\ Fault
    /\ BreakOff(u)
    /\ UNCHANGED <<local, conn, posted>>

\* _request: an attempt to create the entry fails, or lands and its answer is lost. The
\* client sends it again, without another look, until its attempts are used up.
CreateFails(u) ==
    /\ push[u].step = "create"
    /\ Fault
    /\ Land(u) \/ UNCHANGED posted
    /\ \/ push[u].tries < Retries /\ push' = [push EXCEPT ![u].tries = @ + 1]
       \/ push[u].tries = Retries /\ BreakOff(u)
    /\ UNCHANGED <<local, conn>>

\* The row exists, or its entry no longer does: the flush raises IntegrityError.
Conflict(u) == Current(u) \in synced \/ entry[Current(u)] # "posted"

\* The sync row is flushed; it waits for another push that holds the same row.
Record(u) ==
    /\ push[u].step = "record" /\ ~Conflict(u)
    /\ \A v \in Pushers \ {u} : push[v] # Idle => Current(u) \notin push[v].flushed
    /\ push' = [push EXCEPT ![u] = [Advanced(u) EXCEPT !.flushed = @ \cup {Current(u)},
                                                       !.cursor = CreatedAt(Current(u))]]
    /\ UNCHANGED <<local, conn, posted, faults>>

\* The rollback takes the rows flushed so far along and expires the entries that are
\* left: reading the next one fails, and the request with it.
RollBack(u) ==
    /\ push[u].step = "record" /\ Conflict(u)
    /\ push' = [push EXCEPT ![u] =
         IF IsLast(u) THEN [Advanced(u) EXCEPT !.flushed = {}] ELSE Idle]
    /\ UNCHANGED <<local, conn, posted, faults>>

\* The commit of push_journal_entries. It fails as a whole when the connection is gone.
Commit(u) ==
    /\ push[u].step = "finish"
    /\ push' = [push EXCEPT ![u] = Idle]
    /\ IF push[u].stale
         THEN UNCHANGED <<synced, conn>>
         ELSE /\ synced' = synced \cup push[u].flushed
              /\ conn' = [conn EXCEPT !.cursor = push[u].cursor]
    /\ UNCHANGED <<entry, mapped, posted, faults>>

\* The process dies; nothing it flushed is there.
Crash(u) ==
    /\ push[u] # Idle
    /\ Fault
    /\ push' = [push EXCEPT ![u] = Idle]
    /\ UNCHANGED <<local, conn, posted>>

Init ==
    /\ entry = [e \in Entries |-> "absent"]
    /\ mapped = Entries \ Mappable
    /\ synced = {}
    /\ conn = NoConnection
    /\ posted = [realm \in Companies |-> [e \in Entries |-> 0]]
    /\ push = [u \in Pushers |-> Idle]
    /\ faults = 0

Step(u) ==
    \/ SkipUnmapped(u) \/ Find(u) \/ FindFails(u) \/ Create(u) \/ CreateFails(u)
    \/ Record(u) \/ RollBack(u) \/ Commit(u)

Next ==
    \/ \E e \in Entries : PostEntry(e) \/ DeleteEntry(e)
    \/ \E e \in Mappable : ChangeMapping(e)
    \/ \E realm \in Companies : Connect(realm)
    \/ Disconnect
    \/ \E u \in Pushers : Start(u) \/ Step(u) \/ Crash(u)

\* A request that was started goes on unless its process dies.
Spec == Init /\ [][Next]_vars /\ \A u \in Pushers : WF_vars(Step(u))

-----------------------------------------------------------------------------
(* Properties.                                                              *)

\* Every variable holds what the code may store in it; a sync row, committed or not,
\* belongs to an entry that exists.
TypeOK ==
    /\ entry \in [Entries -> {"absent", "posted", "deleted"}]
    /\ mapped \subseteq Entries
    /\ synced \subseteq Entries /\ \A e \in synced : entry[e] = "posted"
    /\ conn \in [realm : Companies, cursor : Cursors] \cup {NoConnection}
    /\ posted \in [Companies -> [Entries -> Nat]]
    /\ push \in [Pushers -> Push \cup {Idle}]
    /\ \A u \in Pushers : push[u] # Idle => \A e \in push[u].flushed : entry[e] = "posted"
    /\ faults \in 0 .. MaxFaults

\* QuickBooks has an entry at most once, whatever failed, died or lost its answer
\* before: "a retry adopts the existing QuickBooks entry instead of double-posting"
\* (docs/INTEGRATIONS.md). It takes one push at a time and a client that does not
\* repeat the call.
PostedOnce == \A realm \in Companies, e \in Entries : posted[realm][e] <= 1

\* What the sync table says was sent is in QuickBooks ("the sync table is the authority
\* on what has already been sent", sync_service.py).
SyncedIsThere == \A e \in synced : \E realm \in Companies : posted[realm][e] > 0

\* The cursor never passes an entry that QuickBooks does not have. Not so for an entry
\* that was skipped for an unmapped account: later ones take the cursor past it.
CursorCovers ==
    \A e \in Entries \ Mappable :
        entry[e] = "posted" /\ CreatedAt(e) < conn.cursor => posted[conn.realm][e] > 0

\* As long as the staff push whenever there is something to push, every entry whose
\* accounts stay mapped gets to QuickBooks or is deleted, also when pushes fail now and
\* then and when unmapped entries take their part of each batch.
EveryEntryArrives ==
    SF_vars(\E u \in Pushers : Start(u)) /\ <>[](conn # NoConnection)
      => \A e \in Entries \ Mappable :
            entry[e] = "posted" ~> entry[e] = "deleted" \/ \E realm \in Companies : posted[realm][e] > 0
=============================================================================
