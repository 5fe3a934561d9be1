---------------------------- MODULE QuickBooksProofs ----------------------------
(***************************************************************************)
(* Proofs about QuickBooks, for any entries, companies and requests and    *)
(* any number of faults.                                                   *)
(*                                                                         *)
(* TypeOK needs to know that a push that is not finished has an entry to   *)
(* deal with (Busy). That the sync table is right (SyncedIsThere) rests on *)
(* the same for rows not yet committed and for the entry about to be       *)
(* recorded (Sent). That QuickBooks has an entry once (PostedOnce) rests   *)
(* on the entry about to be created not being there (NotThere), which      *)
(* takes a single request and a client that does not repeat the call. That *)
(* the cursor passes nothing (CursorCovers) rests on the same for the      *)
(* cursor of every push under way (Passed), on a push leaving nothing out  *)
(* that is older than what it has left (Reached) and on entries becoming   *)
(* visible in their order (NoGap).                                         *)
(***************************************************************************)
EXTENDS QuickBooks, WellFoundedInduction, FiniteSetTheorems, TLAPS

At(u, step) == push[u] # Idle /\ push[u].step = step

Has(e) == \E realm \in Companies : posted[realm][e] > 0

\* A push that is not finished has an entry to deal with, and the connection it was
\* started on exists until it is dropped.
Busy ==
    \A u \in Pushers : push[u] # Idle =>
        /\ push[u].step # "finish" => push[u].todo # {}
        /\ ~push[u].stale => conn # NoConnection

Typed == EntriesAssumption /\ TypeOK /\ Busy

\* What was or is being recorded as sent is in QuickBooks.
Sent ==
    \A u \in Pushers : push[u] # Idle =>
        /\ \A e \in push[u].flushed : Has(e)
        /\ push[u].step = "record" => posted[push[u].realm][Current(u)] > 0

\* What is about to be created is not there.
NotThere == \A u \in Pushers : At(u, "create") => posted[push[u].realm][Current(u)] = 0

-----------------------------------------------------------------------------
(* Lemmas.                                                                  *)

\* A set of entries that is not empty has a smallest element.
LEMMA MinOfEntries ==
    ASSUME NEW S \in SUBSET Entries, S # {}
    PROVE  Min(S) \in S /\ \A x \in S : Min(S) <= x
<1>1. S \in SUBSET Nat
  BY EntriesAssumption DEF EntriesAssumption
<1>2. PICK x \in S : \A y \in S : <<y, x>> \notin OpToRel(<, Nat)
  BY <1>1, NatLessThanWellFounded, WFMin, Zenon
<1>3. \A y \in S : x <= y
  <2> TAKE y \in S
  <2>1. <<y, x>> \notin OpToRel(<, Nat) /\ x \in Nat /\ y \in Nat
    BY <1>1, <1>2
  <2> QED
    BY <2>1 DEF OpToRel
<1> QED
  BY <1>3 DEF Min

\* A request that is idle is at no step of a push.
LEMMA IdleStep == Idle.step = "idle"
  BY DEF Idle

\* A push that is not finished is at one of its entries.
LEMMA CurrentIsEntry ==
    ASSUME Typed, NEW u \in Pushers, push[u] # Idle, push[u].step # "finish"
    PROVE  Current(u) \in push[u].todo /\ Current(u) \in Entries
<1>1. push[u].todo \in SUBSET Entries /\ push[u].todo # {}
  BY DEF Typed, TypeOK, Busy, Push
<1> QED
  BY <1>1, MinOfEntries DEF Current

\* The instant of an entry is a value the cursor may have.
LEMMA InstantIsCursor == ASSUME NEW e \in Entries PROVE CreatedAt(e) \in Cursors
  BY DEF Cursors

\* A push with one field changed is a push.
LEMMA PushField ==
    ASSUME NEW p \in Push
    PROVE  /\ \A s \in {"find", "create", "record", "finish"} : [p EXCEPT !.step = s] \in Push
           /\ \A S \in SUBSET Entries : [p EXCEPT !.todo = S] \in Push
           /\ \A S \in SUBSET Entries : [p EXCEPT !.flushed = S] \in Push
           /\ \A n \in 0 .. Retries : [p EXCEPT !.tries = n] \in Push
           /\ \A c \in Cursors : [p EXCEPT !.cursor = c] \in Push
           /\ \A b \in BOOLEAN : [p EXCEPT !.stale = b] \in Push
<1>1. \A s \in {"find", "create", "record", "finish"} : [p EXCEPT !.step = s] \in Push
  BY DEF Push
<1>2. \A S \in SUBSET Entries : [p EXCEPT !.todo = S] \in Push
  BY DEF Push
<1>3. \A S \in SUBSET Entries : [p EXCEPT !.flushed = S] \in Push
  BY DEF Push
<1>4. \A n \in 0 .. Retries : [p EXCEPT !.tries = n] \in Push
  BY EntriesAssumption DEF Push, EntriesAssumption
<1>5. \A c \in Cursors : [p EXCEPT !.cursor = c] \in Push
  BY DEF Push
<1>6. \A b \in BOOLEAN : [p EXCEPT !.stale = b] \in Push
  BY DEF Push
<1> QED
  BY <1>1, <1>2, <1>3, <1>4, <1>5, <1>6

\* A push that is not idle is not Idle, whichever its fields.
LEMMA PushIsNotIdle == \A p \in Push : p # Idle
  BY DEF Push, Idle

\* A push that has dealt with its entry is a push, with something to do or finished.
LEMMA AdvancedType ==
    ASSUME Typed, NEW u \in Pushers, push[u] # Idle, push[u].step # "finish"
    PROVE  /\ Advanced(u) \in Push /\ Advanced(u) # Idle
           /\ Advanced(u).step # "finish" => Advanced(u).todo # {}
           /\ Advanced(u).step \in {"find", "finish"}
           /\ Advanced(u).flushed = push[u].flushed /\ Advanced(u).realm = push[u].realm
           /\ Advanced(u).stale = push[u].stale
<1>1. push[u] \in Push
  BY DEF Typed, TypeOK
<1>2. Current(u) \in push[u].todo
  BY CurrentIsEntry
<1> DEFINE left == push[u].todo \ {Current(u)}
           step == IF IsLast(u) THEN "finish" ELSE "find"
           p == [push[u] EXCEPT !.todo = left]
           q == [p EXCEPT !.tries = 0]
           r == [q EXCEPT !.step = step]
<1>3. left \in SUBSET Entries /\ step \in {"find", "finish"} /\ 0 \in 0 .. Retries
  BY <1>1, EntriesAssumption DEF Push, EntriesAssumption
<1>4. p \in Push /\ p.flushed = push[u].flushed /\ p.realm = push[u].realm /\ p.stale = push[u].stale /\ p.todo = left
  <2>1. p \in Push
    BY <1>1, <1>3, PushField
  <2> HIDE DEF left
  <2> QED
    BY <1>1, <2>1 DEF Push
<1> HIDE DEF left, step, p
<1>5. q \in Push /\ q.flushed = p.flushed /\ q.realm = p.realm /\ q.stale = p.stale /\ q.todo = p.todo
  <2>1. q \in Push
    BY <1>3, <1>4, PushField
  <2> QED
    BY <1>4, <2>1 DEF Push
<1> HIDE DEF q
<1>6. r \in Push /\ r.flushed = q.flushed /\ r.realm = q.realm /\ r.stale = q.stale /\ r.todo = q.todo /\ r.step = step
  <2>1. r \in Push
    BY <1>3, <1>5, PushField
  <2> QED
    BY <1>5, <2>1 DEF Push
<1>7. Advanced(u) = r
  BY DEF Advanced, r, q, p, left, step
<1> HIDE DEF r
<1>8. r # Idle
  BY <1>6, PushIsNotIdle
<1>9. step # "finish" => left # {}
  BY <1>2 DEF step, left, IsLast
<1> QED
  BY <1>3, <1>4, <1>5, <1>6, <1>7, <1>8, <1>9

\* A push that moves on to a well-formed state, with the books and the connection as
\* they were.
LEMMA PushMoves ==
    ASSUME Typed, NEW u \in Pushers, NEW p \in Push,
           push' = [push EXCEPT ![u] = p], UNCHANGED <<local, conn>>,
           \A e \in p.flushed : entry[e] = "posted",
           p.step # "finish" => p.todo # {},
           ~p.stale => conn # NoConnection,
           posted' \in [Companies -> [Entries -> Nat]], faults' \in 0 .. MaxFaults
    PROVE  Typed'
<1>1. push \in [Pushers -> Push \cup {Idle}]
  BY DEF Typed, TypeOK
<1>2. /\ push' \in [Pushers -> Push \cup {Idle}]
      /\ push'[u] = p /\ \A v \in Pushers : v # u => push'[v] = push[v]
  BY <1>1
<1>3. Busy'
  BY <1>2 DEF Typed, Busy
<1>4. \A v \in Pushers : push'[v] # Idle => \A e \in push'[v].flushed : entry'[e] = "posted"
  BY <1>2 DEF Typed, TypeOK, local
<1> QED
  BY <1>2, <1>3, <1>4 DEF Typed, TypeOK, local

\* A push that ends.
LEMMA PushEnds ==
    ASSUME Typed, NEW u \in Pushers,
           push' = [push EXCEPT ![u] = Idle], UNCHANGED entry,
           conn = NoConnection \/ conn' # NoConnection
    PROVE  /\ push' \in [Pushers -> Push \cup {Idle}]
           /\ \A v \in Pushers : push'[v] # Idle => \A e \in push'[v].flushed : entry'[e] = "posted"
           /\ Busy'
<1>1. push \in [Pushers -> Push \cup {Idle}]
  BY DEF Typed, TypeOK
<1>2. /\ push' \in [Pushers -> Push \cup {Idle}]
      /\ push'[u] = Idle /\ \A v \in Pushers : v # u => push'[v] = push[v]
  BY <1>1
<1>3. \A v \in Pushers : push'[v] # Idle => \A e \in push'[v].flushed : entry'[e] = "posted"
  BY <1>2 DEF Typed, TypeOK
<1>4. Busy'
  BY <1>2 DEF Typed, Busy
<1> QED
  BY <1>2, <1>3, <1>4

\* What the step of a push says of it.
LEMMA PushOf ==
    ASSUME Typed, NEW u \in Pushers, NEW step \in {"find", "create", "record", "finish"},
           push[u].step = step
    PROVE  /\ push[u] # Idle /\ push[u] \in Push
           /\ \A e \in push[u].flushed : entry[e] = "posted"
           /\ step # "finish" => push[u].todo # {}
           /\ ~push[u].stale => conn # NoConnection
  BY IdleStep DEF Typed, TypeOK, Busy

\* A push that is at one of its entries and goes to another step of it, or ends early.
LEMMA GoesType ==
    ASSUME Typed, NEW u \in Pushers, NEW from \in {"find", "create", "record"}, push[u].step = from,
           NEW to \in {"find", "create", "record", "finish"}, Goes(u, to), UNCHANGED <<local, conn>>,
           posted' \in [Companies -> [Entries -> Nat]], faults' \in 0 .. MaxFaults
    PROVE  Typed'
<1>1. /\ push[u] # Idle /\ push[u] \in Push /\ push[u].todo # {}
      /\ \A e \in push[u].flushed : entry[e] = "posted"
      /\ ~push[u].stale => conn # NoConnection
  BY PushOf
<1> DEFINE p == [push[u] EXCEPT !.step = to]
<1>2. p \in Push
  BY <1>1, PushField
<1>3. p.flushed = push[u].flushed /\ p.todo = push[u].todo /\ p.stale = push[u].stale
  BY <1>1, <1>2 DEF Push
<1>4. push' = [push EXCEPT ![u] = p]
  BY DEF Goes
<1> HIDE DEF p
<1> QED
  BY <1>1, <1>2, <1>3, <1>4, PushMoves

\* QuickBooks has a number of entries per company and entry, after a create as before.
LEMMA LandType ==
    ASSUME Typed, NEW u \in Pushers, push[u].step = "create", Land(u)
    PROVE  /\ posted' \in [Companies -> [Entries -> Nat]]
           /\ posted'[push[u].realm][Current(u)] = posted[push[u].realm][Current(u)] + 1
           /\ push[u].realm \in Companies /\ Current(u) \in Entries
           /\ \A realm \in Companies, e \in Entries :
                 <<realm, e>> # <<push[u].realm, Current(u)>> => posted'[realm][e] = posted[realm][e]
<1>1. push[u] # Idle /\ push[u] \in Push
  BY PushOf
<1>2. push[u].realm \in Companies /\ Current(u) \in Entries
  BY <1>1, CurrentIsEntry DEF Push
<1>3. posted \in [Companies -> [Entries -> Nat]]
  BY DEF Typed, TypeOK
<1> QED
  BY <1>2, <1>3 DEF Land

-----------------------------------------------------------------------------
(* Types.                                                                   *)

LEMMA TypeInit == Init => Typed
  BY EntriesAssumption DEF Init, Typed, TypeOK, Busy, EntriesAssumption, Idle

LEMMA TypeNext == Typed /\ [Next]_vars => Typed'
<1> SUFFICES ASSUME Typed, [Next]_vars PROVE Typed'
  OBVIOUS
<1> USE DEF local
<1>t. /\ entry \in [Entries -> {"absent", "posted", "deleted"}] /\ mapped \subseteq Entries
      /\ synced \subseteq Entries /\ \A e \in synced : entry[e] = "posted"
      /\ conn \in [realm : Companies, cursor : Cursors] \cup {NoConnection}
      /\ posted \in [Companies -> [Entries -> Nat]]
      /\ push \in [Pushers -> Push \cup {Idle}]
      /\ \A u \in Pushers : push[u] # Idle => \A e \in push[u].flushed : entry[e] = "posted"
      /\ faults \in 0 .. MaxFaults /\ MaxFaults \in Nat /\ Mappable \subseteq Entries
  BY DEF Typed, TypeOK, EntriesAssumption
<1>1. CASE UNCHANGED vars
  BY <1>1 DEF vars, Typed, TypeOK, Busy
<1>2. ASSUME NEW e \in Entries, PostEntry(e) PROVE Typed'
  BY <1>2 DEF PostEntry, Typed, TypeOK, Busy
<1>3. ASSUME NEW e \in Entries, DeleteEntry(e) PROVE Typed'
  BY <1>3 DEF DeleteEntry, Typed, TypeOK, Busy
<1>4. ASSUME NEW e \in Mappable, ChangeMapping(e) PROVE Typed'
  BY <1>t, <1>4 DEF ChangeMapping, Typed, TypeOK, Busy
<1>5. ASSUME NEW realm \in Companies, Connect(realm) PROVE Typed'
  <2>1. conn' \in [realm : Companies, cursor : Cursors] /\ conn' # NoConnection
    BY <1>5 DEF Connect, Cursors, NoConnection, Typed, EntriesAssumption
  <2> QED
    BY <1>t, <1>5, <2>1 DEF Connect, Typed, TypeOK, Busy
<1>6. CASE Disconnect
  <2>1. \A u \in Pushers : push[u] # Idle =>
          /\ push'[u] = [push[u] EXCEPT !.stale = TRUE] /\ push'[u] \in Push
          /\ push'[u].stale /\ push'[u].step = push[u].step
          /\ push'[u].todo = push[u].todo /\ push'[u].flushed = push[u].flushed
    <3> TAKE u \in Pushers
    <3> HAVE push[u] # Idle
    <3>1. push'[u] = [push[u] EXCEPT !.stale = TRUE]
      BY <1>6 DEF Disconnect
    <3>2. push[u] \in Push
      BY <1>t
    <3>3. \A b \in BOOLEAN : [push[u] EXCEPT !.stale = b] \in Push
      BY <3>2, PushField
    <3>4. push'[u] \in Push
      BY <3>1, <3>3
    <3> QED
      BY <3>1, <3>2, <3>4 DEF Push
  <2>2. \A u \in Pushers : push[u] = Idle => push'[u] = Idle
    BY <1>6 DEF Disconnect
  <2>3. push' \in [Pushers -> Push \cup {Idle}]
    <3>1. push' = [u \in Pushers |-> push'[u]]
      BY <1>6 DEF Disconnect
    <3> QED
      BY <2>1, <2>2, <3>1
  <2>4. Busy'
    BY <2>1, <2>2 DEF Typed, Busy
  <2>5. \A u \in Pushers : push'[u] # Idle => \A e \in push'[u].flushed : entry[e] = "posted"
    BY <1>t, <2>1, <2>2
  <2> QED
    BY <1>t, <1>6, <2>3, <2>4, <2>5 DEF Disconnect, Typed, TypeOK
<1>7. ASSUME NEW u \in Pushers, Start(u) PROVE Typed'
  <2> DEFINE p == [step |-> "find", todo |-> Candidates, mapped |-> mapped, flushed |-> {},
                   realm |-> conn.realm, cursor |-> conn.cursor, tries |-> 0, stale |-> FALSE]
  <2>1. conn \in [realm : Companies, cursor : Cursors] /\ Candidates # {}
    BY <1>t, <1>7 DEF Start
  <2>2. Candidates \in SUBSET Entries
    BY DEF Candidates
  <2>3. p \in Push
    BY <1>t, <2>1, <2>2, EntriesAssumption DEF Push, EntriesAssumption
  <2>4. p.flushed = {} /\ p.todo = Candidates
    OBVIOUS
  <2>5. push' = [push EXCEPT ![u] = p] /\ UNCHANGED <<local, conn, posted, faults>> /\ conn # NoConnection
    BY <1>7 DEF Start
  <2> HIDE DEF p
  <2> QED
    BY <1>t, <2>1, <2>3, <2>4, <2>5, PushMoves
<1>8. ASSUME NEW u \in Pushers, SkipUnmapped(u) PROVE Typed'
  <2>1. push[u].step = "find" /\ push' = [push EXCEPT ![u] = Advanced(u)]
        /\ UNCHANGED <<local, conn, posted, faults>>
    BY <1>8 DEF SkipUnmapped
  <2>2. /\ push[u] # Idle
        /\ ~push[u].stale => conn # NoConnection
        /\ \A e \in push[u].flushed : entry[e] = "posted"
    BY <2>1, PushOf
  <2>3. /\ Advanced(u) \in Push
        /\ Advanced(u).step # "finish" => Advanced(u).todo # {}
        /\ Advanced(u).flushed = push[u].flushed /\ Advanced(u).stale = push[u].stale
    BY <2>1, <2>2, AdvancedType
  <2> QED
    BY <1>t, <2>1, <2>2, <2>3, PushMoves
<1>9. ASSUME NEW u \in Pushers, Find(u) PROVE Typed'
  BY <1>t, <1>9, GoesType DEF Find
<1>10. ASSUME NEW u \in Pushers, FindFails(u) PROVE Typed'
  BY <1>t, <1>10, GoesType DEF FindFails, BreakOff, Fault
<1>11. ASSUME NEW u \in Pushers, Create(u) PROVE Typed'
  BY <1>t, <1>11, GoesType, LandType DEF Create
<1>12. ASSUME NEW u \in Pushers, CreateFails(u) PROVE Typed'
  <2>1. push[u].step = "create" /\ UNCHANGED <<local, conn>> /\ faults' \in 0 .. MaxFaults
        /\ posted' \in [Companies -> [Entries -> Nat]]
    BY <1>t, <1>12, LandType DEF CreateFails, Fault
  <2>2. CASE Goes(u, "finish")
    BY <2>1, <2>2, GoesType
  <2>3. CASE push[u].tries < Retries /\ push' = [push EXCEPT ![u].tries = @ + 1]
    <3>1. /\ push[u] # Idle /\ push[u] \in Push
          /\ ~push[u].stale => conn # NoConnection
          /\ \A e \in push[u].flushed : entry[e] = "posted" /\ push[u].todo # {}
      BY <2>1, PushOf
    <3> DEFINE n == push[u].tries + 1
               p == [push[u] EXCEPT !.tries = n]
    <3>2. n \in 0 .. Retries
      BY <2>3, <3>1, EntriesAssumption DEF Push, EntriesAssumption
    <3> HIDE DEF n
    <3>3. p \in Push
      BY <3>1, <3>2, PushField
    <3>4. p.flushed = push[u].flushed /\ p.todo = push[u].todo /\ p.stale = push[u].stale
      BY <3>1, <3>3 DEF Push
    <3>5. push' = [push EXCEPT ![u] = p]
      BY <2>3 DEF n
    <3>6. push[u].todo # {}
      BY <2>1, PushOf
    <3> HIDE DEF p
    <3> QED
      BY <2>1, <3>1, <3>3, <3>4, <3>5, <3>6, PushMoves
  <2> QED
    BY <1>12, <2>2, <2>3 DEF CreateFails, BreakOff
<1>13. ASSUME NEW u \in Pushers, Record(u) PROVE Typed'
  <2> DEFINE e == Current(u)
             q == [Advanced(u) EXCEPT !.flushed = push[u].flushed \cup {e}]
             p == [q EXCEPT !.cursor = CreatedAt(e)]
  <2>1. push[u].step = "record" /\ entry[e] = "posted" /\ UNCHANGED <<local, conn, posted, faults>>
    BY <1>13 DEF Record, Conflict
  <2>2. /\ push[u] # Idle /\ push[u] \in Push
        /\ ~push[u].stale => conn # NoConnection
        /\ \A d \in push[u].flushed : entry[d] = "posted"
    BY <2>1, PushOf
  <2>3. /\ Advanced(u) \in Push
        /\ Advanced(u).step # "finish" => Advanced(u).todo # {}
        /\ Advanced(u).flushed = push[u].flushed /\ Advanced(u).stale = push[u].stale
    BY <2>1, <2>2, AdvancedType
  <2>4. e \in Entries /\ CreatedAt(e) \in Cursors /\ push[u].flushed \in SUBSET Entries
    BY <2>1, <2>2, CurrentIsEntry, InstantIsCursor DEF Push
  <2>5. push' = [push EXCEPT ![u] = p]
    BY <1>13, <2>3 DEF Record
  <2> HIDE DEF e
  <2>6. q \in Push
    BY <2>3, <2>4, PushField
  <2>7. /\ q.flushed = push[u].flushed \cup {e} /\ q.stale = Advanced(u).stale
        /\ q.todo = Advanced(u).todo /\ q.step = Advanced(u).step
    BY <2>3, <2>6 DEF Push
  <2> HIDE DEF q
  <2>8. p \in Push
    BY <2>4, <2>6, PushField
  <2>9. p.flushed = q.flushed /\ p.stale = q.stale /\ p.todo = q.todo /\ p.step = q.step
    BY <2>6, <2>8 DEF Push
  <2> HIDE DEF p
  <2> QED
    BY <1>t, <2>1, <2>2, <2>3, <2>5, <2>7, <2>8, <2>9, PushMoves
<1>14. ASSUME NEW u \in Pushers, RollBack(u) PROVE Typed'
  <2> DEFINE p == [Advanced(u) EXCEPT !.flushed = {}]
  <2>1. push[u].step = "record" /\ UNCHANGED <<local, conn, posted, faults>>
    BY <1>14 DEF RollBack
  <2>2. push[u] # Idle /\ (~push[u].stale => conn # NoConnection)
    BY <2>1, PushOf
  <2>3. CASE push' = [push EXCEPT ![u] = Idle]
    BY <1>t, <2>1, <2>3, PushEnds DEF Typed, TypeOK
  <2>4. CASE push' = [push EXCEPT ![u] = p]
    <3>1. /\ Advanced(u) \in Push
          /\ Advanced(u).step # "finish" => Advanced(u).todo # {}
          /\ Advanced(u).stale = push[u].stale
      BY <2>1, <2>2, AdvancedType
    <3>2. p \in Push
      BY <3>1, PushField
    <3>3. p.flushed = {} /\ p.stale = Advanced(u).stale
          /\ p.todo = Advanced(u).todo /\ p.step = Advanced(u).step
      BY <3>1, <3>2 DEF Push
    <3> HIDE DEF p
    <3> QED
      BY <1>t, <2>1, <2>2, <2>4, <3>1, <3>2, <3>3, PushMoves
  <2> QED
    BY <1>14, <2>3, <2>4 DEF RollBack
<1>15. ASSUME NEW u \in Pushers, Commit(u) PROVE Typed'
  <2>1. /\ push[u].step = "finish" /\ push' = [push EXCEPT ![u] = Idle]
        /\ UNCHANGED <<entry, mapped, posted, faults>>
    BY <1>15 DEF Commit
  <2>2. /\ push[u] # Idle /\ push[u] \in Push
        /\ ~push[u].stale => conn # NoConnection
        /\ \A e \in push[u].flushed : entry[e] = "posted"
    BY <2>1, PushOf
  <2>3. CASE push[u].stale
    <3>1. UNCHANGED <<synced, conn>>
      BY <1>15, <2>3 DEF Commit
    <3>2. conn = NoConnection \/ conn' # NoConnection
      BY <3>1
    <3>3. /\ push' \in [Pushers -> Push \cup {Idle}]
          /\ \A v \in Pushers : push'[v] # Idle => \A e \in push'[v].flushed : entry'[e] = "posted"
          /\ Busy'
      BY <2>1, <3>2, PushEnds
    <3> QED
      BY <1>t, <2>1, <3>1, <3>3 DEF Typed, TypeOK
  <2>4. CASE ~push[u].stale
    <3>1. conn \in [realm : Companies, cursor : Cursors] /\ push[u].cursor \in Cursors
      BY <1>t, <2>2, <2>4 DEF Push
    <3>2. synced' = synced \cup push[u].flushed /\ conn' = [conn EXCEPT !.cursor = push[u].cursor]
      BY <1>15, <2>4 DEF Commit
    <3>3. conn' \in [realm : Companies, cursor : Cursors] /\ conn' # NoConnection
      BY <3>1, <3>2, EntriesAssumption DEF NoConnection, EntriesAssumption
    <3>4. synced' \subseteq Entries /\ \A e \in synced' : entry'[e] = "posted"
      BY <1>t, <2>1, <2>2, <3>2 DEF Push
    <3> QED
      BY <1>t, <2>1, <3>3, <3>4, PushEnds DEF Typed, TypeOK
  <2> QED
    BY <2>3, <2>4
<1>16. ASSUME NEW u \in Pushers, Crash(u) PROVE Typed'
  <2>1. /\ push' = [push EXCEPT ![u] = Idle] /\ UNCHANGED <<local, conn, posted>>
        /\ faults' \in 0 .. MaxFaults
    BY <1>t, <1>16 DEF Crash, Fault
  <2> QED
    BY <1>t, <2>1, PushEnds DEF Typed, TypeOK
<1> QED
  BY <1>1, <1>2, <1>3, <1>4, <1>5, <1>6, <1>7, <1>8, <1>9, <1>10, <1>11, <1>12, <1>13,
     <1>14, <1>15, <1>16 DEF Next, Step

\* Whatever is pushed, repeated, dropped or lost, the tables hold what they may hold, and
\* a sync row has its entry.
THEOREM TypeCorrect == Spec => []TypeOK
<1>1. Spec => []Typed
  BY TypeInit, TypeNext, PTL DEF Spec
<1>2. Typed => TypeOK
  BY DEF Typed
<1> QED
  BY <1>1, <1>2, PTL

-----------------------------------------------------------------------------
(* The sync table is right.                                                 *)

\* QuickBooks loses nothing.
Grows ==
    /\ posted' \in [Companies -> [Entries -> Nat]]
    /\ \A realm \in Companies, e \in Entries : posted'[realm][e] >= posted[realm][e]

LEMMA StaysThere ==
    ASSUME Typed, Grows, NEW e \in Entries, Has(e) PROVE Has(e)'
<1>1. posted \in [Companies -> [Entries -> Nat]]
  BY DEF Typed, TypeOK
<1>2. PICK realm \in Companies : posted[realm][e] > 0
  BY DEF Has
<1>3. posted'[realm][e] > 0
  BY <1>1, <1>2 DEF Grows
<1> QED
  BY <1>3 DEF Has

LEMMA SameGrows == ASSUME Typed, UNCHANGED posted PROVE Grows
  BY DEF Typed, TypeOK, Grows

LEMMA LandGrows ==
    ASSUME Typed, NEW u \in Pushers, push[u].step = "create", Land(u) PROVE Grows
<1>1. posted \in [Companies -> [Entries -> Nat]]
  BY DEF Typed, TypeOK
<1> QED
  BY <1>1, LandType DEF Grows

\* The step of one request leaves what the others record there.
LEMMA OthersSent ==
    ASSUME Typed, Sent, Grows, NEW u \in Pushers, NEW p, push' = [push EXCEPT ![u] = p],
           p # Idle => /\ \A e \in p.flushed : Has(e)'
                       /\ p.step = "record" => posted'[p.realm][Min(p.todo)] > 0
    PROVE  Sent'
<1>1. push \in [Pushers -> Push \cup {Idle}] /\ posted \in [Companies -> [Entries -> Nat]]
  BY DEF Typed, TypeOK
<1> SUFFICES ASSUME NEW v \in Pushers, push'[v] # Idle
             PROVE  /\ \A e \in push'[v].flushed : Has(e)'
                    /\ push'[v].step = "record" => posted'[push'[v].realm][Current(v)'] > 0
  BY DEF Sent
<1>2. CASE v = u
  <2>1. push'[v] = p
    BY <1>1, <1>2
  <2> QED
    BY <2>1 DEF Current
<1>3. CASE v # u
  <2>1. push'[v] = push[v] /\ push[v] \in Push
    BY <1>1, <1>3
  <2>2. \A e \in push[v].flushed : Has(e)'
    BY <2>1, StaysThere DEF Sent, Push
  <2>3. ASSUME push[v].step = "record" PROVE posted'[push[v].realm][Current(v)] > 0
    <3>1. posted[push[v].realm][Current(v)] > 0
      BY <2>1, <2>3 DEF Sent
    <3>2. Current(v) \in Entries /\ push[v].realm \in Companies
      BY <2>1, <2>3, CurrentIsEntry DEF Push
    <3> QED
      BY <1>1, <3>1, <3>2 DEF Grows
  <2>4. Current(v)' = Current(v)
    BY <2>1 DEF Current
  <2> QED
    BY <2>1, <2>2, <2>3, <2>4
<1> QED
  BY <1>2, <1>3

\* A request that goes to a step other than "record", or ends.
LEMMA GoesSent ==
    ASSUME Typed, Sent, Grows, NEW u \in Pushers, push[u].step # "idle",
           NEW to, Goes(u, to), to = "record" => posted'[push[u].realm][Current(u)] > 0
    PROVE  Sent'
<1>1. push[u] # Idle /\ push[u] \in Push
  BY IdleStep DEF Typed, TypeOK
<1> DEFINE p == [push[u] EXCEPT !.step = to]
<1>2. p.flushed = push[u].flushed /\ p.realm = push[u].realm /\ p.todo = push[u].todo /\ p.step = to
  BY <1>1 DEF Push
<1>3. push' = [push EXCEPT ![u] = p]
  BY DEF Goes
<1> HIDE DEF p
<1>4. \A e \in p.flushed : Has(e)'
  BY <1>1, <1>2, StaysThere DEF Sent, Push
<1> QED
  BY <1>2, <1>3, <1>4, OthersSent DEF Current

There == Typed /\ Sent /\ SyncedIsThere

LEMMA ThereInit == Init => There
  BY TypeInit DEF There, Init, Sent, SyncedIsThere

LEMMA ThereNext == There /\ [Next]_vars => There'
<1> SUFFICES ASSUME There, [Next]_vars PROVE Sent' /\ SyncedIsThere'
  BY TypeNext DEF There
<1>t. Typed /\ Sent /\ push \in [Pushers -> Push \cup {Idle}]
  BY DEF There, Typed, TypeOK
<1>s. synced \subseteq Entries /\ \A e \in synced : Has(e)
  BY DEF There, SyncedIsThere, Has, Typed, TypeOK
<1> USE DEF local
<1>same. ASSUME Grows, synced' \subseteq synced PROVE SyncedIsThere'
  BY <1>t, <1>same, <1>s, StaysThere DEF SyncedIsThere, Has
<1>1. CASE UNCHANGED <<vars>> \/ \E e \in Entries : PostEntry(e) \/ DeleteEntry(e)
  <2>1. Grows /\ synced' \subseteq synced /\ push' = push
    BY <1>1, <1>t, SameGrows DEF vars, PostEntry, DeleteEntry
  <2>2. \A u \in Pushers : Current(u)' = Current(u)
    BY <2>1 DEF Current
  <2> QED
    BY <1>1, <1>t, <1>same, <2>1, <2>2 DEF Sent, Has, vars, PostEntry, DeleteEntry
<1>2. CASE (\E e \in Mappable : ChangeMapping(e)) \/ \E realm \in Companies : Connect(realm)
  <2>1. Grows /\ synced' \subseteq synced /\ push' = push /\ posted' = posted
    BY <1>2, <1>t, SameGrows DEF ChangeMapping, Connect
  <2>2. \A u \in Pushers : Current(u)' = Current(u)
    BY <2>1 DEF Current
  <2> QED
    BY <1>t, <1>same, <2>1, <2>2 DEF Sent, Has
<1>3. CASE Disconnect
  <2>1. Grows /\ synced' \subseteq synced /\ posted' = posted
    BY <1>3, <1>t, SameGrows DEF Disconnect
  <2>2. ASSUME NEW u \in Pushers, push'[u] # Idle
        PROVE  /\ push[u] # Idle /\ push'[u].flushed = push[u].flushed
               /\ push'[u].step = push[u].step /\ push'[u].realm = push[u].realm
               /\ Current(u)' = Current(u)
    <3>1. push[u] # Idle /\ push[u] \in Push /\ push'[u] = [push[u] EXCEPT !.stale = TRUE]
      BY <1>3, <1>t, <2>2 DEF Disconnect
    <3>2. /\ push'[u].flushed = push[u].flushed /\ push'[u].todo = push[u].todo
          /\ push'[u].step = push[u].step /\ push'[u].realm = push[u].realm
      BY <3>1 DEF Push
    <3> QED
      BY <3>1, <3>2 DEF Current
  <2> QED
    BY <1>t, <1>same, <2>1, <2>2 DEF Sent, Has
<1>4. ASSUME NEW u \in Pushers, Start(u) PROVE Sent' /\ SyncedIsThere'
  <2> DEFINE p == [step |-> "find", todo |-> Candidates, mapped |-> mapped, flushed |-> {},
                   realm |-> conn.realm, cursor |-> conn.cursor, tries |-> 0, stale |-> FALSE]
  <2>1. push' = [push EXCEPT ![u] = p] /\ UNCHANGED <<local, posted>> /\ Grows
    BY <1>4, <1>t, SameGrows DEF Start
  <2>2. p.flushed = {} /\ p.step = "find"
    OBVIOUS
  <2> HIDE DEF p
  <2> QED
    BY <1>t, <1>same, <2>1, <2>2, OthersSent
<1>5. ASSUME NEW u \in Pushers, SkipUnmapped(u) PROVE Sent' /\ SyncedIsThere'
  <2>1. /\ push' = [push EXCEPT ![u] = Advanced(u)] /\ UNCHANGED <<local, posted>> /\ Grows
        /\ push[u].step = "find"
    BY <1>5, <1>t, SameGrows DEF SkipUnmapped
  <2>2. push[u] # Idle /\ push[u] \in Push
    BY <1>t, <2>1, PushOf
  <2>3. Advanced(u).flushed = push[u].flushed /\ Advanced(u).step \in {"find", "finish"}
    BY <1>t, <2>1, <2>2, AdvancedType
  <2>4. \A e \in push[u].flushed : Has(e)'
    BY <1>t, <2>1, <2>2, StaysThere DEF Sent, Push
  <2> QED
    BY <1>t, <1>same, <2>1, <2>3, <2>4, OthersSent
<1>6. ASSUME NEW u \in Pushers, Find(u) \/ FindFails(u) PROVE Sent' /\ SyncedIsThere'
  <2>1. UNCHANGED <<local, posted>> /\ Grows /\ push[u].step = "find"
    BY <1>6, <1>t, SameGrows DEF Find, FindFails
  <2>2. PICK to : Goes(u, to) /\ (to = "record" => posted[push[u].realm][Current(u)] > 0)
    BY <1>6 DEF Find, FindFails, BreakOff, InQuickBooks
  <2> QED
    BY <1>t, <1>same, <2>1, <2>2, GoesSent
<1>7. ASSUME NEW u \in Pushers, Create(u) PROVE Sent' /\ SyncedIsThere'
  <2>1. UNCHANGED local /\ push[u].step = "create" /\ Land(u) /\ Goes(u, "record")
    BY <1>7 DEF Create
  <2>2. Grows /\ posted'[push[u].realm][Current(u)] = posted[push[u].realm][Current(u)] + 1
    BY <1>t, <2>1, LandGrows, LandType
  <2>3. posted[push[u].realm][Current(u)] \in Nat
    <3>1. push[u].realm \in Companies /\ Current(u) \in Entries
      BY <1>t, <2>1, LandType
    <3>2. posted \in [Companies -> [Entries -> Nat]]
      BY <1>t DEF Typed, TypeOK
    <3> QED
      BY <3>1, <3>2
  <2> QED
    BY <1>t, <1>same, <2>1, <2>2, <2>3, GoesSent
<1>8. ASSUME NEW u \in Pushers, CreateFails(u) PROVE Sent' /\ SyncedIsThere'
  <2>1. UNCHANGED local /\ push[u].step = "create" /\ Grows
    BY <1>8, <1>t, SameGrows, LandGrows DEF CreateFails
  <2>2. CASE Goes(u, "finish")
    BY <1>t, <1>same, <2>1, <2>2, GoesSent
  <2>3. CASE push' = [push EXCEPT ![u].tries = @ + 1]
    <3> DEFINE p == [push[u] EXCEPT !.tries = push[u].tries + 1]
    <3>1. push[u] # Idle /\ push[u] \in Push
      BY <1>t, <2>1, PushOf
    <3>2. p.flushed = push[u].flushed /\ p.step = "create"
      BY <2>1, <3>1 DEF Push
    <3>3. push' = [push EXCEPT ![u] = p]
      BY <2>3
    <3>4. \A e \in push[u].flushed : Has(e)'
      BY <1>t, <2>1, <3>1, StaysThere DEF Sent, Push
    <3> HIDE DEF p
    <3> QED
      BY <1>t, <1>same, <2>1, <3>2, <3>3, <3>4, OthersSent
  <2> QED
    BY <1>8, <2>2, <2>3 DEF CreateFails, BreakOff
<1>9. ASSUME NEW u \in Pushers, Record(u) PROVE Sent' /\ SyncedIsThere'
  <2> DEFINE e == Current(u)
             q == [Advanced(u) EXCEPT !.flushed = push[u].flushed \cup {e}]
             p == [q EXCEPT !.cursor = CreatedAt(e)]
  <2>1. push[u].step = "record" /\ UNCHANGED <<local, posted>> /\ Grows
    BY <1>9, <1>t, SameGrows DEF Record
  <2>2. push[u] # Idle /\ push[u] \in Push
    BY <1>t, <2>1, PushOf
  <2>3. /\ Advanced(u) \in Push /\ Advanced(u).flushed = push[u].flushed
        /\ Advanced(u).step \in {"find", "finish"}
    BY <1>t, <2>1, <2>2, AdvancedType
  <2>4. \A d \in push[u].flushed \cup {e} : Has(d)'
    <3>1. e \in Entries /\ push[u].realm \in Companies /\ posted[push[u].realm][e] > 0
      BY <1>t, <2>1, <2>2, CurrentIsEntry DEF Sent, Push
    <3>2. Has(e)
      BY <3>1 DEF Has
    <3> HIDE DEF e
    <3> QED
      BY <1>t, <2>1, <2>2, <3>1, <3>2, StaysThere DEF Sent, Push
  <2>5. push' = [push EXCEPT ![u] = p]
    BY <1>9, <2>3 DEF Record
  <2> HIDE DEF e
  <2>6. q.flushed = push[u].flushed \cup {e} /\ q.step = Advanced(u).step
    BY <2>3 DEF Push
  <2>7. p.flushed = q.flushed /\ p.step = q.step
    BY <2>3 DEF Push
  <2> HIDE DEF p, q
  <2> QED
    BY <1>t, <1>same, <2>1, <2>3, <2>4, <2>5, <2>6, <2>7, OthersSent
<1>10. ASSUME NEW u \in Pushers, RollBack(u) PROVE Sent' /\ SyncedIsThere'
  <2> DEFINE p == [Advanced(u) EXCEPT !.flushed = {}]
  <2>1. push[u].step = "record" /\ UNCHANGED <<local, posted>> /\ Grows
    BY <1>10, <1>t, SameGrows DEF RollBack
  <2>2. push[u] # Idle
    BY <1>t, <2>1, PushOf
  <2>3. Advanced(u) \in Push /\ Advanced(u).step \in {"find", "finish"}
    BY <1>t, <2>1, <2>2, AdvancedType
  <2>4. p.flushed = {} /\ p.step = Advanced(u).step
    BY <2>3 DEF Push
  <2>5. push' = [push EXCEPT ![u] = p] \/ push' = [push EXCEPT ![u] = Idle]
    BY <1>10 DEF RollBack
  <2> HIDE DEF p
  <2> QED
    BY <1>t, <1>same, <2>1, <2>3, <2>4, <2>5, OthersSent
<1>11. ASSUME NEW u \in Pushers, Commit(u) PROVE Sent' /\ SyncedIsThere'
  <2>1. /\ push[u].step = "finish" /\ push' = [push EXCEPT ![u] = Idle] /\ posted' = posted
        /\ Grows /\ synced' \subseteq synced \cup push[u].flushed
    BY <1>11, <1>t, SameGrows DEF Commit
  <2>2. push[u] # Idle
    BY <1>t, <2>1, PushOf
  <2>3. \A e \in synced' : Has(e)
    BY <1>s, <1>t, <2>1, <2>2 DEF Sent
  <2>4. Sent'
    BY <1>t, <2>1, OthersSent
  <2> QED
    BY <2>1, <2>3, <2>4 DEF SyncedIsThere, Has
<1>12. ASSUME NEW u \in Pushers, Crash(u) PROVE Sent' /\ SyncedIsThere'
  <2>1. push' = [push EXCEPT ![u] = Idle] /\ UNCHANGED <<local, posted>> /\ Grows
    BY <1>12, <1>t, SameGrows DEF Crash
  <2> QED
    BY <1>t, <1>same, <2>1, OthersSent
<1> QED
  BY <1>1, <1>2, <1>3, <1>4, <1>5, <1>6, <1>7, <1>8, <1>9, <1>10, <1>11, <1>12 DEF Next, Step

\* What the sync table says was sent is in QuickBooks: for any number of pushes at once,
\* of companies, of repeats of a call and of faults.
THEOREM SyncedIsCorrect == Spec => []SyncedIsThere
<1>1. Spec => []There
  BY ThereInit, ThereNext, PTL DEF Spec
<1>2. There => SyncedIsThere
  BY DEF There
<1> QED
  BY <1>1, <1>2, PTL

-----------------------------------------------------------------------------
(* Once in QuickBooks.                                                      *)

Once == Typed /\ NotThere /\ PostedOnce

LEMMA OnceInit == Init => Once
  BY TypeInit, IdleStep DEF Once, Init, NotThere, PostedOnce, At

\* A step that posts nothing and takes no request to "create".
LEMMA OnceQuiet ==
    ASSUME Once, posted' = posted, NEW u \in Pushers, \A v \in Pushers : v = u,
           At(u, "create")' => push' = push
    PROVE  NotThere' /\ PostedOnce'
<1>1. ASSUME push' = push PROVE NotThere'
  BY <1>1 DEF Once, NotThere, At, Current
<1> QED
  BY <1>1 DEF Once, NotThere, PostedOnce

LEMMA OnceNext ==
    ASSUME Retries = 0, \A u, v \in Pushers : u = v PROVE Once /\ [Next]_vars => Once'
<1> SUFFICES ASSUME Once, [Next]_vars PROVE NotThere' /\ PostedOnce'
  BY TypeNext DEF Once
<1>t. /\ Typed /\ NotThere /\ PostedOnce /\ push \in [Pushers -> Push \cup {Idle}]
      /\ posted \in [Companies -> [Entries -> Nat]]
  BY DEF Once, Typed, TypeOK
<1>1. CASE posted' = posted /\ push' = push
  <2>1. \A u \in Pushers : Current(u)' = Current(u)
    BY <1>1 DEF Current
  <2> QED
    BY <1>t, <1>1, <2>1 DEF NotThere, PostedOnce, At
<1>2. CASE Disconnect
  <2>1. posted' = posted
    BY <1>2 DEF Disconnect
  <2>2. ASSUME NEW u \in Pushers, push'[u] # Idle
        PROVE  /\ push[u] # Idle /\ push'[u].step = push[u].step
               /\ push'[u].realm = push[u].realm /\ Current(u)' = Current(u)
    <3>1. push[u] # Idle /\ push[u] \in Push /\ push'[u] = [push[u] EXCEPT !.stale = TRUE]
      BY <1>2, <1>t, <2>2 DEF Disconnect
    <3>2. /\ push'[u].todo = push[u].todo
          /\ push'[u].step = push[u].step /\ push'[u].realm = push[u].realm
      BY <3>1 DEF Push
    <3> QED
      BY <3>1, <3>2 DEF Current
  <2> QED
    BY <1>t, <2>1, <2>2 DEF NotThere, PostedOnce, At
<1>3. ASSUME NEW u \in Pushers, posted' = posted, NEW p, push' = [push EXCEPT ![u] = p],
             p.step # "create"
      PROVE  NotThere' /\ PostedOnce'
  <2>1. push'[u] = p
    BY <1>3, <1>t
  <2> QED
    BY <1>3, <2>1, OnceQuiet DEF At
<1>4. ASSUME NEW u \in Pushers, posted' = posted, NEW to, Goes(u, to), to # "create",
             push[u].step # "idle"
      PROVE  NotThere' /\ PostedOnce'
  <2>1. push[u] \in Push
    BY <1>4, <1>t, IdleStep
  <2>2. [push[u] EXCEPT !.step = to].step = to
    BY <2>1 DEF Push
  <2> QED
    BY <1>3, <1>4, <2>2 DEF Goes
<1>5. ASSUME NEW u \in Pushers, Start(u) PROVE NotThere' /\ PostedOnce'
  <2> DEFINE p == [step |-> "find", todo |-> Candidates, mapped |-> mapped, flushed |-> {},
                   realm |-> conn.realm, cursor |-> conn.cursor, tries |-> 0, stale |-> FALSE]
  <2>1. posted' = posted /\ push' = [push EXCEPT ![u] = p]
    BY <1>5 DEF Start
  <2>2. p.step = "find"
    OBVIOUS
  <2> HIDE DEF p
  <2> QED
    BY <1>3, <2>1, <2>2
<1>6. ASSUME NEW u \in Pushers, SkipUnmapped(u) PROVE NotThere' /\ PostedOnce'
  <2>1. push[u].step = "find" /\ push[u] # Idle
    BY <1>6, IdleStep DEF SkipUnmapped
  <2>2. Advanced(u).step \in {"find", "finish"}
    BY <1>t, <2>1, AdvancedType
  <2> QED
    BY <1>3, <1>6, <2>2 DEF SkipUnmapped
<1>7. ASSUME NEW u \in Pushers, Find(u) PROVE NotThere' /\ PostedOnce'
  <2>1. push[u].step = "find" /\ posted' = posted
    BY <1>7 DEF Find
  <2>2. CASE InQuickBooks(u)
    BY <1>4, <1>7, <2>1, <2>2 DEF Find
  <2>3. CASE ~InQuickBooks(u)
    <3>1. push[u] # Idle /\ push[u] \in Push
      BY <1>t, <2>1, PushOf
    <3>2. Current(u) \in Entries /\ push[u].realm \in Companies
      BY <1>t, <2>1, <3>1, CurrentIsEntry DEF Push
    <3>3. posted[push[u].realm][Current(u)] = 0
      BY <1>t, <2>3, <3>2 DEF InQuickBooks
    <3>4. push'[u] = [push[u] EXCEPT !.step = "create"]
      BY <1>7, <1>t, <2>3 DEF Find, Goes
    <3>5. push'[u].todo = push[u].todo /\ push'[u].realm = push[u].realm
      BY <3>1, <3>4 DEF Push
    <3>6. Current(u)' = Current(u)
      BY <3>5 DEF Current
    <3> QED
      BY <1>t, <2>1, <3>3, <3>5, <3>6 DEF NotThere, PostedOnce
  <2> QED
    BY <2>2, <2>3
<1>8. ASSUME NEW u \in Pushers, NEW to, push[u].step = "create", Land(u), Goes(u, to), to # "create"
      PROVE  NotThere' /\ PostedOnce'
  <2>1. push[u] # Idle /\ push[u] \in Push
    BY <1>t, <1>8, PushOf
  <2>2. posted[push[u].realm][Current(u)] = 0
    BY <1>t, <1>8, <2>1 DEF NotThere, At
  <2>3. PostedOnce'
    BY <1>t, <1>8, <2>2, LandType DEF PostedOnce
  <2>4. push'[u] = [push[u] EXCEPT !.step = to]
    BY <1>t, <1>8 DEF Goes
  <2>5. push'[u].step = to
    BY <2>1, <2>4 DEF Push
  <2> QED
    BY <1>8, <2>3, <2>5 DEF NotThere, At
<1>9. ASSUME NEW u \in Pushers, CreateFails(u) PROVE NotThere' /\ PostedOnce'
  <2>1. push[u].step = "create" /\ (Land(u) \/ posted' = posted)
    BY <1>9 DEF CreateFails
  <2>2. push[u] \in Push
    BY <1>t, <2>1, PushOf
  <2>3. push[u].tries = 0
    BY <2>2 DEF Push
  <2>4. Goes(u, "finish")
    BY <1>9, <2>3 DEF CreateFails, BreakOff
  <2> QED
    BY <1>4, <1>8, <2>1, <2>4
<1>10. ASSUME NEW u \in Pushers, Record(u) PROVE NotThere' /\ PostedOnce'
  <2> DEFINE q == [Advanced(u) EXCEPT !.flushed = push[u].flushed \cup {Current(u)}]
             p == [q EXCEPT !.cursor = CreatedAt(Current(u))]
  <2>1. push[u].step = "record" /\ push[u] # Idle /\ posted' = posted
    BY <1>10, IdleStep DEF Record
  <2>2. /\ Advanced(u) \in Push /\ Advanced(u).flushed = push[u].flushed
        /\ Advanced(u).step \in {"find", "finish"}
    BY <1>t, <2>1, AdvancedType
  <2>3. push' = [push EXCEPT ![u] = p]
    BY <1>10, <2>2 DEF Record
  <2>4. p.step = Advanced(u).step
    BY <2>2 DEF Push
  <2> HIDE DEF p
  <2> QED
    BY <1>3, <2>1, <2>2, <2>3, <2>4
<1>11. ASSUME NEW u \in Pushers, RollBack(u) PROVE NotThere' /\ PostedOnce'
  <2> DEFINE p == [Advanced(u) EXCEPT !.flushed = {}]
  <2>1. push[u].step = "record" /\ push[u] # Idle /\ posted' = posted
    BY <1>11, IdleStep DEF RollBack
  <2>2. Advanced(u) \in Push /\ Advanced(u).step \in {"find", "finish"}
    BY <1>t, <2>1, AdvancedType
  <2>3. push' = [push EXCEPT ![u] = p] \/ push' = [push EXCEPT ![u] = Idle]
    BY <1>11 DEF RollBack
  <2>4. p.step = Advanced(u).step
    BY <2>2 DEF Push
  <2> HIDE DEF p
  <2> QED
    BY <1>3, <2>1, <2>2, <2>3, <2>4, IdleStep
<1>12. ASSUME NEW u \in Pushers, Commit(u) \/ Crash(u) PROVE NotThere' /\ PostedOnce'
  BY <1>3, <1>12, IdleStep DEF Commit, Crash
<1>13. ASSUME NEW u \in Pushers, FindFails(u) PROVE NotThere' /\ PostedOnce'
  BY <1>4, <1>13 DEF FindFails, BreakOff
<1>14. ASSUME NEW u \in Pushers, Create(u) PROVE NotThere' /\ PostedOnce'
  BY <1>8, <1>14 DEF Create
<1>15. CASE UNCHANGED vars \/ \E e \in Entries : PostEntry(e) \/ DeleteEntry(e)
  BY <1>1, <1>15 DEF vars, PostEntry, DeleteEntry
<1>16. CASE (\E e \in Mappable : ChangeMapping(e)) \/ \E realm \in Companies : Connect(realm)
  BY <1>1, <1>16 DEF ChangeMapping, Connect
<1> QED
  BY <1>2, <1>5, <1>6, <1>7, <1>9, <1>10, <1>11, <1>12, <1>13, <1>14, <1>15, <1>16 DEF Next, Step

\* One request at a time and a client that does not repeat a call: QuickBooks has every
\* entry at most once, whatever failed, lost its answer or died, for any number of
\* entries, companies and faults.
THEOREM PostedOnceSerially ==
    ASSUME Retries = 0, \A u, v \in Pushers : u = v PROVE Spec => []PostedOnce
<1>1. Spec => []Once
  BY OnceInit, OnceNext, PTL DEF Spec
<1>2. Once => PostedOnce
  BY DEF Once
<1> QED
  BY <1>1, <1>2, PTL
-----------------------------------------------------------------------------
(* The cursor passes nothing.                                               *)

\* Everything before an instant is known, and QuickBooks has what is mapped of it.
Passed(instant) ==
    \A e \in Entries : CreatedAt(e) < instant =>
        /\ entry[e] # "absent"
        /\ entry[e] = "posted" /\ e \notin Mappable => Has(e)

\* What is older than an entry a push still has to deal with is dealt with or is left to
\* it as well.
Reached(todo) ==
    \A d \in todo :
        /\ entry[d] # "absent"
        /\ \A e \in Entries \ Mappable : e < d /\ entry[e] = "posted" => e \in todo \/ Has(e)

Serves(p) ==
    /\ Entries \ Mappable \subseteq p.mapped
    /\ Passed(p.cursor)
    /\ Reached(p.todo)

\* Entries become visible in their order.
NoGap == \A d, e \in Entries : d < e /\ entry[e] # "absent" => entry[d] # "absent"

Covered ==
    /\ There /\ NoGap
    /\ Entries \ Mappable \subseteq mapped
    /\ Passed(conn.cursor)
    /\ \A u \in Pushers : push[u] # Idle => Serves(push[u])

\* An entry from before another's instant is before it.
LEMMA BeforeInstant ==
    ASSUME NEW d \in Entries, NEW e \in Entries, CreatedAt(d) < CreatedAt(e)
    PROVE  d < e
<1>1. d \in Nat /\ e \in Nat /\ Twins \in SUBSET Entries
  BY EntriesAssumption DEF EntriesAssumption
<1>2. ASSUME NEW x \in Twins
      PROVE  Min(Twins) \in Twins /\ Min(Twins) <= x /\ Min(Twins) \in Entries /\ Min(Twins) \in Nat
  BY <1>1, <1>2, MinOfEntries, EntriesAssumption DEF EntriesAssumption
<1>3. CASE d \in Twins /\ e \in Twins
  <2>1. CreatedAt(d) = Min(Twins) /\ CreatedAt(e) = Min(Twins) /\ Min(Twins) \in Nat
    BY <1>2, <1>3 DEF CreatedAt
  <2>2. ~(Min(Twins) < Min(Twins))
    BY <2>1
  <2> QED
    BY <2>1, <2>2
<1>4. CASE d \in Twins /\ e \notin Twins
  <2>1. Min(Twins) \in Twins /\ Min(Twins) < e /\ Min(Twins) \in Nat
    BY <1>2, <1>4 DEF CreatedAt
  <2>2. ASSUME e <= d PROVE e \in Twins
    BY <1>1, <1>4, <2>1, <2>2, EntriesAssumption DEF EntriesAssumption
  <2> QED
    BY <1>1, <1>4, <2>2
<1>5. CASE d \notin Twins /\ e \in Twins
  <2>1. Min(Twins) <= e /\ d < Min(Twins) /\ Min(Twins) \in Nat
    BY <1>2, <1>5 DEF CreatedAt
  <2> QED
    BY <1>1, <2>1
<1>6. CASE d \notin Twins /\ e \notin Twins
  BY <1>6 DEF CreatedAt
<1> QED
  BY <1>3, <1>4, <1>5, <1>6

\* An instant is after the null cursor.
LEMMA InstantIsNumber == ASSUME NEW e \in Entries PROVE CreatedAt(e) \in Nat \ {0}
<1>1. e \in Nat \ {0} /\ Twins \in SUBSET Entries
  BY EntriesAssumption DEF EntriesAssumption
<1>2. CASE e \in Twins
  <2>1. Min(Twins) \in Entries
    BY <1>1, <1>2, MinOfEntries
  <2> QED
    BY <1>2, <2>1, EntriesAssumption DEF CreatedAt, EntriesAssumption
<1> QED
  BY <1>1, <1>2 DEF CreatedAt

LEMMA NothingBeforeNull == ASSUME NEW e \in Entries PROVE ~(CreatedAt(e) < 0)
  BY InstantIsNumber

\* QuickBooks loses nothing, no entry leaves the books unnoticed, and an entry that
\* appears is the last.
Onward ==
    /\ Grows
    /\ \A e \in Entries : entry[e] # "absent" => entry'[e] # "absent"
    /\ \A e \in Entries : entry'[e] = "posted" =>
          entry[e] = "posted" \/ (entry[e] = "absent" /\ \A d \in Entries : e < d => entry[d] = "absent")

LEMMA PassedStays ==
    ASSUME Typed, Onward, NEW c, Passed(c) PROVE Passed(c)'
<1> SUFFICES ASSUME NEW e \in Entries, CreatedAt(e) < c
             PROVE  /\ entry'[e] # "absent"
                    /\ entry'[e] = "posted" /\ e \notin Mappable => Has(e)'
  BY DEF Passed, CreatedAt
<1>1. entry[e] # "absent" /\ (entry[e] = "posted" /\ e \notin Mappable => Has(e))
  BY DEF Passed
<1>2. entry'[e] # "absent" /\ (entry'[e] = "posted" => entry[e] = "posted")
  BY <1>1 DEF Onward
<1>3. Has(e) => Has(e)'
  BY StaysThere DEF Onward
<1> QED
  BY <1>1, <1>2, <1>3

LEMMA ReachedStays ==
    ASSUME Typed, Onward, NEW S \in SUBSET Entries, Reached(S) PROVE Reached(S)'
<1> SUFFICES ASSUME NEW d \in S
             PROVE  /\ entry'[d] # "absent"
                    /\ \A e \in Entries \ Mappable :
                          e < d /\ entry'[e] = "posted" => e \in S \/ Has(e)'
  BY DEF Reached
<1>1. d \in Entries /\ entry[d] # "absent"
  BY DEF Reached
<1>2. entry'[d] # "absent"
  BY <1>1 DEF Onward
<1>3. ASSUME NEW e \in Entries \ Mappable, e < d, entry'[e] = "posted" PROVE e \in S \/ Has(e)'
  <2>1. entry[e] = "posted"
    BY <1>1, <1>3 DEF Onward
  <2>2. e \in S \/ Has(e)
    BY <1>3, <2>1 DEF Reached
  <2> QED
    BY <2>2, StaysThere DEF Onward
<1> QED
  BY <1>2, <1>3

\* A push that is known to serve goes on to do so while the others move.
LEMMA ServesStays ==
    ASSUME Typed, Onward, NEW p \in Push, Serves(p) PROVE Serves(p)'
<1>1. p.todo \in SUBSET Entries
  BY DEF Push
<1>2. Passed(p.cursor)' /\ Reached(p.todo)'
  BY <1>1, PassedStays, ReachedStays DEF Serves
<1> QED
  BY <1>2 DEF Serves

LEMMA OthersServe ==
    ASSUME Covered, Onward, NEW u \in Pushers, NEW p, push' = [push EXCEPT ![u] = p],
           p # Idle => Serves(p)'
    PROVE  \A v \in Pushers : push'[v] # Idle => Serves(push[v])'
<1>1. push \in [Pushers -> Push \cup {Idle}] /\ Typed
  BY DEF Covered, There, Typed, TypeOK
<1> TAKE v \in Pushers
<1> HAVE push'[v] # Idle
<1>2. CASE v = u
  <2>1. push'[v] = p
    BY <1>1, <1>2
  <2> QED
    BY <2>1
<1>3. CASE v # u
  <2>1. push'[v] = push[v] /\ push[v] \in Push
    BY <1>1, <1>3
  <2>2. PICK q : q = push[v]
    OBVIOUS
  <2>3. Serves(q)'
    BY <1>1, <2>1, <2>2, ServesStays DEF Covered
  <2>4. push'[v] = q
    BY <2>1, <2>2
  <2> QED
    BY <2>3, <2>4
<1> QED
  BY <1>2, <1>3

\* A step that moves one push on and leaves the books and the map as they are.
LEMMA PushCovers ==
    ASSUME Covered, There', NEW u \in Pushers, NEW p, push' = [push EXCEPT ![u] = p],
           UNCHANGED <<entry, mapped>>, Grows, conn'.cursor = conn.cursor \/ Passed(conn'.cursor),
           p # Idle => p \in Push /\ Serves(p)
    PROVE  Covered'
<1>1. Typed /\ NoGap /\ entry' = entry
  BY DEF Covered, There
<1>2. Onward
  BY DEF Onward
<1>3. p # Idle => Serves(p)'
  BY <1>1, <1>2, ServesStays
<1>4. \A v \in Pushers : push'[v] # Idle => Serves(push[v])'
  BY <1>2, <1>3, OthersServe
<1>5. Passed(conn.cursor)'
  <2>1. PICK c : c = conn'.cursor
    OBVIOUS
  <2>2. Passed(c)
    BY <2>1 DEF Covered
  <2>3. Passed(c)'
    BY <1>1, <1>2, <2>2, PassedStays
  <2> QED
    BY <2>1, <2>3
<1>6. NoGap'
  BY <1>1 DEF NoGap
<1> QED
  BY <1>4, <1>5, <1>6 DEF Covered

\* The fields of a push that deals with its entry.
LEMMA AdvancedFields ==
    ASSUME Typed, NEW u \in Pushers, push[u] # Idle, push[u].step # "finish"
    PROVE  /\ Advanced(u).todo = push[u].todo \ {Current(u)}
           /\ Advanced(u).mapped = push[u].mapped /\ Advanced(u).cursor = push[u].cursor
  BY DEF Typed, TypeOK, Push, Advanced

\* A push that has an entry of its own out of the way goes on to serve, if QuickBooks has
\* the entry or its accounts may be unmapped.
LEMMA AdvancedServes ==
    ASSUME Typed, NEW u \in Pushers, push[u] # Idle, push[u].step # "finish", Serves(push[u]),
           Current(u) \in Mappable \/ Has(Current(u))
    PROVE  Serves(Advanced(u))
<1>1. /\ Advanced(u).todo = push[u].todo \ {Current(u)}
      /\ Advanced(u).mapped = push[u].mapped /\ Advanced(u).cursor = push[u].cursor
  BY AdvancedFields
<1>2. Reached(push[u].todo \ {Current(u)})
  BY DEF Serves, Reached
<1> QED
  BY <1>1, <1>2 DEF Serves

\* The push of an entry may take the cursor to it.
LEMMA CursorServes ==
    ASSUME Covered, NEW u \in Pushers, push[u] # Idle, push[u].step # "finish"
    PROVE  Passed(CreatedAt(Current(u)))
<1>1. Typed /\ NoGap /\ Reached(push[u].todo)
  BY DEF Covered, There, Serves
<1>2. /\ Current(u) \in push[u].todo /\ Current(u) \in Entries
      /\ \A x \in push[u].todo : Current(u) <= x
  <2>1. push[u].todo \in SUBSET Entries /\ push[u].todo # {}
    BY <1>1 DEF Typed, TypeOK, Busy, Push
  <2> QED
    BY <2>1, MinOfEntries DEF Current
<1> DEFINE c == Current(u)
<1> HIDE DEF c
<1>3. c \in push[u].todo /\ c \in Entries /\ (\A x \in push[u].todo : c <= x) /\ c = Current(u)
  BY <1>2 DEF c
<1>4. entry[c] # "absent"
  BY <1>1, <1>3 DEF Reached
<1> SUFFICES ASSUME NEW e \in Entries, CreatedAt(e) < CreatedAt(c)
             PROVE  /\ entry[e] # "absent"
                    /\ entry[e] = "posted" /\ e \notin Mappable => Has(e)
  BY <1>3 DEF Passed
<1>5. e < c
  BY <1>3, BeforeInstant
<1>6. e \notin push[u].todo
  <2>1. e \in Nat /\ c \in Nat
    BY <1>3, EntriesAssumption DEF EntriesAssumption
  <2> QED
    BY <1>3, <1>5, <2>1
<1>7. entry[e] # "absent"
  BY <1>1, <1>3, <1>4, <1>5 DEF NoGap
<1> QED
  BY <1>1, <1>3, <1>5, <1>6, <1>7 DEF Reached

\* The candidates are the oldest entries to send.
LEMMA OldestAreCandidates ==
    ASSUME NEW d \in Candidates, NEW e \in Entries, e < d, Unsent(e)
    PROVE  e \in Candidates
<1> DEFINE Before(x) == {y \in Entries : y < x /\ Unsent(y)}
<1>1. d \in Entries /\ Cardinality(Before(d)) < Limit
  BY DEF Candidates
<1>2. d \in Nat /\ e \in Nat /\ Entries \subseteq Nat /\ Limit \in Nat
  BY <1>1, EntriesAssumption DEF EntriesAssumption
<1>3. Before(d) \subseteq 0 .. d /\ Before(e) \subseteq Before(d)
  <2>1. ASSUME NEW y \in Before(d) PROVE y \in 0 .. d
    BY <1>2
  <2>2. ASSUME NEW y \in Before(e) PROVE y \in Before(d)
    BY <1>2
  <2> QED
    BY <2>1, <2>2
<1> HIDE DEF Before
<1>4. IsFiniteSet(Before(d))
  <2>1. IsFiniteSet(0 .. d)
    BY <1>2, FS_Interval
  <2> QED
    BY <1>3, <2>1, FS_Subset
<1>5. IsFiniteSet(Before(e)) /\ Cardinality(Before(e)) <= Cardinality(Before(d))
  BY <1>3, <1>4, FS_Subset
<1>6. Cardinality(Before(e)) \in Nat /\ Cardinality(Before(d)) \in Nat
  BY <1>4, <1>5, FS_CardinalityType
<1>7. Cardinality(Before(e)) < Limit
  BY <1>1, <1>2, <1>5, <1>6
<1> QED
  BY <1>7 DEF Candidates, Before

\* A push that starts serves.
LEMMA StartServes ==
    ASSUME Covered, Candidates # {} PROVE Reached(Candidates)
<1>1. There /\ Passed(conn.cursor) /\ Typed /\ SyncedIsThere
  BY DEF Covered, There
<1> SUFFICES ASSUME NEW d \in Candidates
             PROVE  /\ entry[d] # "absent"
                    /\ \A e \in Entries \ Mappable :
                          e < d /\ entry[e] = "posted" => e \in Candidates \/ Has(e)
  BY DEF Reached
<1>2. entry[d] # "absent"
  BY DEF Candidates, Unsent
<1>3. ASSUME NEW e \in Entries \ Mappable, e < d, entry[e] = "posted", e \notin Candidates
      PROVE  Has(e)
  <2>1. ~Unsent(e)
    BY <1>3, OldestAreCandidates
  <2>2. CASE e \in synced
    BY <1>1, <2>2 DEF SyncedIsThere, Has
  <2>3. CASE ~(CreatedAt(e) >= conn.cursor)
    <3>1. CreatedAt(e) \in Nat /\ conn.cursor \in Nat
      <4>1. \A c \in Cursors : c \in Nat
        BY InstantIsNumber DEF Cursors
      <4> QED
        BY <1>1, <4>1, InstantIsNumber DEF Typed, TypeOK, NoConnection
    <3>2. CreatedAt(e) < conn.cursor
      BY <2>3, <3>1
    <3> QED
      BY <1>1, <1>3, <3>2 DEF Passed
  <2> QED
    BY <1>3, <2>1, <2>2, <2>3 DEF Unsent
<1> QED
  BY <1>2, <1>3

LEMMA CoveredInit == Init => Covered
<1> SUFFICES ASSUME Init PROVE Covered
  OBVIOUS
<1>1. There /\ NoGap /\ Entries \ Mappable \subseteq mapped
  BY ThereInit DEF Init, NoGap
<1>2. Passed(conn.cursor)
  BY NothingBeforeNull DEF Init, NoConnection, Passed
<1>3. \A u \in Pushers : push[u] = Idle
  BY DEF Init
<1> QED
  BY <1>1, <1>2, <1>3 DEF Covered

LEMMA CoveredNext ==
    ASSUME InOrder PROVE Covered /\ [Next]_vars => Covered'
<1> SUFFICES ASSUME Covered, [Next]_vars PROVE Covered'
  OBVIOUS
<1>t. There /\ Typed /\ NoGap /\ push \in [Pushers -> Push \cup {Idle}] /\ There'
  BY ThereNext DEF Covered, There, Typed, TypeOK
<1> USE DEF local
\* A push that goes to another step, or tries again.
<1>p. ASSUME NEW u \in Pushers, push[u] # Idle, NEW p \in Push, push' = [push EXCEPT ![u] = p],
             p.mapped = push[u].mapped, p.todo = push[u].todo, p.cursor = push[u].cursor,
             UNCHANGED <<entry, mapped, conn>>, Grows
      PROVE  Covered'
  <2>1. Serves(p)
    BY <1>p DEF Covered, Serves
  <2> QED
    BY <1>p, <1>t, <2>1, PushCovers
<1>g. ASSUME NEW u \in Pushers, push[u].step \in {"find", "create", "record"},
             NEW to \in {"find", "create", "record", "finish"}, Goes(u, to),
             UNCHANGED <<entry, mapped, conn>>, Grows
      PROVE  Covered'
  <2> DEFINE p == [push[u] EXCEPT !.step = to]
  <2>1. push[u] # Idle /\ push[u] \in Push
    BY <1>g, <1>t, IdleStep
  <2>2. p \in Push /\ p.mapped = push[u].mapped /\ p.todo = push[u].todo /\ p.cursor = push[u].cursor
    BY <2>1 DEF Push
  <2>3. push' = [push EXCEPT ![u] = p]
    BY <1>g DEF Goes
  <2> HIDE DEF p
  <2> QED
    BY <1>g, <1>p, <2>1, <2>2, <2>3
\* What leaves the pushes alone.
<1>b. ASSUME push' = push, Onward, NoGap', Entries \ Mappable \subseteq mapped', Passed(conn'.cursor)
      PROVE  Covered'
  <2>1. ASSUME NEW u \in Pushers, push[u] # Idle PROVE Serves(push[u])'
    <3>1. push[u] \in Push /\ Serves(push[u])
      BY <1>t, <2>1 DEF Covered
    <3>2. PICK q : q = push[u]
      OBVIOUS
    <3>3. Serves(q)'
      BY <1>b, <1>t, <3>1, <3>2, ServesStays
    <3> QED
      BY <1>b, <3>2, <3>3
  <2>2. Passed(conn.cursor)'
    <3>1. PICK c : c = conn'.cursor
      OBVIOUS
    <3>2. Passed(c)'
      BY <1>b, <1>t, <3>1, PassedStays
    <3> QED
      BY <3>1, <3>2
  <2> QED
    BY <1>b, <1>t, <2>1, <2>2 DEF Covered
<1>1. CASE UNCHANGED vars
  <2>1. Onward
    BY <1>1, <1>t, SameGrows DEF Onward, vars
  <2> QED
    BY <1>1, <1>b, <1>t, <2>1 DEF Covered, NoGap, vars
<1>2. ASSUME NEW e \in Entries, PostEntry(e) PROVE Covered'
  <2>1. /\ entry[e] = "absent" /\ \A d \in Entries : d < e => entry[d] # "absent"
        /\ entry \in [Entries -> {"absent", "posted", "deleted"}]
        /\ entry' = [entry EXCEPT ![e] = "posted"] /\ UNCHANGED <<mapped, conn, posted, push>>
    BY <1>2, <1>t DEF PostEntry, Typed, TypeOK
  <2>2. Onward
    BY <1>t, <2>1, SameGrows DEF Onward, NoGap
  <2>3. NoGap'
    BY <1>t, <2>1 DEF NoGap
  <2> QED
    BY <1>b, <2>1, <2>2, <2>3 DEF Covered
<1>3. ASSUME NEW e \in Entries, DeleteEntry(e) PROVE Covered'
  <2>1. /\ entry[e] = "posted" /\ entry \in [Entries -> {"absent", "posted", "deleted"}]
        /\ entry' = [entry EXCEPT ![e] = "deleted"] /\ UNCHANGED <<mapped, conn, posted, push>>
    BY <1>3, <1>t DEF DeleteEntry, Typed, TypeOK
  <2>2. Onward
    BY <1>t, <2>1, SameGrows DEF Onward
  <2>3. NoGap'
    BY <1>t, <2>1 DEF NoGap
  <2> QED
    BY <1>b, <2>1, <2>2, <2>3 DEF Covered
<1>4. ASSUME NEW e \in Mappable, ChangeMapping(e) PROVE Covered'
  <2>1. /\ UNCHANGED <<entry, conn, posted, push>>
        /\ mapped \ {e} \subseteq mapped'
    BY <1>4 DEF ChangeMapping
  <2>2. Onward
    BY <1>t, <2>1, SameGrows DEF Onward
  <2>3. Entries \ Mappable \subseteq mapped' /\ NoGap'
    BY <1>t, <2>1 DEF Covered, NoGap
  <2> QED
    BY <1>b, <2>1, <2>2, <2>3 DEF Covered
<1>5. ASSUME NEW realm \in Companies, Connect(realm) PROVE Covered'
  <2>1. UNCHANGED <<entry, mapped, posted, push>> /\ conn'.cursor = 0
    BY <1>5 DEF Connect
  <2>2. Onward
    BY <1>t, <2>1, SameGrows DEF Onward
  <2>3. Passed(conn'.cursor) /\ NoGap'
    BY <1>t, <2>1, NothingBeforeNull DEF Passed, NoGap
  <2> QED
    BY <1>b, <2>1, <2>2, <2>3 DEF Covered
<1>6. CASE Disconnect
  <2>1. UNCHANGED <<entry, mapped, posted>> /\ conn'.cursor = 0
    BY <1>6 DEF Disconnect, NoConnection
  <2>2. Onward
    BY <1>t, <2>1, SameGrows DEF Onward
  <2>3. ASSUME NEW u \in Pushers, push'[u] # Idle PROVE Serves(push[u])'
    <3>1. push[u] # Idle /\ push'[u] = [push[u] EXCEPT !.stale = TRUE] /\ push[u] \in Push
      BY <1>6, <1>t, <2>3 DEF Disconnect
    <3>2. PICK q : q = push'[u]
      OBVIOUS
    <3>3. q \in Push
      BY <3>1, <3>2, PushField
    <3>4. q.mapped = push[u].mapped /\ q.todo = push[u].todo /\ q.cursor = push[u].cursor
      BY <3>1, <3>2 DEF Push
    <3>5. Serves(q)
      BY <3>1, <3>4 DEF Covered, Serves
    <3>6. Serves(q)'
      BY <1>t, <2>2, <3>3, <3>5, ServesStays
    <3> QED
      BY <3>2, <3>6
  <2>4. Passed(conn.cursor)' /\ NoGap'
    BY <1>t, <2>1, NothingBeforeNull DEF Passed, NoGap
  <2> QED
    BY <1>t, <2>1, <2>3, <2>4 DEF Covered
<1>7. ASSUME NEW u \in Pushers, Start(u) PROVE Covered'
  <2> DEFINE p == [step |-> "find", todo |-> Candidates, mapped |-> mapped, flushed |-> {},
                   realm |-> conn.realm, cursor |-> conn.cursor, tries |-> 0, stale |-> FALSE]
  <2>1. /\ push' = [push EXCEPT ![u] = p] /\ UNCHANGED <<entry, mapped, conn>>
        /\ Candidates # {} /\ conn # NoConnection /\ Grows
    BY <1>7, <1>t, SameGrows DEF Start
  <2>2. p.mapped = mapped /\ p.todo = Candidates /\ p.cursor = conn.cursor
    OBVIOUS
  <2>3. p \in Push
    <3>1. /\ conn \in [realm : Companies, cursor : Cursors] /\ mapped \in SUBSET Entries
          /\ Candidates \in SUBSET Entries /\ 0 \in 0 .. Retries
      BY <1>t, <2>1, EntriesAssumption DEF Typed, TypeOK, Candidates, EntriesAssumption
    <3> QED
      BY <3>1 DEF Push
  <2>4. Reached(Candidates)
    BY <2>1, StartServes
  <2> HIDE DEF p
  <2>5. Serves(p)
    BY <2>2, <2>4 DEF Covered, Serves
  <2> QED
    BY <1>t, <2>1, <2>3, <2>5, PushCovers
<1>8. ASSUME NEW u \in Pushers, SkipUnmapped(u) PROVE Covered'
  <2>1. /\ push[u].step = "find" /\ Current(u) \notin push[u].mapped
        /\ push' = [push EXCEPT ![u] = Advanced(u)] /\ UNCHANGED <<entry, mapped, conn>> /\ Grows
    BY <1>8, <1>t, SameGrows DEF SkipUnmapped
  <2>2. push[u] # Idle
    BY <2>1, IdleStep
  <2>3. Current(u) \in Mappable /\ Serves(push[u]) /\ Advanced(u) \in Push
    BY <1>t, <2>1, <2>2, CurrentIsEntry, AdvancedType DEF Covered, Serves
  <2>4. Serves(Advanced(u))
    BY <1>t, <2>1, <2>2, <2>3, AdvancedServes
  <2> QED
    BY <1>t, <2>1, <2>3, <2>4, PushCovers
<1>9. ASSUME NEW u \in Pushers, Find(u) PROVE Covered'
  BY <1>9, <1>t, <1>g, SameGrows DEF Find
<1>10. ASSUME NEW u \in Pushers, FindFails(u) PROVE Covered'
  BY <1>10, <1>t, <1>g, SameGrows DEF FindFails, BreakOff
<1>11. ASSUME NEW u \in Pushers, Create(u) PROVE Covered'
  BY <1>11, <1>t, <1>g, LandGrows DEF Create
<1>12. ASSUME NEW u \in Pushers, CreateFails(u) PROVE Covered'
  <2>1. push[u].step = "create" /\ UNCHANGED <<entry, mapped, conn>> /\ Grows
    BY <1>12, <1>t, SameGrows, LandGrows DEF CreateFails
  <2>2. CASE Goes(u, "finish")
    BY <1>g, <2>1, <2>2
  <2>3. CASE push[u].tries < Retries /\ push' = [push EXCEPT ![u].tries = @ + 1]
    <3> DEFINE n == push[u].tries + 1
               p == [push[u] EXCEPT !.tries = n]
    <3>1. push[u] # Idle /\ push[u] \in Push
      BY <1>t, <2>1, PushOf
    <3>2. n \in 0 .. Retries
      BY <2>3, <3>1, EntriesAssumption DEF Push, EntriesAssumption
    <3>3. push' = [push EXCEPT ![u] = p]
      BY <2>3
    <3> HIDE DEF n
    <3>4. p \in Push
      BY <3>1, <3>2, PushField
    <3>5. p.mapped = push[u].mapped /\ p.todo = push[u].todo /\ p.cursor = push[u].cursor
      BY <3>1 DEF Push
    <3> HIDE DEF p
    <3> QED
      BY <1>p, <2>1, <3>1, <3>3, <3>4, <3>5
  <2> QED
    BY <1>12, <2>2, <2>3 DEF CreateFails, BreakOff
<1>13. ASSUME NEW u \in Pushers, Record(u) PROVE Covered'
  <2> DEFINE e == Current(u)
             q == [Advanced(u) EXCEPT !.flushed = push[u].flushed \cup {e}]
             p == [q EXCEPT !.cursor = CreatedAt(e)]
  <2>1. push[u].step = "record" /\ UNCHANGED <<entry, mapped, conn>> /\ Grows
    BY <1>13, <1>t, SameGrows DEF Record
  <2>2. push[u] # Idle /\ push[u] \in Push
    BY <1>t, <2>1, PushOf
  <2>3. Advanced(u) \in Push /\ Advanced(u).flushed = push[u].flushed
    BY <1>t, <2>1, <2>2, AdvancedType
  <2>4. e \in Entries /\ CreatedAt(e) \in Cursors /\ push[u].flushed \in SUBSET Entries
    BY <1>t, <2>1, <2>2, CurrentIsEntry, InstantIsCursor DEF Push
  <2>5. Has(e)
    BY <1>t, <2>1, <2>2, <2>4 DEF There, Sent, Has, Push
  <2>6. Serves(Advanced(u))
    BY <1>t, <2>1, <2>2, <2>5, AdvancedServes DEF Covered
  <2>7. Passed(CreatedAt(e))
    BY <2>1, <2>2, CursorServes
  <2>8. push' = [push EXCEPT ![u] = p]
    BY <1>13, <2>3 DEF Record
  <2> HIDE DEF e
  <2>9. q \in Push
    BY <2>3, <2>4, PushField
  <2>10. q.mapped = Advanced(u).mapped /\ q.todo = Advanced(u).todo
    BY <2>3 DEF Push
  <2> HIDE DEF q
  <2>11. p \in Push
    BY <2>4, <2>9, PushField
  <2>12. p.mapped = q.mapped /\ p.todo = q.todo /\ p.cursor = CreatedAt(e)
    BY <2>9 DEF Push
  <2> HIDE DEF p
  <2>13. Serves(p)
    BY <2>6, <2>7, <2>10, <2>12 DEF Serves
  <2> QED
    BY <1>t, <2>1, <2>8, <2>11, <2>13, PushCovers
<1>14. ASSUME NEW u \in Pushers, RollBack(u) PROVE Covered'
  <2>1. push[u].step = "record" /\ UNCHANGED <<entry, mapped, conn>> /\ Grows
    BY <1>14, <1>t, SameGrows DEF RollBack
  <2>2. CASE push' = [push EXCEPT ![u] = Idle]
    BY <1>t, <2>1, <2>2, PushCovers
  <2>3. CASE push' = [push EXCEPT ![u] = [Advanced(u) EXCEPT !.flushed = {}]]
    <3> DEFINE p == [Advanced(u) EXCEPT !.flushed = {}]
    <3>1. push[u] # Idle /\ push[u] \in Push
      BY <1>t, <2>1, PushOf
    <3>2. Advanced(u) \in Push
      BY <1>t, <2>1, <3>1, AdvancedType
    <3>3. push[u].realm \in Companies /\ posted[push[u].realm][Current(u)] > 0
      BY <1>t, <2>1, <3>1 DEF There, Sent, Push
    <3>4. Serves(Advanced(u))
      BY <1>t, <2>1, <3>1, <3>3, AdvancedServes DEF Covered, Has
    <3>5. p \in Push /\ p.mapped = Advanced(u).mapped /\ p.todo = Advanced(u).todo
          /\ p.cursor = Advanced(u).cursor
      BY <3>2 DEF Push
    <3>6. push' = [push EXCEPT ![u] = p]
      BY <2>3
    <3> HIDE DEF p
    <3>7. Serves(p)
      BY <3>4, <3>5 DEF Serves
    <3> QED
      BY <1>t, <2>1, <3>5, <3>6, <3>7, PushCovers
  <2> QED
    BY <1>14, <2>2, <2>3 DEF RollBack
<1>15. ASSUME NEW u \in Pushers, Commit(u) PROVE Covered'
  <2>1. /\ push[u].step = "finish" /\ push' = [push EXCEPT ![u] = Idle]
        /\ UNCHANGED <<entry, mapped, posted>> /\ Grows
    BY <1>15, <1>t, SameGrows DEF Commit
  <2>2. push[u] # Idle
    BY <1>t, <2>1, PushOf
  <2>3. conn'.cursor = conn.cursor \/ conn'.cursor = push[u].cursor
    <3>1. CASE push[u].stale
      BY <1>15, <3>1 DEF Commit
    <3>2. CASE ~push[u].stale
      <4>1. conn \in [realm : Companies, cursor : Cursors] /\ conn' = [conn EXCEPT !.cursor = push[u].cursor]
        BY <1>15, <1>t, <2>2, <3>2 DEF Commit, Typed, TypeOK, Busy
      <4> QED
        BY <4>1
    <3> QED
      BY <3>1, <3>2
  <2>4. Passed(push[u].cursor)
    BY <2>2 DEF Covered, Serves
  <2> QED
    BY <1>t, <2>1, <2>3, <2>4, PushCovers
<1>16. ASSUME NEW u \in Pushers, Crash(u) PROVE Covered'
  BY <1>16, <1>t, SameGrows, PushCovers DEF Crash
<1> QED
  BY <1>1, <1>2, <1>3, <1>4, <1>5, <1>6, <1>7, <1>8, <1>9, <1>10, <1>11, <1>12, <1>13,
     <1>14, <1>15, <1>16 DEF Next, Step

\* An organisation that stays with one company, and entries that become visible in the
\* order of their created_at: the cursor never passes an entry that QuickBooks does not
\* have, for any number of pushes at once, of repeats, of entries of one instant and of
\* faults, and any batch limit. With several companies the same proof gives that one of
\* them has the entry (Covered): the sync rows and a push under way outlive the change.
THEOREM CursorCorrect ==
    ASSUME InOrder, \A r, s \in Companies : r = s PROVE Spec => []CursorCovers
<1>1. Spec => []Covered
  BY CoveredInit, CoveredNext, PTL DEF Spec
<1>2. ASSUME Covered PROVE CursorCovers
  <2>1. Passed(conn.cursor) /\ TypeOK
    BY <1>2 DEF Covered, There, Typed
  <2> SUFFICES ASSUME NEW e \in Entries \ Mappable, entry[e] = "posted", CreatedAt(e) < conn.cursor
               PROVE  posted[conn.realm][e] > 0
    BY DEF CursorCovers
  <2>2. conn.realm \in Companies
    BY <2>1, NothingBeforeNull DEF TypeOK, NoConnection
  <2>3. Has(e)
    BY <2>1 DEF Passed
  <2> QED
    BY <2>2, <2>3 DEF Has
<1> QED
  BY <1>1, <1>2, PTL
=============================================================================
