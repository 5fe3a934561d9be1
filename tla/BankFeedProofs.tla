---------------------------- MODULE BankFeedProofs ----------------------------
(***************************************************************************)
(* The types of the register and its feed, whatever overlaps; and, where   *)
(* requests and syncs do not overlap each other: a line is cleared exactly *)
(* while it lies in a reconciliation, a completed reconciliation balances, *)
(* and the cursor answers for the lines of the feed. Syncs may overlap     *)
(* syncs: what one writes of a line it found is its amount, and it writes  *)
(* a whole row only of a line that is in no reconciliation afterwards.     *)
(***************************************************************************)
EXTENDS BankFeed, SequenceTheorems, FiniteSetTheorems, WellFoundedInduction, TLAPS

-----------------------------------------------------------------------------
(* Rows.                                                                    *)

\* What may be written to a row is a row.
LEMMA RowWritten ==
    ASSUME NEW row \in Row
    PROVE  /\ \A amount \in Amounts \cup {0} : [row EXCEPT !.amount = amount] \in Row
           /\ \A amount \in Amounts \cup {0} : row.id < MaxRows => Inserted(row, amount) \in Row
           /\ Removed(row) \in Row
<1>1. row.id \in 0 .. MaxRows /\ MaxRows \in Nat
  BY RegisterAssumption DEF Row
<1>2. ASSUME NEW amount \in Amounts \cup {0}
      PROVE  [row EXCEPT !.amount = amount] \in Row
  BY DEF Row
<1>3. ASSUME NEW amount \in Amounts \cup {0}, row.id < MaxRows
      PROVE  Inserted(row, amount) \in Row
  <2>1. row.id + 1 \in 0 .. MaxRows
    BY <1>1, <1>3
  <2> QED
    BY <2>1 DEF Inserted, Row
<1>4. Removed(row) \in Row
  BY <1>1 DEF Removed, Row
<1> QED
  BY <1>2, <1>3, <1>4

LEMMA RowTied ==
    ASSUME NEW row \in Row
    PROVE  /\ \A r \in Recons : [row EXCEPT !.status = "cleared", !.recon = r] \in Row
           /\ [row EXCEPT !.status = "unmatched", !.recon = NoRecon] \in Row
           /\ [row EXCEPT !.recon = NoRecon] \in Row
<1>1. ASSUME NEW r \in Recons
      PROVE  [row EXCEPT !.status = "cleared", !.recon = r] \in Row
  BY DEF Row
<1>2. [row EXCEPT !.status = "unmatched", !.recon = NoRecon] \in Row
  BY DEF Row
<1>3. [row EXCEPT !.recon = NoRecon] \in Row
  BY DEF Row
<1> QED
  BY <1>1, <1>2, <1>3

\* What a change of the bank makes of the row it finds.
LEMMA AppliedRow ==
    ASSUME NEW row \in Row, NEW change \in Change, Present(row) \/ row.id < MaxRows
    PROVE  Applied(row, change) \in Row
<1>1. change.amount \in Amounts \cup {0} /\ change.kind \in {"added", "modified", "removed"}
  BY DEF Change
<1> QED
  BY <1>1, RowWritten DEF Applied

-----------------------------------------------------------------------------
(* Types.                                                                   *)

\* A sync has its own copy of exactly the lines it has read, among them those it holds.
SyncShape ==
    /\ view = [u \in Users |-> view[u]] /\ sync = [s \in Syncs |-> sync[s]]
    /\ \A s \in Syncs : Running(s) =>
         /\ sync[s].kept \subseteq FeedKeys
         /\ \A k \in FeedKeys : sync[s].read[k] = Unread <=> sync[s].row[k] = Unread
         /\ \A k \in sync[s].held : sync[s].row[k] # Unread

Typed == TypeOK /\ SyncShape

\* What the requests of users keep.
LEMMA EditTypes ==
    ASSUME Typed, NEW u \in Users, Edit(u) \/ \E k \in Keys : DeleteTransaction(u, k)
    PROVE  /\ line' \in [Keys -> Row] /\ recon' \in [Recons -> Statement]
           /\ view' = [view EXCEPT ![u] = Idle]
<1>1. line \in [Keys -> Row] /\ recon \in [Recons -> Statement]
  BY DEF Typed, TypeOK
<1>2. ManualKeys \subseteq Keys /\ FileKeys \subseteq Keys
  BY DEF Keys
<1>3. CASE CreateTransaction(u)
  BY <1>1, <1>2, <1>3, RowWritten DEF CreateTransaction, Answer
<1>4. CASE ImportStatement(u)
  <2>1. PICK file \in SUBSET FileKeys, amount \in Amounts :
          LET new == {k \in file : ~Present(Seen(u, k))} IN
          /\ \A k \in new : ~Present(line[k]) /\ line[k].id < MaxRows
          /\ line' = [k \in Keys |-> IF k \in new THEN Inserted(line[k], amount) ELSE line[k]]
    BY <1>4 DEF ImportStatement
  <2>2. \A k \in Keys : k \in {n \in file : ~Present(Seen(u, n))} => Inserted(line[k], amount) \in Row
    BY <1>1, <2>1, RowWritten
  <2> QED
    BY <1>1, <1>4, <2>1, <2>2 DEF ImportStatement, Answer
<1>5. ASSUME NEW k \in Keys, DeleteTransaction(u, k)
      PROVE  /\ line' \in [Keys -> Row] /\ recon' \in [Recons -> Statement]
             /\ view' = [view EXCEPT ![u] = Idle]
  BY <1>1, <1>5, RowWritten DEF DeleteTransaction, Answer
<1>6. CASE CreateReconciliation(u)
  <2>1. \A change \in Amounts : [status |-> "in_progress", change |-> change] \in Statement
    BY RegisterAssumption DEF Statement
  <2> QED
    BY <1>1, <1>6, <2>1 DEF CreateReconciliation, Answer
<1>7. CASE ClearTransactions(u)
  <2>1. PICK r \in Recons, ks \in (SUBSET Keys) \ {{}} :
          LET new == {k \in ks : Seen(u, k).recon = NoRecon} IN
          line' = [k \in Keys |->
                     IF k \in new THEN [line[k] EXCEPT !.status = "cleared", !.recon = r]
                     ELSE line[k]]
    BY <1>7 DEF ClearTransactions
  <2>2. \A k \in Keys : [line[k] EXCEPT !.status = "cleared", !.recon = r] \in Row
    BY <1>1, RowTied
  <2> QED
    BY <1>1, <1>7, <2>1, <2>2 DEF ClearTransactions, Answer
<1>8. \A k \in Keys : /\ [line[k] EXCEPT !.status = "unmatched", !.recon = NoRecon] \in Row
                      /\ [line[k] EXCEPT !.recon = NoRecon] \in Row
  BY <1>1, RowTied
<1>9. CASE UnclearTransactions(u)
  BY <1>1, <1>8, <1>9 DEF UnclearTransactions, Release, Answer
<1>10. \A r \in Recons : \A status \in {"in_progress", "completed", "deleted"} :
          [recon EXCEPT ![r].status = status] \in [Recons -> Statement]
  BY <1>1 DEF Statement
<1>11. ASSUME NEW r \in Recons, CompleteReconciliation(u, r) \/ ReopenReconciliation(u, r)
       PROVE  /\ line' \in [Keys -> Row] /\ recon' \in [Recons -> Statement]
              /\ view' = [view EXCEPT ![u] = Idle]
  BY <1>1, <1>10, <1>11 DEF CompleteReconciliation, ReopenReconciliation, Answer
<1>12. ASSUME NEW r \in Recons, DeleteReconciliation(u, r)
       PROVE  /\ line' \in [Keys -> Row] /\ recon' \in [Recons -> Statement]
              /\ view' = [view EXCEPT ![u] = Idle]
  BY <1>1, <1>8, <1>10, <1>12 DEF DeleteReconciliation, Answer
<1>13. CASE Refuse(u)
  BY <1>1, <1>13 DEF Refuse, Answer
<1> QED
  BY <1>3, <1>4, <1>5, <1>6, <1>7, <1>9, <1>11, <1>12, <1>13 DEF Edit

\* A request that ends leaves nothing loaded.
LEMMA Answered ==
    ASSUME Typed, NEW u \in Users, view' = [view EXCEPT ![u] = Idle],
           line' \in [Keys -> Row], recon' \in [Recons -> Statement]
    PROVE  /\ view' = [v \in Users |-> view'[v]]
           /\ \A v \in Users : Busy(v)' => /\ view'[v].line \in [Keys -> Row]
                                           /\ view'[v].recon \in [Recons -> Statement]
  BY DEF Typed, TypeOK, SyncShape, Busy

\* The types of one sync.
SyncTyped(own, length) ==
    /\ own.from \in 0 .. length /\ own.at \in 0 .. length
    /\ own.read \in [FeedKeys -> Row \cup {Unread}]
    /\ own.row \in [FeedKeys -> Row \cup {Unread}]
    /\ own.held \subseteq FeedKeys /\ own.kept \subseteq FeedKeys
    /\ \A k \in FeedKeys : own.read[k] = Unread <=> own.row[k] = Unread
    /\ \A k \in own.held : own.row[k] # Unread

\* A sync that goes on with its types, or ends.
LEMMA SyncReplaced ==
    ASSUME Typed, NEW s \in Syncs, NEW own, own = Ended \/ SyncTyped(own, Len(feed)),
           sync' = [sync EXCEPT ![s] = own], UNCHANGED feed
    PROVE  /\ sync' = [t \in Syncs |-> sync'[t]]
           /\ \A t \in Syncs : Running(t)' => SyncTyped(sync'[t], Len(feed'))
  BY DEF Typed, TypeOK, SyncShape, Running, SyncTyped

\* The types of the syncs are those of each of them.
LEMMA SyncsTyped ==
    /\ Typed => \A s \in Syncs : Running(s) => SyncTyped(sync[s], Len(feed))
    /\ /\ line \in [Keys -> Row] /\ recon \in [Recons -> Statement]
       /\ \A u \in Users : Busy(u) => /\ view[u].line \in [Keys -> Row]
                                      /\ view[u].recon \in [Recons -> Statement]
       /\ feed \in Seq(Change) /\ cursor \in 0 .. Len(feed)
       /\ astray \in SUBSET FeedKeys
       /\ view = [u \in Users |-> view[u]] /\ sync = [s \in Syncs |-> sync[s]]
       /\ \A s \in Syncs : Running(s) => SyncTyped(sync[s], Len(feed))
       => Typed
  BY DEF Typed, TypeOK, SyncShape, SyncTyped

\* A page leaves the sync with rows.
LEMMA PageTypes ==
    ASSUME Typed, NEW s \in Syncs, ApplyPage(s)
    PROVE  \E own : sync' = [sync EXCEPT ![s] = own] /\ SyncTyped(own, Len(feed))
<1>1. PICK next \in sync[s].at + 1 .. Len(feed) :
         LET page == sync[s].at + 1 .. next
             hit  == {feed[n].key : n \in page}
             of(k) == CHOOSE n \in page : feed[n].key = k
         IN
         /\ \A k \in hit : Present(Shown(s, k)) \/ Shown(s, k).id < MaxRows
         /\ sync' = [sync EXCEPT ![s] =
              [from |-> @.from, at |-> next,
               read |-> [k \in FeedKeys |-> IF k \in hit /\ @.read[k] = Unread THEN line[k] ELSE @.read[k]],
               row  |-> [k \in FeedKeys |-> IF k \in hit THEN Applied(Shown(s, k), feed[of(k)]) ELSE @.row[k]],
               held |-> @.held \cup Staged(s),
               kept |-> @.kept \cup {k \in hit : /\ feed[of(k)].kind # "added"
                                                 /\ Present(Shown(s, k)) /\ Retained(Shown(s, k))}]]
  BY DEF ApplyPage
<1> DEFINE page == sync[s].at + 1 .. next
           hit  == {feed[n].key : n \in page}
           of(k) == CHOOSE n \in page : feed[n].key = k
           kept == {k \in hit : /\ feed[of(k)].kind # "added"
                                /\ Present(Shown(s, k)) /\ Retained(Shown(s, k))}
           read == [k \in FeedKeys |-> IF k \in hit /\ sync[s].read[k] = Unread
                                       THEN line[k] ELSE sync[s].read[k]]
           row  == [k \in FeedKeys |-> IF k \in hit THEN Applied(Shown(s, k), feed[of(k)])
                                       ELSE sync[s].row[k]]
           own  == [from |-> sync[s].from, at |-> next, read |-> read, row |-> row,
                    held |-> sync[s].held \cup Staged(s), kept |-> sync[s].kept \cup kept]
<1>2. sync' = [sync EXCEPT ![s] = own]
  BY <1>1
<1>3. \A k \in hit : Present(Shown(s, k)) \/ Shown(s, k).id < MaxRows
  BY <1>1
<1>4. SyncTyped(sync[s], Len(feed))
  BY SyncsTyped DEF ApplyPage
<1>5. /\ line \in [Keys -> Row] /\ FeedKeys \subseteq Keys /\ Unread \notin Row
      /\ feed \in Seq(Change) /\ Len(feed) \in Nat
  BY FeedAssumption, LenProperties DEF Typed, TypeOK, Keys
<1>6. \A n \in page : feed[n] \in Change
  <2>1. \A n \in page : n \in 1 .. Len(feed)
    BY <1>4, <1>5 DEF SyncTyped
  <2> QED
    BY <1>5, <2>1, ElementOfSeq
<1>7. hit \subseteq FeedKeys
  BY <1>6 DEF Change
<1>8. next \in 0 .. Len(feed)
  BY <1>4, <1>5 DEF SyncTyped
<1>9. ASSUME NEW k \in FeedKeys
      PROVE  Shown(s, k) \in Row
  BY <1>4, <1>5, <1>9 DEF Shown, SyncTyped
<1>10. ASSUME NEW k \in hit
       PROVE  Applied(Shown(s, k), feed[of(k)]) \in Row
  <2>1. feed[of(k)] \in Change
    BY <1>6, <1>10
  <2>2. Shown(s, k) \in Row
    BY <1>7, <1>9, <1>10
  <2> HIDE DEF of, hit
  <2> QED
    BY <1>3, <1>10, <2>1, <2>2, AppliedRow
<1>11. kept \subseteq FeedKeys
  BY <1>7
<1> HIDE DEF page, hit, of, kept
<1>12. ASSUME NEW k \in FeedKeys
       PROVE  /\ read[k] \in Row \cup {Unread} /\ row[k] \in Row \cup {Unread}
              /\ read[k] = Unread <=> row[k] = Unread
              /\ sync[s].row[k] # Unread => row[k] # Unread
  <2>1. CASE k \in hit
    <3>1. row[k] \in Row
      BY <1>10, <2>1
    <3>2. read[k] \in Row
      BY <1>4, <1>5, <2>1 DEF SyncTyped
    <3> QED
      BY <1>5, <3>1, <3>2
  <2>2. CASE k \notin hit
    BY <1>4, <2>2 DEF SyncTyped
  <2> QED
    BY <2>1, <2>2
<1>13. \A k \in sync[s].held \cup Staged(s) : k \in FeedKeys /\ sync[s].row[k] # Unread
  BY <1>4 DEF SyncTyped, Staged
<1>14. read = [k \in FeedKeys |-> read[k]] /\ row = [k \in FeedKeys |-> row[k]]
  OBVIOUS
<1> HIDE DEF read, row
<1>15. SyncTyped(own, Len(feed))
  BY <1>4, <1>8, <1>11, <1>12, <1>13, <1>14 DEF SyncTyped
<1> QED
  BY <1>2, <1>15

\* What a commit leaves of a row.
LEMMA FlushedRow ==
    ASSUME Typed, NEW s \in Syncs, CommitSync(s), NEW k \in Staged(s) \cup sync[s].held
    PROVE  Flushed(s, k) \in Row
<1>1. SyncTyped(sync[s], Len(feed))
  BY SyncsTyped DEF CommitSync
<1>2. k \in FeedKeys /\ k \in Keys /\ line[k] \in Row
  BY <1>1 DEF Staged, SyncTyped, Keys, Typed, TypeOK
<1>3. /\ sync[s].read[k] \in Row \cup {Unread} /\ sync[s].row[k] \in Row \cup {Unread}
      /\ sync[s].row[k] # Unread
  BY <1>1, <1>2 DEF Staged, SyncTyped
<1>4. sync[s].row[k].amount \in Amounts \cup {0}
  BY <1>3 DEF Row
<1>5. ~Present(sync[s].read[k]) /\ Present(sync[s].row[k]) => line[k].id < MaxRows
  <2> SUFFICES ASSUME ~Present(sync[s].read[k]), Present(sync[s].row[k])
               PROVE  line[k].id < MaxRows
    OBVIOUS
  <2>1. k \in Staged(s)
    BY <1>2 DEF Staged
  <2> QED
    BY <2>1 DEF CommitSync
<1> QED
  BY <1>2, <1>4, <1>5, RowWritten DEF Flushed

\* Nothing is loaded, staged or known at the start.
LEMMA TypeInit == Init => Typed
<1> SUFFICES ASSUME Init PROVE Typed
  OBVIOUS
<1>1. line \in [Keys -> Row] /\ recon \in [Recons -> Statement]
  BY RegisterAssumption DEF Init, RegisterInit, NoRow, Row, Statement
<1>2. feed \in Seq(Change) /\ cursor \in 0 .. Len(feed)
  BY EmptySeq DEF Init
<1>3. \A u \in Users : ~Busy(u)
  BY DEF Init, RegisterInit, Busy
<1>4. \A s \in Syncs : ~Running(s)
  BY DEF Init, Running
<1>5. view = [u \in Users |-> view[u]] /\ sync = [s \in Syncs |-> sync[s]] /\ astray = {}
  BY DEF Init, RegisterInit
<1> QED
  BY <1>1, <1>2, <1>3, <1>4, <1>5 DEF Typed, TypeOK, SyncShape

\* Some positions in a stream have a last one.
LEMMA LastOfAll ==
    ASSUME NEW length \in Nat, NEW positions \in SUBSET (1 .. length), positions # {}
    PROVE  Max(positions) \in positions
<1> DEFINE behind == {length - n : n \in positions}
<1>1. behind \in SUBSET Nat /\ behind # {}
  <2>1. \A n \in positions : length - n \in Nat
    OBVIOUS
  <2>2. behind \in SUBSET Nat
    BY <2>1
  <2>3. behind # {}
    OBVIOUS
  <2> QED
    BY <2>2, <2>3
<1>2. PICK x \in behind : \A y \in behind : <<y, x>> \notin OpToRel(<, Nat)
  BY <1>1, NatLessThanWellFounded, WFMin, Zenon
<1>3. \A y \in behind : x <= y
  <2> TAKE y \in behind
  <2>1. <<y, x>> \notin OpToRel(<, Nat) /\ x \in Nat /\ y \in Nat
    BY <1>1, <1>2
  <2> QED
    BY <2>1 DEF OpToRel
<1>4. PICK n \in positions : x = length - n
  OBVIOUS
<1>5. \A m \in positions : n >= m
  <2> TAKE m \in positions
  <2>1. length - n <= length - m
    BY <1>3, <1>4
  <2> QED
    BY <2>1
<1> QED
  BY <1>5 DEF Max

\* Every step keeps the types.
LEMMA TypeNext ==
    ASSUME Typed, [Next]_vars
    PROVE  Typed'
<1> DEFINE RegisterTyped ==
             /\ line \in [Keys -> Row] /\ recon \in [Recons -> Statement]
             /\ view = [u \in Users |-> view[u]]
             /\ \A u \in Users : Busy(u) => /\ view[u].line \in [Keys -> Row]
                                            /\ view[u].recon \in [Recons -> Statement]
           FeedTyped ==
             /\ feed \in Seq(Change) /\ cursor \in 0 .. Len(feed) /\ astray \in SUBSET FeedKeys
             /\ sync = [s \in Syncs |-> sync[s]]
             /\ \A s \in Syncs : Running(s) => SyncTyped(sync[s], Len(feed))
<1>1. RegisterTyped /\ FeedTyped
  <2>1. RegisterTyped
    BY DEF Typed, TypeOK, SyncShape
  <2>2. /\ feed \in Seq(Change) /\ cursor \in 0 .. Len(feed) /\ astray \in SUBSET FeedKeys
        /\ sync = [s \in Syncs |-> sync[s]]
    BY DEF Typed, TypeOK, SyncShape
  <2> QED
    BY <2>1, <2>2, SyncsTyped
<1>2. ASSUME RegisterTyped', FeedTyped'
      PROVE  Typed'
  <2>1. /\ feed' \in Seq(Change) /\ cursor' \in 0 .. Len(feed') /\ astray' \in SUBSET FeedKeys
        /\ sync' = [s \in Syncs |-> sync'[s]]
        /\ \A s \in Syncs : Running(s)' => SyncTyped(sync'[s], Len(feed'))
    BY <1>2
  <2>2. TypeOK'
    BY <1>2, <2>1 DEF TypeOK, SyncTyped
  <2>3. SyncShape'
    BY <1>2, <2>1 DEF SyncShape, SyncTyped
  <2> QED
    BY <2>2, <2>3 DEF Typed
<1>3. ASSUME UNCHANGED <<line, recon, view>>
      PROVE  RegisterTyped'
  BY <1>1, <1>3 DEF Busy
<1>4. ASSUME UNCHANGED feedVars
      PROVE  FeedTyped'
  BY <1>1, <1>4 DEF feedVars, Running
<1>5. ASSUME NEW u \in Users, Request(u)
      PROVE  Typed'
  <2>1. CASE Load(u)
    <3>1. view' = [view EXCEPT ![u] = [line |-> line, recon |-> recon]] /\ UNCHANGED <<line, recon>>
      BY <2>1 DEF Load
    <3>2. UNCHANGED feedVars
      BY <1>5, <2>1, <3>1 DEF Request, feedVars, Load, Edit, DeleteTransaction, Busy, CreateTransaction, ImportStatement, CreateReconciliation,
            ClearTransactions, UnclearTransactions, CompleteReconciliation, ReopenReconciliation,
            DeleteReconciliation, Refuse
    <3>3. RegisterTyped'
      BY <1>1, <3>1 DEF Busy
    <3> QED
      BY <1>2, <1>4, <3>2, <3>3
  <2>2. CASE Edit(u) \/ \E k \in Keys : DeleteTransaction(u, k)
    <3>1. RegisterTyped'
      BY <2>2, EditTypes, Answered
    <3>2. CASE Load(u)
      BY <2>1, <3>2
    <3>3. CASE ~Load(u)
      <4>1. UNCHANGED <<feed, cursor, sync>> /\ astray' \in SUBSET FeedKeys
        BY <1>1, <1>5, <3>3 DEF Request, feedVars
      <4>2. FeedTyped'
        BY <1>1, <4>1 DEF Running
      <4> QED
        BY <1>2, <3>1, <4>2
    <3> QED
      BY <3>2, <3>3
  <2> QED
    BY <1>5, <2>1, <2>2 DEF Request
<1>6. ASSUME NEW kind \in {"added", "modified", "removed"}, NEW k \in FeedKeys,
             NEW amount \in Amounts, Happens(kind, k, amount)
      PROVE  Typed'
  <2>1. [kind |-> kind, key |-> k, amount |-> amount] \in Change
    BY DEF Change
  <2>2. feed' \in Seq(Change) /\ Len(feed') = Len(feed) + 1 /\ Len(feed) \in Nat
    BY <1>1, <1>6, <2>1, AppendProperties, LenProperties DEF Happens
  <2>3. ASSUME NEW s \in Syncs, Running(s)
        PROVE  SyncTyped(sync[s], Len(feed'))
    BY <1>1, <2>2, <2>3 DEF SyncTyped
  <2>4. UNCHANGED <<line, recon, view, cursor, sync, astray>>
    BY <1>6 DEF Happens
  <2>5. FeedTyped'
    BY <1>1, <2>2, <2>3, <2>4 DEF Running
  <2> QED
    BY <1>2, <1>3, <2>4, <2>5
<1>7. ASSUME NEW k \in FeedKeys, Known(k)
      PROVE  feed[Max(Changes(k))].amount \in Amounts
  <2>1. Changes(k) \subseteq 1 .. Len(feed) /\ Changes(k) # {} /\ Len(feed) \in Nat
    BY <1>1, <1>7, LenProperties DEF Changes, Known
  <2>2. Max(Changes(k)) \in 1 .. Len(feed)
    BY <2>1, LastOfAll
  <2>3. feed[Max(Changes(k))] \in Change
    BY <1>1, <2>2, ElementOfSeq
  <2> QED
    BY <2>3 DEF Change
<1>8. ASSUME NEW k \in FeedKeys, BankAdds(k) \/ BankModifies(k) \/ BankRemoves(k)
      PROVE  Typed'
  BY <1>6, <1>7, <1>8 DEF BankAdds, BankModifies, BankRemoves
<1>9. ASSUME NEW s \in Syncs, NEW own, own = Ended \/ SyncTyped(own, Len(feed)),
             sync' = [sync EXCEPT ![s] = own], UNCHANGED <<line, recon, view, feed, cursor, astray>>
      PROVE  Typed'
  BY <1>1, <1>2, <1>3, <1>9, SyncReplaced
<1>10. ASSUME NEW s \in Syncs, BeginSync(s)
       PROVE  Typed'
  <2> DEFINE own == [from |-> cursor, at |-> cursor,
                     read |-> [k \in FeedKeys |-> Unread], row |-> [k \in FeedKeys |-> Unread],
                     held |-> {}, kept |-> {}]
  <2>1. SyncTyped(own, Len(feed))
    BY <1>1 DEF SyncTyped
  <2> HIDE DEF own
  <2>2. sync' = [sync EXCEPT ![s] = own] /\ UNCHANGED <<line, recon, view, feed, cursor, astray>>
    BY <1>10 DEF BeginSync, own
  <2> QED
    BY <1>9, <2>1, <2>2
<1>11. ASSUME NEW s \in Syncs, ApplyPage(s)
       PROVE  Typed'
  <2>1. UNCHANGED <<line, recon, view, feed, cursor, astray>>
    BY <1>11 DEF ApplyPage
  <2> QED
    BY <1>9, <1>11, <2>1, PageTypes
<1>12. ASSUME NEW s \in Syncs, CommitSync(s)
       PROVE  Typed'
  <2>1. SyncTyped(sync[s], Len(feed))
    BY <1>1, <1>12 DEF CommitSync
  <2>2. line' \in [Keys -> Row]
    BY <1>1, <1>12, FlushedRow DEF CommitSync
  <2>3. RegisterTyped'
    BY <1>1, <1>12, <2>2 DEF CommitSync, Busy
  <2>4. cursor' \in 0 .. Len(feed') /\ astray' \in SUBSET FeedKeys /\ feed' = feed
    BY <1>1, <1>12, <2>1 DEF CommitSync, SyncTyped
  <2>5. sync' = [sync EXCEPT ![s] = Ended]
    BY <1>12 DEF CommitSync
  <2> QED
    BY <1>1, <1>2, <2>3, <2>4, <2>5, SyncReplaced
<1>13. ASSUME NEW s \in Syncs, AbortSync(s)
       PROVE  Typed'
  BY <1>9, <1>13 DEF AbortSync
<1>14. CASE UNCHANGED vars
  BY <1>1, <1>2, <1>3, <1>4, <1>14 DEF vars, feedVars
<1> QED
  BY <1>5, <1>8, <1>10, <1>11, <1>12, <1>13, <1>14 DEF Next

\* Every variable always has its type, whatever overlaps.
THEOREM TypeCorrect == Spec => []TypeOK
<1>1. Typed /\ [Next]_vars => Typed'
  BY TypeNext
<1> QED
  BY <1>1, TypeInit, PTL DEF Spec, Typed

-----------------------------------------------------------------------------
(* Cleared lines, where requests and syncs do not overlap.                  *)

\* What a request has loaded is what there is: no other request is under way, and no
\* sync.
Alone ==
    /\ \A u, v \in Users : Busy(u) /\ Busy(v) => u = v
    /\ \A u \in Users : Busy(u) =>
         /\ view[u].line = line /\ view[u].recon = recon
         /\ \A s \in Syncs : ~Running(s)

ClearedInv == Typed /\ Alone /\ ClearedIffReconciled

\* A user who is not busy any more leaves the others as they were, at rest.
LEMMA AloneAgain ==
    ASSUME ClearedInv, NEW u \in Users, Busy(u), view' = [view EXCEPT ![u] = Idle]
    PROVE  Alone'
<1>1. \A v \in Users : view'[v] = Idle
  BY DEF ClearedInv, Alone, Typed, SyncShape, Busy
<1> QED
  BY <1>1 DEF Alone, Busy

\* Requests come and go one at a time.
LEMMA AloneNext ==
    ASSUME ClearedInv, ~Overlap, [Next]_vars
    PROVE  Alone'
<1>1. ASSUME NEW u \in Users, Request(u)
      PROVE  Alone'
  <2>1. CASE Edit(u) \/ \E k \in Keys : DeleteTransaction(u, k)
    <3>1. Busy(u)
      BY <2>1 DEF Edit, DeleteTransaction, CreateTransaction, ImportStatement, CreateReconciliation,
         ClearTransactions, UnclearTransactions, CompleteReconciliation, ReopenReconciliation,
         DeleteReconciliation, Refuse
    <3>2. view' = [view EXCEPT ![u] = Idle]
      BY <2>1, EditTypes DEF ClearedInv
    <3> QED
      BY <3>1, <3>2, AloneAgain
  <2>2. CASE Load(u) /\ (\A s \in Syncs : ~Running(s)) /\ UNCHANGED feedVars
    <3>1. \A v \in Users : view[v] = Idle
      BY <2>2 DEF Load, Busy
    <3>2. view' = [view EXCEPT ![u] = [line |-> line, recon |-> recon]] /\ UNCHANGED <<line, recon>>
      BY <2>2 DEF Load
    <3>3. \A s \in Syncs : ~Running(s)'
      BY <2>2 DEF Running, feedVars
    <3>4. \A v \in Users : v # u => ~Busy(v)'
      BY <3>1, <3>2 DEF Busy, ClearedInv, Typed, SyncShape
    <3>5. view'[u].line = line' /\ view'[u].recon = recon'
      BY <3>2 DEF ClearedInv, Typed, SyncShape
    <3> QED
      BY <3>3, <3>4, <3>5 DEF Alone
  <2> QED
    BY <1>1, <2>1, <2>2 DEF Request
<1>2. ASSUME NEW k \in FeedKeys, BankAdds(k) \/ BankModifies(k) \/ BankRemoves(k)
      PROVE  Alone'
  BY <1>2 DEF BankAdds, BankModifies, BankRemoves, Happens, ClearedInv, Alone, Busy, Running
<1>3. ASSUME NEW s \in Syncs, BeginSync(s) \/ ApplyPage(s) \/ CommitSync(s) \/ AbortSync(s)
      PROVE  Alone'
  <2>1. \A u \in Users : ~Busy(u)
    BY <1>3 DEF BeginSync, ApplyPage, CommitSync, AbortSync, ClearedInv, Alone
  <2>2. UNCHANGED view
    BY <1>3 DEF BeginSync, ApplyPage, CommitSync, AbortSync
  <2> QED
    BY <2>1, <2>2 DEF Alone, Busy
<1>4. CASE UNCHANGED vars
  BY <1>4 DEF vars, ClearedInv, Alone, Busy, Running
<1> QED
  BY <1>1, <1>2, <1>3, <1>4 DEF Next

\* How a row may change in a step: it is in no reconciliation afterwards and not
\* cleared, or is as it was but for its amount, or is cleared in reconciliation r.
LEMMA RowAfter ==
    ASSUME NEW row \in Row
    PROVE  /\ \A amount : /\ [row EXCEPT !.amount = amount].recon = row.recon
                          /\ [row EXCEPT !.amount = amount].status = row.status
           /\ \A amount : Inserted(row, amount).recon = NoRecon /\ Inserted(row, amount).status = "unmatched"
           /\ Removed(row).recon = NoRecon /\ Removed(row).status = "absent"
           /\ \A r : /\ [row EXCEPT !.status = "cleared", !.recon = r].recon = r
                     /\ [row EXCEPT !.status = "cleared", !.recon = r].status = "cleared"
           /\ [row EXCEPT !.status = "unmatched", !.recon = NoRecon].recon = NoRecon
           /\ [row EXCEPT !.status = "unmatched", !.recon = NoRecon].status = "unmatched"
  BY DEF Row, Inserted, Removed

\* The property again, by row, with what a step leaves of a row.
Freed(row) == row.status # "cleared" /\ row.recon = NoRecon
Kept(row, old) == row.status = old.status /\ row.recon = old.recon
Standing == {"in_progress", "completed"}

LEMMA StaysCleared ==
    ASSUME ClearedInv, recon' \in [Recons -> Statement],
           \A k \in Keys : \/ Freed(line'[k]) \/ Kept(line'[k], line[k])
                           \/ /\ line'[k].status = "cleared" /\ line'[k].recon \in Recons
                              /\ recon'[line'[k].recon].status \in Standing,
           \A r \in Recons : recon[r].status \in Standing =>
               \/ recon'[r].status \in Standing
               \/ \A k \in Keys : line'[k].recon # r
    PROVE  ClearedIffReconciled'
<1> SUFFICES ASSUME NEW k \in Keys
             PROVE  /\ line'[k].status = "cleared" <=> line'[k].recon # NoRecon
                    /\ line'[k].recon # NoRecon => recon'[line'[k].recon].status \in Standing
  BY DEF ClearedIffReconciled, Standing
<1>1. line[k] \in Row /\ (line[k].recon # NoRecon => line[k].recon \in Recons)
  BY DEF ClearedInv, Typed, TypeOK, Row
<1>2. CASE Freed(line'[k])
  BY <1>2 DEF Freed
<1>3. CASE Kept(line'[k], line[k])
  BY <1>1, <1>3 DEF Kept, ClearedInv, ClearedIffReconciled, Standing
<1>4. CASE /\ line'[k].status = "cleared" /\ line'[k].recon \in Recons
           /\ recon'[line'[k].recon].status \in Standing
  BY <1>4, RegisterAssumption
<1> QED
  BY <1>2, <1>3, <1>4

\* A request leaves no line cleared nowhere.
LEMMA EditCleared ==
    ASSUME ClearedInv, NEW u \in Users, Edit(u) \/ \E k \in Keys : DeleteTransaction(u, k)
    PROVE  ClearedIffReconciled'
<1>1. /\ line \in [Keys -> Row] /\ recon \in [Recons -> Statement]
      /\ recon' \in [Recons -> Statement]
  BY EditTypes DEF ClearedInv, Typed, TypeOK
<1>2. \A k \in Keys : line[k] \in Row
  BY <1>1
<1>3. view[u].line = line /\ view[u].recon = recon
  BY DEF ClearedInv, Alone, Edit, DeleteTransaction, CreateTransaction, ImportStatement,
         CreateReconciliation, ClearTransactions, UnclearTransactions, CompleteReconciliation,
         ReopenReconciliation, DeleteReconciliation, Refuse
<1>4. CASE CreateTransaction(u)
  <2>1. PICK k \in Keys, amount \in Amounts : line' = [line EXCEPT ![k] = Inserted(line[k], amount)]
    BY <1>4 DEF CreateTransaction, Keys
  <2>2. Freed(line'[k]) /\ \A n \in Keys \ {k} : line'[n] = line[n]
    BY <1>1, <1>2, <2>1, RowAfter DEF Freed
  <2>3. UNCHANGED recon
    BY <1>4 DEF CreateTransaction
  <2> QED
    BY <1>1, <2>2, <2>3, StaysCleared DEF Kept
<1>5. CASE ImportStatement(u)
  <2>1. PICK new, amount : line' = [k \in Keys |-> IF k \in new THEN Inserted(line[k], amount) ELSE line[k]]
    BY <1>5 DEF ImportStatement
  <2>2. \A k \in Keys : Freed(line'[k]) \/ Kept(line'[k], line[k])
    BY <1>2, <2>1, RowAfter DEF Freed, Kept
  <2>3. UNCHANGED recon
    BY <1>5 DEF ImportStatement
  <2> QED
    BY <1>1, <2>2, <2>3, StaysCleared
<1>6. ASSUME NEW k \in Keys, DeleteTransaction(u, k)
      PROVE  ClearedIffReconciled'
  <2>1. \A n \in Keys : Freed(line'[n]) \/ Kept(line'[n], line[n])
    <3>1. line' = [line EXCEPT ![k] = IF StillThere(u, {k}) THEN Removed(line[k]) ELSE line[k]]
      BY <1>6 DEF DeleteTransaction
    <3> QED
      BY <1>1, <1>2, <3>1, RowAfter DEF Freed, Kept
  <2>2. UNCHANGED recon
    BY <1>6 DEF DeleteTransaction
  <2> QED
    BY <1>1, <2>1, <2>2, StaysCleared
<1>7. CASE CreateReconciliation(u)
  <2>1. PICK r \in Recons, change \in Amounts :
          /\ recon' = [recon EXCEPT ![r] = [status |-> "in_progress", change |-> change]]
          /\ UNCHANGED line
    BY <1>7 DEF CreateReconciliation
  <2>2. \A q \in Recons : recon[q].status \in Standing => recon'[q].status \in Standing
    BY <1>1, <2>1 DEF Standing
  <2> QED
    BY <1>1, <2>1, <2>2, StaysCleared DEF Kept
<1>8. CASE ClearTransactions(u)
  <2>1. PICK r \in Recons, ks \in (SUBSET Keys) \ {{}} :
          LET new == {k \in ks : Seen(u, k).recon = NoRecon} IN
          /\ Editable(u, r)
          /\ line' = [k \in Keys |->
                        IF k \in new THEN [line[k] EXCEPT !.status = "cleared", !.recon = r]
                        ELSE line[k]]
    BY <1>8 DEF ClearTransactions
  <2>2. recon[r].status \in Standing /\ UNCHANGED recon
    BY <1>3, <1>8, <2>1 DEF Editable, Standing, ClearTransactions
  <2>3. \A k \in Keys : \/ Kept(line'[k], line[k])
                        \/ line'[k].status = "cleared" /\ line'[k].recon = r
    <3> DEFINE tied(k) == [line[k] EXCEPT !.status = "cleared", !.recon = r]
               new == {k \in ks : Seen(u, k).recon = NoRecon}
    <3>1. \A k \in Keys : tied(k).status = "cleared" /\ tied(k).recon = r
      BY <1>2, RowAfter
    <3>2. line' = [k \in Keys |-> IF k \in new THEN tied(k) ELSE line[k]]
      BY <2>1
    <3> HIDE DEF tied, new
    <3> QED
      BY <3>1, <3>2 DEF Kept
  <2>4. \A k \in Keys : \/ Kept(line'[k], line[k])
                        \/ /\ line'[k].status = "cleared" /\ line'[k].recon \in Recons
                           /\ recon'[line'[k].recon].status \in Standing
    BY <2>2, <2>3
  <2> QED
    BY <1>1, <2>2, <2>4, StaysCleared
<1>9. CASE UnclearTransactions(u)
  <2>1. PICK ks : line' = [k \in Keys |-> IF k \in ks
                            THEN [line[k] EXCEPT !.status = "unmatched", !.recon = NoRecon]
                            ELSE line[k]]
    BY <1>9 DEF UnclearTransactions, Release
  <2>2. \A k \in Keys : Freed(line'[k]) \/ Kept(line'[k], line[k])
    BY <1>2, <2>1, RowAfter DEF Freed, Kept
  <2>3. UNCHANGED recon
    BY <1>9 DEF UnclearTransactions
  <2> QED
    BY <1>1, <2>2, <2>3, StaysCleared
<1>10. ASSUME NEW r \in Recons, CompleteReconciliation(u, r) \/ ReopenReconciliation(u, r)
       PROVE  ClearedIffReconciled'
  <2>1. PICK status \in Standing : recon' = [recon EXCEPT ![r].status = status] /\ UNCHANGED line
    BY <1>10 DEF CompleteReconciliation, ReopenReconciliation, Standing
  <2>2. \A q \in Recons : recon[q].status \in Standing => recon'[q].status \in Standing
    BY <1>1, <2>1 DEF Statement
  <2> QED
    BY <1>1, <2>1, <2>2, StaysCleared DEF Kept
<1>11. ASSUME NEW r \in Recons, DeleteReconciliation(u, r)
       PROVE  ClearedIffReconciled'
  <2>1. /\ recon' = [recon EXCEPT ![r].status = "deleted"]
        /\ line' = [k \in Keys |->
              IF k \in SeenIn(u, r) THEN [line[k] EXCEPT !.status = "unmatched", !.recon = NoRecon]
              ELSE IF line[k].recon = r THEN [line[k] EXCEPT !.recon = NoRecon]
              ELSE line[k]]
    BY <1>11 DEF DeleteReconciliation
  <2>2. SeenIn(u, r) = {k \in Keys : line[k].recon = r}
    BY <1>3 DEF SeenIn, Seen
  <2>3. \A k \in Keys : \/ Freed(line'[k])
                        \/ Kept(line'[k], line[k]) /\ line'[k].recon # r
    BY <1>2, <2>1, <2>2, RowAfter DEF Freed, Kept
  <2>4. \A q \in Recons : q # r => recon'[q] = recon[q]
    BY <1>1, <2>1
  <2>5. \A k \in Keys : line'[k].recon # r
    BY <2>3, RegisterAssumption DEF Freed
  <2> QED
    BY <1>1, <2>3, <2>4, <2>5, StaysCleared
<1>12. CASE Refuse(u)
  <2>1. UNCHANGED <<line, recon>>
    BY <1>12 DEF Refuse
  <2> QED
    BY <1>1, <2>1, StaysCleared DEF Kept
<1> QED
  BY <1>4, <1>5, <1>6, <1>7, <1>8, <1>9, <1>10, <1>11, <1>12 DEF Edit

\* Nor does the commit of a sync, whatever rows it finds.
LEMMA CommitCleared ==
    ASSUME ClearedInv, NEW s \in Syncs, CommitSync(s)
    PROVE  ClearedIffReconciled'
<1>1. /\ line' = [k \in Keys |-> IF k \in Staged(s) \cup sync[s].held THEN Flushed(s, k) ELSE line[k]]
      /\ UNCHANGED recon
  BY DEF CommitSync
<1>2. \A k \in Keys : line[k] \in Row
  BY DEF ClearedInv, Typed, TypeOK
<1>3. \A k \in Keys : Freed(Flushed(s, k)) \/ Kept(Flushed(s, k), line[k])
  BY <1>2, RowAfter DEF Flushed, Freed, Kept
<1>4. \A k \in Keys : Freed(line'[k]) \/ Kept(line'[k], line[k])
  BY <1>1, <1>3 DEF Kept
<1>5. recon' \in [Recons -> Statement]
  BY <1>1 DEF ClearedInv, Typed, TypeOK
<1> QED
  BY <1>1, <1>4, <1>5, StaysCleared

\* Every step keeps the lines and reconciliations together.
LEMMA ClearedNext ==
    ASSUME ClearedInv, ~Overlap, [Next]_vars
    PROVE  ClearedInv'
<1>1. Typed' /\ Alone'
  BY TypeNext, AloneNext DEF ClearedInv
<1>2. ASSUME UNCHANGED <<line, recon>>
      PROVE  ClearedIffReconciled'
  BY <1>2 DEF ClearedInv, ClearedIffReconciled
<1>3. ASSUME NEW u \in Users, Edit(u) \/ \E k \in Keys : DeleteTransaction(u, k)
      PROVE  ClearedIffReconciled'
  BY <1>3, EditCleared
<1>4. ASSUME NEW s \in Syncs, CommitSync(s)
      PROVE  ClearedIffReconciled'
  BY <1>4, CommitCleared
<1>5. ClearedIffReconciled'
  BY <1>2, <1>3, <1>4 DEF ClearedInv, Next, Request, Load, BankAdds, BankModifies, BankRemoves, Happens,
     BeginSync, ApplyPage, AbortSync, vars
<1> QED
  BY <1>1, <1>5 DEF ClearedInv

LEMMA ClearedInit == Init => ClearedInv
<1> SUFFICES ASSUME Init PROVE Alone /\ ClearedIffReconciled
  BY TypeInit DEF ClearedInv
<1>1. Alone
  BY DEF Init, RegisterInit, Alone, Busy
<1>2. ClearedIffReconciled
  BY DEF Init, RegisterInit, NoRow, ClearedIffReconciled
<1> QED
  BY <1>1, <1>2

\* Where requests and syncs do not overlap each other, a line is cleared exactly while
\* it lies in a reconciliation that exists.
THEOREM ClearedCorrect == ~Overlap => (Spec => []ClearedIffReconciled)
<1> SUFFICES ASSUME ~Overlap PROVE Spec => []ClearedIffReconciled
  OBVIOUS
<1>1. Init => ClearedInv
  BY ClearedInit
<1>2. ClearedInv /\ [Next]_vars => ClearedInv'
  BY ClearedNext
<1> QED
  BY <1>1, <1>2, PTL DEF Spec, ClearedInv

-----------------------------------------------------------------------------
(* Pages.                                                                   *)

\* The places of a page that ends at next.
Places(s, next) == sync[s].at + 1 .. next

\* What a page makes of a line that is on it, at place n, and of one that is not.
Takes(s, k, n) ==
    /\ sync'[s].read[k] = IF sync[s].read[k] = Unread THEN line[k] ELSE sync[s].read[k]
    /\ sync'[s].row[k] = Applied(Shown(s, k), feed[n])
    /\ k \in sync'[s].kept <=> \/ k \in sync[s].kept
                               \/ feed[n].kind # "added" /\ Present(Shown(s, k)) /\ Retained(Shown(s, k))
PassesBy(s, k) ==
    /\ sync'[s].read[k] = sync[s].read[k] /\ sync'[s].row[k] = sync[s].row[k]
    /\ k \in sync'[s].kept <=> k \in sync[s].kept

\* As many keys as places: each line is on the page at one place.
LEMMA OncePerPage ==
    ASSUME NEW a \in Int, NEW b \in Int, a <= b, NEW f,
           Cardinality({f[n] : n \in a .. b}) = b - a + 1
    PROVE  \A m, n \in a .. b : f[m] = f[n] => m = n
<1> DEFINE hit == {f[n] : n \in a .. b}
           g == [n \in a .. b |-> f[n]]
<1>1. g \in Surjection(a .. b, hit)
  BY DEF Surjection
<1>2. IsFiniteSet(a .. b) /\ Cardinality(a .. b) = Cardinality(hit)
  BY FS_Interval
<1>3. g \in Injection(a .. b, hit)
  BY <1>1, <1>2, FS_Surjection
<1> QED
  BY <1>3 DEF Injection, IsInjective

\* A page takes the lines on it one by one and passes by the others.
LEMMA PageRows ==
    ASSUME Typed, NEW s \in Syncs, ApplyPage(s)
    PROVE  \E next \in sync[s].at + 1 .. Len(feed) :
             /\ sync'[s].from = sync[s].from /\ sync'[s].at = next
             /\ sync'[s].held = sync[s].held \cup Staged(s)
             /\ \A k \in FeedKeys :
                  \/ PassesBy(s, k) /\ \A n \in Places(s, next) : feed[n].key # k
                  \/ \E n \in Places(s, next) :
                       /\ Takes(s, k, n) /\ feed[n] \in Change /\ feed[n].key = k
                       /\ \A m \in Places(s, next) : feed[m].key = k => m = n
<1>1. PICK next \in sync[s].at + 1 .. Len(feed) :
         LET page == sync[s].at + 1 .. next
             hit  == {feed[n].key : n \in page}
             of(k) == CHOOSE n \in page : feed[n].key = k
         IN
         /\ Cardinality(hit) = next - sync[s].at
         /\ sync' = [sync EXCEPT ![s] =
              [from |-> @.from, at |-> next,
               read |-> [k \in FeedKeys |-> IF k \in hit /\ @.read[k] = Unread THEN line[k] ELSE @.read[k]],
               row  |-> [k \in FeedKeys |-> IF k \in hit THEN Applied(Shown(s, k), feed[of(k)]) ELSE @.row[k]],
               held |-> @.held \cup Staged(s),
               kept |-> @.kept \cup {k \in hit : /\ feed[of(k)].kind # "added"
                                                 /\ Present(Shown(s, k)) /\ Retained(Shown(s, k))}]]
  BY DEF ApplyPage
<1> DEFINE page == sync[s].at + 1 .. next
           hit  == {feed[n].key : n \in page}
           of(k) == CHOOSE n \in page : feed[n].key = k
           kept == {k \in hit : /\ feed[of(k)].kind # "added"
                                /\ Present(Shown(s, k)) /\ Retained(Shown(s, k))}
           read == [k \in FeedKeys |-> IF k \in hit /\ sync[s].read[k] = Unread
                                       THEN line[k] ELSE sync[s].read[k]]
           row  == [k \in FeedKeys |-> IF k \in hit THEN Applied(Shown(s, k), feed[of(k)])
                                       ELSE sync[s].row[k]]
           own  == [from |-> sync[s].from, at |-> next, read |-> read, row |-> row,
                    held |-> sync[s].held \cup Staged(s), kept |-> sync[s].kept \cup kept]
<1>2. sync' = [sync EXCEPT ![s] = own]
  BY <1>1
<1>3. s \in DOMAIN sync
  BY DEF Typed, SyncShape
<1>4. sync[s].at \in 0 .. Len(feed) /\ feed \in Seq(Change) /\ Len(feed) \in Nat
  BY LenProperties DEF ApplyPage, Typed, TypeOK
<1>5. \A n \in page : feed[n] \in Change
  <2>1. \A n \in page : n \in 1 .. Len(feed)
    BY <1>4
  <2> QED
    BY <1>4, <2>1, ElementOfSeq
<1>6. \A m, n \in page : feed[m].key = feed[n].key => m = n
  <2> DEFINE f == [n \in page |-> feed[n].key]
  <2>1. {f[n] : n \in page} = hit
    OBVIOUS
  <2>2. /\ sync[s].at + 1 \in Int /\ next \in Int /\ sync[s].at + 1 <= next
        /\ next - (sync[s].at + 1) + 1 = next - sync[s].at
    BY <1>4
  <2>3. Cardinality({f[n] : n \in page}) = next - (sync[s].at + 1) + 1
    BY <1>1, <2>1, <2>2
  <2>4. \A m, n \in page : f[m] = f[n] => m = n
    <3> HIDE DEF f
    <3> QED
      BY <2>2, <2>3, OncePerPage
  <2> QED
    BY <2>4
<1>7. ASSUME NEW k \in hit
      PROVE  of(k) \in page /\ feed[of(k)].key = k
  OBVIOUS
<1>8. sync'[s] = own
  BY <1>2, <1>3
<1> HIDE DEF page, hit, of, kept
<1>9. ASSUME NEW k \in FeedKeys, k \notin hit
      PROVE  PassesBy(s, k) /\ \A n \in page : feed[n].key # k
  BY <1>8, <1>9 DEF PassesBy, hit, kept
<1>10. ASSUME NEW k \in FeedKeys, k \in hit
       PROVE  Takes(s, k, of(k))
  BY <1>8, <1>10 DEF Takes, kept
<1>11. ASSUME NEW k \in FeedKeys, k \in hit
       PROVE  \A m \in page : feed[m].key = k => m = of(k)
  BY <1>6, <1>7, <1>11
<1>12. sync'[s].from = sync[s].from /\ sync'[s].at = next
       /\ sync'[s].held = sync[s].held \cup Staged(s)
  BY <1>8
<1>13. page = Places(s, next)
  BY DEF page, Places
<1> QED
  BY <1>5, <1>7, <1>9, <1>10, <1>11, <1>12, <1>13
-----------------------------------------------------------------------------
(* Completed reconciliations balance, where requests and syncs do not       *)
(* overlap each other.                                                      *)

\* A line that lies in a reconciliation is to a sync under way a line it leaves alone:
\* one it has not read, or one it has found retained.
LeftAlone(s, k) ==
    \/ sync[s].read[k] = Unread
    \/ /\ sync[s].row[k] = sync[s].read[k] /\ k \notin sync[s].held
       /\ Present(sync[s].row[k]) /\ Retained(sync[s].row[k])

SyncsLeaveAlone ==
    \A s \in Syncs, k \in FeedKeys :
        Running(s) /\ line[k].recon # NoRecon => LeftAlone(s, k)

BalanceInv == ClearedInv /\ SyncsLeaveAlone /\ CompletedBalances

\* What the bank changes of a line that is retained: nothing.
LEMMA RetainedStays ==
    ASSUME NEW row, NEW change \in Change, Present(row), Retained(row)
    PROVE  Applied(row, change) = row
BY DEF Applied, Change

\* A reconciliation that stays completed, with the lines it has, balances as before.
LEMMA StaysBalanced ==
    ASSUME CompletedBalances,
           \A r \in Recons : recon'[r].status = "completed" =>
             \/ IsBalanced(line, recon, r)' 
             \/ /\ recon[r].status = "completed" /\ recon'[r].change = recon[r].change
                /\ \A k \in Keys : line'[k].recon = r <=> line[k].recon = r
                /\ \A k \in Keys : line[k].recon = r => line'[k].amount = line[k].amount
    PROVE  CompletedBalances'
<1> SUFFICES ASSUME NEW r \in Recons, recon'[r].status = "completed"
             PROVE  IsBalanced(line, recon, r)'
  BY DEF CompletedBalances
<1>1. CASE /\ recon[r].status = "completed" /\ recon'[r].change = recon[r].change
           /\ \A k \in Keys : line'[k].recon = r <=> line[k].recon = r
           /\ \A k \in Keys : line[k].recon = r => line'[k].amount = line[k].amount
  <2> DEFINE tied == {k \in Keys : line[k].recon = r}
  <2>1. {k \in Keys : line'[k].recon = r} = tied
    BY <1>1
  <2>2. [k \in tied |-> line'[k].amount] = [k \in tied |-> line[k].amount]
    BY <1>1
  <2>3. ClearedTotal(line', r) = ClearedTotal(line, r)
    BY <2>1, <2>2 DEF ClearedTotal
  <2>4. IsBalanced(line, recon, r)
    BY <1>1 DEF CompletedBalances
  <2> QED
    BY <2>3, <2>4, <1>1 DEF IsBalanced
<1> QED
  BY <1>1

\* A request completes only what balances, and touches no line of what is completed.
LEMMA EditBalance ==
    ASSUME BalanceInv, NEW u \in Users, Edit(u) \/ \E k \in Keys : DeleteTransaction(u, k)
    PROVE  CompletedBalances'
<1>1. /\ line \in [Keys -> Row] /\ recon \in [Recons -> Statement]
      /\ CompletedBalances /\ ClearedIffReconciled
  BY DEF BalanceInv, ClearedInv, Typed, TypeOK
<1>2. \A k \in Keys : line[k] \in Row /\ (~Present(line[k]) => line[k].recon = NoRecon)
  BY <1>1 DEF ClearedIffReconciled, Present
<1>3. view[u].line = line /\ view[u].recon = recon
  BY DEF BalanceInv, ClearedInv, Alone, Edit, DeleteTransaction, CreateTransaction, ImportStatement,
         CreateReconciliation, ClearTransactions, UnclearTransactions, CompleteReconciliation,
         ReopenReconciliation, DeleteReconciliation, Refuse
<1>4. ASSUME UNCHANGED recon,
             \A k \in Keys : \/ line'[k] = line[k]
                             \/ line[k].recon = NoRecon /\ line'[k].recon = NoRecon
      PROVE  CompletedBalances'
  BY <1>1, <1>4, StaysBalanced, RegisterAssumption
<1>5. ASSUME NEW q \in Recons, recon[q].status = "in_progress", UNCHANGED recon,
             \A k \in Keys : \/ line'[k] = line[k]
                             \/ line[k].recon \in {NoRecon, q} /\ line'[k].recon \in {NoRecon, q}
      PROVE  CompletedBalances'
  BY <1>1, <1>5, StaysBalanced, RegisterAssumption
<1>6. CASE CreateTransaction(u)
  <2>1. PICK k \in Keys, amount \in Amounts : /\ ~Present(line[k]) /\ UNCHANGED recon
                                              /\ line' = [line EXCEPT ![k] = Inserted(line[k], amount)]
    BY <1>6 DEF CreateTransaction, Keys
  <2> QED
    BY <2>1, <1>1, <1>2, <1>4, RowAfter
<1>7. CASE ImportStatement(u)
  <2>1. PICK file \in SUBSET FileKeys, amount \in Amounts :
          LET new == {k \in file : ~Present(Seen(u, k))} IN
          /\ \A k \in new : ~Present(line[k])
          /\ line' = [k \in Keys |-> IF k \in new THEN Inserted(line[k], amount) ELSE line[k]]
    BY <1>7 DEF ImportStatement
  <2>2. \A k \in Keys : \/ line'[k] = line[k]
                        \/ line[k].recon = NoRecon /\ line'[k].recon = NoRecon
    BY <2>1, <1>2, RowAfter
  <2>3. UNCHANGED recon
    BY <1>7 DEF ImportStatement
  <2> QED
    BY <2>2, <2>3, <1>4
<1>8. ASSUME NEW k \in Keys, DeleteTransaction(u, k)
      PROVE  CompletedBalances'
  <2>1. /\ line' = [line EXCEPT ![k] = IF StillThere(u, {k}) THEN Removed(line[k]) ELSE line[k]]
        /\ Seen(u, k).recon = NoRecon /\ UNCHANGED recon
    BY <1>8 DEF DeleteTransaction
  <2> QED
    BY <2>1, <1>1, <1>2, <1>3, <1>4, RowAfter DEF Seen
<1>9. CASE CreateReconciliation(u)
  <2>1. PICK r \in Recons, change \in Amounts :
          /\ recon' = [recon EXCEPT ![r] = [status |-> "in_progress", change |-> change]]
          /\ UNCHANGED line
    BY <1>9 DEF CreateReconciliation
  <2>2. \A q \in Recons : recon'[q].status = "completed" => recon'[q] = recon[q]
    BY <1>1, <2>1
  <2> QED
    BY <1>1, <2>1, <2>2, StaysBalanced
<1>10. CASE ClearTransactions(u)
  <2>1. PICK r \in Recons, ks \in (SUBSET Keys) \ {{}} :
          LET new == {k \in ks : Seen(u, k).recon = NoRecon} IN
          /\ Editable(u, r)
          /\ line' = [k \in Keys |->
                        IF k \in new THEN [line[k] EXCEPT !.status = "cleared", !.recon = r]
                        ELSE line[k]]
    BY <1>10 DEF ClearTransactions
  <2>2. recon[r].status = "in_progress" /\ UNCHANGED recon
    BY <1>3, <1>10, <2>1 DEF Editable, ClearTransactions
  <2>3. \A k \in Keys : \/ line'[k] = line[k]
                        \/ line[k].recon = NoRecon /\ line'[k].recon = r
    <3> DEFINE tied(k) == [line[k] EXCEPT !.status = "cleared", !.recon = r]
               new == {k \in ks : Seen(u, k).recon = NoRecon}
    <3>1. \A k \in Keys : tied(k).recon = r
      BY <1>2, RowAfter
    <3>2. line' = [k \in Keys |-> IF k \in new THEN tied(k) ELSE line[k]]
      BY <2>1
    <3>3. \A k \in Keys : k \in new => line[k].recon = NoRecon
      BY <1>3 DEF Seen
    <3> HIDE DEF tied, new
    <3> QED
      BY <3>1, <3>2, <3>3
  <2> QED
    BY <2>2, <2>3, <1>5
<1>11. CASE UnclearTransactions(u)
  <2>1. PICK r \in Recons : \E ks \in SUBSET SeenIn(u, r) : Editable(u, r) /\ Release(u, ks)
    BY <1>11 DEF UnclearTransactions
  <2>2. PICK ks \in SUBSET SeenIn(u, r) : Release(u, ks)
    BY <2>1
  <2>3. recon[r].status = "in_progress" /\ UNCHANGED recon
    BY <1>3, <1>11, <2>1 DEF Editable, UnclearTransactions
  <2>4. \A k \in ks : line[k].recon = r
    BY <2>2, <1>3 DEF SeenIn, Seen
  <2>5. \A k \in Keys : \/ line'[k] = line[k]
                        \/ line[k].recon = r /\ line'[k].recon = NoRecon
    BY <2>2, <2>4, <1>2, RowAfter DEF Release
  <2> QED
    BY <2>3, <2>5, <1>5
<1>12. ASSUME NEW r \in Recons, CompleteReconciliation(u, r)
       PROVE  CompletedBalances'
  <2>1. /\ recon' = [recon EXCEPT ![r].status = "completed"] /\ UNCHANGED line
        /\ IsBalanced(line, recon, r)
    BY <1>3, <1>12 DEF CompleteReconciliation
  <2>2. recon'[r].change = recon[r].change /\ \A q \in Recons \ {r} : recon'[q] = recon[q]
    BY <2>1, <1>1 DEF Statement
  <2>3. IsBalanced(line, recon, r)'
    BY <2>1, <2>2 DEF IsBalanced
  <2> QED
    BY <1>1, <2>1, <2>2, <2>3, StaysBalanced
<1>13. ASSUME NEW r \in Recons, ReopenReconciliation(u, r)
       PROVE  CompletedBalances'
  <2>1. recon' = [recon EXCEPT ![r].status = "in_progress"] /\ UNCHANGED line
    BY <1>13 DEF ReopenReconciliation
  <2>2. recon'[r].status # "completed" /\ \A q \in Recons \ {r} : recon'[q] = recon[q]
    BY <2>1, <1>1 DEF Statement
  <2> QED
    BY <1>1, <2>1, <2>2, StaysBalanced
<1>14. ASSUME NEW r \in Recons, DeleteReconciliation(u, r)
       PROVE  CompletedBalances'
  <2>1. /\ recon' = [recon EXCEPT ![r].status = "deleted"]
        /\ line' = [k \in Keys |->
              IF k \in SeenIn(u, r) THEN [line[k] EXCEPT !.status = "unmatched", !.recon = NoRecon]
              ELSE IF line[k].recon = r THEN [line[k] EXCEPT !.recon = NoRecon]
              ELSE line[k]]
    BY <1>14 DEF DeleteReconciliation
  <2>2. recon'[r].status # "completed" /\ \A q \in Recons \ {r} : recon'[q] = recon[q]
    BY <2>1, <1>1 DEF Statement
  <2>3. SeenIn(u, r) = {k \in Keys : line[k].recon = r}
    BY <1>3 DEF SeenIn, Seen
  <2>4. \A k \in Keys : \/ line'[k] = line[k]
                        \/ line[k].recon = r /\ line'[k].recon = NoRecon
    BY <2>1, <2>3, <1>2, RowAfter
  <2> QED
    BY <1>1, <2>2, <2>4, StaysBalanced, RegisterAssumption
<1>15. CASE Refuse(u)
  BY <1>4, <1>15 DEF Refuse
<1> QED
  BY <1>6, <1>7, <1>8, <1>9, <1>10, <1>11, <1>12, <1>13, <1>14, <1>15 DEF Edit

\* A sync that commits writes no line that lies in a reconciliation.
LEMMA CommitLeaves ==
    ASSUME BalanceInv, NEW s \in Syncs, CommitSync(s), NEW k \in Keys
    PROVE  \/ line'[k] = line[k]
           \/ line[k].recon = NoRecon /\ line'[k].recon = NoRecon
<1>1. /\ line' = [n \in Keys |-> IF n \in Staged(s) \cup sync[s].held THEN Flushed(s, n) ELSE line[n]]
      /\ Running(s)
  BY DEF CommitSync
<1>2. line[k] \in Row /\ sync[s].held \subseteq FeedKeys
  BY <1>1 DEF BalanceInv, ClearedInv, Typed, TypeOK
<1>3. CASE line[k].recon = NoRecon
  <2>1. Flushed(s, k).recon = NoRecon
    BY <1>2, <1>3, RowAfter DEF Flushed
  <2> QED
    BY <1>1, <1>3, <2>1
<1>4. CASE line[k].recon # NoRecon
  <2>1. k \in FeedKeys => LeftAlone(s, k)
    BY <1>1, <1>4 DEF BalanceInv, SyncsLeaveAlone
  <2>2. k \notin sync[s].held
    BY <1>1, <1>2, <2>1 DEF LeftAlone, BalanceInv, ClearedInv, Typed, SyncShape
  <2>3. k \notin Staged(s)
    BY <1>1, <2>1 DEF LeftAlone, Staged, BalanceInv, ClearedInv, Typed, SyncShape
  <2> QED
    BY <1>1, <2>2, <2>3
<1> QED
  BY <1>3, <1>4

\* A page leaves alone what its sync has to.
LEMMA PageLeaves ==
    ASSUME BalanceInv, NEW s \in Syncs, ApplyPage(s), NEW k \in FeedKeys, line[k].recon # NoRecon
    PROVE  LeftAlone(s, k)'
<1>1. PICK next \in sync[s].at + 1 .. Len(feed) :
        /\ sync'[s].held = sync[s].held \cup Staged(s)
        /\ \/ PassesBy(s, k)
           \/ \E n \in Places(s, next) : Takes(s, k, n) /\ feed[n] \in Change
  BY PageRows DEF BalanceInv, ClearedInv
<1>2. Running(s) /\ line[k] \in Row /\ line[k].status = "cleared"
  BY DEF ApplyPage, Keys, BalanceInv, ClearedInv, Typed, TypeOK, ClearedIffReconciled
<1>3. Present(line[k]) /\ Retained(line[k]) /\ line[k] # Unread
  BY <1>2, FeedAssumption DEF Present, Retained
<1>4. LeftAlone(s, k)
  BY <1>2 DEF BalanceInv, SyncsLeaveAlone
<1>5. k \notin Staged(s)
  BY <1>2, <1>4 DEF LeftAlone, Staged, BalanceInv, ClearedInv, Typed, SyncShape
<1>6. sync[s].read[k] = Unread => k \notin sync[s].held
  BY <1>2 DEF BalanceInv, ClearedInv, Typed, SyncShape
<1>7. k \notin sync'[s].held
  BY <1>1, <1>4, <1>5, <1>6 DEF LeftAlone
<1>8. CASE PassesBy(s, k)
  BY <1>4, <1>7, <1>8 DEF LeftAlone, PassesBy
<1>9. ASSUME NEW n \in Places(s, next), Takes(s, k, n), feed[n] \in Change
      PROVE  LeftAlone(s, k)'
  <2> DEFINE row == Shown(s, k)
  <2>1. Present(row) /\ Retained(row)
    BY <1>3, <1>4 DEF LeftAlone, Shown
  <2>2. Applied(row, feed[n]) = row
    BY <1>9, <2>1, RetainedStays
  <2>3. sync'[s].row[k] = row /\ sync'[s].read[k] = row
    BY <1>4, <1>9, <2>2 DEF Shown, LeftAlone, Takes
  <2> QED
    BY <2>1, <2>3, <1>7 DEF LeftAlone
<1> QED
  BY <1>1, <1>8, <1>9

LEMMA LeaveAloneNext ==
    ASSUME BalanceInv, ~Overlap, [Next]_vars
    PROVE  SyncsLeaveAlone'
<1>1. ASSUME UNCHANGED <<line, sync>> PROVE SyncsLeaveAlone'
  BY <1>1 DEF BalanceInv, SyncsLeaveAlone, LeftAlone, Running
<1>2. ASSUME NEW u \in Users, Request(u) PROVE SyncsLeaveAlone'
  <2>1. CASE Load(u) /\ UNCHANGED feedVars
    BY <1>1, <2>1 DEF Load, feedVars
  <2>2. CASE Edit(u) \/ \E k \in Keys : DeleteTransaction(u, k)
    <3>1. Busy(u)
      BY <2>2 DEF Edit, DeleteTransaction, CreateTransaction, ImportStatement, CreateReconciliation,
         ClearTransactions, UnclearTransactions, CompleteReconciliation, ReopenReconciliation,
         DeleteReconciliation, Refuse
    <3>2. \A s \in Syncs : ~Running(s)'
      BY <1>2, <3>1 DEF BalanceInv, ClearedInv, Alone, Request, feedVars, Running, Load
    <3> QED
      BY <3>2 DEF SyncsLeaveAlone
  <2> QED
    BY <1>2, <2>1, <2>2 DEF Request
<1>3. ASSUME NEW k \in FeedKeys, BankAdds(k) \/ BankModifies(k) \/ BankRemoves(k)
      PROVE  SyncsLeaveAlone'
  BY <1>1, <1>3 DEF BankAdds, BankModifies, BankRemoves, Happens
<1>4. ASSUME NEW s \in Syncs, BeginSync(s) \/ ApplyPage(s) \/ CommitSync(s) \/ AbortSync(s)
      PROVE  SyncsLeaveAlone'
  <2> SUFFICES ASSUME NEW z \in Syncs, NEW k \in FeedKeys, Running(z)', line'[k].recon # NoRecon
               PROVE  LeftAlone(z, k)'
    BY DEF SyncsLeaveAlone
  <2>1. line[k].recon # NoRecon
    <3>1. CASE CommitSync(s)
      BY <3>1, CommitLeaves DEF Keys
    <3>2. CASE BeginSync(s) \/ ApplyPage(s) \/ AbortSync(s)
      BY <3>2 DEF BeginSync, ApplyPage, AbortSync
    <3> QED
      BY <1>4, <3>1, <3>2
  <2>2. CASE z # s
    <3>1. sync'[z] = sync[z]
      BY <1>4, <2>2 DEF BeginSync, ApplyPage, CommitSync, AbortSync, BalanceInv, ClearedInv, Typed, SyncShape
    <3> QED
      BY <2>1, <3>1 DEF BalanceInv, SyncsLeaveAlone, LeftAlone, Running
  <2>3. CASE z = s
    <3>1. CASE BeginSync(s)
      <4>1. sync'[s].read = [n \in FeedKeys |-> Unread]
        BY <3>1 DEF BeginSync, BalanceInv, ClearedInv, Typed, SyncShape
      <4> QED
        BY <2>3, <4>1 DEF LeftAlone
    <3>2. CASE ApplyPage(s)
      BY <2>1, <2>3, <3>2, PageLeaves
    <3>3. CASE CommitSync(s) \/ AbortSync(s)
      BY <2>3, <3>3 DEF CommitSync, AbortSync, Running, BalanceInv, ClearedInv, Typed, SyncShape
    <3> QED
      BY <1>4, <3>1, <3>2, <3>3
  <2> QED
    BY <2>2, <2>3
<1> QED
  BY <1>1, <1>2, <1>3, <1>4 DEF Next, vars

LEMMA BalanceNext ==
    ASSUME BalanceInv, ~Overlap, [Next]_vars
    PROVE  BalanceInv'
<1>1. ClearedInv' /\ SyncsLeaveAlone'
  BY ClearedNext, LeaveAloneNext DEF BalanceInv
<1>2. ASSUME UNCHANGED recon,
             \A k \in Keys : \/ line'[k] = line[k]
                             \/ line[k].recon = NoRecon /\ line'[k].recon = NoRecon
      PROVE  CompletedBalances'
  BY <1>2, StaysBalanced, RegisterAssumption DEF BalanceInv
<1>3. ASSUME NEW u \in Users, Edit(u) \/ \E k \in Keys : DeleteTransaction(u, k)
      PROVE  CompletedBalances'
  BY <1>3, EditBalance
<1>4. ASSUME NEW s \in Syncs, CommitSync(s)
      PROVE  CompletedBalances'
  <2>1. UNCHANGED recon
    BY <1>4 DEF CommitSync
  <2> QED
    BY <2>1, <1>2, <1>4, CommitLeaves
<1>5. CompletedBalances'
  BY <1>2, <1>3, <1>4 DEF Next, Request, Load, BankAdds, BankModifies, BankRemoves, Happens,
     BeginSync, ApplyPage, AbortSync, vars
<1> QED
  BY <1>1, <1>5 DEF BalanceInv

\* Where requests and syncs do not overlap each other, the lines of a completed
\* reconciliation add up to its change of balance.
THEOREM BalancesCorrect == ~Overlap => (Spec => []CompletedBalances)
<1> SUFFICES ASSUME ~Overlap PROVE Spec => []CompletedBalances
  OBVIOUS
<1>1. Init => BalanceInv
  <2>1. Init => ClearedInv
    BY ClearedInit
  <2>2. Init => SyncsLeaveAlone /\ CompletedBalances
    BY DEF Init, RegisterInit, Running, SyncsLeaveAlone, CompletedBalances
  <2> QED
    BY <2>1, <2>2 DEF BalanceInv
<1>2. BalanceInv /\ [Next]_vars => BalanceInv'
  BY BalanceNext
<1> QED
  BY <1>1, <1>2, PTL DEF Spec, BalanceInv

-----------------------------------------------------------------------------
(* The cursor, where requests and syncs do not overlap each other.          *)

\* Only the first change of a line adds it.
FirstAdded ==
    \A n \in DOMAIN feed : feed[n].kind = "added" => \A m \in Changes(feed[n].key) : n <= m

\* What a sync has of line k. Where no other sync has moved the cursor since it began,
\* its copy is what the stream makes of the line up to the page it is at, and the row
\* it read is still there.
Follows(s, k) ==
    /\ sync[s].from <= cursor /\ sync[s].from <= sync[s].at
    /\ sync[s].at = sync[s].from => sync[s].read[k] = Unread /\ k \notin sync[s].held
    /\ sync[s].from = cursor /\ k \notin sync[s].kept =>
         /\ Holds(Shown(s, k)) = AtBank(k, sync[s].at)
         /\ sync[s].read[k] # Unread => sync[s].read[k] = line[k]

SyncsFollow == \A s \in Syncs, k \in FeedKeys \ astray : Running(s) => Follows(s, k)

CursorInv == ClearedInv /\ FirstAdded /\ CursorCovers /\ SyncsFollow

\* The largest number of a set.
LEMMA MaxIs ==
    ASSUME NEW S \in SUBSET Int, NEW n \in S, \A m \in S : m <= n
    PROVE  Max(S) = n
<1>1. \A x \in S : (\A y \in S : x >= y) => x = n
  OBVIOUS
<1>2. n \in S /\ \A y \in S : n >= y
  OBVIOUS
<1> QED
  BY <1>1, <1>2 DEF Max

\* A page with one change of line k, and one with none.
LEMMA AtBankOnPage ==
    ASSUME feed \in Seq(Change), NEW s, sync[s].at \in Nat, NEW next \in 0 .. Len(feed),
           NEW n \in Places(s, next), \A m \in Places(s, next) : feed[m].key = feed[n].key => m = n
    PROVE  AtBank(feed[n].key, next) = IF feed[n].kind = "removed" THEN {} ELSE {feed[n].amount}
<1> DEFINE k == feed[n].key
           a == sync[s].at
           past == {m \in Changes(k) : m <= next}
<1>1. DOMAIN feed = 1 .. Len(feed) /\ Len(feed) \in Nat
  BY LenProperties
<1>2. past \in SUBSET Int /\ n \in past
  BY <1>1 DEF Changes, Places
<1>3. \A m \in past : m <= n
  <2> TAKE m \in past
  <2>1. m \in 1 .. next /\ feed[m].key = k
    BY <1>1 DEF Changes, Places
  <2>2. CASE m <= a
    BY <2>1, <2>2 DEF Places
  <2>3. CASE m \in a + 1 .. next
    BY <2>1, <2>3 DEF Places
  <2> QED
    BY <2>1, <2>2, <2>3
<1>4. Max(past) = n
  <2> HIDE DEF past
  <2> QED
    BY <1>2, <1>3, MaxIs
<1> QED
  BY <1>2, <1>4 DEF AtBank

LEMMA AtBankOffPage ==
    ASSUME feed \in Seq(Change), NEW k, NEW a \in Nat, NEW b \in Nat, a <= b,
           \A n \in a + 1 .. b : feed[n].key # k
    PROVE  AtBank(k, b) = AtBank(k, a)
<1>1. DOMAIN feed = 1 .. Len(feed) /\ Len(feed) \in Nat
  BY LenProperties
<1>2. {m \in Changes(k) : m <= b} = {m \in Changes(k) : m <= a}
  BY <1>1 DEF Changes
<1> QED
  BY <1>2 DEF AtBank

\* What happens later at the bank changes nothing of what the changes so far make.
LEMMA AtBankStays ==
    ASSUME feed \in Seq(Change), NEW change \in Change, feed' = Append(feed, change),
           NEW k, NEW p \in 0 .. Len(feed)
    PROVE  AtBank(k, p)' = AtBank(k, p)
<1> DEFINE past == {m \in Changes(k) : m <= p}
<1>1. /\ DOMAIN feed = 1 .. Len(feed) /\ Len(feed) \in Nat
      /\ DOMAIN feed' = 1 .. Len(feed) + 1
      /\ \A m \in 1 .. Len(feed) : feed'[m] = feed[m]
  BY LenProperties, AppendProperties
<1>2. {m \in Changes(k)' : m <= p} = past
  BY <1>1 DEF Changes
<1>3. ASSUME past # {}
      PROVE  feed'[Max(past)] = feed[Max(past)]
  <2>1. past \subseteq 1 .. p
    BY <1>1 DEF Changes
  <2>2. Max(past) \in past
    <3>1. p \in Nat /\ past \in SUBSET (1 .. p) /\ past # {}
      BY <1>1, <1>3, <2>1
    <3> HIDE DEF past
    <3> QED
      BY <3>1, LastOfAll
  <2> QED
    BY <1>1, <2>1, <2>2
<1> QED
  BY <1>2, <1>3 DEF AtBank

\* A row with another amount.
LEMMA RowAmount ==
    ASSUME NEW row \in Row, NEW amount
    PROVE  Holds([row EXCEPT !.amount = amount]) = IF Present(row) THEN {amount} ELSE {}
BY DEF Row, Holds, Present

\* What a page makes of a line is what the stream makes of it up to the page's end.
LEMMA PageFollows ==
    ASSUME CursorInv, NEW s \in Syncs, ApplyPage(s), NEW k \in FeedKeys \ astray
    PROVE  Follows(s, k)'
<1> DEFINE a == sync[s].at
<1>1. /\ Typed /\ Running(s) /\ Follows(s, k)
      /\ feed \in Seq(Change) /\ Len(feed) \in Nat
      /\ sync[s].from \in Nat /\ a \in 0 .. Len(feed) /\ cursor \in Nat
      /\ line[k] \in Row /\ Unread \notin Row
  BY LenProperties, FeedAssumption DEF CursorInv, ClearedInv, Typed, TypeOK, ApplyPage, SyncsFollow, Keys
<1>2. PICK next \in a + 1 .. Len(feed) :
        /\ sync'[s].from = sync[s].from /\ sync'[s].at = next
        /\ \/ PassesBy(s, k) /\ \A n \in Places(s, next) : feed[n].key # k
           \/ \E n \in Places(s, next) :
                /\ Takes(s, k, n) /\ feed[n] \in Change /\ feed[n].key = k
                /\ \A m \in Places(s, next) : feed[m].key = k => m = n
  BY <1>1, PageRows
<1>3. UNCHANGED <<line, feed, cursor>>
  BY DEF ApplyPage
<1>4. sync'[s].from <= cursor' /\ sync'[s].from <= sync'[s].at /\ sync'[s].at # sync'[s].from
  BY <1>1, <1>2, <1>3 DEF Follows
<1>5. SUFFICES ASSUME sync[s].from = cursor, k \notin sync'[s].kept
               PROVE  /\ Holds(Shown(s, k)')  = AtBank(k, next)
                      /\ sync'[s].read[k] # Unread => sync'[s].read[k] = line[k]
  BY <1>2, <1>3, <1>4 DEF Follows, Changes, AtBank
<1>6. k \notin sync[s].kept
  BY <1>2, <1>5 DEF PassesBy, Takes
<1>7. Holds(Shown(s, k)) = AtBank(k, a) /\ (sync[s].read[k] # Unread => sync[s].read[k] = line[k])
  BY <1>1, <1>5, <1>6 DEF Follows
<1>8. CASE PassesBy(s, k) /\ \A n \in Places(s, next) : feed[n].key # k
  <2>1. AtBank(k, next) = AtBank(k, a)
    BY <1>1, <1>2, <1>8, AtBankOffPage DEF Places
  <2> QED
    BY <1>3, <1>7, <1>8, <2>1 DEF PassesBy, Shown
<1>9. ASSUME NEW n \in Places(s, next), Takes(s, k, n), feed[n] \in Change, feed[n].key = k,
              \A m \in Places(s, next) : feed[m].key = k => m = n
       PROVE  /\ Holds(Shown(s, k)')  = AtBank(k, next)
              /\ sync'[s].read[k] # Unread => sync'[s].read[k] = line[k]
  <2> DEFINE row == Shown(s, k)
  <2>1. AtBank(k, next) = IF feed[n].kind = "removed" THEN {} ELSE {feed[n].amount}
    <3>1. sync[s].at \in Nat /\ next \in 0 .. Len(feed)
      BY <1>1, <1>2
    <3>2. \A m \in Places(s, next) : feed[m].key = feed[n].key => m = n
      BY <1>9
    <3>3. AtBank(feed[n].key, next) = IF feed[n].kind = "removed" THEN {} ELSE {feed[n].amount}
      BY <1>1, <3>1, <3>2, AtBankOnPage
    <3> QED
      BY <1>9, <3>3
  <2>2. feed[n].kind = "added" => ~Present(row)
    <3> SUFFICES ASSUME feed[n].kind = "added" PROVE Holds(row) = {}
      BY DEF Holds
    <3>1. n \in a + 1 .. Len(feed) /\ DOMAIN feed = 1 .. Len(feed)
      BY <1>1, <1>2, LenProperties DEF Places
    <3>2. {m \in Changes(k) : m <= a} = {}
      BY <1>1, <1>9, <3>1 DEF CursorInv, FirstAdded, Changes
    <3> QED
      BY <1>7, <3>2 DEF AtBank
  <2>3. feed[n].kind # "added" /\ Present(row) => ~Retained(row)
    BY <1>5, <1>9 DEF Takes
  <2>4. Shown(s, k)' = Applied(row, feed[n]) /\ (sync'[s].read[k] = line[k])
    <3>1. sync'[s].read[k] = line[k]
      BY <1>7, <1>9 DEF Takes
    <3> QED
      BY <1>1, <1>9, <3>1 DEF Takes, Shown
  <2>5. feed[n].kind \in {"added", "modified", "removed"}
    BY <1>9 DEF Change
  <2>7. row \in Row
    BY <1>1 DEF Typed, TypeOK, SyncShape, Shown
  <2>6. Holds(Applied(row, feed[n])) = AtBank(k, next)
    <3> HIDE DEF row
    <3>1. CASE feed[n].kind = "added"
      BY <2>1, <2>2, <3>1 DEF Applied, Holds, Present, Inserted
    <3>2. CASE feed[n].kind = "modified"
      <4>1. CASE Present(row)
        BY <2>1, <2>3, <2>7, <3>2, <4>1, RowAmount DEF Applied
      <4>2. CASE ~Present(row)
        BY <2>1, <3>2, <4>2 DEF Applied, Holds, Present, Inserted
      <4> QED
        BY <4>1, <4>2
    <3>3. CASE feed[n].kind = "removed"
      BY <2>1, <2>3, <3>3 DEF Applied, Holds, Present, Removed
    <3> QED
      BY <2>5, <3>1, <3>2, <3>3
  <2> QED
    BY <2>4, <2>6
<1> QED
  BY <1>2, <1>8, <1>9

\* A commit writes what its sync has of each line.
LEMMA CommitWrites ==
    ASSUME CursorInv, NEW s \in Syncs, CommitSync(s), NEW k \in FeedKeys \ astray'
    PROVE  /\ k \notin astray
           /\ cursor' = cursor => line'[k] = line[k]
           /\ cursor <= cursor'
           /\ Holds(line'[k]) = AtBank(k, cursor')
<1> DEFINE own == sync[s]
           staged == k \in Staged(s) \cup own.held
<1>1. /\ Typed /\ Running(s) /\ own.from \in Nat /\ own.at \in Nat /\ cursor \in Nat
      /\ line[k] \in Row /\ Unread \notin Row /\ k \in Keys
      /\ own.read[k] \in Row \cup {Unread} /\ own.row[k] \in Row \cup {Unread}
      /\ own.read[k] = Unread <=> own.row[k] = Unread
      /\ k \in own.held => own.row[k] # Unread
  BY LenProperties, FeedAssumption DEF CursorInv, ClearedInv, Typed, TypeOK, SyncShape, CommitSync, Keys
<1>2. ~Overtaken(s) /\ k \notin astray /\ k \notin own.kept
  BY DEF CommitSync
<1>3. Follows(s, k) /\ Holds(line[k]) = AtBank(k, cursor)
  BY <1>1, <1>2 DEF CursorInv, SyncsFollow, CursorCovers
<1>4. /\ line'[k] = IF staged THEN Flushed(s, k) ELSE line[k]
      /\ cursor' = IF own.at = own.from THEN cursor ELSE own.at
  BY <1>1 DEF CommitSync
<1>5. staged => own.read[k] # Unread
  BY <1>1 DEF Staged
<1>6. CASE own.at = own.from
  BY <1>1, <1>2, <1>3, <1>4, <1>5, <1>6 DEF Follows
<1>7. CASE own.at # own.from
  <2>1. own.from = cursor /\ own.from <= own.at
    BY <1>2, <1>3, <1>7 DEF Overtaken, Follows
  <2>2. /\ Holds(Shown(s, k)) = AtBank(k, own.at)
        /\ own.read[k] # Unread => own.read[k] = line[k]
    BY <1>2, <1>3, <2>1 DEF Follows
  <2>3. Holds(line'[k]) = Holds(Shown(s, k))
    <3>1. CASE ~staged
      <4>1. Shown(s, k) = line[k]
        BY <2>2, <3>1 DEF Staged, Shown
      <4> QED
        BY <1>4, <3>1, <4>1
    <3>2. CASE staged
      <4>1. own.read[k] = line[k] /\ Shown(s, k) = own.row[k]
        BY <1>5, <2>2, <3>2 DEF Shown
      <4>2. own.row[k] \in Row
        BY <1>1, <1>5, <3>2
      <4>3. Holds(Flushed(s, k)) = Holds(own.row[k])
        <5>1. CASE Present(own.row[k]) /\ Present(line[k])
          BY <1>1, <4>1, <5>1, RowAmount DEF Flushed, Holds
        <5>2. CASE Present(own.row[k]) /\ ~Present(line[k])
          BY <4>1, <5>2 DEF Flushed, Holds, Inserted, Present
        <5>3. CASE ~Present(own.row[k])
          BY <4>1, <5>3 DEF Flushed, Holds, Removed, Present
        <5> QED
          BY <5>1, <5>2, <5>3
      <4> QED
        BY <1>4, <3>2, <4>1, <4>3
    <3> QED
      BY <3>1, <3>2
  <2>4. cursor' = own.at /\ cursor < cursor'
    BY <1>1, <1>4, <1>7, <2>1
  <2> QED
    BY <1>1, <1>2, <2>2, <2>3, <2>4
<1> QED
  BY <1>6, <1>7

\* What a person does to a line of the feed: it is tied and released, and
\* no amount changes.
LEMMA EditHolds ==
    ASSUME ClearedInv, NEW u \in Users, Edit(u), NEW k \in FeedKeys
    PROVE  Holds(line'[k]) = Holds(line[k])
<1>1. /\ Busy(u) => view[u].line = line
      /\ line[k] \in Row /\ k \in Keys /\ k \notin FileKeys \cup ManualKeys
      /\ line[k].status = "cleared" <=> line[k].recon # NoRecon
      /\ NoRecon \notin Recons
  BY FeedAssumption, RegisterAssumption DEF ClearedInv, Alone, Typed, TypeOK, Keys, ClearedIffReconciled
<1>2. /\ \A r : Holds([line[k] EXCEPT !.status = "cleared", !.recon = r]) = {line[k].amount}
      /\ Holds([line[k] EXCEPT !.status = "unmatched", !.recon = NoRecon]) = {line[k].amount}
      /\ Holds([line[k] EXCEPT !.recon = NoRecon]) = Holds(line[k])
  BY <1>1 DEF Row, Holds, Present
<1>3. CASE CreateTransaction(u)
  BY <1>1, <1>3 DEF CreateTransaction, ClearedInv, Typed, TypeOK
<1>4. CASE ImportStatement(u)
  <2>1. PICK file \in SUBSET FileKeys : \E amount \in Amounts :
          line' = [n \in Keys |-> IF n \in {f \in file : ~Present(Seen(u, f))}
                                  THEN Inserted(line[n], amount) ELSE line[n]]
    BY <1>4 DEF ImportStatement
  <2> QED
    BY <1>1, <2>1
<1>5. CASE ClearTransactions(u)
  <2>1. PICK r \in Recons, ks \in SUBSET Keys :
          /\ \A n \in ks : Present(Seen(u, n))
          /\ line' = [n \in Keys |-> IF n \in {f \in ks : Seen(u, f).recon = NoRecon}
                                     THEN [line[n] EXCEPT !.status = "cleared", !.recon = r] ELSE line[n]]
    BY <1>5 DEF ClearTransactions
  <2>2. k \in ks => Present(line[k])
    BY <1>1, <1>5, <2>1 DEF ClearTransactions, Seen
  <2> QED
    BY <1>1, <1>2, <2>1, <2>2 DEF Holds
<1>6. ASSUME NEW r \in Recons, NEW ks \in SUBSET SeenIn(u, r), Busy(u), k \in ks
      PROVE  Present(line[k])
  BY <1>1, <1>6 DEF SeenIn, Seen, Present
<1>7. CASE UnclearTransactions(u)
  <2>1. PICK r \in Recons : \E ks \in SUBSET SeenIn(u, r) : Release(u, ks)
    BY <1>7 DEF UnclearTransactions
  <2> QED
    BY <1>1, <1>2, <1>6, <1>7, <2>1 DEF UnclearTransactions, Release, Holds
<1>8. ASSUME NEW r \in Recons, DeleteReconciliation(u, r)
      PROVE  Holds(line'[k]) = Holds(line[k])
  BY <1>1, <1>2, <1>6, <1>8 DEF DeleteReconciliation, Holds
<1>9. CASE UNCHANGED line
  BY <1>9
<1> QED
  BY <1>3, <1>4, <1>5, <1>7, <1>8, <1>9
  DEF Edit, CreateReconciliation, CompleteReconciliation, ReopenReconciliation, Refuse

LEMMA CursorInit == Init => CursorInv
<1> SUFFICES ASSUME Init PROVE FirstAdded /\ CursorCovers /\ SyncsFollow
  BY ClearedInit DEF CursorInv
<1>1. FirstAdded /\ SyncsFollow
  BY DEF Init, FirstAdded, SyncsFollow, Running
<1>2. \A k \in FeedKeys : Holds(line[k]) = {} /\ AtBank(k, cursor) = {}
  BY DEF Init, RegisterInit, NoRow, Holds, Present, AtBank, Changes, Keys
<1> QED
  BY <1>1, <1>2 DEF CursorCovers

\* What is said of a line stays where the sync, the stream, the cursor and the line do.
LEMMA FollowsStill ==
    ASSUME NEW s \in Syncs, NEW k \in FeedKeys, Follows(s, k),
           UNCHANGED <<feed, cursor>>, sync'[s] = sync[s], line'[k] = line[k]
    PROVE  Follows(s, k)'
BY DEF Follows, Shown, AtBank, Changes

LEMMA CursorNext ==
    ASSUME CursorInv, ~Overlap, [Next]_vars
    PROVE  CursorInv'
<1>1. ClearedInv'
  BY ClearedNext DEF CursorInv
<1>2. /\ Typed /\ cursor \in 0 .. Len(feed) /\ feed \in Seq(Change) /\ Len(feed) \in Nat
      /\ \A s \in Syncs : Running(s) => sync[s].at \in 0 .. Len(feed)
  BY LenProperties DEF CursorInv, ClearedInv, Typed, TypeOK
<1>3. ASSUME UNCHANGED <<line, feed, cursor, sync, astray>>
      PROVE  FirstAdded' /\ CursorCovers' /\ SyncsFollow'
  <2>1. FirstAdded' /\ CursorCovers'
    BY <1>3 DEF CursorInv, FirstAdded, CursorCovers, AtBank, Changes
  <2>2. SyncsFollow'
    BY <1>3, FollowsStill DEF CursorInv, SyncsFollow, Running
  <2> QED
    BY <2>1, <2>2
<1>4. ASSUME NEW u \in Users, Request(u)
      PROVE  FirstAdded' /\ CursorCovers' /\ SyncsFollow'
  <2>1. CASE Load(u) /\ UNCHANGED feedVars
    BY <1>3, <2>1 DEF Load, feedVars
  <2>2. ASSUME Busy(u), UNCHANGED <<feed, cursor, sync>>, astray \subseteq astray',
               \A k \in FeedKeys \ astray' : Holds(line'[k]) = Holds(line[k])
        PROVE  FirstAdded' /\ CursorCovers' /\ SyncsFollow'
    <3>1. \A s \in Syncs : ~Running(s)'
      BY <2>2 DEF CursorInv, ClearedInv, Alone, Running
    <3>2. FirstAdded' /\ SyncsFollow'
      BY <2>2, <3>1 DEF CursorInv, FirstAdded, Changes, SyncsFollow
    <3>3. CursorCovers'
      BY <2>2 DEF CursorInv, CursorCovers, AtBank, Changes
    <3> QED
      BY <3>2, <3>3
  <2>3. CASE Edit(u) /\ UNCHANGED feedVars
    <3>1. Busy(u)
      BY <2>3 DEF Edit, CreateTransaction, ImportStatement, CreateReconciliation,
         ClearTransactions, UnclearTransactions, CompleteReconciliation, ReopenReconciliation,
         DeleteReconciliation, Refuse
    <3>2. \A k \in FeedKeys : Holds(line'[k]) = Holds(line[k])
      BY <2>3, EditHolds DEF CursorInv
    <3> QED
      BY <2>2, <2>3, <3>1, <3>2 DEF feedVars
  <2>4. ASSUME NEW k \in Keys, DeleteTransaction(u, k), astray' = astray \cup (FeedKeys \cap {k}),
               UNCHANGED <<feed, cursor, sync>>
        PROVE  FirstAdded' /\ CursorCovers' /\ SyncsFollow'
    <3>1. \A n \in FeedKeys \ astray' : line'[n] = line[n]
      BY <1>2, <2>4 DEF DeleteTransaction, Typed, TypeOK, Keys
    <3> QED
      BY <2>2, <2>4, <3>1 DEF DeleteTransaction
  <2> QED
    BY <1>4, <2>1, <2>3, <2>4 DEF Request
<1>5. ASSUME NEW change \in Change, feed' = Append(feed, change),
             change.kind = "added" => Changes(change.key) = {},
             UNCHANGED <<line, cursor, sync, astray>>
      PROVE  FirstAdded' /\ CursorCovers' /\ SyncsFollow'
  <2>1. /\ DOMAIN feed = 1 .. Len(feed) /\ DOMAIN feed' = 1 .. Len(feed) + 1
        /\ \A n \in 1 .. Len(feed) : feed'[n] = feed[n]
        /\ feed'[Len(feed) + 1] = change
    BY <1>2, <1>5, LenProperties, AppendProperties
  <2>2. FirstAdded'
    <3> SUFFICES ASSUME NEW n \in 1 .. Len(feed) + 1, feed'[n].kind = "added",
                        NEW m \in 1 .. Len(feed) + 1, feed'[m].key = feed'[n].key
                 PROVE  n <= m
      BY <2>1 DEF FirstAdded, Changes
    <3>1. CASE n \in 1 .. Len(feed) /\ m \in 1 .. Len(feed)
      BY <2>1, <3>1 DEF CursorInv, FirstAdded, Changes
    <3>2. CASE m = Len(feed) + 1
      BY <1>2, <3>2
    <3>3. CASE n = Len(feed) + 1 /\ m \in 1 .. Len(feed)
      BY <1>5, <2>1, <3>3 DEF Changes
    <3> QED
      BY <1>2, <3>1, <3>2, <3>3
  <2>3. CursorCovers'
    <3> SUFFICES ASSUME NEW k \in FeedKeys \ astray
                 PROVE  Holds(line[k]) = AtBank(k, cursor)'
      BY <1>5 DEF CursorCovers, Holds
    <3>1. PICK p \in 0 .. Len(feed) : p = cursor
      BY <1>2
    <3>2. AtBank(k, p)' = AtBank(k, p)
      BY <1>2, <1>5, AtBankStays
    <3>3. AtBank(k, cursor)' = AtBank(k, p)'
      BY <1>5, <3>1 DEF AtBank, Changes
    <3> QED
      BY <3>1, <3>2, <3>3 DEF CursorInv, CursorCovers
  <2>4. ASSUME NEW s \in Syncs, NEW k \in FeedKeys \ astray, Running(s)
        PROVE  Follows(s, k)'
    <3>1. PICK p \in 0 .. Len(feed) : p = sync[s].at
      BY <1>2, <2>4
    <3>2. AtBank(k, p)' = AtBank(k, p)
      BY <1>2, <1>5, AtBankStays
    <3>3. AtBank(k, sync[s].at)' = AtBank(k, p)'
      BY <1>5, <3>1 DEF AtBank, Changes
    <3>4. Follows(s, k)
      BY <2>4 DEF CursorInv, SyncsFollow
    <3> QED
      BY <1>5, <3>1, <3>2, <3>3, <3>4 DEF Follows, Shown, Holds
  <2>5. SyncsFollow'
    BY <1>5, <2>4 DEF SyncsFollow, Running
  <2> QED
    BY <2>2, <2>3, <2>5
<1>6. ASSUME NEW k \in FeedKeys, BankAdds(k) \/ BankModifies(k) \/ BankRemoves(k)
      PROVE  FirstAdded' /\ CursorCovers' /\ SyncsFollow'
  <2>1. ASSUME NEW kind \in {"added", "modified", "removed"}, NEW amount \in Amounts,
               Happens(kind, k, amount), kind = "added" => Changes(k) = {}
        PROVE  FirstAdded' /\ CursorCovers' /\ SyncsFollow'
    <3>1. [kind |-> kind, key |-> k, amount |-> amount] \in Change
      BY DEF Change
    <3> QED
      BY <1>5, <2>1, <3>1 DEF Happens
  <2>2. Known(k) => feed[Max(Changes(k))].amount \in Amounts
    <3> SUFFICES ASSUME Known(k) PROVE feed[Max(Changes(k))].amount \in Amounts
      OBVIOUS
    <3>1. Changes(k) \subseteq 1 .. Len(feed) /\ Changes(k) # {}
      BY <1>2, LenProperties DEF Changes, Known
    <3>2. Max(Changes(k)) \in 1 .. Len(feed)
      BY <1>2, <3>1, LastOfAll
    <3>3. feed[Max(Changes(k))] \in Change
      BY <1>2, <3>2, ElementOfSeq
    <3> QED
      BY <3>3 DEF Change
  <2>3. CASE BankAdds(k)
    BY <2>1, <2>3 DEF BankAdds
  <2>4. CASE BankModifies(k)
    BY <2>1, <2>4 DEF BankModifies
  <2>5. CASE BankRemoves(k)
    BY <2>1, <2>2, <2>5 DEF BankRemoves
  <2> QED
    BY <1>6, <2>3, <2>4, <2>5
<1>7. ASSUME NEW s \in Syncs, NEW own, sync' = [sync EXCEPT ![s] = own],
             UNCHANGED <<line, feed, cursor, astray>>,
             Running(s)' => \A k \in FeedKeys \ astray : Follows(s, k)'
      PROVE  FirstAdded' /\ CursorCovers' /\ SyncsFollow'
  <2>1. FirstAdded' /\ CursorCovers'
    BY <1>7 DEF CursorInv, FirstAdded, CursorCovers, AtBank, Changes
  <2>2. ASSUME NEW z \in Syncs, NEW k \in FeedKeys \ astray, Running(z)'
        PROVE  Follows(z, k)'
    <3>1. CASE z = s
      BY <1>7, <2>2, <3>1
    <3>2. CASE z # s
      <4>1. sync'[z] = sync[z]
        BY <1>2, <1>7, <3>2 DEF Typed, SyncShape
      <4> QED
        BY <1>7, <2>2, <4>1, FollowsStill DEF CursorInv, SyncsFollow, Running
    <3> QED
      BY <3>1, <3>2
  <2> QED
    BY <1>7, <2>1, <2>2 DEF SyncsFollow
<1>8. ASSUME NEW s \in Syncs, BeginSync(s)
      PROVE  FirstAdded' /\ CursorCovers' /\ SyncsFollow'
  <2>1. /\ sync'[s].from = cursor /\ sync'[s].at = cursor /\ sync'[s].held = {}
        /\ \A k \in FeedKeys : sync'[s].read[k] = Unread
    BY <1>2, <1>8 DEF BeginSync, Typed, SyncShape
  <2>2. UNCHANGED <<line, feed, cursor, astray>>
    BY <1>8 DEF BeginSync
  <2>3. ASSUME NEW k \in FeedKeys \ astray PROVE Follows(s, k)'
    <3>1. Holds(line[k]) = AtBank(k, cursor)
      BY DEF CursorInv, CursorCovers
    <3>2. AtBank(k, sync[s].at)' = AtBank(k, cursor)
      BY <2>1, <2>2 DEF AtBank, Changes
    <3>3. Shown(s, k)' = line[k]
      BY <2>1, <2>2 DEF Shown
    <3> QED
      BY <1>2, <2>1, <2>2, <3>1, <3>2, <3>3 DEF Follows, Holds
  <2> QED
    BY <1>7, <1>8, <2>2, <2>3 DEF BeginSync
<1>9. ASSUME NEW s \in Syncs, ApplyPage(s)
      PROVE  FirstAdded' /\ CursorCovers' /\ SyncsFollow'
  <2>1. \A k \in FeedKeys \ astray : Follows(s, k)'
    BY <1>9, PageFollows
  <2>2. \E own : sync' = [sync EXCEPT ![s] = own]
    BY <1>2, <1>9, PageTypes
  <2> QED
    BY <1>7, <1>9, <2>1, <2>2 DEF ApplyPage
<1>10. ASSUME NEW s \in Syncs, AbortSync(s)
       PROVE  FirstAdded' /\ CursorCovers' /\ SyncsFollow'
  <2>1. sync'[s] = Ended
    BY <1>2, <1>10 DEF AbortSync, Typed, SyncShape
  <2> QED
    BY <1>7, <1>10, <2>1 DEF AbortSync, Running
<1>11. ASSUME NEW s \in Syncs, CommitSync(s)
       PROVE  FirstAdded' /\ CursorCovers' /\ SyncsFollow'
  <2>1. UNCHANGED feed /\ sync' = [sync EXCEPT ![s] = Ended]
    BY <1>11 DEF CommitSync
  <2>2. FirstAdded'
    BY <2>1 DEF CursorInv, FirstAdded, Changes
  <2>3. CursorCovers'
    BY <1>11, <2>1, CommitWrites DEF CursorCovers, AtBank, Changes
  <2>4. ASSUME NEW z \in Syncs, NEW k \in FeedKeys \ astray', Running(z)'
        PROVE  Follows(z, k)'
    <3>1. z # s /\ sync'[z] = sync[z] /\ Running(z)
      BY <1>2, <2>1, <2>4 DEF Running, Typed, SyncShape
    <3>2. /\ k \notin astray /\ cursor <= cursor'
          /\ cursor' = cursor => line'[k] = line[k]
      BY <1>11, CommitWrites
    <3>3. Follows(z, k)
      BY <3>1, <3>2 DEF CursorInv, SyncsFollow
    <3>4. CASE cursor' = cursor
      BY <2>1, <3>1, <3>2, <3>3, <3>4, FollowsStill
    <3>5. CASE cursor < cursor'
      <4>1. sync[z].from \in Nat /\ cursor' \in Nat
        BY <1>1, <1>2, <3>1 DEF Typed, TypeOK, ClearedInv
      <4> QED
        BY <1>2, <3>1, <3>3, <3>5, <4>1 DEF Follows
    <3> QED
      BY <1>1, <1>2, <3>2, <3>4, <3>5 DEF ClearedInv, Typed, TypeOK
  <2> QED
    BY <2>2, <2>3, <2>4 DEF SyncsFollow
<1>12. ASSUME UNCHANGED vars
       PROVE  FirstAdded' /\ CursorCovers' /\ SyncsFollow'
  BY <1>3, <1>12 DEF vars
<1> QED
  BY <1>1, <1>4, <1>6, <1>8, <1>9, <1>10, <1>11, <1>12 DEF Next, CursorInv

\* Where requests and syncs do not overlap each other, a line of the feed is what the
\* stream makes of it up to the cursor, whatever syncs are under way, fail or die: unless
\* a person deleted it or kept it from a change, or an overtaken sync was committed.
THEOREM CursorCorrect == ~Overlap => (Spec => []CursorCovers)
<1> SUFFICES ASSUME ~Overlap PROVE Spec => []CursorCovers
  OBVIOUS
<1>1. CursorInv /\ [Next]_vars => CursorInv'
  BY CursorNext
<1> QED
  BY <1>1, CursorInit, PTL DEF Spec, CursorInv
=============================================================================
