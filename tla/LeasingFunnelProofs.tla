------------------------ MODULE LeasingFunnelProofs -------------------------
(***************************************************************************)
(* Proofs about LeasingFunnel, for any parties and any number of requests. *)
(*                                                                         *)
(* A request is the update it will send. Decided by what was read, it fits *)
(* the row as it was (Fits); that the row is still so when the update is   *)
(* committed takes that no other request had the row in hand (Alone).      *)
(* What holds whatever overlaps rests on what is never taken back: the     *)
(* signatures counted for the last one (Counted), the approval a resident  *)
(* was made on (OnApproval).                                               *)
(***************************************************************************)
EXTENDS LeasingFunnel, TLAPS

USE FunnelAssumption DEF FunnelAssumption

Open == {"sent", "partially_signed"}

\* An update some request would send for the envelope as it is.
Fits(u) ==
    \/ /\ u.status \in {"expired", Nothing} /\ u.to = Nothing
       /\ envelope \notin {"completed", "declined", "voided"}
    \/ u.status \in {"voided", Nothing} /\ u.to = Nothing /\ envelope # "completed"
    \/ u.status = Nothing /\ u.to = "viewed" /\ party[u.who] = "pending" /\ envelope \in Open
    \/ /\ u.who \in Parties /\ u.to = "signed" /\ envelope \in Open
       /\ u.status \in {"completed", "partially_signed", Nothing}
       /\ u.status = "completed" <=> \A q \in Parties \ {u.who} : party[q] = "signed"
    \/ u.status = "declined" /\ u.to \in {"declined", Nothing} /\ envelope \in Open

\* The same for the application.
FitsApplication(u) ==
    /\ u.status # Nothing => application \notin Decided
    /\ u.status = "converted" \/ u.resident => application = "approved"
    /\ u.resident => ~linked

-----------------------------------------------------------------------------
(* What a step does. *)

\* The words of a status are not the absence of one.
LEMMA Words ==
    /\ Nothing \notin {"sent", "partially_signed", "completed", "declined", "expired", "voided"}
    /\ Nothing \notin {"pending", "viewed", "signed", "declined"}
    /\ Nothing \notin {"approved", "denied", "withdrawn", "converted", "screening"}
  BY DEF RequestStatus, PartyStatus, AppStatus

\* The updates of the envelope are of their type.
LEMMA UpdateIsUpdate ==
    ASSUME TypeOK, NEW status \in RequestStatus, NEW p \in Parties, NEW to \in PartyStatus
    PROVE  /\ Update(status, p, to) \in Updates
           /\ Update(status, Nothing, Nothing) \in Updates
  BY SMTT(20) DEF Update, Updates, Sent, TypeOK

\* So are those of the application.
LEMMA ChangeIsChange ==
    ASSUME NEW status \in AppStatus, NEW d \in BOOLEAN, NEW r \in BOOLEAN
    PROVE  Change(status, d, r) \in Changes
  BY DEF Change, Changes, Sent

\* A decision keeps the types of the requests.
LEMMA DecideType ==
    ASSUME TypeOK, NEW c \in Calls, NEW u \in Changes \cup Updates, Decide(c, u)
    PROVE  /\ calls' \in [Calls -> Changes \cup Updates \cup {Nothing}]
           /\ overlapped' \subseteq {"application", "envelope"}
<1>1. u.row \in {"application", "envelope"}
  BY DEF Changes, Updates
<1> QED
  BY <1>1 DEF Decide, TypeOK

\* A request on an application decides on an update that fits it, or commits.
LEMMA ApplicationStep ==
    ASSUME TypeOK, NEW c \in Calls, OnApplication(c)
    PROVE  \/ UNCHANGED applicationVars /\ \E u \in Changes : Decide(c, u) /\ FitsApplication(u)
           \/ CommitApplication(c)
<1>1. CASE UpdateApplication(c)
  <2>1. PICK target \in AppStatus : /\ CanTransition(application, target)
                                    /\ Decide(c, Change(target, FALSE, FALSE))
    BY <1>1 DEF UpdateApplication
  <2>2. application \in AppStatus
    BY <1>1 DEF UpdateApplication, Found, TypeOK
  <2>3. application \notin Decided /\ (target = "converted" => application = "approved")
    BY <2>1, <2>2 DEF CanTransition, AppTransitions, Decided, Reviewing, AppStatus
  <2>4. FitsApplication(Change(target, FALSE, FALSE))
    BY <2>3 DEF FitsApplication, Change, Sent, AppStatus
  <2> QED
    BY <1>1, <2>1, <2>4, ChangeIsChange DEF UpdateApplication
<1>2. CASE DeleteApplication(c)
  <2>1. FitsApplication(Change(application, TRUE, FALSE))
    BY Words DEF FitsApplication, Change, Sent
  <2> QED
    BY <1>2, <2>1, ChangeIsChange DEF DeleteApplication, Found, TypeOK
<1>3. CASE Screen(c)
  <2> DEFINE status == IF application \in PreDecision THEN "screening" ELSE application
  <2>1. "screening" \in AppStatus /\ application \in AppStatus
    BY <1>3 DEF Screen, Found, TypeOK, AppStatus
  <2>2. FitsApplication(Change(status, FALSE, FALSE))
    BY Words DEF FitsApplication, Change, Sent, PreDecision, Decided
  <2> QED
    BY <1>3, <2>1, <2>2, ChangeIsChange DEF Screen
<1>4. CASE Convert(c)
  <2>1. /\ linked => FitsApplication(Change(application, FALSE, FALSE))
        /\ application = "approved" /\ ~linked => FitsApplication(Change("converted", FALSE, TRUE))
    BY Words DEF FitsApplication, Change, Sent, Decided
  <2> QED
    BY <1>4, <2>1, ChangeIsChange DEF Convert, AppStatus
<1>5. CASE ViewApplication(c)
  <2>1. application = "sent" => FitsApplication(Change("viewed", FALSE, FALSE))
    BY Words DEF FitsApplication, Change, Sent, Decided
  <2> QED
    BY <1>5, <2>1, ChangeIsChange DEF ViewApplication, AppStatus
<1>6. CASE SignApplication(c)
  <2>1. application \in {"sent", "viewed"} => FitsApplication(Change("signed", FALSE, FALSE))
    BY Words DEF FitsApplication, Change, Sent, Decided
  <2> QED
    BY <1>6, <2>1, ChangeIsChange DEF SignApplication, AppStatus
<1> QED
  BY <1>1, <1>2, <1>3, <1>4, <1>5, <1>6 DEF OnApplication

\* A request on the envelope decides on an update that fits it, or commits.
LEMMA EnvelopeStep ==
    ASSUME TypeOK, NEW c \in Calls, OnEnvelope(c)
    PROVE  \/ UNCHANGED leaseVars /\ \E u \in Updates : Decide(c, u) /\ Fits(u)
           \/ CommitSigning(c)
<1>0. /\ {"sent", "partially_signed", "completed", "declined", "expired", "voided"} \subseteq RequestStatus
      /\ {"viewed", "signed", "declined"} \subseteq PartyStatus
  BY DEF RequestStatus, PartyStatus
<1>o. envelope \notin Closed \cup {"absent"} => envelope \in Open
  BY DEF TypeOK, RequestStatus, Closed, Open
<1>1. CASE Void(c)
  <2>1. envelope # "completed" => Fits(Update("voided", Nothing, Nothing))
    BY DEF Fits, Update, Sent
  <2> QED
    BY <1>0, <1>1, <2>1, UpdateIsUpdate DEF Void
<1>e. envelope \notin {"completed", "declined", "voided"} => Fits(Update("expired", Nothing, Nothing))
  BY DEF Fits, Update, Sent
<1>2. ASSUME NEW p \in Parties, View(c, p)
      PROVE  UNCHANGED leaseVars /\ \E u \in Updates : Decide(c, u) /\ Fits(u)
  <2>1. envelope \in Open /\ party[p] = "pending" => Fits(Update(envelope, p, "viewed"))
    BY Words DEF Fits, Update, Sent
  <2> QED
    BY <1>0, <1>2, <1>e, <2>1, UpdateIsUpdate DEF View, Open
<1>3. ASSUME NEW p \in Parties, Sign(c, p)
      PROVE  UNCHANGED leaseVars /\ \E u \in Updates : Decide(c, u) /\ Fits(u)
  <2>1. AfterSigning(p) \in RequestStatus
    BY <1>0 DEF AfterSigning
  <2>2. envelope \in Open /\ party[p] # "signed" => Fits(Update(AfterSigning(p), p, "signed"))
    <3> SUFFICES ASSUME envelope \in Open, party[p] # "signed"
                 PROVE  Fits(Update(AfterSigning(p), p, "signed"))
      OBVIOUS
    <3> DEFINE u == Update(AfterSigning(p), p, "signed")
    <3> SUFFICES Fits(u)
      OBVIOUS
    <3>1. u.who = p /\ u.to = "signed"
      BY DEF Update, Sent
    <3>2. u.status = Sent(AfterSigning(p), envelope)
      BY DEF Update
    <3>3. CASE \A q \in Parties \ {p} : party[q] = "signed"
      <4>1. u.status = "completed"
        BY <3>2, <3>3 DEF AfterSigning, Sent, Open
      <4> HIDE DEF u
      <4> QED
        BY <3>1, <3>3, <4>1 DEF Fits
    <3>4. CASE ~ \A q \in Parties \ {p} : party[q] = "signed"
      <4>1. u.status \in {"partially_signed", Nothing} /\ u.status # "completed"
        BY <3>2, <3>4, Words DEF AfterSigning, Sent
      <4> HIDE DEF u
      <4> QED
        BY <3>1, <3>4, <4>1 DEF Fits
    <3> QED
      BY <3>3, <3>4
  <2> QED
    BY <1>0, <1>3, <1>e, <1>o, <2>1, <2>2, UpdateIsUpdate DEF Sign, Closed
<1>4. ASSUME NEW p \in Parties, Decline(c, p)
      PROVE  UNCHANGED leaseVars /\ \E u \in Updates : Decide(c, u) /\ Fits(u)
  <2>1. envelope \in Open => Fits(Update("declined", p, "declined"))
    BY DEF Fits, Update, Sent, Open
  <2> QED
    BY <1>0, <1>4, <1>o, <2>1, UpdateIsUpdate DEF Decline
<1> QED
  BY <1>1, <1>2, <1>3, <1>4 DEF OnEnvelope

\* Every request and row is of its type.
THEOREM TypeCorrect == Spec => []TypeOK
<1>1. Init => TypeOK
  <2> SUFFICES ASSUME Init PROVE TypeOK
    OBVIOUS
  <2>1. calls \in [Calls -> Changes \cup Updates \cup {Nothing}]
    BY DEF Init
  <2>2. party \in [Parties -> PartyStatus]
    BY DEF Init, PartyStatus
  <2> QED
    BY <2>1, <2>2 DEF Init, TypeOK
<1>2. TypeOK /\ [Next]_vars => TypeOK'
  <2> SUFFICES ASSUME TypeOK, [Next]_vars PROVE TypeOK'
    OBVIOUS
  <2>1. CASE (CreateApplication \/ CreateFromTemplate) /\ UNCHANGED leaseVars
    BY <2>1 DEF CreateApplication, CreateFromTemplate, Intake, TypeOK, AppStatus, leaseVars
  <2>2. CASE (Send \/ Elapse) /\ UNCHANGED applicationVars
    BY <2>2 DEF Send, Elapse, TypeOK, RequestStatus, applicationVars
  <2>3. ASSUME NEW c \in Calls, OnApplication(c), UNCHANGED leaseVars PROVE TypeOK'
    <3>1. CASE UNCHANGED applicationVars /\ \E u \in Changes : Decide(c, u)
      BY <2>3, <3>1, DecideType DEF TypeOK, applicationVars, leaseVars
    <3>2. CASE CommitApplication(c)
      <4>1. calls[c] \in Changes
        BY <3>2 DEF CommitApplication, Committing, TypeOK, Updates
      <4> QED
        BY <2>3, <3>2, <4>1 DEF CommitApplication, Finish, Written, TypeOK, Changes, leaseVars
    <3> QED
      BY <2>3, <3>1, <3>2, ApplicationStep
  <2>4. ASSUME NEW c \in Calls, OnEnvelope(c), UNCHANGED applicationVars PROVE TypeOK'
    <3>1. CASE UNCHANGED leaseVars /\ \E u \in Updates : Decide(c, u)
      BY <2>4, <3>1, DecideType DEF TypeOK, applicationVars, leaseVars
    <3>2. CASE CommitSigning(c)
      <4>1. calls[c] \in Updates
        BY <3>2 DEF CommitSigning, Committing, TypeOK, Changes
      <4>2. envelope' \in RequestStatus \cup {"absent"}
        BY <3>2, <4>1 DEF CommitSigning, Written, TypeOK, Updates
      <4>3. party' \in [Parties -> PartyStatus]
        BY <3>2, <4>1 DEF CommitSigning, Written, TypeOK, Updates
      <4>4. signatures' \subseteq Parties
        BY <3>2, <4>1 DEF CommitSigning, TypeOK, Updates, PartyStatus
      <4> QED
        BY <2>4, <3>2, <4>2, <4>3, <4>4 DEF CommitSigning, Finish, TypeOK, applicationVars
    <3> QED
      BY <2>4, <3>1, <3>2, EnvelopeStep
  <2>5. ASSUME NEW c \in Calls, Die(c) PROVE TypeOK'
    BY <2>5 DEF Die, Finish, TypeOK, applicationVars, leaseVars
  <2>6. CASE UNCHANGED vars
    BY <2>6 DEF vars, TypeOK, applicationVars, leaseVars
  <2> QED
    BY <2>1, <2>2, <2>3, <2>4, <2>5, <2>6 DEF Next
<1> QED
  BY <1>1, <1>2, PTL DEF Spec

\* What a step is, seen from the two rows.
LEMMA Step ==
    ASSUME TypeOK, Next
    PROVE  \/ (CreateApplication \/ CreateFromTemplate) /\ UNCHANGED leaseVars
           \/ (Send \/ Elapse) /\ UNCHANGED applicationVars
           \/ /\ UNCHANGED applicationVars /\ UNCHANGED leaseVars
              /\ \E c \in Calls : \E u \in Changes : Decide(c, u) /\ FitsApplication(u)
           \/ /\ UNCHANGED applicationVars /\ UNCHANGED leaseVars
              /\ \E c \in Calls : \E u \in Updates : Decide(c, u) /\ Fits(u)
           \/ \E c \in Calls : CommitApplication(c) /\ UNCHANGED leaseVars
           \/ \E c \in Calls : CommitSigning(c) /\ UNCHANGED applicationVars
           \/ \E c \in Calls : Die(c)
  BY ApplicationStep, EnvelopeStep, Zenon DEF Next

-----------------------------------------------------------------------------
(* The envelope. *)

\* The last signature is only sent when all others are there.
Counted ==
    /\ \A p \in Parties : party[p] = "signed" => p \in signatures
    /\ \A c \in Calls : Committing(c, "envelope") /\ calls[c].status = "completed" =>
          calls[c].to = "signed" /\ Parties \ {calls[c].who} \subseteq signatures

\* At most one request has the row in hand.
Alone(row) == \A c, d \in Calls : Committing(c, row) /\ Committing(d, row) => c = d

\* As long as requests came one at a time, what each will send fits the envelope.
Sequential ==
    "envelope" \notin overlapped =>
        /\ Alone("envelope")
        /\ \A c \in Calls : Committing(c, "envelope") => Fits(calls[c])

\* The step neither changes the envelope nor begins a request on it.
EnvelopeKept ==
    /\ UNCHANGED <<envelope, party, signatures>>
    /\ "envelope" \in overlapped => "envelope" \in overlapped'
    /\ \A c \in Calls : (Committing(c, "envelope"))' => Committing(c, "envelope") /\ calls'[c] = calls[c]

\* A request that decides on one row leaves the requests on another alone.
LEMMA DecideElsewhere ==
    ASSUME TypeOK, NEW c \in Calls, NEW u, Decide(c, u), NEW row, u.row # row
    PROVE  /\ row \in overlapped <=> row \in overlapped'
           /\ \A d \in Calls : (Committing(d, row))' => Committing(d, row) /\ calls'[d] = calls[d]
  BY DEF TypeOK, Decide, Committing

\* A request that ends leaves the others alone.
LEMMA FinishElsewhere ==
    ASSUME TypeOK, NEW c \in Calls, Finish(c), NEW row
    PROVE  /\ overlapped' = overlapped
           /\ \A d \in Calls : (Committing(d, row))' =>
                 Committing(d, row) /\ calls'[d] = calls[d] /\ d # c
  BY DEF TypeOK, Finish, Committing

\* What a step is, seen from the envelope.
LEMMA OthersKeepEnvelope ==
    ASSUME TypeOK, [Next]_vars
    PROVE  \/ EnvelopeKept
           \/ Send
           \/ /\ UNCHANGED leaseVars
              /\ \E c \in Calls : \E u \in Updates : Decide(c, u) /\ Fits(u)
           \/ \E c \in Calls : CommitSigning(c)
<1>1. CASE (CreateApplication \/ CreateFromTemplate) /\ UNCHANGED leaseVars
  BY <1>1 DEF CreateApplication, CreateFromTemplate, Intake, EnvelopeKept, Committing, leaseVars
<1>2. CASE Elapse
  BY <1>2 DEF Elapse, EnvelopeKept, Committing
<1>3. ASSUME UNCHANGED leaseVars, NEW c \in Calls, NEW u \in Changes, Decide(c, u) PROVE EnvelopeKept
  <2>1. u.row # "envelope"
    BY DEF Changes
  <2> QED
    BY <1>3, <2>1, DecideElsewhere DEF EnvelopeKept, leaseVars
<1>4. ASSUME NEW c \in Calls, UNCHANGED leaseVars, Finish(c) PROVE EnvelopeKept
  BY <1>4, FinishElsewhere DEF EnvelopeKept, leaseVars
<1>5. CASE UNCHANGED vars
  BY <1>5 DEF vars, leaseVars, EnvelopeKept, Committing
<1>6. ASSUME NEW c \in Calls, Die(c) PROVE EnvelopeKept
  BY <1>4, <1>6 DEF Die
<1>7. ASSUME NEW c \in Calls, CommitApplication(c), UNCHANGED leaseVars PROVE EnvelopeKept
  BY <1>4, <1>7 DEF CommitApplication
<1> QED
  BY <1>1, <1>2, <1>3, <1>5, <1>6, <1>7, Step, Zenon

\* What a commit does to the envelope.
LEMMA SigningCommitted ==
    ASSUME TypeOK, NEW c \in Calls, CommitSigning(c)
    PROVE  /\ calls[c] \in Updates /\ Committing(c, "envelope")
           /\ envelope' = IF calls[c].status = Nothing THEN envelope ELSE calls[c].status
           /\ \A p \in Parties : party'[p] = IF p = calls[c].who /\ calls[c].to # Nothing
                                             THEN calls[c].to ELSE party[p]
           /\ signatures' = IF calls[c].to = "signed" THEN signatures \cup {calls[c].who}
                                                     ELSE signatures
           /\ overlapped' = overlapped
           /\ \A d \in Calls : (Committing(d, "envelope"))' =>
                 Committing(d, "envelope") /\ calls'[d] = calls[d] /\ d # c
<1>1. calls[c] \in Updates /\ Committing(c, "envelope")
  BY DEF CommitSigning, Committing, TypeOK, Changes
<1>2. Finish(c)
  BY DEF CommitSigning
<1> QED
  BY <1>1, <1>2, FinishElsewhere DEF CommitSigning, Written

\* A lease that is completed is signed by every party, whatever overlaps.
THEOREM CompletedIsSigned == Spec => []CompletedMeansSigned
<1>1. Init => Counted /\ CompletedMeansSigned
  BY DEF Init, Counted, Committing, CompletedMeansSigned
<1>2. TypeOK /\ Counted /\ CompletedMeansSigned /\ [Next]_vars => (Counted /\ CompletedMeansSigned)'
  <2> SUFFICES ASSUME TypeOK, Counted, CompletedMeansSigned, [Next]_vars
               PROVE  (Counted /\ CompletedMeansSigned)'
    OBVIOUS
  <2>1. CASE EnvelopeKept
    BY <2>1 DEF EnvelopeKept, Counted, CompletedMeansSigned
  <2>2. CASE Send
    BY <2>2 DEF Send, Counted, CompletedMeansSigned, Committing
  <2>3. ASSUME UNCHANGED leaseVars, NEW c \in Calls, NEW u \in Updates, Decide(c, u), Fits(u)
        PROVE  (Counted /\ CompletedMeansSigned)'
    <3>1. u.status = "completed" => u.to = "signed" /\ Parties \ {u.who} \subseteq signatures
      BY <2>3, Words DEF Fits, Counted
    <3> QED
      BY <2>3, <3>1 DEF Counted, CompletedMeansSigned, Committing, Decide, TypeOK, leaseVars
  <2>4. ASSUME NEW c \in Calls, CommitSigning(c) PROVE (Counted /\ CompletedMeansSigned)'
    <3>1. signatures \subseteq signatures'
      BY <2>4, SigningCommitted
    <3>2. \A p \in Parties : party'[p] = "signed" => p \in signatures'
      BY <2>4, SigningCommitted DEF Counted
    <3>3. CompletedMeansSigned'
      <4>1. signatures \subseteq Parties /\ signatures' \subseteq Parties
        BY <2>4, SigningCommitted, Words DEF TypeOK, Updates
      <4>2. CASE calls[c].status = "completed"
        BY <2>4, <4>1, <4>2, SigningCommitted DEF Counted, CompletedMeansSigned
      <4>3. CASE calls[c].status # "completed"
        BY <2>4, <3>1, <4>1, <4>3, SigningCommitted DEF CompletedMeansSigned
      <4> QED
        BY <4>2, <4>3
    <3> QED
      BY <2>4, <3>1, <3>2, <3>3, SigningCommitted DEF Counted
  <2> QED
    BY <2>1, <2>2, <2>3, <2>4, OthersKeepEnvelope
<1> QED
  BY <1>1, <1>2, TypeCorrect, PTL DEF Spec

\* A request fits an envelope that a step leaves alone.
LEMMA FitsKept ==
    ASSUME UNCHANGED <<envelope, party>>, NEW u, NEW v, v = u, Fits(u)
    PROVE  Fits(v)'
  BY Zenon DEF Fits

\* Requests one at a time: each still fits when it commits, an envelope all
\* have signed is completed, and one a party has declined is declined.
LEMMA SequentialSigning ==
    Spec => [](Sequential /\ SignedMeansCompleted /\ DeclineEndsIt)
<1> DEFINE Inv == Sequential /\ SignedMeansCompleted /\ DeclineEndsIt
<1>1. Init => Inv
  <2> SUFFICES ASSUME Init PROVE Inv
    OBVIOUS
  <2>1. Sequential
    BY DEF Init, Sequential, Alone, Committing
  <2>2. SignedMeansCompleted /\ DeclineEndsIt
    BY DEF Init, SignedMeansCompleted, DeclineEndsIt
  <2> QED
    BY <2>1, <2>2
<1>2. TypeOK /\ Inv /\ [Next]_vars => Inv'
  <2> SUFFICES ASSUME TypeOK, Inv, [Next]_vars, "envelope" \notin overlapped'
               PROVE  /\ Alone("envelope")'
                      /\ \A c \in Calls : (Committing(c, "envelope"))' => (Fits(calls[c]))'
                      /\ (\A p \in Parties : party'[p] = "signed") => envelope' = "completed"
                      /\ (\E p \in Parties : party'[p] = "declined") => envelope' \in {"declined", "voided"}
    BY DEF Sequential, SignedMeansCompleted, DeclineEndsIt
  <2>1. CASE EnvelopeKept
    <3>1. "envelope" \notin overlapped
      BY <2>1 DEF EnvelopeKept
    <3>2. ASSUME NEW c \in Calls, (Committing(c, "envelope"))' PROVE (Fits(calls[c]))'
      <4>1. Fits(calls[c]) /\ calls'[c] = calls[c]
        BY <2>1, <3>1, <3>2 DEF EnvelopeKept, Sequential
      <4> QED
        BY <2>1, <4>1, FitsKept DEF EnvelopeKept
    <3> QED
      BY <2>1, <3>1, <3>2 DEF EnvelopeKept, Sequential, SignedMeansCompleted, DeclineEndsIt, Alone
  <2>2. CASE Send
    <3>1. "envelope" \notin overlapped
      BY <2>2 DEF Send
    <3>2. ASSUME NEW c \in Calls, (Committing(c, "envelope"))' PROVE (Fits(calls[c]))'
      <4>1. Fits(calls[c]) /\ calls' = calls
        BY <2>2, <3>1, <3>2 DEF Send, Committing, Sequential
      <4> QED
        BY <2>2, <4>1 DEF Send, Fits, Open
    <3> QED
      BY <2>2, <3>1, <3>2 DEF Send, Sequential, SignedMeansCompleted, DeclineEndsIt, Alone, Committing
  <2>3. ASSUME UNCHANGED leaseVars, NEW c \in Calls, NEW u \in Updates, Decide(c, u), Fits(u)
        PROVE  /\ Alone("envelope")'
               /\ \A d \in Calls : (Committing(d, "envelope"))' => (Fits(calls[d]))'
    <3>1. u.row = "envelope"
      BY DEF Updates
    <3>2. \A d \in Calls : ~ Committing(d, "envelope")
      BY <2>3, <3>1 DEF Decide, Committing
    <3>3. \A d \in Calls : (Committing(d, "envelope"))' => d = c
      BY <2>3, <3>2 DEF Decide, Committing, TypeOK
    <3>4. calls'[c] = u
      BY <2>3 DEF Decide, TypeOK
    <3>5. (Fits(calls[c]))'
      BY <2>3, <3>4, FitsKept DEF leaseVars
    <3> QED
      BY <3>3, <3>5 DEF Alone
  <2>4. ASSUME UNCHANGED leaseVars, NEW c \in Calls, NEW u \in Updates, Decide(c, u), Fits(u)
        PROVE  /\ (\A p \in Parties : party'[p] = "signed") => envelope' = "completed"
               /\ (\E p \in Parties : party'[p] = "declined") => envelope' \in {"declined", "voided"}
    <3>1. "envelope" \notin overlapped
      BY <2>4 DEF Decide
    <3> QED
      BY <2>4, <3>1 DEF leaseVars, SignedMeansCompleted, DeclineEndsIt
  <2>5. ASSUME NEW c \in Calls, CommitSigning(c)
        PROVE  /\ Alone("envelope")'
               /\ \A d \in Calls : (Committing(d, "envelope"))' => (Fits(calls[d]))'
    <3>1. "envelope" \notin overlapped
      BY <2>5, SigningCommitted
    <3>2. \A d \in Calls : ~ (Committing(d, "envelope"))'
      BY <2>5, <3>1, SigningCommitted DEF Sequential, Alone
    <3> QED
      BY <3>2 DEF Alone
  <2>6. ASSUME NEW c \in Calls, CommitSigning(c)
        PROVE  /\ (\A p \in Parties : party'[p] = "signed") => envelope' = "completed"
               /\ (\E p \in Parties : party'[p] = "declined") => envelope' \in {"declined", "voided"}
    <3> DEFINE u == calls[c]
    <3>1. /\ "envelope" \notin overlapped
          /\ Committing(c, "envelope")
          /\ u \in Updates
          /\ envelope' = IF u.status = Nothing THEN envelope ELSE u.status
          /\ \A p \in Parties : party'[p] = IF p = u.who /\ u.to # Nothing THEN u.to ELSE party[p]
      BY <2>6, SigningCommitted
    <3>2. Fits(u)
      BY <3>1 DEF Sequential
    <3>3. /\ (\A p \in Parties : party[p] = "signed") => envelope = "completed"
          /\ (\E p \in Parties : party[p] = "declined") => envelope \in {"declined", "voided"}
      BY <3>1 DEF SignedMeansCompleted, DeclineEndsIt
    <3> HIDE DEF u
    <3>4. CASE u.to = Nothing
      BY <3>1, <3>2, <3>3, <3>4, Words DEF Fits, Open
    <3>5. CASE u.to # Nothing
      <4>1. u.who \in Parties
        BY <3>1, <3>5 DEF Updates
      <4>2. envelope \in Open
        BY <3>2, <3>5 DEF Fits
      <4>3. CASE u.to = "viewed"
        BY <3>1, <3>2, <3>3, <3>5, <4>1, <4>2, <4>3, Words DEF Fits, Open
      <4>4. CASE u.to = "signed"
        BY <3>1, <3>2, <3>3, <3>5, <4>1, <4>2, <4>4, Words DEF Fits, Open
      <4>5. CASE u.to = "declined"
        BY <3>1, <3>2, <3>3, <3>5, <4>1, <4>2, <4>5, Words DEF Fits, Open
      <4> QED
        BY <3>2, <3>5, <4>3, <4>4, <4>5 DEF Fits
    <3> QED
      BY <3>4, <3>5
  <2> QED
    BY <2>1, <2>2, <2>3, <2>4, <2>5, <2>6, OthersKeepEnvelope
<1> QED
  BY <1>1, <1>2, TypeCorrect, PTL DEF Spec

\* Requests one at a time: signed by all is completed, and one decline ends
\* the envelope for good.
THEOREM PartiesDecide == Spec => []StatusMatchesParties
<1>1. SignedMeansCompleted /\ DeclineEndsIt => StatusMatchesParties
  BY DEF StatusMatchesParties
<1> QED
  BY <1>1, SequentialSigning, PTL

-----------------------------------------------------------------------------
(* The application. *)

\* A resident is only made on an approval, and linked.
OnApproval ==
    /\ application = "approved" => approvals
    /\ residents > 0 => approvals /\ linked
    /\ \A c \in Calls : Committing(c, "application") /\ calls[c].resident => approvals

\* The same of the application.
SequentialApplication ==
    "application" \notin overlapped =>
        /\ Alone("application")
        /\ \A c \in Calls : Committing(c, "application") => FitsApplication(calls[c])

\* The step neither changes the application nor begins a request on it.
ApplicationKept ==
    /\ UNCHANGED <<application, approvals, residents, linked>>
    /\ "application" \in overlapped => "application" \in overlapped'
    /\ \A c \in Calls :
          (Committing(c, "application"))' => Committing(c, "application") /\ calls'[c] = calls[c]

\* What a step is, seen from the application.
LEMMA OthersKeepApplication ==
    ASSUME TypeOK, [Next]_vars
    PROVE  \/ ApplicationKept
           \/ CreateApplication \/ CreateFromTemplate
           \/ /\ UNCHANGED applicationVars
              /\ \E c \in Calls : \E u \in Changes : Decide(c, u) /\ FitsApplication(u)
           \/ \E c \in Calls : CommitApplication(c)
<1>1. CASE (Send \/ Elapse) /\ UNCHANGED applicationVars
  BY <1>1 DEF Send, Elapse, ApplicationKept, Committing, applicationVars
<1>2. ASSUME UNCHANGED applicationVars, NEW c \in Calls, NEW u \in Updates, Decide(c, u)
      PROVE  ApplicationKept
  <2>1. u.row # "application"
    BY DEF Updates
  <2> QED
    BY <1>2, <2>1, DecideElsewhere DEF ApplicationKept, applicationVars
<1>3. ASSUME NEW c \in Calls, UNCHANGED applicationVars, Finish(c) PROVE ApplicationKept
  BY <1>3, FinishElsewhere DEF ApplicationKept, applicationVars
<1>4. CASE UNCHANGED vars
  BY <1>4 DEF vars, applicationVars, ApplicationKept, Committing
<1>5. ASSUME NEW c \in Calls, Die(c) PROVE ApplicationKept
  BY <1>3, <1>5 DEF Die
<1>6. ASSUME NEW c \in Calls, CommitSigning(c), UNCHANGED applicationVars PROVE ApplicationKept
  BY <1>3, <1>6 DEF CommitSigning
<1> QED
  BY <1>1, <1>2, <1>4, <1>5, <1>6, Step, Zenon

\* What a commit does to the application.
LEMMA ChangeCommitted ==
    ASSUME TypeOK, NEW c \in Calls, CommitApplication(c)
    PROVE  /\ calls[c] \in Changes /\ Committing(c, "application")
           /\ application' = IF calls[c].status = Nothing THEN application ELSE calls[c].status
           /\ approvals' = (approvals \/ calls[c].status = "approved")
           /\ residents' = IF calls[c].resident THEN residents + 1 ELSE residents
           /\ linked' = (linked \/ calls[c].resident)
           /\ overlapped' = overlapped
           /\ \A d \in Calls : (Committing(d, "application"))' =>
                 Committing(d, "application") /\ calls'[d] = calls[d] /\ d # c
<1>1. calls[c] \in Changes /\ Committing(c, "application")
  BY DEF CommitApplication, Committing, TypeOK, Updates
<1>2. Finish(c)
  BY DEF CommitApplication
<1> QED
  BY <1>1, <1>2, FinishElsewhere DEF CommitApplication, Written

\* Whatever overlaps, a resident was approved.
LEMMA ResidentsApproved == Spec => []OnApproval
<1>1. Init => OnApproval
  BY DEF Init, OnApproval, Committing
<1>2. TypeOK /\ OnApproval /\ [Next]_vars => OnApproval'
  <2> SUFFICES ASSUME TypeOK, OnApproval, [Next]_vars PROVE OnApproval'
    OBVIOUS
  <2>1. CASE ApplicationKept
    BY <2>1 DEF ApplicationKept, OnApproval
  <2>2. CASE CreateApplication \/ CreateFromTemplate
    BY <2>2 DEF CreateApplication, CreateFromTemplate, Intake, OnApproval, Committing
  <2>3. ASSUME UNCHANGED applicationVars, NEW c \in Calls, NEW u \in Changes, Decide(c, u), FitsApplication(u)
        PROVE  OnApproval'
    <3>1. u.resident => approvals
      BY <2>3 DEF FitsApplication, OnApproval
    <3> QED
      BY <2>3, <3>1 DEF OnApproval, Committing, Decide, TypeOK, applicationVars
  <2>4. ASSUME NEW c \in Calls, CommitApplication(c) PROVE OnApproval'
    <3> DEFINE u == calls[c]
    <3>1. /\ Committing(c, "application")
          /\ application' = IF u.status = Nothing THEN application ELSE u.status
          /\ approvals' = (approvals \/ u.status = "approved")
          /\ residents' = IF u.resident THEN residents + 1 ELSE residents
          /\ linked' = (linked \/ u.resident)
          /\ \A d \in Calls : (Committing(d, "application"))' =>
                 Committing(d, "application") /\ calls'[d] = calls[d]
      BY <2>4, ChangeCommitted
    <3>2. application' = "approved" => approvals'
      BY <3>1 DEF OnApproval
    <3>3. residents' > 0 => approvals' /\ linked'
      BY <3>1 DEF OnApproval
    <3> QED
      BY <3>1, <3>2, <3>3 DEF OnApproval
  <2> QED
    BY <2>1, <2>2, <2>3, <2>4, OthersKeepApplication
<1> QED
  BY <1>1, <1>2, TypeCorrect, PTL DEF Spec

\* Requests one at a time: each still fits when it commits.
LEMMA SequentialChanges ==
    Spec => [](SequentialApplication /\ ("application" \notin overlapped => residents <= 1))
<1> DEFINE Inv == SequentialApplication /\ ("application" \notin overlapped => residents <= 1)
<1>1. Init => Inv
  BY DEF Init, SequentialApplication, Alone, Committing
<1>2. TypeOK /\ OnApproval /\ Inv /\ [Next]_vars => Inv'
  <2> SUFFICES ASSUME TypeOK, OnApproval, Inv, [Next]_vars, "application" \notin overlapped'
               PROVE  /\ Alone("application")'
                      /\ \A c \in Calls : (Committing(c, "application"))' => (FitsApplication(calls[c]))'
                      /\ residents' <= 1
    BY DEF SequentialApplication
  <2>1. CASE ApplicationKept
    <3>1. "application" \notin overlapped
      BY <2>1 DEF ApplicationKept
    <3>2. ASSUME NEW c \in Calls, (Committing(c, "application"))' PROVE (FitsApplication(calls[c]))'
      <4>1. FitsApplication(calls[c]) /\ calls'[c] = calls[c]
        BY <2>1, <3>1, <3>2 DEF ApplicationKept, SequentialApplication
      <4> QED
        BY <2>1, <4>1 DEF ApplicationKept, FitsApplication
    <3> QED
      BY <2>1, <3>1, <3>2 DEF ApplicationKept, SequentialApplication, Alone
  <2>2. CASE CreateApplication \/ CreateFromTemplate
    <3>1. "application" \notin overlapped /\ residents' = residents /\ calls' = calls
      BY <2>2 DEF CreateApplication, CreateFromTemplate, Intake
    <3>2. ASSUME NEW c \in Calls, (Committing(c, "application"))' PROVE (FitsApplication(calls[c]))'
      <4>1. FitsApplication(calls[c])
        BY <3>1, <3>2 DEF Committing, SequentialApplication
      <4> QED
        BY <2>2, <3>1, <4>1 DEF CreateApplication, CreateFromTemplate, Intake, FitsApplication, Decided
    <3> QED
      BY <3>1, <3>2 DEF SequentialApplication, Alone, Committing
  <2>3. ASSUME UNCHANGED applicationVars, NEW c \in Calls, NEW u \in Changes, Decide(c, u), FitsApplication(u)
        PROVE  /\ Alone("application")'
               /\ \A d \in Calls : (Committing(d, "application"))' => (FitsApplication(calls[d]))'
               /\ residents' <= 1
    <3>1. u.row = "application"
      BY DEF Changes
    <3>2. \A d \in Calls : ~ Committing(d, "application")
      BY <2>3, <3>1 DEF Decide, Committing
    <3>3. \A d \in Calls : (Committing(d, "application"))' => d = c
      BY <2>3, <3>2 DEF Decide, Committing, TypeOK
    <3>4. calls'[c] = u
      BY <2>3 DEF Decide, TypeOK
    <3>5. (FitsApplication(calls[c]))'
      BY <2>3, <3>4 DEF applicationVars, FitsApplication
    <3>6. residents' <= 1
      BY <2>3 DEF Decide, applicationVars
    <3> QED
      BY <3>3, <3>5, <3>6 DEF Alone
  <2>4. ASSUME NEW c \in Calls, CommitApplication(c)
        PROVE  /\ Alone("application")'
               /\ \A d \in Calls : (Committing(d, "application"))' => (FitsApplication(calls[d]))'
               /\ residents' <= 1
    <3>1. "application" \notin overlapped /\ Committing(c, "application")
      BY <2>4, ChangeCommitted
    <3>2. \A d \in Calls : ~ (Committing(d, "application"))'
      BY <2>4, <3>1, ChangeCommitted DEF SequentialApplication, Alone
    <3>3. calls[c].resident => residents = 0
      BY <3>1 DEF SequentialApplication, FitsApplication, OnApproval, TypeOK
    <3>4. residents' <= 1
      BY <2>4, <3>1, <3>3, ChangeCommitted
    <3> QED
      BY <3>2, <3>4 DEF Alone
  <2> QED
    BY <2>1, <2>2, <2>3, <2>4, OthersKeepApplication
<1> QED
  BY <1>1, <1>2, TypeCorrect, ResidentsApproved, PTL DEF Spec

\* One resident of an application, and none without an approval.
THEOREM OneResidentEach == Spec => []OneResident
<1>1. OnApproval /\ ("application" \notin overlapped => residents <= 1) => OneResident
  BY DEF OnApproval, OneResident
<1> QED
  BY <1>1, ResidentsApproved, SequentialChanges, PTL

\* A decision stands.
LEMMA DecisionsAreKept ==
    TypeOK /\ SequentialApplication /\ [Next]_vars =>
        ((application \in Decided /\ application' # application) => ("application" \in overlapped))
<1> SUFFICES ASSUME TypeOK, SequentialApplication, [Next]_vars,
                    application \in Decided, application' # application
             PROVE  "application" \in overlapped
  OBVIOUS
<1>1. PICK c \in Calls : CommitApplication(c)
  BY OthersKeepApplication DEF ApplicationKept, CreateApplication, CreateFromTemplate, Intake,
     applicationVars, Decided
<1>2. calls[c].status # Nothing /\ Committing(c, "application")
  BY <1>1, ChangeCommitted
<1> QED
  BY <1>2 DEF SequentialApplication, FitsApplication

-----------------------------------------------------------------------------
\* A completed lease stays completed.
LEMMA CompletedStays ==
    TypeOK /\ Sequential /\ [Next]_vars =>
        ((envelope = "completed" /\ envelope' # "completed") => ("envelope" \in overlapped))
<1> SUFFICES ASSUME TypeOK, Sequential, [Next]_vars, envelope = "completed", envelope' # "completed"
             PROVE  "envelope" \in overlapped
  OBVIOUS
<1>1. PICK c \in Calls : CommitSigning(c)
  BY OthersKeepEnvelope DEF EnvelopeKept, Send, leaseVars
<1>2. calls[c].status # "completed" /\ calls[c].status # Nothing /\ Committing(c, "envelope")
  BY <1>1, SigningCommitted
<1>3. ~ Fits(calls[c])
  BY <1>2 DEF Fits, Open
<1> QED
  BY <1>2, <1>3 DEF Sequential

\* What is final stays, requests one at a time.
THEOREM FinalIsFinal == Spec => FinalStands
<1>1. TypeOK /\ Sequential /\ SequentialApplication /\ [Next]_vars =>
        [/\ (envelope = "completed" /\ envelope' # "completed") => ("envelope" \in overlapped)
         /\ (application \in Decided /\ application' # application)
               => ("application" \in overlapped)]_vars
  BY CompletedStays, DecisionsAreKept
<1> QED
  BY <1>1, TypeCorrect, SequentialSigning, SequentialChanges, PTL DEF Spec, FinalStands
=============================================================================
