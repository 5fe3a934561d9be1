---------------------------- MODULE LeaseSigning ----------------------------
(***************************************************************************)
(* The signing of a lease by several parties                               *)
(* (backend/app/services/leasing_funnel_service.py and the lease routes of *)
(* routers/leasing_funnel.py): one envelope that every party views, signs  *)
(* or declines through a link of its own, and that staff may void.         *)
(***************************************************************************)
EXTENDS Requests

CONSTANT Parties

VARIABLES envelope,    \* LeaseSignatureRequest.status, "absent" before it is sent
          party,       \* LeaseSignatureParty.status
          signatures,  \* parties whose signed_at is set
          late         \* expires_at lies in the past

leaseVars == <<envelope, party, signatures, late>>

RequestStatus == {"sent", "partially_signed", "completed", "declined", "expired", "voided"}
PartyStatus   == {"pending", "viewed", "signed", "declined"}
Closed        == {"completed", "declined", "voided", "expired"}

\* The update of a request that sets the status of the envelope and of p.
Update(status, p, to) ==
    [row |-> "envelope", status |-> Sent(status, envelope), who |-> p,
     to |-> IF p = Nothing THEN Nothing ELSE Sent(to, party[p])]

Updates == {u \in [row : {"envelope"}, status : RequestStatus \cup {Nothing},
                   who : Parties \cup {Nothing}, to : PartyStatus \cup {Nothing}] :
              u.to # Nothing => u.who # Nothing}

Send ==
    /\ envelope = "absent"
    /\ envelope' = "sent"
    /\ UNCHANGED <<party, signatures, late, calls, overlapped>>

\* The time of expires_at, if it was given, has come.
Elapse ==
    /\ envelope # "absent" /\ ~late
    /\ late' = TRUE
    /\ UNCHANGED <<envelope, party, signatures, calls, overlapped>>

View(c, p) ==
    /\ \/ /\ late /\ envelope \notin {"absent", "completed", "declined", "voided"}
          /\ Decide(c, Update("expired", Nothing, Nothing))
       \/ /\ ~late /\ party[p] = "pending" /\ envelope \in {"sent", "partially_signed"}
          /\ Decide(c, Update(envelope, p, "viewed"))
    /\ UNCHANGED leaseVars

\* Mutant: one signature is taken for all.
FirstSignerCompletes(p) == "completed"

\* sign_party: the status after p has signed, from the parties as read.
AfterSigning(p) ==
    IF \A q \in Parties \ {p} : party[q] = "signed" THEN "completed" ELSE "partially_signed"

Sign(c, p) ==
    /\ envelope \notin Closed \cup {"absent"}
    /\ \/ late /\ Decide(c, Update("expired", Nothing, Nothing))
       \/ /\ ~late /\ party[p] # "signed"
          /\ Decide(c, Update(AfterSigning(p), p, "signed"))
    /\ UNCHANGED leaseVars

\* Mutant: a decline is only noted at the party.
DeclineAlone(c, p) ==
    /\ envelope \notin Closed \cup {"absent"}
    /\ Decide(c, Update(envelope, p, "declined"))
    /\ UNCHANGED leaseVars

\* decline_party asks neither for the deadline nor for an earlier signature.
Decline(c, p) ==
    /\ envelope \notin Closed \cup {"absent"}
    /\ Decide(c, Update("declined", p, "declined"))
    /\ UNCHANGED leaseVars

Void(c) ==
    /\ envelope \notin {"absent", "completed"}
    /\ Decide(c, Update("voided", Nothing, Nothing))
    /\ UNCHANGED leaseVars

\* The commit of any of these requests.
CommitSigning(c) ==
    /\ Committing(c, "envelope")
    /\ LET u == calls[c] IN
         /\ envelope' = Written(u.status, envelope)
         /\ party' = [p \in Parties |-> IF p = u.who THEN Written(u.to, party[p]) ELSE party[p]]
         /\ signatures' = IF u.to = "signed" THEN signatures \cup {u.who} ELSE signatures
    /\ Finish(c)
    /\ UNCHANGED late
=============================================================================
