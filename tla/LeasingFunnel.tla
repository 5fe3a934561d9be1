---------------------------- MODULE LeasingFunnel ---------------------------
(***************************************************************************)
(* The leasing funnel: one application and the envelope of its lease, in   *)
(* the hands of staff, the applicant and the parties at once. Requests     *)
(* read and commit in any order, and may die before they commit.           *)
(***************************************************************************)
EXTENDS Applications, LeaseSigning

ASSUME FunnelAssumption ==
    /\ MaxResidents \in Nat /\ Parties # {}
    /\ Nothing \notin Parties \cup AppStatus \cup RequestStatus \cup PartyStatus
    /\ Nothing \notin Changes \cup Updates

vars == <<calls, overlapped, applicationVars, leaseVars>>

Init ==
    /\ calls = [c \in Calls |-> Nothing]
    /\ overlapped = {}
    /\ application = "absent" /\ invited = FALSE /\ deleted = FALSE
    /\ approvals = FALSE /\ residents = 0 /\ linked = FALSE
    /\ envelope = "absent" /\ party = [p \in Parties |-> "pending"]
    /\ signatures = {} /\ late = FALSE

OnApplication(c) ==
    \/ UpdateApplication(c)
    \/ DeleteApplication(c)
    \/ Screen(c)
    \/ Convert(c)
    \/ ViewApplication(c)
    \/ SignApplication(c)
    \/ CommitApplication(c)

OnEnvelope(c) ==
    \/ Void(c)
    \/ CommitSigning(c)
    \/ \E p \in Parties : View(c, p) \/ Sign(c, p) \/ Decline(c, p)

\* The process dies, or the client's connection does, before the commit.
Die(c) == Finish(c) /\ UNCHANGED <<applicationVars, leaseVars>>

Next ==
    \/ (CreateApplication \/ CreateFromTemplate) /\ UNCHANGED leaseVars
    \/ (Send \/ Elapse) /\ UNCHANGED applicationVars
    \/ \E c \in Calls : \/ OnApplication(c) /\ UNCHANGED leaseVars
                        \/ OnEnvelope(c) /\ UNCHANGED applicationVars
                        \/ Die(c)

Spec == Init /\ [][Next]_vars

-----------------------------------------------------------------------------
(* Properties *)

TypeOK ==
    /\ calls \in [Calls -> Changes \cup Updates \cup {Nothing}]
    /\ overlapped \subseteq {"application", "envelope"}
    /\ application \in AppStatus \cup {"absent"}
    /\ invited \in BOOLEAN /\ deleted \in BOOLEAN /\ approvals \in BOOLEAN
    /\ residents \in Nat /\ linked \in BOOLEAN
    /\ envelope \in RequestStatus \cup {"absent"}
    /\ party \in [Parties -> PartyStatus]
    /\ signatures \subseteq Parties /\ late \in BOOLEAN

\* A lease that is completed has the signature of every party, whatever
\* requests ran into each other (sign_party counts the parties as it read
\* them; signatures are never taken back).
CompletedMeansSigned == envelope = "completed" => signatures = Parties

\* As long as no two requests overlapped, the envelope of a lease everybody
\* has signed is completed: no party can sign again to complete it later.
SignedMeansCompleted ==
    "envelope" \notin overlapped /\ (\A p \in Parties : party[p] = "signed")
        => envelope = "completed"

\* decline_party: "a single decline voids the whole envelope" - no other
\* party can complete it and no view or deadline revives it.
DeclineEndsIt ==
    "envelope" \notin overlapped /\ (\E p \in Parties : party[p] = "declined")
        => envelope \in {"declined", "voided"}

\* The status of the envelope follows from the parties.
StatusMatchesParties == SignedMeansCompleted /\ DeclineEndsIt

\* An application makes one resident, converted over and over, unless its
\* requests overlap; and never one without an approval.
OneResident ==
    /\ "application" \notin overlapped => residents <= 1
    /\ residents > 0 => approvals /\ linked

\* What is final stays, unless requests overlap: neither staff nor a deadline
\* nor a party undoes a completed lease, and no screening, late link or edit
\* undoes the decision to deny, withdraw or convert.
FinalStands ==
    [][/\ (envelope = "completed" /\ envelope' # "completed") => ("envelope" \in overlapped)
       /\ (application \in Decided /\ application' # application)
             => ("application" \in overlapped)]_vars
=============================================================================
