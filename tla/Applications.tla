---------------------------- MODULE Applications ----------------------------
(***************************************************************************)
(* A rental application from intake to resident                            *)
(* (backend/app/services/leasing_funnel_service.py and the application     *)
(* routes of routers/leasing_funnel.py).                                   *)
(***************************************************************************)
EXTENDS Naturals, Requests

CONSTANT MaxResidents   \* bound: residents made of one application

VARIABLES application,  \* RentalApplication.status, "absent" before intake
          invited,      \* invite_token is set: the applicant signs by a link
          deleted,      \* is_deleted
          approvals,    \* history: an approval was committed
          residents,    \* Resident rows made of this application
          linked        \* resident_id is set

applicationVars == <<application, invited, deleted, approvals, residents, linked>>

AppStatus == {"submitted", "sent", "viewed", "signed", "in_review", "screening",
              "approved", "denied", "withdrawn", "converted"}
Decided   == {"denied", "withdrawn", "converted"}

\* _APP_TRANSITIONS; no route makes a draft.
Reviewing == {"screening", "approved", "denied", "withdrawn"}
AppTransitions ==
    [s \in AppStatus |->
       CASE s = "sent"                    -> Reviewing \cup {"viewed", "signed", "in_review"}
         [] s = "viewed"                  -> Reviewing \cup {"signed", "in_review"}
         [] s \in {"signed", "submitted"} -> Reviewing \cup {"in_review"}
         [] s = "in_review"               -> Reviewing
         [] s = "screening"               -> {"in_review", "approved", "denied", "withdrawn"}
         [] s = "approved"                -> {"converted", "withdrawn"}
         [] OTHER                         -> {}]

\* _PRE_DECISION_STATUSES
PreDecision == {"submitted", "sent", "viewed", "signed", "in_review"}

\* The update of a request: the status it sets, and whether it deletes the
\* row or adds a resident.
Change(status, deletes, resident) ==
    [row |-> "application", status |-> Sent(status, application),
     deletes |-> deletes, resident |-> resident]

Changes == [row : {"application"}, status : AppStatus \cup {Nothing},
            deletes : BOOLEAN, resident : BOOLEAN]

\* _get_application and load_application_by_token
Found == application # "absent" /\ ~deleted

Intake(status, byInvitation) ==
    /\ application = "absent"
    /\ application' = status
    /\ invited' = byInvitation
    /\ UNCHANGED <<deleted, approvals, residents, linked, calls, overlapped>>

CreateApplication == Intake("submitted", FALSE)      \* by staff or the public form

CreateFromTemplate == Intake("sent", TRUE)

\* Mutant: a decision can be taken back.
TransitionToAny(current, target) == target # "converted"

\* can_transition
CanTransition(current, target) == target \in AppTransitions[current]

UpdateApplication(c) ==
    /\ Found
    /\ \E target \in AppStatus :
         /\ CanTransition(application, target)
         /\ Decide(c, Change(target, FALSE, FALSE))
    /\ UNCHANGED applicationVars

DeleteApplication(c) ==
    /\ Found
    /\ Decide(c, Change(application, TRUE, FALSE))
    /\ UNCHANGED applicationVars

\* run_screening: the provider is asked between the read and the commit.
Screen(c) ==
    /\ Found
    /\ Decide(c, Change(IF application \in PreDecision THEN "screening" ELSE application,
                        FALSE, FALSE))
    /\ UNCHANGED applicationVars

\* Mutant: the resident is made and the application left as it was.
ConvertOnly(c) ==
    /\ Found /\ application = "approved"
    /\ Decide(c, Change(application, FALSE, TRUE))
    /\ UNCHANGED applicationVars

\* convert_to_resident: an application that has its resident is left as it is.
Convert(c) ==
    /\ Found /\ application = "approved"
    /\ IF linked THEN Decide(c, Change(application, FALSE, FALSE))
                 ELSE residents < MaxResidents /\ Decide(c, Change("converted", FALSE, TRUE))
    /\ UNCHANGED applicationVars

ViewApplication(c) ==
    /\ Found /\ invited /\ application = "sent"
    /\ Decide(c, Change("viewed", FALSE, FALSE))
    /\ UNCHANGED applicationVars

SignApplication(c) ==
    /\ Found /\ invited /\ application \in {"sent", "viewed"}
    /\ Decide(c, Change("signed", FALSE, FALSE))
    /\ UNCHANGED applicationVars

CommitApplication(c) ==
    /\ Committing(c, "application")
    /\ LET u == calls[c] IN
         /\ application' = Written(u.status, application)
         /\ deleted' = (deleted \/ u.deletes)
         /\ approvals' = (approvals \/ u.status = "approved")
         /\ residents' = IF u.resident THEN residents + 1 ELSE residents
         /\ linked' = (linked \/ u.resident)
    /\ Finish(c)
    /\ UNCHANGED invited
=============================================================================
