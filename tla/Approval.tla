------------------------------ MODULE Approval ------------------------------
(***************************************************************************)
(* Maker-checker enforcement shared by every postable finance document     *)
(* (backend/app/services/approval_service.py): operators on a document     *)
(* row, a record with at least the fields approval, prepared, submitted    *)
(* and approver. NoUser is the NULL of the user columns. Timestamps and    *)
(* the rejection columns are never read by a rule and are left out.        *)
(***************************************************************************)
CONSTANT NoUser

ApprovalStatus == {"not_required", "pending", "approved", "rejected"}

\* Mutant: an edit keeps an earlier sign-off.
InitializeKeepsApproval(doc, needed, user) ==
    [doc EXCEPT !.prepared = IF @ = NoUser THEN user ELSE @,
                !.approval = IF needed /\ @ # "approved" THEN "pending" ELSE @]

\* initialize: stamp the maker once, reset the review for new content.
Initialize(doc, needed, user) ==
    [doc EXCEPT !.prepared  = IF @ = NoUser THEN user ELSE @,
                !.approval  = IF needed THEN "pending" ELSE "not_required",
                !.submitted = NoUser,
                !.approver  = NoUser]

\* submit: only a document that needs a signature becomes pending.
MaySubmit(doc, needed) == needed => doc.approval # "approved"

Submit(doc, needed, user) ==
    IF needed THEN [doc EXCEPT !.approval = "pending", !.submitted = user]
              ELSE [doc EXCEPT !.approval = "not_required"]

\* _assert_different_person
DifferentPerson(doc, user) == doc.prepared # user /\ doc.submitted # user

\* approve and reject share their guard.
MayReview(doc, user) == doc.approval = "pending" /\ DifferentPerson(doc, user)

Approve(doc, user) == [doc EXCEPT !.approval = "approved", !.approver = user]

\* Mutant: rejecting sets the state the diagram calls "back to draft".
RejectToDraft(doc) == [doc EXCEPT !.approval = "draft", !.approver = NoUser]

Reject(doc) == [doc EXCEPT !.approval = "rejected", !.approver = NoUser]

\* assert_postable, with its second look at who approved.
Postable(doc) ==
    \/ doc.approval = "not_required"
    \/ /\ doc.approval = "approved"
       /\ doc.approver # NoUser => DifferentPerson(doc, doc.approver)
=============================================================================
