-------------------------- MODULE NoticeLifecycle --------------------------
(***************************************************************************)
(* What a freeze notice promises to the officers who use it, with no       *)
(* request, no database and no failure in sight: the state machine         *)
(* DRAFT -> PENDING_APPROVAL -> APPROVED -> SENT that the class comment of *)
(* FreezeNoticeService names, the text frozen by the approval, and no      *)
(* filing with SAHYOG before the approval or after the notice is SENT.     *)
(***************************************************************************)
CONSTANTS Bodies,    \* the texts a notice may carry
          Filings,   \* identifiers of the filings SAHYOG may accept
          NoBody,    \* the text of a notice that does not exist yet
          NoFiling   \* the submission id of a notice that is not SENT

VARIABLES status, body, submission,
          filed      \* the pairs <<id, text>> SAHYOG has accepted

vars == <<status, body, submission, filed>>

Init == /\ status = "ABSENT"
        /\ body = NoBody
        /\ submission = NoFiling
        /\ filed = {}

Draft == /\ status = "ABSENT"
         /\ status' = "DRAFT"
         /\ body' \in Bodies
         /\ UNCHANGED <<submission, filed>>

Edit == /\ status \in {"DRAFT", "PENDING_APPROVAL"}
        /\ body' \in Bodies
        /\ UNCHANGED <<status, submission, filed>>

SubmitForApproval == /\ status = "DRAFT"
                     /\ status' = "PENDING_APPROVAL"
                     /\ UNCHANGED <<body, submission, filed>>

Approve == /\ status = "PENDING_APPROVAL"
           /\ status' = "APPROVED"
           /\ UNCHANGED <<body, submission, filed>>

\* SAHYOG may accept several filings of an approved notice: an answer that is
\* lost leaves the notice APPROVED, and the officer sends it again.
File(id) == /\ status = "APPROVED"
            /\ filed' = filed \cup {<<id, body>>}
            /\ UNCHANGED <<status, body, submission>>

Complete(id) == /\ status = "APPROVED"
                /\ <<id, body>> \in filed
                /\ status' = "SENT"
                /\ submission' = id
                /\ UNCHANGED <<body, filed>>

Next == \/ Draft \/ Edit \/ SubmitForApproval \/ Approve
        \/ \E id \in Filings : File(id) \/ Complete(id)

Spec == Init /\ [][Next]_vars
=============================================================================
