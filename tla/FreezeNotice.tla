---------------------------- MODULE FreezeNotice ----------------------------
(***************************************************************************)
(* apps/api/src/freeze-notices/service.ts: one row of FreezeNotice and the *)
(* HTTP requests that work on it. Every operation reads the row (load),    *)
(* decides on what it read, and only then writes with an unconditional     *)
(* "update where id"; the audit entry is a third call. Requests interleave *)
(* between those calls, any of the calls can fail, and the API process can *)
(* die. SAHYOG (integrations/sahyogAdapter.ts) accepts a filing or does    *)
(* not, and its answer can be lost after it accepted.                      *)
(***************************************************************************)
EXTENDS Naturals, FiniteSets

CONSTANTS
    Requests,  \* requests that reach the API, numbered as they arrive; each is served once
    Crowd,     \* those among them that may overlap (bound)
    Bodies,    \* texts a notice may carry
    Assembled, \* the one that is put together from the alert and the hops
    NoBody, NoRequest,
    Faults     \* which of the calls may fail

ASSUME FreezeNoticeAssumption ==
    /\ NoBody \notin Bodies /\ Assembled \in Bodies
    /\ Requests \subseteq Nat /\ NoRequest \notin Requests
    /\ Faults \subseteq {"crash", "db", "audit", "sahyog"}

VARIABLES
    notice,    \* the row of the FreezeNotice table
    op,        \* op[r]: the operation r asked for
    pc,        \* pc[r]: how far r got
    seen,      \* seen[r]: the row as r loaded it
    text,      \* text[r]: the body r's PATCH carries
    filed,     \* filed[r]: the text SAHYOG accepted from r
    audit,     \* the audit entries written about this notice
    approved,  \* the texts the row held when an approval was written
    overlap    \* may two requests be in flight at once? (chosen at the start)

vars == <<notice, op, pc, seen, text, filed, audit, approved, overlap>>

Status == {"ABSENT", "DRAFT", "PENDING_APPROVAL", "APPROVED", "SENT"}
EditableStatuses == {"DRAFT", "PENDING_APPROVAL"}
Ops == {"draft", "edit", "submit", "approve", "send"}
Row == [status : Status, body : Bodies \cup {NoBody},
        submissionId : Requests \cup {NoRequest}]
NoRow == [status |-> "ABSENT", body |-> NoBody, submissionId |-> NoRequest]

InFlight == {"loaded", "resend", "attempted", "answered", "written", "failing"}
Finished == {"ok", "error", "unrecorded", "dead"}
AuditActions == {"drafted", "edited", "submitted for approval", "approved",
                 "attempted", "submitted", "skipped", "failed"}

TypeOK ==
    /\ notice \in Row
    /\ op \in [Requests -> Ops \cup {"none"}]
    /\ pc \in [Requests -> {"idle"} \cup InFlight \cup Finished]
    /\ seen \in [Requests -> Row]
    /\ text \in [Requests -> Bodies \cup {NoBody}]
    /\ filed \in [Requests -> Bodies \cup {NoBody}]
    /\ audit \subseteq (AuditActions \X Requests)
    /\ approved \subseteq Bodies \cup {NoBody}
    /\ overlap \in BOOLEAN

Init ==
    /\ notice = NoRow
    /\ op = [r \in Requests |-> "none"]
    /\ pc = [r \in Requests |-> "idle"]
    /\ seen = [r \in Requests |-> NoRow]
    /\ text = [r \in Requests |-> NoBody]
    /\ filed = [r \in Requests |-> NoBody]
    /\ audit = {}
    /\ approved = {}
    /\ overlap \in BOOLEAN

-----------------------------------------------------------------------------
MayStart(r) == /\ pc[r] = "idle"
               /\ \A q \in Requests : q < r => pc[q] # "idle"
               /\ IF overlap THEN r \in Crowd ELSE \A q \in Requests : pc[q] \notin InFlight

Goto(r, place) == pc' = [pc EXCEPT ![r] = place]
Record(r, action) == audit' = audit \cup {<<action, r>>}

\* A write was made; its call may throw nevertheless, since the answer of the database is lost.
Made(r, thrown) == \/ Goto(r, "written")
                   \/ "db" \in Faults /\ Goto(r, thrown)

\* draft: the body is assembled from the alert and the hops; the row is created
\* DRAFT, and until the call returns nobody else knows its id.
Draft(r) ==
    /\ MayStart(r)
    /\ notice.status = "ABSENT"
    /\ notice' = [NoRow EXCEPT !.status = "DRAFT", !.body = Assembled]
    /\ op' = [op EXCEPT ![r] = "draft"]
    /\ Made(r, "error")
    /\ UNCHANGED <<seen, text, filed, audit, approved, overlap>>

\* Variant of the guards a careless edit could leave behind.
AfterLoadEditAlways(o, row) ==
    CASE o = "edit"    -> "loaded"
      [] o = "submit"  -> IF row.status = "DRAFT" THEN "loaded" ELSE "error"
      [] o = "approve" -> IF row.status = "PENDING_APPROVAL" THEN "loaded" ELSE "error"
      [] o = "send"    -> IF row.status = "SENT" THEN "resend"
                          ELSE IF row.status = "APPROVED" THEN "loaded" ELSE "error"

\* What the guard of each operation, read off the loaded row, decides.
AfterLoad(o, row) ==
    CASE o = "edit"    -> IF row.status \in EditableStatuses THEN "loaded" ELSE "error"
      [] o = "submit"  -> IF row.status = "DRAFT" THEN "loaded" ELSE "error"
      [] o = "approve" -> IF row.status = "PENDING_APPROVAL" THEN "loaded" ELSE "error"
      [] o = "send"    -> IF row.status = "SENT" /\ row.submissionId # NoRequest
                          THEN "resend"
                          ELSE IF row.status = "APPROVED" THEN "loaded" ELSE "error"

\* load: findUnique, and the status check that follows it before any await.
Load(r, o) ==
    /\ MayStart(r)
    /\ notice.status # "ABSENT"
    /\ op' = [op EXCEPT ![r] = o]
    /\ seen' = [seen EXCEPT ![r] = notice]
    /\ \E b \in (IF o = "edit" THEN Bodies ELSE {NoBody}) :
           text' = [text EXCEPT ![r] = b]
    /\ Goto(r, AfterLoad(o, notice))
    /\ UNCHANGED <<notice, filed, audit, approved, overlap>>

WriteEdit(r) ==
    /\ op[r] = "edit" /\ pc[r] = "loaded"
    /\ notice' = [notice EXCEPT !.body = text[r]]
    /\ Made(r, "error")
    /\ UNCHANGED <<op, seen, text, filed, audit, approved, overlap>>

WriteSubmit(r) ==
    /\ op[r] = "submit" /\ pc[r] = "loaded"
    /\ notice' = [notice EXCEPT !.status = "PENDING_APPROVAL"]
    /\ Made(r, "error")
    /\ UNCHANGED <<op, seen, text, filed, audit, approved, overlap>>

WriteApprove(r) ==
    /\ op[r] = "approve" /\ pc[r] = "loaded"
    /\ notice' = [notice EXCEPT !.status = "APPROVED"]
    /\ approved' = approved \cup {notice.body}
    /\ Made(r, "error")
    /\ UNCHANGED <<op, seen, text, filed, audit, overlap>>

\* send: the attempt is audited before SAHYOG is called ...
SendAttempt(r) ==
    /\ op[r] = "send" /\ pc[r] = "loaded"
    /\ Record(r, "attempted")
    /\ Goto(r, "attempted")
    /\ UNCHANGED <<notice, op, seen, text, filed, approved, overlap>>

\* Variant: the attempt may be filed before it is audited.
SendFileUnaudited(r) ==
    /\ op[r] = "send" /\ pc[r] \in {"loaded", "attempted"}
    /\ filed' = [filed EXCEPT ![r] = seen[r].body]
    /\ Goto(r, "answered")
    /\ UNCHANGED <<notice, op, seen, text, audit, approved, overlap>>

\* ... the body filed is the one loaded at the start of the request ...
SendFile(r) ==
    /\ pc[r] = "attempted"
    /\ filed' = [filed EXCEPT ![r] = seen[r].body]
    /\ \/ Goto(r, "answered")
       \/ "sahyog" \in Faults /\ Goto(r, "failing")
    /\ UNCHANGED <<notice, op, seen, text, audit, approved, overlap>>

\* SAHYOG refuses, or the call never reaches it.
SendRefused(r) ==
    /\ pc[r] = "attempted"
    /\ "sahyog" \in Faults
    /\ Goto(r, "failing")
    /\ UNCHANGED <<notice, op, seen, text, filed, audit, approved, overlap>>

\* ... and SENT is written with the id SAHYOG answered (here: the request's name).
WriteSent(r) ==
    /\ pc[r] = "answered"
    /\ notice' = [notice EXCEPT !.status = "SENT", !.submissionId = r]
    /\ Made(r, "failing")
    /\ UNCHANGED <<op, seen, text, filed, audit, approved, overlap>>

AuditActionOf(o) ==
    CASE o = "draft"   -> "drafted"
      [] o = "edit"    -> "edited"
      [] o = "submit"  -> "submitted for approval"
      [] o = "approve" -> "approved"
      [] o = "send"    -> "submitted"

\* The entry that closes an operation whose write succeeded.
AuditDone(r) ==
    /\ pc[r] = "written"
    /\ Record(r, AuditActionOf(op[r]))
    /\ Goto(r, "ok")
    /\ UNCHANGED <<notice, op, seen, text, filed, approved, overlap>>

\* A send of a notice that is already SENT is recorded and answered, not filed.
AuditSkipped(r) ==
    /\ pc[r] = "resend"
    /\ Record(r, "skipped")
    /\ Goto(r, "ok")
    /\ UNCHANGED <<notice, op, seen, text, filed, approved, overlap>>

\* The catch block of send.
AuditFailed(r) ==
    /\ pc[r] = "failing"
    /\ Record(r, "failed")
    /\ Goto(r, "error")
    /\ UNCHANGED <<notice, op, seen, text, filed, approved, overlap>>

-----------------------------------------------------------------------------
\* Variant: the update of send is moved out of its try block.
UpdateFailsUncaught(r) ==
    /\ "db" \in Faults
    /\ \/ op[r] # "send" /\ pc[r] = "loaded"
       \/ pc[r] = "answered"
    /\ Goto(r, "error")
    /\ UNCHANGED <<notice, op, seen, text, filed, audit, approved, overlap>>

\* A database write that throws and changes nothing. Only send's update is inside its try block.
UpdateFails(r) ==
    /\ "db" \in Faults
    /\ \/ op[r] # "send" /\ pc[r] = "loaded" /\ Goto(r, "error")
       \/ pc[r] = "answered" /\ Goto(r, "failing")
    /\ UNCHANGED <<notice, op, seen, text, filed, audit, approved, overlap>>

\* An audit.record that throws: the operation fails after its effect, and the
\* last entry of send falls into the catch block.
AuditFails(r) ==
    /\ "audit" \in Faults
    /\ \/ op[r] = "send" /\ pc[r] = "loaded" /\ Goto(r, "unrecorded")
       \/ op[r] = "send" /\ pc[r] = "written" /\ Goto(r, "failing")
       \/ op[r] # "send" /\ pc[r] = "written" /\ Goto(r, "unrecorded")
       \/ pc[r] \in {"resend", "failing"} /\ Goto(r, "unrecorded")
    /\ UNCHANGED <<notice, op, seen, text, filed, audit, approved, overlap>>

\* The API process dies: every request in flight is gone, the rows stay.
Crash ==
    /\ "crash" \in Faults
    /\ \E r \in Requests : pc[r] \in InFlight
    /\ pc' = [r \in Requests |-> IF pc[r] \in InFlight THEN "dead" ELSE pc[r]]
    /\ UNCHANGED <<notice, op, seen, text, filed, audit, approved, overlap>>

-----------------------------------------------------------------------------
Serve(r) ==
    \/ WriteEdit(r) \/ WriteSubmit(r) \/ WriteApprove(r)
    \/ SendAttempt(r) \/ SendFile(r) \/ WriteSent(r)
    \/ AuditDone(r) \/ AuditSkipped(r) \/ AuditFailed(r)

Fail(r) == SendRefused(r) \/ UpdateFails(r) \/ AuditFails(r)

Next ==
    \/ \E r \in Requests : \/ Draft(r)
                           \/ \E o \in Ops \ {"draft"} : Load(r, o)
                           \/ Serve(r)
                           \/ Fail(r)
    \/ Crash

Spec == Init /\ [][Next]_vars

\* The event loop keeps serving a request it has accepted; nothing makes an
\* officer send one.
FairSpec == Spec /\ \A r \in Requests : WF_vars(Serve(r))

-----------------------------------------------------------------------------
(* Properties that hold however requests overlap and whatever fails.       *)

\* Nothing reaches SAHYOG about a notice no supervisor has ever approved,
\* although every send decides on a row it read several calls ago.
FiledOnlyAfterApproval ==
    \A r \in Requests : filed[r] # NoBody => approved # {}

\* A notice that shows SENT, or that shows a submission id in any status, was
\* accepted by SAHYOG under that id: send writes after the answer, never before.
SentIsBacked ==
    /\ notice.status = "SENT" => notice.submissionId # NoRequest
    /\ notice.submissionId # NoRequest => filed[notice.submissionId] # NoBody

\* The audit trail and SAHYOG agree: no filing without the "attempted" entry of
\* the request that made it, even if the process died right after the call; no
\* "submitted" entry for a request SAHYOG did not accept; no "skipped" entry
\* unless some filing was accepted.
AuditMatchesFilings ==
    \A r \in Requests :
        /\ filed[r] # NoBody => <<"attempted", r>> \in audit
        /\ <<"submitted", r>> \in audit => filed[r] # NoBody
        /\ <<"skipped", r>> \in audit => \E q \in Requests : filed[q] # NoBody

\* Every attempt in the trail is closed by its outcome, unless the process or
\* the trail itself fails: also when SENT could not be written.
AttemptIsClosed ==
    \A r \in Requests :
        (<<"attempted", r>> \in audit)
            ~> \/ <<"submitted", r>> \in audit \/ <<"failed", r>> \in audit
               \/ pc[r] \in {"dead", "unrecorded"}

-----------------------------------------------------------------------------
(* Properties of requests that do not overlap.                             *)

FiledTexts == {<<r, filed[r]>> : r \in {q \in Requests : filed[q] # NoBody}}

\* The documented state machine: with one request at a time, and any of the
\* calls failing, the row and the filings behave as NoticeLifecycle says.
Lifecycle == INSTANCE NoticeLifecycle
             WITH Filings <- Requests, NoFiling <- NoRequest,
                  status <- notice.status, body <- notice.body,
                  submission <- notice.submissionId, filed <- FiledTexts

ImplementsLifecycle == Lifecycle!Init /\ [][~overlap => Lifecycle!Next]_(Lifecycle!vars)

\* "retrying a send that already succeeded never double-submits to SAHYOG"
\* (service.ts:143-144): a send that begins once the row holds a submission id
\* files nothing. Overlapping requests break it: a submit or an approve that loaded
\* the row early writes its status over SENT.
NoRefilingAfterSuccess ==
    \A r \in Requests : filed[r] # NoBody => seen[r].submissionId = NoRequest
=============================================================================
