--------------------------- MODULE CaseworkProofs ---------------------------
(***************************************************************************)
(* What officers start by hand for a case: the notices that freeze its     *)
(* money (FreezeNotice) and its mule analysis (MuleAnalysis), for any      *)
(* requests, officers, texts, hops and faults, whether requests overlap or *)
(* not. IInv is the inductive invariant of the notices: it adds to their   *)
(* properties what a request in flight knows at each place. AnalysisIInv   *)
(* is that of the analyses; RingIInv adds what makes their groups right,   *)
(* which rests on what breadth-first search and the connected components   *)
(* of a graph are, for every finite graph. The measures follow: what the   *)
(* search, the one-hour window and the loop over peel chains compute, by   *)
(* an invariant of each loop.                                              *)
(***************************************************************************)
EXTENDS FreezeNotice, MuleAnalysis, FiniteSetTheorems, WellFoundedInduction, TLAPS

\* A request that has been accepted has an operation. TypeOK is not inductive
\* without it: the closing audit entry is named after the operation.
OpKnown == \A r \in Requests : op[r] = "none" => pc[r] = "idle"

Filed(r) == filed[r] # NoBody

\* A row that exists has a text, and so has every copy of it, and every PATCH.
TextsExist ==
    /\ notice.status # "ABSENT" => notice.body \in Bodies
    /\ \A r \in Requests :
          /\ pc[r] # "idle" => notice.status # "ABSENT"
          /\ seen[r].status # "ABSENT" => seen[r].body \in Bodies
          /\ op[r] = "edit" => text[r] \in Bodies

\* Whoever has seen the notice approved saw it after an approval was written.
ApprovalHappened ==
    /\ notice.status \in {"APPROVED", "SENT"} => approved # {}
    /\ \A r \in Requests : seen[r].status = "APPROVED" => approved # {}

\* What a send in flight knows.
SendKnows(r) ==
    /\ pc[r] \in {"attempted", "answered", "resend", "failing"} => op[r] = "send"
    /\ op[r] = "send" /\ pc[r] \in {"loaded", "attempted", "answered"}
          => seen[r].status = "APPROVED"
    /\ pc[r] \in {"attempted", "answered"} => <<"attempted", r>> \in audit
    /\ pc[r] = "answered" \/ (op[r] = "send" /\ pc[r] = "written") => Filed(r)
    /\ pc[r] = "resend" => \E q \in Requests : Filed(q)

IInv ==
    /\ TypeOK
    /\ OpKnown
    /\ TextsExist
    /\ ApprovalHappened
    /\ \A r \in Requests : SendKnows(r)
    /\ FiledOnlyAfterApproval
    /\ SentIsBacked
    /\ AuditMatchesFilings

\* Every step keeps the types: the pc of a request only takes the places listed,
\* and the row, the copies of it and the trail stay within their domains.
LEMMA TypeStep == TypeOK /\ OpKnown /\ [Next]_vars => TypeOK'
<1> SUFFICES ASSUME TypeOK, OpKnown, [Next]_vars PROVE TypeOK'
  OBVIOUS
<1> USE DEF TypeOK, Row, Status, Ops, InFlight, Finished, AuditActions, Goto, Made
<1>1. ASSUME NEW r \in Requests, Draft(r) PROVE TypeOK'
  BY <1>1, FreezeNoticeAssumption DEF Draft, NoRow
<1>2. ASSUME NEW r \in Requests, NEW o \in Ops \ {"draft"}, Load(r, o) PROVE TypeOK'
  <2>1. AfterLoad(o, notice) \in InFlight \cup Finished
    BY DEF AfterLoad
  <2>2. pc' \in [Requests -> {"idle"} \cup InFlight \cup Finished]
    BY <1>2, <2>1 DEF Load
  <2>3. text' \in [Requests -> Bodies \cup {NoBody}]
    BY <1>2 DEF Load
  <2>4. /\ op' \in [Requests -> Ops \cup {"none"}]
        /\ seen' \in [Requests -> Row]
    BY <1>2 DEF Load
  <2>5. UNCHANGED <<notice, filed, audit, approved, overlap>>
    BY <1>2 DEF Load
  <2> QED
    BY <2>2, <2>3, <2>4, <2>5
<1>3. ASSUME NEW r \in Requests, WriteEdit(r) \/ WriteSubmit(r) \/ WriteApprove(r) \/ WriteSent(r)
      PROVE  TypeOK'
  BY <1>3, ZenonT(30) DEF WriteEdit, WriteSubmit, WriteApprove, WriteSent
<1>0. ASSUME NEW r \in Requests, NEW a \in AuditActions, Record(r, a)
      PROVE  audit' \in SUBSET (AuditActions \X Requests)
  <2>1. audit \subseteq AuditActions \X Requests
    BY DEF TypeOK
  <2>2. <<a, r>> \in AuditActions \X Requests
    BY <1>0
  <2> QED
    BY <1>0, <2>1, <2>2 DEF Record
<1>4. ASSUME NEW r \in Requests, SendAttempt(r) PROVE TypeOK'
  <2>1. audit' \in SUBSET (AuditActions \X Requests)
    BY <1>0, <1>4 DEF SendAttempt
  <2> QED
    BY <1>4, <2>1 DEF SendAttempt
<1>5. ASSUME NEW r \in Requests, SendFile(r) PROVE TypeOK'
  <2>1. filed' \in [Requests -> Bodies \cup {NoBody}]
    BY <1>5 DEF SendFile
  <2>2. pc' \in [Requests -> {"idle"} \cup InFlight \cup Finished]
    BY <1>5, ZenonT(30) DEF SendFile
  <2> QED
    BY <1>5, <2>1, <2>2 DEF SendFile
<1>6. ASSUME NEW r \in Requests, SendRefused(r) PROVE TypeOK'
  BY <1>6 DEF SendRefused
<1>10. ASSUME NEW r \in Requests, AuditSkipped(r) PROVE TypeOK'
  <2>1. audit' \in SUBSET (AuditActions \X Requests)
    BY <1>0, <1>10 DEF AuditSkipped
  <2> QED
    BY <1>10, <2>1 DEF AuditSkipped
<1>11. ASSUME NEW r \in Requests, AuditFailed(r) PROVE TypeOK'
  <2>1. audit' \in SUBSET (AuditActions \X Requests)
    BY <1>0, <1>11 DEF AuditFailed
  <2> QED
    BY <1>11, <2>1 DEF AuditFailed
<1>12. ASSUME NEW r \in Requests, AuditDone(r) PROVE TypeOK'
  <2>1. pc[r] = "written"
    BY <1>12 DEF AuditDone
  <2>2. op[r] \in Ops
    BY <2>1 DEF OpKnown
  <2>3. AuditActionOf(op[r]) \in AuditActions
    BY <2>2 DEF AuditActionOf
  <2>4. audit' \in SUBSET (AuditActions \X Requests)
    BY <1>0, <1>12, <2>3 DEF AuditDone
  <2> QED
    BY <1>12, <2>4 DEF AuditDone
<1>7. ASSUME NEW r \in Requests, UpdateFails(r) \/ AuditFails(r) PROVE TypeOK'
  BY <1>7 DEF UpdateFails, AuditFails
<1>8. CASE Crash
  BY <1>8 DEF Crash
<1>9. CASE UNCHANGED vars
  BY <1>9 DEF vars
<1> QED
  BY <1>1, <1>2, <1>3, <1>4, <1>5, <1>6, <1>10, <1>11, <1>12, <1>7, <1>8, <1>9 DEF Next, Serve, Fail

\* A request gets its operation with its first step and never loses it.
LEMMA OpStep == TypeOK /\ OpKnown /\ [Next]_vars => OpKnown'
<1> SUFFICES ASSUME TypeOK, OpKnown, [Next]_vars, NEW q \in Requests
             PROVE  (op[q] = "none" => pc[q] = "idle")'
  BY DEF OpKnown
<1> USE DEF TypeOK, OpKnown, Ops, Goto, Made
<1>1. ASSUME NEW r \in Requests, Draft(r) PROVE (op[q] = "none" => pc[q] = "idle")'
  BY <1>1 DEF Draft, MayStart
<1>2. ASSUME NEW r \in Requests, NEW o \in Ops \ {"draft"}, Load(r, o)
      PROVE  (op[q] = "none" => pc[q] = "idle")'
  BY <1>2 DEF Load, MayStart
<1>3. ASSUME NEW r \in Requests, Serve(r) PROVE (op[q] = "none" => pc[q] = "idle")'
  BY <1>3 DEF Serve, WriteEdit, WriteSubmit, WriteApprove, SendAttempt, SendFile,
              WriteSent, AuditDone, AuditSkipped, AuditFailed, InFlight
<1>4. ASSUME NEW r \in Requests, Fail(r) PROVE (op[q] = "none" => pc[q] = "idle")'
  BY <1>4 DEF Fail, SendRefused, UpdateFails, AuditFails
<1>5. CASE Crash
  BY <1>5 DEF Crash, InFlight
<1>6. CASE UNCHANGED vars
  BY <1>6 DEF vars
<1> QED
  BY <1>1, <1>2, <1>3, <1>4, <1>5, <1>6 DEF Next

\* The types hold in every behaviour of the specification.
THEOREM TypeCorrect == Spec => []TypeOK
<1>1. Init => TypeOK /\ OpKnown
  BY DEF Init, TypeOK, OpKnown, NoRow, Row, Status, InFlight, Finished
<1> QED
  BY <1>1, TypeStep, OpStep, PTL DEF Spec
\* Rows and their copies keep a text.
LEMMA TextsStep == IInv /\ [Next]_vars => TextsExist'
<1> SUFFICES ASSUME IInv, [Next]_vars
             PROVE  TextsExist'
  BY DEF TextsExist
<1> USE FreezeNoticeAssumption DEF IInv, TypeOK, Ops, Row, Goto, Made, TextsExist, InFlight
<1>1. ASSUME NEW r \in Requests, Draft(r)
      PROVE  TextsExist'
  BY <1>1 DEF Draft, MayStart, NoRow
<1>2. ASSUME NEW r \in Requests, NEW o \in Ops \ {"draft"}, Load(r, o)
      PROVE  TextsExist'
  BY <1>2 DEF Load, MayStart, AfterLoad, EditableStatuses
<1>3. ASSUME NEW r \in Requests, WriteEdit(r) \/ WriteSubmit(r) \/ WriteApprove(r)
      PROVE  TextsExist'
  BY <1>3 DEF WriteEdit, WriteSubmit, WriteApprove
<1>4. ASSUME NEW r \in Requests, SendAttempt(r) \/ SendFile(r) \/ WriteSent(r)
      PROVE  TextsExist'
  BY <1>4 DEF SendAttempt, SendFile, WriteSent
<1>5. ASSUME NEW r \in Requests, AuditDone(r) \/ AuditSkipped(r) \/ AuditFailed(r)
      PROVE  TextsExist'
  BY <1>5 DEF AuditDone, AuditSkipped, AuditFailed
<1>6. ASSUME NEW r \in Requests, Fail(r)
      PROVE  TextsExist'
  BY <1>6 DEF Fail, SendRefused, UpdateFails, AuditFails
<1>7. CASE Crash
  BY <1>7 DEF Crash, InFlight
<1>8. CASE UNCHANGED vars
  BY <1>8 DEF vars
<1> QED
  BY <1>1, <1>2, <1>3, <1>4, <1>5, <1>6, <1>7, <1>8 DEF Next, Serve

\* APPROVED is only written together with an approval, and approvals are never forgotten.
LEMMA ApprovalStep == IInv /\ [Next]_vars => ApprovalHappened'
<1> SUFFICES ASSUME IInv, [Next]_vars
             PROVE  ApprovalHappened'
  BY DEF ApprovalHappened
<1> USE FreezeNoticeAssumption DEF IInv, TypeOK, Ops, Row, Goto, Made, ApprovalHappened, SendKnows
<1>1. ASSUME NEW r \in Requests, Draft(r)
      PROVE  ApprovalHappened'
  BY <1>1 DEF Draft, MayStart, NoRow
<1>2. ASSUME NEW r \in Requests, NEW o \in Ops \ {"draft"}, Load(r, o)
      PROVE  ApprovalHappened'
  BY <1>2 DEF Load, MayStart, AfterLoad, EditableStatuses
<1>3. ASSUME NEW r \in Requests, WriteEdit(r) \/ WriteSubmit(r) \/ WriteApprove(r)
      PROVE  ApprovalHappened'
  BY <1>3 DEF WriteEdit, WriteSubmit, WriteApprove
<1>4. ASSUME NEW r \in Requests, SendAttempt(r) \/ SendFile(r) \/ WriteSent(r)
      PROVE  ApprovalHappened'
  BY <1>4 DEF SendAttempt, SendFile, WriteSent
<1>5. ASSUME NEW r \in Requests, AuditDone(r) \/ AuditSkipped(r) \/ AuditFailed(r)
      PROVE  ApprovalHappened'
  BY <1>5 DEF AuditDone, AuditSkipped, AuditFailed
<1>6. ASSUME NEW r \in Requests, Fail(r)
      PROVE  ApprovalHappened'
  BY <1>6 DEF Fail, SendRefused, UpdateFails, AuditFails
<1>7. CASE Crash
  BY <1>7 DEF Crash, InFlight
<1>8. CASE UNCHANGED vars
  BY <1>8 DEF vars
<1> QED
  BY <1>1, <1>2, <1>3, <1>4, <1>5, <1>6, <1>7, <1>8 DEF Next, Serve

\* A filing follows an approval: the sender saw the row APPROVED.
LEMMA FiledStep == IInv /\ [Next]_vars => FiledOnlyAfterApproval'
<1> SUFFICES ASSUME IInv, [Next]_vars
             PROVE  FiledOnlyAfterApproval'
  BY DEF FiledOnlyAfterApproval
<1> USE FreezeNoticeAssumption DEF IInv, TypeOK, Ops, Row, Goto, Made, FiledOnlyAfterApproval, ApprovalHappened, SendKnows
<1>1. ASSUME NEW r \in Requests, Draft(r)
      PROVE  FiledOnlyAfterApproval'
  BY <1>1 DEF Draft, MayStart, NoRow
<1>2. ASSUME NEW r \in Requests, NEW o \in Ops \ {"draft"}, Load(r, o)
      PROVE  FiledOnlyAfterApproval'
  BY <1>2 DEF Load, MayStart, AfterLoad, EditableStatuses
<1>3. ASSUME NEW r \in Requests, WriteEdit(r) \/ WriteSubmit(r) \/ WriteApprove(r)
      PROVE  FiledOnlyAfterApproval'
  BY <1>3 DEF WriteEdit, WriteSubmit, WriteApprove
<1>4. ASSUME NEW r \in Requests, SendAttempt(r) \/ SendFile(r) \/ WriteSent(r)
      PROVE  FiledOnlyAfterApproval'
  BY <1>4 DEF SendAttempt, SendFile, WriteSent
<1>5. ASSUME NEW r \in Requests, AuditDone(r) \/ AuditSkipped(r) \/ AuditFailed(r)
      PROVE  FiledOnlyAfterApproval'
  BY <1>5 DEF AuditDone, AuditSkipped, AuditFailed
<1>6. ASSUME NEW r \in Requests, Fail(r)
      PROVE  FiledOnlyAfterApproval'
  BY <1>6 DEF Fail, SendRefused, UpdateFails, AuditFails
<1>7. CASE Crash
  BY <1>7 DEF Crash, InFlight
<1>8. CASE UNCHANGED vars
  BY <1>8 DEF vars
<1> QED
  BY <1>1, <1>2, <1>3, <1>4, <1>5, <1>6, <1>7, <1>8 DEF Next, Serve

\* SENT is written by a sender that holds the answer of SAHYOG.
LEMMA SentStep == IInv /\ [Next]_vars => SentIsBacked'
<1> SUFFICES ASSUME IInv, [Next]_vars
             PROVE  SentIsBacked'
  BY DEF SentIsBacked
<1> USE FreezeNoticeAssumption DEF IInv, TypeOK, Ops, Row, Goto, Made, SentIsBacked, TextsExist, SendKnows, Filed
<1>1. ASSUME NEW r \in Requests, Draft(r)
      PROVE  SentIsBacked'
  BY <1>1 DEF Draft, MayStart, NoRow
<1>2. ASSUME NEW r \in Requests, NEW o \in Ops \ {"draft"}, Load(r, o)
      PROVE  SentIsBacked'
  BY <1>2 DEF Load, MayStart, AfterLoad, EditableStatuses
<1>3. ASSUME NEW r \in Requests, WriteEdit(r) \/ WriteSubmit(r) \/ WriteApprove(r)
      PROVE  SentIsBacked'
  BY <1>3 DEF WriteEdit, WriteSubmit, WriteApprove
<1>4. ASSUME NEW r \in Requests, SendAttempt(r) \/ SendFile(r) \/ WriteSent(r)
      PROVE  SentIsBacked'
  <2>1. CASE SendAttempt(r)
    BY <2>1 DEF SendAttempt
  <2>2. CASE SendFile(r)
    <3>1. /\ notice' = notice
          /\ filed' = [filed EXCEPT ![r] = seen[r].body]
          /\ pc[r] = "attempted"
      BY <2>2 DEF SendFile
    <3>2. seen[r].body \in Bodies
      BY <3>1
    <3>3. \A q \in Requests : filed[q] # NoBody => filed'[q] # NoBody
      BY <3>1, <3>2
    <3> QED
      BY <3>1, <3>3
  <2>3. CASE WriteSent(r)
    BY <2>3 DEF WriteSent
  <2> QED
    BY <1>4, <2>1, <2>2, <2>3
<1>5. ASSUME NEW r \in Requests, AuditDone(r) \/ AuditSkipped(r) \/ AuditFailed(r)
      PROVE  SentIsBacked'
  BY <1>5 DEF AuditDone, AuditSkipped, AuditFailed
<1>6. ASSUME NEW r \in Requests, Fail(r)
      PROVE  SentIsBacked'
  BY <1>6 DEF Fail, SendRefused, UpdateFails, AuditFails
<1>7. CASE Crash
  BY <1>7 DEF Crash, InFlight
<1>8. CASE UNCHANGED vars
  BY <1>8 DEF vars
<1> QED
  BY <1>1, <1>2, <1>3, <1>4, <1>5, <1>6, <1>7, <1>8 DEF Next, Serve

\* No step takes a filing back, or an entry out of the trail.
LEMMA Monotone ==
    ASSUME IInv, [Next]_vars
    PROVE  /\ \A q \in Requests : Filed(q) => Filed(q)'
           /\ audit \subseteq audit'
<1> USE FreezeNoticeAssumption DEF IInv, TypeOK, Row, Filed
<1>1. ASSUME NEW r \in Requests, SendFile(r)
      PROVE  /\ \A q \in Requests : Filed(q) => Filed(q)'
             /\ audit \subseteq audit'
  <2>1. /\ filed' = [filed EXCEPT ![r] = seen[r].body]
        /\ pc[r] = "attempted"
        /\ audit' = audit
    BY <1>1 DEF SendFile
  <2>2. seen[r].body \in Bodies
    BY <2>1 DEF TextsExist, SendKnows
  <2> QED
    BY <2>1, <2>2
<1>2. ASSUME NEW r \in Requests, ~SendFile(r), Serve(r)
      PROVE  filed' = filed /\ audit \subseteq audit'
  BY <1>2 DEF Serve, WriteEdit, WriteSubmit, WriteApprove, SendAttempt, WriteSent,
              AuditDone, AuditSkipped, AuditFailed, Record
<1>3. ASSUME NEW r \in Requests, Draft(r) \/ Fail(r) \/ \E o \in Ops \ {"draft"} : Load(r, o)
      PROVE  filed' = filed /\ audit' = audit
  BY <1>3 DEF Draft, Load, Fail, SendRefused, UpdateFails, AuditFails
<1>4. CASE Crash \/ UNCHANGED vars
  BY <1>4 DEF Crash, vars
<1> QED
  BY <1>1, <1>2, <1>3, <1>4 DEF Next

\* What a send in flight knows stays true while others move, and each of its own
\* steps establishes what the next one relies on.
LEMMA KnowsStep == IInv /\ [Next]_vars => (\A q \in Requests : SendKnows(q))'
<1> SUFFICES ASSUME IInv, [Next]_vars, NEW q \in Requests
             PROVE  SendKnows(q)'
  OBVIOUS
<1>0. /\ \A x \in Requests : Filed(x) => Filed(x)'
      /\ audit \subseteq audit'
  BY Monotone
<1>00. op \in [Requests -> Ops \cup {"none"}] /\ SendKnows(q) /\ SentIsBacked /\ OpKnown
       /\ pc \in [Requests -> {"idle"} \cup InFlight \cup Finished] /\ seen \in [Requests -> Row]
       /\ notice \in Row
  BY DEF IInv, TypeOK
<1>1. ASSUME op'[q] = op[q], pc'[q] = pc[q], seen'[q] = seen[q]
      PROVE  SendKnows(q)'
  BY <1>0, <1>00, <1>1 DEF SendKnows
<1>2. ASSUME op'[q] = op[q], pc'[q] \in Finished
      PROVE  SendKnows(q)'
  BY <1>2 DEF SendKnows, Finished
<1> USE DEF Goto, Made, Ops
<1>3. ASSUME Draft(q) PROVE SendKnows(q)'
  BY <1>00, <1>3 DEF SendKnows, Draft
<1>4. ASSUME NEW o \in Ops \ {"draft"}, Load(q, o) PROVE SendKnows(q)'
  <2>1. /\ op'[q] = o /\ pc'[q] = AfterLoad(o, notice) /\ seen'[q] = notice
    BY <1>00, <1>4 DEF Load
  <2>2. AfterLoad(o, notice) = "resend" => \E x \in Requests : Filed(x)
    BY <1>00 DEF AfterLoad, SentIsBacked, Filed, Row
  <2> QED
    BY <1>0, <2>1, <2>2 DEF SendKnows, AfterLoad
<1>5. ASSUME WriteEdit(q) \/ WriteSubmit(q) \/ WriteApprove(q) PROVE SendKnows(q)'
  BY <1>00, <1>5 DEF SendKnows, WriteEdit, WriteSubmit, WriteApprove
<1>6. ASSUME SendAttempt(q) PROVE SendKnows(q)'
  BY <1>00, <1>6 DEF SendKnows, SendAttempt, Record
<1>7. ASSUME SendFile(q) PROVE SendKnows(q)'
  <2>1. Filed(q)'
    BY <1>7, FreezeNoticeAssumption, ZenonT(30) DEF IInv, TypeOK, SendFile, TextsExist, SendKnows, Filed
  <2> QED
    BY <1>0, <1>00, <1>7, <2>1 DEF SendKnows, SendFile
<1>8. ASSUME WriteSent(q) PROVE SendKnows(q)'
  BY <1>0, <1>00, <1>8 DEF SendKnows, WriteSent
<1>9. ASSUME AuditDone(q) \/ AuditSkipped(q) \/ AuditFailed(q) PROVE SendKnows(q)'
  BY <1>00, <1>2, <1>9 DEF AuditDone, AuditSkipped, AuditFailed, Finished
<1>10. ASSUME Fail(q) PROVE SendKnows(q)'
  BY <1>00, <1>10 DEF SendKnows, Fail, SendRefused, UpdateFails, AuditFails
<1>11. ASSUME NEW r \in Requests \ {q},
              Draft(r) \/ Serve(r) \/ Fail(r) \/ \E o \in Ops \ {"draft"} : Load(r, o)
       PROVE  SendKnows(q)'
  <2>1. op'[q] = op[q] /\ pc'[q] = pc[q] /\ seen'[q] = seen[q]
    BY <1>00, <1>11 DEF Draft, Load, Serve, WriteEdit, WriteSubmit, WriteApprove,
       SendAttempt, SendFile, WriteSent, AuditDone, AuditSkipped, AuditFailed,
       Fail, SendRefused, UpdateFails, AuditFails
  <2> QED
    BY <1>1, <2>1
<1>12. CASE Crash
  BY <1>00, <1>1, <1>2, <1>12 DEF Crash, Finished
<1>13. CASE UNCHANGED vars
  BY <1>1, <1>13 DEF vars
<1> QED
  BY <1>3, <1>4, <1>5, <1>6, <1>7, <1>8, <1>9, <1>10, <1>11, <1>12, <1>13 DEF Next, Serve

\* The trail only grows by the entries of four actions.
LEMMA TrailStep ==
    [Next]_vars =>
       \/ audit' = audit
       \/ \E r \in Requests :
             \/ AuditDone(r) \/ AuditSkipped(r)
             \/ audit' = audit \cup {<<"attempted", r>>}
             \/ audit' = audit \cup {<<"failed", r>>}
<1> SUFFICES ASSUME [Next]_vars, audit' # audit
             PROVE  \E r \in Requests :
                      \/ AuditDone(r) \/ AuditSkipped(r)
                      \/ audit' = audit \cup {<<"attempted", r>>}
                      \/ audit' = audit \cup {<<"failed", r>>}
  OBVIOUS
<1>1. ~Crash /\ vars' # vars
  BY DEF Crash, vars
<1>2. PICK r \in Requests : Draft(r) \/ Serve(r) \/ Fail(r) \/ \E o \in Ops \ {"draft"} : Load(r, o)
  BY <1>1 DEF Next
<1>3. ~Draft(r) /\ ~Fail(r) /\ ~\E o \in Ops \ {"draft"} : Load(r, o)
  BY DEF Draft, Fail, SendRefused, UpdateFails, AuditFails, Load
<1>4. SendAttempt(r) \/ AuditDone(r) \/ AuditSkipped(r) \/ AuditFailed(r)
  BY <1>2, <1>3 DEF Serve, WriteEdit, WriteSubmit, WriteApprove, SendFile, WriteSent
<1> QED
  BY <1>4 DEF SendAttempt, AuditFailed, Record

\* The trail and the filings move together: the sender filed after its attempt
\* was recorded, and records "submitted" only once it holds the answer.
LEMMA AuditStep == IInv /\ [Next]_vars => AuditMatchesFilings'
<1> SUFFICES ASSUME IInv, [Next]_vars, NEW q \in Requests
             PROVE  /\ Filed(q)' => <<"attempted", q>> \in audit'
                    /\ <<"submitted", q>> \in audit' => Filed(q)'
                    /\ <<"skipped", q>> \in audit' => \E x \in Requests : Filed(x)'
  BY DEF AuditMatchesFilings, Filed
<1>0. /\ \A x \in Requests : Filed(x) => Filed(x)'
      /\ audit \subseteq audit'
  BY Monotone
<1>00. /\ Filed(q) => <<"attempted", q>> \in audit
       /\ <<"submitted", q>> \in audit => Filed(q)
       /\ <<"skipped", q>> \in audit => \E x \in Requests : Filed(x)
       /\ \A x \in Requests : SendKnows(x)
  BY DEF IInv, AuditMatchesFilings, Filed
<1>1. (Filed(q)' /\ ~Filed(q)) => <<"attempted", q>> \in audit
  <2>1. ASSUME NEW r \in Requests, SendFile(r), Filed(q)', ~Filed(q)
        PROVE  <<"attempted", q>> \in audit
    <3>1. r = q
      BY <2>1 DEF SendFile, IInv, TypeOK, Filed
    <3> QED
      BY <1>00, <2>1, <3>1 DEF SendFile, SendKnows
  <2>2. ASSUME ~\E r \in Requests : SendFile(r)
        PROVE  filed' = filed
    BY <2>2 DEF Next, Serve, Draft, Load, WriteEdit, WriteSubmit, WriteApprove,
       SendAttempt, WriteSent, AuditDone, AuditSkipped, AuditFailed,
       Fail, SendRefused, UpdateFails, AuditFails, Crash, vars
  <2> QED
    BY <2>1, <2>2 DEF Filed
<1>2. <<"submitted", q>> \in audit' /\ <<"submitted", q>> \notin audit => Filed(q)
  <2>1. ASSUME NEW r \in Requests, AuditDone(r),
               <<"submitted", q>> \in audit', <<"submitted", q>> \notin audit
        PROVE  Filed(q)
    <3>1. r = q /\ AuditActionOf(op[r]) = "submitted" /\ pc[r] = "written"
      BY <2>1 DEF AuditDone, Record
    <3>2. op[r] \in Ops
      BY <3>1 DEF IInv, TypeOK, OpKnown
    <3>3. op[r] = "send"
      BY <3>1, <3>2 DEF AuditActionOf, Ops
    <3> QED
      BY <1>00, <3>1, <3>3 DEF SendKnows
  <2>2. ASSUME NEW r \in Requests, AuditSkipped(r), <<"submitted", q>> \in audit'
        PROVE  <<"submitted", q>> \in audit
    BY <2>2 DEF AuditSkipped, Record
  <2> QED
    BY <2>1, <2>2, TrailStep
<1>3. <<"skipped", q>> \in audit' /\ <<"skipped", q>> \notin audit
        => \E x \in Requests : Filed(x)
  <2>1. ASSUME NEW r \in Requests, AuditSkipped(r)
        PROVE  \E x \in Requests : Filed(x)
    BY <1>00, <2>1 DEF AuditSkipped, SendKnows
  <2>2. ASSUME NEW r \in Requests, AuditDone(r), <<"skipped", q>> \in audit'
        PROVE  <<"skipped", q>> \in audit
    <3>1. pc[r] = "written" /\ audit' = audit \cup {<<AuditActionOf(op[r]), r>>}
      BY <2>2 DEF AuditDone, Record
    <3>2. op[r] \in Ops
      BY <3>1 DEF IInv, TypeOK, OpKnown
    <3>3. AuditActionOf(op[r]) # "skipped"
      BY <3>2 DEF AuditActionOf, Ops
    <3> QED
      BY <2>2, <3>1, <3>3
  <2> QED
    BY <2>1, <2>2, TrailStep
<1> QED
  BY <1>0, <1>00, <1>1, <1>2, <1>3

\* IInv is inductive.
LEMMA InductiveStep == IInv /\ [Next]_vars => IInv'
<1> SUFFICES ASSUME IInv, [Next]_vars PROVE IInv'
  OBVIOUS
<1>1. TypeOK /\ OpKnown
  BY DEF IInv
<1> QED
  BY <1>1, TypeStep, OpStep, TextsStep, ApprovalStep, KnowsStep, FiledStep, SentStep,
     AuditStep DEF IInv

LEMMA InitIInv == Init => IInv
<1> SUFFICES ASSUME Init PROVE IInv
  OBVIOUS
<1>1. TypeOK /\ OpKnown
  BY DEF Init, TypeOK, OpKnown, NoRow, Row, Status, InFlight, Finished
<1>2. TextsExist /\ ApprovalHappened
  BY DEF Init, TextsExist, ApprovalHappened, NoRow
<1>3. (\A r \in Requests : SendKnows(r)) /\ FiledOnlyAfterApproval /\ SentIsBacked
  BY DEF Init, NoRow, SendKnows, FiledOnlyAfterApproval, SentIsBacked
<1>4. AuditMatchesFilings
  BY DEF Init, AuditMatchesFilings
<1> QED
  BY <1>1, <1>2, <1>3, <1>4 DEF IInv

\* No overlap of requests and no failure lets an unapproved notice reach SAHYOG.
THEOREM FilingNeedsApproval == Spec => []FiledOnlyAfterApproval
<1>1. IInv => FiledOnlyAfterApproval
  BY DEF IInv
<1> QED
  BY <1>1, InitIInv, InductiveStep, PTL DEF Spec

\* SENT, and a submission id in any status, is always backed by SAHYOG.
THEOREM SentNeedsFiling == Spec => []SentIsBacked
<1>1. IInv => SentIsBacked
  BY DEF IInv
<1> QED
  BY <1>1, InitIInv, InductiveStep, PTL DEF Spec

\* The audit trail never disagrees with what SAHYOG accepted.
THEOREM TrailIsTruthful == Spec => []AuditMatchesFilings
<1>1. IInv => AuditMatchesFilings
  BY DEF IInv
<1> QED
  BY <1>1, InitIInv, InductiveStep, PTL DEF Spec

-----------------------------------------------------------------------------
(* Requests that do not overlap behave as NoticeLifecycle says.               *)

\* One request is in flight at most, so the row is still as it was loaded: its guard holds
\* when it writes, and what SAHYOG accepted from it is the text of the row.
SerialInv ==
    ~overlap => \A r \in Requests :
       /\ pc[r] \in InFlight => \A q \in Requests \ {r} : pc[q] \notin InFlight
       /\ pc[r] \in {"loaded", "attempted", "answered"} =>
             /\ op[r] \in Ops \ {"draft"} /\ seen[r] = notice
             /\ AfterLoad(op[r], notice) = "loaded"
       /\ pc[r] \in {"idle", "loaded", "attempted"} => filed[r] = NoBody
       /\ pc[r] = "answered" => filed[r] = notice.body

\* What the rest is when r has moved: nobody else is in flight, before or after.
LEMMA Alone ==
    ASSUME TypeOK, SerialInv, ~overlap, NEW r \in Requests, pc[r] \in InFlight \/ MayStart(r),
           NEW place, pc' = [pc EXCEPT ![r] = place], overlap' = overlap,
           \A q \in Requests \ {r} : filed'[q] = filed[q],
           /\ place \in {"loaded", "attempted", "answered"} =>
                 /\ op'[r] \in Ops \ {"draft"} /\ seen'[r] = notice'
                 /\ AfterLoad(op[r], notice)' = "loaded"
           /\ place \in {"idle", "loaded", "attempted"} => filed'[r] = NoBody
           /\ place = "answered" => filed'[r] = notice'.body
    PROVE  SerialInv'
<1>1. \A q \in Requests \ {r} : pc[q] \notin InFlight
  BY DEF SerialInv, MayStart
<1>2. pc'[r] = place /\ \A q \in Requests \ {r} : pc'[q] = pc[q]
  BY DEF TypeOK
<1>3. \A q \in Requests : pc'[q] \in InFlight => q = r
  BY <1>1, <1>2
<1>4. ASSUME NEW q \in Requests
      PROVE  /\ pc'[q] \in {"loaded", "attempted", "answered"} =>
                   /\ op'[q] \in Ops \ {"draft"} /\ seen'[q] = notice'
                   /\ AfterLoad(op[q], notice)' = "loaded"
             /\ pc'[q] \in {"idle", "loaded", "attempted"} => filed'[q] = NoBody
             /\ pc'[q] = "answered" => filed'[q] = notice'.body
  <2>1. CASE q = r
    BY <1>2, <2>1
  <2>2. CASE q # r
    <3>1. pc'[q] \notin {"loaded", "attempted", "answered"}
      BY <1>3, <2>2 DEF InFlight
    <3>2. filed'[q] = filed[q] /\ pc'[q] = pc[q]
      BY <1>2, <2>2
    <3>3. pc[q] = "idle" => filed[q] = NoBody
      BY DEF SerialInv
    <3> QED BY <3>1, <3>2, <3>3
  <2> QED BY <2>1, <2>2
<1> QED BY <1>3, <1>4 DEF SerialInv

\* Every step keeps it.
LEMMA SerialStep == IInv /\ SerialInv /\ [Next]_vars => SerialInv'
<1> SUFFICES ASSUME IInv, SerialInv, [Next]_vars PROVE SerialInv'
  OBVIOUS
<1>9. overlap' = overlap
  <2>1. ASSUME NEW r \in Requests, Draft(r) PROVE overlap' = overlap
    BY <2>1 DEF Draft
  <2>2. ASSUME NEW r \in Requests, NEW o \in Ops \ {"draft"}, Load(r, o)
        PROVE  overlap' = overlap
    BY <2>2 DEF Load
  <2>3. ASSUME NEW r \in Requests, Serve(r) PROVE overlap' = overlap
    BY <2>3 DEF Serve, WriteEdit, WriteSubmit, WriteApprove, SendAttempt, SendFile, WriteSent,
                AuditDone, AuditSkipped, AuditFailed
  <2>4. ASSUME NEW r \in Requests, Fail(r) PROVE overlap' = overlap
    BY <2>4 DEF Fail, SendRefused, UpdateFails, AuditFails
  <2>5. CASE Crash \/ UNCHANGED vars
    BY <2>5 DEF Crash, vars
  <2> QED BY <2>1, <2>2, <2>3, <2>4, <2>5 DEF Next
<1> SUFFICES ASSUME ~overlap PROVE SerialInv'
  BY <1>9 DEF SerialInv
<1> USE DEF InFlight, Goto, Made
<1>0. TypeOK
  BY DEF IInv
<1>1. ASSUME NEW r \in Requests, Draft(r) PROVE SerialInv'
  <2>1. \A q \in Requests : filed'[q] = filed[q]
    BY <1>1 DEF Draft
  <2> QED BY <1>0, <1>1, <2>1, Alone DEF Draft
<1>2. ASSUME NEW r \in Requests, NEW o \in Ops \ {"draft"}, Load(r, o) PROVE SerialInv'
  <2> DEFINE place == AfterLoad(o, notice)
  <2>1. /\ MayStart(r) /\ pc' = [pc EXCEPT ![r] = place]
        /\ UNCHANGED <<notice, filed, overlap>>
        /\ op'[r] = o /\ seen'[r] = notice
    BY <1>0, <1>2 DEF Load, TypeOK
  <2>2. place \in {"loaded", "error", "resend"}
    BY DEF AfterLoad, Ops
  <2>3. filed[r] = NoBody
    BY <2>1 DEF MayStart, SerialInv
  <2>4. AfterLoad(op[r], notice)' = place
    BY <2>1 DEF AfterLoad
  <2> HIDE DEF place
  <2> QED BY <1>0, <2>1, <2>2, <2>3, <2>4, Alone
<1>3. ASSUME NEW r \in Requests, WriteEdit(r) \/ WriteSubmit(r) \/ WriteApprove(r) \/ WriteSent(r)
      PROVE  SerialInv'
  <2>1. PICK place \in {"written", "error", "failing"} :
           pc[r] \in InFlight /\ pc' = [pc EXCEPT ![r] = place] /\ UNCHANGED <<filed, overlap>>
    BY <1>3, SMTT(20) DEF WriteEdit, WriteSubmit, WriteApprove, WriteSent
  <2> QED BY <1>0, <2>1, Alone
<1>4. ASSUME NEW r \in Requests, SendAttempt(r) PROVE SerialInv'
  <2>1. /\ pc[r] = "loaded" /\ pc' = [pc EXCEPT ![r] = "attempted"]
        /\ UNCHANGED <<notice, op, seen, filed, overlap>>
    BY <1>4 DEF SendAttempt
  <2>2. /\ op[r] \in Ops \ {"draft"} /\ seen[r] = notice /\ AfterLoad(op[r], notice) = "loaded"
        /\ filed[r] = NoBody
    BY <2>1 DEF SerialInv
  <2>3. AfterLoad(op[r], notice)' = "loaded"
    BY <2>1, <2>2 DEF AfterLoad
  <2> QED BY <1>0, <2>1, <2>2, <2>3, Alone
<1>5. ASSUME NEW r \in Requests, SendFile(r) PROVE SerialInv'
  <2>1. /\ pc[r] = "attempted"
        /\ filed' = [filed EXCEPT ![r] = seen[r].body]
        /\ UNCHANGED <<notice, op, seen, overlap>>
        /\ pc' = [pc EXCEPT ![r] = "answered"] \/ pc' = [pc EXCEPT ![r] = "failing"]
    BY <1>5 DEF SendFile
  <2>2. op[r] \in Ops \ {"draft"} /\ seen[r] = notice /\ AfterLoad(op[r], notice) = "loaded"
    BY <2>1 DEF SerialInv
  <2>3. AfterLoad(op[r], notice)' = "loaded"
    BY <2>1, <2>2 DEF AfterLoad
  <2>4. filed'[r] = notice'.body /\ \A q \in Requests \ {r} : filed'[q] = filed[q]
    BY <1>0, <2>1, <2>2 DEF TypeOK
  <2> QED BY <1>0, <2>1, <2>2, <2>3, <2>4, Alone
<1>6. ASSUME NEW r \in Requests,
             AuditDone(r) \/ AuditSkipped(r) \/ AuditFailed(r) \/ Fail(r)
      PROVE  SerialInv'
  <2>1. /\ pc[r] \in InFlight /\ UNCHANGED <<filed, overlap>>
        /\ \E place \in {"ok", "error", "failing", "unrecorded"} : pc' = [pc EXCEPT ![r] = place]
    BY <1>6 DEF AuditDone, AuditSkipped, AuditFailed, Fail, SendRefused, UpdateFails, AuditFails
  <2> QED BY <1>0, <2>1, Alone
<1>7. CASE Crash
  <2>1. \A q \in Requests : pc'[q] \notin InFlight /\ (pc'[q] = "idle" => pc[q] = "idle")
    BY <1>7 DEF Crash
  <2>2. UNCHANGED <<filed, overlap>>
    BY <1>7 DEF Crash
  <2> QED BY <2>1, <2>2 DEF SerialInv
<1>8. CASE UNCHANGED vars
  BY <1>8 DEF vars, SerialInv, AfterLoad
<1> QED BY <1>1, <1>2, <1>3, <1>4, <1>5, <1>6, <1>7, <1>8 DEF Next, Serve

\* A step of a request is a step of the life of the notice, or shows nothing of it.
LEMMA LifecycleStep ==
    IInv /\ SerialInv /\ [Next]_vars => [~overlap => Lifecycle!Next]_(Lifecycle!vars)
<1> SUFFICES ASSUME IInv, SerialInv, [Next]_vars, ~overlap
             PROVE  Lifecycle!Next \/ UNCHANGED Lifecycle!vars
  OBVIOUS
<1> USE DEF InFlight, Goto, Made
<1>0. TypeOK /\ TextsExist
  BY DEF IInv
<1>00. filed' = filed => FiledTexts' = FiledTexts
  BY DEF FiledTexts
<1>1. ASSUME NEW r \in Requests, Draft(r) PROVE Lifecycle!Next
  <2>1. /\ notice.status = "ABSENT"
        /\ notice'.status = "DRAFT" /\ notice'.body \in Bodies
        /\ notice'.submissionId = NoRequest
    BY <1>1, FreezeNoticeAssumption DEF Draft, NoRow
  <2>2. notice.submissionId = NoRequest
    <3>1. \A q \in Requests : filed[q] = NoBody
      BY <1>0, <2>1 DEF SerialInv, TextsExist
    <3> QED BY <1>0, <3>1 DEF IInv, SentIsBacked, TypeOK, Row
  <2> QED BY <1>1, <1>00, <2>1, <2>2 DEF Draft, Lifecycle!Next, Lifecycle!Draft
<1>2. ASSUME NEW r \in Requests, NEW o \in Ops \ {"draft"}, Load(r, o)
      PROVE  UNCHANGED Lifecycle!vars
  BY <1>2, <1>00 DEF Load, Lifecycle!vars
<1>3. ASSUME NEW r \in Requests, WriteEdit(r) PROVE Lifecycle!Next
  <2>1. notice.status \in EditableStatuses
    BY <1>3 DEF WriteEdit, SerialInv, AfterLoad
  <2>2. /\ notice'.status = notice.status /\ notice'.submissionId = notice.submissionId
        /\ notice'.body \in Bodies
    BY <1>0, <1>3 DEF WriteEdit, TypeOK, Row, TextsExist
  <2> QED BY <1>3, <1>00, <2>1, <2>2
          DEF WriteEdit, EditableStatuses, Lifecycle!Next, Lifecycle!Edit
<1>4. ASSUME NEW r \in Requests, WriteSubmit(r) PROVE Lifecycle!Next
  <2>1. notice.status = "DRAFT"
    BY <1>4 DEF WriteSubmit, SerialInv, AfterLoad
  <2>2. /\ notice'.status = "PENDING_APPROVAL" /\ notice'.submissionId = notice.submissionId
        /\ notice'.body = notice.body
    BY <1>0, <1>4 DEF WriteSubmit, TypeOK, Row
  <2> QED BY <1>4, <1>00, <2>1, <2>2 DEF WriteSubmit, Lifecycle!Next, Lifecycle!SubmitForApproval
<1>5. ASSUME NEW r \in Requests, WriteApprove(r) PROVE Lifecycle!Next
  <2>1. notice.status = "PENDING_APPROVAL"
    BY <1>5 DEF WriteApprove, SerialInv, AfterLoad
  <2>2. /\ notice'.status = "APPROVED" /\ notice'.submissionId = notice.submissionId
        /\ notice'.body = notice.body
    BY <1>0, <1>5 DEF WriteApprove, TypeOK, Row
  <2> QED BY <1>5, <1>00, <2>1, <2>2 DEF WriteApprove, Lifecycle!Next, Lifecycle!Approve
<1>6. ASSUME NEW r \in Requests, SendFile(r) PROVE Lifecycle!Next
  <2>1. op[r] = "send" /\ seen[r] = notice /\ filed[r] = NoBody /\ notice.status = "APPROVED"
    BY <1>6 DEF SendFile, SerialInv, AfterLoad, IInv, SendKnows
  <2>2. notice.body \in Bodies
    BY <1>0, <2>1 DEF TextsExist
  <2>3. filed'[r] = notice.body /\ \A q \in Requests \ {r} : filed'[q] = filed[q]
    BY <1>0, <1>6, <2>1 DEF SendFile, TypeOK
  <2>4. FiledTexts' = FiledTexts \cup {<<r, notice.body>>}
    <3>1. notice.body # NoBody
      BY <2>2, FreezeNoticeAssumption
    <3> QED BY <2>1, <2>3, <3>1 DEF FiledTexts
  <2> QED BY <1>6, <2>1, <2>4 DEF SendFile, Lifecycle!Next, Lifecycle!File
<1>7. ASSUME NEW r \in Requests, WriteSent(r) PROVE Lifecycle!Next
  <2>1. op[r] = "send" /\ seen[r] = notice /\ filed[r] = notice.body /\ notice.status = "APPROVED"
    BY <1>7 DEF WriteSent, SerialInv, AfterLoad, IInv, SendKnows
  <2>2. notice.body \in Bodies
    BY <1>0, <2>1 DEF TextsExist
  <2>3. <<r, notice.body>> \in FiledTexts
    BY <2>1, <2>2, FreezeNoticeAssumption DEF FiledTexts
  <2>4. notice'.status = "SENT" /\ notice'.submissionId = r /\ notice'.body = notice.body
    BY <1>0, <1>7 DEF WriteSent, TypeOK, Row
  <2> QED BY <1>7, <1>00, <2>1, <2>3, <2>4 DEF WriteSent, Lifecycle!Next, Lifecycle!Complete
<1>8. ASSUME NEW r \in Requests,
             SendAttempt(r) \/ AuditDone(r) \/ AuditSkipped(r) \/ AuditFailed(r) \/ Fail(r)
      PROVE  UNCHANGED Lifecycle!vars
  BY <1>8, <1>00 DEF SendAttempt, AuditDone, AuditSkipped, AuditFailed, Fail, SendRefused,
                     UpdateFails, AuditFails, Lifecycle!vars
<1>9. CASE Crash \/ UNCHANGED vars
  BY <1>9, <1>00 DEF Crash, vars, Lifecycle!vars
<1> QED BY <1>1, <1>2, <1>3, <1>4, <1>5, <1>6, <1>7, <1>8, <1>9 DEF Next, Serve

\* The refinement: with one request at a time, whatever fails and wherever the process dies,
\* the row and the filings go through the documented life of a notice.
THEOREM FollowsLifecycle == Spec => ImplementsLifecycle
<1>1. Init => Lifecycle!Init
  BY DEF Init, NoRow, FiledTexts, Lifecycle!Init
<1>2. Init => SerialInv
  BY DEF Init, SerialInv, InFlight
<1> QED
  BY <1>1, <1>2, InitIInv, InductiveStep, SerialStep, LifecycleStep, PTL
     DEF Spec, ImplementsLifecycle

-----------------------------------------------------------------------------
(* The mule analysis, whatever its rules find: its list of shared wallets  *)
(* is right, and it fails only for a reason of its own. Two ways to meet   *)
(* count: two analyses that write the list of shared wallets at once, and  *)
(* two analyses of one case that use its projection at once.               *)

Fields == {"pc", "case", "seen", "todo", "group", "left", "clashed", "crossed", "met", "struck", "failed"}
Pcs == {"idle", "touch", "share", "flag", "watch", "drop", "project", "stream", "tidy", "rows"}

IsRun(r) ==
    /\ DOMAIN r = Fields
    /\ r.pc \in Pcs /\ (r.pc # "idle" => r.case \in Cases) /\ r.seen \subseteq Finds
    /\ r.clashed \in BOOLEAN /\ r.crossed \in BOOLEAN /\ r.struck \in BOOLEAN /\ r.failed \in BOOLEAN

AnalysisTypeOK ==
    /\ stored \subseteq Finds
    /\ shared \in [Keys -> SUBSET Cases] /\ owed \in [Keys -> SUBSET Cases]
    /\ catalog \in [Cases -> {NoGraph} \cup SUBSET Finds]
    /\ DOMAIN run = Officers /\ \A o \in Officers : IsRun(run[o])

\* The cases that have a hop of k.
Touching(k) == {CaseOf[f.trace] : f \in {g \in stored : k \in Ends(g)}}

\* What is listed has hops, and what was found is listed ...
ListedInv == \A k \in Keys :
    /\ shared[k] # {} => Cardinality(shared[k]) >= 2
    /\ shared[k] \subseteq Touching(k) /\ owed[k] \subseteq shared[k]

\* ... as is what an analysis is about to list: nothing was found since it read, ...
TodoInv == \A o \in Officers : At(o, "share") =>
    \A k \in DOMAIN run[o].todo :
        /\ k \in Keys /\ Cardinality(run[o].todo[k]) >= 2
        /\ run[o].todo[k] \subseteq Touching(k) /\ owed[k] \subseteq run[o].todo[k]

\* ... for analyses that write beside others are known to be crossed.
CrossedInv == \A o, p \in Officers : o # p /\ At(o, "share") /\ At(p, "share") => run[o].crossed

Using == {"project", "stream", "tidy"}

\* A projection is there when it is needed, and not there before it is made.
CatalogInv == \A o \in Officers : ~run[o].clashed =>
    /\ At(o, "project") /\ ~run[o].struck => catalog[run[o].case] = NoGraph
    /\ At(o, "stream") => catalog[run[o].case] # NoGraph

ClashedInv == \A o, p \in Officers :
    o # p /\ run[o].pc \in Using /\ run[p].pc \in Using /\ run[o].case = run[p].case => run[o].clashed

\* What runs before the projection has not failed.
Early == {"touch", "share", "flag", "watch", "drop"}
EarlyInv == \A o \in Officers : run[o].pc \in Early => ~run[o].failed

ShareInv == ListedInv /\ TodoInv /\ CrossedInv
GraphInv == CatalogInv /\ ClashedInv /\ EarlyInv /\ RerunIsSafe
AnalysisIInv == AnalysisTypeOK /\ ShareInv /\ GraphInv

-----------------------------------------------------------------------------
(* What a step does to the analyses                                        *)

\* A step of another officer changes at most what an analysis knows of its neighbours.
Same(p) ==
    /\ DOMAIN run'[p] = Fields
    /\ run'[p].pc = run[p].pc /\ run'[p].case = run[p].case /\ run'[p].seen = run[p].seen
    /\ run'[p].todo = run[p].todo /\ run'[p].struck = run[p].struck /\ run'[p].failed = run[p].failed
    /\ run'[p].left = run[p].left /\ run'[p].group = run[p].group
    /\ run'[p].crossed \in {run[p].crossed, TRUE} /\ run'[p].clashed \in {run[p].clashed, TRUE}
    /\ run'[p].met \in {run[p].met, TRUE}

OthersSame(o) == \A p \in Officers \ {o} : Same(p)

LEMMA NoRunIs ==
    /\ IsRun(NoRun) /\ NoRun.pc = "idle" /\ NoRun.seen = {} /\ NoRun.todo = <<>>
    /\ NoRun.failed = FALSE /\ NoRun.struck = FALSE /\ NoRun.clashed = FALSE /\ NoRun.crossed = FALSE
BY DEF NoRun, IsRun, Fields, Pcs

\* An analysis that is as it was is the same.
LEMMA UntouchedIsSame ==
    ASSUME AnalysisTypeOK, NEW p \in Officers, run'[p] = run[p]
    PROVE  Same(p)
BY DEF AnalysisTypeOK, IsRun, Same

LEMMA SameIsRun ==
    ASSUME AnalysisTypeOK, NEW p \in Officers, Same(p)
    PROVE  IsRun(run'[p])
<1>1. IsRun(run[p])
  BY DEF AnalysisTypeOK
<1> QED BY <1>1 DEF IsRun, Same

\* The hops of a case, and the addresses they touch, are those there are.
LEMMA HopsAreFinds ==
    ASSUME AnalysisTypeOK, NEW c
    PROVE  Hops(c) \subseteq stored /\ Hops(c) \subseteq Finds
BY DEF Hops, AnalysisTypeOK

\* An analysis begins with the hops of its case, if there are any.
LEMMA BeginEffect ==
    ASSUME AnalysisTypeOK, NEW o \in Officers, NEW c \in Asked, Begin(o, c)
    PROVE  /\ DOMAIN run' = Officers /\ OthersSame(o) /\ IsRun(run'[o])
           /\ run'[o].pc \in {"idle", "touch"} /\ run'[o].failed = FALSE /\ run'[o].clashed = FALSE
           /\ UNCHANGED <<stored, shared, owed, catalog>>
<1> DEFINE beside == {p \in Officers \ {o} : run[p].case = c /\ ~At(p, "idle")}
           some == Hops(c) # {}
           mine == [NoRun EXCEPT !.pc = "touch", !.case = c, !.seen = Hops(c), !.met = beside # {}]
<1>1. /\ run' = [p \in Officers |-> IF p = o THEN IF Hops(c) = {} THEN NoRun ELSE mine
                                 ELSE IF p \in beside /\ Hops(c) # {} THEN [run[p] EXCEPT !.met = TRUE]
                                 ELSE run[p]]
      /\ UNCHANGED <<stored, shared, owed, catalog>>
  BY DEF Begin
<1>2. c \in Cases /\ Hops(c) \subseteq Finds
  BY MuleAnalysisAssumption, HopsAreFinds
<1>3. mine.pc = "touch" /\ mine.failed = FALSE /\ mine.clashed = FALSE /\ IsRun(mine)
  <2> HIDE DEF beside
  <2> QED BY <1>2, NoRunIs DEF IsRun, Fields, Pcs
<1> HIDE DEF mine, beside
<1>4. ASSUME NEW p \in Officers \ {o} PROVE Same(p)
  <2>1. run'[p] = run[p] \/ run'[p] = [run[p] EXCEPT !.met = TRUE]
    BY <1>1
  <2>2. IsRun(run[p])
    BY DEF AnalysisTypeOK
  <2> QED BY <2>1, <2>2 DEF Same, IsRun, Fields
<1>5. run'[o] = NoRun \/ run'[o] = mine
  BY <1>1
<1>6. IsRun(run'[o]) /\ run'[o].pc \in {"idle", "touch"} /\ run'[o].failed = FALSE /\ run'[o].clashed = FALSE
  BY <1>3, <1>5, NoRunIs
<1> QED BY <1>1, <1>4, <1>6 DEF OthersSame

\* What touches its addresses is read; it is crossed if another analysis is about to write.
LEMMA ReadEffect ==
    ASSUME AnalysisTypeOK, NEW o \in Officers, ReadTouches(o)
    PROVE  /\ DOMAIN run' = Officers /\ OthersSame(o) /\ IsRun(run'[o])
           /\ run'[o].pc = "share" /\ run'[o].failed = run[o].failed /\ run'[o].struck = run[o].struck
           /\ run'[o].clashed = run[o].clashed
           /\ \A k \in DOMAIN run'[o].todo :
                 k \in Keys /\ run'[o].todo[k] = Touching(k) /\ Cardinality(Touching(k)) >= 2
           /\ \A p \in Officers \ {o} : run[p].pc = "share" => run'[p].crossed /\ run'[o].crossed
           /\ UNCHANGED <<stored, shared, owed, catalog>>
<1> DEFINE beside == {p \in Officers \ {o} : At(p, "share")}
           mine == [run[o] EXCEPT !.pc = "share", !.todo = Candidates(run[o].seen), !.crossed = beside # {}]
<1>1. /\ run' = [p \in Officers |-> IF p = o THEN mine
                                 ELSE IF p \in beside THEN [run[p] EXCEPT !.crossed = TRUE]
                                 ELSE run[p]]
      /\ UNCHANGED <<stored, shared, owed, catalog>>
      /\ run[o].pc = "touch"
  BY DEF ReadTouches, tables, At
<1>2. IsRun(run[o]) /\ run[o].case \in Cases
  BY <1>1 DEF AnalysisTypeOK, IsRun
<1>3. /\ IsRun(mine) /\ mine.pc = "share" /\ mine.failed = run[o].failed /\ mine.struck = run[o].struck
      /\ mine.clashed = run[o].clashed /\ mine.todo = Candidates(run[o].seen)
      /\ mine.crossed = (beside # {})
  <2> HIDE DEF beside
  <2> QED BY <1>2 DEF IsRun, Fields, Pcs
<1> HIDE DEF mine
<1>4. ASSUME NEW p \in Officers \ {o}
      PROVE  /\ Same(p) /\ (run[p].pc = "share" => run'[p].crossed /\ p \in beside)
  <2>1. IsRun(run[p])
    BY DEF AnalysisTypeOK
  <2>2. CASE p \in beside
    <3>1. run'[p] = [run[p] EXCEPT !.crossed = TRUE]
      BY <1>1, <2>2
    <3> HIDE DEF beside
    <3> QED BY <2>1, <2>2, <3>1 DEF Same, IsRun, Fields
  <2>3. CASE p \notin beside
    <3>1. run'[p] = run[p] /\ run[p].pc # "share"
      BY <1>1, <2>3 DEF At
    <3> QED BY <3>1, UntouchedIsSame
  <2> QED BY <2>2, <2>3
<1>5. run'[o] = mine
  BY <1>1
<1>6. ASSUME NEW k \in DOMAIN Candidates(run[o].seen)
      PROVE  k \in Keys /\ Candidates(run[o].seen)[k] = Touching(k) /\ Cardinality(Touching(k)) >= 2
  <2>1. Candidates(run[o].seen) =
          [l \in {x \in KeysOf(run[o].seen) : Cardinality(Touching(x)) >= 2} |-> Touching(l)]
    BY DEF Candidates, Touching
  <2>2. k \in KeysOf(run[o].seen) /\ Cardinality(Touching(k)) >= 2
    BY <1>6, <2>1, Zenon
  <2>3. k \in Keys
    BY <1>2, <2>2 DEF KeysOf, Keys, IsRun
  <2> HIDE DEF Touching
  <2> QED BY <1>6, <2>1, <2>2, <2>3
<1>7. ASSUME NEW p \in Officers \ {o}, run[p].pc = "share" PROVE run'[o].crossed
  <2>1. p \in beside
    BY <1>4, <1>7
  <2> QED BY <1>3, <1>5, <2>1
<1> QED BY <1>1, <1>3, <1>4, <1>5, <1>6, <1>7 DEF OthersSame

\* One candidate is written, or there are none left.
LEMMA ShareEffect ==
    ASSUME AnalysisTypeOK, TodoInv, NEW o \in Officers, Share(o)
    PROVE  /\ DOMAIN run' = Officers /\ OthersSame(o) /\ IsRun(run'[o])
           /\ \A p \in Officers \ {o} : run'[p] = run[p]
           /\ run'[o].failed = run[o].failed /\ run'[o].struck = run[o].struck
           /\ run'[o].clashed = run[o].clashed
           /\ UNCHANGED <<stored, catalog>>
           /\ \/ run'[o].pc = "flag" /\ UNCHANGED <<shared, owed>>
              \/ \E k \in DOMAIN run[o].todo :
                    /\ run'[o].pc = "share" /\ run'[o].crossed = run[o].crossed
                    /\ run'[o].todo = [l \in DOMAIN run[o].todo \ {k} |-> run[o].todo[l]]
                    /\ shared' = [shared EXCEPT ![k] = run[o].todo[k]]
                    /\ IF run[o].crossed THEN owed' = owed
                       ELSE owed' = [owed EXCEPT ![k] = owed[k] \cup run[o].todo[k]]
<1>1. IsRun(run[o]) /\ run[o].case \in Cases /\ run[o].pc = "share" /\ DOMAIN run = Officers
  BY DEF AnalysisTypeOK, IsRun, Share, At
<1>2. UNCHANGED <<stored, catalog>>
  BY DEF Share
<1>3. CASE /\ run[o].todo = <<>>
           /\ run' = [run EXCEPT ![o].pc = "flag", ![o].crossed = FALSE]
           /\ UNCHANGED <<shared, owed>>
  <2>1. run' = [run EXCEPT ![o] = [[run[o] EXCEPT !.pc = "flag"] EXCEPT !.crossed = FALSE]]
    BY <1>1, <1>3
  <2>2. /\ DOMAIN run' = Officers /\ \A p \in Officers \ {o} : run'[p] = run[p]
        /\ run'[o] = [[run[o] EXCEPT !.pc = "flag"] EXCEPT !.crossed = FALSE]
    BY <1>1, <2>1
  <2>3. /\ IsRun(run'[o]) /\ run'[o].failed = run[o].failed /\ run'[o].struck = run[o].struck
        /\ run'[o].clashed = run[o].clashed /\ run'[o].pc = "flag"
    BY <1>1, <2>2 DEF IsRun, Fields, Pcs
  <2> QED BY <1>2, <1>3, <2>2, <2>3, UntouchedIsSame DEF OthersSame
<1>4. ASSUME NEW k \in DOMAIN run[o].todo,
             shared' = [shared EXCEPT ![k] = run[o].todo[k]],
             owed' = IF run[o].crossed THEN owed ELSE [owed EXCEPT ![k] = @ \cup run[o].todo[k]],
             run' = [run EXCEPT ![o].todo = [l \in DOMAIN @ \ {k} |-> @[l]]]
      PROVE  /\ OthersSame(o) /\ IsRun(run'[o]) /\ DOMAIN run' = Officers
             /\ \A p \in Officers \ {o} : run'[p] = run[p]
             /\ run'[o].failed = run[o].failed /\ run'[o].struck = run[o].struck
             /\ run'[o].clashed = run[o].clashed
             /\ run'[o].pc = "share" /\ run'[o].crossed = run[o].crossed
             /\ run'[o].todo = [l \in DOMAIN run[o].todo \ {k} |-> run[o].todo[l]]
             /\ IF run[o].crossed THEN owed' = owed
                ELSE owed' = [owed EXCEPT ![k] = owed[k] \cup run[o].todo[k]]
  <2> DEFINE rest == [l \in DOMAIN run[o].todo \ {k} |-> run[o].todo[l]]
  <2>1. run' = [run EXCEPT ![o] = [run[o] EXCEPT !.todo = rest]]
    BY <1>1, <1>4
  <2>2. k \in Keys /\ DOMAIN owed = Keys
    BY <1>1, <1>4 DEF TodoInv, At, AnalysisTypeOK
  <2> HIDE DEF rest
  <2>3. /\ DOMAIN run' = Officers /\ \A p \in Officers \ {o} : run'[p] = run[p]
        /\ run'[o] = [run[o] EXCEPT !.todo = rest]
    BY <1>1, <2>1
  <2>4. /\ IsRun(run'[o]) /\ run'[o].failed = run[o].failed /\ run'[o].struck = run[o].struck
        /\ run'[o].clashed = run[o].clashed /\ run'[o].pc = "share" /\ run'[o].crossed = run[o].crossed
        /\ run'[o].todo = rest
    BY <1>1, <2>3 DEF IsRun, Fields, Pcs
  <2>5. IF run[o].crossed THEN owed' = owed
        ELSE owed' = [owed EXCEPT ![k] = owed[k] \cup run[o].todo[k]]
    BY <1>4
  <2> QED BY <2>3, <2>4, <2>5, UntouchedIsSame DEF OthersSame, rest
<1>5. \/ /\ run[o].todo = <<>>
         /\ run' = [run EXCEPT ![o].pc = "flag", ![o].crossed = FALSE]
         /\ UNCHANGED <<shared, owed>>
      \/ \E k \in DOMAIN run[o].todo :
            /\ shared' = [shared EXCEPT ![k] = run[o].todo[k]]
            /\ owed' = IF run[o].crossed THEN owed ELSE [owed EXCEPT ![k] = @ \cup run[o].todo[k]]
            /\ run' = [run EXCEPT ![o].todo = [l \in DOMAIN @ \ {k} |-> @[l]]]
  BY DEF Share
<1>6. CASE \E k \in DOMAIN run[o].todo :
            /\ shared' = [shared EXCEPT ![k] = run[o].todo[k]]
            /\ owed' = IF run[o].crossed THEN owed ELSE [owed EXCEPT ![k] = @ \cup run[o].todo[k]]
            /\ run' = [run EXCEPT ![o].todo = [l \in DOMAIN @ \ {k} |-> @[l]]]
  <2>1. PICK k \in DOMAIN run[o].todo :
            /\ shared' = [shared EXCEPT ![k] = run[o].todo[k]]
            /\ owed' = IF run[o].crossed THEN owed ELSE [owed EXCEPT ![k] = @ \cup run[o].todo[k]]
            /\ run' = [run EXCEPT ![o].todo = [l \in DOMAIN @ \ {k} |-> @[l]]]
    BY <1>6
  <2> QED BY <1>2, <1>4, <2>1
<1> QED BY <1>3, <1>5, <1>6

\* The steps that touch neither the list nor the projection.
LEMMA QuietEffect ==
    ASSUME AnalysisTypeOK, NEW o \in Officers,
           \/ Flag(o) \/ Watch(o) \/ Upsert(o) \/ Answer(o)
           \/ CallFails(o) /\ run[o].pc \notin {"project", "stream"}
    PROVE  /\ DOMAIN run' = Officers /\ OthersSame(o) /\ IsRun(run'[o])
           /\ run'[o].pc \in {"idle", "watch", "drop", "rows"}
           /\ run'[o].pc \in Early => run[o].pc \in Early /\ run'[o].failed = run[o].failed
           /\ \/ run'[o].failed => run'[o].struck
              \/ /\ run'[o].failed = run[o].failed /\ run'[o].struck = run[o].struck
                 /\ run'[o].clashed = run[o].clashed
           /\ UNCHANGED <<stored, shared, owed, catalog>>
<1>1. IsRun(run[o]) /\ DOMAIN run = Officers
  BY DEF AnalysisTypeOK
<1>2. UNCHANGED <<stored, shared, owed, catalog>>
  BY DEF Flag, Watch, Upsert, Answer, CallFails, tables
<1> DEFINE lost == [[NoRun EXCEPT !.struck = TRUE] EXCEPT !.failed = TRUE]
<1>3. IsRun(lost) /\ lost.pc = "idle" /\ lost.struck = TRUE
  BY NoRunIs DEF IsRun, Fields, Pcs
<1>4. ASSUME NEW r, run' = [run EXCEPT ![o] = r], IsRun(r),
             r.pc \in {"idle", "watch", "drop", "rows"},
             r.pc \in Early => run[o].pc \in Early /\ r.failed = run[o].failed,
             \/ r.failed => r.struck
             \/ r.failed = run[o].failed /\ r.struck = run[o].struck /\ r.clashed = run[o].clashed
      PROVE  /\ DOMAIN run' = Officers /\ OthersSame(o) /\ IsRun(run'[o])
             /\ run'[o].pc \in {"idle", "watch", "drop", "rows"}
             /\ run'[o].pc \in Early => run[o].pc \in Early /\ run'[o].failed = run[o].failed
             /\ \/ run'[o].failed => run'[o].struck
                \/ /\ run'[o].failed = run[o].failed /\ run'[o].struck = run[o].struck
                   /\ run'[o].clashed = run[o].clashed
  <2>1. run'[o] = r /\ DOMAIN run' = Officers /\ \A p \in Officers \ {o} : run'[p] = run[p]
    BY <1>1, <1>4
  <2> QED BY <1>4, <2>1, UntouchedIsSame DEF OthersSame
<1>5. CASE run' = [run EXCEPT ![o] = lost]
  <2>1. "idle" \notin Early
    BY DEF Early
  <2> HIDE DEF lost
  <2> QED BY <1>2, <1>3, <1>4, <1>5, <2>1
<1>6. CASE run' = [run EXCEPT ![o] = NoRun]
  <2>1. "idle" \notin Early
    BY DEF Early
  <2> QED BY <1>2, <1>4, <1>6, <2>1, NoRunIs
<1>7. ASSUME NEW place \in {"watch", "drop"}, run' = [run EXCEPT ![o].pc = place], run[o].pc \in {"flag", "watch"}
      PROVE  /\ DOMAIN run' = Officers /\ OthersSame(o) /\ IsRun(run'[o])
             /\ run'[o].pc \in {"idle", "watch", "drop", "rows"}
             /\ run'[o].pc \in Early => run[o].pc \in Early /\ run'[o].failed = run[o].failed
             /\ \/ run'[o].failed => run'[o].struck
                \/ /\ run'[o].failed = run[o].failed /\ run'[o].struck = run[o].struck
                   /\ run'[o].clashed = run[o].clashed
  <2> DEFINE r == [run[o] EXCEPT !.pc = place]
  <2>1. run' = [run EXCEPT ![o] = r]
    BY <1>1, <1>7
  <2>2. /\ IsRun(r) /\ r.pc = place /\ r.failed = run[o].failed /\ r.struck = run[o].struck
        /\ r.clashed = run[o].clashed
    BY <1>1, <1>7 DEF IsRun, Fields, Pcs
  <2>3. run[o].pc \in Early
    BY <1>7 DEF Early
  <2> HIDE DEF r
  <2> QED BY <1>4, <1>7, <2>1, <2>2, <2>3
<1>8. CASE Flag(o)
  <2>1. run[o].pc = "flag" /\ (run' = [run EXCEPT ![o].pc = "watch"] \/ run' = [run EXCEPT ![o] = lost])
    BY <1>8 DEF Flag, At, Fails
  <2> HIDE DEF lost
  <2> QED BY <1>2, <1>5, <1>7, <2>1
<1>9. CASE Watch(o)
  <2>1. run[o].pc = "watch" /\ run' = [run EXCEPT ![o].pc = "drop"]
    BY <1>9 DEF Watch, At
  <2> QED BY <1>2, <1>7, <2>1
<1>10. CASE Upsert(o)
  <2>1. run[o].pc = "rows"
    BY <1>10 DEF Upsert, At
  <2>2. PICK k \in DOMAIN run[o].group : run' = [run EXCEPT ![o].group = [l \in DOMAIN @ \ {k} |-> @[l]]]
    BY <1>10 DEF Upsert
  <2> DEFINE rest == [l \in DOMAIN run[o].group \ {k} |-> run[o].group[l]]
             r == [run[o] EXCEPT !.group = rest]
  <2>3. run' = [run EXCEPT ![o] = r]
    BY <1>1, <2>2
  <2> HIDE DEF rest
  <2>4. /\ IsRun(r) /\ r.pc = "rows" /\ r.failed = run[o].failed /\ r.struck = run[o].struck
        /\ r.clashed = run[o].clashed
    BY <1>1, <2>1 DEF IsRun, Fields, Pcs
  <2>5. "rows" \notin Early
    BY DEF Early
  <2> HIDE DEF r
  <2> QED BY <1>2, <1>4, <2>3, <2>4, <2>5
<1>11. CASE Answer(o)
  BY <1>6, <1>11 DEF Answer
<1>12. CASE CallFails(o) /\ run[o].pc \notin {"project", "stream"}
  <2>1. run' = [run EXCEPT ![o] = lost]
    BY <1>12 DEF CallFails, Fails
  <2> HIDE DEF lost
  <2> QED BY <1>5, <2>1
<1> QED BY <1>8, <1>9, <1>10, <1>11, <1>12

\* The steps that make, use and drop the projection.
LEMMA DropEffect ==
    ASSUME AnalysisTypeOK, NEW o \in Officers, Drop(o)
    PROVE  /\ DOMAIN run' = Officers /\ OthersSame(o) /\ IsRun(run'[o])
           /\ run[o].pc = "drop" /\ run'[o].pc = "project" /\ run'[o].case = run[o].case
           /\ run'[o].failed = run[o].failed
           /\ \A p \in Officers \ {o} : run[p].case = run[o].case /\ run[p].pc \in Using =>
                 run'[p].clashed /\ run'[o].clashed
           /\ \/ catalog' = [catalog EXCEPT ![run[o].case] = NoGraph]
              \/ catalog' = catalog /\ run'[o].struck
           /\ UNCHANGED <<stored, shared, owed>>
<1> DEFINE clash == Clash(o) # {}
           mine == [[run[o] EXCEPT !.pc = "project"] EXCEPT !.clashed = clash]
           struck == [mine EXCEPT !.struck = TRUE]
           next == [p \in Officers |-> IF p = o THEN mine
                                      ELSE IF p \in Clash(o) THEN [run[p] EXCEPT !.clashed = TRUE] ELSE run[p]]
<1>1. IsRun(run[o]) /\ run[o].pc = "drop"
  BY DEF AnalysisTypeOK, Drop, At
<1>2. /\ IsRun(mine) /\ mine.pc = "project" /\ mine.case = run[o].case /\ mine.failed = run[o].failed
      /\ mine.clashed = clash
      /\ IsRun(struck) /\ struck.pc = "project" /\ struck.case = run[o].case /\ struck.failed = run[o].failed
      /\ struck.clashed = clash /\ struck.struck = TRUE
  <2> HIDE DEF clash
  <2>1. clash \in BOOLEAN
    BY DEF clash
  <2> QED BY <1>1, <2>1 DEF IsRun, Fields, Pcs
<1>3. InProjection(o) = next
  BY DEF InProjection
<1>4. UNCHANGED <<stored, shared, owed>>
  BY DEF Drop, tables
<1>5. \/ run' = next /\ catalog' = [catalog EXCEPT ![run[o].case] = NoGraph]
      \/ run' = [next EXCEPT ![o].struck = TRUE] /\ catalog' = catalog
  BY <1>3 DEF Drop
<1> HIDE DEF mine
<1>6. /\ DOMAIN run' = Officers
      /\ \/ run'[o] = mine /\ catalog' = [catalog EXCEPT ![run[o].case] = NoGraph]
         \/ run'[o] = struck /\ catalog' = catalog
  BY <1>5
<1>7. \A p \in Officers \ {o} :
         run'[p] = IF p \in Clash(o) THEN [run[p] EXCEPT !.clashed = TRUE] ELSE run[p]
  BY <1>5
<1>8. \A p \in Officers \ {o} : p \in Clash(o) <=> run[p].case = run[o].case /\ run[p].pc \in Using
  BY DEF Clash, Others, Using
<1>9. ASSUME NEW p \in Officers \ {o} PROVE Same(p) /\ (p \in Clash(o) => run'[p].clashed)
  <2>1. IsRun(run[p])
    BY DEF AnalysisTypeOK
  <2>2. CASE p \in Clash(o)
    <3>1. run'[p] = [run[p] EXCEPT !.clashed = TRUE]
      BY <1>7, <2>2
    <3> QED BY <2>1, <3>1 DEF Same, IsRun, Fields
  <2>3. CASE p \notin Clash(o)
    BY <1>7, <2>3, UntouchedIsSame
  <2> QED BY <2>2, <2>3
<1>10. ASSUME NEW p \in Officers \ {o}, p \in Clash(o) PROVE run'[o].clashed
  <2>1. clash
    BY <1>10
  <2> HIDE DEF clash, struck
  <2> QED BY <1>2, <1>6, <2>1
<1> HIDE DEF clash, struck
<1> QED BY <1>1, <1>2, <1>4, <1>6, <1>8, <1>9, <1>10 DEF OthersSame

LEMMA ProjectEffect ==
    ASSUME AnalysisTypeOK, NEW o \in Officers, Project(o)
    PROVE  /\ DOMAIN run' = Officers /\ OthersSame(o) /\ IsRun(run'[o])
           /\ \A p \in Officers \ {o} : run'[p] = run[p]
           /\ run[o].pc = "project" /\ run'[o].case = run[o].case
           /\ run'[o].clashed = run[o].clashed /\ run'[o].struck = run[o].struck
           /\ \/ /\ run'[o].pc = "stream" /\ run'[o].failed = run[o].failed
                 /\ \E graph \in SUBSET Finds : catalog' = [catalog EXCEPT ![run[o].case] = graph]
              \/ /\ run'[o].pc = "tidy" /\ run'[o].failed = TRUE
                 /\ catalog[run[o].case] # NoGraph /\ catalog' = catalog
           /\ UNCHANGED <<stored, shared, owed>>
<1> DEFINE graph == Projected({f.tx : f \in run[o].seen})
           good == [[run[o] EXCEPT !.pc = "stream"] EXCEPT !.left = 4]
           bad == [[run[o] EXCEPT !.pc = "tidy"] EXCEPT !.failed = TRUE]
<1>1. IsRun(run[o]) /\ run[o].pc = "project" /\ DOMAIN run = Officers
  BY DEF AnalysisTypeOK, Project, At
<1>2. graph \in SUBSET Finds
  BY DEF Projected, AnalysisTypeOK
<1>3. UNCHANGED <<stored, shared, owed>>
  BY DEF Project, tables
<1> HIDE DEF graph
<1>4. CASE catalog[run[o].case] = NoGraph
  <2>1. /\ catalog' = [catalog EXCEPT ![run[o].case] = graph]
        /\ run' = [run EXCEPT ![o].pc = "stream", ![o].left = 4]
    BY <1>4 DEF Project, graph
  <2>2. run' = [run EXCEPT ![o] = good]
    BY <1>1, <2>1
  <2>3. /\ IsRun(good) /\ good.pc = "stream" /\ good.case = run[o].case /\ good.failed = run[o].failed
        /\ good.clashed = run[o].clashed /\ good.struck = run[o].struck
    BY <1>1 DEF IsRun, Fields, Pcs
  <2> HIDE DEF good
  <2>4. run'[o] = good /\ DOMAIN run' = Officers /\ \A p \in Officers \ {o} : run'[p] = run[p]
    BY <1>1, <2>2
  <2> QED BY <1>1, <1>2, <1>3, <2>1, <2>3, <2>4, UntouchedIsSame DEF OthersSame
<1>5. CASE catalog[run[o].case] # NoGraph
  <2>1. catalog' = catalog /\ run' = [run EXCEPT ![o].pc = "tidy", ![o].failed = TRUE]
    BY <1>5 DEF Project
  <2>2. run' = [run EXCEPT ![o] = bad]
    BY <1>1, <2>1
  <2>3. /\ IsRun(bad) /\ bad.pc = "tidy" /\ bad.case = run[o].case /\ bad.failed = TRUE
        /\ bad.clashed = run[o].clashed /\ bad.struck = run[o].struck
    BY <1>1 DEF IsRun, Fields, Pcs
  <2> HIDE DEF bad
  <2>4. run'[o] = bad /\ DOMAIN run' = Officers /\ \A p \in Officers \ {o} : run'[p] = run[p]
    BY <1>1, <2>2
  <2> QED BY <1>1, <1>3, <1>5, <2>1, <2>3, <2>4, UntouchedIsSame DEF OthersSame
<1> QED BY <1>4, <1>5

LEMMA StreamEffect ==
    ASSUME AnalysisTypeOK, NEW o \in Officers, Stream(o)
    PROVE  /\ DOMAIN run' = Officers /\ OthersSame(o) /\ IsRun(run'[o])
           /\ \A p \in Officers \ {o} : run'[p] = run[p]
           /\ run[o].pc = "stream" /\ run'[o].case = run[o].case /\ run'[o].pc \in {"stream", "tidy"}
           /\ run'[o].clashed = run[o].clashed /\ run'[o].struck = run[o].struck
           /\ run'[o].failed = run[o].failed \/ catalog[run[o].case] = NoGraph
           /\ UNCHANGED <<stored, shared, owed, catalog>>
<1> DEFINE graph == catalog[run[o].case]
           place == IF run[o].left = 1 THEN "tidy" ELSE "stream"
           on == [[run[o] EXCEPT !.left = run[o].left - 1] EXCEPT !.pc = place]
           first == [[on EXCEPT !.seen = graph] EXCEPT !.group = Groups(graph)]
           bad == [[[run[o] EXCEPT !.pc = "tidy"] EXCEPT !.left = 0] EXCEPT !.failed = TRUE]
           r == IF graph = NoGraph THEN bad ELSE IF run[o].left = 4 THEN first ELSE on
<1>1. IsRun(run[o]) /\ run[o].pc = "stream" /\ DOMAIN run = Officers /\ run[o].case \in Cases
  BY DEF AnalysisTypeOK, Stream, At, IsRun
<1>2. UNCHANGED <<stored, shared, owed, catalog>>
  BY DEF Stream, tables
<1>3. run' = [run EXCEPT ![o] = r]
  BY DEF Stream
<1>4. graph = NoGraph \/ graph \subseteq Finds
  BY <1>1 DEF AnalysisTypeOK
<1>5. place \in {"stream", "tidy"}
  OBVIOUS
<1> HIDE DEF graph, place
<1>6. /\ IsRun(on) /\ on.pc = place /\ on.case = run[o].case /\ on.failed = run[o].failed
      /\ on.clashed = run[o].clashed /\ on.struck = run[o].struck
  BY <1>1, <1>5 DEF IsRun, Fields, Pcs
<1>7. /\ IsRun(bad) /\ bad.pc = "tidy" /\ bad.case = run[o].case
      /\ bad.clashed = run[o].clashed /\ bad.struck = run[o].struck
  BY <1>1 DEF IsRun, Fields, Pcs
<1> HIDE DEF on, bad
<1>8. ASSUME graph # NoGraph
      PROVE  /\ IsRun(first) /\ first.pc = place /\ first.case = run[o].case /\ first.failed = run[o].failed
             /\ first.clashed = run[o].clashed /\ first.struck = run[o].struck
  BY <1>4, <1>6, <1>8 DEF IsRun, Fields, Pcs
<1> HIDE DEF first
<1>9. /\ IsRun(r) /\ r.case = run[o].case /\ r.pc \in {"stream", "tidy"}
      /\ r.clashed = run[o].clashed /\ r.struck = run[o].struck
      /\ r.failed = run[o].failed \/ graph = NoGraph
  BY <1>5, <1>6, <1>7, <1>8
<1> HIDE DEF r
<1>10. run'[o] = r /\ DOMAIN run' = Officers /\ \A p \in Officers \ {o} : run'[p] = run[p]
  BY <1>1, <1>3
<1> QED BY <1>1, <1>2, <1>9, <1>10, UntouchedIsSame DEF OthersSame, graph

LEMMA TidyEffect ==
    ASSUME AnalysisTypeOK, NEW o \in Officers, Tidy(o)
    PROVE  /\ DOMAIN run' = Officers /\ OthersSame(o) /\ IsRun(run'[o])
           /\ \A p \in Officers \ {o} : run'[p] = run[p]
           /\ run[o].pc = "tidy" /\ run'[o].pc \in {"idle", "rows"}
           /\ run'[o].clashed = run[o].clashed /\ run'[o].struck = run[o].struck
           /\ run'[o].failed = run[o].failed
           /\ catalog' = catalog \/ catalog' = [catalog EXCEPT ![run[o].case] = NoGraph]
           /\ UNCHANGED <<stored, shared, owed>>
<1> DEFINE lost == [[[NoRun EXCEPT !.failed = TRUE] EXCEPT !.struck = run[o].struck]
                      EXCEPT !.clashed = run[o].clashed]
           kept == [run[o] EXCEPT !.pc = "rows"]
           r == IF run[o].failed THEN lost ELSE kept
<1>1. IsRun(run[o]) /\ run[o].pc = "tidy" /\ DOMAIN run = Officers
  BY DEF AnalysisTypeOK, Tidy, At
<1>2. /\ UNCHANGED <<stored, shared, owed>>
      /\ catalog' = catalog \/ catalog' = [catalog EXCEPT ![run[o].case] = NoGraph]
  BY DEF Tidy, tables
<1>3. run' = [run EXCEPT ![o] = r]
  BY <1>1 DEF Tidy
<1>4. /\ IsRun(lost) /\ lost.pc = "idle" /\ lost.failed = TRUE
      /\ lost.clashed = run[o].clashed /\ lost.struck = run[o].struck
  BY <1>1, NoRunIs DEF IsRun, Fields, Pcs
<1>5. /\ IsRun(kept) /\ kept.pc = "rows" /\ kept.failed = run[o].failed
      /\ kept.clashed = run[o].clashed /\ kept.struck = run[o].struck
  BY <1>1 DEF IsRun, Fields, Pcs
<1> HIDE DEF lost, kept
<1>6. /\ IsRun(r) /\ r.pc \in {"idle", "rows"} /\ r.failed = run[o].failed
      /\ r.clashed = run[o].clashed /\ r.struck = run[o].struck
  BY <1>1, <1>4, <1>5 DEF IsRun
<1> HIDE DEF r
<1>7. run'[o] = r /\ DOMAIN run' = Officers /\ \A p \in Officers \ {o} : run'[p] = run[p]
  BY <1>1, <1>3
<1> QED BY <1>1, <1>2, <1>6, <1>7, UntouchedIsSame DEF OthersSame

LEMMA CallFailsEffect ==
    ASSUME AnalysisTypeOK, NEW o \in Officers, CallFails(o), run[o].pc \in {"project", "stream"}
    PROVE  /\ DOMAIN run' = Officers /\ OthersSame(o) /\ IsRun(run'[o])
           /\ \A p \in Officers \ {o} : run'[p] = run[p]
           /\ run'[o].pc = "tidy" /\ run'[o].case = run[o].case
           /\ run'[o].clashed = run[o].clashed /\ run'[o].struck = TRUE
           /\ UNCHANGED <<stored, shared, owed, catalog>>
<1> DEFINE r == [[[run[o] EXCEPT !.pc = "tidy"] EXCEPT !.struck = TRUE] EXCEPT !.failed = TRUE]
<1>1. IsRun(run[o]) /\ DOMAIN run = Officers
  BY DEF AnalysisTypeOK
<1>2. /\ UNCHANGED <<stored, shared, owed, catalog>>
      /\ run' = [run EXCEPT ![o].pc = "tidy", ![o].struck = TRUE, ![o].failed = TRUE]
  BY DEF CallFails, tables
<1>3. run' = [run EXCEPT ![o] = r]
  BY <1>1, <1>2
<1>4. IsRun(r) /\ r.pc = "tidy" /\ r.case = run[o].case /\ r.clashed = run[o].clashed /\ r.struck = TRUE
  BY <1>1 DEF IsRun, Fields, Pcs
<1> HIDE DEF r
<1>5. run'[o] = r /\ DOMAIN run' = Officers /\ \A p \in Officers \ {o} : run'[p] = run[p]
  BY <1>1, <1>3
<1> QED BY <1>2, <1>4, <1>5, UntouchedIsSame DEF OthersSame

LEMMA StoreEffect ==
    ASSUME AnalysisTypeOK, Store
    PROVE  /\ stored \subseteq stored' /\ stored' \subseteq Finds
           /\ UNCHANGED <<run, shared, owed, catalog>>
BY DEF AnalysisTypeOK, Store

LEMMA ApiDiesEffect ==
    ASSUME ApiDies
    PROVE  /\ DOMAIN run' = Officers /\ \A o \in Officers : run'[o] = NoRun
           /\ UNCHANGED <<stored, shared, owed, catalog>>
BY DEF ApiDies, tables

\* The steps there are.
LEMMA StepKinds ==
    ASSUME [AnalysisNext]_analysisVars
    PROVE  \/ Store \/ ApiDies \/ UNCHANGED <<stored, run, shared, owed, catalog>>
           \/ \E o \in Officers :
                 \/ \E c \in Asked : Begin(o, c)
                 \/ ReadTouches(o) \/ Share(o) \/ Drop(o) \/ Project(o) \/ Stream(o) \/ Tidy(o)
                 \/ Flag(o) \/ Watch(o) \/ Upsert(o) \/ Answer(o)
                 \/ CallFails(o) /\ run[o].pc \notin {"project", "stream"}
                 \/ CallFails(o) /\ run[o].pc \in {"project", "stream"}
BY DEF AnalysisNext, Step, analysisVars

-----------------------------------------------------------------------------
(* Type correctness *)

LEMMA TouchingFacts ==
    ASSUME AnalysisTypeOK, stored \subseteq stored', NEW k
    PROVE  /\ Touching(k) \subseteq Cases /\ Touching(k) \subseteq Touching(k)'
<1>1. \A f \in stored : f.trace \in Traces
  BY MuleAnalysisAssumption DEF AnalysisTypeOK
<1>2. \A c : c \in Touching(k) <=> \E f \in stored : k \in Ends(f) /\ c = CaseOf[f.trace]
  BY DEF Touching
<1>3. \A c : c \in Touching(k)' <=> \E f \in stored' : k \in Ends(f) /\ c = CaseOf[f.trace]
  BY DEF Touching
<1> HIDE DEF Touching
<1> QED BY <1>1, <1>2, <1>3 DEF Cases

LEMMA AnalysisTypeStep ==
    ASSUME AnalysisTypeOK, TodoInv, [AnalysisNext]_analysisVars
    PROVE  AnalysisTypeOK'
<1> DEFINE Graphs == {NoGraph} \cup SUBSET Finds
<1>1. ASSUME DOMAIN run' = Officers, \A p \in Officers : IsRun(run'[p]),
             UNCHANGED <<stored, shared, owed>>, catalog' \in [Cases -> Graphs]
      PROVE  AnalysisTypeOK'
  BY <1>1 DEF AnalysisTypeOK
<1>0. ASSUME NEW c, NEW graph \in Graphs, catalog' = [catalog EXCEPT ![c] = graph]
      PROVE  catalog' \in [Cases -> Graphs]
  <2>1. catalog \in [Cases -> Graphs]
    BY DEF AnalysisTypeOK
  <2> HIDE DEF Graphs
  <2> QED BY <1>0, <2>1
<1>15. ASSUME catalog' = catalog PROVE catalog' \in [Cases -> Graphs]
  BY <1>15 DEF AnalysisTypeOK
<1>16. NoGraph \in Graphs /\ \A graph \in SUBSET Finds : graph \in Graphs
  OBVIOUS
<1> HIDE DEF Graphs
<1>2. CASE Store
  BY <1>2, StoreEffect DEF AnalysisTypeOK
<1>3. CASE ApiDies
  BY <1>1, <1>3, <1>15, ApiDiesEffect, NoRunIs
<1>4. CASE UNCHANGED <<stored, run, shared, owed, catalog>>
  BY <1>4 DEF AnalysisTypeOK
<1>5. ASSUME NEW o \in Officers, OthersSame(o), IsRun(run'[o]) PROVE \A p \in Officers : IsRun(run'[p])
  BY <1>5, SameIsRun DEF OthersSame
<1>6. ASSUME NEW o \in Officers, NEW c \in Asked, Begin(o, c) PROVE AnalysisTypeOK'
  BY <1>1, <1>5, <1>15, <1>6, BeginEffect
<1>7. ASSUME NEW o \in Officers, ReadTouches(o) PROVE AnalysisTypeOK'
  BY <1>1, <1>5, <1>15, <1>7, ReadEffect
<1>8. ASSUME NEW o \in Officers, Share(o) PROVE AnalysisTypeOK'
  <2>1. /\ DOMAIN run' = Officers /\ OthersSame(o) /\ IsRun(run'[o]) /\ UNCHANGED <<stored, catalog>>
        /\ run[o].pc = "share"
    BY <1>8, ShareEffect DEF Share, At
  <2>2. \A p \in Officers : IsRun(run'[p])
    BY <1>5, <2>1
  <2>3. CASE UNCHANGED <<shared, owed>>
    BY <1>1, <1>15, <2>1, <2>2, <2>3
  <2>4. ASSUME NEW k \in DOMAIN run[o].todo, shared' = [shared EXCEPT ![k] = run[o].todo[k]],
               IF run[o].crossed THEN owed' = owed
               ELSE owed' = [owed EXCEPT ![k] = owed[k] \cup run[o].todo[k]]
        PROVE  AnalysisTypeOK'
    <3>1. k \in Keys /\ run[o].todo[k] \in SUBSET Cases
      BY <2>1, TouchingFacts DEF TodoInv, At
    <3>2. shared \in [Keys -> SUBSET Cases] /\ owed \in [Keys -> SUBSET Cases]
      BY DEF AnalysisTypeOK
    <3>3. owed[k] \cup run[o].todo[k] \in SUBSET Cases
      BY <3>1, <3>2
    <3>4. shared' \in [Keys -> SUBSET Cases]
      BY <2>4, <3>1, <3>2
    <3>5. owed' \in [Keys -> SUBSET Cases]
      BY <2>4, <3>2, <3>3
    <3> QED BY <2>1, <2>2, <3>4, <3>5 DEF AnalysisTypeOK
  <2> QED BY <1>8, <2>3, <2>4, ShareEffect
<1>9. ASSUME NEW o \in Officers, Drop(o) PROVE AnalysisTypeOK'
  <2>1. /\ DOMAIN run' = Officers /\ OthersSame(o) /\ IsRun(run'[o]) /\ UNCHANGED <<stored, shared, owed>>
        /\ catalog' = catalog \/ catalog' = [catalog EXCEPT ![run[o].case] = NoGraph]
    BY <1>9, DropEffect
  <2>2. catalog' \in [Cases -> Graphs]
    BY <1>0, <1>15, <1>16, <2>1
  <2> QED BY <1>1, <1>5, <2>1, <2>2
<1>10. ASSUME NEW o \in Officers, Project(o) PROVE AnalysisTypeOK'
  <2>1. /\ DOMAIN run' = Officers /\ OthersSame(o) /\ IsRun(run'[o]) /\ UNCHANGED <<stored, shared, owed>>
        /\ catalog' = catalog \/ \E graph \in SUBSET Finds : catalog' = [catalog EXCEPT ![run[o].case] = graph]
    BY <1>10, ProjectEffect
  <2>2. catalog' \in [Cases -> Graphs]
    BY <1>0, <1>15, <1>16, <2>1
  <2> QED BY <1>1, <1>5, <2>1, <2>2
<1>11. ASSUME NEW o \in Officers, Stream(o) PROVE AnalysisTypeOK'
  BY <1>1, <1>5, <1>15, <1>11, StreamEffect
<1>12. ASSUME NEW o \in Officers, Tidy(o) PROVE AnalysisTypeOK'
  <2>1. /\ DOMAIN run' = Officers /\ OthersSame(o) /\ IsRun(run'[o]) /\ UNCHANGED <<stored, shared, owed>>
        /\ catalog' = catalog \/ catalog' = [catalog EXCEPT ![run[o].case] = NoGraph]
    BY <1>12, TidyEffect
  <2>2. catalog' \in [Cases -> Graphs]
    BY <1>0, <1>15, <1>16, <2>1
  <2> QED BY <1>1, <1>5, <2>1, <2>2
<1>13. ASSUME NEW o \in Officers,
              \/ Flag(o) \/ Watch(o) \/ Upsert(o) \/ Answer(o)
              \/ CallFails(o) /\ run[o].pc \notin {"project", "stream"}
       PROVE  AnalysisTypeOK'
  BY <1>1, <1>5, <1>15, <1>13, QuietEffect
<1>14. ASSUME NEW o \in Officers, CallFails(o), run[o].pc \in {"project", "stream"} PROVE AnalysisTypeOK'
  BY <1>1, <1>5, <1>15, <1>14, CallFailsEffect
<1> QED BY <1>2, <1>3, <1>4, <1>6, <1>7, <1>8, <1>9, <1>10, <1>11, <1>12, <1>13, <1>14, StepKinds

-----------------------------------------------------------------------------
(* The list of shared wallets *)

\* Steps that write nothing to it, and begin to write nothing.
LEMMA ShareKept ==
    ASSUME AnalysisTypeOK, ShareInv, stored \subseteq stored', UNCHANGED <<shared, owed>>,
           \A p \in Officers : run'[p].pc = "share" => Same(p)
    PROVE  ShareInv'
<1>1. \A k : Touching(k) \subseteq Touching(k)'
  BY TouchingFacts
<1>2. ListedInv'
  BY <1>1 DEF ShareInv, ListedInv
<1>3. TodoInv'
  <2> SUFFICES ASSUME NEW p \in Officers, run'[p].pc = "share", NEW k \in DOMAIN run'[p].todo
               PROVE  /\ k \in Keys /\ Cardinality(run'[p].todo[k]) >= 2
                      /\ run'[p].todo[k] \subseteq Touching(k)' /\ owed'[k] \subseteq run'[p].todo[k]
    BY DEF TodoInv, At
  <2>1. run[p].pc = "share" /\ run'[p].todo = run[p].todo
    BY DEF Same
  <2> QED BY <1>1, <2>1 DEF ShareInv, TodoInv, At
<1>4. CrossedInv'
  <2> SUFFICES ASSUME NEW o \in Officers, NEW p \in Officers, o # p, run'[o].pc = "share", run'[p].pc = "share"
               PROVE  run'[o].crossed
    BY DEF CrossedInv, At
  <2>1. run[o].pc = "share" /\ run[p].pc = "share" /\ run'[o].crossed \in {run[o].crossed, TRUE}
    BY DEF Same
  <2> QED BY <2>1 DEF ShareInv, CrossedInv, At
<1> QED BY <1>2, <1>3, <1>4 DEF ShareInv

LEMMA ShareStep ==
    ASSUME AnalysisTypeOK, ShareInv, [AnalysisNext]_analysisVars
    PROVE  ShareInv'
<1>1. CASE Store
  <2>1. \A p \in Officers : Same(p)
    BY <1>1, StoreEffect, UntouchedIsSame
  <2> QED BY <1>1, <2>1, StoreEffect, ShareKept
<1>2. CASE ApiDies
  BY <1>2, ApiDiesEffect, NoRunIs, ShareKept
<1>3. CASE UNCHANGED <<stored, run, shared, owed, catalog>>
  BY <1>3, UntouchedIsSame, ShareKept
<1>4. ASSUME NEW o \in Officers, OthersSame(o), run'[o].pc # "share", UNCHANGED <<stored, shared, owed>>
      PROVE  ShareInv'
  BY <1>4, ShareKept DEF OthersSame
<1>5. ASSUME NEW o \in Officers, NEW c \in Asked, Begin(o, c) PROVE ShareInv'
  BY <1>4, <1>5, BeginEffect
<1>6. ASSUME NEW o \in Officers, ReadTouches(o) PROVE ShareInv'
  <2>1. /\ OthersSame(o) /\ run'[o].pc = "share" /\ UNCHANGED <<stored, shared, owed>>
        /\ \A k \in DOMAIN run'[o].todo :
              k \in Keys /\ run'[o].todo[k] = Touching(k) /\ Cardinality(Touching(k)) >= 2
        /\ \A p \in Officers \ {o} : run[p].pc = "share" => run'[p].crossed /\ run'[o].crossed
    BY <1>6, ReadEffect
  <2>2. \A k : Touching(k)' = Touching(k)
    BY <2>1 DEF Touching
  <2>3. ListedInv'
    BY <2>1, <2>2 DEF ShareInv, ListedInv
  <2>4. ASSUME NEW p \in Officers, run'[p].pc = "share", NEW k \in DOMAIN run'[p].todo
        PROVE  /\ k \in Keys /\ Cardinality(run'[p].todo[k]) >= 2
               /\ run'[p].todo[k] \subseteq Touching(k)' /\ owed'[k] \subseteq run'[p].todo[k]
    <3>1. CASE p = o
      <4>1. k \in Keys /\ run'[p].todo[k] = Touching(k) /\ Cardinality(Touching(k)) >= 2
        BY <2>1, <2>4, <3>1
      <4>2. owed[k] \subseteq Touching(k)
        BY <4>1 DEF ShareInv, ListedInv
      <4> QED BY <2>1, <2>2, <4>1, <4>2
    <3>2. CASE p # o
      <4>1. run[p].pc = "share" /\ run'[p].todo = run[p].todo
        BY <2>1, <2>4, <3>2 DEF OthersSame, Same
      <4> QED BY <2>1, <2>2, <2>4, <4>1 DEF ShareInv, TodoInv, At
    <3> QED BY <3>1, <3>2
  <2>5. ASSUME NEW p \in Officers, NEW q \in Officers, p # q, run'[p].pc = "share", run'[q].pc = "share"
        PROVE  run'[p].crossed
    <3>1. \A r \in Officers \ {o} : run'[r].pc = "share" =>
             run[r].pc = "share" /\ run'[r].crossed \in {run[r].crossed, TRUE}
      BY <2>1 DEF OthersSame, Same
    <3>2. CASE p = o \/ q = o
      BY <2>1, <2>5, <3>1, <3>2
    <3>3. CASE p # o /\ q # o
      BY <2>5, <3>1, <3>3 DEF ShareInv, CrossedInv, At
    <3> QED BY <3>2, <3>3
  <2> QED BY <2>3, <2>4, <2>5 DEF ShareInv, TodoInv, CrossedInv, At
<1>7. ASSUME NEW o \in Officers, Share(o) PROVE ShareInv'
  <2>1. /\ \A p \in Officers \ {o} : run'[p] = run[p]
        /\ OthersSame(o) /\ stored' = stored /\ run[o].pc = "share" /\ TodoInv
    BY <1>7, ShareEffect DEF ShareInv, Share, At
  <2>2. CASE run'[o].pc = "flag" /\ UNCHANGED <<shared, owed>>
    BY <1>4, <2>1, <2>2
  <2>3. ASSUME NEW k \in DOMAIN run[o].todo,
               run'[o].pc = "share", run'[o].crossed = run[o].crossed,
               run'[o].todo = [l \in DOMAIN run[o].todo \ {k} |-> run[o].todo[l]],
               shared' = [shared EXCEPT ![k] = run[o].todo[k]],
               IF run[o].crossed THEN owed' = owed
               ELSE owed' = [owed EXCEPT ![k] = owed[k] \cup run[o].todo[k]]
        PROVE  ShareInv'
    <3>1. \A l : Touching(l)' = Touching(l)
      BY <2>1 DEF Touching
    <3>2. /\ k \in Keys /\ Cardinality(run[o].todo[k]) >= 2
          /\ run[o].todo[k] \subseteq Touching(k) /\ owed[k] \subseteq run[o].todo[k]
      BY <2>1 DEF TodoInv, At
    <3>3. DOMAIN shared = Keys /\ DOMAIN owed = Keys
      BY DEF AnalysisTypeOK
    <3>4. \A l \in Keys : l # k => shared'[l] = shared[l] /\ owed'[l] = owed[l]
      BY <2>3, <3>3
    <3>5. shared'[k] = run[o].todo[k] /\ owed'[k] \subseteq run[o].todo[k]
      BY <2>3, <3>2, <3>3
    <3>6. ListedInv'
      BY <3>1, <3>2, <3>4, <3>5 DEF ShareInv, ListedInv
    <3>7. ASSUME NEW p \in Officers, run'[p].pc = "share", NEW l \in DOMAIN run'[p].todo
          PROVE  /\ l \in Keys /\ Cardinality(run'[p].todo[l]) >= 2
                 /\ run'[p].todo[l] \subseteq Touching(l)' /\ owed'[l] \subseteq run'[p].todo[l]
      <4>1. CASE p = o
        <5>1. l \in DOMAIN run[o].todo /\ l # k /\ run'[p].todo[l] = run[o].todo[l]
          BY <2>3, <3>7, <4>1
        <5> QED BY <2>1, <3>1, <3>4, <5>1 DEF TodoInv, At
      <4>2. CASE p # o
        <5>1. run'[p] = run[p]
          BY <2>1, <4>2
        <5>2. run[o].crossed
          BY <2>1, <3>7, <4>2, <5>1 DEF ShareInv, CrossedInv, At
        <5>3. owed' = owed
          BY <2>3, <5>2
        <5> QED BY <2>1, <3>1, <3>7, <5>1, <5>3 DEF TodoInv, At
      <4> QED BY <4>1, <4>2
    <3>8. ASSUME NEW p \in Officers, NEW q \in Officers, p # q, run'[p].pc = "share", run'[q].pc = "share"
          PROVE  run'[p].crossed
      <4>1. \A r \in Officers : run[r].pc = run'[r].pc /\ run'[r].crossed = run[r].crossed
        BY <2>1, <2>3
      <4> QED BY <3>8, <4>1 DEF ShareInv, CrossedInv, At
    <3> QED BY <3>6, <3>7, <3>8 DEF ShareInv, TodoInv, CrossedInv, At
  <2>4. \/ run'[o].pc = "flag" /\ UNCHANGED <<shared, owed>>
        \/ \E k \in DOMAIN run[o].todo :
              /\ run'[o].pc = "share" /\ run'[o].crossed = run[o].crossed
              /\ run'[o].todo = [l \in DOMAIN run[o].todo \ {k} |-> run[o].todo[l]]
              /\ shared' = [shared EXCEPT ![k] = run[o].todo[k]]
              /\ IF run[o].crossed THEN owed' = owed
                 ELSE owed' = [owed EXCEPT ![k] = owed[k] \cup run[o].todo[k]]
    BY <1>7, <2>1, ShareEffect
  <2> QED BY <2>2, <2>3, <2>4
<1>8. ASSUME NEW o \in Officers, Drop(o) \/ Project(o) \/ Stream(o) \/ Tidy(o) PROVE ShareInv'
  BY <1>4, <1>8, DropEffect, ProjectEffect, StreamEffect, TidyEffect
<1>9. ASSUME NEW o \in Officers,
             \/ Flag(o) \/ Watch(o) \/ Upsert(o) \/ Answer(o)
             \/ CallFails(o) /\ run[o].pc \notin {"project", "stream"}
      PROVE  ShareInv'
  BY <1>4, <1>9, QuietEffect
<1>10. ASSUME NEW o \in Officers, CallFails(o), run[o].pc \in {"project", "stream"} PROVE ShareInv'
  BY <1>4, <1>10, CallFailsEffect
<1> QED BY <1>1, <1>2, <1>3, <1>5, <1>6, <1>7, <1>8, <1>9, <1>10, StepKinds

-----------------------------------------------------------------------------
(* Running again *)

\* What one officer's step must respect.
LEMMA GraphKept ==
    ASSUME AnalysisTypeOK, GraphInv, NEW o \in Officers, OthersSame(o),
           \A p \in Officers \ {o} : run[p].pc \in Using /\ ~run'[p].clashed =>
              catalog'[run[p].case] = catalog[run[p].case],
           ~run'[o].clashed =>
              /\ run'[o].pc = "project" /\ ~run'[o].struck => catalog'[run'[o].case] = NoGraph
              /\ run'[o].pc = "stream" => catalog'[run'[o].case] # NoGraph,
           run'[o].pc \in Using =>
              \A p \in Officers \ {o} : run[p].pc \in Using /\ run[p].case = run'[o].case =>
                 run'[o].clashed /\ run'[p].clashed,
           run'[o].pc \in Early => ~run'[o].failed,
           run'[o].failed => run'[o].struck \/ run'[o].clashed
    PROVE  GraphInv'
<1>1. ASSUME NEW p \in Officers \ {o}
      PROVE  /\ run'[p].pc = run[p].pc /\ run'[p].case = run[p].case
             /\ run'[p].struck = run[p].struck /\ run'[p].failed = run[p].failed
             /\ run[p].clashed => run'[p].clashed
  BY DEF OthersSame, Same, AnalysisTypeOK, IsRun
<1>2. CatalogInv'
  <2> SUFFICES ASSUME NEW p \in Officers, ~run'[p].clashed
               PROVE  /\ run'[p].pc = "project" /\ ~run'[p].struck => catalog'[run'[p].case] = NoGraph
                      /\ run'[p].pc = "stream" => catalog'[run'[p].case] # NoGraph
    BY DEF CatalogInv, At
  <2>1. CASE p # o
    <3>1. ~run[p].clashed /\ run'[p].pc = run[p].pc /\ run'[p].case = run[p].case /\ run'[p].struck = run[p].struck
      BY <1>1, <2>1
    <3>2. /\ run[p].pc = "project" /\ ~run[p].struck => catalog[run[p].case] = NoGraph
          /\ run[p].pc = "stream" => catalog[run[p].case] # NoGraph
      BY <3>1 DEF GraphInv, CatalogInv, At
    <3>3. run[p].pc \in {"project", "stream"} => catalog'[run[p].case] = catalog[run[p].case]
      BY <2>1 DEF Using
    <3> QED BY <3>1, <3>2, <3>3
  <2> QED BY <2>1
<1>3. ClashedInv'
  <2> SUFFICES ASSUME NEW p \in Officers, NEW q \in Officers, p # q,
                      run'[p].pc \in Using, run'[q].pc \in Using, run'[p].case = run'[q].case
               PROVE  run'[p].clashed
    BY DEF ClashedInv
  <2>1. CASE p = o
    <3>1. run[q].pc \in Using /\ run[q].case = run'[o].case /\ q \in Officers \ {o}
      BY <1>1, <2>1
    <3> QED BY <2>1, <3>1
  <2>2. CASE q = o
    <3>1. run[p].pc \in Using /\ run[p].case = run'[o].case /\ p \in Officers \ {o}
      BY <1>1, <2>2
    <3> QED BY <2>2, <3>1
  <2>3. CASE p # o /\ q # o
    <3>1. /\ run[p].pc \in Using /\ run[q].pc \in Using /\ run[p].case = run[q].case
          /\ run[p].clashed => run'[p].clashed
      BY <1>1, <2>3
    <3> QED BY <3>1 DEF GraphInv, ClashedInv
  <2> QED BY <2>1, <2>2, <2>3
<1>4. EarlyInv'
  BY <1>1 DEF GraphInv, EarlyInv
<1>5. RerunIsSafe'
  BY <1>1 DEF GraphInv, RerunIsSafe
<1> QED BY <1>2, <1>3, <1>4, <1>5 DEF GraphInv

\* A step that is not about the projection, after which there is none in use.
LEMMA GraphIdle ==
    ASSUME AnalysisTypeOK, GraphInv, NEW o \in Officers, OthersSame(o), catalog' = catalog,
           run'[o].pc \notin Using, run'[o].pc \in Early => ~run'[o].failed,
           run'[o].failed => run'[o].struck \/ run'[o].clashed
    PROVE  GraphInv'
BY GraphKept DEF Using

\* Who uses the projection of a case alone has not clashed; who shares it has.
LEMMA SharingClashes ==
    ASSUME GraphInv, NEW o \in Officers, run[o].pc \in Using,
           NEW p \in Officers \ {o}, run[p].pc \in Using, run[p].case = run[o].case
    PROVE  run[o].clashed /\ run[p].clashed
BY DEF GraphInv, ClashedInv

LEMMA GraphStep ==
    ASSUME AnalysisTypeOK, TodoInv, GraphInv, [AnalysisNext]_analysisVars
    PROVE  GraphInv'
<1>1. CASE UNCHANGED <<run, catalog>>
  BY <1>1 DEF GraphInv, CatalogInv, ClashedInv, EarlyInv, RerunIsSafe, At
<1>2. CASE ApiDies
  <2>1. \A o \in Officers : run'[o].pc = "idle" /\ run'[o].failed = FALSE
    BY <1>2, ApiDiesEffect, NoRunIs
  <2> QED BY <2>1 DEF GraphInv, CatalogInv, ClashedInv, EarlyInv, RerunIsSafe, At, Using, Early
<1>3. ASSUME NEW o \in Officers
      PROVE  IsRun(run[o]) /\ DOMAIN catalog = Cases /\ (run[o].pc \in Using => run[o].case \in Cases)
  BY DEF AnalysisTypeOK, IsRun, Using
<1>4. ASSUME NEW o \in Officers, NEW c \in Asked, Begin(o, c) PROVE GraphInv'
  <2>1. run'[o].pc \notin Using
    BY <1>4, BeginEffect DEF Using
  <2> QED BY <1>4, <2>1, BeginEffect, GraphIdle
<1>5. ASSUME NEW o \in Officers, ReadTouches(o) PROVE GraphInv'
  <2>1. run'[o].pc \notin Using /\ run[o].pc \in Early
    BY <1>5, ReadEffect DEF Using, Early, ReadTouches, At
  <2>2. ~run[o].failed
    BY <2>1 DEF GraphInv, EarlyInv
  <2> QED BY <1>5, <2>1, <2>2, ReadEffect, GraphIdle
<1>6. ASSUME NEW o \in Officers, Share(o) PROVE GraphInv'
  <2>1. run'[o].pc \in {"share", "flag"} /\ run[o].pc = "share"
    BY <1>6, ShareEffect DEF Share, At
  <2>2. run'[o].pc \notin Using /\ run[o].pc \in Early
    BY <2>1 DEF Using, Early
  <2>3. ~run[o].failed
    BY <2>2 DEF GraphInv, EarlyInv
  <2>4. OthersSame(o) /\ catalog' = catalog /\ run'[o].failed = run[o].failed
    BY <1>6, ShareEffect
  <2> QED BY <2>2, <2>3, <2>4, GraphIdle
<1>7. ASSUME NEW o \in Officers, Drop(o) PROVE GraphInv'
  <2>1. /\ OthersSame(o) /\ run[o].pc = "drop" /\ run'[o].pc = "project" /\ run'[o].case = run[o].case
        /\ run'[o].failed = run[o].failed
        /\ \A p \in Officers \ {o} : run[p].case = run[o].case /\ run[p].pc \in Using =>
              run'[p].clashed /\ run'[o].clashed
        /\ \/ catalog' = [catalog EXCEPT ![run[o].case] = NoGraph]
           \/ catalog' = catalog /\ run'[o].struck
    BY <1>7, DropEffect
  <2>2. run[o].case \in Cases
    BY <1>3, <2>1 DEF IsRun
  <2>3. ~run[o].failed /\ "project" \notin Early
    BY <2>1 DEF GraphInv, EarlyInv, Early
  <2>4. \A c \in Cases : c # run[o].case => catalog'[c] = catalog[c]
    BY <1>3, <2>1, <2>2
  <2>5. ~run'[o].struck => catalog'[run[o].case] = NoGraph
    BY <1>3, <2>1, <2>2
  <2> QED BY <1>3, <2>1, <2>3, <2>4, <2>5, GraphKept
<1>8. ASSUME NEW o \in Officers, Project(o) PROVE GraphInv'
  <2>1. /\ OthersSame(o) /\ \A p \in Officers \ {o} : run'[p] = run[p]
        /\ run[o].pc = "project" /\ run'[o].case = run[o].case
        /\ run'[o].clashed = run[o].clashed /\ run'[o].struck = run[o].struck
    BY <1>8, ProjectEffect
  <2>2. run[o].case \in Cases /\ run[o].pc \in Using /\ "stream" \notin Early /\ "tidy" \notin Early
    BY <1>3, <2>1 DEF IsRun, Using, Early
  <2>3. \A p \in Officers \ {o} : run[p].pc \in Using /\ run[p].case = run[o].case =>
           run[o].clashed /\ run[p].clashed
    BY <2>2, SharingClashes
  <2>4. ASSUME run'[o].pc = "stream", run'[o].failed = run[o].failed,
               NEW graph \in SUBSET Finds, catalog' = [catalog EXCEPT ![run[o].case] = graph]
        PROVE  GraphInv'
    <3>1. catalog'[run[o].case] # NoGraph /\ \A c \in Cases : c # run[o].case => catalog'[c] = catalog[c]
      BY <1>3, <2>2, <2>4, MuleAnalysisAssumption
    <3>2. run[o].failed => run[o].struck \/ run[o].clashed
      BY DEF GraphInv, RerunIsSafe
    <3> QED BY <1>3, <2>1, <2>2, <2>3, <2>4, <3>1, <3>2, GraphKept
  <2>5. ASSUME run'[o].pc = "tidy", catalog[run[o].case] # NoGraph, catalog' = catalog
        PROVE  GraphInv'
    <3>1. run[o].struck \/ run[o].clashed
      BY <2>1, <2>5 DEF GraphInv, CatalogInv, At
    <3> QED BY <2>1, <2>2, <2>3, <2>5, <3>1, GraphKept
  <2> QED BY <1>8, <2>4, <2>5, ProjectEffect
<1>9. ASSUME NEW o \in Officers, Stream(o) PROVE GraphInv'
  <2>1. /\ OthersSame(o) /\ \A p \in Officers \ {o} : run'[p] = run[p]
        /\ run[o].pc = "stream" /\ run'[o].case = run[o].case /\ run'[o].pc \in {"stream", "tidy"}
        /\ run'[o].clashed = run[o].clashed /\ run'[o].struck = run[o].struck
        /\ run'[o].failed = run[o].failed \/ catalog[run[o].case] = NoGraph
        /\ catalog' = catalog
    BY <1>9, StreamEffect
  <2>2. run[o].pc \in Using /\ "stream" \notin Early /\ "tidy" \notin Early
    BY <2>1 DEF Using, Early
  <2>3. \A p \in Officers \ {o} : run[p].pc \in Using /\ run[p].case = run[o].case =>
           run[o].clashed /\ run[p].clashed
    BY <2>2, SharingClashes
  <2>4. ~run[o].clashed => catalog[run[o].case] # NoGraph
    BY <2>1 DEF GraphInv, CatalogInv, At
  <2>5. run[o].failed => run[o].struck \/ run[o].clashed
    BY DEF GraphInv, RerunIsSafe
  <2> QED BY <2>1, <2>2, <2>3, <2>4, <2>5, GraphKept
<1>10. ASSUME NEW o \in Officers, Tidy(o) PROVE GraphInv'
  <2>1. /\ OthersSame(o) /\ \A p \in Officers \ {o} : run'[p] = run[p]
        /\ run[o].pc = "tidy" /\ run'[o].pc \in {"idle", "rows"}
        /\ run'[o].clashed = run[o].clashed /\ run'[o].struck = run[o].struck
        /\ run'[o].failed = run[o].failed
        /\ catalog' = catalog \/ catalog' = [catalog EXCEPT ![run[o].case] = NoGraph]
    BY <1>10, TidyEffect
  <2>2. run[o].case \in Cases /\ run[o].pc \in Using /\ "idle" \notin Early /\ "rows" \notin Early
    BY <1>3, <2>1 DEF IsRun, Using, Early
  <2>3. \A p \in Officers \ {o} : run[p].pc \in Using /\ run[p].case = run[o].case =>
           run[o].clashed /\ run[p].clashed
    BY <2>2, SharingClashes
  <2>4. run[o].failed => run[o].struck \/ run[o].clashed
    BY DEF GraphInv, RerunIsSafe
  <2>5. \A c \in Cases : c # run[o].case => catalog'[c] = catalog[c]
    BY <1>3, <2>1, <2>2
  <2>6. run'[o].pc \notin Using
    BY <2>1 DEF Using
  <2> QED BY <1>3, <2>1, <2>2, <2>3, <2>4, <2>5, <2>6, GraphKept DEF Using
<1>11. ASSUME NEW o \in Officers,
              \/ Flag(o) \/ Watch(o) \/ Upsert(o) \/ Answer(o)
              \/ CallFails(o) /\ run[o].pc \notin {"project", "stream"}
       PROVE  GraphInv'
  <2>1. /\ OthersSame(o) /\ catalog' = catalog /\ run'[o].pc \in {"idle", "watch", "drop", "rows"}
        /\ run'[o].pc \in Early => run[o].pc \in Early /\ run'[o].failed = run[o].failed
        /\ \/ run'[o].failed => run'[o].struck
           \/ /\ run'[o].failed = run[o].failed /\ run'[o].struck = run[o].struck
              /\ run'[o].clashed = run[o].clashed
    BY <1>11, QuietEffect
  <2>2. run'[o].pc \notin Using
    BY <2>1 DEF Using
  <2>3. run'[o].pc \in Early => ~run'[o].failed
    BY <2>1 DEF GraphInv, EarlyInv
  <2>4. run'[o].failed => run'[o].struck \/ run'[o].clashed
    BY <2>1 DEF GraphInv, RerunIsSafe
  <2> QED BY <2>1, <2>2, <2>3, <2>4, GraphIdle
<1>12. ASSUME NEW o \in Officers, CallFails(o), run[o].pc \in {"project", "stream"} PROVE GraphInv'
  <2>1. /\ OthersSame(o) /\ \A p \in Officers \ {o} : run'[p] = run[p]
        /\ run'[o].pc = "tidy" /\ run'[o].case = run[o].case
        /\ run'[o].clashed = run[o].clashed /\ run'[o].struck = TRUE /\ catalog' = catalog
    BY <1>12, CallFailsEffect
  <2>2. run[o].pc \in Using /\ "tidy" \notin Early
    BY <1>12 DEF Using, Early
  <2>3. \A p \in Officers \ {o} : run[p].pc \in Using /\ run[p].case = run[o].case =>
           run[o].clashed /\ run[p].clashed
    BY <2>2, SharingClashes
  <2> QED BY <2>1, <2>2, <2>3, GraphKept
<1>13. Store => UNCHANGED <<run, catalog>>
  BY StoreEffect
<1> QED BY <1>1, <1>2, <1>4, <1>5, <1>6, <1>7, <1>8, <1>9, <1>10, <1>11, <1>12, <1>13, StepKinds

-----------------------------------------------------------------------------
LEMMA AnalysisInitIInv ==
    ASSUME AnalysisInit
    PROVE  AnalysisIInv
<1>1. /\ \A o \in Officers : run[o] = NoRun
      /\ DOMAIN run = Officers
  BY DEF AnalysisInit
<1>2. AnalysisTypeOK
  <2>1. stored \subseteq Finds
    BY DEF AnalysisInit
  <2>2. shared \in [Keys -> SUBSET Cases] /\ owed \in [Keys -> SUBSET Cases]
    BY DEF AnalysisInit
  <2>3. catalog \in [Cases -> {NoGraph} \cup SUBSET Finds]
    BY DEF AnalysisInit
  <2> QED BY <1>1, <2>1, <2>2, <2>3, NoRunIs DEF AnalysisTypeOK
<1>3. ShareInv
  <2>1. ListedInv
    BY DEF AnalysisInit, ListedInv
  <2>2. TodoInv /\ CrossedInv
    BY <1>1, NoRunIs DEF TodoInv, CrossedInv, At
  <2> QED BY <2>1, <2>2 DEF ShareInv
<1>4. GraphInv
  BY <1>1, NoRunIs DEF GraphInv, CatalogInv, ClashedInv, EarlyInv, RerunIsSafe, At, Using, Early
<1> QED BY <1>2, <1>3, <1>4 DEF AnalysisIInv

\* The inductive invariant holds throughout.
THEOREM AnalysisInvariant == AnalysisSpec => []AnalysisIInv
<1>1. AnalysisInit => AnalysisIInv
  BY AnalysisInitIInv
<1>2. AnalysisIInv /\ [AnalysisNext]_analysisVars => AnalysisIInv'
  BY AnalysisTypeStep, ShareStep, GraphStep DEF AnalysisIInv, ShareInv
<1> QED BY <1>1, <1>2, PTL DEF AnalysisSpec

\* The state stays what the code can produce: rows of hops that exist, lists of cases, and
\* analyses at a step of analyzeCaseGraph.
THEOREM AnalysisTypeCorrect == AnalysisSpec => []AnalysisTypeOK
<1>1. AnalysisIInv => AnalysisTypeOK
  BY DEF AnalysisIInv
<1> QED BY <1>1, AnalysisInvariant, PTL

\* Whatever hops are stored between the read of the touching hops and the writes, and
\* however many officers analyse the same case: the list of an address has two cases or
\* more, all with a hop of it, and every case an undisturbed analysis found.
THEOREM SharedFlagsAreRight == AnalysisSpec => []SharedFlagsHold
<1>1. AnalysisIInv => SharedFlagsHold
  <2> SUFFICES ASSUME AnalysisIInv, NEW k \in Keys
               PROVE  /\ shared[k] # {} =>
                            /\ Cardinality(shared[k]) >= 2
                            /\ \A c \in shared[k] : k \in KeysOf(Hops(c))
                      /\ owed[k] \subseteq shared[k]
    BY DEF SharedFlagsHold
  <2>1. /\ shared[k] # {} => Cardinality(shared[k]) >= 2
        /\ shared[k] \subseteq Touching(k) /\ owed[k] \subseteq shared[k]
    BY DEF AnalysisIInv, ShareInv, ListedInv
  <2>2. ASSUME NEW c \in Touching(k) PROVE k \in KeysOf(Hops(c))
    BY DEF Touching, KeysOf, Hops
  <2> QED BY <2>1, <2>2
<1> QED BY <1>1, AnalysisInvariant, PTL

\* However earlier analyses ended, and whatever projection they left in the catalogue: an
\* analysis fails only when one of its own calls did, or when another one of the case used
\* the projection of that name meanwhile.
THEOREM RerunsAreSafe == AnalysisSpec => []RerunIsSafe
<1>1. AnalysisIInv => RerunIsSafe
  BY DEF AnalysisIInv, GraphInv
<1> QED BY <1>1, AnalysisInvariant, PTL

-----------------------------------------------------------------------------
(* Repetition *)

Lt == OpToRel(<, Nat)

\* A nonempty set of numbers has a least one.
LEMMA LeastOf ==
    ASSUME NEW T, T \subseteq Nat, T # {}
    PROVE  \E m \in T : \A n \in T : m <= n
<1>1. IsWellFoundedOn(Lt, Nat)
  BY NatLessThanWellFounded DEF Lt
<1>2. PICK m \in T : \A n \in T : <<n, m>> \notin Lt
  BY <1>1, WFMin
<1>3. \A a, b \in Nat : a < b => <<a, b>> \in Lt
  BY DEF Lt, OpToRel
<1>4. \A n \in T : ~(n < m)
  BY <1>2, <1>3
<1> QED BY <1>2, <1>4

IsRound(g, last, base, G) == g[0] = base /\ \A n \in 1 .. last : g[n] = G[g[n - 1]]

\* What is repeated from the same value on is the same.
LEMMA SameRounds ==
    ASSUME NEW G, NEW base, NEW last \in Nat, NEW f, NEW g,
           IsRound(f, last, base, G), IsRound(g, last, base, G)
    PROVE  \A n \in 0 .. last : f[n] = g[n]
<1> DEFINE off == {n \in 0 .. last : f[n] # g[n]}
<1> SUFFICES ASSUME off # {} PROVE FALSE
  OBVIOUS
<1>1. PICK m \in off : \A n \in off : m <= n
  <2>1. off \subseteq Nat
    OBVIOUS
  <2> HIDE DEF off
  <2> QED BY <2>1, LeastOf
<1>2. m # 0
  BY <1>1 DEF IsRound
<1>3. m - 1 \in 0 .. last /\ m - 1 \notin off /\ m \in 1 .. last
  BY <1>1, <1>2
<1>4. f[m] = g[m]
  BY <1>3 DEF IsRound
<1> QED BY <1>1, <1>4

\* A step can be repeated as often as one likes.
LEMMA Rounds ==
    ASSUME NEW S, NEW G \in [S -> S], NEW base \in S, NEW last \in Nat
    PROVE  \E g \in [0 .. last -> S] : IsRound(g, last, base, G)
<1> DEFINE bad == {m \in Nat : \A g \in [0 .. m -> S] : ~IsRound(g, m, base, G)}
<1>1. CASE bad = {}
  BY <1>1
<1>2. CASE bad # {}
  <2>1. PICK m \in bad : \A n \in bad : m <= n
    <3>1. bad \subseteq Nat
      OBVIOUS
    <3> HIDE DEF bad
    <3> QED BY <1>2, <3>1, LeastOf
  <2>2. CASE m = 0
    <3> DEFINE h == [n \in 0 .. 0 |-> base]
    <3>1. h \in [0 .. 0 -> S] /\ IsRound(h, 0, base, G)
      BY DEF IsRound
    <3>2. m \in bad
      BY <2>1
    <3> HIDE DEF h
    <3> QED BY <2>2, <3>1, <3>2
  <2>3. CASE m # 0
    <3>1. m \in Nat /\ m - 1 \in Nat
      BY <2>1, <2>3
    <3>2. m - 1 \notin bad
      <4> HIDE DEF bad
      <4> QED BY <2>1, <3>1
    <3>3. PICK g \in [0 .. m - 1 -> S] : IsRound(g, m - 1, base, G)
      BY <3>1, <3>2
    <3> DEFINE h == [n \in 0 .. m |-> IF n = m THEN G[g[m - 1]] ELSE g[n]]
    <3>4. h \in [0 .. m -> S]
      BY <3>1
    <3>5. h[0] = base
      BY <2>3, <3>1, <3>3 DEF IsRound
    <3>6. ASSUME NEW n \in 1 .. m PROVE h[n] = G[h[n - 1]]
      <4>1. CASE n = m
        BY <3>1, <4>1
      <4>2. CASE n # m
        <5>1. n \in 1 .. m - 1 /\ n - 1 \in 0 .. m - 1 /\ n \in 0 .. m /\ n - 1 \in 0 .. m
          BY <3>1, <4>2
        <5>2. h[n] = g[n] /\ h[n - 1] = g[n - 1]
          BY <4>2, <5>1
        <5> QED BY <3>3, <5>1, <5>2 DEF IsRound
      <4> QED BY <4>1, <4>2
    <3>7. m \in bad
      BY <2>1
    <3> HIDE DEF h
    <3>8. IsRound(h, m, base, G)
      BY <3>5, <3>6 DEF IsRound
    <3> QED BY <3>4, <3>7, <3>8
  <2> QED BY <2>2, <2>3
<1> QED BY <1>1, <1>2

\* The values of all repetitions make one function.
LEMMA AllRounds ==
    ASSUME NEW S, NEW G \in [S -> S], NEW base \in S
    PROVE  \E g \in [Nat -> S] : \A last \in Nat : IsRound(g, last, base, G)
<1> DEFINE Upto(n) == CHOOSE g \in [0 .. n -> S] : IsRound(g, n, base, G)
           f == [n \in Nat |-> Upto(n)[n]]
<1>1. ASSUME NEW n \in Nat PROVE Upto(n) \in [0 .. n -> S] /\ IsRound(Upto(n), n, base, G)
  BY Rounds
<1> HIDE DEF Upto
<1>2. f \in [Nat -> S]
  BY <1>1
<1>3. f[0] = base
  BY <1>1 DEF IsRound
<1>4. ASSUME NEW n \in Nat, n # 0 PROVE f[n] = G[f[n - 1]]
  <2>1. n - 1 \in Nat /\ n - 1 \in 0 .. n - 1 /\ n \in 1 .. n
    BY <1>4
  <2>2. IsRound(Upto(n), n - 1, base, G)
    BY <1>1, <2>1 DEF IsRound
  <2>3. Upto(n)[n - 1] = Upto(n - 1)[n - 1]
    BY <1>1, <2>1, <2>2, SameRounds
  <2>4. Upto(n)[n] = G[Upto(n)[n - 1]]
    BY <1>1, <2>1 DEF IsRound
  <2> QED BY <2>1, <2>3, <2>4
<1> HIDE DEF f
<1>5. \A last \in Nat : IsRound(f, last, base, G)
  BY <1>3, <1>4 DEF IsRound
<1> QED BY <1>2, <1>5

-----------------------------------------------------------------------------
(* Distances in a graph *)

\* Where the edges lead from a set of addresses; the addresses there can be; and balls,
\* which hold the addresses that a walk of at most n edges leads to.
Onward(edges, near) == {e[2] : e \in {d \in edges : d[1] \in near}}
Reached(edges, source) == {source} \cup {e[2] : e \in edges}

AreBalls(B, edges, source) ==
    /\ B \in [Nat -> SUBSET Reached(edges, source)] /\ B[0] = {source}
    /\ \A n \in Nat : B[n + 1] = B[n] \cup Onward(edges, B[n])

LEMMA BallsExist ==
    ASSUME NEW edges, NEW source
    PROVE  \E B : AreBalls(B, edges, source)
<1> DEFINE V == Reached(edges, source)
           G == [near \in SUBSET V |-> near \cup Onward(edges, near)]
<1>1. \A near \in SUBSET V : Onward(edges, near) \subseteq V
  BY DEF Onward, Reached
<1>2. G \in [SUBSET V -> SUBSET V] /\ {source} \in SUBSET V
  BY <1>1 DEF Reached
<1> HIDE DEF G
<1>3. PICK B \in [Nat -> SUBSET V] : \A last \in Nat : IsRound(B, last, {source}, G)
  BY <1>2, AllRounds
<1>4. B[0] = {source}
  BY <1>3 DEF IsRound
<1>5. ASSUME NEW n \in Nat PROVE B[n + 1] = B[n] \cup Onward(edges, B[n])
  <2>1. B[n + 1] = G[B[n + 1 - 1]]
    BY <1>3 DEF IsRound
  <2>2. n + 1 - 1 = n /\ B[n] \in SUBSET V
    BY <1>3
  <2> QED BY <2>1, <2>2 DEF G
<1> QED BY <1>3, <1>4, <1>5 DEF AreBalls

\* Balls grow.
LEMMA BallsGrow ==
    ASSUME NEW edges, NEW source, NEW B, AreBalls(B, edges, source),
           NEW m \in Nat, NEW n \in Nat, m <= n
    PROVE  B[m] \subseteq B[n]
<1> DEFINE small == {k \in Nat : m <= k /\ ~(B[m] \subseteq B[k])}
<1> SUFFICES ASSUME small # {} PROVE FALSE
  OBVIOUS
<1>1. PICK k \in small : \A j \in small : k <= j
  <2>1. small \subseteq Nat
    OBVIOUS
  <2> HIDE DEF small
  <2> QED BY <2>1, LeastOf
<1>2. k # m /\ k - 1 \in Nat /\ m <= k - 1
  BY <1>1
<1>3. k - 1 \notin small
  BY <1>1, <1>2
<1>4. B[m] \subseteq B[k - 1]
  BY <1>2, <1>3
<1>5. B[(k - 1) + 1] = B[k - 1] \cup Onward(edges, B[k - 1])
  BY <1>2 DEF AreBalls
<1>6. B[m] \subseteq B[k]
  BY <1>1, <1>2, <1>4, <1>5
<1> QED BY <1>1, <1>6

\* Nothing is further away than a set that no edge leaves.
LEMMA BallsStay ==
    ASSUME NEW edges, NEW source, NEW B, AreBalls(B, edges, source),
           NEW near, source \in near, Onward(edges, near) \subseteq near, NEW n \in Nat
    PROVE  B[n] \subseteq near
<1> DEFINE out == {k \in Nat : ~(B[k] \subseteq near)}
<1> SUFFICES ASSUME out # {} PROVE FALSE
  OBVIOUS
<1>1. PICK k \in out : \A j \in out : k <= j
  <2>1. out \subseteq Nat
    OBVIOUS
  <2> HIDE DEF out
  <2> QED BY <2>1, LeastOf
<1>2. k # 0
  BY <1>1 DEF AreBalls
<1>3. k - 1 \in Nat /\ k - 1 \notin out
  BY <1>1, <1>2
<1>4. B[k - 1] \subseteq near
  BY <1>3
<1>5. B[(k - 1) + 1] = B[k - 1] \cup Onward(edges, B[k - 1])
  BY <1>3 DEF AreBalls
<1>6. Onward(edges, B[k - 1]) \subseteq Onward(edges, near)
  BY <1>4 DEF Onward
<1>7. B[k] \subseteq near
  BY <1>1, <1>3, <1>4, <1>5, <1>6
<1> QED BY <1>1, <1>7

\* An address has a distance at most: the first ball that holds it.
IsDistance(B, a, n) == n \in Nat /\ a \in B[n] /\ (n = 0 \/ a \notin B[n - 1])

LEMMA OneDistance ==
    ASSUME NEW edges, NEW source, NEW B, AreBalls(B, edges, source), NEW a, NEW m, NEW n,
           IsDistance(B, a, m), IsDistance(B, a, n)
    PROVE  m = n
<1>1. ASSUME NEW i \in Nat, NEW j \in Nat, i < j, a \in B[i] PROVE ~IsDistance(B, a, j)
  <2>1. j # 0 /\ j - 1 \in Nat /\ i <= j - 1
    BY <1>1
  <2>2. B[i] \subseteq B[j - 1]
    BY <2>1, BallsGrow
  <2> QED BY <1>1, <2>1, <2>2 DEF IsDistance
<1> QED BY <1>1 DEF IsDistance

-----------------------------------------------------------------------------
(* Breadth-first search *)

\* A set of addresses as a sequence.
LEMMA SeqOfSet ==
    ASSUME NEW T, IsFiniteSet(T)
    PROVE  /\ SetToSeq(T) \in Seq(T) /\ Len(SetToSeq(T)) = Cardinality(T)
           /\ \A a \in T : \E i \in 1 .. Len(SetToSeq(T)) : SetToSeq(T)[i] = a
<1> DEFINE n == Cardinality(T)
<1>1. n \in Nat /\ ExistsBijection(1 .. n, T)
  BY FS_CardinalityType
<1>2. PICK f \in [1 .. n -> T] : \A i, j \in 1 .. n : f[i] = f[j] => i = j
  BY <1>1 DEF ExistsBijection, Bijection, Injection, IsInjective
<1>3. SetToSeq(T) \in [1 .. n -> T] /\ \A i, j \in 1 .. n : SetToSeq(T)[i] = SetToSeq(T)[j] => i = j
  <2>1. IsInjective(f)
    BY <1>2 DEF IsInjective
  <2>2. SetToSeq(T) \in [1 .. n -> T] /\ IsInjective(SetToSeq(T))
    BY <2>1 DEF SetToSeq
  <2> QED BY <2>2 DEF IsInjective
<1> DEFINE s == SetToSeq(T)
<1>4. s \in Injection(1 .. n, T)
  BY <1>3 DEF Injection, IsInjective
<1>5. s \in Surjection(1 .. n, T)
  <2>1. Cardinality(1 .. n) = n
    BY <1>1, FS_Interval
  <2> QED BY <1>4, <2>1, FS_Injection
<1> HIDE DEF n
<1>6. s \in Seq(T) /\ Len(s) = n
  BY <1>1, <1>3
<1>7. \A a \in T : \E i \in 1 .. n : s[i] = a
  BY <1>5 DEF Surjection
<1> QED BY <1>6, <1>7 DEF n

\* What holds of the queue and the depths at every turn of the loop: depths are distances,
\* the queue is in their order, whatever is nearer than its head is known, what has left it
\* has no unknown neighbour, and no depth is skipped.
Depths(edges, source) == UNION {[known -> Nat] : known \in SUBSET Reached(edges, source)}

Queued(bfs, a) == \E i \in 1 .. Len(bfs.queue) : bfs.queue[i] = a

IsLoop(bfs, edges, source, B) ==
    /\ DOMAIN bfs = {"queue", "depth"}
    /\ bfs.queue \in Seq(DOMAIN bfs.depth) /\ bfs.depth \in Depths(edges, source)
    /\ source \in DOMAIN bfs.depth
    /\ \A i, j \in 1 .. Len(bfs.queue) : i <= j =>
          /\ bfs.depth[bfs.queue[i]] <= bfs.depth[bfs.queue[j]]
          /\ bfs.depth[bfs.queue[j]] <= bfs.depth[bfs.queue[i]] + 1
    /\ \A a \in DOMAIN bfs.depth : IsDistance(B, a, bfs.depth[a])
    /\ bfs.queue # <<>> => B[bfs.depth[bfs.queue[1]]] \subseteq DOMAIN bfs.depth
    /\ \A a \in DOMAIN bfs.depth : ~Queued(bfs, a) => Onward(edges, {a}) \subseteq DOMAIN bfs.depth
    /\ \A a \in DOMAIN bfs.depth : \A n \in 0 .. bfs.depth[a] : \E b \in DOMAIN bfs.depth : bfs.depth[b] = n

Start(source) == [queue |-> <<source>>, depth |-> [a \in {source} |-> 0]]

LEMMA StartIsLoop ==
    ASSUME NEW edges, NEW source, NEW B, AreBalls(B, edges, source)
    PROVE  IsLoop(Start(source), edges, source, B)
<1> DEFINE q == <<source>>
           d == [a \in {source} |-> 0]
<1>1. DOMAIN Start(source) = {"queue", "depth"} /\ Start(source).queue = q /\ Start(source).depth = d
  BY DEF Start
<1>2. DOMAIN d = {source} /\ d[source] = 0 /\ d \in [{source} -> Nat]
  OBVIOUS
<1>3. q \in Seq({source}) /\ Len(q) = 1 /\ q[1] = source /\ q # <<>>
  OBVIOUS
<1>4. d \in Depths(edges, source)
  BY <1>2 DEF Depths, Reached
<1>5. B[0] = {source}
  BY DEF AreBalls
<1> HIDE DEF q, d
<1>6. Queued(Start(source), source)
  BY <1>1, <1>3 DEF Queued
<1>7. \A a \in DOMAIN d : a = source /\ d[a] = 0
  BY <1>2
<1>8. IsDistance(B, source, 0)
  BY <1>5 DEF IsDistance
<1> QED BY <1>1, <1>2, <1>3, <1>4, <1>5, <1>6, <1>7, <1>8 DEF IsLoop

\* The addresses that depths speak of are finitely many: each but the first has an edge to it.
LEMMA FewReached ==
    ASSUME NEW edges, NEW source, IsFiniteSet(edges)
    PROVE  /\ IsFiniteSet(Reached(edges, source))
           /\ Cardinality(Reached(edges, source)) <= Cardinality(edges) + 1
           /\ Cardinality(edges) \in Nat
<1> DEFINE heads == {e[2] : e \in edges}
           f == [e \in edges |-> e[2]]
<1>1. f \in Surjection(edges, heads)
  BY DEF Surjection
<1>2. IsFiniteSet(heads) /\ Cardinality(heads) <= Cardinality(edges)
  <2> HIDE DEF f, heads
  <2> QED BY <1>1, FS_Surjection
<1> HIDE DEF heads
<1>3. /\ IsFiniteSet(heads \cup {source})
      /\ Cardinality(heads \cup {source}) = IF source \in heads THEN Cardinality(heads) ELSE Cardinality(heads) + 1
  BY <1>2, FS_AddElement
<1>4. Reached(edges, source) = heads \cup {source}
  BY DEF Reached, heads
<1>5. Cardinality(edges) \in Nat /\ Cardinality(heads) \in Nat
  BY <1>2, FS_CardinalityType
<1> QED BY <1>2, <1>3, <1>4, <1>5

\* How many have left the queue.
Left(bfs) == Cardinality(DOMAIN bfs.depth) - Len(bfs.queue)

LEMMA LoopType ==
    ASSUME NEW edges, NEW source, NEW B, NEW bfs, IsLoop(bfs, edges, source, B), IsFiniteSet(edges)
    PROVE  /\ DOMAIN bfs.depth \subseteq Reached(edges, source) /\ IsFiniteSet(DOMAIN bfs.depth)
           /\ bfs.depth \in [DOMAIN bfs.depth -> Nat] /\ bfs.queue \in Seq(DOMAIN bfs.depth)
           /\ Cardinality(DOMAIN bfs.depth) \in Nat
           /\ Cardinality(DOMAIN bfs.depth) <= Cardinality(edges) + 1
<1>1. PICK known \in SUBSET Reached(edges, source) : bfs.depth \in [known -> Nat]
  BY DEF IsLoop, Depths
<1>2. DOMAIN bfs.depth = known
  BY <1>1
<1>3. IsFiniteSet(known) /\ Cardinality(known) <= Cardinality(Reached(edges, source))
  BY FewReached, FS_Subset
<1>4. Cardinality(known) \in Nat /\ Cardinality(Reached(edges, source)) \in Nat
  BY <1>3, FewReached, FS_CardinalityType
<1>5. bfs.queue \in Seq(DOMAIN bfs.depth)
  BY DEF IsLoop
<1> QED BY <1>1, <1>2, <1>3, <1>4, <1>5, FewReached

\* What a sequence becomes without its head and with another one behind it.
LEMMA TailThenMore ==
    ASSUME NEW S, NEW T, S \subseteq T, NEW q \in Seq(S), q # <<>>, NEW t \in Seq(T)
    PROVE  /\ Tail(q) \o t \in Seq(T) /\ Len(Tail(q) \o t) = Len(q) - 1 + Len(t)
           /\ Len(q) \in Nat /\ Len(q) >= 1 /\ Len(t) \in Nat
           /\ \A i \in 1 .. Len(q) - 1 : (Tail(q) \o t)[i] = q[i + 1]
           /\ \A i \in 1 .. Len(t) : (Tail(q) \o t)[Len(q) - 1 + i] = t[i]
<1>1. q \in Seq(T)
  OBVIOUS
<1>2. Len(q) \in Nat /\ Len(q) >= 1 /\ Len(t) \in Nat
  BY <1>1
<1>3. Tail(q) \in Seq(T) /\ Len(Tail(q)) = Len(q) - 1 /\ \A i \in 1 .. Len(q) - 1 : Tail(q)[i] = q[i + 1]
  BY <1>1
<1> DEFINE r == Tail(q)
<1> HIDE DEF r
<1>4. r \o t \in Seq(T) /\ Len(r \o t) = Len(r) + Len(t)
  BY <1>3 DEF r
<1>5. \A i \in 1 .. Len(r) : (r \o t)[i] = r[i]
  BY <1>3 DEF r
<1>6. \A i \in 1 .. Len(t) : (r \o t)[Len(r) + i] = t[i]
  BY <1>2, <1>3 DEF r
<1> QED BY <1>2, <1>3, <1>4, <1>5, <1>6 DEF r

\* A turn of the loop keeps all this, and one more address has left the queue.
LEMMA LoopStep ==
    ASSUME NEW edges, NEW source, IsFiniteSet(edges), NEW B, AreBalls(B, edges, source),
           NEW bfs, IsLoop(bfs, edges, source, B), bfs.queue # <<>>
    PROVE  /\ IsLoop(Bfs(edges, bfs), edges, source, B)
           /\ Left(Bfs(edges, bfs)) = Left(bfs) + 1
<1> DEFINE q == bfs.queue
           d == bfs.depth
           V == Reached(edges, source)
           cur == q[1]
           m == d[cur]
           new == Unmet(edges, cur, d)
           t == SetToSeq(new)
           next == Bfs(edges, bfs)
           q2 == Tail(q) \o t
           d2 == Deeper(d, new, m + 1)
           l == Len(q) - 1
<1>1. /\ DOMAIN d \subseteq V /\ IsFiniteSet(DOMAIN d) /\ d \in [DOMAIN d -> Nat] /\ q \in Seq(DOMAIN d)
      /\ Cardinality(DOMAIN d) \in Nat
  BY LoopType
<1>2. Len(q) \in Nat /\ Len(q) >= 1 /\ l \in Nat /\ cur \in DOMAIN d /\ m \in Nat /\ Head(q) = cur
  BY <1>1
<1>3. new \subseteq V /\ new \cap DOMAIN d = {} /\ new = Onward(edges, {cur}) \ DOMAIN d
  BY DEF Unmet, Onward, Reached
<1>4. IsFiniteSet(new) /\ Cardinality(new) \in Nat
  BY <1>3, FewReached, FS_Subset, FS_CardinalityType
<1>5. t \in Seq(new) /\ Len(t) = Cardinality(new) /\ \A a \in new : \E i \in 1 .. Len(t) : t[i] = a
  <2> HIDE DEF new
  <2> QED BY <1>4, SeqOfSet
<1>6. DOMAIN next = {"queue", "depth"} /\ next.queue = q2 /\ next.depth = d2
  BY <1>2 DEF Bfs
<1>7. /\ DOMAIN d2 = DOMAIN d \cup new /\ d2 \in [DOMAIN d \cup new -> Nat]
      /\ \A a \in DOMAIN d : d2[a] = d[a]
      /\ \A a \in new : d2[a] = m + 1
  <2> HIDE DEF new, m
  <2> QED BY <1>1, <1>2, <1>3 DEF Deeper
<1> HIDE DEF next, t, new, d2
<1>9. /\ q2 \in Seq(DOMAIN d2) /\ Len(q2) = l + Len(t)
      /\ \A i \in 1 .. l : q2[i] = q[i + 1]
      /\ \A i \in 1 .. Len(t) : q2[l + i] = t[i]
      /\ \A i \in 1 .. Len(q2) : i > l => i - l \in 1 .. Len(t) /\ q2[i] = t[i - l]
  <2>1. DOMAIN d \subseteq DOMAIN d2 /\ t \in Seq(DOMAIN d2) /\ q \in Seq(DOMAIN d) /\ q # <<>>
    BY <1>1, <1>5, <1>7
  <2>2. /\ q2 \in Seq(DOMAIN d2) /\ Len(q2) = l + Len(t) /\ Len(t) \in Nat
        /\ \A i \in 1 .. l : q2[i] = q[i + 1]
        /\ \A i \in 1 .. Len(t) : q2[l + i] = t[i]
    <3> HIDE DEF q, d2
    <3>1. /\ Tail(q) \o t \in Seq(DOMAIN d2) /\ Len(Tail(q) \o t) = Len(q) - 1 + Len(t)
          /\ Len(t) \in Nat
          /\ \A i \in 1 .. Len(q) - 1 : (Tail(q) \o t)[i] = q[i + 1]
          /\ \A i \in 1 .. Len(t) : (Tail(q) \o t)[Len(q) - 1 + i] = t[i]
      BY <2>1, TailThenMore
    <3> QED BY <3>1
  <2> HIDE DEF q2, l
  <2>3. ASSUME NEW i \in 1 .. Len(q2), i > l PROVE i - l \in 1 .. Len(t) /\ q2[i] = t[i - l]
    <3>1. i - l \in 1 .. Len(t) /\ l + (i - l) = i
      BY <1>2, <2>2, <2>3
    <3> QED BY <2>2, <3>1
  <2> QED BY <2>2, <2>3
<1> HIDE DEF q2
<1>10. ASSUME NEW i \in 1 .. Len(q2)
       PROVE  /\ q2[i] \in DOMAIN d2
              /\ i <= l => i + 1 \in 1 .. Len(q) /\ q2[i] \in DOMAIN d /\ d2[q2[i]] = d[q[i + 1]] /\ m <= d2[q2[i]]
                           /\ d2[q2[i]] <= m + 1
              /\ i > l => q2[i] \in new /\ d2[q2[i]] = m + 1
  <2>1. q2[i] \in DOMAIN d2
    BY <1>9
  <2>2. ASSUME i <= l
        PROVE  i + 1 \in 1 .. Len(q) /\ q2[i] \in DOMAIN d /\ d2[q2[i]] = d[q[i + 1]]
    <3>1. i + 1 \in 1 .. Len(q) /\ q2[i] = q[i + 1]
      BY <1>2, <1>9, <2>2
    <3> QED BY <1>1, <1>7, <3>1
  <2>3. ASSUME i <= l PROVE m <= d2[q2[i]] /\ d2[q2[i]] <= m + 1
    <3>1. i + 1 \in 1 .. Len(q) /\ 1 \in 1 .. Len(q) /\ 1 <= i + 1
      BY <1>2, <2>2, <2>3
    <3>2. d[q[1]] <= d[q[i + 1]] /\ d[q[i + 1]] <= d[q[1]] + 1
      BY <3>1 DEF IsLoop
    <3> QED BY <2>2, <2>3, <3>2
  <2>4. ASSUME i > l PROVE q2[i] \in new /\ d2[q2[i]] = m + 1
    <3>1. i - l \in 1 .. Len(t) /\ q2[i] = t[i - l]
      BY <1>9, <2>4
    <3>2. \A j \in 1 .. Len(t) : t[j] \in new
      BY <1>5
    <3> HIDE DEF l
    <3> QED BY <1>7, <3>1, <3>2
  <2> QED BY <2>1, <2>2, <2>3, <2>4
<1>11. ASSUME NEW i \in 1 .. Len(q2), NEW j \in 1 .. Len(q2), i <= j
       PROVE  d2[q2[i]] <= d2[q2[j]] /\ d2[q2[j]] <= d2[q2[i]] + 1
  <2>1. CASE j <= l
    <3>1. i <= l /\ i + 1 \in 1 .. Len(q) /\ j + 1 \in 1 .. Len(q) /\ i + 1 <= j + 1
      BY <1>2, <1>10, <1>11, <2>1
    <3>2. d[q[i + 1]] <= d[q[j + 1]] /\ d[q[j + 1]] <= d[q[i + 1]] + 1
      BY <3>1 DEF IsLoop
    <3> QED BY <1>10, <2>1, <3>1, <3>2
  <2>2. CASE j > l
    <3>1. m <= d2[q2[i]] /\ d2[q2[i]] <= m + 1 /\ d2[q2[i]] \in Nat
      BY <1>2, <1>7, <1>10
    <3>2. d2[q2[j]] = m + 1
      BY <1>10, <2>2
    <3> QED BY <1>2, <3>1, <3>2
  <2> QED BY <1>2, <2>1, <2>2
<1>12. \A a \in DOMAIN d : IsDistance(B, a, d[a])
  BY DEF IsLoop
<1>13. B[m + 1] = B[m] \cup Onward(edges, B[m]) /\ B[m] \subseteq DOMAIN d
  <2>1. B[m] \subseteq DOMAIN d
    BY DEF IsLoop
  <2> QED BY <1>2, <2>1 DEF AreBalls
<1>14. ASSUME NEW a \in DOMAIN d2 PROVE IsDistance(B, a, d2[a])
  <2>1. CASE a \in DOMAIN d
    BY <1>7, <1>12, <2>1
  <2>2. CASE a \in new
    <3>1. cur \in B[m]
      BY <1>2, <1>12 DEF IsDistance
    <3>2. a \in B[m + 1]
      BY <1>3, <1>13, <2>2, <3>1 DEF Onward
    <3>3. a \notin B[m]
      BY <1>3, <1>13, <2>2
    <3>4. d2[a] = m + 1 /\ m + 1 - 1 = m
      BY <1>2, <1>7, <2>2
    <3> QED BY <1>2, <3>2, <3>3, <3>4 DEF IsDistance
  <2> QED BY <1>7, <2>1, <2>2
<1>15. ASSUME NEW a \in DOMAIN d2, ~Queued(next, a) PROVE Onward(edges, {a}) \subseteq DOMAIN d2
  <2>1. a \notin new
    <3> SUFFICES ASSUME a \in new PROVE FALSE
      OBVIOUS
    <3>1. PICK i \in 1 .. Len(t) : t[i] = a
      BY <1>5
    <3>2. q2[l + i] = a
      BY <1>9, <3>1
    <3>3. l + i \in 1 .. Len(q2)
      <4> HIDE DEF l
      <4> QED BY <1>2, <1>4, <1>5, <1>9
    <3> QED BY <1>6, <1>15, <3>2, <3>3 DEF Queued
  <2>2. CASE a = cur
    BY <1>3, <1>7, <2>2
  <2>3. CASE a # cur
    <3>1. ~Queued(bfs, a)
      <4> SUFFICES ASSUME NEW i \in 1 .. Len(q), q[i] = a PROVE FALSE
        BY DEF Queued
      <4>1. i # 1
        BY <2>3
      <4>2. i - 1 \in 1 .. l /\ q2[i - 1] = q[i - 1 + 1] /\ i - 1 \in 1 .. Len(q2) /\ i - 1 + 1 = i
        BY <1>2, <1>4, <1>5, <1>9, <4>1
      <4> QED BY <1>6, <1>15, <4>2 DEF Queued
    <3>2. a \in DOMAIN d
      BY <1>7, <2>1
    <3> QED BY <1>7, <3>1, <3>2 DEF IsLoop
  <2> QED BY <2>2, <2>3
<1>16. ASSUME q2 # <<>> PROVE B[d2[q2[1]]] \subseteq DOMAIN d2
  <2>1. 1 \in 1 .. Len(q2)
    BY <1>9, <1>16
  <2>2. d2[q2[1]] = m \/ d2[q2[1]] = m + 1
    <3>1. m <= d2[q2[1]] /\ d2[q2[1]] <= m + 1 /\ d2[q2[1]] \in Nat
      BY <1>2, <1>7, <1>10, <2>1
    <3> QED BY <1>2, <3>1
  <2>3. CASE d2[q2[1]] = m
    BY <1>7, <1>13, <2>3
  <2>4. CASE d2[q2[1]] = m + 1
    <3>1. ASSUME NEW x \in B[m] PROVE Onward(edges, {x}) \subseteq DOMAIN d2
      <4>1. x \in DOMAIN d /\ d[x] \in Nat /\ IsDistance(B, x, d[x])
        BY <1>1, <1>12, <1>13
      <4>2. d[x] <= m
        <5> SUFFICES ASSUME d[x] > m PROVE FALSE
          BY <1>2, <4>1
        <5>1. d[x] # 0 /\ d[x] - 1 \in Nat /\ m <= d[x] - 1
          BY <1>2, <4>1
        <5>2. B[m] \subseteq B[d[x] - 1]
          BY <1>2, <5>1, BallsGrow
        <5> QED BY <4>1, <5>1, <5>2 DEF IsDistance
      <4>3. ~Queued(next, x)
        <5> SUFFICES ASSUME NEW i \in 1 .. Len(q2), q2[i] = x PROVE FALSE
          BY <1>6 DEF Queued
        <5>1. d2[q2[1]] <= d2[q2[i]]
          BY <1>11, <2>1
        <5> QED BY <1>2, <1>7, <2>4, <4>1, <4>2, <5>1
      <4> QED BY <1>7, <1>15, <4>1, <4>3
    <3>2. Onward(edges, B[m]) \subseteq DOMAIN d2
      BY <3>1 DEF Onward
    <3> QED BY <1>7, <1>13, <2>4, <3>2
  <2> QED BY <2>2, <2>3, <2>4
<1>17. ASSUME NEW a \in DOMAIN d2, NEW n \in 0 .. d2[a] PROVE \E b \in DOMAIN d2 : d2[b] = n
  <2>1. \A b \in DOMAIN d : \A k \in 0 .. d[b] : \E c \in DOMAIN d : d[c] = k
    BY DEF IsLoop
  <2>2. CASE a \in DOMAIN d
    BY <1>7, <2>1, <2>2
  <2>3. CASE a \in new
    <3>1. CASE n = m + 1
      BY <1>7, <2>3, <3>1
    <3>2. CASE n # m + 1
      <4>1. n \in 0 .. d[cur]
        BY <1>2, <1>7, <2>3, <3>2
      <4> QED BY <1>2, <1>7, <2>1, <4>1
    <3> QED BY <3>1, <3>2
  <2> QED BY <1>7, <2>2, <2>3
<1>18. d2 \in Depths(edges, source)
  BY <1>1, <1>3, <1>7 DEF Depths
<1>19. source \in DOMAIN d2
  BY <1>7 DEF IsLoop
<1>20. Cardinality(DOMAIN d2) = Cardinality(DOMAIN d) + Cardinality(new)
  <2>1. /\ Cardinality(DOMAIN d \cup new) = Cardinality(DOMAIN d) + Cardinality(new) - Cardinality(DOMAIN d \cap new)
    BY <1>1, <1>4, FS_Union
  <2>2. DOMAIN d \cap new = {}
    BY <1>3
  <2>3. Cardinality(DOMAIN d \cap new) = 0
    BY <2>2, FS_EmptySet
  <2> QED BY <1>1, <1>4, <1>7, <2>1, <2>3
<1>21. Left(next) = Left(bfs) + 1
  BY <1>1, <1>2, <1>4, <1>5, <1>6, <1>9, <1>20 DEF Left
<1>22. IsLoop(next, edges, source, B)
  BY <1>6, <1>9, <1>11, <1>14, <1>15, <1>16, <1>17, <1>18, <1>19 DEF IsLoop
<1> QED BY <1>21, <1>22 DEF next

\* What counts up until it stops has stopped, or has come as far as there are counts.
LEMMA CountsUp ==
    ASSUME NEW last \in Nat, NEW count, NEW stopped, count[0] \in Nat,
           \A n \in 1 .. last : IF n - 1 \in stopped THEN n \in stopped
                                ELSE count[n] \in Int /\ count[n] >= count[n - 1] + 1
    PROVE  last \in stopped \/ (count[last] \in Int /\ count[last] >= last)
<1> DEFINE far(n) == count[n] \in Int /\ count[n] >= n
           bad == {n \in 0 .. last : ~(n \in stopped \/ far(n))}
<1>1. CASE bad = {}
  <2>1. last \notin bad /\ last \in 0 .. last
    BY <1>1
  <2> QED BY <2>1
<1>2. CASE bad # {}
  <2>1. PICK m \in bad : \A n \in bad : m <= n
    <3>1. bad \subseteq Nat
      OBVIOUS
    <3> HIDE DEF bad
    <3> QED BY <1>2, <3>1, LeastOf
  <2>2. m # 0
    BY <2>1
  <2>3. m \in 1 .. last /\ m - 1 \in 0 .. last /\ m - 1 \in Nat
    BY <2>1, <2>2
  <2>4. m - 1 \notin bad
    <3> HIDE DEF bad
    <3> QED BY <2>1, <2>3
  <2>5. m - 1 \in stopped \/ far(m - 1)
    <3> HIDE DEF far
    <3> QED BY <2>3, <2>4
  <2>6. IF m - 1 \in stopped THEN m \in stopped ELSE count[m] \in Int /\ count[m] >= count[m - 1] + 1
    BY <2>3
  <2>7. m \in stopped \/ far(m)
    BY <2>3, <2>5, <2>6
  <2>8. m \in bad
    BY <2>1
  <2> QED BY <2>7, <2>8
<1> QED BY <1>1, <1>2

\* The loop ends with the distances of all addresses that can be reached.
LEMMA BfsFinds ==
    ASSUME NEW edges, NEW source, IsFiniteSet(edges), NEW B, AreBalls(B, edges, source)
    PROVE  LET D == bfsDepths(edges, source)
           IN  /\ D \in [DOMAIN D -> Nat] /\ source \in DOMAIN D
               /\ Onward(edges, DOMAIN D) \subseteq DOMAIN D
               /\ \A a \in DOMAIN D : IsDistance(B, a, D[a]) /\ D[a] <= Cardinality(edges)
<1> DEFINE last == Cardinality(edges) + 1
           turn(b) == IF b.queue = <<>> THEN b ELSE Bfs(edges, b)
           Eq(it) == it = [n \in 0 .. last |-> IF n = 0 THEN Start(source) ELSE turn(it[n - 1])]
           S == {b \in [queue : Seq(Reached(edges, source)), depth : Depths(edges, source)] :
                    IsLoop(b, edges, source, B)}
           G == [b \in S |-> turn(b)]
           after == CHOOSE it : Eq(it)
<1>0. Cardinality(edges) \in Nat
  BY FewReached
<1>1. bfsDepths(edges, source) = after[last].depth
  BY DEF bfsDepths, Start
<1>2. last \in Nat
  BY FewReached
<1>3. ASSUME NEW b, b = [queue |-> b.queue, depth |-> b.depth], IsLoop(b, edges, source, B) PROVE b \in S
  <2>1. b.queue \in Seq(DOMAIN b.depth) /\ b.depth \in Depths(edges, source)
    BY <1>3 DEF IsLoop
  <2>2. DOMAIN b.depth \subseteq Reached(edges, source)
    BY <1>3, LoopType
  <2>3. b.queue \in Seq(Reached(edges, source))
    BY <2>1, <2>2
  <2> HIDE DEF G, after
  <2> QED BY <1>3, <2>1, <2>3
<1>4. ASSUME NEW b \in S PROVE turn(b) \in S
  <2>1. CASE b.queue = <<>>
    BY <2>1
  <2>2. CASE b.queue # <<>>
    <3>1. IsLoop(Bfs(edges, b), edges, source, B)
      BY <2>2, LoopStep
    <3>2. Bfs(edges, b) = [queue |-> Bfs(edges, b).queue, depth |-> Bfs(edges, b).depth]
      BY DEF Bfs
    <3>3. Bfs(edges, b) \in S
      <4> HIDE DEF S
      <4> QED BY <1>3, <3>1, <3>2
    <3> HIDE DEF S
    <3> QED BY <2>2, <3>3
  <2> QED BY <2>1, <2>2
<1>5. Start(source) \in S
  <2>1. Start(source) = [queue |-> Start(source).queue, depth |-> Start(source).depth]
    BY DEF Start
  <2> HIDE DEF S
  <2> QED BY <1>3, <2>1, StartIsLoop
<1> HIDE DEF S, turn
<1>6. PICK g \in [0 .. last -> S] : IsRound(g, last, Start(source), G)
  <2>1. G \in [S -> S]
    BY <1>4
  <2> HIDE DEF G, last
  <2> QED BY <1>2, <1>5, <2>1, Rounds
<1> HIDE DEF last
<1>7. ASSUME NEW n \in 1 .. last PROVE g[n] = turn(g[n - 1])
  <2>1. n - 1 \in 0 .. last
    BY <1>2
  <2> QED BY <1>6, <2>1 DEF IsRound
<1>8. Eq(g)
  BY <1>2, <1>6, <1>7 DEF IsRound
<1>9. Eq(after)
  <2> HIDE DEF Eq
  <2> QED BY <1>8
<1> HIDE DEF after
<1>10. \A n \in 0 .. last : after[n] = g[n]
  <2> DEFINE T == S \cup {after[n] : n \in 0 .. last}
             H == [b \in T |-> turn(b)]
  <2>1. IsRound(after, last, Start(source), H)
    <3>1. after[0] = Start(source)
      BY <1>2, <1>9
    <3>2. ASSUME NEW n \in 1 .. last PROVE after[n] = H[after[n - 1]]
      <4>1. n \in 0 .. last /\ n - 1 \in 0 .. last /\ n # 0
        BY <1>2
      <4>2. after[n] = turn(after[n - 1])
        BY <1>9, <4>1
      <4>3. after[n - 1] \in T
        BY <4>1
      <4> HIDE DEF T
      <4> QED BY <4>2, <4>3
    <3> HIDE DEF H
    <3> QED BY <3>1, <3>2 DEF IsRound
  <2>2. IsRound(g, last, Start(source), H)
    <3>1. ASSUME NEW n \in 1 .. last PROVE g[n] = H[g[n - 1]]
      <4>1. g[n - 1] \in T
        BY <1>2, <1>6
      <4> HIDE DEF T
      <4> QED BY <1>7, <4>1
    <3>2. g[0] = Start(source)
      BY <1>6 DEF IsRound
    <3> HIDE DEF H
    <3> QED BY <3>1, <3>2 DEF IsRound
  <2> HIDE DEF H
  <2> QED BY <1>2, <2>1, <2>2, SameRounds
<1>11. ASSUME NEW n \in 0 .. last PROVE IsLoop(g[n], edges, source, B)
  BY <1>6 DEF S
<1>12. g[last].queue = <<>>
  <2> DEFINE count == [n \in 0 .. last |-> Left(g[n])]
             stopped == {n \in 0 .. last : g[n].queue = <<>>}
  <2>1. ASSUME NEW n \in 0 .. last
        PROVE  /\ count[n] \in Int
               /\ g[n].queue # <<>> => count[n] <= Cardinality(edges)
    <3>1. /\ Cardinality(DOMAIN g[n].depth) \in Nat /\ g[n].queue \in Seq(DOMAIN g[n].depth)
          /\ Cardinality(DOMAIN g[n].depth) <= Cardinality(edges) + 1
      BY <1>11, LoopType
    <3>2. Len(g[n].queue) \in Nat /\ (g[n].queue # <<>> => Len(g[n].queue) >= 1)
      BY <3>1
    <3>3. Left(g[n]) = Cardinality(DOMAIN g[n].depth) - Len(g[n].queue)
      BY DEF Left
    <3>4. count[n] = Left(g[n])
      OBVIOUS
    <3> HIDE DEF count
    <3> QED BY <1>0, <3>1, <3>2, <3>3, <3>4
  <2>2. ASSUME NEW n \in 1 .. last
        PROVE  IF n - 1 \in stopped THEN n \in stopped ELSE count[n] \in Int /\ count[n] >= count[n - 1] + 1
    <3>1. n \in 0 .. last /\ n - 1 \in 0 .. last
      BY <1>2
    <3>2. CASE n - 1 \in stopped
      BY <1>7, <3>1, <3>2 DEF turn
    <3>3. CASE n - 1 \notin stopped
      <4>1. g[n] = Bfs(edges, g[n - 1]) /\ g[n - 1].queue # <<>>
        BY <1>7, <3>1, <3>3 DEF turn
      <4>2. Left(g[n]) = Left(g[n - 1]) + 1
        BY <1>11, <3>1, <4>1, LoopStep
      <4>3. count[n] = count[n - 1] + 1 /\ count[n] \in Int /\ count[n - 1] \in Int
        BY <2>1, <3>1, <4>2
      <4> HIDE DEF count, stopped
      <4> QED BY <3>3, <4>3
    <3> QED BY <3>2, <3>3
  <2>3. count[0] \in Nat
    <3>1. g[0] = Start(source) /\ 0 \in 0 .. last
      BY <1>2, <1>6 DEF IsRound
    <3>2. DOMAIN g[0].depth = {source} /\ Len(g[0].queue) = 1
      BY <3>1 DEF Start
    <3>3. Left(g[0]) = 1 - 1
      BY <3>2, FS_Singleton DEF Left
    <3> QED BY <3>1, <3>3
  <2> HIDE DEF count, stopped
  <2>4. last \in stopped \/ (count[last] \in Int /\ count[last] >= last)
    BY <1>2, <2>2, <2>3, CountsUp
  <2>5. last \in 0 .. last
    BY <1>2
  <2>6. last = Cardinality(edges) + 1
    BY DEF last
  <2> QED BY <1>0, <2>1, <2>4, <2>5, <2>6 DEF stopped
<1> DEFINE D == g[last].depth
<1>13. last \in 0 .. last /\ bfsDepths(edges, source) = D
  BY <1>1, <1>2, <1>10
<1>14. IsLoop(g[last], edges, source, B)
  BY <1>11, <1>13
<1>15. /\ D \in [DOMAIN D -> Nat] /\ IsFiniteSet(DOMAIN D)
       /\ Cardinality(DOMAIN D) \in Nat /\ Cardinality(DOMAIN D) <= Cardinality(edges) + 1
  BY <1>14, LoopType
<1>16. source \in DOMAIN D /\ \A a \in DOMAIN D : IsDistance(B, a, D[a])
  BY <1>14 DEF IsLoop
<1>17. Onward(edges, DOMAIN D) \subseteq DOMAIN D
  <2>1. \A a \in DOMAIN D : ~Queued(g[last], a)
    BY <1>12 DEF Queued
  <2>2. \A a \in DOMAIN D : Onward(edges, {a}) \subseteq DOMAIN D
    BY <1>14, <2>1 DEF IsLoop
  <2> QED BY <2>2 DEF Onward
<1>18. ASSUME NEW a \in DOMAIN D PROVE D[a] <= Cardinality(edges)
  <2> DEFINE nums == {D[b] : b \in DOMAIN D}
             f == [b \in DOMAIN D |-> D[b]]
  <2>1. f \in Surjection(DOMAIN D, nums)
    BY DEF Surjection
  <2>2. 0 .. D[a] \subseteq nums
    BY <1>14, <1>15 DEF IsLoop
  <2> HIDE DEF nums, f
  <2>3. IsFiniteSet(nums) /\ Cardinality(nums) <= Cardinality(DOMAIN D)
    BY <1>15, <2>1, FS_Surjection
  <2>4. Cardinality(0 .. D[a]) <= Cardinality(nums) /\ Cardinality(nums) \in Nat
    BY <2>2, <2>3, FS_Subset, FS_CardinalityType
  <2>5. D[a] \in Nat
    BY <1>15
  <2>6. Cardinality(0 .. D[a]) = D[a] + 1
    BY <2>5, FS_Interval
  <2> QED BY <1>15, <2>3, <2>4, <2>5, <2>6, <1>0
<1> QED BY <1>13, <1>15, <1>16, <1>17, <1>18

\* As long as its rows are in S.
Follows(f, last, base, S, G) ==
    f[0] = base /\ \A n \in 1 .. last : f[n - 1] \in S => f[n] = G[f[n - 1]]

\* A table that is defined by its row before has the rows of the repetition.
LEMMA RowsOfRounds ==
    ASSUME NEW last \in Nat, NEW base, NEW f, NEW g, NEW S, g \in [0 .. last -> S],
           NEW G, IsRound(g, last, base, G),
           Follows(f, last, base, S, G)
    PROVE  \A n \in 0 .. last : f[n] = g[n]
<1> DEFINE off == {n \in 0 .. last : f[n] # g[n]}
<1> SUFFICES ASSUME off # {} PROVE FALSE
  OBVIOUS
<1>1. PICK m \in off : \A n \in off : m <= n
  <2>1. off \subseteq Nat
    OBVIOUS
  <2> HIDE DEF off
  <2> QED BY <2>1, LeastOf
<1>2. m # 0
  BY <1>1 DEF IsRound, Follows
<1>3. m - 1 \in 0 .. last /\ m - 1 \notin off /\ m \in 1 .. last
  BY <1>1, <1>2
<1>4. f[m - 1] = g[m - 1] /\ g[m - 1] \in S
  BY <1>3
<1>5. f[m] = g[m]
  BY <1>3, <1>4 DEF IsRound, Follows
<1> QED BY <1>1, <1>5

\* The walks of at most so many edges lead to the addresses of the ball.
LEMMA WalksAre ==
    ASSUME NEW edges, NEW source, IsFiniteSet(edges), NEW B, AreBalls(B, edges, source)
    PROVE  ShortestWalks(edges, source) =
              [a \in B[Cardinality(edges)] |-> CHOOSE n \in 0 .. Cardinality(edges) : IsDistance(B, a, n)]
<1> DEFINE far == Cardinality(edges)
           on(near) == near \cup {e[2] : e \in {d \in edges : d[1] \in near}}
           Eq(it) == it = [n \in 0 .. far |-> IF n = 0 THEN {source} ELSE on(it[n - 1])]
           Ball == CHOOSE it : Eq(it)
           g == [n \in 0 .. far |-> B[n]]
<1>1. far \in Nat
  BY FewReached
<1>2. ShortestWalks(edges, source) =
         [a \in Ball[far] |-> CHOOSE n \in 0 .. far : a \in Ball[n] /\ (n = 0 \/ a \notin Ball[n - 1])]
  BY DEF ShortestWalks
<1> HIDE DEF far
<1>3. ASSUME NEW n \in 1 .. far PROVE g[n] = on(g[n - 1])
  <2>1. n - 1 \in Nat /\ n \in 0 .. far /\ n - 1 \in 0 .. far /\ n - 1 + 1 = n
    BY <1>1
  <2>2. B[n - 1 + 1] = B[n - 1] \cup Onward(edges, B[n - 1])
    BY <2>1 DEF AreBalls
  <2> QED BY <2>1, <2>2 DEF Onward
<1>4. Eq(g)
  <2>1. g[0] = {source}
    BY <1>1 DEF AreBalls
  <2> HIDE DEF on, g
  <2>2. \A n \in 0 .. far : g[n] = IF n = 0 THEN {source} ELSE on(g[n - 1])
    <3> SUFFICES ASSUME NEW n \in 0 .. far, n # 0 PROVE g[n] = on(g[n - 1])
      BY <2>1
    <3>1. n \in 1 .. far
      BY <1>1
    <3> QED BY <1>3, <3>1
  <2> QED BY <2>2 DEF g
<1>5. Eq(Ball)
  <2> HIDE DEF Eq
  <2> QED BY <1>4
<1> HIDE DEF Ball
<1>6. \A n \in 0 .. far : Ball[n] = g[n]
  <2> DEFINE V == {g[n] : n \in 0 .. far}
             G == [near \in V |-> on(near)]
  <2>1. IsRound(g, far, {source}, G)
    <3>1. ASSUME NEW n \in 1 .. far PROVE g[n] = G[g[n - 1]]
      <4>1. n - 1 \in 0 .. far
        BY <1>1
      <4>2. g[n - 1] \in V
        BY <4>1
      <4> HIDE DEF V, on, g
      <4> QED BY <1>3, <4>2
    <3>2. g[0] = {source}
      BY <1>1 DEF AreBalls
    <3> HIDE DEF G, g
    <3> QED BY <3>1, <3>2 DEF IsRound
  <2>2. g \in [0 .. far -> V]
    OBVIOUS
  <2>3. Ball[0] = {source}
    BY <1>1, <1>5
  <2>4. ASSUME NEW n \in 1 .. far, Ball[n - 1] \in V PROVE Ball[n] = G[Ball[n - 1]]
    <3>1. n \in 0 .. far /\ n # 0
      BY <1>1
    <3>2. Ball[n] = on(Ball[n - 1])
      <4> HIDE DEF on
      <4> QED BY <1>5, <3>1
    <3> HIDE DEF V, on
    <3> QED BY <2>4, <3>2
  <2> HIDE DEF g, G, V
  <2>5. \A n \in 1 .. far : Ball[n - 1] \in V => Ball[n] = G[Ball[n - 1]]
    BY <2>4
  <2>6. Follows(Ball, far, {source}, V, G)
    BY <2>3, <2>5 DEF Follows
  <2> QED BY <1>1, <2>1, <2>2, <2>6, RowsOfRounds
<1>7. far \in 0 .. far /\ Ball[far] = B[far]
  BY <1>1, <1>6
<1>8. ASSUME NEW a, NEW n \in 0 .. far
      PROVE  (a \in Ball[n] /\ (n = 0 \/ a \notin Ball[n - 1])) <=> IsDistance(B, a, n)
  <2>1. n \in Nat /\ Ball[n] = B[n] /\ (n # 0 => n - 1 \in 0 .. far)
    BY <1>1, <1>6
  <2>2. n # 0 => Ball[n - 1] = B[n - 1]
    BY <1>6, <2>1
  <2> QED BY <2>1, <2>2 DEF IsDistance
<1>9. ASSUME NEW a
      PROVE  (CHOOSE n \in 0 .. far : a \in Ball[n] /\ (n = 0 \/ a \notin Ball[n - 1])) =
                CHOOSE n \in 0 .. far : IsDistance(B, a, n)
  BY <1>8
<1> QED BY <1>2, <1>7, <1>9 DEF far

\* Breadth-first depths are the lengths of the shortest walks.
LEMMA BfsIsShortest ==
    ASSUME NEW edges, NEW source, IsFiniteSet(edges)
    PROVE  bfsDepths(edges, source) = ShortestWalks(edges, source)
<1> DEFINE D == bfsDepths(edges, source)
           far == Cardinality(edges)
<1>1. PICK B : AreBalls(B, edges, source)
  BY BallsExist
<1>2. /\ D \in [DOMAIN D -> Nat] /\ source \in DOMAIN D /\ Onward(edges, DOMAIN D) \subseteq DOMAIN D
      /\ \A a \in DOMAIN D : IsDistance(B, a, D[a]) /\ D[a] <= far
  BY <1>1, BfsFinds
<1>3. far \in Nat
  BY FewReached
<1> HIDE DEF D, far
<1>4. DOMAIN D = B[far]
  <2>1. B[far] \subseteq DOMAIN D
    BY <1>1, <1>2, <1>3, BallsStay
  <2>2. ASSUME NEW a \in DOMAIN D PROVE a \in B[far]
    <3>1. a \in B[D[a]] /\ D[a] \in Nat /\ D[a] <= far
      BY <1>2 DEF IsDistance
    <3> QED BY <1>1, <1>3, <3>1, BallsGrow
  <2> QED BY <2>1, <2>2
<1>5. ASSUME NEW a \in B[far] PROVE D[a] = CHOOSE n \in 0 .. far : IsDistance(B, a, n)
  <2>1. IsDistance(B, a, D[a]) /\ D[a] \in 0 .. far
    BY <1>2, <1>3, <1>4
  <2>2. \A n \in 0 .. far : IsDistance(B, a, n) => n = D[a]
    BY <1>1, <2>1, OneDistance
  <2> QED BY <2>1, <2>2
<1>6. D = [a \in B[far] |-> D[a]]
  BY <1>2, <1>4
<1>7. D = [a \in B[far] |-> CHOOSE n \in 0 .. far : IsDistance(B, a, n)]
  BY <1>5, <1>6
<1> QED BY <1>1, <1>7, WalksAre DEF D, far

-----------------------------------------------------------------------------
(* The groups of a graph *)

\* No hop of the graph leads out of these addresses, nor into them.
IsApart(graph, near) == \A f \in graph : Ends(f) \cap near # {} => Ends(f) \subseteq near

\* A set of addresses around k that nothing links with others, and no part of it is such a set.
IsIsland(graph, k, near) ==
    /\ k \in near /\ IsApart(graph, near)
    /\ \A other : k \in other /\ IsApart(graph, other) => near \subseteq other

LEMMA ApartIs ==
    ASSUME NEW graph, NEW near
    PROVE  IsApart(graph, near) <=> Onward(Undirected(graph), near) \subseteq near
<1> DEFINE U == Undirected(graph)
<1>1. ASSUME IsApart(graph, near), NEW e \in U, e[1] \in near PROVE e[2] \in near
  <2>1. PICK f \in graph : e = <<Sender(f), Receiver(f)>> \/ e = <<Receiver(f), Sender(f)>>
    BY <1>1 DEF Undirected
  <2>2. e[1] \in Ends(f) /\ e[2] \in Ends(f)
    BY <2>1 DEF Ends
  <2> QED BY <1>1, <2>2 DEF IsApart
<1>2. ASSUME Onward(U, near) \subseteq near, NEW f \in graph, Ends(f) \cap near # {}
      PROVE  Ends(f) \subseteq near
  <2>1. <<Sender(f), Receiver(f)>> \in U /\ <<Receiver(f), Sender(f)>> \in U
    BY DEF Undirected
  <2>2. Ends(f) = {Sender(f), Receiver(f)}
    BY DEF Ends
  <2> HIDE DEF U
  <2>3. Sender(f) \in near => Receiver(f) \in near
    BY <1>2, <2>1 DEF Onward
  <2>4. Receiver(f) \in near => Sender(f) \in near
    BY <1>2, <2>1 DEF Onward
  <2> QED BY <1>2, <2>2, <2>3, <2>4
<1> QED BY <1>1, <1>2 DEF IsApart, Onward

LEMMA UndirectedFinite ==
    ASSUME NEW graph, IsFiniteSet(graph)
    PROVE  IsFiniteSet(Undirected(graph))
<1> DEFINE there == {<<Sender(f), Receiver(f)>> : f \in graph}
           back == {<<Receiver(f), Sender(f)>> : f \in graph}
<1>1. IsFiniteSet(there)
  <2> DEFINE g == [f \in graph |-> <<Sender(f), Receiver(f)>>]
  <2>1. g \in Surjection(graph, there)
    BY DEF Surjection
  <2> HIDE DEF g, there
  <2> QED BY <2>1, FS_Surjection
<1>2. IsFiniteSet(back)
  <2> DEFINE g == [f \in graph |-> <<Receiver(f), Sender(f)>>]
  <2>1. g \in Surjection(graph, back)
    BY DEF Surjection
  <2> HIDE DEF g, back
  <2> QED BY <2>1, FS_Surjection
<1>3. Undirected(graph) = there \cup back
  BY DEF Undirected
<1> HIDE DEF there, back
<1> QED BY <1>1, <1>2, <1>3, FS_Union

LEMMA ComponentIsIsland ==
    ASSUME NEW graph, IsFiniteSet(graph), NEW k
    PROVE  IsIsland(graph, k, Component(graph, k))
<1> DEFINE U == Undirected(graph)
           D == bfsDepths(U, k)
<1>1. IsFiniteSet(U)
  BY UndirectedFinite
<1>2. PICK B : AreBalls(B, U, k)
  BY BallsExist
<1>3. /\ k \in DOMAIN D /\ Onward(U, DOMAIN D) \subseteq DOMAIN D
      /\ \A a \in DOMAIN D : IsDistance(B, a, D[a])
  BY <1>1, <1>2, BfsFinds
<1>4. Component(graph, k) = DOMAIN D
  BY DEF Component
<1> HIDE DEF D
<1>5. IsApart(graph, DOMAIN D)
  BY <1>3, ApartIs
<1>6. ASSUME NEW other, k \in other, IsApart(graph, other) PROVE DOMAIN D \subseteq other
  <2>1. Onward(U, other) \subseteq other
    BY <1>6, ApartIs
  <2> HIDE DEF U
  <2>2. ASSUME NEW a \in DOMAIN D PROVE a \in other
    <3>1. a \in B[D[a]] /\ D[a] \in Nat
      BY <1>3 DEF IsDistance
    <3> QED BY <1>2, <1>6, <2>1, <3>1, BallsStay
  <2> QED BY <2>2
<1> QED BY <1>3, <1>4, <1>5, <1>6 DEF IsIsland

\* The rings around k grow until nothing links them with other addresses: as long as they
\* do, they take in a hop more.
LEMMA LinkableIsIsland ==
    ASSUME NEW graph, IsFiniteSet(graph), NEW k
    PROVE  IsIsland(graph, k, Linkable(graph, k))
<1> DEFINE far == Cardinality(graph)
           V == {k} \cup UNION {Ends(f) : f \in graph}
           wider(near) == near \cup UNION {Ends(f) : f \in {g \in graph : Ends(g) \cap near # {}}}
           Eq(it) == it = [n \in 0 .. far |-> IF n = 0 THEN {k} ELSE wider(it[n - 1])]
           Ring == CHOOSE it : Eq(it)
           G == [near \in SUBSET V |-> wider(near)]
<1>1. far \in Nat
  BY FS_CardinalityType
<1>2. Linkable(graph, k) = Ring[far]
  BY DEF Linkable
<1>3. G \in [SUBSET V -> SUBSET V] /\ {k} \in SUBSET V
  OBVIOUS
<1>4. \A near \in SUBSET V : G[near] = wider(near)
  OBVIOUS
<1>5. \A near : near \subseteq wider(near)
  OBVIOUS
<1>6. \A near : \A f \in graph : Ends(f) \cap near # {} => Ends(f) \subseteq wider(near)
  OBVIOUS
<1>7. ASSUME NEW near, NEW other, near \subseteq other, IsApart(graph, other) PROVE wider(near) \subseteq other
  BY <1>7 DEF IsApart
<1> HIDE DEF G, V, far, wider
<1>8. PICK g \in [0 .. far -> SUBSET V] : IsRound(g, far, {k}, G)
  BY <1>1, <1>3, Rounds
<1>9. g[0] = {k} /\ \A n \in 1 .. far : n \in 0 .. far /\ n - 1 \in 0 .. far /\ g[n] = wider(g[n - 1])
  <2>1. ASSUME NEW n \in 1 .. far PROVE n \in 0 .. far /\ n - 1 \in 0 .. far /\ g[n] = wider(g[n - 1])
    <3>1. n \in 0 .. far /\ n - 1 \in 0 .. far
      BY <1>1
    <3>2. g[n] = G[g[n - 1]]
      BY <1>8 DEF IsRound
    <3> QED BY <1>4, <1>8, <3>1, <3>2
  <2> QED BY <1>8, <2>1 DEF IsRound
<1>10. Eq(g)
  <2> SUFFICES ASSUME NEW n \in 0 .. far PROVE g[n] = IF n = 0 THEN {k} ELSE wider(g[n - 1])
    BY <1>8
  <2>1. n # 0 => n \in 1 .. far
    BY <1>1
  <2> QED BY <1>9, <2>1
<1>11. Eq(Ring)
  <2> HIDE DEF Eq
  <2> QED BY <1>10
<1> HIDE DEF Ring
<1>12. \A n \in 0 .. far : Ring[n] = g[n]
  <2> DEFINE off == {n \in 0 .. far : Ring[n] # g[n]}
  <2> SUFFICES ASSUME off # {} PROVE FALSE
    OBVIOUS
  <2>1. PICK m \in off : \A n \in off : m <= n
    <3>1. off \subseteq Nat
      OBVIOUS
    <3> HIDE DEF off
    <3> QED BY <3>1, LeastOf
  <2>2. \A n \in 0 .. far : Ring[n] = IF n = 0 THEN {k} ELSE wider(Ring[n - 1])
    BY <1>11
  <2> HIDE DEF Eq
  <2>3. m # 0
    BY <1>9, <2>1, <2>2
  <2>4. m - 1 \in 0 .. far /\ m - 1 \notin off /\ m \in 1 .. far
    BY <1>1, <2>1, <2>3
  <2>5. Ring[m - 1] = g[m - 1] /\ Ring[m] = wider(Ring[m - 1])
    BY <2>2, <2>3, <2>4
  <2>6. Ring[m] = g[m]
    BY <1>9, <2>4, <2>5
  <2> QED BY <2>1, <2>6
<1>13. far \in 0 .. far /\ Linkable(graph, k) = g[far]
  BY <1>1, <1>2, <1>12
<1> DEFINE inside(n) == {f \in graph : Ends(f) \subseteq g[n]}
           stopped == {n \in 0 .. far : IsApart(graph, g[n])}
           count == [n \in 0 .. far |-> Cardinality(inside(n))]
<1>14. ASSUME NEW n \in 0 .. far
       PROVE  /\ inside(n) \subseteq graph /\ IsFiniteSet(inside(n)) /\ Cardinality(inside(n)) \in Nat
              /\ Cardinality(inside(n)) <= far /\ (Cardinality(inside(n)) = far => inside(n) = graph)
  <2>1. inside(n) \in SUBSET graph
    OBVIOUS
  <2> HIDE DEF inside
  <2> QED BY <2>1, FS_Subset, FS_CardinalityType DEF far
<1>15. ASSUME NEW n \in 1 .. far
       PROVE  IF n - 1 \in stopped THEN n \in stopped ELSE count[n] \in Int /\ count[n] >= count[n - 1] + 1
  <2>1. n \in 0 .. far /\ n - 1 \in 0 .. far /\ g[n] = wider(g[n - 1])
    BY <1>9
  <2>2. g[n - 1] \subseteq g[n]
    BY <1>5, <2>1
  <2>3. CASE n - 1 \in stopped
    <3>1. IsApart(graph, g[n - 1])
      BY <2>3
    <3>2. g[n] \subseteq g[n - 1]
      BY <1>7, <2>1, <3>1
    <3>3. g[n] = g[n - 1]
      BY <2>2, <3>2
    <3> QED BY <2>1, <2>3, <3>1, <3>3
  <2>4. CASE n - 1 \notin stopped
    <3>1. PICK f \in graph : Ends(f) \cap g[n - 1] # {} /\ ~(Ends(f) \subseteq g[n - 1])
      BY <2>1, <2>4 DEF IsApart
    <3>2. Ends(f) \subseteq g[n]
      BY <1>6, <2>1, <3>1
    <3>3. inside(n - 1) \subseteq inside(n) /\ f \in inside(n) /\ f \notin inside(n - 1)
      BY <2>2, <3>1, <3>2
    <3>4. count[n] = Cardinality(inside(n)) /\ count[n - 1] = Cardinality(inside(n - 1))
      BY <2>1
    <3> HIDE DEF inside, count
    <3>5. Cardinality(inside(n - 1) \cup {f}) = Cardinality(inside(n - 1)) + 1
      BY <1>14, <2>1, <3>3, FS_AddElement
    <3>6. inside(n - 1) \cup {f} \in SUBSET inside(n)
      BY <3>3
    <3>7. Cardinality(inside(n - 1) \cup {f}) <= Cardinality(inside(n))
      BY <1>14, <2>1, <3>6, FS_Subset
    <3>8. Cardinality(inside(n)) \in Nat /\ Cardinality(inside(n - 1)) \in Nat
      BY <1>14, <2>1
    <3> QED BY <2>4, <3>4, <3>5, <3>7, <3>8
  <2> QED BY <2>3, <2>4
<1>16. count[0] \in Nat
  <2>1. 0 \in 0 .. far
    BY <1>1
  <2> HIDE DEF inside
  <2> QED BY <1>14, <2>1
<1> HIDE DEF count, stopped
<1>17. IsApart(graph, g[far])
  <2>1. far \in stopped \/ (count[far] \in Int /\ count[far] >= far)
    BY <1>1, <1>15, <1>16, CountsUp
  <2>2. CASE far \in stopped
    BY <2>2 DEF stopped
  <2>3. CASE far \notin stopped
    <3>1. count[far] = Cardinality(inside(far))
      BY <1>13 DEF count
    <3>2. Cardinality(inside(far)) <= far /\ Cardinality(inside(far)) \in Nat
      BY <1>13, <1>14
    <3>3. Cardinality(inside(far)) = far
      <4> HIDE DEF inside
      <4> QED BY <1>1, <2>1, <2>3, <3>1, <3>2
    <3>4. inside(far) = graph
      BY <1>13, <1>14, <3>3
    <3> QED BY <3>4 DEF IsApart
  <2> QED BY <2>2, <2>3
<1>18. ASSUME NEW n \in 0 .. far, NEW other, k \in other, IsApart(graph, other)
       PROVE  k \in g[n] /\ g[n] \subseteq other
  <2> DEFINE bad == {i \in 0 .. far : ~(k \in g[i] /\ g[i] \subseteq other)}
  <2> SUFFICES ASSUME bad # {} PROVE FALSE
    OBVIOUS
  <2>1. PICK m \in bad : \A i \in bad : m <= i
    <3>1. bad \subseteq Nat
      OBVIOUS
    <3> HIDE DEF bad
    <3> QED BY <3>1, LeastOf
  <2>2. m # 0
    BY <1>9, <1>18, <2>1
  <2>3. m \in 1 .. far /\ m - 1 \in 0 .. far /\ m - 1 \notin bad
    BY <1>1, <2>1, <2>2
  <2>4. k \in g[m - 1] /\ g[m - 1] \subseteq other /\ g[m] = wider(g[m - 1])
    BY <1>9, <2>3
  <2>5. k \in g[m] /\ g[m] \subseteq other
    BY <1>5, <1>7, <1>18, <2>4
  <2> QED BY <2>1, <2>5
<1>19. k \in g[far]
  <2>1. k \in V \cup {k} /\ IsApart(graph, V \cup {k})
    BY DEF IsApart, V
  <2> QED BY <1>13, <1>18, <2>1
<1> QED BY <1>13, <1>17, <1>18, <1>19 DEF IsIsland

LEMMA IslandsAreOne ==
    ASSUME NEW graph, NEW k, NEW one, NEW two, IsIsland(graph, k, one), IsIsland(graph, k, two)
    PROVE  one = two
BY DEF IsIsland

\* Islands do not overlap.
LEMMA IslandsAreSame ==
    ASSUME NEW graph, NEW k, NEW l, NEW one, NEW two,
           IsIsland(graph, k, one), IsIsland(graph, l, two), one \cap two # {}
    PROVE  one = two
<1>1. PICK x \in one \cap two : TRUE
  OBVIOUS
<1>2. ASSUME NEW near, NEW other, IsApart(graph, near), IsApart(graph, other)
      PROVE  IsApart(graph, near \ other)
  <2> SUFFICES ASSUME NEW f \in graph, Ends(f) \cap (near \ other) # {} PROVE Ends(f) \subseteq near \ other
    BY DEF IsApart
  <2>1. Ends(f) \subseteq near
    BY <1>2 DEF IsApart
  <2>2. Ends(f) \cap other = {}
    BY <1>2 DEF IsApart
  <2> QED BY <2>1, <2>2
<1>3. k \in two
  <2> SUFFICES ASSUME k \notin two PROVE FALSE
    OBVIOUS
  <2>1. IsApart(graph, one \ two) /\ k \in one \ two
    BY <1>2 DEF IsIsland
  <2>2. one \subseteq one \ two
    BY <2>1 DEF IsIsland
  <2> QED BY <1>1, <2>2
<1>4. l \in one
  <2> SUFFICES ASSUME l \notin one PROVE FALSE
    OBVIOUS
  <2>1. IsApart(graph, two \ one) /\ l \in two \ one
    BY <1>2 DEF IsIsland
  <2>2. two \subseteq two \ one
    BY <2>1 DEF IsIsland
  <2> QED BY <1>1, <2>2
<1> QED BY <1>3, <1>4 DEF IsIsland

-----------------------------------------------------------------------------
(* Places of nodes *)

LEMMA FindsFinite == IsFiniteSet(Finds) /\ DOMAIN Found = 1 .. Len(Found) /\ Len(Found) \in Nat
<1>1. DOMAIN Found = 1 .. Len(Found) /\ Len(Found) \in Nat
  BY MuleAnalysisAssumption
<1> DEFINE g == [i \in 1 .. Len(Found) |-> Found[i]]
<1>2. g \in Surjection(1 .. Len(Found), Finds)
  BY <1>1 DEF Surjection, Finds, ToSet
<1>3. IsFiniteSet(1 .. Len(Found))
  BY <1>1, FS_Interval
<1> HIDE DEF g
<1> QED BY <1>1, <1>2, <1>3, FS_Surjection

\* Every key has a place of its own in the order of the hops.
LEMMA SpotsDiffer ==
    /\ \A k \in Keys : Spot[k] \in Nat
    /\ \A k, l \in Keys : Spot[k] = Spot[l] => k = l
<1> DEFINE of(k) == {i \in DOMAIN Found : k \in Ends(Found[i])}
           first(k) == CHOOSE i \in of(k) : \A j \in of(k) : i <= j
<1>1. \A k \in Keys : Spot[k] = IF k = Sender(Found[first(k)]) THEN 2 * first(k) ELSE 2 * first(k) + 1
  BY DEF Spot
<1>2. ASSUME NEW k \in Keys
      PROVE  first(k) \in Nat /\ (k = Sender(Found[first(k)]) \/ k = Receiver(Found[first(k)]))
  <2>1. PICK f \in Finds : k \in Ends(f)
    BY DEF Keys
  <2>2. PICK i \in DOMAIN Found : f = Found[i]
    BY DEF Finds, ToSet
  <2>3. of(k) \subseteq Nat /\ of(k) # {}
    BY <2>1, <2>2, FindsFinite
  <2>4. first(k) \in of(k)
    <3> HIDE DEF of
    <3>1. \E m \in of(k) : \A n \in of(k) : m <= n
      BY <2>3, LeastOf
    <3> QED BY <3>1
  <2> HIDE DEF first
  <2>5. k \in Ends(Found[first(k)]) /\ first(k) \in Nat
    BY <2>3, <2>4
  <2> QED BY <2>5 DEF Ends
<1> HIDE DEF first
<1>3. ASSUME NEW k \in Keys PROVE Spot[k] \in Nat
  BY <1>1, <1>2
<1>4. ASSUME NEW k \in Keys, NEW l \in Keys, Spot[k] = Spot[l] PROVE k = l
  <2> DEFINE i == first(k)
             j == first(l)
             s == Sender(Found[i])
             t == Sender(Found[j])
  <2>1. i \in Nat /\ j \in Nat
    BY <1>2
  <2>2. Spot[k] = (IF k = s THEN 2 * i ELSE 2 * i + 1) /\ Spot[l] = (IF l = t THEN 2 * j ELSE 2 * j + 1)
    BY <1>1
  <2> HIDE DEF i, j, s, t
  <2>3. i = j /\ (k = s <=> l = t)
    <3>1. CASE k = s /\ l = t
      <4>1. 2 * i = 2 * j
        BY <1>4, <2>2, <3>1
      <4> QED BY <2>1, <3>1, <4>1
    <3>2. CASE k # s /\ l # t
      <4>1. 2 * i + 1 = 2 * j + 1
        BY <1>4, <2>2, <3>2
      <4> QED BY <2>1, <3>2, <4>1
    <3>3. CASE k = s /\ l # t
      <4>1. 2 * i = 2 * j + 1
        BY <1>4, <2>2, <3>3
      <4> QED BY <2>1, <4>1
    <3>4. CASE k # s /\ l = t
      <4>1. 2 * i + 1 = 2 * j
        BY <1>4, <2>2, <3>4
      <4> QED BY <2>1, <4>1
    <3> QED BY <3>1, <3>2, <3>3, <3>4
  <2>4. s = t
    BY <2>3 DEF s, t
  <2>5. (k # s => k = Receiver(Found[i])) /\ (l # t => l = Receiver(Found[j]))
    BY <1>2 DEF i, j, s, t
  <2> QED BY <2>3, <2>4, <2>5
<1> QED BY <1>3, <1>4

LEMMA KeysOfFinds ==
    ASSUME NEW graph \in SUBSET Finds
    PROVE  IsFiniteSet(graph) /\ KeysOf(graph) \subseteq Keys /\ IsFiniteSet(KeysOf(graph))
<1>1. IsFiniteSet(graph)
  BY FindsFinite, FS_Subset
<1>2. KeysOf(graph) \subseteq Keys
  BY DEF KeysOf, Keys
<1> DEFINE senders == {Sender(f) : f \in graph}
           receivers == {Receiver(f) : f \in graph}
<1>3. IsFiniteSet(senders)
  <2> DEFINE g == [f \in graph |-> Sender(f)]
  <2>1. g \in Surjection(graph, senders)
    BY DEF Surjection
  <2> HIDE DEF g, senders
  <2> QED BY <1>1, <2>1, FS_Surjection
<1>4. IsFiniteSet(receivers)
  <2> DEFINE g == [f \in graph |-> Receiver(f)]
  <2>1. g \in Surjection(graph, receivers)
    BY DEF Surjection
  <2> HIDE DEF g, receivers
  <2> QED BY <1>1, <2>1, FS_Surjection
<1>5. KeysOf(graph) = senders \cup receivers
  BY DEF KeysOf, Ends
<1> HIDE DEF senders, receivers
<1> QED BY <1>1, <1>2, <1>3, <1>4, <1>5, FS_Union

\* Two addresses are in one group exactly when they are in one component, whatever the
\* places of its nodes.
LEMMA GroupsAreComponents ==
    ASSUME NEW graph \in SUBSET Finds
    PROVE  /\ DOMAIN Groups(graph) = KeysOf(graph)
           /\ \A k, l \in KeysOf(graph) : Groups(graph)[k] = Groups(graph)[l] <=> l \in Component(graph, k)
           /\ \A k \in KeysOf(graph) : Component(graph, k) \subseteq KeysOf(graph)
<1> DEFINE K == KeysOf(graph)
           C(k) == Component(graph, k)
           upto(k) == {x \in K : Spot[x] <= Spot[k]}
           place(k) == Cardinality(upto(k))
           members(k) == {place(l) : l \in C(k)}
           least(k) == CHOOSE i \in members(k) : \A j \in members(k) : i <= j
<1>1. Groups(graph) = [k \in K |-> least(k)]
  BY DEF Groups
<1>2. ASSUME NEW k PROVE IsIsland(graph, k, C(k))
  BY KeysOfFinds, ComponentIsIsland
<1>3. ASSUME NEW k \in K PROVE C(k) \subseteq K
  <2>1. IsApart(graph, K)
    BY DEF IsApart, KeysOf
  <2> QED BY <1>2, <2>1 DEF IsIsland
<1>4. ASSUME NEW k \in K, NEW l \in K PROVE l \in C(k) <=> C(l) = C(k)
  <2>1. k \in C(k) /\ l \in C(l)
    BY <1>2 DEF IsIsland
  <2>2. l \in C(k) => C(l) \cap C(k) # {}
    BY <2>1
  <2> HIDE DEF C
  <2> QED BY <1>2, <2>1, <2>2, IslandsAreSame
<1>5. ASSUME NEW k \in K PROVE upto(k) \in SUBSET K /\ IsFiniteSet(upto(k)) /\ place(k) \in Nat
  <2>1. upto(k) \in SUBSET K
    OBVIOUS
  <2> HIDE DEF upto
  <2> QED BY <2>1, KeysOfFinds, FS_Subset, FS_CardinalityType
<1>6. ASSUME NEW k \in K, NEW l \in K, Spot[k] < Spot[l] PROVE place(k) # place(l)
  <2>1. Spot[k] \in Nat /\ Spot[l] \in Nat /\ \A x \in K : Spot[x] \in Nat
    BY KeysOfFinds, SpotsDiffer
  <2>2. upto(k) \in SUBSET upto(l) /\ l \in upto(l) /\ l \notin upto(k)
    BY <1>6, <2>1
  <2> HIDE DEF upto
  <2> QED BY <1>5, <2>2, FS_Subset
<1>7. ASSUME NEW k \in K, NEW l \in K, place(k) = place(l) PROVE k = l
  <2>1. Spot[k] \in Nat /\ Spot[l] \in Nat /\ (Spot[k] = Spot[l] => k = l)
    BY KeysOfFinds, SpotsDiffer
  <2> HIDE DEF place
  <2> QED BY <1>6, <1>7, <2>1
<1>8. ASSUME NEW k \in K PROVE least(k) \in members(k)
  <2>1. k \in C(k)
    BY <1>2 DEF IsIsland
  <2>2. members(k) \subseteq Nat /\ members(k) # {}
    <3> HIDE DEF place, C
    <3> QED BY <1>3, <1>5, <2>1
  <2> HIDE DEF members
  <2>3. \E m \in members(k) : \A n \in members(k) : m <= n
    BY <2>2, LeastOf
  <2> QED BY <2>3
<1>9. ASSUME NEW k \in K, NEW l \in K PROVE least(k) = least(l) <=> l \in C(k)
  <2>1. CASE l \in C(k)
    <3>1. C(l) = C(k)
      BY <1>4, <2>1
    <3>2. members(l) = members(k)
      BY <3>1
    <3> HIDE DEF members
    <3> QED BY <2>1, <3>2
  <2>2. CASE least(k) = least(l)
    <3> HIDE DEF least
    <3>1. least(k) \in members(k) /\ least(k) \in members(l)
      BY <1>8, <2>2
    <3> HIDE DEF place, C
    <3>2. PICK x \in C(k) : least(k) = place(x)
      BY <3>1
    <3>3. PICK y \in C(l) : least(k) = place(y)
      BY <3>1
    <3>4. x = y
      BY <1>3, <1>7, <3>2, <3>3
    <3>5. C(k) = C(l)
      BY <1>2, <3>2, <3>3, <3>4, IslandsAreSame
    <3> QED BY <1>4, <2>2, <3>5
  <2> QED BY <2>1, <2>2
<1> HIDE DEF least, C
<1> QED BY <1>1, <1>3, <1>9 DEF C

\* The rows of the groups of a graph say which addresses transfers connect.
LEMMA GroupsAreLinked ==
    ASSUME NEW graph \in SUBSET Finds, NEW k \in KeysOf(graph)
    PROVE  {l \in KeysOf(graph) : Groups(graph)[l] = Groups(graph)[k]} = Linkable(graph, k)
<1>1. Component(graph, k) = Linkable(graph, k)
  BY KeysOfFinds, ComponentIsIsland, LinkableIsIsland, IslandsAreOne
<1>2. \A l \in KeysOf(graph) : Groups(graph)[l] = Groups(graph)[k] <=> l \in Component(graph, k)
  BY GroupsAreComponents
<1>3. Component(graph, k) \subseteq KeysOf(graph)
  BY GroupsAreComponents
<1> QED BY <1>1, <1>2, <1>3

-----------------------------------------------------------------------------
(* Distances of addresses *)

LEMMA EdgesFinite ==
    ASSUME AnalysisTypeOK, NEW t
    PROVE  IsFiniteSet(EdgesOf(t))
<1> DEFINE mine == {g \in stored : g.trace = t}
           pairs == {<<f.from, f.to>> : f \in mine}
           h == [f \in mine |-> <<f.from, f.to>>]
<1>1. mine \in SUBSET Finds
  BY DEF AnalysisTypeOK
<1>2. EdgesOf(t) = pairs /\ h \in Surjection(mine, pairs)
  BY DEF EdgesOf, Surjection
<1> HIDE DEF mine, pairs, h
<1>3. IsFiniteSet(mine)
  BY <1>1, KeysOfFinds
<1> QED BY <1>2, <1>3, FS_Surjection

\* The way to the source itself is empty.
LEMMA SourceIsNear ==
    ASSUME NEW edges, NEW source, IsFiniteSet(edges)
    PROVE  /\ source \in DOMAIN bfsDepths(edges, source) /\ bfsDepths(edges, source)[source] = 0
           /\ \A a \in DOMAIN bfsDepths(edges, source) : bfsDepths(edges, source)[a] \in Nat
<1> DEFINE D == bfsDepths(edges, source)
<1>1. PICK B : AreBalls(B, edges, source)
  BY BallsExist
<1>2. /\ D \in [DOMAIN D -> Nat] /\ source \in DOMAIN D
      /\ \A a \in DOMAIN D : IsDistance(B, a, D[a])
  BY <1>1, BfsFinds
<1>3. IsDistance(B, source, 0)
  BY <1>1 DEF AreBalls, IsDistance
<1> HIDE DEF D
<1>4. IsDistance(B, source, D[source])
  BY <1>2
<1>5. D[source] = 0
  BY <1>1, <1>3, <1>4, OneDistance
<1> QED BY <1>2, <1>5 DEF D

LEMMA NearestIs ==
    ASSUME NEW edges, NEW source, IsFiniteSet(edges), NEW goal
    PROVE  HopsToNearest(edges, source, {goal}) =
              IF goal \in DOMAIN bfsDepths(edges, source) THEN bfsDepths(edges, source)[goal] ELSE Never
<1> DEFINE D == bfsDepths(edges, source)
           found == {D[t] : t \in {goal} \cap DOMAIN D}
           least == CHOOSE d \in found : \A e \in found : d <= e
<1>1. source \in DOMAIN D /\ D[source] = 0 /\ \A a \in DOMAIN D : D[a] \in Nat
  BY SourceIsNear
<1>2. HopsToNearest(edges, source, {goal}) =
         CASE source \in {goal} -> 0
           [] source \notin {goal} /\ found = {} -> Never
           [] OTHER -> least
  BY DEF HopsToNearest
<1> HIDE DEF D
<1>3. CASE goal \in DOMAIN D
  <2>1. found = {D[goal]}
    BY <1>3
  <2>2. least = D[goal]
    <3> HIDE DEF found
    <3> QED BY <1>1, <1>3, <2>1
  <2> HIDE DEF found, least
  <2> QED BY <1>1, <1>2, <1>3, <2>1, <2>2 DEF D
<1>4. CASE goal \notin DOMAIN D
  <2>1. found = {} /\ goal # source
    BY <1>1, <1>4
  <2> HIDE DEF found, least
  <2> QED BY <1>2, <1>4, <2>1 DEF D
<1> QED BY <1>3, <1>4 DEF D

\* For every set of hops and every trace: the depths are the lengths of the shortest walks, and
\* the nearest target is as far as it is.
THEOREM DepthsAreRight == AnalysisSpec => []DepthsAreDistances
<1>1. AnalysisTypeOK => DepthsAreDistances
  <2> SUFFICES ASSUME AnalysisTypeOK, NEW t \in Traces
               PROVE  LET walks == ShortestWalks(EdgesOf(t), SeedOf[t])
                          d(goal) == HopsToNearest(EdgesOf(t), SeedOf[t], {goal})
                      IN  /\ bfsDepths(EdgesOf(t), SeedOf[t]) = walks
                          /\ \A goal \in Addresses :
                                d(goal) = IF goal \in DOMAIN walks THEN walks[goal] ELSE Never
    BY DEF DepthsAreDistances
  <2> DEFINE edges == EdgesOf(t)
             source == SeedOf[t]
  <2>1. IsFiniteSet(edges)
    BY EdgesFinite
  <2> HIDE DEF edges, source
  <2>2. bfsDepths(edges, source) = ShortestWalks(edges, source)
    BY <2>1, BfsIsShortest
  <2>3. \A goal : HopsToNearest(edges, source, {goal}) =
              IF goal \in DOMAIN bfsDepths(edges, source) THEN bfsDepths(edges, source)[goal] ELSE Never
    BY <2>1, NearestIs
  <2> QED BY <2>2, <2>3 DEF edges, source
<1> QED BY <1>1, AnalysisTypeCorrect, PTL

-----------------------------------------------------------------------------
(* The rows of a case. An analysis that no other one of its case has met   *)
(* is alone in writing them, and what it reads covers what is there.       *)

\* The hops of a case, and the keys a projection of these hops has.
HopsOf(st, c) == {f \in st : CaseOf[f.trace] = c}
View(st, finds) == KeysOf({g \in st : g.tx \in {f.tx : f \in finds}})
Sight(st, c) == View(st, HopsOf(st, c))

Before == Early \cup {"project"}

\* The components have been streamed.
Streamed(r) ==
    \/ r.pc = "stream" /\ r.left # 4
    \/ r.pc = "tidy" /\ ~r.failed
    \/ r.pc = "rows"

\* What is read are hops of the case, until the components are streamed ...
SeenRight(r, st) ==
    /\ r.pc \in Before => r.seen \subseteq HopsOf(st, r.case)
    /\ r.pc = "stream" => r.left \in 1 .. 4

\* ... and then a projection of such hops, with its groups; ...
GroupRight(r, st) == Streamed(r) =>
    /\ KeysOf(r.seen) \subseteq Sight(st, r.case)
    /\ DOMAIN r.group \subseteq KeysOf(r.seen)
    /\ r.pc # "rows" => DOMAIN r.group = KeysOf(r.seen)
    /\ \A k \in DOMAIN r.group : r.group[k] = Groups(r.seen)[k]

\* ... an analysis that has met no other one of its case will have all the keys that have
\* a row, and has written the rows of the groups it no longer holds.
AloneRight(r, st, table, graph) == r.pc # "idle" /\ ~r.met =>
    /\ r.pc \in Before => DOMAIN table \subseteq View(st, r.seen)
    /\ r.pc = "stream" /\ r.left = 4 /\ graph # NoGraph => DOMAIN table \subseteq KeysOf(graph)
    /\ Streamed(r) =>
          /\ DOMAIN table \subseteq KeysOf(r.seen)
          /\ \A k \in KeysOf(r.seen) \ DOMAIN r.group : k \in DOMAIN table /\ table[k] = Groups(r.seen)[k]

RunRight(r, st, table, graph) ==
    SeenRight(r, st) /\ GroupRight(r, st) /\ AloneRight(r, st, table, graph)

\* Two analyses of a case have met.
MetInv == \A o, p \in Officers :
    o # p /\ run[o].pc # "idle" /\ run[p].pc # "idle" /\ run[o].case = run[p].case => run[o].met

\* The rows and the projection of a case have keys that its hops lead to.
TableInv ==
    /\ DOMAIN rows = Cases /\ DOMAIN whole = Cases
    /\ \A c \in Cases :
          /\ DOMAIN rows[c] \subseteq Sight(stored, c)
          /\ catalog[c] # NoGraph => KeysOf(catalog[c]) \subseteq Sight(stored, c)

\* After an undisturbed analysis the rows are the groups of its projection.
WholeInv == \A c \in Cases : whole[c] # NoGraph =>
    /\ whole[c] \subseteq Finds
    /\ DOMAIN rows[c] = KeysOf(whole[c])
    /\ \A k \in DOMAIN rows[c] : rows[c][k] = Groups(whole[c])[k]

RunsRight == \A o \in Officers : RunRight(run[o], stored, rows[run[o].case], catalog[run[o].case])

RingIInv == MetInv /\ TableInv /\ WholeInv /\ RunsRight

-----------------------------------------------------------------------------
LEMMA ViewsAre ==
    /\ \A c : Hops(c) = HopsOf(stored, c)
    /\ \A finds : KeysOf(Projected({f.tx : f \in finds})) = View(stored, finds)
BY DEF Hops, HopsOf, Projected, View

\* More hops show more keys.
LEMMA ViewsGrow ==
    ASSUME NEW st, NEW st2, st \subseteq st2
    PROVE  /\ \A finds : View(st, finds) \subseteq View(st2, finds)
           /\ \A c : HopsOf(st, c) \subseteq HopsOf(st2, c)
           /\ \A c : Sight(st, c) \subseteq Sight(st2, c)
<1>1. \A c : HopsOf(st, c) \subseteq HopsOf(st2, c)
  BY DEF HopsOf
<1>2. ASSUME NEW one, NEW two, one \subseteq two PROVE View(st, one) \subseteq View(st2, two)
  BY <1>2 DEF View, KeysOf
<1>3. \A c : Sight(st, c) \subseteq Sight(st2, c)
  BY <1>1, <1>2 DEF Sight
<1> QED BY <1>1, <1>2, <1>3

LEMMA ViewOfSome ==
    ASSUME NEW st, NEW c, NEW finds, finds \subseteq HopsOf(st, c)
    PROVE  View(st, finds) \subseteq Sight(st, c)
BY DEF Sight, View, KeysOf

\* What an analysis knows does not change with what it does not know.
Alike(r, s) ==
    /\ s.pc = r.pc /\ s.case = r.case /\ s.seen = r.seen /\ s.left = r.left /\ s.group = r.group
    /\ s.failed = r.failed /\ (r.met => s.met)

LEMMA RightKept ==
    ASSUME NEW r, NEW s, NEW st, NEW st2, NEW table, NEW table2, NEW graph, NEW graph2,
           RunRight(r, st, table, graph), Alike(r, s), st \subseteq st2,
           s.pc # "idle" /\ ~s.met => table2 = table /\ graph2 = graph
    PROVE  RunRight(s, st2, table2, graph2)
<1>1. /\ \A finds : View(st, finds) \subseteq View(st2, finds)
      /\ \A c : HopsOf(st, c) \subseteq HopsOf(st2, c)
      /\ \A c : Sight(st, c) \subseteq Sight(st2, c)
  BY ViewsGrow
<1>2. Streamed(s) <=> Streamed(r)
  BY DEF Streamed, Alike
<1>3. SeenRight(s, st2)
  BY <1>1 DEF RunRight, SeenRight, Alike
<1>4. GroupRight(s, st2)
  BY <1>1, <1>2 DEF RunRight, GroupRight, Alike
<1>5. AloneRight(s, st2, table2, graph2)
  <2> SUFFICES ASSUME s.pc # "idle", ~s.met PROVE AloneRight(s, st2, table2, graph2)
    BY DEF AloneRight
  <2>1. table2 = table /\ graph2 = graph /\ AloneRight(r, st, table, graph)
    BY DEF RunRight
  <2>2. r.pc # "idle" /\ ~r.met
    BY DEF Alike
  <2>3. s.pc \in Before => DOMAIN table \subseteq View(st2, s.seen)
    BY <1>1, <2>1, <2>2 DEF AloneRight, Alike
  <2>4. s.pc = "stream" /\ s.left = 4 /\ graph # NoGraph => DOMAIN table \subseteq KeysOf(graph)
    BY <2>1, <2>2 DEF AloneRight, Alike
  <2>5. Streamed(s) =>
          /\ DOMAIN table \subseteq KeysOf(s.seen)
          /\ \A k \in KeysOf(s.seen) \ DOMAIN s.group : k \in DOMAIN table /\ table[k] = Groups(s.seen)[k]
    BY <1>2, <2>1, <2>2 DEF AloneRight, Alike
  <2> QED BY <2>1, <2>3, <2>4, <2>5 DEF AloneRight
<1> QED BY <1>3, <1>4, <1>5 DEF RunRight

\* An officer who has no analysis, or whose analysis is over, claims nothing.
LEMMA IdleIsRight ==
    ASSUME NEW r, NEW st, NEW table, NEW graph,
           r.pc = "idle" \/ (r.pc = "tidy" /\ r.failed = TRUE)
    PROVE  RunRight(r, st, table, graph)
BY DEF RunRight, SeenRight, GroupRight, AloneRight, Streamed, Before, Early

-----------------------------------------------------------------------------
(* What a step leaves alone *)

KeptBut(o) == \A p \in Officers \ {o} : Alike(run[p], run'[p])
OwnKept(o) == run'[o].pc = "idle" \/ (run'[o].case = run[o].case /\ run'[o].met = run[o].met)
Only(c) == \A d \in Cases \ {c} : rows'[d] = rows[d] /\ catalog'[d] = catalog[d] /\ whole'[d] = whole[d]
Moved(o) ==
    /\ DOMAIN run' = Officers /\ KeptBut(o) /\ OwnKept(o) /\ run[o].pc # "idle"
    /\ stored' = stored /\ DOMAIN rows' = DOMAIN rows /\ DOMAIN whole' = DOMAIN whole
    /\ Only(run[o].case)

\* The others stay right: one that is alone has another case.
LEMMA OthersRight ==
    ASSUME AnalysisTypeOK, RingIInv, NEW o \in Officers, Moved(o)
    PROVE  /\ MetInv'
           /\ \A p \in Officers \ {o} : RunRight(run'[p], stored', rows'[run'[p].case], catalog'[run'[p].case])
<1>1. ASSUME NEW p \in Officers, run'[p].pc # "idle"
      PROVE  run[p].pc # "idle" /\ run'[p].case = run[p].case /\ (run[p].met => run'[p].met)
  BY <1>1 DEF Moved, KeptBut, OwnKept, Alike
<1>2. MetInv'
  <2> SUFFICES ASSUME NEW p \in Officers, NEW q \in Officers, p # q, run'[p].pc # "idle",
                      run'[q].pc # "idle", run'[p].case = run'[q].case
               PROVE  run'[p].met
    BY DEF MetInv
  <2>1. run[p].met
    BY <1>1 DEF RingIInv, MetInv
  <2> QED BY <1>1, <2>1
<1>3. ASSUME NEW p \in Officers \ {o}
      PROVE  RunRight(run'[p], stored', rows'[run'[p].case], catalog'[run'[p].case])
  <2> DEFINE table == rows[run[p].case]
             graph == catalog[run[p].case]
             table2 == rows'[run'[p].case]
             graph2 == catalog'[run'[p].case]
             r == run[p]
             s == run'[p]
  <2>1. RunRight(r, stored, table, graph)
    BY DEF RingIInv, RunsRight
  <2>2. Alike(r, s) /\ stored \subseteq stored'
    BY DEF Moved, KeptBut
  <2>3. ASSUME s.pc # "idle", ~s.met PROVE table2 = table /\ graph2 = graph
    <3>1. run[p].pc # "idle" /\ ~run[p].met /\ run'[p].case = run[p].case
      BY <2>3, <2>2 DEF Alike
    <3>2. run[p].case # run[o].case
      BY <3>1 DEF RingIInv, MetInv, Moved
    <3>3. run[p].case \in Cases
      BY <3>1 DEF AnalysisTypeOK, IsRun
    <3> QED BY <3>1, <3>2, <3>3 DEF Moved, Only
  <2> HIDE DEF table, graph, table2, graph2, r, s
  <2>4. RunRight(s, stored', table2, graph2)
    BY <2>1, <2>2, <2>3, RightKept
  <2> QED BY <2>4 DEF table2, graph2, s
<1> QED BY <1>2, <1>3


\* Every step leaves the other analyses as they are, but for what these know of it.
LEMMA OthersAlike ==
    ASSUME AnalysisTypeOK, TodoInv, NEW o \in Officers, Step(o)
    PROVE  DOMAIN run' = Officers /\ KeptBut(o)
<1>1. DOMAIN run' = Officers /\ OthersSame(o)
  <2>1. \/ ReadTouches(o) \/ Share(o) \/ Drop(o) \/ Project(o) \/ Stream(o) \/ Tidy(o)
        \/ Flag(o) \/ Watch(o) \/ Upsert(o) \/ Answer(o)
        \/ CallFails(o) /\ run[o].pc \notin {"project", "stream"}
        \/ CallFails(o) /\ run[o].pc \in {"project", "stream"}
    BY DEF Step
  <2> QED BY <2>1, ReadEffect, ShareEffect, DropEffect, ProjectEffect, StreamEffect, TidyEffect,
             QuietEffect, CallFailsEffect
<1> QED BY <1>1 DEF OthersSame, Same, KeptBut, Alike

\* The steps before the projection.
StaysEarly(o) ==
    /\ run'[o].pc \in Before \cup {"idle"}
    /\ run'[o].pc # "idle" =>
          run'[o].seen = run[o].seen /\ run'[o].case = run[o].case /\ run'[o].met = run[o].met

LEMMA EarlyMoves ==
    ASSUME AnalysisTypeOK, TodoInv, NEW o \in Officers,
           ReadTouches(o) \/ Share(o) \/ Flag(o) \/ Watch(o) \/ Drop(o)
    PROVE  /\ Moved(o) /\ rows' = rows /\ whole' = whole
           /\ catalog' = catalog \/ catalog' = [catalog EXCEPT ![run[o].case] = NoGraph]
           /\ run[o].pc \in Before /\ StaysEarly(o)
<1>1. /\ stored' = stored /\ rows' = rows /\ whole' = whole
      /\ catalog' = catalog \/ catalog' = [catalog EXCEPT ![run[o].case] = NoGraph]
  BY DEF ReadTouches, Share, Flag, Watch, Drop, tables
<1>2. Only(run[o].case)
  BY <1>1 DEF AnalysisTypeOK, Only
<1>3. DOMAIN run' = Officers /\ KeptBut(o)
  BY OthersAlike DEF Step
<1>4. run[o].pc \in Before /\ run[o].pc # "idle"
  BY DEF ReadTouches, Share, Flag, Watch, Drop, At, Before, Early
<1>5. DOMAIN run = Officers /\ DOMAIN run[o] = Fields
  BY DEF AnalysisTypeOK, IsRun
<1>6. StaysEarly(o)
  <2>1. CASE ReadTouches(o)
    <3> DEFINE todo == Candidates(run[o].seen)
               beside == {p \in Officers \ {o} : At(p, "share")} # {}
    <3>1. run'[o] = [run[o] EXCEPT !.pc = "share", !.todo = todo, !.crossed = beside]
      BY <2>1 DEF ReadTouches
    <3> HIDE DEF todo, beside
    <3> QED BY <1>5, <3>1 DEF Fields, StaysEarly, Before, Early
  <2>2. CASE Share(o)
    <3>1. CASE run' = [run EXCEPT ![o].pc = "flag", ![o].crossed = FALSE]
      BY <1>5, <3>1 DEF Fields, StaysEarly, Before, Early
    <3>2. ASSUME NEW k, run' = [run EXCEPT ![o].todo = [l \in DOMAIN @ \ {k} |-> @[l]]] PROVE StaysEarly(o)
      <4> DEFINE todo == [l \in DOMAIN run[o].todo \ {k} |-> run[o].todo[l]]
      <4>1. run' = [run EXCEPT ![o].todo = todo]
        BY <3>2, <1>5
      <4> HIDE DEF todo
      <4>2. run[o].pc = "share"
        BY <2>2 DEF Share, At
      <4> QED BY <1>5, <4>1, <4>2 DEF Fields, StaysEarly, Before, Early
    <3> QED BY <2>2, <3>1, <3>2 DEF Share
  <2>3. CASE Flag(o)
    <3>1. CASE run' = [run EXCEPT ![o].pc = "watch"]
      BY <1>5, <3>1 DEF Fields, StaysEarly, Before, Early
    <3>2. CASE Fails(o)
      BY <1>5, <3>2 DEF Fails, NoRun, StaysEarly
    <3> QED BY <2>3, <3>1, <3>2 DEF Flag
  <2>4. CASE Watch(o)
    <3>1. run' = [run EXCEPT ![o].pc = "drop"]
      BY <2>4 DEF Watch
    <3> QED BY <1>5, <3>1 DEF Fields, StaysEarly, Before, Early
  <2>5. CASE Drop(o)
    <3> DEFINE clash == Clash(o) # {}
               mine == [run[o] EXCEPT !.pc = "project", !.clashed = clash]
    <3>1. InProjection(o)[o] = mine /\ DOMAIN InProjection(o) = Officers
      BY DEF InProjection
    <3>2. run'[o] = mine \/ run'[o] = [mine EXCEPT !.struck = TRUE]
      <4>1. run' = InProjection(o) \/ run' = [InProjection(o) EXCEPT ![o].struck = TRUE]
        BY <2>5 DEF Drop
      <4> HIDE DEF mine
      <4> QED BY <3>1, <4>1
    <3> HIDE DEF clash
    <3> QED BY <1>5, <3>2 DEF Fields, StaysEarly, Before, Early
  <2> QED BY <2>1, <2>2, <2>3, <2>4, <2>5
<1>7. OwnKept(o)
  BY <1>6 DEF OwnKept, StaysEarly
<1> QED BY <1>1, <1>2, <1>3, <1>4, <1>6, <1>7 DEF Moved


\* What a step has to keep.
LEMMA RingKept ==
    ASSUME AnalysisTypeOK, RingIInv, NEW o \in Officers, Moved(o), TableInv', WholeInv',
           RunRight(run'[o], stored', rows'[run'[o].case], catalog'[run'[o].case])
    PROVE  RingIInv'
BY OthersRight DEF RingIInv, RunsRight

LEMMA EarlyRight ==
    ASSUME AnalysisTypeOK, TodoInv, RingIInv, NEW o \in Officers,
           ReadTouches(o) \/ Share(o) \/ Flag(o) \/ Watch(o) \/ Drop(o)
    PROVE  RingIInv'
<1>1. /\ Moved(o) /\ rows' = rows /\ whole' = whole
      /\ catalog' = catalog \/ catalog' = [catalog EXCEPT ![run[o].case] = NoGraph]
      /\ run[o].pc \in Before /\ StaysEarly(o) /\ stored' = stored
  BY EarlyMoves DEF Moved
<1>2. TableInv'
  BY <1>1 DEF TableInv, RingIInv, AnalysisTypeOK
<1>3. WholeInv'
  BY <1>1 DEF WholeInv, RingIInv
<1> DEFINE r == run[o]
           s == run'[o]
           table == rows[r.case]
           graph == catalog[r.case]
           graph2 == catalog'[s.case]
<1>4. RunRight(r, stored, table, graph)
  BY DEF RingIInv, RunsRight
<1>5. s.pc \in Before \cup {"idle"} /\ r.pc \in Before
      /\ (s.pc # "idle" => s.seen = r.seen /\ s.case = r.case /\ s.met = r.met)
  BY <1>1 DEF StaysEarly
<1>6. r.pc # "idle"
  BY <1>5 DEF Before, Early
<1> HIDE DEF r, s, table, graph, graph2
<1>7. CASE s.pc = "idle"
  BY <1>1, <1>2, <1>3, <1>7, IdleIsRight, RingKept DEF s
<1>8. CASE s.pc # "idle"
  <2>1. s.pc # "stream" /\ ~Streamed(s)
    BY <1>5, <1>8 DEF Before, Early, Streamed
  <2>2. SeenRight(s, stored)
    BY <1>4, <1>5, <1>8, <2>1 DEF RunRight, SeenRight
  <2>3. GroupRight(s, stored)
    BY <2>1 DEF GroupRight
  <2>4. AloneRight(s, stored, table, graph2)
    BY <1>4, <1>5, <1>6, <1>8, <2>1 DEF RunRight, AloneRight
  <2>5. table = rows'[s.case]
    BY <1>1, <1>5, <1>8 DEF table
  <2> QED BY <1>1, <1>2, <1>3, <2>2, <2>3, <2>4, <2>5, RingKept DEF RunRight, s, graph2
<1> QED BY <1>7, <1>8

LEMMA ProjectRight ==
    ASSUME AnalysisTypeOK, TodoInv, RingIInv, NEW o \in Officers, Project(o)
    PROVE  RingIInv'
<1> DEFINE graph == Projected({f.tx : f \in run[o].seen})
           r == run[o]
           s == run'[o]
           c == run[o].case
           table == rows[c]
<1>1. DOMAIN run = Officers /\ DOMAIN run[o] = Fields /\ r.pc = "project" /\ c \in Cases
      /\ DOMAIN catalog = Cases
  BY DEF AnalysisTypeOK, IsRun, Project, At
<1>2. stored' = stored /\ rows' = rows /\ whole' = whole
  BY DEF Project, tables
<1>3. RunRight(r, stored, table, catalog[c])
  BY DEF RingIInv, RunsRight
<1>4. DOMAIN run' = Officers /\ KeptBut(o)
  BY OthersAlike DEF Step
<1>5. WholeInv'
  BY <1>2 DEF WholeInv, RingIInv
<1>6. KeysOf(graph) = View(stored, r.seen)
  BY ViewsAre
<1>7. KeysOf(graph) \subseteq Sight(stored, c)
  <2>1. r.seen \subseteq HopsOf(stored, c)
    BY <1>1, <1>3 DEF RunRight, SeenRight, Before
  <2> QED BY <1>6, <2>1, ViewOfSome
<1> HIDE DEF graph
<1>8. CASE catalog[c] = NoGraph
  <2>1. /\ catalog' = [catalog EXCEPT ![c] = graph]
        /\ run' = [run EXCEPT ![o].pc = "stream", ![o].left = 4]
    BY <1>8 DEF Project, graph
  <2>2. s.pc = "stream" /\ s.left = 4 /\ s.case = c /\ s.met = r.met
    BY <1>1, <2>1 DEF Fields
  <2>3. TableInv'
    BY <1>1, <1>2, <1>7, <2>1 DEF TableInv, RingIInv
  <2>4. Moved(o)
    BY <1>1, <1>2, <1>4, <2>1, <2>2 DEF Moved, OwnKept, Only
  <2>5. catalog'[s.case] = graph /\ rows'[s.case] = table
    BY <1>1, <1>2, <2>1, <2>2
  <2>6. s.met \/ DOMAIN table \subseteq View(stored, r.seen)
    BY <1>1, <1>3, <2>2 DEF RunRight, AloneRight, Before
  <2> HIDE DEF s, r, table, c
  <2>7. RunRight(s, stored, table, graph)
    BY <1>6, <2>2, <2>6 DEF RunRight, SeenRight, GroupRight, AloneRight, Streamed, Before, Early
  <2> QED BY <1>2, <1>5, <2>3, <2>4, <2>5, <2>7, RingKept DEF s
<1>9. CASE catalog[c] # NoGraph
  <2>1. catalog' = catalog /\ run' = [run EXCEPT ![o].pc = "tidy", ![o].failed = TRUE]
    BY <1>9 DEF Project
  <2>2. s.pc = "tidy" /\ s.failed = TRUE /\ s.case = c /\ s.met = r.met
    BY <1>1, <2>1 DEF Fields
  <2>3. TableInv'
    BY <1>2, <2>1 DEF TableInv, RingIInv
  <2>4. Moved(o)
    BY <1>1, <1>2, <1>4, <2>1, <2>2 DEF Moved, OwnKept, Only
  <2> HIDE DEF s
  <2> QED BY <1>5, <2>2, <2>3, <2>4, IdleIsRight, RingKept DEF s
<1> QED BY <1>8, <1>9

LEMMA StreamRight ==
    ASSUME AnalysisTypeOK, TodoInv, RingIInv, NEW o \in Officers, Stream(o)
    PROVE  RingIInv'
<1> DEFINE r == run[o]
           s == run'[o]
           c == run[o].case
           table == rows[c]
           graph == catalog[c]
<1>1. DOMAIN run = Officers /\ DOMAIN run[o] = Fields /\ r.pc = "stream" /\ c \in Cases
      /\ DOMAIN catalog = Cases
  BY DEF AnalysisTypeOK, IsRun, Stream, At
<1>2. stored' = stored /\ rows' = rows /\ whole' = whole /\ catalog' = catalog
  BY DEF Stream, tables
<1>3. RunRight(r, stored, table, graph)
  BY DEF RingIInv, RunsRight
<1>4. DOMAIN run' = Officers /\ KeptBut(o)
  BY OthersAlike DEF Step
<1>5. WholeInv' /\ TableInv'
  BY <1>2 DEF WholeInv, TableInv, RingIInv
<1> DEFINE place == IF run[o].left = 1 THEN "tidy" ELSE "stream"
           on == [run[o] EXCEPT !.left = @ - 1, !.pc = place]
           first == [on EXCEPT !.seen = graph, !.group = Groups(graph)]
           bad == [run[o] EXCEPT !.pc = "tidy", !.left = 0, !.failed = TRUE]
<1>6. s = IF graph = NoGraph THEN bad ELSE IF r.left = 4 THEN first ELSE on
  BY <1>1 DEF Stream
<1>7. r.left \in 1 .. 4
  BY <1>1, <1>3 DEF RunRight, SeenRight
<1> HIDE DEF graph, place
<1>8. on.case = c /\ on.met = r.met /\ on.left = r.left - 1 /\ on.pc = place /\ on.failed = r.failed
      /\ on.seen = r.seen /\ on.group = r.group /\ DOMAIN on = Fields
  BY <1>1 DEF Fields
<1>9. bad.case = c /\ bad.met = r.met /\ bad.pc = "tidy" /\ bad.failed = TRUE
  BY <1>1 DEF Fields
<1> HIDE DEF on
<1>10. first.case = c /\ first.met = r.met /\ first.left = r.left - 1 /\ first.pc = place
       /\ first.failed = r.failed /\ first.seen = graph /\ first.group = Groups(graph)
  BY <1>8 DEF Fields
<1> HIDE DEF bad, first
<1>11. s.case = c /\ s.met = r.met
  BY <1>6, <1>8, <1>9, <1>10
<1>12. Moved(o)
  BY <1>1, <1>2, <1>4, <1>11 DEF Moved, OwnKept, Only
<1>13. rows'[s.case] = table /\ catalog'[s.case] = graph
  BY <1>2, <1>11 DEF graph
<1>14. place = IF r.left = 1 THEN "tidy" ELSE "stream"
  BY DEF place
<1>15. graph # NoGraph => KeysOf(graph) \subseteq Sight(stored, c)
  BY <1>1 DEF RingIInv, TableInv, graph
<1> HIDE DEF r, s, table, c
<1>16. RunRight(s, stored, table, graph)
  <2>1. CASE graph = NoGraph
    BY <1>6, <1>9, <2>1, IdleIsRight
  <2>2. CASE graph # NoGraph /\ r.left = 4
    <3>1. s.case = c /\ s.met = r.met /\ s.left = 3 /\ s.pc = "stream" /\ s.seen = graph /\ s.group = Groups(graph)
      BY <1>6, <1>10, <1>14, <2>2
    <3>2. DOMAIN s.group = KeysOf(s.seen)
      BY <3>1 DEF Groups
    <3>3. s.met \/ DOMAIN table \subseteq KeysOf(graph)
      BY <1>1, <1>3, <2>2, <3>1 DEF RunRight, AloneRight
    <3>4. SeenRight(s, stored)
      BY <3>1 DEF SeenRight, Before, Early
    <3>5. GroupRight(s, stored)
      BY <1>15, <2>2, <3>1, <3>2 DEF GroupRight
    <3>6. AloneRight(s, stored, table, graph)
      BY <3>1, <3>2, <3>3 DEF AloneRight, Before, Early
    <3> QED BY <3>4, <3>5, <3>6 DEF RunRight
  <2>3. CASE graph # NoGraph /\ r.left # 4
    <3>1. s.case = c /\ s.met = r.met /\ s.left = r.left - 1 /\ s.pc = place /\ s.seen = r.seen
          /\ s.group = r.group /\ s.failed = r.failed
      BY <1>6, <1>8, <2>3
    <3>2. Streamed(r) /\ r.pc # "idle" /\ r.pc # "rows" /\ r.case = c
      BY <1>1, <2>3 DEF Streamed, r, c
    <3>3. SeenRight(s, stored)
      BY <1>7, <1>14, <2>3, <3>1 DEF SeenRight, Before, Early
    <3>4. GroupRight(s, stored)
      BY <1>3, <3>1, <3>2 DEF RunRight, GroupRight
    <3>5. AloneRight(s, stored, table, graph)
      <4>1. s.pc \notin Before /\ s.left # 4
        BY <1>7, <1>14, <3>1 DEF Before, Early
      <4> QED BY <1>3, <3>1, <3>2, <4>1 DEF RunRight, AloneRight
    <3> QED BY <3>3, <3>4, <3>5 DEF RunRight
  <2> QED BY <2>1, <2>2, <2>3
<1> QED BY <1>2, <1>5, <1>12, <1>13, <1>16, RingKept DEF s


LEMMA TidyRight ==
    ASSUME AnalysisTypeOK, TodoInv, RingIInv, NEW o \in Officers, Tidy(o)
    PROVE  RingIInv'
<1> DEFINE r == run[o]
           s == run'[o]
           c == run[o].case
           table == rows[c]
           graph == catalog'[s.case]
           lost == [NoRun EXCEPT !.failed = TRUE, !.struck = run[o].struck, !.clashed = run[o].clashed]
           kept == [run[o] EXCEPT !.pc = "rows"]
<1>1. DOMAIN run = Officers /\ DOMAIN run[o] = Fields /\ r.pc = "tidy" /\ c \in Cases
      /\ DOMAIN catalog = Cases
  BY DEF AnalysisTypeOK, IsRun, Tidy, At
<1>2. /\ stored' = stored /\ rows' = rows /\ whole' = whole
      /\ catalog' = catalog \/ catalog' = [catalog EXCEPT ![c] = NoGraph]
  BY DEF Tidy, tables
<1>3. RunRight(r, stored, table, catalog[c])
  BY DEF RingIInv, RunsRight
<1>4. DOMAIN run' = Officers /\ KeptBut(o)
  BY OthersAlike DEF Step
<1>5. WholeInv' /\ TableInv'
  BY <1>1, <1>2 DEF WholeInv, TableInv, RingIInv
<1>6. s = IF r.failed THEN lost ELSE kept
  BY <1>1 DEF Tidy
<1>7. lost.pc = "idle"
  BY DEF NoRun
<1>8. kept.pc = "rows" /\ kept.case = c /\ kept.met = r.met /\ kept.seen = r.seen /\ kept.group = r.group
  BY <1>1 DEF Fields
<1> HIDE DEF lost, kept
<1>9. Moved(o)
  <2>1. OwnKept(o)
    BY <1>6, <1>7, <1>8 DEF OwnKept
  <2>2. Only(c)
    BY <1>1, <1>2 DEF Only
  <2> QED BY <1>1, <1>2, <1>4, <2>1, <2>2 DEF Moved
<1>10. CASE r.failed
  <2>1. s.pc = "idle"
    BY <1>6, <1>7, <1>10
  <2> HIDE DEF s
  <2> QED BY <1>5, <1>9, <2>1, IdleIsRight, RingKept DEF s
<1>11. CASE ~r.failed
  <2>1. s.pc = "rows" /\ s.case = c /\ s.met = r.met /\ s.seen = r.seen /\ s.group = r.group
    BY <1>6, <1>8, <1>11
  <2>2. Streamed(r) /\ r.pc # "idle" /\ r.case = c /\ Streamed(s) /\ s.pc \notin Before
    BY <1>1, <1>11, <2>1 DEF Streamed, Before, Early
  <2>3. rows'[s.case] = table
    BY <1>2, <2>1
  <2> HIDE DEF s, r, c, table, graph
  <2>4. SeenRight(s, stored) /\ GroupRight(s, stored)
    BY <1>3, <2>1, <2>2 DEF RunRight, SeenRight, GroupRight
  <2>5. AloneRight(s, stored, table, graph)
    BY <1>3, <2>1, <2>2 DEF RunRight, AloneRight
  <2> QED BY <1>2, <1>5, <1>9, <2>3, <2>4, <2>5, RingKept DEF s, graph, RunRight
<1> QED BY <1>10, <1>11

LEMMA UpsertRight ==
    ASSUME AnalysisTypeOK, TodoInv, RingIInv, NEW o \in Officers, Upsert(o)
    PROVE  RingIInv'
<1> DEFINE r == run[o]
           s == run'[o]
           c == run[o].case
           table == rows[c]
           graph == catalog[c]
<1>1. DOMAIN run = Officers /\ DOMAIN run[o] = Fields /\ r.pc = "rows" /\ c \in Cases
      /\ DOMAIN catalog = Cases
  BY DEF AnalysisTypeOK, IsRun, Upsert, At
<1>2. stored' = stored /\ catalog' = catalog /\ whole' = [whole EXCEPT ![c] = NoGraph]
  BY DEF Upsert
<1>3. RunRight(r, stored, table, graph)
  BY DEF RingIInv, RunsRight
<1>4. DOMAIN run' = Officers /\ KeptBut(o)
  BY OthersAlike DEF Step
<1>5. PICK k \in DOMAIN r.group :
         /\ rows' = [rows EXCEPT ![c] = Put(@, k, r.group[k])]
         /\ run' = [run EXCEPT ![o].group = [l \in DOMAIN @ \ {k} |-> @[l]]]
  BY DEF Upsert
<1> DEFINE rest == [l \in DOMAIN r.group \ {k} |-> r.group[l]]
           table2 == Put(table, k, r.group[k])
<1>6. rows' = [rows EXCEPT ![c] = table2] /\ run' = [run EXCEPT ![o].group = rest]
  BY <1>1, <1>5
<1>7. DOMAIN rest = DOMAIN r.group \ {k} /\ \A l \in DOMAIN r.group \ {k} : rest[l] = r.group[l]
  OBVIOUS
<1>8. /\ DOMAIN table2 = DOMAIN table \cup {k} /\ table2[k] = r.group[k]
      /\ \A l \in DOMAIN table \ {k} : table2[l] = table[l]
  BY DEF Put
<1>9. DOMAIN rows = Cases /\ DOMAIN whole = Cases
  BY DEF RingIInv, TableInv
<1> HIDE DEF rest, table2
<1>10. s.group = rest /\ s.pc = "rows" /\ s.case = c /\ s.met = r.met /\ s.seen = r.seen
       /\ s.failed = r.failed
  BY <1>1, <1>6 DEF Fields
<1>11. rows'[c] = table2 /\ \A d \in Cases \ {c} : rows'[d] = rows[d]
  BY <1>1, <1>6, <1>9
<1>12. Moved(o)
  <2>1. OwnKept(o)
    BY <1>10 DEF OwnKept
  <2>2. Only(c)
    BY <1>2, <1>9, <1>11 DEF Only
  <2> QED BY <1>1, <1>2, <1>4, <1>6, <2>1, <2>2 DEF Moved
<1>13. Streamed(r) /\ Streamed(s)
  BY <1>1, <1>10 DEF Streamed
<1>14. /\ KeysOf(r.seen) \subseteq Sight(stored, c) /\ k \in KeysOf(r.seen)
       /\ r.group[k] = Groups(r.seen)[k]
  BY <1>3, <1>5, <1>13 DEF RunRight, GroupRight
<1>15. TableInv'
  <2>1. ASSUME NEW d \in Cases PROVE DOMAIN rows'[d] \subseteq Sight(stored, d)
    <3>1. CASE d = c
      BY <1>8, <1>11, <1>14, <3>1 DEF RingIInv, TableInv
    <3>2. CASE d # c
      BY <1>11, <3>2 DEF RingIInv, TableInv
    <3> QED BY <3>1, <3>2
  <2> QED BY <1>2, <1>6, <1>9, <2>1 DEF RingIInv, TableInv
<1>16. WholeInv'
  <2> SUFFICES ASSUME NEW d \in Cases, whole'[d] # NoGraph
               PROVE  /\ whole'[d] \subseteq Finds /\ DOMAIN rows'[d] = KeysOf(whole'[d])
                      /\ \A l \in DOMAIN rows'[d] : rows'[d][l] = Groups(whole'[d])[l]
    BY DEF WholeInv
  <2>1. d # c /\ whole'[d] = whole[d]
    BY <1>1, <1>2, <1>9
  <2>2. rows'[d] = rows[d]
    BY <1>11, <2>1
  <2> QED BY <2>1, <2>2 DEF RingIInv, WholeInv
<1>17. rows'[s.case] = table2 /\ catalog'[s.case] = graph
  BY <1>2, <1>10, <1>11
<1>18. r.case = c /\ r.pc # "idle" /\ s.pc \notin Before /\ s.pc # "stream"
  BY <1>1, <1>10 DEF Before, Early
<1> HIDE DEF r, s, c, table, graph
<1>19. SeenRight(s, stored)
  BY <1>18 DEF SeenRight
<1>20. GroupRight(s, stored)
  BY <1>3, <1>7, <1>10, <1>13, <1>18 DEF RunRight, GroupRight
<1>21. AloneRight(s, stored, table2, graph)
  <2> SUFFICES ASSUME ~s.met
               PROVE  /\ DOMAIN table2 \subseteq KeysOf(s.seen)
                      /\ \A l \in KeysOf(s.seen) \ DOMAIN s.group :
                            l \in DOMAIN table2 /\ table2[l] = Groups(s.seen)[l]
    BY <1>18 DEF AloneRight
  <2>1. /\ DOMAIN table \subseteq KeysOf(r.seen)
        /\ \A l \in KeysOf(r.seen) \ DOMAIN r.group : l \in DOMAIN table /\ table[l] = Groups(r.seen)[l]
    BY <1>3, <1>10, <1>13, <1>18 DEF RunRight, AloneRight
  <2>2. DOMAIN table2 \subseteq KeysOf(s.seen)
    BY <1>8, <1>10, <1>14, <2>1
  <2>3. ASSUME NEW l \in KeysOf(s.seen) \ DOMAIN s.group
        PROVE  l \in DOMAIN table2 /\ table2[l] = Groups(s.seen)[l]
    <3>1. l \in KeysOf(r.seen) /\ (l = k \/ l \notin DOMAIN r.group)
      BY <1>7, <1>10, <2>3
    <3>2. CASE l = k
      BY <1>8, <1>10, <1>14, <3>2
    <3>3. CASE l # k
      <4>1. l \in DOMAIN table /\ table[l] = Groups(r.seen)[l]
        BY <2>1, <3>1, <3>3
      <4> QED BY <1>8, <1>10, <3>3, <4>1
    <3> QED BY <3>2, <3>3
  <2> QED BY <2>2, <2>3
<1> QED BY <1>2, <1>12, <1>15, <1>16, <1>17, <1>19, <1>20, <1>21, RingKept DEF s, RunRight

LEMMA AnswerRight ==
    ASSUME AnalysisTypeOK, TodoInv, RingIInv, NEW o \in Officers, Answer(o)
    PROVE  RingIInv'
<1> DEFINE r == run[o]
           c == run[o].case
<1>1. /\ DOMAIN run = Officers /\ r.pc = "rows" /\ c \in Cases /\ r.seen \subseteq Finds
      /\ DOMAIN r.group = {} /\ run' = [run EXCEPT ![o] = NoRun]
      /\ stored' = stored /\ rows' = rows /\ catalog' = catalog
      /\ whole' = IF r.met THEN whole ELSE [whole EXCEPT ![c] = r.seen]
  BY DEF AnalysisTypeOK, IsRun, Answer, At, tables
<1>2. RunRight(r, stored, rows[c], catalog[c])
  BY DEF RingIInv, RunsRight
<1>3. DOMAIN run' = Officers /\ KeptBut(o)
  BY OthersAlike DEF Step
<1>4. run'[o].pc = "idle"
  BY <1>1 DEF NoRun
<1>5. DOMAIN whole = Cases
  BY DEF RingIInv, TableInv
<1>6. \A d \in Cases \ {c} : whole'[d] = whole[d]
  BY <1>1, <1>5
<1>7. DOMAIN whole' = DOMAIN whole
  BY <1>1, <1>5
<1>8. Moved(o)
  BY <1>1, <1>3, <1>4, <1>6, <1>7 DEF Moved, OwnKept, Only
<1>9. TableInv'
  BY <1>1, <1>5, <1>7 DEF RingIInv, TableInv
<1>10. WholeInv'
  <2>1. CASE r.met
    BY <1>1, <2>1 DEF RingIInv, WholeInv
  <2>2. CASE ~r.met
    <3>1. Streamed(r) /\ r.pc # "idle"
      BY <1>1 DEF Streamed
    <3>2. whole'[c] = r.seen
      BY <1>1, <1>5, <2>2
    <3>3. DOMAIN rows[c] = KeysOf(r.seen) /\ \A k \in DOMAIN rows[c] : rows[c][k] = Groups(r.seen)[k]
      <4> DEFINE table == rows[c]
                 graph == catalog[c]
      <4>1. AloneRight(r, stored, table, graph)
        BY <1>2 DEF RunRight
      <4> HIDE DEF table, graph, r
      <4>2. DOMAIN table = KeysOf(r.seen) /\ \A k \in DOMAIN table : table[k] = Groups(r.seen)[k]
        BY <1>1, <2>2, <3>1, <4>1 DEF AloneRight
      <4> QED BY <4>2 DEF table
    <3> SUFFICES ASSUME NEW d \in Cases, whole'[d] # NoGraph
                 PROVE  /\ whole'[d] \subseteq Finds /\ DOMAIN rows'[d] = KeysOf(whole'[d])
                        /\ \A l \in DOMAIN rows'[d] : rows'[d][l] = Groups(whole'[d])[l]
      BY DEF WholeInv
    <3>4. CASE d = c
      BY <1>1, <3>2, <3>3, <3>4
    <3>5. CASE d # c
      BY <1>1, <1>6, <3>5 DEF RingIInv, WholeInv
    <3> QED BY <3>4, <3>5
  <2> QED BY <2>1, <2>2
<1> DEFINE s == run'[o]
<1> HIDE DEF s
<1>11. s.pc = "idle"
  BY <1>4 DEF s
<1> QED BY <1>8, <1>9, <1>10, <1>11, IdleIsRight, RingKept DEF s

LEMMA FailRight ==
    ASSUME AnalysisTypeOK, TodoInv, RingIInv, NEW o \in Officers, CallFails(o)
    PROVE  RingIInv'
<1> DEFINE s == run'[o]
<1>1. /\ DOMAIN run = Officers /\ DOMAIN run[o] = Fields /\ run[o].pc # "idle"
      /\ stored' = stored /\ rows' = rows /\ catalog' = catalog /\ whole' = whole
  BY DEF AnalysisTypeOK, IsRun, CallFails, tables
<1>2. DOMAIN run' = Officers /\ KeptBut(o)
  BY OthersAlike DEF Step
<1>3. \/ s.pc = "idle"
      \/ s.pc = "tidy" /\ s.failed = TRUE /\ s.case = run[o].case /\ s.met = run[o].met
  <2>1. \/ run' = [run EXCEPT ![o].pc = "tidy", ![o].struck = TRUE, ![o].failed = TRUE]
        \/ run' = [run EXCEPT ![o] = [NoRun EXCEPT !.struck = TRUE, !.failed = TRUE]]
    BY DEF CallFails, Fails
  <2>2. CASE run' = [run EXCEPT ![o].pc = "tidy", ![o].struck = TRUE, ![o].failed = TRUE]
    BY <1>1, <2>2 DEF Fields
  <2>3. CASE run' = [run EXCEPT ![o] = [NoRun EXCEPT !.struck = TRUE, !.failed = TRUE]]
    BY <1>1, <2>3 DEF NoRun
  <2> QED BY <2>1, <2>2, <2>3
<1>4. Moved(o)
  BY <1>1, <1>2, <1>3 DEF Moved, OwnKept, Only
<1>5. TableInv' /\ WholeInv'
  BY <1>1 DEF RingIInv, TableInv, WholeInv
<1> HIDE DEF s
<1> QED BY <1>3, <1>4, <1>5, IdleIsRight, RingKept DEF s


LEMMA StoreRight ==
    ASSUME AnalysisTypeOK, RingIInv, Store
    PROVE  RingIInv'
<1>1. /\ stored \subseteq stored' /\ run' = run /\ rows' = rows /\ catalog' = catalog /\ whole' = whole
  BY DEF Store
<1>2. MetInv' /\ WholeInv'
  BY <1>1 DEF RingIInv, MetInv, WholeInv
<1>3. TableInv'
  <2>1. \A c : Sight(stored, c) \subseteq Sight(stored', c)
    BY <1>1, ViewsGrow
  <2> QED BY <1>1, <2>1 DEF RingIInv, TableInv
<1>4. ASSUME NEW o \in Officers
      PROVE  RunRight(run'[o], stored', rows'[run'[o].case], catalog'[run'[o].case])
  <2> DEFINE r == run[o]
             table == rows[r.case]
             graph == catalog[r.case]
  <2>1. RunRight(r, stored, table, graph)
    BY DEF RingIInv, RunsRight
  <2>2. Alike(r, r)
    BY DEF Alike
  <2> HIDE DEF r, table, graph
  <2>3. RunRight(r, stored', table, graph)
    BY <1>1, <2>1, <2>2, RightKept
  <2> QED BY <1>1, <2>3 DEF r, table, graph
<1> QED BY <1>2, <1>3, <1>4 DEF RingIInv, RunsRight

LEMMA DiesRight ==
    ASSUME AnalysisTypeOK, RingIInv, ApiDies
    PROVE  RingIInv'
<1>1. /\ stored' = stored /\ rows' = rows /\ catalog' = catalog /\ whole' = whole
      /\ \A o \in Officers : run'[o].pc = "idle"
  BY DEF ApiDies, tables, NoRun
<1>2. MetInv' /\ WholeInv' /\ TableInv'
  BY <1>1 DEF RingIInv, MetInv, WholeInv, TableInv
<1>3. ASSUME NEW o \in Officers
      PROVE  RunRight(run'[o], stored', rows'[run'[o].case], catalog'[run'[o].case])
  BY <1>1, IdleIsRight
<1> QED BY <1>2, <1>3 DEF RingIInv, RunsRight

\* An analysis begins: those of its case have met it.
LEMMA BeginRight ==
    ASSUME AnalysisTypeOK, RingIInv, NEW o \in Officers, NEW c \in Asked, Begin(o, c)
    PROVE  RingIInv'
<1> DEFINE beside == {p \in Officers \ {o} : run[p].case = c /\ ~At(p, "idle")}
           some == Hops(c) # {}
           met == beside # {}
           mine == [NoRun EXCEPT !.pc = "touch", !.case = c, !.seen = Hops(c), !.met = met]
           s == run'[o]
<1>1. /\ stored' = stored /\ rows' = rows /\ catalog' = catalog /\ whole' = whole
      /\ run' = [p \in Officers |-> IF p = o THEN IF Hops(c) = {} THEN NoRun ELSE mine
                                    ELSE IF p \in beside /\ Hops(c) # {} THEN [run[p] EXCEPT !.met = TRUE]
                                    ELSE run[p]]
  BY DEF Begin, tables
<1>2. c \in Cases /\ \A p \in Officers : DOMAIN run[p] = Fields
  BY MuleAnalysisAssumption DEF AnalysisTypeOK, IsRun
<1> HIDE DEF met
<1>3. mine.pc = "touch" /\ mine.case = c /\ mine.seen = Hops(c) /\ mine.met = met
  BY DEF NoRun
<1>4. NoRun.pc = "idle"
  BY DEF NoRun
<1> HIDE DEF mine
<1>5. s = NoRun \/ (s = mine /\ some)
  BY <1>1
<1>6. ASSUME NEW p \in Officers \ {o} PROVE Alike(run[p], run'[p]) /\ (p \in beside /\ some => run'[p].met)
  <2>1. CASE p \in beside /\ some
    <3>1. run'[p] = [run[p] EXCEPT !.met = TRUE]
      BY <1>1, <2>1
    <3> QED BY <1>2, <3>1 DEF Alike, Fields
  <2>2. CASE ~(p \in beside /\ some)
    <3>1. run'[p] = run[p]
      BY <1>1, <2>2
    <3> QED BY <2>2, <3>1 DEF Alike
  <2> QED BY <2>1, <2>2
<1>7. MetInv'
  <2> SUFFICES ASSUME NEW p \in Officers, NEW q \in Officers, p # q, run'[p].pc # "idle",
                      run'[q].pc # "idle", run'[p].case = run'[q].case
               PROVE  run'[p].met
    BY DEF MetInv
  <2>1. CASE p = o
    <3>1. s = mine /\ some
      BY <1>4, <1>5, <2>1
    <3>2. q \in beside
      BY <1>3, <1>6, <2>1, <3>1 DEF Alike, At
    <3>3. met
      BY <3>2 DEF met
    <3> QED BY <1>3, <2>1, <3>1, <3>3
  <2>2. CASE q = o
    <3>1. s = mine /\ some
      BY <1>4, <1>5, <2>2
    <3>2. p \in beside
      BY <1>3, <1>6, <2>2, <3>1 DEF Alike, At
    <3> QED BY <1>6, <3>1, <3>2
  <2>3. CASE p # o /\ q # o
    <3>1. Alike(run[p], run'[p]) /\ Alike(run[q], run'[q])
      BY <1>6, <2>3
    <3> QED BY <3>1 DEF RingIInv, MetInv, Alike
  <2> QED BY <2>1, <2>2, <2>3
<1>8. TableInv' /\ WholeInv'
  BY <1>1 DEF RingIInv, TableInv, WholeInv
<1>9. ASSUME NEW p \in Officers \ {o}
      PROVE  RunRight(run'[p], stored', rows'[run'[p].case], catalog'[run'[p].case])
  <2> DEFINE r == run[p]
             t == run'[p]
             table == rows[r.case]
             graph == catalog[r.case]
  <2>1. RunRight(r, stored, table, graph)
    BY DEF RingIInv, RunsRight
  <2>2. Alike(r, t) /\ stored \subseteq stored
    BY <1>6
  <2>3. rows'[t.case] = table /\ catalog'[t.case] = graph
    BY <1>1, <2>2 DEF Alike
  <2> HIDE DEF r, t, table, graph
  <2>4. RunRight(t, stored, table, graph)
    BY <2>1, <2>2, RightKept
  <2> QED BY <1>1, <2>3, <2>4 DEF t
<1>10. RunRight(run'[o], stored', rows'[run'[o].case], catalog'[run'[o].case])
  <2> DEFINE table == rows[c]
             graph == catalog[c]
  <2>1. CASE s.pc = "idle"
    <3> HIDE DEF s
    <3> QED BY <2>1, IdleIsRight DEF s
  <2>2. CASE s.pc # "idle"
    <3>1. s = mine
      BY <1>4, <1>5, <2>2
    <3>2. s.pc = "touch" /\ s.case = c /\ s.seen = HopsOf(stored, c)
      BY <1>3, <3>1, ViewsAre
    <3>3. rows'[s.case] = table /\ catalog'[s.case] = graph
      BY <1>1, <3>2
    <3>4. DOMAIN table \subseteq View(stored, s.seen)
      BY <1>2, <3>2 DEF RingIInv, TableInv, Sight
    <3> HIDE DEF s, table, graph
    <3>5. RunRight(s, stored, table, graph)
      BY <3>2, <3>4 DEF RunRight, SeenRight, GroupRight, AloneRight, Streamed, Before, Early
    <3> QED BY <1>1, <3>3, <3>5 DEF s
  <2> QED BY <2>1, <2>2
<1> QED BY <1>7, <1>8, <1>9, <1>10 DEF RingIInv, RunsRight

LEMMA RingStep == AnalysisTypeOK /\ TodoInv /\ RingIInv /\ [AnalysisNext]_analysisVars => RingIInv'
<1> SUFFICES ASSUME AnalysisTypeOK, TodoInv, RingIInv, [AnalysisNext]_analysisVars PROVE RingIInv'
  OBVIOUS
<1>1. CASE UNCHANGED analysisVars
  BY <1>1 DEF analysisVars, RingIInv, MetInv, TableInv, WholeInv, RunsRight
<1>2. CASE \E o \in Officers : Step(o)
  <2> PICK o \in Officers : Step(o)
    BY <1>2
  <2> QED BY EarlyRight, ProjectRight, StreamRight, TidyRight, UpsertRight, AnswerRight, FailRight DEF Step
<1> QED BY <1>1, <1>2, StoreRight, DiesRight, BeginRight DEF AnalysisNext

LEMMA RingInit == AnalysisInit => RingIInv
<1> SUFFICES ASSUME AnalysisInit PROVE RingIInv
  OBVIOUS
<1>1. /\ \A o \in Officers : run[o] = NoRun
      /\ rows = [c \in Cases |-> <<>>]
      /\ catalog = [c \in Cases |-> NoGraph] /\ whole = [c \in Cases |-> NoGraph]
  BY DEF AnalysisInit
<1>2. NoRun.pc = "idle"
  BY DEF NoRun
<1>3. MetInv /\ WholeInv /\ RunsRight
  BY <1>1, <1>2, IdleIsRight DEF MetInv, WholeInv, RunsRight
<1>4. TableInv
  BY <1>1 DEF TableInv
<1> QED BY <1>3, <1>4 DEF RingIInv

\* However many analyses, failures and restarts came before, and although rows are only
\* overwritten: after an analysis of a case that met no other one of it, two addresses of the
\* stored table are in the same group exactly when transfers connect them.
THEOREM GroupsAreRight == AnalysisSpec => []GroupsAreRings
<1>1. AnalysisIInv => AnalysisTypeOK /\ TodoInv
  BY DEF AnalysisIInv, ShareInv
<1>2. RingIInv => GroupsAreRings
  <2> SUFFICES ASSUME RingIInv, NEW c \in Cases, whole[c] # NoGraph
               PROVE  /\ DOMAIN rows[c] = KeysOf(whole[c])
                      /\ \A k \in DOMAIN rows[c] :
                            {l \in DOMAIN rows[c] : rows[c][l] = rows[c][k]} = Linkable(whole[c], k)
    BY DEF GroupsAreRings
  <2> DEFINE graph == whole[c]
             table == rows[c]
  <2>1. /\ graph \in SUBSET Finds /\ DOMAIN table = KeysOf(graph)
        /\ \A l \in DOMAIN table : table[l] = Groups(graph)[l]
    BY DEF RingIInv, WholeInv
  <2> HIDE DEF graph, table
  <2>2. ASSUME NEW k \in DOMAIN table
        PROVE  {l \in DOMAIN table : table[l] = table[k]} = Linkable(graph, k)
    <3>1. {l \in KeysOf(graph) : Groups(graph)[l] = Groups(graph)[k]} = Linkable(graph, k)
      BY <2>1, GroupsAreLinked
    <3>2. {l \in DOMAIN table : table[l] = table[k]}
             = {l \in KeysOf(graph) : Groups(graph)[l] = Groups(graph)[k]}
      BY <2>1
    <3> QED BY <3>1, <3>2
  <2> QED BY <2>1, <2>2 DEF graph, table
<1> QED BY <1>1, <1>2, RingInit, RingStep, AnalysisInvariant, PTL DEF AnalysisSpec

-----------------------------------------------------------------------------
(* Lists in the order of times: what Among keeps of them, whatever the set *)

IsUpTo(it, list, some, m) ==
    it = [n \in 0 .. m |-> IF n = 0 THEN <<>>
                           ELSE IF list[n] \in some THEN Append(it[n - 1], list[n]) ELSE it[n - 1]]

LEMMA UpToExists ==
    ASSUME NEW list, NEW some, NEW last \in Nat
    PROVE  \E it : IsUpTo(it, list, some, last)
<1> DEFINE bad == {m \in 0 .. last : ~\E it : IsUpTo(it, list, some, m)}
<1> SUFFICES ASSUME bad # {} PROVE FALSE
  OBVIOUS
<1>1. PICK m \in bad : \A n \in bad : m <= n
  <2>1. bad \subseteq Nat
    OBVIOUS
  <2> HIDE DEF bad
  <2> QED BY <2>1, LeastOf
<1>2. CASE m = 0
  <2> DEFINE it == [n \in 0 .. 0 |-> <<>>]
  <2>1. IsUpTo(it, list, some, 0)
    BY DEF IsUpTo
  <2> QED BY <1>1, <1>2, <2>1
<1>3. CASE m # 0
  <2>1. m - 1 \in 0 .. last /\ m - 1 \notin bad /\ m \in Nat
    BY <1>1, <1>3
  <2>2. PICK g : IsUpTo(g, list, some, m - 1)
    BY <2>1
  <2> DEFINE turn(b) == IF list[m] \in some THEN Append(b, list[m]) ELSE b
             it == [n \in 0 .. m |-> IF n = m THEN turn(g[m - 1]) ELSE g[n]]
  <2> HIDE DEF turn
  <2>3. ASSUME NEW n \in 0 .. m
        PROVE  it[n] = IF n = 0 THEN <<>>
                       ELSE IF list[n] \in some THEN Append(it[n - 1], list[n]) ELSE it[n - 1]
    <3>1. CASE n = m
      <4>1. it[n] = turn(g[m - 1]) /\ it[m - 1] = g[m - 1]
        BY <1>3, <2>1, <3>1
      <4> HIDE DEF it
      <4> QED BY <1>3, <3>1, <4>1 DEF turn
    <3>2. CASE n # m
      <4>1. n \in 0 .. m - 1 /\ it[n] = g[n] /\ (n # 0 => it[n - 1] = g[n - 1])
        BY <2>1, <3>2
      <4>2. g[n] = IF n = 0 THEN <<>>
                   ELSE IF list[n] \in some THEN Append(g[n - 1], list[n]) ELSE g[n - 1]
        BY <2>2, <4>1 DEF IsUpTo
      <4> HIDE DEF it
      <4> QED BY <4>1, <4>2
    <3> QED BY <3>1, <3>2
  <2>4. IsUpTo(it, list, some, m)
    BY <2>3 DEF IsUpTo
  <2> HIDE DEF it
  <2> QED BY <1>1, <2>4
<1> QED BY <1>2, <1>3

\* A sequence has exactly the hops of a set, each once, in the order of their times.
Lists(hops, near) ==
    /\ hops \in Seq(near)
    /\ \A f \in near : \E i \in 1 .. Len(hops) : hops[i] = f
    /\ \A i, j \in 1 .. Len(hops) : i < j => hops[i].at <= hops[j].at /\ hops[i] # hops[j]

LEMMA ListsMore ==
    ASSUME NEW hops, NEW near, NEW more, NEW f, Lists(hops, near), more = near \cup {f},
           \A g \in near : g.at <= f.at /\ g # f
    PROVE  Lists(Append(hops, f), more)
<1> DEFINE longer == Append(hops, f)
<1>1. hops \in Seq(more) /\ hops \in Seq(near) /\ f \in more /\ Len(hops) \in Nat
  BY DEF Lists
<1>2. longer \in Seq(more) /\ Len(longer) = Len(hops) + 1 /\ longer[Len(hops) + 1] = f
      /\ \A i \in 1 .. Len(hops) : longer[i] = hops[i] /\ hops[i] \in near
  BY <1>1
<1> HIDE DEF longer
<1>3. ASSUME NEW g \in more PROVE \E i \in 1 .. Len(longer) : longer[i] = g
  <2>1. CASE g = f
    <3>1. Len(hops) + 1 \in 1 .. Len(longer)
      BY <1>1, <1>2
    <3> QED BY <1>2, <2>1, <3>1
  <2>2. CASE g # f
    <3>1. PICK i \in 1 .. Len(hops) : hops[i] = g
      BY <2>2 DEF Lists
    <3>2. i \in 1 .. Len(longer)
      BY <1>1, <1>2
    <3> QED BY <1>2, <3>1, <3>2
  <2> QED BY <2>1, <2>2
<1>4. ASSUME NEW i \in 1 .. Len(longer), NEW j \in 1 .. Len(longer), i < j
      PROVE  longer[i].at <= longer[j].at /\ longer[i] # longer[j]
  <2>1. i \in 1 .. Len(hops)
    BY <1>1, <1>2, <1>4
  <2>2. CASE j \in 1 .. Len(hops)
    BY <1>2, <1>4, <2>1, <2>2 DEF Lists
  <2>3. CASE j \notin 1 .. Len(hops)
    <3>1. longer[j] = f
      BY <1>1, <1>2, <2>3
    <3> QED BY <1>2, <2>1, <3>1
  <2> QED BY <2>2, <2>3
<1> QED BY <1>2, <1>3, <1>4 DEF Lists, longer

LEMMA AmongLists ==
    ASSUME NEW list, NEW all, NEW some \in SUBSET all, Lists(list, all)
    PROVE  Lists(Among(list, some), some)
<1> DEFINE last == Len(list)
           upTo == CHOOSE it : IsUpTo(it, list, some, last)
           met(m) == {f \in some : \E j \in 1 .. m : f = list[j]}
<1>1. Among(list, some) = upTo[last]
  BY DEF Among, IsUpTo
<1>2. last \in Nat
  BY DEF Lists
<1>3. IsUpTo(upTo, list, some, last)
  <2> HIDE DEF last
  <2> QED BY <1>2, UpToExists
<1> HIDE DEF upTo, last
<1>4. upTo[0] = <<>> /\ \A n \in 1 .. last :
         upTo[n] = IF list[n] \in some THEN Append(upTo[n - 1], list[n]) ELSE upTo[n - 1]
  <2>1. upTo = [n \in 0 .. last |-> IF n = 0 THEN <<>>
                   ELSE IF list[n] \in some THEN Append(upTo[n - 1], list[n]) ELSE upTo[n - 1]]
    BY <1>3 DEF IsUpTo
  <2>2. 0 \in 0 .. last /\ \A n \in 1 .. last : n \in 0 .. last /\ n # 0
    BY <1>2
  <2>3. \A n \in 0 .. last : upTo[n] = IF n = 0 THEN <<>>
                   ELSE IF list[n] \in some THEN Append(upTo[n - 1], list[n]) ELSE upTo[n - 1]
    BY <2>1
  <2> QED BY <2>2, <2>3
<1> DEFINE bad == {m \in 0 .. last : ~Lists(upTo[m], met(m))}
<1>5. bad = {}
  <2> SUFFICES ASSUME bad # {} PROVE FALSE
    OBVIOUS
  <2>1. PICK m \in bad : \A n \in bad : m <= n
    <3>1. bad \subseteq Nat
      OBVIOUS
    <3> HIDE DEF bad
    <3> QED BY <3>1, LeastOf
  <2>0. m \in 0 .. last /\ ~Lists(upTo[m], met(m)) /\ \A n \in 0 .. last : Lists(upTo[n], met(n)) \/ m <= n
    BY <2>1
  <2> HIDE DEF bad
  <2>2. CASE m = 0
    <3>1. met(0) = {}
      OBVIOUS
    <3>2. Lists(<<>>, {})
      BY DEF Lists
    <3> HIDE DEF met
    <3> QED BY <1>4, <2>0, <2>2, <3>1, <3>2
  <2>3. CASE m # 0
    <3>1. m \in 1 .. last /\ m - 1 \in 0 .. last /\ m \in Nat
      BY <1>2, <2>0, <2>3
    <3>2. Lists(upTo[m - 1], met(m - 1))
      <4> HIDE DEF met
      <4> QED BY <2>0, <3>1
    <3>3. upTo[m] = IF list[m] \in some THEN Append(upTo[m - 1], list[m]) ELSE upTo[m - 1]
      BY <1>4, <3>1
    <3>4. \A j \in 1 .. m : j = m \/ j \in 1 .. m - 1
      BY <3>1
    <3>5. CASE list[m] \in some
      <4>1. met(m) = met(m - 1) \cup {list[m]}
        BY <3>1, <3>4, <3>5
      <4>2. ASSUME NEW g \in met(m - 1) PROVE g.at <= list[m].at /\ g # list[m]
        <5>1. PICK j \in 1 .. m - 1 : g = list[j]
          OBVIOUS
        <5>2. j < m /\ j \in 1 .. last /\ m \in 1 .. last
          BY <1>2, <3>1, <5>1
        <5> QED BY <5>1, <5>2 DEF Lists, last
      <4> DEFINE near == met(m - 1)
                 more == met(m)
                 f == list[m]
                 hops == upTo[m - 1]
      <4>3. Lists(hops, near) /\ more = near \cup {f} /\ \A g \in near : g.at <= f.at /\ g # f
        BY <3>2, <4>1, <4>2
      <4> HIDE DEF near, more, f, hops, met
      <4>4. Lists(Append(hops, f), more)
        BY <4>3, ListsMore
      <4>5. upTo[m] = Append(hops, f)
        BY <3>3, <3>5 DEF hops, f
      <4> QED BY <2>0, <4>4, <4>5 DEF more
    <3>6. CASE list[m] \notin some
      <4>1. met(m) = met(m - 1)
        BY <3>1, <3>4, <3>6
      <4>2. upTo[m] = upTo[m - 1]
        BY <3>3, <3>6
      <4> HIDE DEF met
      <4> QED BY <2>0, <3>2, <4>1, <4>2
    <3> QED BY <3>5, <3>6
  <2> QED BY <2>2, <2>3
<1>6. met(last) = some
  <2> SUFFICES ASSUME NEW f \in some PROVE \E j \in 1 .. last : f = list[j]
    OBVIOUS
  <2> QED BY DEF Lists, last
<1>7. last \in 0 .. last
  BY <1>2
<1>8. Lists(upTo[last], met(last))
  BY <1>5, <1>7
<1> QED BY <1>1, <1>6, <1>8

\* The lists that MuleAnalysis takes its hops from.
LEMMA FoundLists == Lists(Found, Finds)
<1>1. Found \in Seq(Finds) /\ DOMAIN Found = 1 .. Len(Found)
  BY FindsFinite, MuleAnalysisAssumption
<1>2. \A f \in Finds : \E i \in 1 .. Len(Found) : Found[i] = f
  BY <1>1 DEF Finds, ToSet
<1>3. ASSUME NEW i \in 1 .. Len(Found), NEW j \in 1 .. Len(Found), i < j
      PROVE  Found[i].at <= Found[j].at /\ Found[i] # Found[j]
  <2>1. Found[i].at <= Found[j].at /\ <<Found[i].trace, Found[i].nth>> # <<Found[j].trace, Found[j].nth>>
    BY <1>1, <1>3, MuleAnalysisAssumption
  <2> QED BY <2>1
<1> QED BY <1>1, <1>2, <1>3 DEF Lists

LEMMA InOrderLists ==
    ASSUME NEW finds \in SUBSET Finds
    PROVE  Lists(InOrder(finds), finds)
<1> QED BY FoundLists, AmongLists DEF InOrder

AllSides == ToSet(Sides)

LEMMA SidesLists ==
    /\ Lists(Sides, AllSides) /\ IsFiniteSet(AllSides)
    /\ \A s \in AllSides : s.at \in Nat
<1> DEFINE last == 2 * Len(Found)
           hop(n) == Found[(n + 1) \div 2]
<1>1. last \in Nat /\ Len(Found) \in Nat /\ \A n \in 1 .. last : (n + 1) \div 2 \in 1 .. Len(Found)
  BY FindsFinite
<1>2. \A n \in 1 .. last : hop(n) \in Finds /\ hop(n).at \in Nat
  BY <1>1, FoundLists, MuleAnalysisAssumption DEF Lists
<1>3. DOMAIN Sides = 1 .. last /\ \A n \in 1 .. last :
         Sides[n].of = hop(n) /\ Sides[n].in = (n % 2 = 1) /\ Sides[n].at = hop(n).at
  BY DEF Sides
<1>4. Len(Sides) = last /\ Sides \in Seq(AllSides)
  <2>1. \A n \in 1 .. last : Sides[n] \in AllSides
    BY <1>3 DEF AllSides, ToSet
  <2> DEFINE side(n) == [of |-> hop(n), in |-> n % 2 = 1, at |-> hop(n).at]
  <2>2. Sides = [n \in 1 .. last |-> side(n)]
    BY DEF Sides
  <2> HIDE DEF side, last
  <2>3. Sides \in [1 .. last -> AllSides]
    BY <2>1, <2>2
  <2> QED BY <1>1, <2>3
<1>5. \A s \in AllSides : \E n \in 1 .. last : Sides[n] = s
  BY <1>3 DEF AllSides, ToSet
<1>6. ASSUME NEW i \in 1 .. last, NEW j \in 1 .. last, i < j
      PROVE  Sides[i].at <= Sides[j].at /\ Sides[i] # Sides[j]
  <2> DEFINE m == (i + 1) \div 2
             n == (j + 1) \div 2
  <2>1. m \in 1 .. Len(Found) /\ n \in 1 .. Len(Found)
        /\ (m < n \/ (m = n /\ i % 2 = 1 /\ j % 2 # 1))
    <3>1. i \in Nat /\ j \in Nat /\ i < j
      BY <1>1, <1>6
    <3>2. m < n \/ (m = n /\ i % 2 = 1 /\ j % 2 # 1)
      BY <3>1
    <3> QED BY <1>1, <3>2
  <2>2. Sides[i].of = Found[m] /\ Sides[i].in = (i % 2 = 1) /\ Sides[i].at = Found[m].at
    BY <1>3
  <2>3. Sides[j].of = Found[n] /\ Sides[j].in = (j % 2 = 1) /\ Sides[j].at = Found[n].at
    BY <1>3
  <2>4. Found[m].at \in Nat /\ Found[n].at \in Nat
    BY <1>2
  <2> HIDE DEF m, n
  <2>5. CASE m < n
    <3>1. Found[m].at <= Found[n].at /\ Found[m] # Found[n]
      BY <2>1, <2>5, FoundLists DEF Lists
    <3> QED BY <2>2, <2>3, <3>1
  <2>6. CASE m = n /\ i % 2 = 1 /\ j % 2 # 1
    <3>1. Sides[i].in # Sides[j].in
      BY <2>2, <2>3, <2>6
    <3>2. Sides[i].at <= Sides[j].at
      BY <2>2, <2>3, <2>4, <2>6
    <3> QED BY <3>1, <3>2
  <2> QED BY <2>1, <2>5, <2>6
<1>7. IsFiniteSet(AllSides)
  <2>1. IsFiniteSet(1 .. last)
    BY <1>1, FS_Interval
  <2> DEFINE spot == 1 .. last
  <2>2. Sides \in [spot -> AllSides]
    BY <1>4
  <2>3. Sides \in Surjection(spot, AllSides)
    <3> HIDE DEF last, spot
    <3> QED BY <1>5, <2>2 DEF Surjection, spot
  <2> QED BY <2>1, <2>3, FS_Surjection
<1>8. \A s \in AllSides : s.at \in Nat
  BY <1>2, <1>3, <1>5
<1> QED BY <1>4, <1>5, <1>6, <1>7, <1>8 DEF Lists

-----------------------------------------------------------------------------
(* The busiest hour: the invariant of the sliding window *)

Slid(w, hops, n) ==
    LET fits == {l \in w.left .. n : hops[n].at - hops[l].at <= Hour}
        left == CHOOSE l \in fits : \A k \in fits : l <= k
        size == n - left + 1
    IN  [left |-> left, most |-> IF size > w.most THEN size ELSE w.most]

IsWindow(it, hops, m) ==
    it = [n \in 0 .. m |-> IF n = 0 THEN [left |-> 1, most |-> 0] ELSE Slid(it[n - 1], hops, n)]

LEMMA WindowExists ==
    ASSUME NEW hops, NEW last \in Nat
    PROVE  \E it : IsWindow(it, hops, last)
<1> DEFINE bad == {m \in 0 .. last : ~\E it : IsWindow(it, hops, m)}
<1> SUFFICES ASSUME bad # {} PROVE FALSE
  OBVIOUS
<1>1. PICK m \in bad : \A n \in bad : m <= n
  <2>1. bad \subseteq Nat
    OBVIOUS
  <2> HIDE DEF bad
  <2> QED BY <2>1, LeastOf
<1>2. CASE m = 0
  <2> DEFINE it == [n \in 0 .. 0 |-> [left |-> 1, most |-> 0]]
  <2>1. IsWindow(it, hops, 0)
    BY DEF IsWindow
  <2> QED BY <1>1, <1>2, <2>1
<1>3. CASE m # 0
  <2>1. m - 1 \in 0 .. last /\ m - 1 \notin bad /\ m \in Nat
    BY <1>1, <1>3
  <2>2. PICK g : IsWindow(g, hops, m - 1)
    BY <2>1
  <2> DEFINE it == [n \in 0 .. m |-> IF n = m THEN Slid(g[m - 1], hops, m) ELSE g[n]]
  <2>3. ASSUME NEW n \in 0 .. m
        PROVE  it[n] = IF n = 0 THEN [left |-> 1, most |-> 0] ELSE Slid(it[n - 1], hops, n)
    <3>1. CASE n = m
      <4>1. it[n] = Slid(g[m - 1], hops, m) /\ it[m - 1] = g[m - 1]
        BY <1>3, <2>1, <3>1
      <4> HIDE DEF it
      <4> QED BY <1>3, <3>1, <4>1
    <3>2. CASE n # m
      <4>1. n \in 0 .. m - 1 /\ it[n] = g[n] /\ (n # 0 => it[n - 1] = g[n - 1])
        BY <2>1, <3>2
      <4>2. g[n] = IF n = 0 THEN [left |-> 1, most |-> 0] ELSE Slid(g[n - 1], hops, n)
        BY <2>2, <4>1 DEF IsWindow
      <4> HIDE DEF it
      <4> QED BY <4>1, <4>2
    <3> QED BY <3>1, <3>2
  <2>4. IsWindow(it, hops, m)
    BY <2>3 DEF IsWindow
  <2> HIDE DEF it
  <2> QED BY <1>1, <2>4
<1> QED BY <1>2, <1>3

\* The window after n hops starts at the first that is at most an hour before the n-th, and
\* no hour among these hops has more of them than the most it has met.
Near(hops, i, j) == hops[j].at - hops[i].at <= Hour

Window(w, hops, n) ==
    /\ w.left \in Nat \ {0} /\ w.most \in Nat
    /\ IF n = 0 THEN w.left = 1 ELSE w.left <= n
    /\ \A l \in 1 .. w.left - 1 : ~Near(hops, l, n)
    /\ \A j \in 1 .. n : \A i \in 1 .. j : Near(hops, i, j) => j - i + 1 <= w.most
    /\ IF n = 0 THEN w.most = 0
       ELSE \E j \in 1 .. n : \E i \in 1 .. j : Near(hops, i, j) /\ j - i + 1 = w.most

LEMMA SlideKeeps ==
    ASSUME NEW hops, NEW near, Lists(hops, near), \A f \in near : f.at \in Nat, NEW n \in 1 .. Len(hops),
           NEW w, Window(w, hops, n - 1)
    PROVE  Window(Slid(w, hops, n), hops, n)
<1>1. Len(hops) \in Nat /\ n \in Nat /\ Hour \in Nat
      /\ \A i \in 1 .. Len(hops) : hops[i].at \in Nat
  <2>1. Len(hops) \in Nat /\ \A i \in 1 .. Len(hops) : hops[i] \in near
    BY DEF Lists
  <2>2. Hour \in Nat
    BY MuleRulesAssumption
  <2> QED BY <2>1, <2>2
<1>2. \A i \in 1 .. n : i \in 1 .. Len(hops)
  BY <1>1
<1>3. w.left \in Nat \ {0} /\ w.most \in Nat /\ w.left <= n
  BY <1>1 DEF Window
<1> DEFINE fits == {l \in w.left .. n : hops[n].at - hops[l].at <= Hour}
           left == CHOOSE l \in fits : \A k \in fits : l <= k
           size == n - left + 1
<1>4. n \in fits
  BY <1>1, <1>3
<1>5. left \in fits /\ \A k \in fits : left <= k
  <2>1. fits \subseteq Nat
    BY <1>1, <1>3
  <2> HIDE DEF fits
  <2>2. \E m \in fits : \A k \in fits : m <= k
    BY <1>4, <2>1, LeastOf
  <2> QED BY <2>2
<1>6. left \in Nat \ {0} /\ left <= n /\ left >= w.left /\ Near(hops, left, n)
  <2>1. left \in w.left .. n /\ hops[n].at - hops[left].at <= Hour
    <3>1. \A l \in fits : l \in w.left .. n /\ hops[n].at - hops[l].at <= Hour
      OBVIOUS
    <3> HIDE DEF fits, left
    <3> QED BY <1>5, <3>1
  <2> HIDE DEF left
  <2> QED BY <1>1, <1>3, <2>1 DEF Near
<1>7. ASSUME NEW l \in 1 .. left - 1 PROVE ~Near(hops, l, n)
  <2>1. l \in 1 .. n /\ l \in Nat /\ l < left
    BY <1>1, <1>6
  <2>2. CASE l >= w.left
    <3>1. l \in w.left .. n /\ l \notin fits
      <4> HIDE DEF fits, left
      <4> QED BY <1>1, <1>3, <1>5, <1>6, <2>1, <2>2
    <3> QED BY <3>1 DEF Near
  <2>3. CASE l < w.left
    <3>1. n # 1 /\ n - 1 \in 1 .. Len(hops) /\ n - 1 < n /\ l \in 1 .. w.left - 1
      BY <1>1, <1>3, <2>1, <2>3 DEF Window
    <3>2. ~Near(hops, l, n - 1)
      BY <3>1 DEF Window
    <3>3. hops[n - 1].at <= hops[n].at
      BY <1>1, <3>1 DEF Lists
    <3> QED BY <1>1, <1>2, <2>1, <3>1, <3>2, <3>3 DEF Near
  <2> QED BY <1>1, <1>3, <2>1, <2>2, <2>3
<1>8. Slid(w, hops, n) = [left |-> left, most |-> IF size > w.most THEN size ELSE w.most]
  BY DEF Slid
<1> HIDE DEF fits, left
<1> DEFINE v == Slid(w, hops, n)
<1>9. v.left = left /\ v.most = IF size > w.most THEN size ELSE w.most
  BY <1>8
<1> HIDE DEF v
<1>10. size \in Nat /\ v.most \in Nat /\ v.most >= w.most /\ v.most >= size
  BY <1>1, <1>3, <1>6, <1>9
<1>11. ASSUME NEW j \in 1 .. n, NEW i \in 1 .. j, Near(hops, i, j) PROVE j - i + 1 <= v.most
  <2>1. CASE j = n
    <3>1. i >= left
      BY <1>1, <1>6, <1>7, <1>11, <2>1
    <3> QED BY <1>1, <1>6, <1>10, <2>1, <3>1
  <2>2. CASE j # n
    <3>1. j \in 1 .. n - 1
      BY <1>1, <2>2
    <3>2. j - i + 1 <= w.most
      BY <1>11, <3>1 DEF Window
    <3> QED BY <1>1, <1>3, <1>10, <3>2
  <2> QED BY <2>1, <2>2
<1>12. \E j \in 1 .. n : \E i \in 1 .. j : Near(hops, i, j) /\ j - i + 1 = v.most
  <2>1. CASE size > w.most
    <3>1. n \in 1 .. n /\ left \in 1 .. n
      BY <1>1, <1>6
    <3> QED BY <1>6, <1>9, <2>1, <3>1
  <2>2. CASE ~(size > w.most)
    <3>1. n # 1
      <4>1. size >= 1
        BY <1>1, <1>6
      <4>2. n - 1 = 0 => w.most = 0
        BY DEF Window
      <4>3. size \in Nat
        BY <1>1, <1>6
      <4> HIDE DEF size
      <4> QED BY <1>1, <1>3, <2>2, <4>1, <4>2, <4>3
    <3>2. PICK j \in 1 .. n - 1 : \E i \in 1 .. j : Near(hops, i, j) /\ j - i + 1 = w.most
      <4>1. n - 1 # 0
        BY <1>1, <3>1
      <4> QED BY <4>1 DEF Window
    <3>3. j \in 1 .. n
      BY <1>1
    <3> QED BY <1>9, <2>2, <3>2, <3>3
  <2> QED BY <2>1, <2>2
<1>13. n # 0 /\ v.left \in Nat \ {0} /\ v.left <= n
  BY <1>1, <1>6, <1>9
<1>14. Window(v, hops, n)
  BY <1>7, <1>9, <1>10, <1>11, <1>12, <1>13 DEF Window
<1> QED BY <1>14 DEF v

LEMMA BurstWindow ==
    ASSUME NEW hops, NEW near, Lists(hops, near), \A f \in near : f.at \in Nat
    PROVE  \E w : Window(w, hops, Len(hops)) /\ Burst(hops) = w.most
<1> DEFINE last == Len(hops)
           window == CHOOSE it : IsWindow(it, hops, last)
<1>1. last \in Nat
  BY DEF Lists
<1>2. Burst(hops) = window[last].most
  BY DEF Burst, IsWindow, Slid
<1>3. IsWindow(window, hops, last)
  <2> HIDE DEF last
  <2> QED BY <1>1, WindowExists
<1> HIDE DEF window
<1>4. window[0] = [left |-> 1, most |-> 0]
      /\ \A n \in 1 .. last : window[n] = Slid(window[n - 1], hops, n)
  <2> HIDE DEF last
  <2>1. window = [n \in 0 .. last |-> IF n = 0 THEN [left |-> 1, most |-> 0]
                                      ELSE Slid(window[n - 1], hops, n)]
    BY <1>3 DEF IsWindow
  <2>2. 0 \in 0 .. last /\ \A n \in 1 .. last : n \in 0 .. last /\ n # 0
    BY <1>1
  <2>3. \A n \in 0 .. last : window[n] = IF n = 0 THEN [left |-> 1, most |-> 0]
                                         ELSE Slid(window[n - 1], hops, n)
    BY <2>1
  <2> QED BY <2>2, <2>3
<1> DEFINE bad == {m \in 0 .. last : ~Window(window[m], hops, m)}
<1>5. bad = {}
  <2> SUFFICES ASSUME bad # {} PROVE FALSE
    OBVIOUS
  <2>1. PICK m \in bad : \A n \in bad : m <= n
    <3>1. bad \subseteq Nat
      BY <1>1
    <3> HIDE DEF bad
    <3> QED BY <3>1, LeastOf
  <2>2. m \in 0 .. last /\ ~Window(window[m], hops, m)
        /\ \A n \in 0 .. last : Window(window[n], hops, n) \/ m <= n
    BY <2>1
  <2> HIDE DEF bad
  <2>3. CASE m = 0
    <3>1. window[0].left = 1 /\ window[0].most = 0
      BY <1>4
    <3>2. Window(window[0], hops, 0)
      BY <3>1 DEF Window
    <3> QED BY <2>2, <2>3, <3>2
  <2>4. CASE m # 0
    <3>1. m \in 1 .. last /\ m - 1 \in 0 .. last /\ ~(m <= m - 1)
      BY <1>1, <2>2, <2>4
    <3>2. Window(window[m - 1], hops, m - 1)
      BY <2>2, <3>1
    <3> QED BY <1>4, <2>2, <3>1, <3>2, SlideKeeps
  <2> QED BY <2>3, <2>4
<1>6. last \in 0 .. last
  BY <1>1
<1>7. Window(window[last], hops, last)
  BY <1>5, <1>6
<1> QED BY <1>2, <1>7

LEMMA BurstIsBusiest ==
    ASSUME NEW hops, NEW near, Lists(hops, near), IsFiniteSet(near), \A f \in near : f.at \in Nat
    PROVE  LET hour(h) == Cardinality({f \in near : f.at - h.at \in 0 .. Hour})
           IN  IF near = {} THEN Burst(hops) = 0
               ELSE /\ \E h \in near : hour(h) = Burst(hops)
                    /\ \A h \in near : hour(h) <= Burst(hops)
<1> DEFINE last == Len(hops)
           most == Burst(hops)
           within(h) == {f \in near : f.at - h.at \in 0 .. Hour}
<1>1. last \in Nat /\ Hour \in Nat /\ \A i \in 1 .. last : hops[i] \in near /\ hops[i].at \in Nat
  BY MuleRulesAssumption DEF Lists
<1>2. PICK w : Window(w, hops, last) /\ most = w.most
  BY BurstWindow
<1> HIDE DEF most
<1>3. most \in Nat /\ \A j \in 1 .. last : \A i \in 1 .. j : Near(hops, i, j) => j - i + 1 <= most
  BY <1>2 DEF Window
<1>4. IsFiniteSet(near)
  OBVIOUS
<1>5. \A h : IsFiniteSet(within(h))
  <2> TAKE h
  <2>1. within(h) \in SUBSET near
    OBVIOUS
  <2> QED BY <1>4, <2>1, FS_Subset
<1>6. CASE near = {}
  <2>1. last = 0
    BY <1>1, <1>6
  <2>2. most = 0
    BY <1>2, <2>1 DEF Window
  <2> QED BY <1>6, <2>2 DEF most
<1>7. CASE near # {}
  <2>1. last # 0
    BY <1>1, <1>7 DEF Lists
  <2>2. ASSUME NEW h \in near PROVE Cardinality(within(h)) <= most
    <3> DEFINE places == {i \in 1 .. last : hops[i] \in within(h)}
    <3>1. \A f \in within(h) : \E i \in places : hops[i] = f
      BY DEF Lists
    <3>2. h \in within(h)
      BY <1>1, MuleAnalysisAssumption, MuleRulesAssumption
    <3>3. places # {} /\ places \subseteq Nat /\ \A i \in places : i <= last
      BY <1>1, <3>1, <3>2
    <3>4. PICK a \in places : \A i \in places : a <= i
      <4> HIDE DEF places
      <4> QED BY <3>3, LeastOf
    <3>5. PICK b \in places : \A i \in places : i <= b
      <4> DEFINE back == {last - i : i \in places}
      <4>1. back # {} /\ back \subseteq Nat
        BY <1>1, <3>3
      <4>2. PICK c \in back : \A d \in back : c <= d
        <5> HIDE DEF back
        <5> QED BY <4>1, LeastOf
      <4>3. PICK b \in places : c = last - b
        BY <4>2
      <4>4. \A i \in places : last - b <= last - i
        BY <4>2, <4>3
      <4> HIDE DEF places
      <4> QED BY <1>1, <3>3, <4>3, <4>4
    <3>6. a \in 1 .. last /\ b \in 1 .. last /\ a <= b /\ a \in 1 .. b
      BY <3>3, <3>4, <3>5
    <3>7. Near(hops, a, b)
      <4>1. hops[a].at - h.at >= 0 /\ hops[b].at - h.at <= Hour
        BY <3>4, <3>5
      <4>2. h.at \in Nat
        BY MuleAnalysisAssumption
      <4> QED BY <1>1, <3>6, <4>1, <4>2 DEF Near
    <3>8. b - a + 1 <= most
      BY <1>3, <3>6, <3>7
    <3> DEFINE g == [f \in within(h) |-> CHOOSE i \in places : hops[i] = f]
    <3>9. \A f \in within(h) : g[f] \in a .. b /\ hops[g[f]] = f
      <4>1. \A f \in within(h) : g[f] \in places /\ hops[g[f]] = f
        <5> HIDE DEF places
        <5> QED BY <3>1
      <4>2. \A i \in places : i \in Nat /\ i <= b /\ a <= i
        <5> HIDE DEF places
        <5> QED BY <3>3, <3>4, <3>5
      <4>3. \A i \in places : i \in a .. b
        <5> HIDE DEF places
        <5> QED BY <3>3, <3>4, <3>5, <4>2
      <4> HIDE DEF g, places
      <4> QED BY <4>1, <4>3
    <3>10. g \in Injection(within(h), a .. b)
      <4>1. g = [f \in within(h) |-> g[f]]
        <5> HIDE DEF within, places
        <5> QED OBVIOUS
      <4> DEFINE span == a .. b
                 found == within(h)
      <4>2. \A f \in found : g[f] \in span /\ hops[g[f]] = f
        BY <3>9
      <4>3. g = [f \in found |-> g[f]]
        BY <4>1
      <4> HIDE DEF g, span, found
      <4>4. g \in Injection(found, span)
        BY <4>2, <4>3 DEF Injection, IsInjective
      <4> QED BY <4>4 DEF span, found
    <3>11. IsFiniteSet(a .. b) /\ Cardinality(a .. b) = b - a + 1
      BY <3>6, FS_Interval
    <3>12. Cardinality(within(h)) <= b - a + 1
      <4> HIDE DEF g, within
      <4> QED BY <3>10, <3>11, FS_Injection
    <3>13. Cardinality(within(h)) \in Nat
      <4> HIDE DEF within
      <4> QED BY <1>5, FS_CardinalityType
    <3> QED BY <1>3, <3>6, <3>8, <3>12, <3>13
  <2>3. \E h \in near : Cardinality(within(h)) = most
    <3>0. PICK j \in 1 .. last : \E i \in 1 .. j : Near(hops, i, j) /\ j - i + 1 = most
      BY <1>2, <2>1 DEF Window
    <3>1. PICK i \in 1 .. j : Near(hops, i, j) /\ j - i + 1 = most
      BY <3>0
    <3>2. i \in 1 .. last /\ hops[i] \in near /\ i <= j
      BY <1>1, <3>1
    <3> DEFINE h == hops[i]
               g == [k \in i .. j |-> hops[k]]
    <3>3. ASSUME NEW k \in i .. j PROVE k \in 1 .. last /\ hops[k] \in within(h)
      <4>1. k \in 1 .. last
        BY <1>1, <3>2
      <4>2. hops[i].at <= hops[k].at
        <5>1. CASE i < k
          BY <3>2, <4>1, <5>1 DEF Lists
        <5>2. CASE i = k
          BY <1>1, <3>2, <4>1, <5>2
        <5> QED BY <1>1, <3>2, <4>1, <5>1, <5>2
      <4>3. hops[k].at <= hops[j].at
        <5>1. CASE k < j
          BY <3>2, <4>1, <5>1 DEF Lists
        <5>2. CASE k = j
          BY <1>1, <3>2, <4>1, <5>2
        <5> QED BY <1>1, <3>2, <4>1, <5>1, <5>2
      <4>4. hops[j].at - hops[i].at <= Hour
        BY <3>1 DEF Near
      <4>5. hops[k] \in near /\ hops[k].at \in Nat /\ hops[i].at \in Nat /\ hops[j].at \in Nat
        BY <1>1, <3>2, <4>1
      <4>6. hops[k].at - h.at \in 0 .. Hour
        BY <1>1, <4>2, <4>3, <4>4, <4>5
      <4> QED BY <4>1, <4>5, <4>6
    <3>4. \A k, l \in i .. j : k # l => hops[k] # hops[l]
      <4> TAKE k, l \in i .. j
      <4>1. k < l \/ l < k \/ k = l
        BY <3>2
      <4> QED BY <3>3, <4>1 DEF Lists
    <3>5. g \in Injection(i .. j, within(h))
      <4>1. g = [k \in i .. j |-> g[k]] /\ \A k \in i .. j : g[k] = hops[k]
        OBVIOUS
      <4> DEFINE span == i .. j
                 found == within(h)
      <4>2. \A k \in span : g[k] \in found
        <5> HIDE DEF g, within
        <5> QED BY <3>3, <4>1
      <4>3. \A k, l \in span : g[k] = g[l] => k = l
        <5> HIDE DEF g
        <5> QED BY <3>4, <4>1
      <4>4. g = [k \in span |-> g[k]]
        BY <4>1
      <4> HIDE DEF g, span, found
      <4>5. g \in Injection(span, found)
        BY <4>2, <4>3, <4>4 DEF Injection, IsInjective
      <4> QED BY <4>5 DEF span, found
    <3>6. Cardinality(i .. j) = most
      BY <1>1, <3>1, <3>2, FS_Interval
    <3>7. most <= Cardinality(within(h))
      <4> HIDE DEF g, within, h
      <4> QED BY <1>5, <3>5, <3>6, FS_Injection
    <3>8. Cardinality(within(h)) \in Nat
      <4> HIDE DEF within
      <4> QED BY <1>5, FS_CardinalityType
    <3>9. Cardinality(within(h)) = most
      <4>1. Cardinality(within(h)) <= most
        BY <2>2, <3>2
      <4> HIDE DEF within
      <4> QED BY <1>3, <3>7, <3>8, <4>1
    <3> QED BY <3>2, <3>9
  <2> HIDE DEF within
  <2>4. (\E h \in near : Cardinality(within(h)) = most) /\ \A h \in near : Cardinality(within(h)) <= most
    BY <2>2, <2>3
  <2> QED BY <1>7, <2>4 DEF within, most
<1> QED BY <1>6, <1>7

-----------------------------------------------------------------------------
(* Peel chains: the walks of hand-offs, and what the loop over the starts keeps *)

HandOff(peels, a) == PeelOut(peels[a])
Places(peels, start) == {start} \cup {HandOff(peels, a) : a \in DOMAIN peels}

Grown(walked, peels) ==
    IF Last(walked) \in DOMAIN peels
    THEN Append(walked, PeelOut(peels[Last(walked)])) ELSE walked

IsChain(it, peels, start, m) ==
    it = [n \in 1 .. m |-> IF n = 1 THEN <<start>> ELSE Grown(it[n - 1], peels)]

LEMMA ChainExists ==
    ASSUME NEW peels, NEW start, NEW last \in Nat
    PROVE  \E it : IsChain(it, peels, start, last)
<1> DEFINE bad == {m \in 0 .. last : ~\E it : IsChain(it, peels, start, m)}
<1> SUFFICES ASSUME bad # {} PROVE FALSE
  OBVIOUS
<1>1. PICK m \in bad : \A n \in bad : m <= n
  <2>1. bad \subseteq Nat
    OBVIOUS
  <2> HIDE DEF bad
  <2> QED BY <2>1, LeastOf
<1>2. CASE m = 0
  <2> DEFINE it == [n \in 1 .. 0 |-> <<start>>]
  <2>1. IsChain(it, peels, start, 0)
    BY DEF IsChain
  <2> QED BY <1>1, <1>2, <2>1
<1>3. CASE m # 0
  <2>1. m - 1 \in 0 .. last /\ m - 1 \notin bad /\ m \in Nat
    BY <1>1, <1>3
  <2>2. PICK g : IsChain(g, peels, start, m - 1)
    BY <2>1
  <2> DEFINE it == [n \in 1 .. m |-> IF n = m THEN IF n = 1 THEN <<start>> ELSE Grown(g[m - 1], peels)
                                     ELSE g[n]]
  <2>3. ASSUME NEW n \in 1 .. m
        PROVE  it[n] = IF n = 1 THEN <<start>> ELSE Grown(it[n - 1], peels)
    <3>1. CASE n = m
      <4>1. it[n] = IF n = 1 THEN <<start>> ELSE Grown(g[m - 1], peels)
        BY <3>1
      <4>2. n # 1 => it[m - 1] = g[m - 1]
        BY <2>1, <3>1
      <4> HIDE DEF it
      <4> QED BY <3>1, <4>1, <4>2
    <3>2. CASE n # m
      <4>1. n \in 1 .. m - 1 /\ it[n] = g[n] /\ (n # 1 => it[n - 1] = g[n - 1])
        BY <2>1, <3>2
      <4>2. g[n] = IF n = 1 THEN <<start>> ELSE Grown(g[n - 1], peels)
        BY <2>2, <4>1 DEF IsChain
      <4> HIDE DEF it
      <4> QED BY <4>1, <4>2
    <3> QED BY <3>1, <3>2
  <2>4. IsChain(it, peels, start, m)
    BY <2>3 DEF IsChain
  <2> HIDE DEF it
  <2> QED BY <1>1, <2>4
<1> QED BY <1>2, <1>3

\* A sequence follows the hand-offs from an address on, for n addresses or to their end.
Walked(w, peels, start, n) ==
    /\ w \in Seq(Places(peels, start)) /\ Len(w) \in 1 .. n /\ w[1] = start
    /\ \A i \in 1 .. Len(w) - 1 : w[i] \in DOMAIN peels /\ w[i + 1] = HandOff(peels, w[i])
    /\ Len(w) = n \/ w[Len(w)] \notin DOMAIN peels

LEMMA ChainWalks ==
    ASSUME NEW peels, NEW start
    PROVE  Walked(Chain(peels, start), peels, start, Valve + 1)
<1> DEFINE last == Valve + 1
           chain == CHOOSE it : IsChain(it, peels, start, last)
<1>1. last \in Nat /\ last \in 1 .. last
  BY MuleRulesAssumption
<1>2. Chain(peels, start) = chain[last]
  BY DEF Chain, IsChain, Grown
<1>3. IsChain(chain, peels, start, last)
  <2> HIDE DEF last
  <2> QED BY <1>1, ChainExists
<1> HIDE DEF chain, last
<1>4. \A n \in 1 .. last : chain[n] = IF n = 1 THEN <<start>> ELSE Grown(chain[n - 1], peels)
  <2>1. chain = [n \in 1 .. last |-> IF n = 1 THEN <<start>> ELSE Grown(chain[n - 1], peels)]
    BY <1>3 DEF IsChain
  <2> QED BY <2>1
<1> DEFINE bad == {m \in 1 .. last : ~Walked(chain[m], peels, start, m)}
<1>5. bad = {}
  <2> SUFFICES ASSUME bad # {} PROVE FALSE
    OBVIOUS
  <2>1. PICK m \in bad : \A n \in bad : m <= n
    <3>1. bad \subseteq Nat
      BY <1>1
    <3> HIDE DEF bad
    <3> QED BY <3>1, LeastOf
  <2>2. m \in 1 .. last /\ ~Walked(chain[m], peels, start, m)
        /\ \A n \in 1 .. last : Walked(chain[n], peels, start, n) \/ m <= n
    BY <2>1
  <2> HIDE DEF bad
  <2>3. CASE m = 1
    <3>1. Walked(<<start>>, peels, start, 1)
      BY DEF Walked, Places
    <3> QED BY <1>4, <2>2, <2>3, <3>1
  <2>4. CASE m # 1
    <3>1. m - 1 \in 1 .. last /\ m \in Nat /\ ~(m <= m - 1)
      BY <1>1, <2>2, <2>4
    <3> DEFINE w == chain[m - 1]
               v == chain[m]
    <3>2. Walked(w, peels, start, m - 1)
      BY <2>2, <3>1
    <3>3. v = Grown(w, peels)
      BY <1>4, <2>2, <2>4
    <3> HIDE DEF w, v
    <3>4. w \in Seq(Places(peels, start)) /\ Len(w) \in Nat /\ Len(w) >= 1 /\ Len(w) <= m - 1
          /\ Last(w) = w[Len(w)]
      BY <3>1, <3>2 DEF Walked, Last
    <3>5. CASE Last(w) \in DOMAIN peels
      <4> DEFINE n == HandOff(peels, Last(w))
      <4>1. n \in Places(peels, start) /\ v = Append(w, n)
        BY <3>3, <3>5 DEF Places, Grown, HandOff
      <4> HIDE DEF n
      <4>2. v \in Seq(Places(peels, start)) /\ Len(v) = Len(w) + 1 /\ v[Len(w) + 1] = n
            /\ \A i \in 1 .. Len(w) : v[i] = w[i]
        BY <3>4, <4>1
      <4>3. Len(w) = m - 1
        BY <3>2, <3>4, <3>5 DEF Walked
      <4>4. ASSUME NEW i \in 1 .. Len(v) - 1
            PROVE  v[i] \in DOMAIN peels /\ v[i + 1] = HandOff(peels, v[i])
        <5>1. CASE i = Len(w)
          <6>1. v[i] = Last(w) /\ v[i + 1] = n
            BY <3>4, <4>2, <5>1
          <6> QED BY <3>5, <6>1 DEF n
        <5>2. CASE i # Len(w)
          <6>1. i \in 1 .. Len(w) - 1 /\ v[i] = w[i] /\ v[i + 1] = w[i + 1]
            BY <3>4, <4>2, <5>2
          <6> QED BY <3>2, <6>1 DEF Walked
        <5> QED BY <5>1, <5>2
      <4>5. Len(v) = m /\ Len(v) \in 1 .. m /\ v[1] = w[1]
        BY <3>1, <3>4, <4>2, <4>3
      <4>6. Walked(v, peels, start, m)
        BY <3>2, <4>2, <4>4, <4>5 DEF Walked
      <4> QED BY <2>2, <4>6 DEF v
    <3>6. CASE Last(w) \notin DOMAIN peels
      <4>1. v = w
        BY <3>3, <3>6 DEF Grown
      <4>2. Len(w) \in 1 .. m
        BY <3>1, <3>4
      <4>3. Walked(v, peels, start, m)
        BY <3>2, <3>4, <3>6, <4>1, <4>2 DEF Walked
      <4> QED BY <2>2, <4>3 DEF v
    <3> QED BY <3>5, <3>6
  <2> QED BY <2>3, <2>4
<1> QED BY <1>1, <1>2, <1>5 DEF last

IsHandOffs(it, peels, start, m) ==
    it = [n \in 0 .. m |-> IF n = 0 THEN {start}
                           ELSE {PeelOut(peels[a]) : a \in it[n - 1] \cap DOMAIN peels}]

LEMMA HandOffsExist ==
    ASSUME NEW peels, NEW start, NEW last \in Nat
    PROVE  \E it : IsHandOffs(it, peels, start, last)
<1> DEFINE bad == {m \in 0 .. last : ~\E it : IsHandOffs(it, peels, start, m)}
           on(ring) == {PeelOut(peels[a]) : a \in ring \cap DOMAIN peels}
<1> SUFFICES ASSUME bad # {} PROVE FALSE
  OBVIOUS
<1>1. PICK m \in bad : \A n \in bad : m <= n
  <2>1. bad \subseteq Nat
    OBVIOUS
  <2> HIDE DEF bad
  <2> QED BY <2>1, LeastOf
<1>2. CASE m = 0
  <2> DEFINE it == [n \in 0 .. 0 |-> {start}]
  <2>1. IsHandOffs(it, peels, start, 0)
    BY DEF IsHandOffs
  <2> QED BY <1>1, <1>2, <2>1
<1>3. CASE m # 0
  <2>1. m - 1 \in 0 .. last /\ m - 1 \notin bad /\ m \in Nat
    BY <1>1, <1>3
  <2>2. PICK g : IsHandOffs(g, peels, start, m - 1)
    BY <2>1
  <2>3. g = [n \in 0 .. m - 1 |-> IF n = 0 THEN {start} ELSE on(g[n - 1])]
    BY <2>2 DEF IsHandOffs
  <2> DEFINE it == [n \in 0 .. m |-> IF n = m THEN on(g[m - 1]) ELSE g[n]]
  <2> HIDE DEF on
  <2>4. ASSUME NEW n \in 0 .. m
        PROVE  it[n] = IF n = 0 THEN {start} ELSE on(it[n - 1])
    <3>1. CASE n = m
      <4>1. it[n] = on(g[m - 1]) /\ it[m - 1] = g[m - 1]
        BY <1>3, <2>1, <3>1
      <4> HIDE DEF it
      <4> QED BY <1>3, <3>1, <4>1
    <3>2. CASE n # m
      <4>1. n \in 0 .. m - 1 /\ it[n] = g[n] /\ (n # 0 => it[n - 1] = g[n - 1])
        BY <2>1, <3>2
      <4>2. g[n] = IF n = 0 THEN {start} ELSE on(g[n - 1])
        BY <2>3, <4>1
      <4> HIDE DEF it
      <4> QED BY <4>1, <4>2
    <3> QED BY <3>1, <3>2
  <2>5. it = [n \in 0 .. m |-> IF n = 0 THEN {start} ELSE on(it[n - 1])]
    BY <2>4
  <2> HIDE DEF it
  <2>6. IsHandOffs(it, peels, start, m)
    BY <2>5 DEF IsHandOffs, on
  <2> QED BY <1>1, <2>6
<1> QED BY <1>2, <1>3

LEMMA LongWalkIs ==
    ASSUME NEW peels, NEW start
    PROVE  LET chain == Chain(peels, start)
           IN  LongWalk(peels, start) = IF Len(chain) - 1 >= MinChain THEN ToSet(chain) ELSE {}
<1> DEFINE w == Chain(peels, start)
           after == CHOOSE it : IsHandOffs(it, peels, start, Valve)
<1>1. Walked(w, peels, start, Valve + 1)
  BY ChainWalks
<1> HIDE DEF w
<1>2. Valve \in Nat /\ MinChain \in Nat /\ Valve >= MinChain
  BY MuleRulesAssumption
<1>3. Len(w) \in Nat /\ Len(w) >= 1 /\ Len(w) <= Valve + 1 /\ w[1] = start
      /\ DOMAIN w = 1 .. Len(w)
  BY <1>1, <1>2 DEF Walked
<1>4. HandOffs(peels, start) = after
  BY DEF HandOffs, IsHandOffs
<1>5. IsHandOffs(after, peels, start, Valve)
  BY <1>2, HandOffsExist
<1> HIDE DEF after
<1>6. \A n \in 0 .. Valve : after[n] = IF n = 0 THEN {start}
          ELSE {HandOff(peels, a) : a \in after[n - 1] \cap DOMAIN peels}
  <2>1. after = [n \in 0 .. Valve |-> IF n = 0 THEN {start}
                   ELSE {HandOff(peels, a) : a \in after[n - 1] \cap DOMAIN peels}]
    BY <1>5 DEF IsHandOffs, HandOff
  <2> QED BY <2>1
<1> DEFINE is(m) == IF m < Len(w) THEN {w[m + 1]} ELSE {}
           bad == {m \in 0 .. Valve : after[m] # is(m)}
<1>7. bad = {}
  <2> SUFFICES ASSUME bad # {} PROVE FALSE
    OBVIOUS
  <2>1. PICK m \in bad : \A n \in bad : m <= n
    <3>1. bad \subseteq Nat
      BY <1>2
    <3> HIDE DEF bad
    <3> QED BY <3>1, LeastOf
  <2>2. m \in 0 .. Valve /\ after[m] # is(m)
        /\ \A n \in 0 .. Valve : after[n] = is(n) \/ m <= n
    BY <2>1
  <2> HIDE DEF bad
  <2>3. CASE m = 0
    <3>1. after[0] = {start}
      BY <1>6, <2>2, <2>3
    <3>2. 0 + 1 = 1 /\ 0 < Len(w)
      BY <1>3
    <3>3. is(0) = {start}
      BY <1>3, <3>2
    <3> HIDE DEF is
    <3> QED BY <2>2, <2>3, <3>1, <3>3
  <2>4. CASE m # 0
    <3>1. m - 1 \in 0 .. Valve /\ m \in Nat /\ ~(m <= m - 1)
      BY <1>2, <2>2, <2>4
    <3>2. after[m - 1] = is(m - 1)
      <4> HIDE DEF is
      <4> QED BY <2>2, <3>1
    <3>3. after[m] = {HandOff(peels, a) : a \in after[m - 1] \cap DOMAIN peels}
      BY <1>6, <2>2, <2>4
    <3>4. CASE m < Len(w)
      <4>1. m \in 1 .. Len(w) - 1
        BY <1>3, <2>4, <3>1, <3>4
      <4>2. w[m] \in DOMAIN peels /\ w[m + 1] = HandOff(peels, w[m])
        BY <1>1, <4>1 DEF Walked
      <4>3. after[m - 1] = {w[m]}
        BY <1>3, <3>1, <3>2, <3>4
      <4>4. after[m] = {HandOff(peels, w[m])}
        BY <3>3, <4>2, <4>3
      <4> QED BY <2>2, <3>4, <4>2, <4>4
    <3>5. CASE m = Len(w)
      <4>1. w[m] \notin DOMAIN peels
        <5>1. Len(w) = Valve + 1 \/ w[Len(w)] \notin DOMAIN peels
          BY <1>1 DEF Walked
        <5>2. Len(w) # Valve + 1
          BY <1>2, <2>2, <3>5
        <5> QED BY <3>5, <5>1, <5>2
      <4>2. after[m - 1] = {w[m]}
        BY <1>3, <3>1, <3>2, <3>5
      <4>3. after[m] = {}
        BY <3>3, <4>1, <4>2
      <4> QED BY <1>3, <2>2, <3>5, <4>3
    <3>6. CASE m > Len(w)
      <4>1. after[m - 1] = {}
        BY <1>3, <3>1, <3>2, <3>6
      <4>2. after[m] = {}
        BY <3>3, <4>1
      <4> QED BY <1>3, <2>2, <3>1, <3>6, <4>2
    <3>7. m < Len(w) \/ m = Len(w) \/ m > Len(w)
      <4> DEFINE l == Len(w)
      <4>1. l \in Nat
        BY <1>3
      <4> HIDE DEF l, is
      <4>2. m < l \/ m = l \/ m > l
        BY <3>1, <4>1
      <4> QED BY <4>2 DEF l
    <3> QED BY <3>4, <3>5, <3>6, <3>7
  <2> QED BY <2>3, <2>4
<1>8. \A m \in 0 .. Valve : after[m] = is(m)
  BY <1>7
<1> HIDE DEF bad
<1>9. after[MinChain] = {} <=> ~(Len(w) - 1 >= MinChain)
  <2>1. MinChain \in 0 .. Valve
    BY <1>2
  <2>2. after[MinChain] = is(MinChain)
    BY <1>8, <2>1
  <2> QED BY <1>2, <1>3, <2>2
<1>10. UNION {after[n] : n \in 0 .. Valve} = ToSet(w)
  <2>1. ASSUME NEW a \in ToSet(w) PROVE \E n \in 0 .. Valve : a \in after[n]
    <3>1. PICK i \in 1 .. Len(w) : w[i] = a
      BY <1>3 DEF ToSet
    <3>2. i - 1 \in 0 .. Valve /\ is(i - 1) = {w[i]}
      BY <1>2, <1>3
    <3>3. after[i - 1] = is(i - 1)
      <4> HIDE DEF is
      <4> QED BY <1>8, <3>2
    <3> HIDE DEF is
    <3> QED BY <3>1, <3>2, <3>3
  <2>2. ASSUME NEW n \in 0 .. Valve, NEW a \in after[n] PROVE a \in ToSet(w)
    <3>1. a \in is(n)
      BY <1>8
    <3>2. n + 1 \in 1 .. Len(w) /\ a = w[n + 1]
      BY <1>2, <1>3, <3>1
    <3> QED BY <1>3, <3>2 DEF ToSet
  <2> QED BY <2>1, <2>2
<1>11. LongWalk(peels, start) = IF after[MinChain] = {} THEN {} ELSE UNION {after[n] : n \in 0 .. Valve}
  BY <1>4 DEF LongWalk
<1> QED BY <1>9, <1>10, <1>11 DEF w

\* A chain that is not cut off while addresses still peel ends or returns: where a hand-off
\* from it leads, it has been.
LEMMA ChainCloses ==
    ASSUME NEW peels, NEW start, NEW w, Walked(w, peels, start, Valve + 1),
           IsFiniteSet(DOMAIN peels), Cardinality(DOMAIN peels) <= Valve
    PROVE  \A a \in ToSet(w) \cap DOMAIN peels : HandOff(peels, a) \in ToSet(w)
<1> DEFINE last == Len(w)
           D == DOMAIN peels
<1>1. Valve \in Nat /\ last \in Nat /\ last >= 1 /\ last <= Valve + 1 /\ DOMAIN w = 1 .. last
  BY MuleRulesAssumption DEF Walked
<1>2. \A i \in 1 .. last - 1 : w[i] \in D /\ w[i + 1] = HandOff(peels, w[i])
  BY DEF Walked
<1>3. \A i \in 1 .. last : w[i] \in ToSet(w)
  BY <1>1 DEF ToSet
<1>4. w[last] \in D => HandOff(peels, w[last]) \in ToSet(w)
  <2> SUFFICES ASSUME w[last] \in D PROVE HandOff(peels, w[last]) \in ToSet(w)
    OBVIOUS
  <2>1. last = Valve + 1
    BY DEF Walked
  <2>2. \A i \in 1 .. last : w[i] \in D
    <3> TAKE i \in 1 .. last
    <3>1. i = last \/ i \in 1 .. last - 1
      <4>1. last \in Nat
        BY <1>1
      <4> HIDE DEF last
      <4> QED BY <4>1
    <3> QED BY <1>2, <3>1
  <2>3. \E x, y \in 1 .. last : x # y /\ w[x] = w[y]
    <3> DEFINE f == [i \in 1 .. last |-> w[i]]
    <3>1. IsFiniteSet(1 .. last) /\ Cardinality(1 .. last) = last
      BY <1>1, FS_Interval
    <3>2. Cardinality(D) \in Nat
      BY FS_CardinalityType
    <3>3. Cardinality(D) < Cardinality(1 .. last)
      BY <1>1, <2>1, <3>1, <3>2
    <3>4. f \in [1 .. last -> D]
      BY <2>2
    <3> HIDE DEF f, D, last
    <3>5. \E x, y \in 1 .. last : x # y /\ f[x] = f[y]
      BY <3>1, <3>3, <3>4, FS_PigeonHole DEF D
    <3> QED BY <3>5 DEF f
  <2>4. PICK x \in 1 .. last, y \in 1 .. last : x < y /\ w[x] = w[y]
    <3>1. PICK p \in 1 .. last, q \in 1 .. last : p # q /\ w[p] = w[q]
      BY <2>3
    <3>2. p < q \/ q < p
      BY <3>1
    <3> QED BY <3>1, <3>2
  <2> DEFINE bad == {k \in 0 .. last - y : w[x + k] # w[y + k]}
  <2>5. bad = {}
    <3> SUFFICES ASSUME bad # {} PROVE FALSE
      OBVIOUS
    <3>1. PICK k \in bad : \A n \in bad : k <= n
      <4>1. bad \subseteq Nat
        BY <1>1
      <4> HIDE DEF bad
      <4> QED BY <4>1, LeastOf
    <3>2. k \in 0 .. last - y /\ w[x + k] # w[y + k]
          /\ \A n \in 0 .. last - y : w[x + n] = w[y + n] \/ k <= n
      BY <3>1
    <3> HIDE DEF bad
    <3>3. k # 0
      BY <2>4, <3>2
    <3>4. k - 1 \in 0 .. last - y /\ ~(k <= k - 1)
      BY <1>1, <3>2, <3>3
    <3>5. w[x + (k - 1)] = w[y + (k - 1)]
      BY <3>2, <3>4
    <3>6. x + (k - 1) \in 1 .. last - 1 /\ y + (k - 1) \in 1 .. last - 1
          /\ (x + (k - 1)) + 1 = x + k /\ (y + (k - 1)) + 1 = y + k
      BY <1>1, <2>4, <3>2, <3>3
    <3>7. w[x + k] = HandOff(peels, w[x + (k - 1)]) /\ w[y + k] = HandOff(peels, w[y + (k - 1)])
      BY <1>2, <3>6
    <3> QED BY <3>2, <3>5, <3>7
  <2>6. last - y \in 0 .. last - y /\ y + (last - y) = last
    BY <1>1
  <2>7. w[x + (last - y)] = w[last]
    BY <2>5, <2>6
  <2> DEFINE i == x + (last - y)
  <2>8. i \in 1 .. last - 1 /\ i + 1 \in 1 .. last
    BY <1>1, <2>4
  <2> QED BY <1>2, <1>3, <2>7, <2>8
<1>5. ASSUME NEW a \in ToSet(w) \cap D PROVE HandOff(peels, a) \in ToSet(w)
  <2>1. PICK i \in 1 .. last : w[i] = a
    BY <1>1 DEF ToSet
  <2>2. CASE i = last
    BY <1>4, <2>1, <2>2
  <2>3. CASE i # last
    <3>1. i \in 1 .. last - 1 /\ i + 1 \in 1 .. last
      BY <1>1, <2>1, <2>3
    <3> QED BY <1>2, <1>3, <2>1, <3>1
  <2> QED BY <2>2, <2>3
<1> QED BY <1>5

LEMMA ChainWithin ==
    ASSUME NEW peels, NEW start, NEW w, NEW n, Walked(w, peels, start, n),
           NEW met, start \in met, \A a \in met \cap DOMAIN peels : HandOff(peels, a) \in met,
           n \in Nat
    PROVE  ToSet(w) \subseteq met
<1> DEFINE last == Len(w)
<1>1. last \in Nat /\ DOMAIN w = 1 .. last /\ w[1] = start
      /\ \A i \in 1 .. last - 1 : w[i] \in DOMAIN peels /\ w[i + 1] = HandOff(peels, w[i])
  BY DEF Walked
<1> HIDE DEF last
<1> DEFINE bad == {i \in 1 .. last : w[i] \notin met}
<1>2. bad = {}
  <2> SUFFICES ASSUME bad # {} PROVE FALSE
    OBVIOUS
  <2>1. PICK i \in bad : \A j \in bad : i <= j
    <3>1. bad \subseteq Nat
      BY <1>1
    <3> HIDE DEF bad
    <3> QED BY <3>1, LeastOf
  <2>2. i \in 1 .. last /\ w[i] \notin met /\ \A j \in 1 .. last : w[j] \in met \/ i <= j
    BY <2>1
  <2> HIDE DEF bad
  <2>3. i # 1
    BY <1>1, <2>2
  <2>4. i - 1 \in 1 .. last - 1 /\ i - 1 \in 1 .. last /\ ~(i <= i - 1) /\ (i - 1) + 1 = i
    BY <1>1, <2>2, <2>3
  <2>5. w[i - 1] \in met /\ w[i - 1] \in DOMAIN peels /\ w[i] = HandOff(peels, w[i - 1])
    BY <1>1, <2>2, <2>4
  <2> QED BY <2>2, <2>5
<1>3. \A i \in 1 .. last : w[i] \in met
  BY <1>2
<1> QED BY <1>1, <1>3 DEF ToSet

Passed(met, hops, n) ==
    LET chain == Chain(Peels(hops), hops[n].from)
    IN  IF n \in PeelTxs(hops) /\ hops[n].from \notin met /\ Len(chain) - 1 >= MinChain
        THEN met \cup ToSet(chain) ELSE met

IsVisited(it, hops, m) ==
    it = [n \in 0 .. m |-> IF n = 0 THEN {} ELSE Passed(it[n - 1], hops, n)]

LEMMA VisitedExists ==
    ASSUME NEW hops, NEW last \in Nat
    PROVE  \E it : IsVisited(it, hops, last)
<1> DEFINE bad == {m \in 0 .. last : ~\E it : IsVisited(it, hops, m)}
<1> SUFFICES ASSUME bad # {} PROVE FALSE
  OBVIOUS
<1>1. PICK m \in bad : \A n \in bad : m <= n
  <2>1. bad \subseteq Nat
    OBVIOUS
  <2> HIDE DEF bad
  <2> QED BY <2>1, LeastOf
<1>2. CASE m = 0
  <2> DEFINE it == [n \in 0 .. 0 |-> {}]
  <2>1. IsVisited(it, hops, 0)
    BY DEF IsVisited
  <2> QED BY <1>1, <1>2, <2>1
<1>3. CASE m # 0
  <2>1. m - 1 \in 0 .. last /\ m - 1 \notin bad /\ m \in Nat
    BY <1>1, <1>3
  <2>2. PICK g : IsVisited(g, hops, m - 1)
    BY <2>1
  <2> DEFINE it == [n \in 0 .. m |-> IF n = m THEN Passed(g[m - 1], hops, m) ELSE g[n]]
  <2>3. ASSUME NEW n \in 0 .. m
        PROVE  it[n] = IF n = 0 THEN {} ELSE Passed(it[n - 1], hops, n)
    <3>1. CASE n = m
      <4>1. it[n] = Passed(g[m - 1], hops, m) /\ it[m - 1] = g[m - 1]
        BY <1>3, <2>1, <3>1
      <4> HIDE DEF it
      <4> QED BY <1>3, <3>1, <4>1
    <3>2. CASE n # m
      <4>1. n \in 0 .. m - 1 /\ it[n] = g[n] /\ (n # 0 => it[n - 1] = g[n - 1])
        BY <2>1, <3>2
      <4>2. g[n] = IF n = 0 THEN {} ELSE Passed(g[n - 1], hops, n)
        BY <2>2, <4>1 DEF IsVisited
      <4> HIDE DEF it
      <4> QED BY <4>1, <4>2
    <3> QED BY <3>1, <3>2
  <2>4. IsVisited(it, hops, m)
    BY <2>3 DEF IsVisited
  <2> HIDE DEF it
  <2> QED BY <1>1, <2>4
<1> QED BY <1>2, <1>3

\* After n hops: what is reported lies on long walks, every start of one so far is reported,
\* and unless the valve cuts off, the hand-offs lead nowhere else.
Reports(met, peels, starts) ==
    /\ met \subseteq OnLongWalks(peels)
    /\ \A s \in starts : LongWalk(peels, s) # {} => s \in met
    /\ Cardinality(DOMAIN peels) <= Valve =>
          \A a \in met \cap DOMAIN peels : HandOff(peels, a) \in met

LEMMA PassedKeeps ==
    ASSUME NEW hops, NEW n, NEW met, NEW peels, peels = Peels(hops), IsFiniteSet(DOMAIN peels),
           NEW starts, Reports(met, peels, starts),
           n \in PeelTxs(hops) => hops[n].from \in DOMAIN peels
    PROVE  /\ n \in PeelTxs(hops) => Reports(Passed(met, hops, n), peels, starts \cup {hops[n].from})
           /\ n \notin PeelTxs(hops) => Passed(met, hops, n) = met
<1>1. CASE n \notin PeelTxs(hops)
  BY <1>1 DEF Passed
<1>2. CASE n \in PeelTxs(hops)
  <2> DEFINE s == hops[n].from
             chain == Chain(peels, s)
             more == Passed(met, hops, n)
  <2>1. Walked(chain, peels, s, Valve + 1) /\ s \in DOMAIN peels
    BY <1>2, ChainWalks
  <2>2. LongWalk(peels, s) = IF Len(chain) - 1 >= MinChain THEN ToSet(chain) ELSE {}
    BY LongWalkIs
  <2>3. more = IF s \notin met /\ Len(chain) - 1 >= MinChain THEN met \cup ToSet(chain) ELSE met
    BY <1>2 DEF Passed
  <2> HIDE DEF chain, more, s
  <2>4. s \in ToSet(chain)
    <3>1. 1 \in DOMAIN chain /\ chain[1] = s
      BY <2>1, MuleRulesAssumption DEF Walked
    <3> QED BY <3>1 DEF ToSet
  <2>5. CASE s \notin met /\ Len(chain) - 1 >= MinChain
    <3>1. more = met \cup ToSet(chain)
      BY <2>3, <2>5
    <3>2. more \subseteq OnLongWalks(peels)
      <4>1. LongWalk(peels, s) = ToSet(chain)
        BY <2>2, <2>5
      <4>2. LongWalk(peels, s) \subseteq OnLongWalks(peels)
        BY <2>1 DEF OnLongWalks
      <4>3. met \subseteq OnLongWalks(peels)
        BY DEF Reports
      <4> QED BY <3>1, <4>1, <4>2, <4>3
    <3>3. \A t \in starts \cup {s} : LongWalk(peels, t) # {} => t \in more
      BY <2>4, <3>1 DEF Reports
    <3>4. ASSUME Cardinality(DOMAIN peels) <= Valve, NEW a \in more \cap DOMAIN peels
          PROVE  HandOff(peels, a) \in more
      <4>1. CASE a \in met
        BY <3>1, <3>4, <4>1 DEF Reports
      <4>2. CASE a \in ToSet(chain)
        <5>1. HandOff(peels, a) \in ToSet(chain)
          BY <2>1, <3>4, <4>2, ChainCloses
        <5> QED BY <3>1, <5>1
      <4> QED BY <3>1, <4>1, <4>2
    <3>5. Reports(more, peels, starts \cup {s})
      BY <3>2, <3>3, <3>4 DEF Reports
    <3> QED BY <1>2, <3>5 DEF more, s
  <2>6. CASE ~(s \notin met /\ Len(chain) - 1 >= MinChain)
    <3>1. more = met
      BY <2>3, <2>6
    <3>2. LongWalk(peels, s) # {} => s \in met
      BY <2>2, <2>6
    <3>3. Reports(more, peels, starts \cup {s})
      BY <3>1, <3>2 DEF Reports
    <3> QED BY <1>2, <3>3 DEF more, s
  <2> QED BY <2>5, <2>6
<1> QED BY <1>1, <1>2

LEMMA PeelChainsAreWalks ==
    ASSUME NEW hops, NEW near, hops \in Seq(near)
    PROVE  LET peels == Peels(hops)
               reported == PeelChains(hops)
           IN  /\ reported \subseteq OnLongWalks(peels)
               /\ \A s \in DOMAIN peels : LongWalk(peels, s) # {} => s \in reported
               /\ Cardinality(DOMAIN peels) <= Valve => reported = OnLongWalks(peels)
<1> DEFINE last == Len(hops)
           txs == PeelTxs(hops)
           peels == Peels(hops)
           visited == CHOOSE it : IsVisited(it, hops, last)
           starts(m) == {hops[i].from : i \in txs \cap (1 .. m)}
<1>1. last \in Nat /\ DOMAIN hops = 1 .. last /\ txs \subseteq 1 .. last
  BY DEF PeelTxs
<1>2. PeelChains(hops) = visited[last]
  BY DEF PeelChains, IsVisited, Passed
<1>3. IsVisited(visited, hops, last)
  <2> HIDE DEF last
  <2> QED BY <1>1, VisitedExists
<1>4. DOMAIN peels = {hops[i].from : i \in txs}
  BY DEF Peels
<1> HIDE DEF visited, txs, peels
<1>5. IsFiniteSet(DOMAIN peels)
  <2> DEFINE f == [i \in txs |-> hops[i].from]
             D == DOMAIN peels
  <2>1. IsFiniteSet(1 .. last)
    BY <1>1, FS_Interval
  <2>2. IsFiniteSet(txs)
    <3> HIDE DEF last
    <3> QED BY <1>1, <2>1, FS_Subset
  <2>3. f \in Surjection(txs, D)
    BY <1>4 DEF Surjection
  <2> HIDE DEF f, D
  <2>4. IsFiniteSet(D)
    BY <2>2, <2>3, FS_Surjection
  <2> QED BY <2>4 DEF D
<1> HIDE DEF last
<1>6. visited[0] = {} /\ \A n \in 1 .. last : visited[n] = Passed(visited[n - 1], hops, n)
  <2>1. visited = [n \in 0 .. last |-> IF n = 0 THEN {} ELSE Passed(visited[n - 1], hops, n)]
    BY <1>3 DEF IsVisited
  <2>2. 0 \in 0 .. last /\ \A n \in 1 .. last : n \in 0 .. last /\ n # 0
    BY <1>1
  <2>3. \A n \in 0 .. last : visited[n] = IF n = 0 THEN {} ELSE Passed(visited[n - 1], hops, n)
    BY <2>1
  <2> QED BY <2>2, <2>3
<1> DEFINE bad == {m \in 0 .. last : ~Reports(visited[m], peels, starts(m))}
<1>7. bad = {}
  <2> SUFFICES ASSUME bad # {} PROVE FALSE
    OBVIOUS
  <2>1. PICK m \in bad : \A n \in bad : m <= n
    <3>1. bad \subseteq Nat
      BY <1>1
    <3> HIDE DEF bad
    <3> QED BY <3>1, LeastOf
  <2>2. m \in 0 .. last /\ ~Reports(visited[m], peels, starts(m))
        /\ \A n \in 0 .. last : Reports(visited[n], peels, starts(n)) \/ m <= n
    BY <2>1
  <2> HIDE DEF bad
  <2>3. CASE m = 0
    <3>1. starts(0) = {}
      OBVIOUS
    <3>2. Reports({}, peels, {})
      BY DEF Reports
    <3> HIDE DEF starts
    <3> QED BY <1>6, <2>2, <2>3, <3>1, <3>2
  <2>4. CASE m # 0
    <3>1. m \in 1 .. last /\ m - 1 \in 0 .. last /\ m \in Nat /\ ~(m <= m - 1)
      BY <1>1, <2>2, <2>4
    <3>2. Reports(visited[m - 1], peels, starts(m - 1))
      <4> HIDE DEF starts
      <4> QED BY <2>2, <3>1
    <3>3. visited[m] = Passed(visited[m - 1], hops, m)
      BY <1>6, <3>1
    <3>4. \A i \in 1 .. m : i = m \/ i \in 1 .. m - 1
      BY <3>1
    <3>5. \A i \in 1 .. m - 1 : i \in 1 .. m
      BY <3>1
    <3>6. m \in txs => starts(m) = starts(m - 1) \cup {hops[m].from} /\ hops[m].from \in DOMAIN peels
      BY <1>4, <3>1, <3>4, <3>5
    <3>7. m \notin txs => starts(m) = starts(m - 1)
      BY <3>4, <3>5
    <3> DEFINE met == visited[m - 1]
               before == starts(m - 1)
    <3> HIDE DEF met, before, starts
    <3>8. (m \in txs => Reports(Passed(met, hops, m), peels, before \cup {hops[m].from}))
          /\ (m \notin txs => Passed(met, hops, m) = met)
      <4>1. Reports(met, peels, before) /\ (m \in PeelTxs(hops) => hops[m].from \in DOMAIN peels)
        BY <3>2, <3>6 DEF met, before, txs
      <4>2. peels = Peels(hops)
        BY DEF peels
      <4> QED BY <1>5, <4>1, <4>2, PassedKeeps DEF txs
    <3> QED BY <2>2, <3>2, <3>3, <3>6, <3>7, <3>8 DEF met, before
  <2> QED BY <2>3, <2>4
<1> DEFINE reported == visited[last]
<1>8. Reports(reported, peels, DOMAIN peels)
  <2>1. last \in 0 .. last
    BY <1>1
  <2>2. Reports(visited[last], peels, starts(last))
    BY <1>7, <2>1
  <2>3. starts(last) = DOMAIN peels
    BY <1>1, <1>4
  <2> HIDE DEF starts
  <2> QED BY <2>2, <2>3
<1>9. ASSUME Cardinality(DOMAIN peels) <= Valve PROVE OnLongWalks(peels) \subseteq reported
  <2> SUFFICES ASSUME NEW s \in DOMAIN peels PROVE LongWalk(peels, s) \subseteq reported
    BY DEF OnLongWalks
  <2>1. CASE LongWalk(peels, s) = {}
    BY <2>1
  <2>2. CASE LongWalk(peels, s) # {}
    <3> DEFINE chain == Chain(peels, s)
    <3>1. LongWalk(peels, s) = ToSet(chain)
      BY <2>2, LongWalkIs
    <3>2. Walked(chain, peels, s, Valve + 1)
      BY ChainWalks
    <3>3. s \in reported /\ \A a \in reported \cap DOMAIN peels : HandOff(peels, a) \in reported
      BY <1>8, <1>9, <2>2 DEF Reports
    <3>4. Valve + 1 \in Nat
      BY MuleRulesAssumption
    <3> HIDE DEF chain, reported
    <3>5. ToSet(chain) \subseteq reported
      BY <3>2, <3>3, <3>4, ChainWithin
    <3> QED BY <3>1, <3>5
  <2> QED BY <2>1, <2>2
<1>10. /\ reported \subseteq OnLongWalks(peels)
       /\ \A s \in DOMAIN peels : LongWalk(peels, s) # {} => s \in reported
       /\ Cardinality(DOMAIN peels) <= Valve => reported = OnLongWalks(peels)
  <2> HIDE DEF reported
  <2> QED BY <1>8, <1>9 DEF Reports
<1> QED BY <1>2, <1>10 DEF peels

-----------------------------------------------------------------------------
\* The measures of the mule analysis are what they are named for, for every set of stored
\* hops: breadth-first depths, the busiest hour and the peel chains (graphDistance.ts,
\* hopMath.ts, peelChain.ts).
THEOREM MeasuresAreRight == AnalysisSpec => []MeasuresAgree
<1>1. AnalysisTypeOK => HourIsBusiest /\ PeelsAreWalks
  <2> SUFFICES ASSUME AnalysisTypeOK PROVE HourIsBusiest /\ PeelsAreWalks
    OBVIOUS
  <2>1. stored \subseteq Finds
    BY DEF AnalysisTypeOK
  <2>2. HourIsBusiest
    <3> SUFFICES ASSUME NEW c \in Cases, NEW k \in Keys
                 PROVE  LET near == {s \in ToSet(Sides) : s.of \in Hops(c) /\ Holder(s) = k}
                            hour(h) == Cardinality({f \in near : f.at - h.at \in 0..Hour})
                            most == Burst(Among(Sides, near))
                        IN  IF near = {} THEN most = 0
                            ELSE (\E h \in near : hour(h) = most) /\ \A h \in near : hour(h) <= most
      BY DEF HourIsBusiest
    <3> DEFINE near == {s \in ToSet(Sides) : s.of \in Hops(c) /\ Holder(s) = k}
    <3>1. near \in SUBSET AllSides
      BY DEF AllSides
    <3> HIDE DEF near
    <3>2. /\ Lists(Among(Sides, near), near) /\ IsFiniteSet(near)
          /\ \A s \in near : s.at \in Nat
      BY <3>1, SidesLists, AmongLists, FS_Subset
    <3> DEFINE hops == Among(Sides, near)
    <3> HIDE DEF hops
    <3>3. IF near = {} THEN Burst(hops) = 0
          ELSE (\E h \in near : Cardinality({f \in near : f.at - h.at \in 0..Hour}) = Burst(hops))
               /\ \A h \in near : Cardinality({f \in near : f.at - h.at \in 0..Hour}) <= Burst(hops)
      BY <3>2, BurstIsBusiest DEF hops
    <3> QED BY <3>3 DEF near, hops
  <2>3. PeelsAreWalks
    <3> SUFFICES ASSUME NEW t \in Traces
                 PROVE  LET hops == InOrder({f \in stored : f.trace = t /\ f.chain = "BTC"})
                            peels == Peels(hops)
                            reported == PeelChains(hops)
                        IN  /\ reported \subseteq OnLongWalks(peels)
                            /\ \A s \in DOMAIN peels : LongWalk(peels, s) # {} => s \in reported
                            /\ Cardinality(DOMAIN peels) <= Valve => reported = OnLongWalks(peels)
      BY DEF PeelsAreWalks
    <3> DEFINE near == {f \in stored : f.trace = t /\ f.chain = "BTC"}
               hops == InOrder(near)
    <3>1. near \in SUBSET Finds
      BY <2>1
    <3> HIDE DEF near
    <3>2. hops \in Seq(near)
      BY <3>1, InOrderLists DEF Lists
    <3> HIDE DEF hops
    <3>3. /\ PeelChains(hops) \subseteq OnLongWalks(Peels(hops))
          /\ \A s \in DOMAIN Peels(hops) : LongWalk(Peels(hops), s) # {} => s \in PeelChains(hops)
          /\ Cardinality(DOMAIN Peels(hops)) <= Valve => PeelChains(hops) = OnLongWalks(Peels(hops))
      BY <3>2, PeelChainsAreWalks
    <3> QED BY <3>3 DEF near, hops
  <2> QED BY <2>2, <2>3
<1> QED BY <1>1, AnalysisTypeCorrect, DepthsAreRight, PTL DEF MeasuresAgree

==============================================================================
