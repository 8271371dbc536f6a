--------------------------- MODULE AppendOnlyLog ---------------------------
(***************************************************************************)
(* What the audit trail promises to the services that record into it: one  *)
(* log for the whole system, to which every entry is appended at most once *)
(* and in one step, and out of which nothing is ever taken.                *)
(***************************************************************************)
EXTENDS Sequences

CONSTANT Entries
VARIABLE log

Recorded(e) == \E i \in DOMAIN log : log[i] = e

Init == log = <<>>
Append1(e) == ~Recorded(e) /\ log' = Append(log, e)
Next == \E e \in Entries : Append1(e)
Spec == Init /\ [][Next]_log
=============================================================================
