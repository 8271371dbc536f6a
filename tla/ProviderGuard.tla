---------------------------- MODULE ProviderGuard ----------------------------
(***************************************************************************)
(* workers/adapters/providerGuard.ts: calls to block explorers and price   *)
(* feeds. A call walks a list of providers; each has a circuit breaker     *)
(* shared by all calls of the process, perhaps a daily budget, and bounded *)
(* retries. Calls interleave at their awaits: the budget counter, the run  *)
(* itself and the back-off. Time only matters against the cooldown, so an  *)
(* open circuit is "open" until Cool makes it "cooled".                    *)
(***************************************************************************)
EXTENDS Naturals

CONSTANTS
    Calls,       \* calls of the process that may be in flight at once
    N,           \* providers, in the order the calls try them
    Attempts,    \* RetryPolicy.attempts
    Threshold,   \* BreakerPolicy.failureThreshold
    Answers      \* what else can happen: definitive errors, a spent budget

ASSUME GuardAssumption ==
    /\ N \in Nat \ {0}
    /\ Attempts \in Nat \ {0}
    /\ Threshold \in Nat \ {0}
    /\ Answers \subseteq {"hard", "budget"}

VARIABLES
    breaker,   \* breaker[p]: failures, openedAt as a phase, and trial
    call,      \* call[c]: where c is; hits is an observation
    spent,     \* spent[p]: is the daily budget of p used up?
    healthy    \* have the providers stopped failing for good?

vars == <<breaker, call, spent, healthy>>

Providers == 1 .. N
MaxHits == 2   \* hits are not counted beyond this bound
Breaker == [failures : 0 .. Threshold, circuit : {"closed", "open", "cooled"}, trial : BOOLEAN]
Call == [pc : {"idle", "budget", "running", "sleeping"}, at : Providers,
         attempt : 1 .. Attempts, hits : 0 .. MaxHits]

Closed == [failures |-> 0, circuit |-> "closed", trial |-> FALSE]
Idle == [pc |-> "idle", at |-> 1, attempt |-> 1, hits |-> 0]
Admission(p) == [pc |-> "budget", at |-> p, attempt |-> 1, hits |-> 0]

TypeOK ==
    /\ breaker \in [Providers -> Breaker]
    /\ call \in [Calls -> Call]
    /\ spent \in [Providers -> BOOLEAN]
    /\ healthy \in BOOLEAN

Init ==
    /\ breaker = [p \in Providers |-> Closed]
    /\ call = [c \in Calls |-> Idle]
    /\ spent = [p \in Providers |-> FALSE]
    /\ healthy = FALSE

-----------------------------------------------------------------------------
(* class Breaker *)

\* allow(): what it answers ...
Allows(b) == b.circuit = "closed" \/ (b.circuit = "cooled" /\ ~b.trial)

\* ... and what it leaves behind when it answers yes.
Admitted(b) == IF b.circuit = "closed" THEN b ELSE [b EXCEPT !.trial = TRUE]

\* Variant: a success only ends the trial.
SucceededStaysOpen(b) == [b EXCEPT !.failures = 0, !.trial = FALSE]

Succeeded(b) == Closed

\* failure(). The count is only ever compared with the threshold.
Failed(b) ==
    LET n == IF b.failures < Threshold THEN b.failures + 1 ELSE Threshold
    IN  IF b.trial \/ n = Threshold
        THEN [failures |-> n, circuit |-> "open", trial |-> FALSE]
        ELSE [b EXCEPT !.failures = n]

-----------------------------------------------------------------------------
(* ProviderGuard.call *)

\* From provider i on, the first whose breaker allows it; when there is none the
\* call ends with ProviderUnavailableError. bs are the breakers to look at.
Reach(c, i, bs) ==
    LET open == {j \in i .. N : Allows(bs[j])}
    IN  \/ /\ open = {}
           /\ breaker' = bs
           /\ call' = [call EXCEPT ![c] = Idle]
        \/ \E j \in open :
             /\ \A k \in open : j <= k
             /\ breaker' = [bs EXCEPT ![j] = Admitted(@)]
             /\ call' = [call EXCEPT ![c] = Admission(j)]

Start(c) ==
    /\ call[c].pc = "idle"
    /\ Reach(c, 1, breaker)
    /\ UNCHANGED <<spent, healthy>>

\* A run begins; it is a hit when the circuit is not closed.
Hits(c) == IF breaker[call[c].at].circuit # "closed" /\ call[c].hits < MaxHits
           THEN call[c].hits + 1 ELSE call[c].hits

\* withinBudget: below the ceiling, or the counter is unavailable.
WithinBudget(c) ==
    /\ call[c].pc = "budget"
    /\ ~spent[call[c].at]
    /\ call' = [call EXCEPT ![c].pc = "running", ![c].hits = Hits(c)]
    /\ UNCHANGED <<breaker, spent, healthy>>

\* The budget is spent: skip to the next provider.
OverBudget(c) ==
    /\ call[c].pc = "budget"
    /\ spent[call[c].at]
    /\ Reach(c, call[c].at + 1, breaker)
    /\ UNCHANGED <<spent, healthy>>

\* The circuit closes, whoever opened it: everybody's hits start afresh.
RunSucceeds(c) ==
    /\ call[c].pc = "running"
    /\ breaker' = [breaker EXCEPT ![call[c].at] = Succeeded(@)]
    /\ call' = [d \in Calls |-> IF d = c THEN Idle
                              ELSE IF call[d].at = call[c].at THEN [call[d] EXCEPT !.hits = 0]
                              ELSE call[d]]
    /\ UNCHANGED <<spent, healthy>>

\* A 4xx, bad data: move on, do not trip the breaker.
RunFailsHard(c) ==
    /\ "hard" \in Answers
    /\ call[c].pc = "running"
    /\ Reach(c, call[c].at + 1, breaker)
    /\ UNCHANGED <<spent, healthy>>

\* Variant: the loop neither counts attempts nor looks at the circuit.
RunFailsForever(c) ==
    /\ call[c].pc = "running"
    /\ ~healthy
    /\ breaker' = [breaker EXCEPT ![call[c].at] = Failed(@)]
    /\ call' = [call EXCEPT ![c].pc = "sleeping"]
    /\ UNCHANGED <<spent, healthy>>

\* Variant: only the number of attempts ends the loop.
RunFailsKeepsHitting(c) ==
    /\ call[c].pc = "running"
    /\ ~healthy
    /\ LET p  == call[c].at
           bs == [breaker EXCEPT ![p] = Failed(@)]
       IN  \/ /\ call[c].attempt = Attempts
              /\ Reach(c, p + 1, bs)
           \/ /\ call[c].attempt < Attempts
              /\ breaker' = bs
              /\ call' = [call EXCEPT ![c].pc = "sleeping", ![c].attempt = @ + 1]
    /\ UNCHANGED <<spent, healthy>>

\* 429, 403, 5xx, a timeout: count it, then give up on this provider after the
\* last attempt or when the circuit is open, else back off.
RunFails(c) ==
    /\ call[c].pc = "running"
    /\ ~healthy
    /\ LET p  == call[c].at
           bs == [breaker EXCEPT ![p] = Failed(@)]
           giveUp == call[c].attempt = Attempts \/ bs[p].circuit = "open"
       IN  \/ /\ giveUp
              /\ Reach(c, p + 1, bs)
           \/ /\ ~giveUp
              /\ breaker' = bs
              /\ call' = [call EXCEPT ![c].pc = "sleeping", ![c].attempt = @ + 1]
    /\ UNCHANGED <<spent, healthy>>

Wake(c) ==
    /\ call[c].pc = "sleeping"
    /\ call' = [call EXCEPT ![c].pc = "running", ![c].hits = Hits(c)]
    /\ UNCHANGED <<breaker, spent, healthy>>

-----------------------------------------------------------------------------
\* The cooldown of p passes.
Cool(p) ==
    /\ breaker[p].circuit = "open"
    /\ breaker' = [breaker EXCEPT ![p].circuit = "cooled"]
    /\ UNCHANGED <<call, spent, healthy>>

\* The budget of p is used up by other calls; the next day it is there again.
Spend(p) ==
    /\ "budget" \in Answers
    /\ spent' = [spent EXCEPT ![p] = ~@]
    /\ UNCHANGED <<breaker, call, healthy>>

\* The outage of the providers is over.
Recover ==
    /\ ~healthy
    /\ healthy' = TRUE
    /\ UNCHANGED <<breaker, call, spent>>

Step(c) == WithinBudget(c) \/ OverBudget(c) \/ RunSucceeds(c) \/ RunFails(c)
             \/ RunFailsHard(c) \/ Wake(c)

Next == \/ \E c \in Calls : Start(c) \/ Step(c)
        \/ \E p \in Providers : Cool(p) \/ Spend(p)
        \/ Recover

Spec == Init /\ [][Next]_vars

\* Every await of a call is answered (runs time out), and time passes.
FairSpec == Spec /\ (\A c \in Calls : WF_vars(Step(c)))
                 /\ (\A p \in Providers : WF_vars(Cool(p)))

\* In addition the workers keep asking.
BusySpec == FairSpec /\ \A c \in Calls : WF_vars(Start(c))

-----------------------------------------------------------------------------
\* From the moment the circuit of a provider opens until it closes again, a call
\* runs there at most once: the run it was waiting for, or its trial ("the circuit
\* just opened: stop hammering this provider"). The other calls meanwhile fail,
\* succeed and re-open the circuit as they like.
AtMostOneHitWhileOpen == \A c \in Calls : call[c].hits <= 1

Coherent(b) == IF b.circuit = "closed" THEN ~b.trial /\ b.failures < Threshold
               ELSE b.failures = Threshold

\* A closed circuit has no trial, and fewer failures than the threshold; one that is
\* not closed has them all, so that whichever failure comes next re-opens it.
BreakerCoherent == \A p \in Providers : Coherent(breaker[p])

\* "never retries forever": every call ends, in success or in failure.
EveryCallEnds == \A c \in Calls : (call[c].pc # "idle") ~> (call[c].pc = "idle")

Conducting(p) == {c \in Calls : call[c].pc # "idle" /\ call[c].at = p}

\* "open: no until the cooldown passes; then exactly one half-open trial"
\* (providerGuard.ts:88): when the cooldown has passed and no call is at the
\* provider, the next call gets its trial.
CooledOffersTrial == \A p \in Providers :
    breaker[p].circuit = "cooled" /\ Conducting(p) = {} => Allows(breaker[p])

\* The trial of p was given away and nobody is there to end it: CooledOffersTrial is broken,
\* and nothing repairs it until the process restarts.
TrialLost(p) == breaker[p].circuit = "cooled" /\ breaker[p].trial /\ Conducting(p) = {}

\* When the providers answer again and the workers keep asking, the circuit of the first
\* provider closes for good; the one way out is a trial that is lost.
CircuitRecovers == healthy ~> ([](breaker[1].circuit = "closed") \/ <>TrialLost(1))
=============================================================================
