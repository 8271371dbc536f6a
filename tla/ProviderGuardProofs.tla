------------------------- MODULE ProviderGuardProofs -------------------------
(***************************************************************************)
(* For every number of calls, providers, attempts and failures: the        *)
(* breakers stay coherent, and no call hits an open circuit twice; also    *)
(* when the calls are those of HistoryWalk, for any histories and pages,   *)
(* where a page is never asked for by two walks at once and what is put    *)
(* together is the history.                                                *)
(***************************************************************************)
EXTENDS HistoryWalk, FiniteSetTheorems, TLAPS

\* A call has a hit on its account only during the run that is the hit, and only
\* while the circuit of its provider is not closed.
HitsCoherent == \A c \in Calls :
    call[c].hits > 0 => /\ call[c].hits = 1
                        /\ call[c].pc = "running"
                        /\ breaker[call[c].at].circuit # "closed"

IInv == TypeOK /\ BreakerCoherent /\ HitsCoherent

-----------------------------------------------------------------------------
\* Breaker.failure() keeps a breaker coherent, opens every circuit that was not
\* closed, and never closes one.
LEMMA FailureFacts ==
    ASSUME NEW b \in Breaker, Coherent(b)
    PROVE  /\ Failed(b) \in Breaker
           /\ Coherent(Failed(b))
           /\ b.circuit # "closed" => Failed(b).circuit = "open"
  BY GuardAssumption, SMT DEF Breaker, Coherent, Failed

\* Breaker.allow() changes neither the phase nor the coherence of a breaker it
\* admits a call to.
LEMMA AdmissionFacts ==
    ASSUME NEW b \in Breaker, Coherent(b), Allows(b)
    PROVE  /\ Admitted(b) \in Breaker
           /\ Coherent(Admitted(b))
           /\ Admitted(b).circuit = b.circuit
<1>1. CASE b.circuit = "closed"
  BY <1>1 DEF Admitted
<1>2. CASE b.circuit # "closed"
  <2>1. Admitted(b) = [b EXCEPT !.trial = TRUE]
    BY <1>2 DEF Admitted
  <2>2. Admitted(b) \in Breaker
    BY <2>1 DEF Breaker
  <2>3. Admitted(b).circuit = b.circuit /\ Admitted(b).failures = b.failures
    BY <2>1 DEF Breaker
  <2> QED BY <1>2, <2>2, <2>3 DEF Coherent
<1> QED BY <1>1, <1>2

\* Moving on to the next provider leaves every circuit in its phase, and the call
\* either ended or at a provider with no hit on its account.
LEMMA ReachFacts ==
    ASSUME TypeOK, NEW c \in Calls, NEW i \in Nat \ {0},
           NEW bs \in [Providers -> Breaker],
           \A p \in Providers : Coherent(bs[p]),
           Reach(c, i, bs)
    PROVE  /\ breaker' \in [Providers -> Breaker]
           /\ \A p \in Providers : Coherent(breaker'[p])
           /\ \A p \in Providers : breaker'[p].circuit = bs[p].circuit
           /\ call' \in [Calls -> Call]
           /\ call'[c].hits = 0
           /\ \A d \in Calls \ {c} : call'[d] = call[d]
<1> DEFINE open == {j \in i .. N : Allows(bs[j])}
<1>1. Idle \in Call /\ Idle.hits = 0
  BY GuardAssumption, SMT DEF Idle, Call, Providers, MaxHits
<1>2. CASE breaker' = bs /\ call' = [call EXCEPT ![c] = Idle]
  <2>1. call \in [Calls -> Call]
    BY DEF TypeOK
  <2> QED BY <1>1, <1>2, <2>1
<1>3. ASSUME NEW j \in open,
             breaker' = [bs EXCEPT ![j] = Admitted(@)],
             call' = [call EXCEPT ![c] = Admission(j)]
      PROVE  /\ breaker' \in [Providers -> Breaker]
             /\ \A p \in Providers : Coherent(breaker'[p])
             /\ \A p \in Providers : breaker'[p].circuit = bs[p].circuit
             /\ call' \in [Calls -> Call]
             /\ call'[c].hits = 0
             /\ \A d \in Calls \ {c} : call'[d] = call[d]
  <2>1. j \in Providers /\ Allows(bs[j])
    BY <1>3, GuardAssumption, SMT DEF Providers
  <2>2. /\ Admitted(bs[j]) \in Breaker
        /\ Coherent(Admitted(bs[j]))
        /\ Admitted(bs[j]).circuit = bs[j].circuit
    BY <2>1, AdmissionFacts
  <2>3. Admission(j) \in Call /\ Admission(j).hits = 0
    BY <2>1, GuardAssumption, SMT DEF Admission, Call, Providers, MaxHits
  <2>4. call \in [Calls -> Call]
    BY DEF TypeOK
  <2>5. /\ breaker' \in [Providers -> Breaker]
        /\ \A p \in Providers : breaker'[p] = IF p = j THEN Admitted(bs[p]) ELSE bs[p]
    BY <1>3, <2>1, <2>2
  <2>6. /\ call' \in [Calls -> Call]
        /\ call'[c] = Admission(j)
        /\ \A d \in Calls \ {c} : call'[d] = call[d]
    BY <1>3, <2>3, <2>4
  <2> QED BY <2>2, <2>3, <2>5, <2>6
<1> QED BY <1>2, <1>3 DEF Reach

-----------------------------------------------------------------------------
\* A call that moves on, from breakers that are coherent and in which no circuit
\* was closed meanwhile, keeps the whole invariant.
LEMMA MovingOn ==
    ASSUME IInv, NEW c \in Calls, NEW i \in Nat \ {0},
           NEW bs \in [Providers -> Breaker],
           \A p \in Providers : Coherent(bs[p]),
           \A p \in Providers : breaker[p].circuit # "closed" => bs[p].circuit # "closed",
           Reach(c, i, bs), spent' = spent, healthy' = healthy
    PROVE  IInv'
<1>1. TypeOK
  BY DEF IInv
<1>2. /\ breaker' \in [Providers -> Breaker]
      /\ \A p \in Providers : Coherent(breaker'[p])
      /\ \A p \in Providers : breaker'[p].circuit = bs[p].circuit
      /\ call' \in [Calls -> Call]
      /\ call'[c].hits = 0
      /\ \A d \in Calls \ {c} : call'[d] = call[d]
  BY <1>1, ReachFacts
<1>3. TypeOK'
  BY <1>1, <1>2 DEF TypeOK
<1>4. BreakerCoherent'
  BY <1>2 DEF BreakerCoherent, Coherent
<1>5. HitsCoherent'
  <2> SUFFICES ASSUME NEW d \in Calls, call'[d].hits > 0
               PROVE  /\ call'[d].hits = 1
                      /\ call'[d].pc = "running"
                      /\ breaker'[call'[d].at].circuit # "closed"
    BY DEF HitsCoherent
  <2>1. d # c
    BY <1>2
  <2>2. call'[d] = call[d] /\ call[d].at \in Providers
    BY <1>1, <1>2, <2>1 DEF TypeOK, Call
  <2>3. /\ call[d].hits = 1
        /\ call[d].pc = "running"
        /\ breaker[call[d].at].circuit # "closed"
    BY <2>2 DEF IInv, HitsCoherent
  <2> QED BY <1>2, <2>2, <2>3
<1> QED BY <1>3, <1>4, <1>5 DEF IInv

\* A run that begins is the first hit of its call, or none.
LEMMA RunBegins ==
    ASSUME IInv, NEW c \in Calls, call[c].pc # "running",
           call' = [call EXCEPT ![c].pc = "running", ![c].hits = Hits(c)],
           UNCHANGED <<breaker, spent, healthy>>
    PROVE  IInv'
<1>1. TypeOK /\ call[c] \in Call
  BY DEF IInv, TypeOK
<1>2. call[c].hits = 0
  BY <1>1 DEF IInv, HitsCoherent, Call, MaxHits
<1>3. Hits(c) \in 0 .. MaxHits
  BY <1>2, SMT DEF Hits, MaxHits
<1>4. Hits(c) > 0 => Hits(c) = 1 /\ breaker[call[c].at].circuit # "closed"
  BY <1>2, SMT DEF Hits, MaxHits
<1>5. TypeOK'
  <2>1. call' \in [Calls -> Call]
    BY <1>1, <1>3 DEF TypeOK, Call
  <2> QED BY <1>1, <2>1 DEF TypeOK
<1>6. BreakerCoherent'
  BY DEF IInv, BreakerCoherent, Coherent
<1>7. HitsCoherent'
  <2>1. /\ call'[c].pc = "running" /\ call'[c].hits = Hits(c)
        /\ call'[c].at = call[c].at
        /\ \A d \in Calls \ {c} : call'[d] = call[d]
    BY <1>1 DEF TypeOK, Call
  <2> QED BY <1>4, <2>1 DEF IInv, HitsCoherent
<1> QED BY <1>5, <1>6, <1>7 DEF IInv

\* Initially every circuit is closed and no call is on its way.
LEMMA InitIInv == Init => IInv
<1> SUFFICES ASSUME Init PROVE IInv
  OBVIOUS
<1>1. Closed \in Breaker /\ Coherent(Closed)
  BY GuardAssumption, SMT DEF Closed, Breaker, Coherent
<1>2. Idle \in Call /\ Idle.hits = 0
  BY GuardAssumption, SMT DEF Idle, Call, Providers, MaxHits
<1>3. TypeOK
  BY <1>1, <1>2 DEF Init, TypeOK
<1>4. BreakerCoherent
  BY <1>1 DEF Init, BreakerCoherent
<1>5. HitsCoherent
  BY <1>2 DEF Init, HitsCoherent
<1> QED BY <1>3, <1>4, <1>5 DEF IInv

-----------------------------------------------------------------------------
\* Every step keeps the invariant.
LEMMA StepIInv == IInv /\ [Next]_vars => IInv'
<1> SUFFICES ASSUME IInv, [Next]_vars PROVE IInv'
  OBVIOUS
<1>t. /\ TypeOK
      /\ breaker \in [Providers -> Breaker]
      /\ \A p \in Providers : Coherent(breaker[p])
  BY DEF IInv, TypeOK, BreakerCoherent
<1>at. \A c \in Calls :
          /\ call[c] \in Call
          /\ call[c].at \in Providers
          /\ call[c].at + 1 \in Nat \ {0}
  BY <1>t DEF TypeOK, Call, Providers
<1>1. ASSUME NEW c \in Calls, Start(c) PROVE IInv'
  <2>1. 1 \in Nat \ {0}
    OBVIOUS
  <2> QED BY <1>1, <1>t, <2>1, MovingOn DEF Start
<1>2. ASSUME NEW c \in Calls, WithinBudget(c) PROVE IInv'
  BY <1>2, RunBegins DEF WithinBudget
<1>3. ASSUME NEW c \in Calls, OverBudget(c) PROVE IInv'
  BY <1>3, <1>t, <1>at, MovingOn DEF OverBudget
<1>4. ASSUME NEW c \in Calls, RunFailsHard(c) PROVE IInv'
  BY <1>4, <1>t, <1>at, MovingOn DEF RunFailsHard
<1>5. ASSUME NEW c \in Calls, Wake(c) PROVE IInv'
  BY <1>5, RunBegins DEF Wake
<1>6. ASSUME NEW c \in Calls, RunSucceeds(c) PROVE IInv'
  <2> DEFINE p == call[c].at
  <2>1. /\ breaker' = [breaker EXCEPT ![p] = Closed]
        /\ p \in Providers /\ Closed \in Breaker /\ Coherent(Closed)
    BY <1>6, <1>at, GuardAssumption, SMT
       DEF RunSucceeds, Succeeded, Closed, Breaker, Coherent
  <2>2. /\ breaker' \in [Providers -> Breaker]
        /\ \A q \in Providers : Coherent(breaker'[q])
        /\ \A q \in Providers \ {p} : breaker'[q] = breaker[q]
    BY <1>t, <2>1
  <2>3. Idle \in Call /\ Idle.hits = 0
    BY GuardAssumption, SMT DEF Idle, Call, Providers, MaxHits
  <2>4. \A d \in Calls :
           /\ call'[d] \in Call
           /\ call'[d].hits > 0 => call'[d] = call[d] /\ call[d].at # p
    <3> SUFFICES ASSUME NEW d \in Calls
                 PROVE  /\ call'[d] \in Call
                        /\ call'[d].hits > 0 => call'[d] = call[d] /\ call[d].at # p
      OBVIOUS
    <3>1. CASE d = c
      BY <1>6, <2>3, <3>1 DEF RunSucceeds
    <3>2. CASE d # c /\ call[d].at = p
      <4>1. call'[d] = [call[d] EXCEPT !.hits = 0]
        BY <1>6, <3>2 DEF RunSucceeds
      <4> QED BY <1>at, <4>1, SMT DEF Call, MaxHits
    <3>3. CASE d # c /\ call[d].at # p
      BY <1>6, <1>at, <3>3 DEF RunSucceeds
    <3> QED BY <3>1, <3>2, <3>3
  <2>5. call' \in [Calls -> Call]
    <3> DEFINE f(d) == IF d = c THEN Idle
                       ELSE IF call[d].at = call[c].at THEN [call[d] EXCEPT !.hits = 0]
                       ELSE call[d]
    <3>1. call' = [d \in Calls |-> f(d)]
      BY <1>6 DEF RunSucceeds
    <3> HIDE DEF f
    <3>2. ASSUME NEW d \in Calls PROVE f(d) \in Call
      <4>1. call'[d] = f(d)
        BY <3>1
      <4>2. call'[d] \in Call
        BY <2>4
      <4> QED BY <4>1, <4>2
    <3> QED BY <3>1, <3>2
  <2>6. TypeOK' /\ BreakerCoherent'
    BY <1>6, <1>t, <2>2, <2>5 DEF RunSucceeds, TypeOK, BreakerCoherent, Coherent
  <2>7. HitsCoherent'
    <3> SUFFICES ASSUME NEW d \in Calls, call'[d].hits > 0
                 PROVE  /\ call'[d].hits = 1
                        /\ call'[d].pc = "running"
                        /\ breaker'[call'[d].at].circuit # "closed"
      BY DEF HitsCoherent
    <3>1. call'[d] = call[d] /\ call[d].at # p
      BY <2>4
    <3>2. call[d].at \in Providers
      BY <1>at
    <3>3. breaker'[call[d].at] = breaker[call[d].at]
      BY <2>2, <3>1, <3>2
    <3> QED BY <3>1, <3>3 DEF IInv, HitsCoherent
  <2> QED BY <2>6, <2>7 DEF IInv
<1>7. ASSUME NEW c \in Calls, RunFails(c) PROVE IInv'
  <2> DEFINE p  == call[c].at
             bs == [breaker EXCEPT ![p] = Failed(@)]
  <2>1. /\ p \in Providers
        /\ Failed(breaker[p]) \in Breaker /\ Coherent(Failed(breaker[p]))
        /\ breaker[p].circuit # "closed" => Failed(breaker[p]).circuit = "open"
    BY <1>t, <1>at, FailureFacts
  <2>2. /\ bs \in [Providers -> Breaker]
        /\ bs[p] = Failed(breaker[p])
        /\ \A q \in Providers \ {p} : bs[q] = breaker[q]
    BY <1>t, <2>1
  <2>3. \A q \in Providers :
          Coherent(bs[q]) /\ (breaker[q].circuit # "closed" => bs[q].circuit # "closed")
    BY <1>t, <2>1, <2>2
  <2>4. CASE Reach(c, p + 1, bs)
    BY <1>7, <1>at, <2>2, <2>3, <2>4, MovingOn DEF RunFails
  <2>5. CASE /\ call[c].attempt # Attempts /\ bs[p].circuit # "open"
             /\ breaker' = bs
             /\ call' = [call EXCEPT ![c].pc = "sleeping", ![c].attempt = @ + 1]
    <3>1. breaker[p].circuit = "closed" /\ call[c].hits = 0
      BY <1>at, <2>1, <2>2, <2>5 DEF IInv, HitsCoherent, Call, MaxHits
    <3>2. call[c].attempt + 1 \in 1 .. Attempts
      BY <1>at, <2>5, GuardAssumption, SMT DEF Call
    <3>3. /\ call' \in [Calls -> Call]
          /\ call'[c].hits = 0
          /\ \A d \in Calls \ {c} : call'[d] = call[d]
      BY <1>t, <1>at, <2>5, <3>1, <3>2 DEF TypeOK, Call
    <3>4. TypeOK' /\ BreakerCoherent'
      BY <1>7, <1>t, <2>2, <2>3, <2>5, <3>3 DEF RunFails, TypeOK, BreakerCoherent, Coherent
    <3>5. HitsCoherent'
      BY <1>at, <2>3, <2>5, <3>3 DEF IInv, HitsCoherent
    <3> QED BY <3>4, <3>5 DEF IInv
  <2> QED BY <1>7, <2>4, <2>5 DEF RunFails
<1>8. ASSUME NEW p \in Providers, Cool(p) PROVE IInv'
  <2>1. /\ breaker[p].circuit = "open"
        /\ breaker' = [breaker EXCEPT ![p].circuit = "cooled"]
        /\ UNCHANGED <<call, spent, healthy>>
    BY <1>8 DEF Cool
  <2>2. /\ [breaker[p] EXCEPT !.circuit = "cooled"] \in Breaker
        /\ Coherent([breaker[p] EXCEPT !.circuit = "cooled"])
    BY <1>t, <2>1 DEF Breaker, Coherent
  <2>3. /\ breaker' \in [Providers -> Breaker]
        /\ breaker'[p].circuit = "cooled"
        /\ \A q \in Providers : Coherent(breaker'[q])
        /\ \A q \in Providers \ {p} : breaker'[q] = breaker[q]
    BY <1>t, <2>1, <2>2 DEF Breaker
  <2>4. TypeOK' /\ BreakerCoherent'
    BY <1>t, <2>1, <2>3 DEF TypeOK, BreakerCoherent, Coherent
  <2>5. HitsCoherent'
    BY <1>at, <2>1, <2>3 DEF IInv, HitsCoherent
  <2> QED BY <2>4, <2>5 DEF IInv
<1>9. ASSUME NEW p \in Providers, Spend(p) PROVE IInv'
  <2>1. spent' \in [Providers -> BOOLEAN]
    BY <1>9, <1>t DEF Spend, TypeOK
  <2> QED BY <1>9, <1>t, <2>1
        DEF Spend, IInv, TypeOK, BreakerCoherent, Coherent, HitsCoherent
<1>10. CASE Recover
  BY <1>10, <1>t DEF Recover, IInv, TypeOK, BreakerCoherent, Coherent, HitsCoherent
<1>11. CASE UNCHANGED vars
  BY <1>11, <1>t DEF vars, IInv, TypeOK, BreakerCoherent, Coherent, HitsCoherent
<1> QED BY <1>1, <1>2, <1>3, <1>4, <1>5, <1>6, <1>7, <1>8, <1>9, <1>10, <1>11
       DEF Next, Step

\* The invariant of all the theorems below.
THEOREM Invariant == Spec => []IInv
  BY InitIInv, StepIInv, PTL DEF Spec

\* The state is well formed.
THEOREM TypeCorrect == Spec => []TypeOK
<1>1. IInv => TypeOK
  BY DEF IInv
<1> QED BY <1>1, Invariant, PTL

\* The breakers of all providers stay coherent under any interleaving of calls.
THEOREM BreakersCohere == Spec => []BreakerCoherent
<1>1. IInv => BreakerCoherent
  BY DEF IInv
<1> QED BY <1>1, Invariant, PTL

\* The invariant bounds the hits.
LEMMA HitsAreFew == IInv => AtMostOneHitWhileOpen
<1> SUFFICES ASSUME IInv, NEW c \in Calls PROVE call[c].hits <= 1
  BY DEF AtMostOneHitWhileOpen
<1>1. call[c].hits \in 0 .. MaxHits
  BY DEF IInv, TypeOK, Call
<1>2. call[c].hits > 0 => call[c].hits = 1
  BY DEF IInv, HitsCoherent
<1> QED BY <1>1, <1>2, SMT DEF MaxHits

\* No call runs twice at a provider whose circuit has opened and not closed since.
THEOREM OneHit == Spec => []AtMostOneHitWhileOpen
  BY HitsAreFew, Invariant, PTL

-----------------------------------------------------------------------------
(* The same of HistoryWalk, whose calls are made for walks that share them *)

\* Whatever the walks and the cache do, the guard makes a step of its own or none.
LEMMA ReadsMakeCalls == [ReadsNext]_readVars => [Next]_vars
<1> SUFFICES ASSUME [ReadsNext]_readVars PROVE [Next]_vars
  OBVIOUS
<1>1. ASSUME NEW c \in Calls, Read(c) PROVE [Next]_vars
  <2>1. CASE Begin(c) \/ Hit(c) \/ Miss(c) \/ Join(c) \/ Refuse(c) \/ Store(c)
    BY <2>1 DEF Begin, Hit, Miss, Join, Refuse, Store
  <2>2. CASE Compute(c)
    BY <2>2 DEF Compute, Next
  <2>3. CASE Try(c)
    BY <2>3 DEF Try, Next, Step
  <2>4. CASE Answer(c)
    BY <2>4 DEF Answer, Next, Step
  <2> QED BY <1>1, <2>1, <2>2, <2>3, <2>4 DEF Read
<1>2. ASSUME NEW c \in Calls, Loose(Start(c)) \/ Loose(Step(c)) PROVE [Next]_vars
  BY <1>2 DEF Loose, Next
<1>3. ASSUME NEW p \in Providers, Loose(Cool(p)) \/ Loose(Spend(p)) PROVE [Next]_vars
  BY <1>3 DEF Loose, Next
<1>4. CASE Loose(Recover)
  BY <1>4 DEF Loose, Next
<1>5. CASE UNCHANGED readVars
  BY <1>5 DEF readVars
<1> QED BY <1>1, <1>2, <1>3, <1>4, <1>5 DEF ReadsNext

LEMMA ReadsInitIInv == ReadsInit => IInv
<1> SUFFICES ASSUME ReadsInit PROVE IInv
  OBVIOUS
<1>1. Closed \in Breaker /\ Coherent(Closed)
  BY GuardAssumption, SMT DEF Closed, Breaker, Coherent
<1>2. Idle \in Call /\ Idle.hits = 0
  BY GuardAssumption, SMT DEF Idle, Call, Providers, MaxHits
<1>3. TypeOK
  BY <1>1, <1>2 DEF ReadsInit, TypeOK
<1>4. BreakerCoherent
  BY <1>1 DEF ReadsInit, BreakerCoherent
<1>5. HitsCoherent
  BY <1>2 DEF ReadsInit, HitsCoherent
<1> QED BY <1>3, <1>4, <1>5 DEF IInv

\* No walk, whatever is cached, shared or refused, runs twice at a provider whose circuit
\* has opened and not closed since.
THEOREM ReadsHitOnce == ReadsSpec => []AtMostOneHitWhileOpen
  BY HitsAreFew, ReadsInitIInv, ReadsMakeCalls, StepIInv, PTL DEF ReadsSpec

-----------------------------------------------------------------------------
(* The single flight of cached() *)

\* A walk is a record with the fields of Fresh.
Formed(w) == w = [pc |-> w.pc, cursor |-> w.cursor, met |-> w.met, items |-> w.items,
                  pages |-> w.pages, by |-> w.by, answered |-> w.answered]

WalksFormed == walk = [c \in Calls |-> walk[c]] /\ \A c \in Calls : Formed(walk[c])

FlightInv == WalksFormed /\ SingleFlight

\* A page that was received leaves the walk a record that asks for nothing.
LEMMA ReceivedIsFormed ==
    ASSUME NEW w, NEW p
    PROVE  /\ Formed(Received(w, p))
           /\ Received(w, p).pc \notin {"asking", "storing", "joined"}
  BY DEF Received, Formed

\* c asked for nothing, and does not now: what others ask for is the same.
LEMMA QuietStep ==
    ASSUME FlightInv, NEW c \in Calls, NEW w, Formed(w), walk' = [walk EXCEPT ![c] = w],
           walk[c].pc \notin {"asking", "storing"}, w.pc \notin {"asking", "storing"},
           w.pc = "joined" => Computing(w.cursor) # {}
    PROVE  FlightInv'
<1>1. walk'[c] = w /\ \A d \in Calls \ {c} : walk'[d] = walk[d]
  BY DEF FlightInv, WalksFormed
<1>2. WalksFormed'
  BY <1>1 DEF FlightInv, WalksFormed
<1>3. \A k : Computing(k)' = Computing(k)
  BY <1>1 DEF Computing
<1>4. SingleFlight'
  BY <1>1, <1>3 DEF FlightInv, SingleFlight, Computing
<1> QED BY <1>2, <1>4 DEF FlightInv

\* c is done with its page, and so is everybody who waited for it.
LEMMA LandingStep ==
    ASSUME FlightInv, NEW c \in Calls, walk[c].pc \in {"asking", "storing"},
           NEW f, \A d \in Sharing(c) : Formed(f[d]) /\ f[d].pc \notin {"asking", "storing", "joined"},
           walk' = [d \in Calls |-> IF d \in Sharing(c) THEN f[d] ELSE walk[d]]
    PROVE  FlightInv'
<1>1. /\ c \in Sharing(c)
      /\ \A d \in Sharing(c) : walk'[d] = f[d]
      /\ \A d \in Calls \ Sharing(c) : walk'[d] = walk[d]
  BY DEF Sharing
<1>2. WalksFormed'
  BY <1>1 DEF FlightInv, WalksFormed, Sharing
<1>3. Computing(walk[c].cursor) = {c}
  BY DEF FlightInv, SingleFlight, Computing
<1>4. \A k : k # walk[c].cursor => Computing(k)' = Computing(k)
  BY <1>1 DEF Computing, Sharing
<1>5. \A d \in Calls \ Sharing(c) : walk[d].cursor = walk[c].cursor =>
          walk[d].pc \notin {"asking", "storing", "joined"}
  BY <1>3 DEF Computing, Sharing
<1>6. ASSUME NEW d \in Calls
      PROVE  /\ d \in Computing(walk[d].cursor)' => Computing(walk[d].cursor)' = {d}
             /\ walk'[d].pc = "joined" => Computing(walk[d].cursor)' # {}
  <2>1. CASE d \in Sharing(c)
    BY <2>1, <1>1 DEF Computing
  <2>2. CASE d \notin Sharing(c) /\ walk[d].cursor = walk[c].cursor
    BY <2>2, <1>1, <1>5 DEF Computing
  <2>3. CASE d \notin Sharing(c) /\ walk[d].cursor # walk[c].cursor
    <3>1. walk'[d] = walk[d]
      BY <2>3, <1>1
    <3>2. Computing(walk[d].cursor)' = Computing(walk[d].cursor)
      BY <2>3, <3>1, <1>4 DEF Computing
    <3>3. /\ d \in Computing(walk[d].cursor) => Computing(walk[d].cursor) = {d}
          /\ walk[d].pc = "joined" => Computing(walk[d].cursor) # {}
      BY DEF FlightInv, SingleFlight
    <3> QED BY <3>1, <3>2, <3>3
  <2> QED BY <2>1, <2>2, <2>3
<1> QED BY <1>2, <1>6 DEF FlightInv, SingleFlight

LEMMA FlightStep == FlightInv /\ [ReadsNext]_readVars => FlightInv'
<1> SUFFICES ASSUME FlightInv, [ReadsNext]_readVars PROVE FlightInv'
  OBVIOUS
<1>0. CASE UNCHANGED walk
  BY <1>0 DEF FlightInv, WalksFormed, Formed, SingleFlight, Computing
<1>1. ASSUME NEW c \in Calls, Begin(c) PROVE FlightInv'
  <2>1. Formed([Fresh EXCEPT !.pc = "lookup"]) /\ [Fresh EXCEPT !.pc = "lookup"].pc = "lookup"
    BY DEF Fresh, Formed
  <2> QED BY <1>1, <2>1, QuietStep DEF Begin
<1>2. ASSUME NEW c \in Calls, Hit(c) PROVE FlightInv'
  <2>1. walk' = [walk EXCEPT ![c] = Received(walk[c], cache[walk[c].cursor])]
    BY <1>2 DEF Hit, FlightInv, WalksFormed
  <2> QED BY <1>2, <2>1, QuietStep, ReceivedIsFormed DEF Hit
<1>3. ASSUME NEW c \in Calls, Miss(c) PROVE FlightInv'
  <2>1. walk' = [walk EXCEPT ![c] = [walk[c] EXCEPT !.pc = "missed"]]
    BY <1>3 DEF Miss, FlightInv, WalksFormed
  <2>2. Formed([walk[c] EXCEPT !.pc = "missed"]) /\ [walk[c] EXCEPT !.pc = "missed"].pc = "missed"
    BY DEF FlightInv, WalksFormed, Formed
  <2> QED BY <1>3, <2>1, <2>2, QuietStep DEF Miss
<1>4. ASSUME NEW c \in Calls, Join(c) PROVE FlightInv'
  <2>1. walk' = [walk EXCEPT ![c] = [walk[c] EXCEPT !.pc = "joined"]]
    BY <1>4 DEF Join, FlightInv, WalksFormed
  <2>2. /\ Formed([walk[c] EXCEPT !.pc = "joined"]) /\ [walk[c] EXCEPT !.pc = "joined"].pc = "joined"
        /\ [walk[c] EXCEPT !.pc = "joined"].cursor = walk[c].cursor
    BY DEF FlightInv, WalksFormed, Formed
  <2> QED BY <1>4, <2>1, <2>2, QuietStep DEF Join
<1>5. ASSUME NEW c \in Calls, Compute(c) PROVE FlightInv'
  <2>1. /\ walk'[c] = [walk[c] EXCEPT !.pc = "asking"]
        /\ \A d \in Calls \ {c} : walk'[d] = walk[d]
        /\ walk' = [d \in Calls |-> walk'[d]]
    BY <1>5 DEF Compute, FlightInv, WalksFormed
  <2>2. Formed(walk'[c]) /\ walk'[c].pc = "asking" /\ walk'[c].cursor = walk[c].cursor
    BY <2>1 DEF FlightInv, WalksFormed, Formed
  <2>3. WalksFormed'
    BY <2>1, <2>2 DEF FlightInv, WalksFormed
  <2>4. /\ Computing(walk[c].cursor)' = {c}
        /\ \A k : k # walk[c].cursor => Computing(k)' = Computing(k)
    BY <1>5, <2>1, <2>2 DEF Compute, Computing
  <2>5. \A d \in Calls : walk'[d].cursor = walk[d].cursor
    BY <2>1, <2>2
  <2>6. \A d \in Calls \ {c} : d \in Computing(walk[d].cursor) => walk[d].cursor # walk[c].cursor
    BY <1>5 DEF Compute
  <2>7. SingleFlight'
    BY <2>1, <2>2, <2>4, <2>5, <2>6 DEF FlightInv, SingleFlight, Computing
  <2> QED BY <2>3, <2>7 DEF FlightInv
<1>6. ASSUME NEW c \in Calls, Answer(c) PROVE FlightInv'
  <2>1. /\ walk'[c] = [walk[c] EXCEPT !.pc = "storing", !.by = call[c].at]
        /\ \A d \in Calls \ {c} : walk'[d] = walk[d]
        /\ walk' = [d \in Calls |-> walk'[d]]
    BY <1>6 DEF Answer, FlightInv, WalksFormed
  <2>2. Formed(walk'[c]) /\ walk'[c].pc = "storing" /\ walk'[c].cursor = walk[c].cursor
    BY <2>1 DEF FlightInv, WalksFormed, Formed
  <2>3. WalksFormed'
    BY <2>1, <2>2 DEF FlightInv, WalksFormed
  <2>4. \A k : Computing(k)' = Computing(k)
    <3>1. walk[c].pc = "asking"
      BY <1>6 DEF Answer
    <3>2. \A d \in Calls : /\ walk'[d].cursor = walk[d].cursor
                           /\ walk'[d].pc \in {"asking", "storing"}
                                <=> walk[d].pc \in {"asking", "storing"}
      BY <2>1, <2>2, <3>1
    <3> QED BY <3>2 DEF Computing
  <2>5. SingleFlight'
    BY <2>1, <2>2, <2>4 DEF FlightInv, SingleFlight
  <2> QED BY <2>3, <2>5 DEF FlightInv
<1>7. ASSUME NEW c \in Calls, Refuse(c) PROVE FlightInv'
  <2> DEFINE f == [d \in Calls |-> [walk[d] EXCEPT !.pc = "failed"]]
  <2>1. \A d \in Sharing(c) : d \in Calls /\ f[d] = [walk[d] EXCEPT !.pc = "failed"]
    BY DEF Sharing
  <2>2. \A d \in Sharing(c) : Formed(f[d]) /\ f[d].pc = "failed"
    <3>1. ASSUME NEW d \in Sharing(c) PROVE Formed(f[d]) /\ f[d].pc = "failed"
      <4>1. Formed(walk[d])
        BY <2>1 DEF FlightInv, WalksFormed
      <4>2. f[d] = [walk[d] EXCEPT !.pc = "failed"]
        BY <2>1
      <4> HIDE DEF f
      <4> QED BY <4>1, <4>2 DEF Formed
    <3> QED BY <3>1
  <2>3. walk' = [d \in Calls |-> IF d \in Sharing(c) THEN f[d] ELSE walk[d]]
    BY <1>7, <2>1 DEF Refuse
  <2> HIDE DEF f
  <2> QED BY <1>7, <2>2, <2>3, LandingStep DEF Refuse
<1>8. ASSUME NEW c \in Calls, Store(c) PROVE FlightInv'
  <2> DEFINE f == [d \in Calls |-> Received(walk[d], walk[c].by)]
  <2>1. \A d \in Sharing(c) : d \in Calls /\ f[d] = Received(walk[d], walk[c].by)
    BY DEF Sharing
  <2>2. \A d \in Sharing(c) : Formed(f[d]) /\ f[d].pc \notin {"asking", "storing", "joined"}
    BY <2>1, ReceivedIsFormed
  <2>3. walk' = [d \in Calls |-> IF d \in Sharing(c) THEN f[d] ELSE walk[d]]
    BY <1>8, <2>1 DEF Store
  <2> HIDE DEF f
  <2> QED BY <1>8, <2>2, <2>3, LandingStep DEF Store
<1>9. ASSUME NEW c \in Calls, Try(c) PROVE FlightInv'
  BY <1>9, <1>0 DEF Try
<1>10. ASSUME NEW a, Loose(a) PROVE FlightInv'
  BY <1>10, <1>0 DEF Loose, reading
<1>11. CASE UNCHANGED readVars
  BY <1>11, <1>0 DEF readVars, reading
<1> QED
  BY <1>1, <1>2, <1>3, <1>4, <1>5, <1>6, <1>7, <1>8, <1>9, <1>10, <1>11 DEF ReadsNext, Read

LEMMA FlightInit == ReadsInit => FlightInv
<1>1. SUFFICES ASSUME ReadsInit PROVE FlightInv
  OBVIOUS
<1>2. Formed(Fresh) /\ Fresh.pc = "idle"
  BY DEF Formed, Fresh
<1>3. walk = [c \in Calls |-> Fresh]
  BY <1>1 DEF ReadsInit
<1>4. WalksFormed
  BY <1>2, <1>3 DEF WalksFormed
<1>5. SingleFlight
  BY <1>2, <1>3 DEF SingleFlight, Computing
<1> QED BY <1>4, <1>5 DEF FlightInv

\* A page is never asked for by two walks at once, whatever is cached and whoever refuses,
\* and nobody waits for a page that nobody asks for.
THEOREM OneFlight == ReadsSpec => []SingleFlight
<1>1. FlightInv => SingleFlight
  BY DEF FlightInv
<1> QED BY <1>1, FlightInit, FlightStep, PTL DEF ReadsSpec

-----------------------------------------------------------------------------
(* What a walk puts together *)

\* The pages in which p lists stage s.
Book(p, s) == Pages[adapter][p][s]

\* Something with the key of t numbered i is there; everything of the first n pages of p is.
Has(w, s, i, t) == \E j \in w.items : j.stage = s /\ j.idx = i /\ j.of.tx = t.tx /\ j.of.to = t.to
Gathered(w, s, p, n) ==
    \A m \in 1 .. n : \A t \in Book(p, s)[m] : Has(w, s, Idx(p, Book(p, s)[m], t), t)

\* The item i is a transfer that somebody who answered its stage lists, as he numbers it.
Comes(w, i) == \E p \in Providers :
    /\ <<i.stage, p>> \in w.answered
    /\ \E m \in DOMAIN Book(p, i.stage) :
          i.of \in Book(p, i.stage)[m] /\ i.idx = Idx(p, Book(p, i.stage)[m], i.of)

\* Everything of the stage that p ever lists is there.
Last(p, s, n) == n = Len(Book(p, s)) \/ (<<adapter, p>> \in Explorers /\ n >= Window)
Exhausted(w, s) == \E p \in Providers :
    /\ <<s, p>> \in w.answered
    /\ \E n \in 1 .. Len(Book(p, s)) : Gathered(w, s, p, n) /\ Last(p, s, n)

\* The cursor is one of its issuer, or one of Esplora, and what is before it is there.
Issued(w, cur, p) ==
    /\ <<cur.stage, p>> \in w.answered
    /\ Gathered(w, cur.stage, p, cur.page - 1)
    /\ cur.page <= Len(Book(p, cur.stage))
    /\ cur.by = p \/ (cur.by = 0 /\ adapter = "btc")

Cursor == [stage : Nat, page : Nat, by : Nat]
CursorHolds(w, cur) ==
    /\ cur \in Cursor /\ cur.stage \in Stages /\ cur.page >= 1
    /\ cur.page > 1 => \E p \in Providers : Issued(w, cur, p)

Underway(w) == w.pc \notin {"done", "looped", "truncated"}

\* Nothing the walk met is ahead of it, but for a stage that has changed its provider.
Progress(w) == \A m \in w.met :
    \/ m.stage < w.cursor.stage
    \/ m.stage = w.cursor.stage /\ (Steady(w, m.stage) => m.page <= w.cursor.page)

ItemsCome(w) ==
    /\ IsFiniteSet(w.items)
    /\ \A i \in w.items : /\ i = [stage |-> i.stage, of |-> i.of, idx |-> i.idx]
                          /\ i.stage \in Stages
                          /\ Comes(w, i)

WalkHolds(w) ==
    /\ ItemsCome(w)
    /\ \A s \in Stages : s < w.cursor.stage \/ w.pc = "done" => Exhausted(w, s)
    /\ CursorHolds(w, w.cursor)
    /\ w.met \subseteq Cursor
    /\ Underway(w) => Progress(w)
    /\ w.pc = "looped" => ~Steady(w, w.cursor.stage)
    /\ w.pc = "storing" => w.by \in Providers

HistoryInv ==
    /\ adapter \in Adapters \cup {"none"}
    /\ \A k \in DOMAIN cache : cache[k] \in Providers
    /\ \A c \in Calls : walk[c] = Fresh \/ (adapter # "none" /\ WalkHolds(walk[c]))

\* Two providers, who list the same.
LEMMA BookFacts ==
    ASSUME adapter \in Adapters, adapter # "none", NEW s \in Stages, NEW p \in Providers
    PROVE  /\ Providers = {1, 2}
           /\ Book(p, s) \in Seq(SUBSET Transfer)
           /\ DOMAIN Book(p, s) = 1 .. Len(Book(p, s))
           /\ Len(Book(p, s)) \in Nat /\ Len(Book(p, s)) >= 1
           /\ s \in Nat /\ s >= 1
           /\ Stages = 1 .. Len(Pages[adapter][p])
           /\ Len(Pages[adapter][p]) \in Nat
<1>1. N = 2 /\ Providers = {1, 2}
  BY HistoryAssumption DEF Providers
<1> DEFINE P == Pages[adapter]
<1>2. /\ P \in [1 .. 2 -> Seq(Seq(SUBSET Transfer))]
      /\ P[1] # <<>> /\ Len(P[1]) = Len(P[2])
      /\ \A x \in DOMAIN P[1] : \A q \in 1 .. 2 : P[q][x] # <<>>
  BY HistoryAssumption
<1>3. Stages = DOMAIN P[1]
  BY DEF Stages
<1> HIDE DEF P
<1>4. P[p] \in Seq(Seq(SUBSET Transfer)) /\ P[1] \in Seq(Seq(SUBSET Transfer))
  BY <1>1, <1>2
<1>5. Stages = 1 .. Len(P[p]) /\ Len(P[p]) \in Nat
  BY <1>1, <1>2, <1>3, <1>4
<1>6. P[p][s] \in Seq(SUBSET Transfer) /\ P[p][s] # <<>>
  BY <1>1, <1>2, <1>3, <1>4, <1>5
<1>7. Book(p, s) = P[p][s]
  BY DEF Book, P
<1>8. Len(Book(p, s)) \in Nat /\ Len(Book(p, s)) >= 1 /\ DOMAIN Book(p, s) = 1 .. Len(Book(p, s))
  BY <1>6, <1>7
<1> QED BY <1>1, <1>5, <1>6, <1>7, <1>8 DEF P

\* Pages of Esplora and its mirror are the same, and numbered alike.
LEMMA MirrorFacts ==
    ASSUME adapter \in Adapters, adapter = "btc", NEW p \in Providers, NEW q \in Providers, NEW s
    PROVE  Book(p, s) = Book(q, s) /\ \A page, t : Idx(p, page, t) = Idx(q, page, t)
<1>1. Providers = 1 .. 2
  BY HistoryAssumption DEF Providers
<1>2. Pages["btc"][1] = Pages["btc"][2] /\ \A x \in 1 .. 2 : <<"btc", x>> \notin Explorers
  BY HistoryAssumption
<1>3. p \in {1, 2} /\ q \in {1, 2}
  BY <1>1
<1>4. Book(p, s) = Book(q, s)
  BY <1>2, <1>3 DEF Book
<1>5. <<adapter, p>> \notin Explorers /\ <<adapter, q>> \notin Explorers
  BY <1>1, <1>2
<1> QED BY <1>4, <1>5 DEF Idx

\* What a walk has it keeps.
LEMMA Kept ==
    ASSUME NEW w, NEW v, w.items \subseteq v.items, w.answered \subseteq v.answered
    PROVE  /\ \A s, p, n : Gathered(w, s, p, n) => Gathered(v, s, p, n)
           /\ \A s : Exhausted(w, s) => Exhausted(v, s)
           /\ \A i : Comes(w, i) => Comes(v, i)
           /\ \A s : Steady(v, s) => Steady(w, s)
<1>1. \A s, i, t : Has(w, s, i, t) => Has(v, s, i, t)
  BY DEF Has
<1>2. \A s, p, n : Gathered(w, s, p, n) => Gathered(v, s, p, n)
  BY <1>1 DEF Gathered
<1>3. \A s : Exhausted(w, s) => Exhausted(v, s)
  BY <1>2 DEF Exhausted
<1>4. \A i : Comes(w, i) => Comes(v, i)
  BY DEF Comes
<1>5. \A s : Steady(v, s) => Steady(w, s)
  BY DEF Steady
<1> QED BY <1>2, <1>3, <1>4, <1>5

\* Whatever page p answers with, what it lists before that page is there.
LEMMA PageIsNext ==
    ASSUME adapter \in Adapters, adapter # "none", NEW w, CursorHolds(w, w.cursor),
           NEW p \in Providers, NEW n, n = PageOf(w.cursor, p), NEW s, s = w.cursor.stage
    PROVE  /\ n \in 1 .. Len(Book(p, s))
           /\ Gathered(w, s, p, n - 1)
           /\ <<s, p>> \in w.answered /\ Steady(w, s) => n = w.cursor.page
           /\ n # w.cursor.page => \E q \in Providers \ {p} : <<s, q>> \in w.answered
<1>1. s \in Stages /\ w.cursor.page \in Nat /\ w.cursor.page >= 1 /\ w.cursor.by \in Nat
  BY DEF CursorHolds, Cursor
<1>2. Len(Book(p, s)) \in Nat /\ Len(Book(p, s)) >= 1 /\ Providers = {1, 2}
  BY <1>1, BookFacts
<1>3. CASE n = 1
  <2>1. Gathered(w, s, p, n - 1)
    BY <1>3 DEF Gathered
  <2>2. CASE w.cursor.page = 1
    BY <1>2, <1>3, <2>1, <2>2
  <2>3. CASE w.cursor.page # 1
    <3>1. w.cursor.by \notin {0, p}
      BY <1>3, <2>3 DEF PageOf
    <3>2. PICK q \in Providers : Issued(w, w.cursor, q)
      BY <1>1, <2>3 DEF CursorHolds
    <3>3. q # p /\ <<s, q>> \in w.answered
      BY <3>1, <3>2 DEF Issued
    <3>4. ~(<<s, p>> \in w.answered /\ Steady(w, s))
      BY <1>2, <3>3 DEF Steady
    <3> QED BY <1>2, <1>3, <2>1, <3>3, <3>4
  <2> QED BY <2>2, <2>3
<1>4. CASE n # 1
  <2>1. n = w.cursor.page /\ n > 1 /\ w.cursor.by \in {0, p}
    BY <1>1, <1>4 DEF PageOf
  <2>2. PICK q \in Providers : Issued(w, w.cursor, q)
    BY <2>1 DEF CursorHolds
  <2>3. q = p \/ adapter = "btc"
    BY <1>2, <2>1, <2>2 DEF Issued
  <2>4. Book(p, s) = Book(q, s) /\ \A page, t : Idx(p, page, t) = Idx(q, page, t)
    BY <2>3, MirrorFacts
  <2>5. Gathered(w, s, p, n - 1) /\ n <= Len(Book(p, s))
    BY <2>1, <2>2, <2>4 DEF Issued, Gathered
  <2> QED BY <1>1, <1>2, <2>1, <2>5
<1> QED BY <1>3, <1>4

\* The items of a page are as many as its transfers, numbered as p numbers them.
LEMMA ItemsFacts ==
    ASSUME adapter \in Adapters, adapter # "none", NEW cur, cur.stage \in Stages,
           NEW p \in Providers, PageOf(cur, p) \in 1 .. Len(Book(p, cur.stage)),
           NEW page, page = Book(p, cur.stage)[PageOf(cur, p)]
    PROVE  /\ IsFiniteSet(Items(cur, p))
           /\ \A t \in page : [stage |-> cur.stage, of |-> t, idx |-> Idx(p, page, t)]
                                 \in Items(cur, p)
           /\ \A i \in Items(cur, p) :
                 /\ i = [stage |-> i.stage, of |-> i.of, idx |-> i.idx]
                 /\ i.stage = cur.stage /\ i.of \in page /\ i.idx = Idx(p, page, i.of)
<1> DEFINE item(t) == [stage |-> cur.stage, of |-> t, idx |-> Idx(p, page, t)]
           f == [t \in page |-> item(t)]
<1>1. Items(cur, p) = {item(t) : t \in page}
  BY DEF Items, Book
<1>2. IsFiniteSet(page)
  <2>1. page \subseteq Listed(adapter, p, cur.stage)
    BY BookFacts DEF Listed, Book
  <2>2. IsFiniteSet(Listed(adapter, p, cur.stage))
    BY BookFacts, HistoryAssumption DEF Stages
  <2> QED BY <2>1, <2>2, FS_Subset
<1>3. f \in Surjection(page, Items(cur, p))
  BY <1>1 DEF Surjection
<1>4. IsFiniteSet(Items(cur, p))
  BY <1>2, <1>3, FS_Surjection
<1> QED BY <1>1, <1>4

\* The pages of p up to the one it answered with are there.
LEMMA GatheredOneMore ==
    ASSUME adapter \in Adapters, adapter # "none", NEW w, NEW p \in Providers,
           w.cursor.stage \in Stages,
           NEW n, n = PageOf(w.cursor, p), n \in 1 .. Len(Book(p, w.cursor.stage)),
           Gathered(w, w.cursor.stage, p, n - 1)
    PROVE  Gathered(Received(w, p), w.cursor.stage, p, n)
<1> DEFINE v == Received(w, p)
           s == w.cursor.stage
           page == Book(p, s)[n]
<1>1. v.items = w.items \cup {i \in Items(w.cursor, p) : \A j \in w.items : ~SameKey(i, j)}
      /\ v.answered = w.answered \cup {<<s, p>>}
  BY DEF Received
<1> HIDE DEF v
<1>2. Gathered(v, s, p, n - 1)
  BY <1>1, Kept
<1>3. ASSUME NEW t \in page PROVE Has(v, s, Idx(p, page, t), t)
  <2> DEFINE i == [stage |-> s, of |-> t, idx |-> Idx(p, page, t)]
  <2>1. i \in Items(w.cursor, p)
    BY <1>3, ItemsFacts
  <2>2. i.stage = s /\ i.of = t /\ i.idx = Idx(p, page, t)
    OBVIOUS
  <2> HIDE DEF i
  <2>3. CASE i \in v.items
    BY <2>2, <2>3 DEF Has
  <2>4. CASE i \notin v.items
    <3>1. PICK j \in w.items : SameKey(i, j)
      BY <1>1, <2>1, <2>4
    <3> QED BY <1>1, <2>2, <3>1 DEF SameKey, Has
  <2> QED BY <2>3, <2>4
<1>4. ASSUME NEW m \in 1 .. n PROVE m \in 1 .. (n - 1) \/ m = n
  <2>1. n \in Nat
    BY BookFacts
  <2> QED BY <2>1
<1> HIDE DEF s
<1> SUFFICES Gathered(v, s, p, n)
  BY DEF v, s
<1> QED BY <1>2, <1>3, <1>4 DEF Gathered

\* After the last page of p its whole stage is there.
LEMMA StageEnds ==
    ASSUME adapter \in Adapters, adapter # "none", NEW w, CursorHolds(w, w.cursor),
           NEW p \in Providers, ~More(w.cursor, p)
    PROVE  Exhausted(Received(w, p), w.cursor.stage)
<1> DEFINE s == w.cursor.stage
           n == PageOf(w.cursor, p)
           v == Received(w, p)
<1>1. s \in Stages
  BY DEF CursorHolds
<1>2. n \in 1 .. Len(Book(p, s)) /\ Gathered(w, s, p, n - 1)
  BY PageIsNext
<1>3. Gathered(v, s, p, n)
  BY <1>1, <1>2, GatheredOneMore
<1>4. Len(Book(p, s)) \in Nat /\ Window \in Nat
  BY <1>1, BookFacts, HistoryAssumption
<1>5. Last(p, s, n)
  BY <1>2, <1>4 DEF More, Last, Book
<1>6. <<s, p>> \in v.answered
  BY DEF Received
<1> HIDE DEF s, n, v
<1>7. Exhausted(v, s)
  BY <1>2, <1>3, <1>5, <1>6 DEF Exhausted
<1> QED BY <1>7 DEF v, s

\* The next cursor is further on, and what is before it is there.
LEMMA CursorMoves ==
    ASSUME adapter \in Adapters, adapter # "none", NEW w, CursorHolds(w, w.cursor),
           NEW p \in Providers, NEW next, next = Following(w.cursor, p), next # End
    PROVE  /\ CursorHolds(Received(w, p), next)
           /\ \/ ~More(w.cursor, p) /\ next.stage = w.cursor.stage + 1
              \/ /\ More(w.cursor, p) /\ next.stage = w.cursor.stage
                 /\ next.page = PageOf(w.cursor, p) + 1
<1> DEFINE s == w.cursor.stage
           n == PageOf(w.cursor, p)
           v == Received(w, p)
<1>1. s \in Stages
  BY DEF CursorHolds
<1>2. n \in 1 .. Len(Book(p, s)) /\ Gathered(w, s, p, n - 1)
  BY PageIsNext
<1>3. /\ Len(Book(p, s)) \in Nat /\ s \in Nat /\ s >= 1 /\ Providers = {1, 2}
      /\ Stages = 1 .. Len(Pages[adapter][p]) /\ Len(Pages[adapter][p]) \in Nat
  BY <1>1, BookFacts
<1>4. CASE More(w.cursor, p)
  <2>1. next = [stage |-> s, page |-> n + 1, by |-> Issuer(p)]
    BY <1>4 DEF Following
  <2>2. n + 1 <= Len(Book(p, s))
    BY <1>2, <1>3, <1>4 DEF More, Book
  <2>3. next.by = p \/ (next.by = 0 /\ adapter = "btc")
    BY <2>1 DEF Issuer
  <2>4. Gathered(v, s, p, n)
    BY <1>1, <1>2, GatheredOneMore
  <2>5. <<s, p>> \in v.answered
    BY DEF Received
  <2>6. next.stage = s /\ next.page = n + 1 /\ next.page - 1 = n
    BY <1>2, <1>3, <2>1
  <2>7. Issued(v, next, p)
    <3> HIDE DEF v, s, n
    <3> QED BY <2>2, <2>3, <2>4, <2>5, <2>6 DEF Issued
  <2>8. next \in Cursor /\ next.page >= 1
    BY <1>2, <1>3, <2>1, <2>3 DEF Cursor
  <2>9. CursorHolds(v, next)
    <3> HIDE DEF v, n
    <3> QED BY <1>1, <2>6, <2>7, <2>8 DEF CursorHolds
  <2> QED BY <1>4, <2>6, <2>9
<1>5. CASE ~More(w.cursor, p)
  <2>1. next = [stage |-> s + 1, page |-> 1, by |-> 0] /\ s < Len(Pages[adapter][p])
    BY <1>5 DEF Following
  <2>2. next \in Cursor /\ next.stage \in Stages /\ next.page = 1 /\ next.stage = s + 1
    BY <1>3, <2>1 DEF Cursor
  <2>3. CursorHolds(v, next)
    BY <2>2 DEF CursorHolds
  <2> QED BY <1>5, <2>2, <2>3
<1> QED BY <1>4, <1>5

\* A cursor met before comes back only when the stage has changed its provider.
LEMMA LoopsShow ==
    ASSUME adapter \in Adapters, adapter # "none", NEW w, WalkHolds(w), Underway(w),
           NEW p \in Providers, NEW next, next = Following(w.cursor, p), next # End,
           Steady(Received(w, p), w.cursor.stage)
    PROVE  /\ next \notin w.met \cup {w.cursor}
           /\ \A m \in w.met : \/ m.stage < next.stage
                               \/ m.stage = next.stage /\ m.page <= next.page
<1> DEFINE s == w.cursor.stage
           v == Received(w, p)
<1>1. CursorHolds(w, w.cursor) /\ Progress(w) /\ w.met \subseteq Cursor
  BY DEF WalkHolds
<1>2. v.answered = w.answered \cup {<<s, p>>} /\ w.items \subseteq v.items
  BY DEF Received
<1> HIDE DEF v
<1>3. Steady(w, s)
  BY <1>2, Kept DEF v
<1>4. PageOf(w.cursor, p) = w.cursor.page
  <2>1. PageOf(w.cursor, p) # w.cursor.page => \E q \in Providers \ {p} : <<s, q>> \in w.answered
    BY <1>1, PageIsNext
  <2>2. Providers = {1, 2}
    BY <1>1, BookFacts DEF CursorHolds
  <2>3. Steady(v, s) => \A q \in Providers \ {p} : <<s, q>> \notin w.answered
    BY <1>2, <2>2 DEF Steady
  <2> QED BY <2>1, <2>3 DEF v
<1>5. w.cursor \in Cursor /\ CursorHolds(v, next)
  BY <1>1, CursorMoves DEF CursorHolds, v
<1>6. next \in Cursor
  BY <1>5 DEF CursorHolds
<1>7. \/ next.stage = w.cursor.stage + 1
      \/ next.stage = w.cursor.stage /\ next.page = w.cursor.page + 1
  BY <1>1, <1>4, CursorMoves
<1>8. \A m \in w.met : \/ m.stage < w.cursor.stage
                       \/ m.stage = w.cursor.stage /\ m.page <= w.cursor.page
  BY <1>1, <1>3 DEF Progress
<1>9. \A m \in w.met \cup {w.cursor} : m \in Cursor
  BY <1>1, <1>5
<1> HIDE DEF s
<1>10. \A m \in w.met \cup {w.cursor} : m.stage \in Nat /\ m.page \in Nat
  BY <1>9 DEF Cursor
<1>11. next.stage \in Nat /\ next.page \in Nat
  BY <1>6 DEF Cursor
<1> QED BY <1>7, <1>8, <1>10, <1>11

\* A page leaves a walk that holds.
LEMMA PageArrives ==
    ASSUME adapter \in Adapters, adapter # "none", NEW w, WalkHolds(w), Underway(w),
           NEW p \in Providers
    PROVE  WalkHolds(Received(w, p))
<1> DEFINE cur == w.cursor
           s == w.cursor.stage
           n == PageOf(w.cursor, p)
           v == Received(w, p)
           next == Following(w.cursor, p)
<1>1. /\ CursorHolds(w, cur) /\ s \in Stages /\ s \in Nat /\ cur \in Cursor
      /\ w.met \subseteq Cursor /\ Progress(w) /\ ItemsCome(w)
      /\ \A x \in Stages : x < s => Exhausted(w, x)
  BY DEF WalkHolds, CursorHolds, Cursor
<1>2. /\ v.items = w.items \cup {i \in Items(cur, p) : \A j \in w.items : ~SameKey(i, j)}
      /\ v.answered = w.answered \cup {<<s, p>>}
      /\ v.met = w.met \cup {next}
      /\ v.pc \in {"done", "looped", "truncated", "lookup"}
      /\ v.pc = "done" <=> next = End
      /\ v.pc = "looped" => next \in w.met \cup {cur}
      /\ v.pc = "lookup" => next \notin w.met \cup {cur}
      /\ v.cursor = IF v.pc = "lookup" THEN next ELSE cur
  BY DEF Received
<1>3. /\ n \in 1 .. Len(Book(p, s)) /\ DOMAIN Book(p, s) = 1 .. Len(Book(p, s))
      /\ Stages = 1 .. Len(Pages[adapter][p]) /\ Len(Pages[adapter][p]) \in Nat
  BY <1>1, PageIsNext, BookFacts
<1>4. /\ w.items \subseteq v.items /\ w.answered \subseteq v.answered
  BY <1>2
<1>5. ItemsCome(v)
  <2>1. IsFiniteSet(v.items)
    <3>1. IsFiniteSet(Items(cur, p))
      BY <1>1, <1>3, ItemsFacts
    <3>2. IsFiniteSet(w.items \cup Items(cur, p))
      BY <1>1, <3>1, FS_Union DEF ItemsCome
    <3>3. v.items \in SUBSET (w.items \cup Items(cur, p))
      BY <1>2
    <3> QED BY <3>2, <3>3, FS_Subset
  <2>2. ASSUME NEW i \in v.items
        PROVE  /\ i = [stage |-> i.stage, of |-> i.of, idx |-> i.idx]
               /\ i.stage \in Stages
               /\ Comes(v, i)
    <3>1. CASE i \in w.items
      BY <1>1, <1>4, <3>1, Kept DEF ItemsCome
    <3>2. CASE i \in Items(cur, p)
      <4>1. /\ i = [stage |-> i.stage, of |-> i.of, idx |-> i.idx]
            /\ i.stage = s /\ i.of \in Book(p, s)[n] /\ i.idx = Idx(p, Book(p, s)[n], i.of)
        BY <1>1, <1>3, <3>2, ItemsFacts
      <4>2. <<s, p>> \in v.answered /\ n \in DOMAIN Book(p, s)
        BY <1>2, <1>3
      <4> HIDE DEF v, n, s
      <4> QED BY <1>1, <4>1, <4>2 DEF Comes
    <3> QED BY <1>2, <2>2, <3>1, <3>2
  <2> QED BY <2>1, <2>2 DEF ItemsCome
<1>6. next = End => ~More(cur, p) /\ s = Len(Pages[adapter][p])
  <2>1. More(cur, p) => next.stage = s
    BY DEF Following
  <2>2. ~More(cur, p) /\ s < Len(Pages[adapter][p]) => next.stage = s + 1
    BY DEF Following
  <2>3. End.stage = 0 /\ s >= 1 /\ s <= Len(Pages[adapter][p])
    BY <1>1, <1>3 DEF End
  <2> HIDE DEF next
  <2> QED BY <1>1, <1>3, <2>1, <2>2, <2>3
<1>7. \A x \in Stages : x < v.cursor.stage \/ v.pc = "done" => Exhausted(v, x)
  <2>1. \A x \in Stages : x < s => Exhausted(v, x)
    BY <1>1, <1>4, Kept
  <2>2. ~More(cur, p) => Exhausted(v, s)
    BY <1>1, StageEnds
  <2>3. CASE next = End
    <3>1. \A x \in Stages : x < s \/ x = s
      BY <1>1, <1>3, <1>6, <2>3
    <3> QED BY <1>6, <2>1, <2>2, <2>3, <3>1
  <2>4. CASE next # End
    <3>1. next.stage = s \/ (next.stage = s + 1 /\ ~More(cur, p))
      BY <1>1, <2>4, CursorMoves
    <3>2. v.pc # "done" /\ (v.cursor = cur \/ v.cursor = next)
      BY <1>2, <2>4
    <3> HIDE DEF v, next
    <3>3. \A x \in Stages : x < v.cursor.stage => x < s \/ (x = s /\ ~More(cur, p))
      BY <1>1, <1>3, <3>1, <3>2
    <3> QED BY <2>1, <2>2, <3>2, <3>3
  <2> QED BY <2>3, <2>4
<1>8. CursorHolds(v, v.cursor)
  <2>1. CursorHolds(v, cur)
    <3>1. \A q \in Providers : Issued(w, cur, q) => Issued(v, cur, q)
      <4> HIDE DEF v, cur
      <4> QED BY <1>4, Kept DEF Issued
    <3> QED BY <1>1, <3>1 DEF CursorHolds
  <2>2. next # End => CursorHolds(v, next)
    BY <1>1, CursorMoves
  <2> HIDE DEF v, cur, next
  <2> QED BY <1>2, <2>1, <2>2
<1>9. v.met \subseteq Cursor
  <2>1. End \in Cursor
    BY DEF End, Cursor
  <2>2. next # End => next \in Cursor
    BY <1>1, CursorMoves DEF CursorHolds
  <2> QED BY <1>1, <1>2, <2>1, <2>2
<1>10. Underway(v) => Progress(v)
  <2>1. SUFFICES ASSUME Underway(v) PROVE Progress(v)
    OBVIOUS
  <2>2. v.pc = "lookup" /\ next # End /\ v.cursor = next
    BY <1>2, <2>1 DEF Underway
  <2>3. next.stage = s \/ next.stage = s + 1
    BY <1>1, <2>2, CursorMoves
  <2>4. next.stage \in Nat /\ next.page \in Nat
    BY <1>1, <2>2, CursorMoves DEF CursorHolds, Cursor
  <2>5. Steady(v, s) => \A m \in w.met : \/ m.stage < next.stage
                                         \/ m.stage = next.stage /\ m.page <= next.page
    BY <2>2, LoopsShow
  <2>6. \A m \in w.met : m.stage \in Nat /\ (m.stage < s \/ m.stage = s)
    BY <1>1 DEF Progress, Cursor
  <2>7. \A m \in v.met : m \in w.met \/ m = next
    BY <1>2
  <2> HIDE DEF v, next, s
  <2>8. ASSUME NEW m \in v.met
        PROVE  \/ m.stage < next.stage
               \/ m.stage = next.stage /\ (Steady(v, m.stage) => m.page <= next.page)
    <3>1. CASE m = next
      BY <2>4, <3>1
    <3>2. CASE m \in w.met /\ next.stage = s + 1
      BY <1>1, <2>6, <3>2 DEF s
    <3>3. CASE m \in w.met /\ next.stage = s
      BY <2>5, <2>6, <3>3
    <3> QED BY <2>3, <2>7, <3>1, <3>2, <3>3
  <2> QED BY <2>2, <2>8 DEF Progress
<1>11. v.pc = "looped" => ~Steady(v, v.cursor.stage)
  <2>1. SUFFICES ASSUME v.pc = "looped" PROVE ~Steady(v, v.cursor.stage)
    OBVIOUS
  <2>2. next # End /\ next \in w.met \cup {cur} /\ v.cursor = cur
    BY <1>2, <2>1
  <2> QED BY <2>2, LoopsShow
<1>12. v.pc # "storing"
  BY <1>2
<1> HIDE DEF v
<1>13. WalkHolds(v)
  BY <1>5, <1>7, <1>8, <1>9, <1>10, <1>11, <1>12 DEF WalkHolds
<1> QED BY <1>13 DEF v

\* A rank tells apart the transfers of a transaction on one page.
LEMMA RanksDiffer ==
    ASSUME NEW page \in SUBSET Transfer, IsFiniteSet(page), NEW t \in page, NEW u \in page,
           t.tx = u.tx, t.log # u.log
    PROVE  Rank(page, t) # Rank(page, u)
<1> DEFINE ahead(x) == {y \in page : y.tx = x.tx /\ Before(y, x)}
<1>1. ASSUME NEW x \in page, NEW y \in page, x.tx = y.tx, Before(x, y)
      PROVE  Rank(page, x) # Rank(page, y)
  <2>1. \A z \in page : z.to \in Nat /\ z.amount \in Nat /\ z.log \in Nat
    BY DEF Transfer
  <2>2. ahead(x) \subseteq ahead(y)
    BY <1>1, <2>1 DEF Before
  <2>3. x \in ahead(y) /\ x \notin ahead(x)
    BY <1>1, <2>1 DEF Before
  <2>4. IsFiniteSet(ahead(y))
    BY FS_Subset
  <2>5. ahead(x) # ahead(y)
    BY <2>3
  <2> HIDE DEF ahead
  <2>6. Cardinality(ahead(x)) # Cardinality(ahead(y))
    BY <2>2, <2>4, <2>5, FS_Subset
  <2> QED BY <2>6 DEF ahead, Rank
<1>2. Before(t, u) \/ Before(u, t)
  <2>1. /\ t.to \in Nat /\ t.amount \in Nat /\ t.log \in Nat
        /\ u.to \in Nat /\ u.amount \in Nat /\ u.log \in Nat
    BY DEF Transfer
  <2> QED BY <2>1 DEF Before
<1> QED BY <1>1, <1>2

\* What p lists of a stage is what everybody lists.
LEMMA ListFacts ==
    ASSUME adapter \in Adapters, adapter # "none", NEW s \in Stages, NEW p \in Providers
    PROVE  /\ \A t : t \in Listed(adapter, 1, s)
                       <=> \E m \in DOMAIN Book(p, s) : t \in Book(p, s)[m]
           /\ \A t, u \in Listed(adapter, 1, s) : t.tx = u.tx /\ t.log = u.log => t = u
           /\ \A m, n \in DOMAIN Book(p, s) : \A t \in Book(p, s)[m] : t \in Book(p, s)[n] => m = n
           /\ \A m \in DOMAIN Book(p, s) : IsFiniteSet(Book(p, s)[m])
                                           /\ Book(p, s)[m] \in SUBSET Transfer
<1>1. Providers = 1 .. 2 /\ s \in DOMAIN Pages[adapter][1]
  BY BookFacts DEF Stages
<1>2. /\ Listed(adapter, 1, s) = Listed(adapter, 2, s)
      /\ IsFiniteSet(Listed(adapter, 1, s))
      /\ \A t, u \in Listed(adapter, 1, s) : t.tx = u.tx /\ t.log = u.log => t = u
      /\ \A q \in 1 .. 2 : \A m, n \in DOMAIN Pages[adapter][q][s] :
            m # n => Pages[adapter][q][s][m] \cap Pages[adapter][q][s][n] = {}
  BY <1>1, HistoryAssumption
<1>3. Listed(adapter, p, s) = Listed(adapter, 1, s)
  BY <1>1, <1>2
<1>4. \A t : t \in Listed(adapter, 1, s) <=> \E m \in DOMAIN Book(p, s) : t \in Book(p, s)[m]
  BY <1>3 DEF Listed, Book
<1>5. \A m, n \in DOMAIN Book(p, s) : \A t \in Book(p, s)[m] : t \in Book(p, s)[n] => m = n
  BY <1>1, <1>2 DEF Book
<1>6. ASSUME NEW m \in DOMAIN Book(p, s)
      PROVE  IsFiniteSet(Book(p, s)[m]) /\ Book(p, s)[m] \in SUBSET Transfer
  <2>1. Book(p, s)[m] \in SUBSET Listed(adapter, 1, s)
    BY <1>4
  <2>2. Book(p, s)[m] \in SUBSET Transfer
    BY BookFacts
  <2> QED BY <1>2, <2>1, <2>2, FS_Subset
<1> QED BY <1>2, <1>4, <1>5, <1>6

\* The items that stand for t.
Standing(w, s, t) == {i \in w.items : i.stage = s /\ i.of = t}

\* A transfer of a stage that is exhausted has its key.
LEMMA KeyIsThere ==
    ASSUME adapter \in Adapters, adapter # "none", NEW w, NEW s \in Stages, Exhausted(w, s),
           NEW t \in Reachable(s)
    PROVE  \E p \in Providers : /\ <<s, p>> \in w.answered
                                /\ \E m \in DOMAIN Book(p, s) :
                                      t \in Book(p, s)[m] /\ Has(w, s, Idx(p, Book(p, s)[m], t), t)
<1>1. PICK p \in Providers : /\ <<s, p>> \in w.answered
                             /\ \E n \in 1 .. Len(Book(p, s)) : Gathered(w, s, p, n) /\ Last(p, s, n)
  BY DEF Exhausted
<1>2. PICK n \in 1 .. Len(Book(p, s)) : Gathered(w, s, p, n) /\ Last(p, s, n)
  BY <1>1
<1>3. DOMAIN Book(p, s) = 1 .. Len(Book(p, s)) /\ Len(Book(p, s)) \in Nat /\ Window \in Nat
  BY BookFacts, HistoryAssumption
<1>4. PICK k \in DOMAIN Book(p, s) : t \in Book(p, s)[k]
  BY ListFacts DEF Reachable
<1>5. PICK m \in 1 .. n : m \in DOMAIN Book(p, s) /\ t \in Book(p, s)[m]
  <2>1. CASE n = Len(Book(p, s))
    BY <1>3, <1>4, <2>1
  <2>2. CASE n # Len(Book(p, s))
    <3>1. <<adapter, p>> \in Explorers /\ n >= Window
      BY <1>2, <2>2 DEF Last
    <3>2. PICK l \in 1 .. Window : l <= Len(Book(p, s)) /\ t \in Book(p, s)[l]
      BY <3>1 DEF Reachable, Book
    <3> QED BY <1>3, <3>1, <3>2
  <2> QED BY <2>1, <2>2
<1> QED BY <1>1, <1>2, <1>5 DEF Gathered

\* What stands for t was numbered by a provider, on the page where he lists t.
LEMMA WhereFrom ==
    ASSUME NEW w, ItemsCome(w), NEW j \in w.items
    PROVE  \E q \in Providers : /\ <<j.stage, q>> \in w.answered
                                /\ \E k \in DOMAIN Book(q, j.stage) :
                                     /\ j.of \in Book(q, j.stage)[k]
                                     /\ j.idx = Idx(q, Book(q, j.stage)[k], j.of)
  BY DEF ItemsCome, Comes

\* A set with one member at most.
LEMMA OneAtMost ==
    ASSUME NEW S, \A i, j \in S : i = j
    PROVE  /\ IsFiniteSet(S) /\ Cardinality(S) <= 1
           /\ S # {} => Cardinality(S) = 1
<1>1. CASE S = {}
  BY <1>1, FS_EmptySet
<1>2. CASE S # {}
  <2>1. PICK i \in S : S = {i}
    BY <1>2
  <2>2. IsFiniteSet(S) /\ Cardinality(S) = 1
    BY <2>1, FS_Singleton
  <2> QED BY <1>2, <2>2
<1> QED BY <1>1, <1>2

\* A walk that holds hands on the history.
LEMMA HoldsMeansWhole ==
    ASSUME adapter \in Adapters, adapter # "none", NEW w, WalkHolds(w)
    PROVE  /\ w.pc = "looped" => \E s \in Stages : ~Steady(w, s)
           /\ \A s \in Stages : \A t \in Reachable(s) :
                 /\ w.pc = "done" /\ Twins(s, t) = {} => Times(w, s, t) >= 1
                 /\ w.pc = "done" /\ Steady(w, s) /\ ~Split(s, t) => Times(w, s, t) = 1
                 /\ NumberedAlike(s, t) => Times(w, s, t) <= 1
<1>1. w.pc = "looped" => \E s \in Stages : ~Steady(w, s)
  BY DEF WalkHolds, CursorHolds
<1>2. ASSUME NEW s \in Stages, NEW t \in Reachable(s)
      PROVE  /\ w.pc = "done" /\ Twins(s, t) = {} => Times(w, s, t) >= 1
             /\ w.pc = "done" /\ Steady(w, s) /\ ~Split(s, t) => Times(w, s, t) = 1
             /\ NumberedAlike(s, t) => Times(w, s, t) <= 1
  <2> DEFINE S == Standing(w, s, t)
  <2>1. Times(w, s, t) = Cardinality(S)
    BY DEF Times, Standing
  <2>2. ItemsCome(w) /\ t \in Listed(adapter, 1, s) /\ Providers = {1, 2}
    BY HistoryAssumption DEF WalkHolds, Reachable, Providers
  <2>3. IsFiniteSet(S)
    BY <2>2, FS_Subset DEF ItemsCome, Standing
  <2>4. w.pc = "done" => Exhausted(w, s)
    BY DEF WalkHolds
  <2>5. ASSUME NEW i \in S, NEW j \in S, i.idx = j.idx PROVE i = j
    BY <2>2, <2>5 DEF Standing, ItemsCome
  <2>6. ASSUME w.pc = "done", Twins(s, t) = {} PROVE Times(w, s, t) >= 1
    <3>1. PICK p \in Providers : \E m \in DOMAIN Book(p, s) : Has(w, s, Idx(p, Book(p, s)[m], t), t)
      BY <2>4, <2>6, KeyIsThere
    <3>2. PICK j \in w.items : j.stage = s /\ j.of.tx = t.tx /\ j.of.to = t.to
      BY <3>1 DEF Has
    <3>3. j.of \in Listed(adapter, 1, s)
      <4>1. PICK q \in Providers : \E k \in DOMAIN Book(q, s) : j.of \in Book(q, s)[k]
        BY <2>2, <3>2, WhereFrom
      <4> QED BY <4>1, ListFacts
    <3>4. j.of = t
      BY <2>6, <3>2, <3>3 DEF Twins
    <3>5. S # {} /\ Cardinality(S) \in Nat
      BY <2>3, <3>2, <3>4, FS_CardinalityType DEF Standing
    <3>6. Cardinality(S) # 0
      BY <2>3, <3>5, FS_EmptySet
    <3> HIDE DEF S
    <3> QED BY <2>1, <3>5, <3>6
  <2>7. ASSUME w.pc = "done", Steady(w, s), ~Split(s, t) PROVE Times(w, s, t) = 1
    <3>1. PICK p \in Providers : /\ <<s, p>> \in w.answered
                                 /\ \E m \in DOMAIN Book(p, s) :
                                       t \in Book(p, s)[m] /\ Has(w, s, Idx(p, Book(p, s)[m], t), t)
      BY <2>4, <2>7, KeyIsThere
    <3>2. PICK m \in DOMAIN Book(p, s) : t \in Book(p, s)[m] /\ Has(w, s, Idx(p, Book(p, s)[m], t), t)
      BY <3>1
    <3>3. ASSUME NEW j \in w.items, j.stage = s
          PROVE  \E k \in DOMAIN Book(p, s) :
                    j.of \in Book(p, s)[k] /\ j.idx = Idx(p, Book(p, s)[k], j.of)
      <4>1. PICK q \in Providers : /\ <<s, q>> \in w.answered
                                   /\ \E k \in DOMAIN Book(q, s) :
                                        j.of \in Book(q, s)[k] /\ j.idx = Idx(q, Book(q, s)[k], j.of)
        BY <2>2, <3>3, WhereFrom
      <4>2. q = p
        BY <2>2, <2>7, <3>1, <4>1 DEF Steady
      <4> QED BY <4>1, <4>2
    <3>4. \A i, j \in S : i = j
      <4>1. SUFFICES ASSUME NEW i \in S PROVE i.idx = Idx(p, Book(p, s)[m], t)
        BY <2>5
      <4>2. i \in w.items /\ i.stage = s /\ i.of = t
        BY DEF Standing
      <4>3. PICK k \in DOMAIN Book(p, s) : t \in Book(p, s)[k] /\ i.idx = Idx(p, Book(p, s)[k], t)
        BY <3>3, <4>2
      <4>4. k = m
        BY <3>2, <4>3, ListFacts
      <4> QED BY <4>3, <4>4
    <3>5. PICK j \in w.items : /\ j.stage = s /\ j.idx = Idx(p, Book(p, s)[m], t)
                               /\ j.of.tx = t.tx /\ j.of.to = t.to
      BY <3>2 DEF Has
    <3>6. PICK k \in DOMAIN Book(p, s) : j.of \in Book(p, s)[k] /\ j.idx = Idx(p, Book(p, s)[k], j.of)
      BY <3>3, <3>5
    <3>7. j.of \in Listed(adapter, 1, s)
      BY <3>6, ListFacts
    <3>8. j.of = t
      <4>1. SUFFICES ASSUME j.of # t PROVE FALSE
        OBVIOUS
      <4>2. j.of \in Twins(s, t) /\ j.of.log # t.log
        BY <2>2, <3>5, <3>7, <4>1, ListFacts DEF Twins
      <4>3. CASE <<adapter, p>> \in Explorers
        <5>1. j.of \in Book(p, s)[m]
          BY <2>7, <3>2, <4>2, <4>3 DEF Split, Book
        <5>2. k = m
          BY <3>6, <5>1, ListFacts
        <5>3. Rank(Book(p, s)[m], j.of) = Rank(Book(p, s)[m], t)
          BY <3>5, <3>6, <4>3, <5>2 DEF Idx
        <5>4. IsFiniteSet(Book(p, s)[m]) /\ Book(p, s)[m] \in SUBSET Transfer
          BY ListFacts
        <5> QED BY <3>2, <3>5, <4>2, <5>1, <5>3, <5>4, RanksDiffer
      <4>4. CASE <<adapter, p>> \notin Explorers
        BY <3>5, <3>6, <4>2, <4>4 DEF Idx
      <4> QED BY <4>3, <4>4
    <3>9. S # {}
      BY <3>5, <3>8 DEF Standing
    <3> HIDE DEF S
    <3> QED BY <2>1, <3>4, <3>9, OneAtMost
  <2>8. ASSUME NumberedAlike(s, t) PROVE Times(w, s, t) <= 1
    <3>1. ASSUME NEW i \in S
          PROVE  \E q \in Providers : \E k \in DOMAIN Book(q, s) :
                    t \in Book(q, s)[k] /\ i.idx = Idx(q, Book(q, s)[k], t)
      <4>1. i \in w.items /\ i.stage = s /\ i.of = t
        BY <3>1 DEF Standing
      <4> QED BY <2>2, <4>1, WhereFrom
    <3>2. ASSUME NEW i \in S, NEW j \in S PROVE i.idx = j.idx
      <4>1. PICK q \in Providers : \E k \in DOMAIN Book(q, s) :
                    t \in Book(q, s)[k] /\ i.idx = Idx(q, Book(q, s)[k], t)
        BY <3>1
      <4>2. PICK k \in DOMAIN Book(q, s) : t \in Book(q, s)[k] /\ i.idx = Idx(q, Book(q, s)[k], t)
        BY <4>1
      <4>3. PICK r \in Providers : \E l \in DOMAIN Book(r, s) :
                    t \in Book(r, s)[l] /\ j.idx = Idx(r, Book(r, s)[l], t)
        BY <3>1
      <4>4. PICK l \in DOMAIN Book(r, s) : t \in Book(r, s)[l] /\ j.idx = Idx(r, Book(r, s)[l], t)
        BY <4>3
      <4>5. Idx(q, Book(q, s)[k], t) = Idx(r, Book(r, s)[l], t)
        BY <2>8, <4>2, <4>4 DEF NumberedAlike, Book
      <4> QED BY <4>2, <4>4, <4>5
    <3>3. \A i, j \in S : i = j
      BY <2>5, <3>2
    <3> HIDE DEF S
    <3> QED BY <2>1, <3>3, OneAtMost
  <2> QED BY <2>6, <2>7, <2>8
<1> QED BY <1>1, <1>2

\* Only its place in the code, and perhaps who answered, has changed in a walk.
LEMMA SamePage ==
    ASSUME NEW w, WalkHolds(w), Underway(w), NEW v, Underway(v), v.cursor = w.cursor,
           v.met = w.met, v.items = w.items, v.answered = w.answered,
           v.pc = "storing" => v.by \in Providers
    PROVE  WalkHolds(v)
<1>1. /\ \A s : Exhausted(v, s) <=> Exhausted(w, s)
      /\ \A i : Comes(v, i) <=> Comes(w, i)
      /\ \A s : Steady(v, s) <=> Steady(w, s)
  BY Kept
<1>2. CursorHolds(v, v.cursor)
  <2>1. \A p \in Providers : Issued(w, w.cursor, p) => Issued(v, w.cursor, p)
    BY Kept DEF Issued
  <2> QED BY <2>1 DEF WalkHolds, CursorHolds
<1>3. ItemsCome(v)
  BY <1>1 DEF WalkHolds, ItemsCome
<1>4. Progress(v)
  BY <1>1 DEF WalkHolds, Progress
<1>5. v.pc \notin {"done", "looped"} /\ w.pc # "done"
  BY DEF Underway
<1>6. \A s \in Stages : s < v.cursor.stage \/ v.pc = "done" => Exhausted(v, s)
  BY <1>1, <1>5 DEF WalkHolds
<1> QED BY <1>2, <1>3, <1>4, <1>5, <1>6 DEF WalkHolds

\* A walk begins with nothing behind it.
LEMMA FreshHolds ==
    ASSUME adapter \in Adapters, adapter # "none"
    PROVE  WalkHolds([Fresh EXCEPT !.pc = "lookup"])
<1> DEFINE w == [Fresh EXCEPT !.pc = "lookup"]
<1>1. /\ w.pc = "lookup" /\ w.cursor = Origin /\ w.met = {} /\ w.items = {} /\ w.answered = {}
  BY DEF Fresh
<1> HIDE DEF w
<1>2. 1 \in Stages
  <2>1. Pages[adapter] \in [1 .. 2 -> Seq(Seq(SUBSET Transfer))] /\ Pages[adapter][1] # <<>>
    BY HistoryAssumption
  <2> QED BY <2>1 DEF Stages
<1>3. CursorHolds(w, w.cursor)
  BY <1>1, <1>2 DEF CursorHolds, Cursor, Origin
<1>4. ItemsCome(w)
  BY <1>1, FS_EmptySet DEF ItemsCome
<1>5. Progress(w)
  BY <1>1 DEF Progress
<1>6. \A s \in Stages : ~(s < w.cursor.stage)
  <2>1. \A s \in Stages : s \in Nat /\ s >= 1
    <3>1. 1 \in Providers
      BY HistoryAssumption DEF Providers
    <3> QED BY <3>1, BookFacts
  <2> QED BY <1>1, <2>1 DEF Origin
<1>7. WalkHolds(w)
  BY <1>1, <1>3, <1>4, <1>5, <1>6 DEF WalkHolds
<1> QED BY <1>7 DEF w

\* The history is the same in the next state.
LEMMA HoldsStays ==
    ASSUME adapter' = adapter, NEW c \in Calls, NEW w, walk'[c] = w
    PROVE  WalkHolds(walk[c])' <=> WalkHolds(w)
  BY DEF WalkHolds, ItemsCome, Comes, Exhausted, Last, Gathered, Has, Idx, Book, CursorHolds,
         Issued, Stages, Underway, Progress, Steady

LEMMA HistoryStep == IInv /\ FlightInv /\ HistoryInv /\ [ReadsNext]_readVars => HistoryInv'
<1> SUFFICES ASSUME IInv, FlightInv, HistoryInv, [ReadsNext]_readVars PROVE HistoryInv'
  OBVIOUS
<1>0. CASE UNCHANGED reading
  <2>1. adapter' = adapter /\ cache' = cache /\ walk' = walk
    BY <1>0 DEF reading
  <2>2. \A c \in Calls : WalkHolds(walk[c])' <=> WalkHolds(walk[c])
    BY <2>1, HoldsStays
  <2>3. \A c \in Calls : walk'[c] = Fresh \/ (adapter' # "none" /\ WalkHolds(walk[c])')
    BY <2>1, <2>2 DEF HistoryInv
  <2> QED BY <2>1, <2>3 DEF HistoryInv
\* Every other step is one of some walk c; it, or everybody who shares its page, moves.
<1>1. ASSUME NEW c \in Calls, Read(c), adapter \in Adapters, adapter # "none", adapter' = adapter,
             \A k \in DOMAIN cache' : cache'[k] \in Providers,
             \A d \in Calls : walk'[d] = walk[d] \/ WalkHolds(walk'[d])
      PROVE  HistoryInv'
  <2>1. ASSUME NEW d \in Calls
        PROVE  walk'[d] = Fresh \/ (adapter' # "none" /\ WalkHolds(walk[d])')
    <3>1. walk[d] = Fresh \/ WalkHolds(walk[d])
      BY DEF HistoryInv
    <3>2. \A w : walk'[d] = w => (WalkHolds(walk[d])' <=> WalkHolds(w))
      BY <1>1, HoldsStays
    <3> QED BY <1>1, <3>1, <3>2
  <2> QED BY <1>1, <2>1 DEF HistoryInv
<1>2. ASSUME NEW c \in Calls, walk[c].pc # "idle"
      PROVE  adapter \in Adapters /\ adapter # "none" /\ WalkHolds(walk[c])
  BY <1>2 DEF HistoryInv, Fresh
<1>3. \A c \in Calls : Formed(walk[c])
  BY DEF FlightInv, WalksFormed
<1>4. walk = [c \in Calls |-> walk[c]]
  BY DEF FlightInv, WalksFormed
<1>5. ASSUME NEW c \in Calls, Begin(c) PROVE HistoryInv'
  <2>1. /\ adapter # "none" /\ adapter \in Adapters /\ adapter' = adapter /\ cache' = cache
        /\ walk' = [walk EXCEPT ![c] = [Fresh EXCEPT !.pc = "lookup"]]
    BY <1>5 DEF Begin, HistoryInv
  <2>2. WalkHolds([Fresh EXCEPT !.pc = "lookup"])
    BY <2>1, FreshHolds
  <2>3. \A d \in Calls : walk'[d] = walk[d] \/ WalkHolds(walk'[d])
    BY <1>4, <2>1, <2>2
  <2> QED BY <1>1, <1>5, <2>1, <2>3 DEF HistoryInv, Read
\* A walk that only moves on in the code.
<1>6. ASSUME NEW c \in Calls, Read(c), walk[c].pc # "idle", Underway(walk[c]),
             adapter' = adapter, cache' = cache,
             \A d \in Calls \ {c} : walk'[d] = walk[d],
             NEW w, walk'[c] = w, w.cursor = walk[c].cursor, w.met = walk[c].met,
             w.items = walk[c].items, w.answered = walk[c].answered, Underway(w),
             w.pc = "storing" => w.by \in Providers
      PROVE  HistoryInv'
  <2>1. adapter \in Adapters /\ adapter # "none" /\ WalkHolds(walk[c])
    BY <1>2, <1>6
  <2>2. WalkHolds(w)
    BY <1>6, <2>1, SamePage
  <2> QED BY <1>1, <1>6, <2>1, <2>2 DEF HistoryInv
<1>7. ASSUME NEW c \in Calls, NEW x, x \notin {"idle", "storing", "done", "looped", "truncated"},
             Read(c), walk[c].pc # "idle", Underway(walk[c]), adapter' = adapter, cache' = cache,
             walk' = [walk EXCEPT ![c].pc = x]
      PROVE  HistoryInv'
  <2> DEFINE w == [walk[c] EXCEPT !.pc = x]
  <2>1. walk'[c] = w /\ \A d \in Calls \ {c} : walk'[d] = walk[d]
    BY <1>4, <1>7
  <2>2. /\ w.cursor = walk[c].cursor /\ w.met = walk[c].met /\ w.items = walk[c].items
        /\ w.answered = walk[c].answered /\ w.pc = x
    BY <1>3 DEF Formed
  <2> HIDE DEF w
  <2> QED BY <1>6, <1>7, <2>1, <2>2 DEF Underway
<1>8. ASSUME NEW c \in Calls, Hit(c) PROVE HistoryInv'
  <2>1. /\ walk[c].pc = "lookup" /\ walk[c].cursor \in DOMAIN cache
        /\ adapter' = adapter /\ cache' = cache
    BY <1>8 DEF Hit
  <2>2. adapter \in Adapters /\ adapter # "none" /\ WalkHolds(walk[c])
    BY <1>2, <2>1
  <2>3. cache[walk[c].cursor] \in Providers
    BY <2>1 DEF HistoryInv
  <2>4. WalkHolds(Received(walk[c], cache[walk[c].cursor]))
    BY <2>1, <2>2, <2>3, PageArrives DEF Underway
  <2>5. \A d \in Calls : walk'[d] = walk[d] \/ WalkHolds(walk'[d])
    BY <1>4, <1>8, <2>4 DEF Hit
  <2> QED BY <1>1, <1>8, <2>1, <2>2, <2>5 DEF HistoryInv, Read
<1>9. ASSUME NEW c \in Calls, Miss(c) PROVE HistoryInv'
  BY <1>7, <1>9 DEF Miss, Read, Underway
<1>10. ASSUME NEW c \in Calls, Join(c) PROVE HistoryInv'
  BY <1>7, <1>10 DEF Join, Read, Underway
<1>11. ASSUME NEW c \in Calls, Compute(c) PROVE HistoryInv'
  BY <1>7, <1>11 DEF Compute, Read, Underway
<1>12. ASSUME NEW c \in Calls, Try(c) PROVE HistoryInv'
  <2>1. \A d \in Calls : walk'[d] = walk[d] \/ WalkHolds(walk'[d])
    BY <1>12 DEF Try
  <2> QED BY <1>1, <1>2, <1>12, <2>1 DEF Try, HistoryInv, Read
<1>13. ASSUME NEW c \in Calls, Answer(c) PROVE HistoryInv'
  <2> DEFINE w == [walk[c] EXCEPT !.pc = "storing", !.by = call[c].at]
  <2>1. walk[c].pc = "asking" /\ adapter' = adapter /\ cache' = cache
    BY <1>13 DEF Answer
  <2>2. walk'[c] = w /\ \A d \in Calls \ {c} : walk'[d] = walk[d]
    BY <1>4, <1>13 DEF Answer
  <2>3. /\ w.cursor = walk[c].cursor /\ w.met = walk[c].met /\ w.items = walk[c].items
        /\ w.answered = walk[c].answered /\ w.pc = "storing" /\ w.by = call[c].at
    BY <1>3 DEF Formed
  <2>4. call[c].at \in Providers
    BY DEF IInv, TypeOK, Call
  <2> HIDE DEF w
  <2> QED BY <1>6, <1>13, <2>1, <2>2, <2>3, <2>4 DEF Read, Underway
<1>14. ASSUME NEW c \in Calls, Refuse(c) PROVE HistoryInv'
  <2>1. walk[c].pc = "asking" /\ adapter' = adapter /\ cache' = cache
    BY <1>14 DEF Refuse
  <2>2. adapter \in Adapters /\ adapter # "none"
    BY <1>2, <2>1
  <2>3. ASSUME NEW d \in Sharing(c) PROVE WalkHolds([walk[d] EXCEPT !.pc = "failed"])
    <3>1. d \in Calls /\ walk[d].pc \in {"asking", "joined"}
      BY <2>1 DEF Sharing
    <3>2. WalkHolds(walk[d])
      BY <1>2, <3>1
    <3> DEFINE w == [walk[d] EXCEPT !.pc = "failed"]
    <3>3. /\ w.cursor = walk[d].cursor /\ w.met = walk[d].met /\ w.items = walk[d].items
          /\ w.answered = walk[d].answered /\ w.pc = "failed"
      BY <1>3, <3>1 DEF Formed
    <3> HIDE DEF w
    <3>4. WalkHolds(w)
      BY <3>1, <3>2, <3>3, SamePage DEF Underway
    <3> QED BY <3>4 DEF w
  <2>4. \A d \in Calls : walk'[d] = walk[d] \/ WalkHolds(walk'[d])
    BY <1>14, <2>3 DEF Refuse
  <2> QED BY <1>1, <1>14, <2>1, <2>2, <2>4 DEF HistoryInv, Read
<1>15. ASSUME NEW c \in Calls, Store(c) PROVE HistoryInv'
  <2>1. walk[c].pc = "storing" /\ adapter' = adapter
    BY <1>15 DEF Store
  <2>2. adapter \in Adapters /\ adapter # "none" /\ walk[c].by \in Providers
    BY <1>2, <2>1 DEF WalkHolds
  <2>3. \A k \in DOMAIN cache' : cache'[k] \in Providers
    BY <1>15, <2>2 DEF Store, HistoryInv
  <2>4. ASSUME NEW d \in Sharing(c) PROVE WalkHolds(Received(walk[d], walk[c].by))
    <3>1. d \in Calls /\ walk[d].pc \in {"storing", "joined"}
      BY <2>1 DEF Sharing
    <3>2. WalkHolds(walk[d])
      BY <1>2, <3>1
    <3> QED BY <2>2, <3>1, <3>2, PageArrives DEF Underway
  <2>5. \A d \in Calls : walk'[d] = walk[d] \/ WalkHolds(walk'[d])
    BY <1>15, <2>4 DEF Store
  <2> QED BY <1>1, <1>15, <2>1, <2>2, <2>3, <2>5 DEF Read
<1>16. ASSUME NEW a, Loose(a) PROVE HistoryInv'
  BY <1>0, <1>16 DEF Loose
<1>17. CASE UNCHANGED readVars
  BY <1>0, <1>17 DEF readVars
<1> QED
  BY <1>5, <1>8, <1>9, <1>10, <1>11, <1>12, <1>13, <1>14, <1>15, <1>16, <1>17 DEF ReadsNext, Read

\* Whatever refusals, cached pages and shared calls a walk was put together from, it hands
\* on the history: nothing is missing, nothing is there twice where providers number alike,
\* and it is cut short only when a stage has changed its provider.
THEOREM WholeHistory == ReadsSpec => []HistoryIsWhole
<1>1. ReadsInit => HistoryInv /\ FlightInv
  <2>1. SUFFICES ASSUME ReadsInit PROVE HistoryInv /\ FlightInv
    OBVIOUS
  <2>2. HistoryInv
    BY <2>1 DEF ReadsInit, HistoryInv
  <2> QED BY <2>1, <2>2, FlightInit
<1>2. HistoryInv => HistoryIsWhole
  <2>1. SUFFICES ASSUME HistoryInv, NEW c \in Calls
        PROVE  LET w == walk[c] IN
               /\ w.pc = "looped" => \E s \in Stages : ~Steady(w, s)
               /\ \A s \in Stages : \A t \in Reachable(s) :
                     /\ w.pc = "done" /\ Twins(s, t) = {} => Times(w, s, t) >= 1
                     /\ w.pc = "done" /\ Steady(w, s) /\ ~Split(s, t) => Times(w, s, t) = 1
                     /\ NumberedAlike(s, t) => Times(w, s, t) <= 1
    BY DEF HistoryIsWhole
  <2>2. CASE walk[c] = Fresh
    <3>1. walk[c].pc = "idle" /\ walk[c].items = {}
      BY <2>2 DEF Fresh
    <3>2. \A s, t : Times(walk[c], s, t) = 0
      BY <3>1, FS_EmptySet DEF Times
    <3> QED BY <3>1, <3>2
  <2>3. CASE adapter # "none" /\ WalkHolds(walk[c])
    <3>1. adapter \in Adapters
      BY <2>1, <2>3 DEF HistoryInv
    <3> QED BY <2>3, <3>1, HoldsMeansWhole
  <2> QED BY <2>1, <2>2, <2>3 DEF HistoryInv
<1> QED
  BY <1>1, <1>2, HistoryStep, FlightStep, ReadsInitIInv, ReadsMakeCalls, StepIInv, PTL DEF ReadsSpec
=============================================================================
