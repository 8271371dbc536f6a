------------------------------ MODULE TraceWalk ------------------------------
(***************************************************************************)
(* workers/trace/engine.ts, the walk of one attempt of runTrace: money is  *)
(* followed from the seed address, always at the address that holds most   *)
(* of it. One attempt is one loop; it is the only one to touch this state. *)
(* USD amounts are integers (the unit is a bound: HAIRCUT rounds down to   *)
(* it), timestamps are small numbers, and token swaps are a flag of the    *)
(* transfer that the providers' answers determine.                         *)
(***************************************************************************)
EXTENDS Integers, FiniteSets, FiniteSetsExt

CONSTANTS
    Addresses, Seed,
    Services,      \* addresses that carry a service label
    Bridges,       \* known bridge contracts
    Landing,       \* Landing[b]: where the resolver finds the money again, or Nowhere
    Nowhere,
    Histories,     \* sets of transfers the providers may answer with
    Reports,       \* reportedAmount of the TraceJob row; more than there is, for unknown
    MaxHops, MinValue, WindowEnd,        \* of the TraceJob row; the window starts at 0
    TopK, HighDegree, MaxNodes, FlushAt  \* of the engine

Unpriced == -1

ASSUME WalkAssumption ==
    /\ Seed \in Addresses
    /\ Bridges \subseteq Addresses
    /\ Landing \in [Bridges -> Addresses \cup {Nowhere}]
    /\ Nowhere \notin Addresses
    /\ MaxHops \in Nat /\ WindowEnd \in Nat
    /\ Reports \subseteq Nat
    /\ \A H \in Histories :
          /\ IsFiniteSet(H)
          /\ \A e \in H : /\ e.from \in Addresses /\ e.to \in Addresses /\ e.ts \in Int
                         /\ e.id \in Nat /\ e.usd \in Nat \cup {Unpriced}
          /\ \A e, f \in H : e.id = f.id => e = f

VARIABLES
    task,        \* taintModel and reportedAmount, and the transfers there are to find
    heap,       \* entries of the priority queue
    meta,       \* meta[a]: taint, hop, firstTaintedAt
    reached,    \* the keys of nodeMeta
    expanded, terminals,
    buffer,     \* hopBuffer and graphBuffer, which hold the same transfers
    table,      \* the unique keys of the Hop rows of this trace
    graph,      \* the transfers in Neo4j
    phase       \* "walk", then "done" when the job is COMPLETED

walkVars == <<task, heap, meta, reached, expanded, terminals, buffer, table, graph, phase>>

Unknown == [taint |-> 0, hop |-> 0, since |-> 0]

Entry(a, t) == [key |-> a, taint |-> t]

WalkInit ==
    /\ task \in [model : {"HAIRCUT", "FIFO"}, reported : Reports, history : Histories]
    /\ heap = {Entry(Seed, task.reported)}
    /\ meta = [a \in Addresses |-> IF a = Seed THEN [Unknown EXCEPT !.taint = task.reported]
                                   ELSE Unknown]
    /\ reached = {Seed}
    /\ expanded = {}
    /\ terminals = {}
    /\ buffer = {} /\ table = {} /\ graph = {}
    /\ phase = "walk"

-----------------------------------------------------------------------------
(* taint.ts, topByUsd                                                      *)

Value(e) == IF e.usd = Unpriced THEN 0 ELSE e.usd
Total(S) == SumFunction([e \in S |-> Value(e)])

\* The order of topByUsd; the sort is stable, and id is the provider's order.
Richer(e, f) == e.usd > f.usd \/ (e.usd = f.usd /\ e.id < f.id)
Top(S) == {e \in S : Cardinality({f \in S : Richer(f, e)}) < TopK}

\* Chronological order of the transfers in a top list.
Earlier(e, f) == e.ts < f.ts \/ (e.ts = f.ts /\ Richer(e, f))

HaircutShare(t, S, e) ==
    IF Total(S) = 0 THEN 0 ELSE IF t >= Total(S) THEN Value(e) ELSE (Value(e) * t) \div Total(S)

\* Variant: the balance is not reduced as it is spent.
FifoShareKeeps(t, S, e) == IF t < Value(e) THEN t ELSE Value(e)

\* min(remaining, usd), and nothing once the balance is spent.
FifoShare(t, S, e) ==
    LET remaining == t - Total({f \in S : Earlier(f, e)})
    IN  IF remaining <= 0 THEN 0 ELSE IF remaining < Value(e) THEN remaining ELSE Value(e)

\* allocateTaint: what e gets when t is split over the transfers S.
Share(t, S, e) == IF task.model = "FIFO" THEN FifoShare(t, S, e) ELSE HaircutShare(t, S, e)

-----------------------------------------------------------------------------
(* The filters of the loop                                                 *)

\* Transfers out of a within the window, none older than the money.
Outs(a) == {e \in task.history : e.from = a /\ e.ts >= meta[a].since /\ e.ts <= WindowEnd}
Legs(a) == {e \in Outs(a) : ~e.swap}
Crossings(a) == {e \in Legs(a) : e.to \in Bridges}
Selected(a) == Top({e \in Legs(a) \ Crossings(a) : e.usd = Unpriced \/ e.usd >= MinValue})
Resolved(a) == {e \in Crossings(a) : Landing[e.to] # Nowhere}
Dest(e) == IF e.to \in Bridges THEN Landing[e.to] ELSE e.to

Terminal(a, why) == [addr |-> a, reason |-> why]
Key(e) == <<e.tx, e.from, e.to>>

Write(S) ==
    /\ table' = table \cup {Key(e) : e \in S}
    /\ graph' = graph \cup S

\* persistEdges, and the flush that follows when the buffer is full.
Persist(S) ==
    IF Cardinality(buffer \cup S) >= FlushAt
    THEN Write(buffer \cup S) /\ buffer' = {}
    ELSE buffer' = buffer \cup S /\ UNCHANGED <<table, graph>>

-----------------------------------------------------------------------------
(* One turn of the loop                                                    *)

\* TaintPriorityQueue.pop: an entry with the highest taint.
TopEntry(p) == p \in heap /\ \A q \in heap : q.taint <= p.taint

Running == phase = "walk" /\ Cardinality(expanded) < MaxNodes

Stale(p) == meta[p.key].taint # p.taint \/ p.key \in expanded

Discard(p) ==
    /\ Running /\ TopEntry(p) /\ Stale(p)
    /\ heap' = heap \ {p}
    /\ UNCHANGED <<task, meta, reached, expanded, terminals, buffer, table, graph, phase>>

Visit(p) ==
    /\ Running /\ TopEntry(p) /\ ~Stale(p)
    /\ expanded' = expanded \cup {p.key}
    /\ UNCHANGED <<task, phase>>

Service(p) ==
    /\ Visit(p)
    /\ p.key \in Services
    /\ terminals' = terminals \cup {Terminal(p.key, "service")}
    /\ heap' = heap \ {p}
    /\ UNCHANGED <<meta, reached, buffer, table, graph>>

OutOfHops(p) ==
    /\ Visit(p)
    /\ p.key \notin Services
    /\ meta[p.key].hop >= MaxHops
    /\ terminals' = terminals \cup {Terminal(p.key, "max_hops")}
    /\ heap' = heap \ {p}
    /\ UNCHANGED <<meta, reached, buffer, table, graph>>

\* Neither of the two stop conditions that are asked before the providers are.
Expandable(p) == p.key \notin Services /\ meta[p.key].hop < MaxHops
TooManyCounterparties(a) == Cardinality({e.to : e \in Outs(a)}) > HighDegree

HighDegreeService(p) ==
    /\ Visit(p)
    /\ Expandable(p) /\ TooManyCounterparties(p.key)
    /\ terminals' = terminals \cup {Terminal(p.key, "high_degree")}
    /\ heap' = heap \ {p}
    /\ Persist(Top(Outs(p.key)))
    /\ UNCHANGED <<meta, reached>>

\* What a transfer out of a hands on; every bridge leg is allocated on its own.
Handed(a, e) == Share(meta[a].taint, IF e.to \in Bridges THEN {e} ELSE Selected(a), e)

\* The transfers of a that feed an address not yet expanded (pushChild's return).
Feeding(a) == {e \in Selected(a) \cup Resolved(a) :
                   Handed(a, e) > 0 /\ Dest(e) \notin expanded \cup {a}}

\* Variant: money is followed from when it reached the address before.
FedTooEarly(a, n, S) ==
    [taint |-> meta[n].taint + SumFunction([e \in S |-> Handed(a, e)]),
     hop   |-> meta[a].hop + 1,
     since |-> meta[a].since]

\* nodeMeta of n after the transfers S out of a: the sum of the taint, the smallest
\* hop, the earliest arrival.
Fed(a, n, S) ==
    LET known == IF n \in reached THEN {meta[n]} ELSE {}
    IN  [taint |-> meta[n].taint + SumFunction([e \in S |-> Handed(a, e)]),
         hop   |-> Min({m.hop : m \in known} \cup {meta[a].hop + 1}),
         since |-> Min({m.since : m \in known} \cup {e.ts : e \in S})]

\* Variant: an address that is already waiting gets no new entry.
PushNew(a, grown) == {Entry(n, meta'[n].taint) : n \in grown \ reached}

\* The entries pushed for the addresses that grew. The code pushes one per transfer;
\* all but the last are stale at once.
Push(a, grown) == {Entry(n, meta'[n].taint) : n \in grown}

FanOut(p) ==
    /\ Visit(p)
    /\ Expandable(p) /\ ~TooManyCounterparties(p.key)
    /\ LET a     == p.key
           grown == {Dest(e) : e \in Feeding(a)}
       IN  /\ meta' = [n \in Addresses |->
                          IF n \in grown THEN Fed(a, n, {e \in Feeding(a) : Dest(e) = n})
                          ELSE meta[n]]
           /\ reached' = reached \cup grown
           /\ heap' = (heap \ {p}) \cup Push(a, grown)
           /\ terminals' = terminals \cup {Terminal(e.to, "bridge_unresolved") :
                                             e \in Crossings(a) \ Resolved(a)}
           /\ Persist(Selected(a) \cup Crossings(a))

\* The loop is over: what is left is flushed, then the job is COMPLETED.
Finish ==
    /\ phase = "walk"
    /\ heap = {} \/ Cardinality(expanded) = MaxNodes
    /\ Write(buffer) /\ buffer' = {}
    /\ phase' = "done"
    /\ UNCHANGED <<task, heap, meta, reached, expanded, terminals>>

Turn(p) == Discard(p) \/ Service(p) \/ OutOfHops(p) \/ HighDegreeService(p) \/ FanOut(p)

WalkNext == (\E p \in heap : Turn(p)) \/ Finish

WalkSpec == WalkInit /\ [][WalkNext]_walkVars

-----------------------------------------------------------------------------
(* Properties                                                              *)

Waiting == reached \ expanded
Kept == buffer \cup graph

\* "expands the highest-taint frontier node next, not plain breadth-first": although
\* the heap holds stale entries of addresses whose taint has grown since, the address
\* expanded is never poorer than one left waiting.
HighestFirst ==
    [][\A a \in expanded' \ expanded : \A b \in Waiting : meta[b].taint <= meta[a].taint]_walkVars

\* Lazy deletion forgets nobody: an address with money that has not been expanded has
\* an entry with exactly its taint; so a walk that ends with an empty heap has
\* expanded every address it reached.
NobodyForgotten == \A a \in Waiting : Entry(a, meta[a].taint) \in heap

\* Every address is reached on a trail of money: a kept transfer out of an expanded
\* address one hop nearer, and one that left no sooner than the money came to where
\* it left from, which is the arrival recorded.
MoneyTrail == \A a \in reached \ {Seed} :
    /\ \E e \in Kept : /\ Dest(e) = a /\ e.from \in expanded
                       /\ meta[a].hop = meta[e.from].hop + 1
    /\ \E e \in Kept : /\ Dest(e) = a /\ e.from \in expanded
                       /\ meta[a].since = e.ts /\ e.ts >= meta[e.from].since

\* Expanded addresses that did not stop the walk: they have handed on what they held. (An
\* unresolved bridge is a terminal of the address that paid into it.)
HandedOn == {a \in expanded :
    \A why \in {"service", "max_hops", "high_degree"} : Terminal(a, why) \notin terminals}
Crossed == {e \in Kept : e.to \in Bridges /\ Landing[e.to] # Nowhere}

\* Taint is split, never made: as long as no bridge was crossed (its leg is allocated
\* apart from the other transfers) all addresses that still hold money hold no more
\* than was reported, however paths fork, join and cycle.
TaintConserved ==
    Crossed = {} => SumFunction([a \in reached \ HandedOn |-> meta[a].taint]) <= task.reported

\* The walk stays within the limits of the job: no address is reached over more hops than
\* asked for, none by money that moved outside the window.
WithinLimits == \A a \in reached : meta[a].hop \in 0 .. MaxHops /\ meta[a].since \in 0 .. WindowEnd

\* A COMPLETED trace has in both stores a transfer into every address it reached.
WalkIsStored == phase = "done" => \A a \in reached \ {Seed} :
    \E e \in graph : Dest(e) = a /\ Key(e) \in table
=============================================================================
