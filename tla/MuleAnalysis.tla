------------------------------ MODULE MuleAnalysis ------------------------------
(***************************************************************************)
(* The mule analysis of a case (apps/api/src/mule/analyzeCase.ts), which   *)
(* officers start by hand, perhaps two at once, while traces still store   *)
(* hops: it reads the hops of the case, links wallets that other cases     *)
(* touch, raises flags, puts flagged wallets on the watchlist, and groups  *)
(* the addresses by a projection of the graph that the database keeps      *)
(* under the name of the case.                                             *)
(***************************************************************************)
EXTENDS MuleRules

CONSTANTS
    Found,        \* the hops that traces may store, in the order of their times, with nth,
                  \* their place in the trace
    Settled,      \* the traces that have ended when the first analysis starts,
    Running,      \* and those that walk beside it (bounds)
    CaseOf,       \* the case of a trace
    SeedOf,       \* the address a trace starts from
    Officers,     \* the analyses that may run at once
    Asked, Asks,  \* the cases officers analyse, and how often they ask (bounds)
    MaxMishaps,   \* failed calls and crashes (a bound)
    NoGraph       \* there is no projection, or no undisturbed analysis

Traces == DOMAIN CaseOf
Cases == {CaseOf[t] : t \in Traces}
Finds == ToSet(Found)
Keys == UNION {Ends(f) : f \in Finds}

ASSUME MuleAnalysisAssumption ==
    /\ Found \in Seq(Finds) /\ \A f \in Finds : f.at \in Nat
    /\ Settled \cup Running \subseteq Traces /\ {f.trace : f \in Finds} \subseteq Traces
    /\ DOMAIN SeedOf = Traces /\ DOMAIN CreatedAt = Keys
    /\ \A i, j \in DOMAIN Found : i < j =>
          /\ Found[i].at <= Found[j].at
          /\ <<Found[i].trace, Found[i].nth>> # <<Found[j].trace, Found[j].nth>>
    /\ Asked \subseteq Cases /\ Asks \in Nat /\ MaxMishaps \in Nat
    /\ \A graph \in SUBSET Finds : graph # NoGraph

VARIABLES
    stored,     \* the Hop rows, and the relations of the graph database
    flags,      \* MuleFlag rows, by address and rule, whichever case raised them
    shared,     \* SharedMuleFlag rows: the cases listed for an address
    watch,      \* WatchlistItem rows: pairs of a case and an address
    rows,       \* AddressCommunity rows of a case: an address to its group
    catalog,    \* the projection kept under the name of a case
    run,        \* the analysis an officer has started
    asks, mishaps,
    owed,       \* history: cases that undisturbed analyses have found for an address
    whole       \* history: hops of the last analysis of a case if nothing disturbed it

analysisVars == <<stored, flags, shared, watch, rows, catalog, run, asks, mishaps, owed, whole>>
tables == <<stored, flags, shared, watch, rows>>

-----------------------------------------------------------------------------
\* Those members of a list that are in some.
Among(list, some) ==
    LET upTo[n \in 0 .. Len(list)] ==
            IF n = 0 THEN <<>>
            ELSE IF list[n] \in some THEN Append(upTo[n - 1], list[n]) ELSE upTo[n - 1]
    IN  upTo[Len(list)]
InOrder(finds) == Among(Found, finds)

\* Every hop as its receiver and as its sender has it: one that an address sends to itself is
\* there twice, once among its hops in and once among its hops out.
Sides == [n \in 1 .. 2 * Len(Found) |->
    LET f == Found[(n + 1) \div 2] IN [of |-> f, in |-> n % 2 = 1, at |-> f.at]]
Holder(s) == IF s.in THEN Receiver(s.of) ELSE Sender(s.of)
Hops(c) == {f \in stored : CaseOf[f.trace] = c}
KeysOf(finds) == UNION {Ends(f) : f \in finds}

\* Variant: touches are counted by trace, not by case.
CandidatesByTrace(seen) ==
    LET touched(k) == {f \in stored : k \in Ends(f)}
        many == {k \in KeysOf(seen) : Cardinality({f.trace : f \in touched(k)}) >= 2}
    IN  [k \in many |-> {CaseOf[f.trace] : f \in touched(k)}]

\* findSharedMules of every hop that touches an address of the case.
Candidates(seen) ==
    LET touching(k) == {CaseOf[f.trace] : f \in {g \in stored : k \in Ends(g)}}
    IN  [k \in {l \in KeysOf(seen) : Cardinality(touching(l)) >= 2} |-> touching(k)]

\* The projection of the graph: every relation of these transactions, whichever trace found it.
Projected(txs) == {f \in stored : f.tx \in txs}

\* Weakly connected components: a group is known by the smallest place of its nodes in
\* the projection, a number that means something else in the next projection.
Undirected(graph) == {<<Sender(f), Receiver(f)>> : f \in graph}
                     \cup {<<Receiver(f), Sender(f)>> : f \in graph}

Component(graph, key) == DOMAIN bfsDepths(Undirected(graph), key)

\* How keys are ordered, as places of nodes in a projection and as rows of an answer: by
\* the first hop that has them, the sender before the receiver.
Spot == [k \in Keys |->
    LET of == {i \in DOMAIN Found : k \in Ends(Found[i])}
        first == CHOOSE i \in of : \A j \in of : i <= j
    IN  IF k = Sender(Found[first]) THEN 2 * first ELSE 2 * first + 1]

Groups(graph) ==
    LET place(k) == Cardinality({l \in KeysOf(graph) : Spot[l] <= Spot[k]})
        members(k) == {place(l) : l \in Component(graph, k)}
    IN  [k \in KeysOf(graph) |-> CHOOSE i \in members(k) : \A j \in members(k) : i <= j]

-----------------------------------------------------------------------------
NoRun == [pc |-> "idle", case |-> NoGraph, seen |-> {}, todo |-> <<>>, group |-> <<>>,
          left |-> 0, clashed |-> FALSE, crossed |-> FALSE, met |-> FALSE, struck |-> FALSE,
          failed |-> FALSE]

AnalysisInit ==
    \* Either officers analyse while traces run, or all that could be stored is looked at.
    /\ \/ asks = Asks /\ stored = {f \in Finds : f.trace \in Settled}
       \/ asks = 0 /\ stored \in SUBSET Finds
    /\ flags = {} /\ watch = {}
    /\ shared = [k \in Keys |-> {}] /\ owed = [k \in Keys |-> {}]
    /\ rows = [c \in Cases |-> <<>>]
    /\ catalog = [c \in Cases |-> NoGraph] /\ whole = [c \in Cases |-> NoGraph]
    /\ run = [o \in Officers |-> NoRun]
    /\ mishaps = 0

At(o, pc) == run[o].pc = pc
Others(o, c, pcs) == {p \in Officers \ {o} : run[p].case = c /\ run[p].pc \in pcs}

\* A call of the analysis fails: the request ends with an error.
Strike == mishaps < MaxMishaps /\ mishaps' = mishaps + 1
Fails(o) == run' = [run EXCEPT ![o] = [NoRun EXCEPT !.struck = TRUE, !.failed = TRUE]]

-----------------------------------------------------------------------------
\* A trace stores its next hop.
Store ==
    /\ asks > 0 \/ \E o \in Officers : ~At(o, "idle")
    /\ \E f \in Finds \ stored :
          /\ f.trace \in Running
          /\ \A g \in Finds : g.trace = f.trace /\ g.nth < f.nth => g \in stored
          /\ stored' = stored \cup {f}
    /\ UNCHANGED <<flags, shared, watch, rows, catalog, run, asks, mishaps, owed, whole>>

\* An officer asks for the analysis of case c; one without hops is answered at once.
Begin(o, c) ==
    /\ asks > 0 /\ At(o, "idle")
    /\ asks' = asks - 1
    /\ LET beside == {p \in Officers \ {o} : run[p].case = c /\ ~At(p, "idle")}
           mine == [NoRun EXCEPT !.pc = "touch", !.case = c, !.seen = Hops(c), !.met = beside # {}]
       IN  run' = [p \in Officers |->
                     IF p = o THEN IF Hops(c) = {} THEN NoRun
                                   ELSE mine
                     ELSE IF p \in beside /\ Hops(c) # {} THEN [run[p] EXCEPT !.met = TRUE]
                     ELSE run[p]]
    /\ UNCHANGED <<stored, flags, shared, watch, rows, catalog, mishaps, owed, whole>>

\* The hops of all cases that touch its addresses.
ReadTouches(o) ==
    /\ At(o, "touch")
    /\ LET beside == {p \in Officers \ {o} : At(p, "share")}
       IN  run' = [p \in Officers |->
                     IF p = o THEN [run[o] EXCEPT !.pc = "share", !.todo = Candidates(run[o].seen),
                                                  !.crossed = beside # {}]
                     ELSE IF p \in beside THEN [run[p] EXCEPT !.crossed = TRUE]
                     ELSE run[p]]
    /\ UNCHANGED <<tables, catalog, asks, mishaps, owed, whole>>

\* persistSharedMuleFlags writes the candidates one by one, in the order of the answer.
Share(o) ==
    /\ At(o, "share")
    /\ \/ /\ run[o].todo = <<>>
          /\ run' = [run EXCEPT ![o].pc = "flag", ![o].crossed = FALSE]
          /\ UNCHANGED <<shared, owed>>
       \/ \E k \in DOMAIN run[o].todo :
             /\ shared' = [shared EXCEPT ![k] = run[o].todo[k]]
             /\ owed' = IF run[o].crossed THEN owed ELSE [owed EXCEPT ![k] = @ \cup run[o].todo[k]]
             /\ run' = [run EXCEPT ![o].todo = [l \in DOMAIN @ \ {k} |-> @[l]]]
    /\ UNCHANGED <<stored, flags, watch, rows, catalog, asks, mishaps, whole>>

\* persistMuleFlags: the rows that exist are overwritten, none is ever removed.
Flag(o) ==
    /\ At(o, "flag")
    /\ LET fired == Fires(InOrder(run[o].seen))
       IN  \/ /\ flags' = flags \cup fired
              /\ run' = [run EXCEPT ![o].pc = "watch"]
              /\ UNCHANGED mishaps
           \/ \* one of the upserts fails
              /\ Strike /\ Fails(o)
              /\ \E written \in (SUBSET fired) \ {fired} : flags' = flags \cup written
    /\ UNCHANGED <<stored, shared, watch, rows, catalog, asks, owed, whole>>

\* Every flagged address joins the watchlist of the case; an upsert that fails is logged.
Watch(o) ==
    /\ At(o, "watch")
    /\ LET flagged == {<<run[o].case, fire[1]>> : fire \in Fires(InOrder(run[o].seen))}
       IN  \/ watch' = watch \cup flagged /\ UNCHANGED mishaps
           \/ Strike /\ \E added \in (SUBSET flagged) \ {flagged} : watch' = watch \cup added
    /\ run' = [run EXCEPT ![o].pc = "drop"]
    /\ UNCHANGED <<stored, flags, shared, rows, catalog, asks, owed, whole>>

-----------------------------------------------------------------------------
\* Two runs between Drop and Tidy use the same name.
Clash(o) == Others(o, run[o].case, {"project", "stream", "tidy"})
InProjection(o) ==
    [p \in Officers |->
       IF p = o THEN [run[o] EXCEPT !.pc = "project", !.clashed = Clash(o) # {}]
       ELSE IF p \in Clash(o) THEN [run[p] EXCEPT !.clashed = TRUE] ELSE run[p]]

\* Variant: an old projection is not dropped first.
DropNothing(o) ==
    /\ At(o, "drop")
    /\ run' = InProjection(o)
    /\ UNCHANGED <<tables, catalog, asks, mishaps, owed, whole>>

\* dropGraph before the projection; a failure is swallowed.
Drop(o) ==
    /\ At(o, "drop")
    /\ \/ /\ catalog' = [catalog EXCEPT ![run[o].case] = NoGraph]
          /\ run' = InProjection(o)
          /\ UNCHANGED mishaps
       \/ /\ Strike
          /\ run' = [InProjection(o) EXCEPT ![o].struck = TRUE]
          /\ UNCHANGED catalog
    /\ UNCHANGED <<tables, asks, owed, whole>>

\* gds.graph.project: refused when the name is taken. It is never empty (gds.ts:50): Begin ends
\* an analysis without hops, and the relations of those it has read stay.
Project(o) ==
    /\ At(o, "project")
    /\ IF catalog[run[o].case] = NoGraph
       THEN /\ catalog' = [catalog EXCEPT ![run[o].case] = Projected({f.tx : f \in run[o].seen})]
            /\ run' = [run EXCEPT ![o].pc = "stream", ![o].left = 4]
       ELSE /\ run' = [run EXCEPT ![o].pc = "tidy", ![o].failed = TRUE]
            /\ UNCHANGED catalog
    /\ UNCHANGED <<tables, asks, mishaps, owed, whole>>

\* Components, communities, degrees and betweenness are streamed in turn from whatever
\* is projected under the name; each fails when nothing is. Of the answers only the
\* components are kept here.
Stream(o) ==
    /\ At(o, "stream")
    /\ LET graph == catalog[run[o].case]
           on == [run[o] EXCEPT !.left = @ - 1, !.pc = IF run[o].left = 1 THEN "tidy" ELSE "stream"]
       IN  run' = [run EXCEPT ![o] =
                     IF graph = NoGraph THEN [@ EXCEPT !.pc = "tidy", !.left = 0, !.failed = TRUE]
                     ELSE IF run[o].left = 4 THEN [on EXCEPT !.seen = graph, !.group = Groups(graph)]
                     ELSE on]
    /\ UNCHANGED <<tables, catalog, asks, mishaps, owed, whole>>

\* The projection is dropped whatever happened; a failure to drop it is swallowed.
Tidy(o) ==
    /\ At(o, "tidy")
    /\ \/ catalog' = [catalog EXCEPT ![run[o].case] = NoGraph] /\ UNCHANGED mishaps
       \/ Strike /\ UNCHANGED catalog
    /\ run' = [run EXCEPT ![o] =
                  IF @.failed
                  THEN [NoRun EXCEPT !.failed = TRUE, !.struck = run[o].struck,
                                     !.clashed = run[o].clashed]
                  ELSE [@ EXCEPT !.pc = "rows"]]
    /\ UNCHANGED <<tables, asks, owed, whole>>

Put(table, k, group) == [l \in DOMAIN table \cup {k} |-> IF l = k THEN group ELSE table[l]]
PutNew(table, k, group) == IF k \in DOMAIN table THEN table ELSE Put(table, k, group)

\* Variant: a row that exists is left as it is.
UpsertOnce(o) ==
    /\ At(o, "rows")
    /\ \E k \in DOMAIN run[o].group :
          /\ \A l \in DOMAIN run[o].group : Spot[k] <= Spot[l]
          /\ rows' = [rows EXCEPT ![run[o].case] = PutNew(@, k, run[o].group[k])]
          /\ run' = [run EXCEPT ![o].group = [l \in DOMAIN @ \ {k} |-> @[l]]]
    /\ whole' = [whole EXCEPT ![run[o].case] = NoGraph]
    /\ UNCHANGED <<stored, flags, shared, watch, catalog, asks, mishaps, owed>>

\* The community rows are written one by one, in the order of the nodes.
Upsert(o) ==
    /\ At(o, "rows")
    /\ \E k \in DOMAIN run[o].group :
          /\ \A l \in DOMAIN run[o].group : Spot[k] <= Spot[l]
          /\ rows' = [rows EXCEPT ![run[o].case] = Put(@, k, run[o].group[k])]
          /\ run' = [run EXCEPT ![o].group = [l \in DOMAIN @ \ {k} |-> @[l]]]
    /\ whole' = [whole EXCEPT ![run[o].case] = NoGraph]
    /\ UNCHANGED <<stored, flags, shared, watch, catalog, asks, mishaps, owed>>

Answer(o) ==
    /\ At(o, "rows") /\ DOMAIN run[o].group = {}
    /\ run' = [run EXCEPT ![o] = NoRun]
    /\ whole' = IF run[o].met THEN whole ELSE [whole EXCEPT ![run[o].case] = run[o].seen]
    /\ UNCHANGED <<tables, catalog, asks, mishaps, owed>>

-----------------------------------------------------------------------------
\* A database call fails and the request with it; a projection is dropped first.
CallFails(o) ==
    /\ run[o].pc \in {"touch", "share", "project", "stream", "rows"}
    /\ Strike
    /\ IF run[o].pc \in {"project", "stream"}
       THEN run' = [run EXCEPT ![o].pc = "tidy", ![o].struck = TRUE, ![o].failed = TRUE]
       ELSE Fails(o)
    /\ UNCHANGED <<tables, catalog, asks, owed, whole>>

\* The API dies: the analyses end, the projections stay in the graph database.
ApiDies ==
    /\ \E o \in Officers : ~At(o, "idle")
    /\ Strike
    /\ run' = [o \in Officers |-> NoRun]
    /\ UNCHANGED <<tables, catalog, asks, owed, whole>>

Step(o) ==
    \/ ReadTouches(o) \/ Share(o) \/ Flag(o) \/ Watch(o)
    \/ Drop(o) \/ Project(o) \/ Stream(o) \/ Tidy(o) \/ Upsert(o) \/ Answer(o)
    \/ CallFails(o)

AnalysisNext ==
    \/ Store \/ ApiDies
    \/ \E o \in Officers : Step(o) \/ \E c \in Asked : Begin(o, c)

AnalysisSpec == AnalysisInit /\ [][AnalysisNext]_analysisVars

-----------------------------------------------------------------------------
\* A wallet is listed as shared only when at least two cases have hops of it, and only for
\* cases that do; a case that an analysis found is never lost from the list again, unless
\* that analysis wrote while another one did (findSharedMules, persistSharedMuleFlags).
SharedFlagsHold ==
    \A k \in Keys :
        /\ shared[k] # {} =>
              /\ Cardinality(shared[k]) >= 2
              /\ \A c \in shared[k] : k \in KeysOf(Hops(c))
        /\ owed[k] \subseteq shared[k]

\* The addresses that hops connect with k, in whatever direction they lead.
Linkable(graph, k) ==
    LET Ring[n \in 0..Cardinality(graph)] ==
            IF n = 0 THEN {k}
            ELSE LET near == Ring[n - 1]
                 IN  near \cup UNION {Ends(f) : f \in {g \in graph : Ends(g) \cap near # {}}}
    IN  Ring[Cardinality(graph)]

\* After an analysis of a case that no other analysis of it disturbed, two addresses are in
\* the same group of the stored table exactly when transfers connect them, although
\* component ids are used again for other components at every run and old rows are only
\* overwritten (analyzeCaseGraph, addressCommunity.upsert).
GroupsAreRings ==
    \A c \in Cases : whole[c] # NoGraph =>
        /\ DOMAIN rows[c] = KeysOf(whole[c])
        /\ \A k \in DOMAIN rows[c] :
              {l \in DOMAIN rows[c] : rows[c][l] = rows[c][k]} = Linkable(whole[c], k)

\* `Safe to rerun`: whatever earlier runs and crashes left behind, an analysis fails only
\* when a call of its own failed or another analysis of the case used the projection of
\* that name at the same time (gds.ts, dropGraph).
RerunIsSafe ==
    \A o \in Officers : run[o].failed => run[o].struck \/ run[o].clashed

-----------------------------------------------------------------------------
Addresses == {k[2] : k \in Keys}
EdgesOf(t) == {<<f.from, f.to>> : f \in {g \in stored : g.trace = t}}

\* The addresses that some walk of at most n edges leads to; no shortest walk is longer
\* than there are edges.
ShortestWalks(edges, source) ==
    LET far == Cardinality(edges)
        Ball[n \in 0..far] ==
            IF n = 0 THEN {source}
            ELSE LET near == Ball[n - 1] IN near \cup {e[2] : e \in {d \in edges : d[1] \in near}}
    IN  [a \in Ball[far] |-> CHOOSE n \in 0..far : a \in Ball[n] /\ (n = 0 \/ a \notin Ball[n - 1])]

\* Where the n-th hand-off from an address leads to, if it goes that far.
HandOffs(peels, start) ==
    LET after[n \in 0..Valve] ==
            IF n = 0 THEN {start}
            ELSE {PeelOut(peels[a]) : a \in after[n - 1] \cap DOMAIN peels}
    IN  after

\* The addresses on a walk of at least MinChain hand-offs.
LongWalk(peels, start) ==
    LET after == HandOffs(peels, start)
    IN  IF after[MinChain] = {} THEN {} ELSE UNION {after[n] : n \in 0..Valve}

OnLongWalks(peels) == UNION {LongWalk(peels, s) : s \in DOMAIN peels}

\* What follows depends on the hops alone, so it is looked at before any analysis, for every
\* set of hops that may be stored.
Unused == \A o \in Officers : run[o] = NoRun

\* Breadth-first depths are the lengths of the shortest walks, cycles and joins included, and
\* the nearest target is the nearest (bfsDepths, hopsToNearest).
DepthsAreDistances == Unused =>
    \A t \in Traces :
        LET walks == ShortestWalks(EdgesOf(t), SeedOf[t])
            d(goal) == HopsToNearest(EdgesOf(t), SeedOf[t], {goal})
        IN  /\ bfsDepths(EdgesOf(t), SeedOf[t]) = walks
            /\ \A goal \in Addresses :
                  d(goal) = IF goal \in DOMAIN walks THEN walks[goal] ELSE Never

\* The sliding window, whose left end only moves on, finds the busiest hour of an address among
\* its hops in and its hops out (burstTxPerHour).
HourIsBusiest == Unused =>
    \A c \in Cases, k \in Keys :
        LET near == {s \in ToSet(Sides) : s.of \in Hops(c) /\ Holder(s) = k}
            hour(h) == Cardinality({f \in near : f.at - h.at \in 0..Hour})
            most == Burst(Among(Sides, near))
        IN  IF near = {} THEN most = 0
            ELSE (\E h \in near : hour(h) = most) /\ \A h \in near : hour(h) <= most

\* Peel chains are walks of enough hand-offs and report every address that starts one, although
\* starts that were passed before are skipped; they report all of these walks unless so many
\* addresses peel that the valve cuts off more than cycles (detectBtcPeelChain).
PeelsAreWalks == Unused =>
    \A t \in Traces :
        LET hops == InOrder({f \in stored : f.trace = t /\ f.chain = "BTC"})
            peels == Peels(hops)
            reported == PeelChains(hops)
        IN  /\ reported \subseteq OnLongWalks(peels)
            /\ \A s \in DOMAIN peels : LongWalk(peels, s) # {} => s \in reported
            /\ Cardinality(DOMAIN peels) <= Valve => reported = OnLongWalks(peels)

\* The measures the rules and features rest on are what they are named for.
MeasuresAgree == DepthsAreDistances /\ HourIsBusiest /\ PeelsAreWalks
===============================================================================
