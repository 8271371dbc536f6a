------------------------------ MODULE HeaviestPath ------------------------------
(***************************************************************************)
(* apps/web/src/features/graph/model.ts, heaviestPath: the path of the     *)
(* fund-flow graph on screen along which most money moved. Cycles are      *)
(* broken by a depth-first walk, then the heaviest path of what is left is *)
(* found with a table of the best continuation of every address.           *)
(***************************************************************************)
EXTENDS Naturals, Sequences, FiniteSets, SequencesExt

CONSTANTS
    Hops,
    NoHop,
    From, To,     \* the addresses a hop leads from and to
    Usd,          \* its value; Unpriced when no price is known
    Unpriced,
    Addresses,    \* the addresses in the order of their ids, a sequence
    Rank          \* the order of the ids of hops

ASSUME HopsAssumption ==
    /\ IsFiniteSet(Hops) /\ NoHop \notin Hops
    /\ From \in [Hops -> ToSet(Addresses)] /\ To \in [Hops -> ToSet(Addresses)]
    /\ Unpriced \notin Nat /\ Usd \in [Hops -> Nat \cup {Unpriced}]
    /\ Rank \in [Hops -> Nat] /\ \A e, f \in Hops : Rank[e] = Rank[f] => e = f

Weight(e) == IF Usd[e] = Unpriced THEN 0 ELSE Usd[e]

\* A hop that was loaded has the id of its row, a live one an id that sorts after all rows.
Before(e, f, rows) ==
    IF (e \in rows) = (f \in rows) THEN Rank[e] < Rank[f] ELSE e \in rows

Leaving(n, edges, rows) ==
    SetToSortSeq({e \in edges : From[e] = n}, LAMBDA e, f : Before(e, f, rows))

-----------------------------------------------------------------------------
\* A depth-first walk: the addresses it is in, those it has left, and the edges it has kept.
Walks == [open : SUBSET ToSet(Addresses), done : SUBSET ToSet(Addresses), dag : SUBSET Hops]

\* Variant: edges to any address met before are dropped, not only those that close a cycle.
VisitTree(edges, rows) ==
    LET visit[n \in ToSet(Addresses), walk \in Walks] ==
            LET Follow(w, e) ==
                    IF To[e] \in w.open \cup w.done THEN w
                    ELSE visit[To[e], [w EXCEPT !.dag = @ \cup {e}]]
                end == FoldLeft(Follow, [walk EXCEPT !.open = @ \cup {n}], Leaving(n, edges, rows))
            IN  [end EXCEPT !.open = @ \ {n}, !.done = @ \cup {n}]
    IN  visit

\* The depth-first walk from n: an edge back to an address still open closes a cycle.
Visit(edges, rows) ==
    LET visit[n \in ToSet(Addresses), walk \in Walks] ==
            LET Follow(w, e) ==
                    IF To[e] \in w.open THEN w
                    ELSE LET kept == [w EXCEPT !.dag = @ \cup {e}]
                         IN  IF To[e] \in kept.done THEN kept ELSE visit[To[e], kept]
                end == FoldLeft(Follow, [walk EXCEPT !.open = @ \cup {n}], Leaving(n, edges, rows))
            IN  [end EXCEPT !.open = @ \ {n}, !.done = @ \cup {n}]
    IN  visit

Dag(edges, rows) ==
    LET Start(w, n) == IF n \in w.done THEN w ELSE Visit(edges, rows)[n, w]
    IN  FoldLeft(Start, [open |-> {}, done |-> {}, dag |-> {}], Addresses).dag

\* What the best path from an address is worth, and its first edge.
Best(dag, rows) ==
    LET best[n \in ToSet(Addresses)] ==
            LET Better(pick, e) ==
                    LET total == Weight(e) + best[To[e]].total
                    IN  IF pick.edge = NoHop \/ total > pick.total
                        THEN [total |-> total, edge |-> e] ELSE pick
            IN  FoldLeft(Better, [total |-> 0, edge |-> NoHop], Leaving(n, dag, rows))
    IN  best

Trail(best, start) ==
    LET trail[n \in ToSet(Addresses)] ==
            LET first == best[n].edge
            IN  IF first = NoHop THEN <<>> ELSE <<first>> \o trail[To[first]]
    IN  trail[start]

\* heaviestPath of the edges on screen, of which rows were loaded from the server.
Heaviest(edges, rows) ==
    LET best == Best(Dag(edges, rows), rows)
        Richer(n, m) == best[n].total > best[m].total
        starts == SelectSeq(Addresses, LAMBDA n : best[n].edge # NoHop)
    IN  IF starts = <<>> THEN <<>>
        ELSE Trail(best, FoldLeft(LAMBDA m, n : IF Richer(n, m) THEN n ELSE m, Head(starts), starts))

-----------------------------------------------------------------------------
(* The reference: every path that visits no address twice. *)
PathsFrom(start, among) ==
    LET paths[n \in ToSet(Addresses), edges \in SUBSET among] ==
            {<<>>} \cup UNION {
                {<<e>> \o p : p \in paths[To[e], {f \in edges : n \notin {From[f], To[f]}}]} :
                    e \in {f \in edges : From[f] = n /\ To[f] # n}}
    IN  paths[start, among]

Total(path) == FoldLeft(LAMBDA sum, e : sum + Weight(e), 0, path)

Acyclic(edges) == \A e \in edges :
    /\ From[e] # To[e]
    /\ \A p \in PathsFrom(To[e], edges) : p = <<>> \/ To[Last(p)] # From[e]

\* A path of these edges; and where they make no cycle, no path is worth more.
IsHeaviest(path, edges) ==
    /\ path = <<>> => \A e \in edges : From[e] = To[e]
    /\ path # <<>> => path \in PathsFrom(From[Head(path)], edges)
    /\ Acyclic(edges) => \A n \in ToSet(Addresses) :
                            \A p \in PathsFrom(n, edges) : Total(p) <= Total(path)
=============================================================================
