------------------------------- MODULE MuleRules -------------------------------
(***************************************************************************)
(* apps/api/src/mule: the rules that mark an address as a mule candidate   *)
(* and the graph measures beside them, computed from the stored hops of a  *)
(* case. A hop is a record [trace, tx, chain, from, to, value, at]; the    *)
(* operators take sequences of hops in the order of their times, as the    *)
(* query returns them.                                                     *)
(***************************************************************************)
EXTENDS Integers, Sequences, FiniteSets, SequencesExt

CONSTANTS
    Tolerance,               \* passThrough.valueTolerance, in hundredths
    MaxDwell,                \* passThrough.maxDwellMinutes
    MinOutputs, Hour,        \* fanOut.minDistinctOutputs, and the one-hour windows
    MinChain, MaxOutputs,    \* peelChain.minChainLength, maxOutputsPerTx
    Valve,                   \* where a circular peel chain is cut off, 200 in the code
    MaxAge,                  \* freshWallet.maxAgeDays
    CreatedAt,               \* when an address was created, by key; Never when unknown
    Never

ASSUME MuleRulesAssumption ==
    /\ {Tolerance, MaxDwell, MinOutputs, Hour, MinChain, MaxOutputs, MaxAge} \subseteq Nat
    /\ Valve \in Nat /\ Valve >= MinChain /\ Never \notin Nat

\* An address is known by its chain and text.
Sender(h) == <<h.chain, h.from>>
Receiver(h) == <<h.chain, h.to>>
Ends(h) == {Sender(h), Receiver(h)}
Inbound(hops, key) == SelectSeq(hops, LAMBDA h : Receiver(h) = key)
Outbound(hops, key) == SelectSeq(hops, LAMBDA h : Sender(h) = key)
Total(hops) == FoldLeft(LAMBDA sum, h : sum + h.value, 0, hops)

-----------------------------------------------------------------------------
\* Twice the median time between the i-th hop in and the i-th hop out, of those that
\* lie in that order.
DwellTwice(in, out) ==
    LET n == IF Len(in) < Len(out) THEN Len(in) ELSE Len(out)
        gaps == SelectSeq([i \in 1..n |-> out[i].at - in[i].at], LAMBDA d : d >= 0)
        dwells == SortSeq(gaps, <)
        mid == Len(dwells) \div 2
    IN  CASE dwells = <<>> -> Never
          [] Len(dwells) % 2 = 1 -> 2 * dwells[mid + 1]
          [] OTHER -> dwells[mid] + dwells[mid + 1]

PassThrough(in, out) ==
    LET off == Total(out) - Total(in)
        dwell == DwellTwice(in, out)
    IN  /\ in # <<>> /\ out # <<>> /\ Total(in) > 0
        /\ dwell # Never
        /\ 100 * off <= Tolerance * Total(in) /\ -100 * off <= Tolerance * Total(in)
        /\ dwell <= 2 * MaxDwell

FanOut(in, out) ==
    \E h \in ToSet(in) :
        LET followers == {o \in ToSet(out) : o.at > h.at /\ o.at <= h.at + Hour}
        IN  Cardinality({o.to : o \in followers}) >= MinOutputs

\* firstTaintedAtMs is the earliest hop in; hops come in the order of their times.
FreshWallet(in, key) ==
    /\ in # <<>> /\ CreatedAt[key] # Never
    /\ Head(in).at - CreatedAt[key] \in 0..MaxAge

\* The most hops in any hour: a window whose left end follows its right end, the n-th hop.
Burst(hops) ==
    LET window[n \in 0 .. Len(hops)] ==
            IF n = 0 THEN [left |-> 1, most |-> 0]
            ELSE LET w == window[n - 1]
                     fits == {l \in w.left .. n : hops[n].at - hops[l].at <= Hour}
                     left == CHOOSE l \in fits : \A k \in fits : l <= k
                     size == n - left + 1
                 IN  [left |-> left, most |-> IF size > w.most THEN size ELSE w.most]
    IN  window[Len(hops)].most

-----------------------------------------------------------------------------
\* The transactions of one trace that look like a peel have one sender and few outputs;
\* each is named by its first hop.
Group(hops, tx) == SelectSeq(hops, LAMBDA h : h.tx = tx)

IsPeel(group) ==
    /\ Len(group) \in 2..MaxOutputs
    /\ Cardinality({h.from : h \in ToSet(group)}) = 1

PeelTxs(hops) ==
    {i \in DOMAIN hops : LET group == Group(hops, hops[i].tx)
                         IN  IsPeel(group) /\ group[1] = hops[i]}

\* The last peel transaction of an address counts.
Peels(hops) ==
    LET of(a) == {i \in PeelTxs(hops) : hops[i].from = a}
        last(a) == CHOOSE i \in of(a) : \A j \in of(a) : j <= i
    IN  [a \in {hops[i].from : i \in PeelTxs(hops)} |-> Group(hops, hops[last(a)].tx)]

\* Where the larger part goes; of equal parts, the first.
PeelOut(group) ==
    FoldLeft(LAMBDA best, h : IF h.value > best.value THEN h ELSE best, group[1], group).to

\* The hand-offs from an address on, as far as they go and the valve lets them.
Chain(peels, start) ==
    LET chain[n \in 1 .. Valve + 1] ==      \* after n addresses
            IF n = 1 THEN <<start>>
            ELSE LET walked == chain[n - 1]
                 IN  IF Last(walked) \in DOMAIN peels
                     THEN Append(walked, PeelOut(peels[Last(walked)])) ELSE walked
    IN  chain[Valve + 1]

\* The addresses of the peel chains of a trace. A start that was passed is skipped.
PeelChains(hops) ==
    LET peels == Peels(hops)
        starts == PeelTxs(hops)
        visited[n \in 0 .. Len(hops)] ==
            IF n = 0 THEN {}
            ELSE LET met == visited[n - 1]
                     chain == Chain(peels, hops[n].from)
                 IN  IF n \in starts /\ hops[n].from \notin met /\ Len(chain) - 1 >= MinChain
                     THEN met \cup ToSet(chain) ELSE met
    IN  visited[Len(hops)]

-----------------------------------------------------------------------------
\* Breadth-first depths. The order in which the neighbours of an address are queued
\* is left to SetToSeq: it does not change their depths.
Unmet(edges, cur, depth) == {e[2] : e \in {f \in edges : f[1] = cur}} \ DOMAIN depth

Deeper(depth, new, d) ==
    [a \in DOMAIN depth \cup new |-> IF a \in DOMAIN depth THEN depth[a] ELSE d]

\* Variant: the newest address is taken instead of the oldest.
BfsStack(edges, bfs) ==
    LET new == Unmet(edges, Head(bfs.queue), bfs.depth)
    IN  [queue |-> SetToSeq(new) \o Tail(bfs.queue),
         depth |-> Deeper(bfs.depth, new, bfs.depth[Head(bfs.queue)] + 1)]

\* One turn of the loop: the oldest address of the queue.
Bfs(edges, bfs) ==
    LET new == Unmet(edges, Head(bfs.queue), bfs.depth)
    IN  [queue |-> Tail(bfs.queue) \o SetToSeq(new),
         depth |-> Deeper(bfs.depth, new, bfs.depth[Head(bfs.queue)] + 1)]

\* No address is queued twice, so there are no more turns than edges after the first.
bfsDepths(edges, source) ==
    LET after[n \in 0 .. Cardinality(edges) + 1] ==
            IF n = 0 THEN [queue |-> <<source>>, depth |-> [a \in {source} |-> 0]]
            ELSE LET bfs == after[n - 1]
                 IN  IF bfs.queue = <<>> THEN bfs ELSE Bfs(edges, bfs)
    IN  after[Cardinality(edges) + 1].depth

HopsToNearest(edges, addr, targets) ==
    LET depths == bfsDepths(edges, addr)
        found == {depths[t] : t \in targets \cap DOMAIN depths}
    IN  CASE addr \in targets -> 0
          [] addr \notin targets /\ found = {} -> Never
          [] OTHER -> CHOOSE d \in found : \A e \in found : d <= e

-----------------------------------------------------------------------------
\* What the rules say of a case, as pairs of an address and a rule. The balances the
\* TRX dust rule asks for are never passed, so it does not fire.
Fires(hops) ==
    LET traces == {h.trace : h \in ToSet(hops)}
        bitcoin(t) == SelectSeq(hops, LAMBDA h : h.trace = t /\ h.chain = "BTC")
        in(key) == Inbound(hops, key)
        out(key) == Outbound(hops, key)
        keys == UNION {Ends(h) : h \in ToSet(hops)}
    IN  {<<key, "PASS_THROUGH">> : key \in {k \in keys : PassThrough(in(k), out(k))}}
        \cup {<<key, "FAN_OUT">> : key \in {k \in keys : FanOut(in(k), out(k))}}
        \cup {<<key, "FRESH_WALLET">> : key \in {k \in keys : FreshWallet(in(k), k)}}
        \cup {<<<<"BTC", a>>, "PEEL_CHAIN">> : a \in UNION {PeelChains(bitcoin(t)) : t \in traces}}
===============================================================================
