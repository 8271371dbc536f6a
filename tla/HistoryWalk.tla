------------------------------ MODULE HistoryWalk ------------------------------
(***************************************************************************)
(* How the transfers out of an address are read (workers/adapters): a walk *)
(* over pages (paginate.ts), each page from Redis or from one call of the  *)
(* provider guard that concurrent walks share (cached), put together by    *)
(* the adapter of the chain (evm.ts, btc.ts) from whichever provider       *)
(* answered. The process either makes loose calls through an outage, as in *)
(* ProviderGuard, or walks an address with providers that refuse calls now *)
(* and then; the history itself does not change meanwhile.                 *)
(***************************************************************************)
EXTENDS ProviderGuard, Sequences, FiniteSets

CONSTANTS
    Adapters,    \* what an address may be read with; "btc" is the one of btc.ts
    Pages,       \* Pages[a][p][s]: the pages in which provider p lists stage s
                 \* (token, native, internal) of a, sets of [tx, to, amount, log]
    Explorers,   \* <<a, p>> when p is paged by number and reports no log index
    Window,      \* pages an explorer lists of a query (MAX_WINDOW / PAGE)
    MaxPages,    \* the ceilings of collectTransfers
    MaxItems,
    MaxRefused   \* bound: how often a provider refuses a page

Transfer == [tx : Nat, to : Nat, amount : Nat, log : Nat]
Listed(a, p, s) == UNION {Pages[a][p][s][n] : n \in DOMAIN Pages[a][p][s]}

\* Two providers list the same finite history, each transfer on one page, and the log tells
\* the transfers of a transaction apart. Every stage has a page, perhaps an empty one.
\* A transaction has at most one native transfer, which logs nothing: Meganode gives it no
\* logIndex, or megaStage would number it among the internal ones (evm.ts:219). Esplora and its
\* mirror list alike, since the cursor of one is good for the other.
ASSUME HistoryAssumption ==
    /\ N = 2 /\ Window \in Nat \ {0} /\ MaxPages \in Nat \ {0} /\ MaxItems \in Nat \ {0}
    /\ MaxRefused \in Nat
    /\ \A a \in Adapters :
          /\ Pages[a] \in [1 .. 2 -> Seq(Seq(SUBSET Transfer))]
          /\ Pages[a][1] # <<>> /\ Len(Pages[a][1]) = Len(Pages[a][2])
          /\ \A s \in DOMAIN Pages[a][1] :
                /\ Listed(a, 1, s) = Listed(a, 2, s)
                /\ IsFiniteSet(Listed(a, 1, s))
                /\ \A t, u \in Listed(a, 1, s) : t.tx = u.tx /\ t.log = u.log => t = u
                /\ s = 2 => \A t \in Listed(a, 1, s) : t.log = 0
                /\ \A p \in 1 .. 2 :
                      /\ Pages[a][p][s] # <<>>
                      /\ \A m, n \in DOMAIN Pages[a][p][s] :
                            m # n => Pages[a][p][s][m] \cap Pages[a][p][s][n] = {}
    /\ "btc" \in Adapters => /\ Pages["btc"][1] = Pages["btc"][2]
                             /\ \A p \in 1 .. 2 : <<"btc", p>> \notin Explorers

VARIABLES
    adapter,   \* of the address that is read; "none" when calls are loose
    cache,     \* the pages kept in Redis: which provider answered a cursor
    walk,      \* walk[c]: the collectTransfers that makes the calls of c
    refused    \* pages refused so far

reading == <<adapter, cache, walk, refused>>
readVars == <<vars, reading>>

Origin == [stage |-> 1, page |-> 1, by |-> 0]
End == [stage |-> 0, page |-> 0, by |-> 0]

\* Observations: items say which transfer they stand for, answered which provider
\* answered which stage; "looped" and "done" are one outcome to the caller.
Fresh == [pc |-> "idle", cursor |-> Origin, met |-> {}, items |-> {}, pages |-> 0,
          by |-> 0, answered |-> {}]

ReadsInit ==
    /\ breaker = [p \in Providers |-> Closed]
    /\ call = [c \in Calls |-> Idle]
    /\ spent = [p \in Providers |-> FALSE]
    /\ adapter \in Adapters \cup {"none"}
    /\ healthy = (adapter # "none")
    /\ cache = <<>>
    /\ walk = [c \in Calls |-> Fresh]
    /\ refused = 0

-----------------------------------------------------------------------------
(* One page: getTransfers of the adapter *)

\* Variant: the position in the cursor is sent to whichever provider answers.
PageForAnyone(cur, p) ==
    IF cur.page \in DOMAIN Pages[adapter][p][cur.stage] THEN cur.page ELSE 1

\* A cursor is only valid for the provider that issued it; on fail-over that stage restarts.
PageOf(cur, p) == IF cur.by \in {0, p} THEN cur.page ELSE 1

\* The explorer lists another page, within its window.
More(cur, p) ==
    /\ PageOf(cur, p) < Len(Pages[adapter][p][cur.stage])
    /\ <<adapter, p>> \in Explorers => PageOf(cur, p) < Window

\* A cursor of btc.ts is a transaction, which every provider understands.
Issuer(p) == IF adapter = "btc" THEN 0 ELSE p

\* next: the following page of the stage, else the next stage.
Following(cur, p) ==
    IF More(cur, p)
    THEN [stage |-> cur.stage, page |-> PageOf(cur, p) + 1, by |-> Issuer(p)]
    ELSE IF cur.stage < Len(Pages[adapter][p])
    THEN [stage |-> cur.stage + 1, page |-> 1, by |-> 0]
    ELSE End

\* assignIdx: the rank among the transfers of the transaction on that page (equal ones in
\* some order, say that of the log).
Before(u, t) == \/ u.to < t.to
                \/ u.to = t.to /\ u.amount < t.amount
                \/ u.to = t.to /\ u.amount = t.amount /\ u.log < t.log
Rank(page, t) == Cardinality({u \in page : u.tx = t.tx /\ Before(u, t)})

\* The idx of t on a page of p.
Idx(p, page, t) == IF <<adapter, p>> \in Explorers THEN Rank(page, t) ELSE t.log

Items(cur, p) ==
    LET page == Pages[adapter][p][cur.stage][PageOf(cur, p)]
    IN  {[stage |-> cur.stage, of |-> t, idx |-> Idx(p, page, t)] : t \in page}

-----------------------------------------------------------------------------
(* collectTransfers *)

\* idx has a band for every stage: 0 for native transfers, from 1 on for tokens, and from a
\* million on for internal ones.
SameKey(i, j) == /\ i.stage = j.stage /\ i.idx = j.idx
                 /\ i.of.tx = j.of.tx /\ i.of.to = j.of.to

\* The walk w after the page at its cursor, answered by p.
Received(w, p) ==
    LET next == Following(w.cursor, p)
        new  == {i \in Items(w.cursor, p) : \A j \in w.items : ~SameKey(i, j)}
        pc   == IF next = End THEN "done"
                ELSE IF next \in w.met \cup {w.cursor} THEN "looped"
                ELSE IF \/ w.pages + 1 >= MaxPages
                        \/ Cardinality(w.items \cup new) >= MaxItems THEN "truncated"
                ELSE "lookup"
    IN  [pc |-> pc, cursor |-> IF pc = "lookup" THEN next ELSE w.cursor,
         met |-> w.met \cup {next}, items |-> w.items \cup new, pages |-> w.pages + 1,
         by |-> 0, answered |-> w.answered \cup {<<w.cursor.stage, p>>}]

\* An expansion of the trace asks for the history, and so does its retry or a later trace.
Begin(c) ==
    /\ adapter # "none"
    /\ walk[c].pc \in {"idle", "failed", "done", "looped", "truncated"}
    /\ walk' = [walk EXCEPT ![c] = [Fresh EXCEPT !.pc = "lookup"]]
    /\ UNCHANGED <<vars, adapter, cache, refused>>

\* cached: Redis has the page ...
Hit(c) ==
    /\ walk[c].pc = "lookup"
    /\ walk[c].cursor \in DOMAIN cache
    /\ walk' = [walk EXCEPT ![c] = Received(@, cache[@.cursor])]
    /\ UNCHANGED <<vars, adapter, cache, refused>>

\* ... or not.
Miss(c) ==
    /\ walk[c].pc = "lookup"
    /\ walk[c].cursor \notin DOMAIN cache
    /\ walk' = [walk EXCEPT ![c].pc = "missed"]
    /\ UNCHANGED <<vars, adapter, cache, refused>>

\* inflight
Computing(cur) == {d \in Calls : walk[d].pc \in {"asking", "storing"} /\ walk[d].cursor = cur}

Join(c) ==
    /\ walk[c].pc = "missed"
    /\ Computing(walk[c].cursor) # {}
    /\ walk' = [walk EXCEPT ![c].pc = "joined"]
    /\ UNCHANGED <<vars, adapter, cache, refused>>

Compute(c) ==
    /\ walk[c].pc = "missed"
    /\ Computing(walk[c].cursor) = {}
    /\ Start(c)
    /\ walk' = [walk EXCEPT ![c].pc = "asking"]
    /\ UNCHANGED <<adapter, cache, refused>>

\* The call goes on. A hard error stands for every way a provider is passed over (its
\* circuit is open, its budget spent, its retries used up), which loose calls go through.
Try(c) ==
    /\ walk[c].pc = "asking"
    /\ \/ RunFailsHard(c) /\ refused < MaxRefused /\ refused' = refused + 1
       \/ WithinBudget(c) /\ UNCHANGED refused
    /\ UNCHANGED <<adapter, cache, walk>>

Answer(c) ==
    /\ walk[c].pc = "asking"
    /\ RunSucceeds(c)
    /\ walk' = [walk EXCEPT ![c].pc = "storing", ![c].by = call[c].at]
    /\ UNCHANGED <<adapter, cache, refused>>

\* The walks that wait for what c computes.
Sharing(c) == {d \in Calls : /\ d = c \/ walk[d].pc = "joined"
                             /\ walk[d].cursor = walk[c].cursor}

\* Every provider refused: all of them fail, and nothing is kept.
Refuse(c) ==
    /\ walk[c].pc = "asking"
    /\ call[c].pc = "idle"
    /\ walk' = [d \in Calls |-> IF d \in Sharing(c) THEN [walk[d] EXCEPT !.pc = "failed"]
                                ELSE walk[d]]
    /\ UNCHANGED <<vars, adapter, cache, refused>>

\* The page is kept for ever (a page Redis cannot take, or return, is not kept) and
\* handed to all.
Store(c) ==
    /\ walk[c].pc = "storing"
    /\ \/ cache' = [k \in DOMAIN cache \cup {walk[c].cursor} |->
                      IF k = walk[c].cursor THEN walk[c].by ELSE cache[k]]
       \/ UNCHANGED cache
    /\ walk' = [d \in Calls |-> IF d \in Sharing(c) THEN Received(walk[d], walk[c].by)
                                ELSE walk[d]]
    /\ UNCHANGED <<vars, adapter, refused>>

-----------------------------------------------------------------------------
\* Calls that are no part of a walk.
Loose(action) == adapter = "none" /\ action /\ UNCHANGED reading

Read(c) == Begin(c) \/ Hit(c) \/ Miss(c) \/ Join(c) \/ Compute(c) \/ Try(c)
             \/ Answer(c) \/ Refuse(c) \/ Store(c)

ReadsNext ==
    \/ \E c \in Calls : Read(c) \/ Loose(Start(c)) \/ Loose(Step(c))
    \/ \E p \in Providers : Loose(Cool(p)) \/ Loose(Spend(p))
    \/ Loose(Recover)

ReadsSpec == ReadsInit /\ [][ReadsNext]_readVars

\* Awaits are answered, time passes, and the workers of loose calls keep asking.
FairReads == /\ ReadsSpec
             /\ \A c \in Calls : /\ WF_readVars(Read(c))
                                 /\ WF_readVars(Loose(Start(c)))
                                 /\ WF_readVars(Loose(Step(c)))
             /\ \A p \in Providers : WF_readVars(Loose(Cool(p)))

-----------------------------------------------------------------------------
Stages == IF adapter = "none" THEN {} ELSE DOMAIN Pages[adapter][1]

\* What both providers list of stage s within the window of an explorer.
Reachable(s) ==
    {t \in Listed(adapter, 1, s) : \A p \in Providers : <<adapter, p>> \in Explorers =>
          \E n \in 1 .. Window : n <= Len(Pages[adapter][p][s]) /\ t \in Pages[adapter][p][s][n]}

\* Another transfer of the transaction goes to the same address ...
Twins(s, t) == {u \in Listed(adapter, 1, s) : u # t /\ u.tx = t.tx /\ u.to = t.to}

\* ... and the page of an explorer ends between the two.
Split(s, t) == \E p \in Providers, u \in Twins(s, t) :
    /\ <<adapter, p>> \in Explorers
    /\ \E n \in DOMAIN Pages[adapter][p][s] :
          t \in Pages[adapter][p][s][n] /\ u \notin Pages[adapter][p][s][n]

\* Every provider gives t the same number.
NumberedAlike(s, t) == \A p, q \in Providers :
    \A m \in DOMAIN Pages[adapter][p][s], n \in DOMAIN Pages[adapter][q][s] :
       t \in Pages[adapter][p][s][m] \cap Pages[adapter][q][s][n]
          => Idx(p, Pages[adapter][p][s][m], t) = Idx(q, Pages[adapter][q][s][n], t)

\* One provider answered all of the stage.
Steady(w, s) == ~({<<s, 1>>, <<s, 2>>} \subseteq w.answered)

Times(w, s, t) == Cardinality({i \in w.items : i.stage = s /\ i.of = t})

\* What a walk hands to the trace is the history, whatever refusals, cached pages and
\* shared calls it was put together from:
\*  - every transfer is in it exactly once when one provider answered the stage;
\*  - after a fail-over none is missing, and none is there twice where both providers
\*    number alike ("De-duplication also absorbs the overlap", paginate.ts:39);
\*  - it is cut short ("provider looped") only when a stage changed its provider.
\* Left out are transfers past the window of an explorer, and twins that a page or a
\* change of numbering tears apart.
HistoryIsWhole == \A c \in Calls : LET w == walk[c] IN
    /\ w.pc = "looped" => \E s \in Stages : ~Steady(w, s)
    /\ \A s \in Stages : \A t \in Reachable(s) :
          /\ w.pc = "done" /\ Twins(s, t) = {} => Times(w, s, t) >= 1
          /\ w.pc = "done" /\ Steady(w, s) /\ ~Split(s, t) => Times(w, s, t) = 1
          /\ NumberedAlike(s, t) => Times(w, s, t) <= 1

\* "in-process de-duplication of concurrent identical requests" (providerGuard.ts:278): a
\* page is never asked for by two walks at once, and a walk that waits for a page waits
\* for somebody who asks.
SingleFlight == \A c \in Calls :
    /\ c \in Computing(walk[c].cursor) => Computing(walk[c].cursor) = {c}
    /\ walk[c].pc = "joined" => Computing(walk[c].cursor) # {}
=============================================================================
