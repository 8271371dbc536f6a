--------------------------------- MODULE Intake ---------------------------------
(***************************************************************************)
(* apps/api/src/intake: complaints come in by file and by the NCRP feed,   *)
(* are told apart by acknowledgement number, get the chains of their       *)
(* wallets from the block explorers, join the case that already has one of *)
(* those wallets or found a new one, and leave trace jobs on the queue.    *)
(* Imports interleave at their awaits; only the unique acknowledgement     *)
(* number is guarded by the database. A case is named by the complaint     *)
(* that founded it.                                                        *)
(***************************************************************************)
EXTENDS Naturals, FiniteSets, Sequences

CONSTANTS
    Acks,        \* acknowledgement numbers
    NoCase,
    Wallets,
    WalletsOf,   \* WalletsOf[a]: the addresses complaint a names
    Network,     \* Network[a]: the network it states: TRC20, ERC20, BEP20 or none
    Family,      \* Family[w]: TRON, BTC or EVM, by the format of the address
    Evm,         \* FAMILY_CHAINS.EVM: chains that share the format of addresses
    Active,      \* Active[w]: EVM chains on which w has any activity
    Imports,     \* what imports: uploads, and the poller of the NCRP feed
    Feed,        \* the poller
    Files,       \* Files[i]: what i may import; a row that is NoCase is invalid
    MaxTime,     \* ticks of the clock (bound)
    MaxFaults    \* crashes, failed transactions and Redis outages (bound)

Chains == Evm \cup {"TRON", "BTC"}
Rows == 1 .. 3   \* rows of a file (bound)

ASSUME IntakeAssumption ==
    /\ NoCase \notin Acks
    /\ {"ETH", "BSC"} \subseteq Evm /\ Evm \subseteq {"ETH", "BSC", "POLYGON"}
    /\ WalletsOf \in [Acks -> SUBSET Wallets]
    /\ Network \in [Acks -> {"TRC20", "ERC20", "BEP20", "none"}]
    /\ Family \in [Wallets -> {"TRON", "BTC", "EVM"}]
    /\ Active \in [Wallets -> SUBSET Evm]
    /\ Feed \in Imports
    /\ \A i \in Imports : \A f \in Files[i] :
          DOMAIN f \subseteq Rows /\ \A n \in DOMAIN f : f[n] \in Acks \cup {NoCase}
    /\ MaxTime \in Nat /\ MaxFaults \in Nat

VARIABLES
    book,       \* book[a]: the case of complaint a, NoCase when it is not stored
    opened,     \* opened[a]: createdAt of the case a founded
    traces,     \* TraceJob rows, all of them QUEUED: taking them over is TraceJob's part
    queue,      \* rows that have a BullMQ job
    limbo,      \* jobs whose add timed out: Redis may still get them
    run,        \* run[i]: where import i is
    clock,
    faults,
    blind,      \* (observation) <<a, b>>: b was stored while a was being persisted
    untraced    \* (observation) <<a, w, ch>>: ch did not answer, another chain did

vars == <<book, opened, traces, queue, limbo, run, clock, faults, blind, untraced>>

Stored == {a \in Acks : book[a] # NoCase}
Trace == [case : Acks, chain : Chains, seed : Wallets, of : Acks]
Seeds == Acks \X Wallets \X Chains
Run == [pc : {"idle", "dedup", "probe", "link", "prepare", "commit", "reassert", "enqueue"},
        file : [Rows -> Acks \cup {NoCase}], items : SUBSET Rows, retry : 0 .. 2, dup : SUBSET Acks,
        seeds : SUBSET Seeds, silent : SUBSET Seeds, start : 0 .. MaxTime,
        caseOf : [Rows -> Acks \cup {NoCase}],
        fresh : SUBSET Trace, jobs : SUBSET Trace, missed : SUBSET Acks]

NoRows == [n \in Rows |-> NoCase]
Idle == [pc |-> "idle", file |-> NoRows, items |-> {}, retry |-> 0, dup |-> {}, seeds |-> {},
         silent |-> {}, start |-> 0, caseOf |-> NoRows, fresh |-> {}, jobs |-> {}, missed |-> {}]

TypeOK ==
    /\ book \in [Acks -> Acks \cup {NoCase}]
    /\ opened \in [Acks -> Nat]
    /\ traces \subseteq Trace /\ queue \subseteq Trace /\ limbo \subseteq Trace
    /\ run \in [Imports -> Run]
    /\ clock \in 0 .. MaxTime
    /\ faults \in 0 .. MaxFaults
    /\ blind \subseteq Acks \X Acks
    /\ untraced \subseteq Seeds

Init ==
    /\ book = [a \in Acks |-> NoCase]
    /\ opened = [a \in Acks |-> 0]
    /\ traces = {} /\ queue = {} /\ limbo = {}
    /\ run = [i \in Imports |-> Idle]
    /\ clock = 0 /\ faults = 0
    /\ blind = {} /\ untraced = {}

At(i, pc) == run[i].pc = pc
stored == <<book, opened, traces, blind, untraced>>
world == <<queue, limbo, clock, faults>>

-----------------------------------------------------------------------------
(* ingest *)

\* Rows that are invalid, or repeat an acknowledgement number of the file, drop out.
Begin(i) ==
    /\ At(i, "idle")
    /\ \E f \in Files[i] :
         run' = [run EXCEPT ![i] = [Idle EXCEPT !.pc = "dedup",
                    !.file = [n \in Rows |-> IF n \in DOMAIN f THEN f[n] ELSE NoCase],
                    !.items = {n \in DOMAIN f : f[n] \in Acks /\ \A m \in 1 .. n - 1 : f[m] # f[n]}]]
    /\ UNCHANGED <<stored, world>>

\* dropExisting: complaints that are stored already drop out; their cases are remembered.
\* start is the Date.now() that persist is called with: after the probes, or in a retry here.
Dedup(i) ==
    LET j == run[i]
        hits == {n \in j.items : j.file[n] \in Stored}
        rest == j.items \ hits
        seen == j.dup \cup {book[j.file[n]] : n \in hits}
    IN  /\ At(i, "dedup")
        /\ run' = [run EXCEPT ![i] = IF rest = {} THEN [Idle EXCEPT !.pc = "reassert", !.dup = seen]
                                    ELSE [j EXCEPT !.pc = IF j.retry = 0 THEN "probe" ELSE "link",
                                                   !.items = rest, !.dup = seen, !.start = clock]]
        /\ UNCHANGED <<stored, world>>

-----------------------------------------------------------------------------
(* resolve.ts and probe.ts *)

\* The format decides the chain, or for an EVM address the network that is stated.
Decided(a, w) ==
    IF Family[w] # "EVM" THEN {Family[w]}
    ELSE CASE Network[a] = "ERC20" -> {"ETH"}
           [] Network[a] = "BEP20" -> {"BSC"}
           [] OTHER -> {}

\* Variant: a chain that did not answer is left out.
OnlyActive(w, quiet) == Active[w] \ quiet

\* resolveEvmAddress and seedChainsOf: the chains that say they know w, or else those that
\* did not answer in time; none when all say no.
Probed(w, quiet) == IF Active[w] \ quiet # {} THEN Active[w] \ quiet ELSE quiet

SeedChains(a, w, quiet) == IF Decided(a, w) # {} THEN Decided(a, w) ELSE Probed(w, quiet)

\* Each chain is asked once in a batch about a wallet; any of them may stay silent.
Probe(i) ==
    LET new == {run[i].file[n] : n \in run[i].items}
        asked == {w \in Wallets : \E a \in new : w \in WalletsOf[a] /\ Decided(a, w) = {}}
    IN  /\ At(i, "probe")
        /\ \E quiet \in [asked -> SUBSET Evm] :
             run' = [run EXCEPT ![i].pc = "link", ![i].start = clock,
               ![i].seeds = {s \in new \X Wallets \X Chains :
                   s[2] \in WalletsOf[s[1]]
                   /\ s[3] \in SeedChains(s[1], s[2], IF s[2] \in asked THEN quiet[s[2]] ELSE {})},
               ![i].silent = {s \in new \X asked \X Evm :
                   s[3] \in quiet[s[2]] /\ Active[s[2]] \ quiet[s[2]] # {}}]
        /\ UNCHANGED <<stored, world>>

-----------------------------------------------------------------------------
(* persist *)

Shares(a, b) == WalletsOf[a] \cap WalletsOf[b] # {}

\* The row of complaint a, and the place of row n in the batch.
RowOf(j, a) == CHOOSE n \in j.items : j.file[n] = a
Place(items, n) == Cardinality({m \in items : m < n})

\* Variant: nobody looks at the rows before.
MatchesStored(j, caseOf, n) == {book[a] : a \in {b \in Stored : Shares(b, j.file[n])}}

\* Cases that have a wallet of row n: those in the database and, with what this batch
\* decided for the rows before, those of the batch.
Matches(j, caseOf, n) ==
    {book[a] : a \in {b \in Stored : Shares(b, j.file[n])}}
      \cup {caseOf[m] : m \in {k \in j.items : k < n /\ Shares(j.file[k], j.file[n])}}

\* createdAt of a case: of the database, or of the row of the batch that founds it.
Rank(j, c) == IF c \in Stored THEN opened[c]
              ELSE j.start + Place(j.items, RowOf(j, c))

\* A complaint joins the earliest case it matches, or founds one.
Assigns(j, caseOf) == \A n \in j.items :
    LET ms == Matches(j, caseOf, n)
    IN  IF ms = {} THEN caseOf[n] = j.file[n]
        ELSE caseOf[n] \in ms /\ \A c \in ms : Rank(j, caseOf[n]) <= Rank(j, c)

Link(i) ==
    LET j == run[i] IN
    /\ At(i, "link")
    /\ \E c \in [j.items -> Acks] :
         /\ Assigns(j, c)
         /\ run' = [run EXCEPT ![i].pc = "prepare", ![i].missed = {},
                               ![i].caseOf = [n \in Rows |-> IF n \in j.items THEN c[n] ELSE NoCase]]
    /\ UNCHANGED <<stored, world>>

SameKey(s, t) == s.case = t.case /\ s.chain = t.chain /\ s.seed = t.seed

\* Variant: jobs are only compared with those of the batch.
HaveNone(wanted) == {}

Have(wanted) == {s \in traces : \E t \in wanted : SameKey(s, t)}

\* One trace job per case, chain and wallet: rows that are there are used again, one of them
\* if there are several, and put on the queue again.
Prepare(i) ==
    LET j == run[i]
        JobFor(s) == [case |-> j.caseOf[RowOf(j, s[1])], chain |-> s[3], seed |-> s[2], of |-> s[1]]
        wanted == {JobFor(s) : s \in {u \in j.seeds : \E n \in j.items : j.file[n] = u[1]}}
        have == Have(wanted)
        fresh == {t \in wanted : (\A s \in have : ~SameKey(s, t))
                      /\ \A s \in wanted : SameKey(s, t) => RowOf(j, t.of) <= RowOf(j, s.of)}
    IN  /\ At(i, "prepare")
        /\ \E reused \in SUBSET have :
             /\ \A s \in have : Cardinality({t \in reused : SameKey(s, t)}) = 1
             /\ run' = [run EXCEPT ![i].pc = "commit", ![i].fresh = fresh, ![i].jobs = fresh \cup reused]
        /\ UNCHANGED <<stored, world>>

\* Somebody stored one of the complaints in the meantime: drop it and try again, twice.
Conflict(i) == \E n \in run[i].items : run[i].file[n] \in Stored

Retry(i) ==
    LET j == run[i] IN
    /\ At(i, "commit") /\ Conflict(i)
    /\ run' = [run EXCEPT ![i] = IF j.retry = 2 THEN Idle
                  ELSE [j EXCEPT !.pc = "dedup", !.retry = @ + 1, !.caseOf = NoRows, !.fresh = {},
                                 !.jobs = {}, !.start = 0, !.missed = {}]]
    /\ UNCHANGED <<stored, world>>

\* One transaction writes cases, complaints, entries and trace jobs.
Commit(i) ==
    LET j == run[i]
        new == {j.file[n] : n \in j.items}
    IN  /\ At(i, "commit") /\ ~Conflict(i)
        /\ book' = [a \in Acks |-> IF a \in new THEN j.caseOf[RowOf(j, a)] ELSE book[a]]
        /\ opened' = [a \in Acks |-> IF a \in new /\ j.caseOf[RowOf(j, a)] = a
                                     THEN j.start + Place(j.items, RowOf(j, a)) ELSE opened[a]]
        /\ traces' = traces \cup j.fresh
        /\ blind' = blind \cup (new \X j.missed)
        /\ untraced' = untraced \cup j.silent
        /\ run' = [k \in Imports |-> IF k = i THEN [Idle EXCEPT !.pc = "reassert", !.jobs = j.jobs, !.dup = j.dup]
                                     ELSE IF run[k].pc \in {"prepare", "commit"}
                                          THEN [run[k] EXCEPT !.missed = @ \cup new]
                                     ELSE run[k]]
        /\ UNCHANGED world

-----------------------------------------------------------------------------
(* After the commit, and queue.ts *)

\* Variant: duplicates are only reported.
ReassertNothing(i) ==
    /\ At(i, "reassert")
    /\ run' = [run EXCEPT ![i].pc = "enqueue"]
    /\ UNCHANGED <<stored, world>>

\* The cases of duplicates put their trace jobs on the queue again.
Reassert(i) ==
    /\ At(i, "reassert")
    /\ run' = [run EXCEPT ![i].pc = "enqueue",
                          ![i].jobs = @ \cup {t \in traces : t.case \in run[i].dup}]
    /\ UNCHANGED <<stored, world>>

\* The job id is that of the row: adding it twice is adding it once.
Enqueue(i) ==
    /\ At(i, "enqueue")
    /\ queue' = queue \cup run[i].jobs
    /\ run' = [run EXCEPT ![i] = Idle]
    /\ UNCHANGED <<stored, limbo, clock, faults>>

Fault == faults < MaxFaults /\ faults' = faults + 1

\* Redis does not answer in five seconds, for the TRON jobs or for the rest, which come
\* second: the import is answered, with a queueError.
EnqueueFails(i) ==
    LET tron == {t \in run[i].jobs : t.chain = "TRON"}
        rest == run[i].jobs \ tron
    IN  /\ Fault
        /\ At(i, "enqueue")
        /\ \/ tron # {} /\ limbo' = limbo \cup tron /\ queue' = queue
           \/ rest # {} /\ limbo' = limbo \cup rest /\ queue' = queue \cup tron
        /\ run' = [run EXCEPT ![i] = Idle]
        /\ UNCHANGED <<stored, clock>>

\* The client sends what it holds back when Redis is there again.
Land ==
    /\ limbo # {}
    /\ queue' = queue \cup limbo
    /\ limbo' = {}
    /\ UNCHANGED <<stored, run, clock, faults>>

\* A read or the transaction fails: the import is answered with an error.
Fails(i) ==
    /\ Fault
    /\ run[i].pc \notin {"idle", "probe", "enqueue"}
    /\ run' = [run EXCEPT ![i] = Idle]
    /\ UNCHANGED <<stored, queue, limbo, clock>>

\* The API process dies.
Crash ==
    /\ Fault
    /\ run' = [i \in Imports |-> Idle]
    /\ limbo' = {}
    /\ UNCHANGED <<stored, queue, clock>>

Tick ==
    /\ clock < MaxTime
    /\ clock' = clock + 1
    /\ UNCHANGED <<stored, queue, limbo, run, faults>>

-----------------------------------------------------------------------------
Step(i) == Dedup(i) \/ Probe(i) \/ Link(i) \/ Prepare(i) \/ Retry(i) \/ Commit(i)
             \/ Reassert(i) \/ Enqueue(i)

Next == \/ \E i \in Imports : Begin(i) \/ Step(i) \/ EnqueueFails(i) \/ Fails(i)
        \/ Land \/ Crash \/ Tick

Spec == Init /\ [][Next]_vars

\* The poller keeps importing the feed, and what it awaits is answered.
FairSpec == Spec /\ WF_vars(Begin(Feed)) /\ WF_vars(Step(Feed))

-----------------------------------------------------------------------------
KeepsStored == \A a \in Stored : book'[a] = book[a] /\ opened'[a] = opened[a]

\* A complaint is created once: it stays in the case it was given, and the case with it,
\* whatever other imports bring the same acknowledgement number.
CreatedOnce == [][KeepsStored]_vars

\* "any wallet already on another complaint (or earlier in this batch) puts the complaint in
\* that case" (service.ts:133): two cases were never founded on the same wallet, except by
\* imports that overlapped.
OneCasePerWallet == \A a, b \in Stored :
    a # b /\ book[a] = a /\ book[b] = b /\ Shares(a, b) => <<a, b>> \in blind \/ <<b, a>> \in blind

\* "one per (case, chain, seed)" (service.ts:205), except by imports that overlapped.
OneTracePerSeed == \A s, t \in traces :
    s # t /\ SameKey(s, t) => <<s.of, t.of>> \in blind \/ <<t.of, s.of>> \in blind

\* The wallet of a stored complaint is traced, in its case, on the chain that is decided or on
\* every chain where it is active. "unverifiable chains" are kept "rather than dropping them"
\* (resolve.test.ts:83), but only if no other chain answered: then they are dropped for good.
TracedWhereActive == \A a \in Stored : \A w \in WalletsOf[a] :
    \A ch \in IF Decided(a, w) # {} THEN Decided(a, w) ELSE Active[w] :
        <<a, w, ch>> \in untraced
          \/ \E t \in traces : t.case = book[a] /\ t.seed = w /\ t.chain = ch

InFeed(c) == \E f \in Files[Feed] : \E n \in DOMAIN f : f[n] \in Stored /\ book[f[n]] = c
Waiting == {t \in traces \ queue : InFeed(t.case)}

\* "rows stay QUEUED in PostgreSQL; a re-import re-enqueues them" (service.ts:366): whatever
\* failed or crashed, every trace job of a case the feed has a complaint of gets its job.
QueuedInTheEnd == (Waiting # {}) ~> (Waiting = {})
=============================================================================
