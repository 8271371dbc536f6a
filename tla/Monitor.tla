-------------------------------- MODULE Monitor --------------------------------
(***************************************************************************)
(* workers/monitor: the alerts about one watched wallet. A TRON wallet is  *)
(* polled by one job at a time, from a checkpoint; events of a BTC or EVM  *)
(* wallet are pushed, one handler per delivery, and handlers overlap. Both *)
(* judge a transfer with rules A1-A3 and the wallet with A4 and A5, and    *)
(* store one alert per case and finding. Alerts of a wallet depend on no   *)
(* other wallet, so one of any chain is modelled.                          *)
(***************************************************************************)
EXTENDS PushFeed, FiniteSets

CONSTANTS
    Transfers,     \* transfers out of the wallet
    NoTransfer,
    Cases,         \* cases that may watch the wallet
    Deliveries,    \* push handlers that may be at work at once
    Poller,        \* the polling job
    Usd, To,       \* Usd[x], To[x]: dollar value and kind of receiver of x
    Medium, High,  \* DEFAULT_MONITOR_CONFIG.a1Movement
    StateRules,    \* A4 and A5, treated alike
    Interval,      \* Interval[c]: poll interval of the tier c watches with
    MaxTime        \* ticks of the clock (bound)

ASSUME MonitorAssumption ==
    /\ NoTransfer \notin Transfers
    /\ Transfers \cap StateRules = {}
    /\ Poller \notin Deliveries
    /\ Medium \in Nat /\ High \in Nat
    /\ StateRules \subseteq {"A4", "A5"}
    /\ Usd \in [Transfers -> Nat]
    /\ To \in [Transfers -> {"wallet", "exchange", "mixer", "bridge"}]
    /\ Interval \in [Cases -> Nat \ {0}]
    /\ MaxTime \in Nat \ {0} /\ MaxMishaps \in Nat

VARIABLES
    chain,        \* the chain of the wallet
    clock,
    moved,        \* moved[x]: when x happened, 0 if it did not yet
    indexed,      \* transfers the provider's history shows
    state,        \* which of A4 and A5 hold of the wallet
    watch,        \* cases with a WatchlistItem for the wallet
    checkpoint,   \* MonitorCheckpoint.lastCheckedAt
    page,         \* the history cached under this checkpoint (NoPage: none)
    marked,       \* events with a b8:evt key in Redis
    job,          \* job[j]: a pass of the poller, or a push handler
    told,         \* alerts stored: transfer (or NoTransfer), case and rule
    retold,       \* ... more than once
    owed,         \* (observation) who watched when it came about, and still does
    excused,      \* (observation) transfers the worker had no fair chance to see
    repeatable    \* (observation) transfers that may be judged again

world == <<chain, moved, indexed, state>>
stored == <<watch, checkpoint, page, marked, told, retold>>
vars == <<world, clock, stored, feed, job, owed, excused, repeatable, mishaps>>

Time == 0 .. MaxTime
Jobs == Deliveries \cup {Poller}
Rules == {"A1", "A2", "A3"} \cup StateRules
Alerts == (Transfers \cup {NoTransfer}) \X Cases \X Rules
NoPage == {NoTransfer}
Pushed == chain # "tron"
Job == [pc : {"idle", "fetch", "mark", "lookup", "tell", "warn"},
        event : Transfers \cup {NoTransfer}, now : Time, since : Time,
        cases : SUBSET Cases, todo : SUBSET Alerts]
Idle == [pc |-> "idle", event |-> NoTransfer, now |-> 0, since |-> 0, cases |-> {}, todo |-> {}]

TypeOK ==
    /\ chain \in {"tron"} \cup Clients
    /\ clock \in Time
    /\ moved \in [Transfers -> Time]
    /\ indexed \subseteq Transfers
    /\ state \subseteq StateRules
    /\ watch \subseteq Cases
    /\ FeedTypeOK
    /\ checkpoint \in Time
    /\ page \in (SUBSET Transfers) \cup {NoPage}
    /\ marked \subseteq Transfers
    /\ job \in [Jobs -> Job]
    /\ told \subseteq Alerts /\ retold \subseteq Alerts
    /\ owed \subseteq (Transfers \cup StateRules) \X Cases
    /\ excused \subseteq Transfers \cup {NoTransfer}
    /\ repeatable \subseteq Transfers
    /\ mishaps \in 0 .. MaxMishaps

Init ==
    /\ chain \in {"tron"} \cup Clients
    /\ clock = 1
    /\ moved = [x \in Transfers |-> 0]
    /\ indexed = {} /\ state = {}
    /\ watch \in SUBSET Cases
    /\ FeedInit(Pushed /\ watch # {})
    /\ checkpoint = 0
    /\ page = NoPage
    /\ marked = {}
    /\ job = [j \in Jobs |-> Idle]
    /\ told = {} /\ retold = {}
    /\ owed = {} /\ excused = {} /\ repeatable = {}
    /\ mishaps = 0

-----------------------------------------------------------------------------
(* The world *)

Tick ==
    /\ ~Pushed /\ clock < MaxTime
    /\ clock' = clock + 1
    /\ UNCHANGED <<world, stored, feed, job, owed, excused, repeatable, mishaps>>

\* x happens. Who watches the wallet is owed an alert; of a pushed wallet, if its client
\* was given the list and the wallet was on it.
Transfer(x) ==
    /\ moved[x] = 0
    /\ moved' = [moved EXCEPT ![x] = clock]
    /\ owed' = IF ~Pushed \/ (listed /\ chain \in watching) THEN owed \cup ({x} \X watch) ELSE owed
    /\ UNCHANGED <<chain, clock, indexed, state, stored, feed, job, excused, repeatable, mishaps>>

\* The provider's history shows x, perhaps later.
Index(x) ==
    /\ ~Pushed /\ moved[x] # 0 /\ x \notin indexed
    /\ indexed' = indexed \cup {x}
    /\ UNCHANGED <<chain, clock, moved, state, stored, feed, job, owed, excused, repeatable, mishaps>>

\* Another case shares the wallet, or it is blacklisted.
BecomesTrue(r) ==
    /\ r \notin state
    /\ state' = state \cup {r}
    /\ UNCHANGED <<chain, clock, moved, indexed, stored, feed, job, owed, excused, repeatable, mishaps>>

-----------------------------------------------------------------------------
(* watchlist/service.ts and monitor/watchlist.ts *)

\* create and upsertWatchlistItem: adding twice changes nothing.
Watch(c) ==
    /\ c \notin watch
    /\ watch' = watch \cup {c}
    /\ UNCHANGED <<world, clock, checkpoint, page, marked, told, retold, feed, job, owed,
                   excused, repeatable, mishaps>>

Unwatch(c) ==
    /\ Mishap
    /\ c \in watch
    /\ watch' = watch \ {c}
    /\ owed' = {o \in owed : o[2] # c}
    /\ UNCHANGED <<world, clock, checkpoint, page, marked, told, retold, feed, job,
                   excused, repeatable>>

-----------------------------------------------------------------------------
(* rules.ts *)

\* Push events carry no dollar value, and null counts as 0.
Value(x) == IF Pushed THEN 0 ELSE Usd[x]

\* evaluateTransferRules. The severity of A1 follows from the value.
Findings(x) ==
    {r \in {"A1", "A2", "A3"} :
        \/ r = "A1" /\ (Value(x) >= High \/ Value(x) >= Medium)
        \/ r = "A2" /\ To[x] = "exchange"
        \/ r = "A3" /\ To[x] \in {"mixer", "bridge"}}

\* evaluateStateRules: A4 and A5, each once per wallet, whatever the case.
StateFindings == {r \in state : \A c \in Cases : <<NoTransfer, c, r>> \notin told}

-----------------------------------------------------------------------------
(* What the poller and the push handlers have in common *)

At(j, pc) == job[j].pc = pc

\* Variant: whether the alert exists is asked again for every case.
TellUnlessTold(j) ==
    /\ job[j].pc \in {"tell", "warn"}
    /\ \E a \in job[j].todo :
         /\ told' = IF a[1] = NoTransfer /\ \E c \in Cases : <<a[1], c, a[3]>> \in told THEN told
                    ELSE told \cup {a}
         /\ job' = [job EXCEPT ![j].todo = @ \ {a}]
    /\ UNCHANGED <<world, clock, watch, checkpoint, page, marked, retold, feed, owed, excused,
                   repeatable, mishaps>>

\* persistAndPublishAlert for one case and finding. (That the publication may fail
\* changes nothing.) The order within a pass is left open.
Tell(j) ==
    /\ job[j].pc \in {"tell", "warn"}
    /\ \E a \in job[j].todo :
         /\ told' = told \cup {a}
         /\ retold' = IF a \in told THEN retold \cup {a} ELSE retold
         /\ job' = [job EXCEPT ![j].todo = @ \ {a}]
    /\ UNCHANGED <<world, clock, watch, checkpoint, page, marked, feed, owed, excused,
                   repeatable, mishaps>>

\* All transfers are judged: on to the state rules. Of a finding all cases are told.
Judge(j) ==
    /\ At(j, "tell") /\ job[j].todo = {}
    /\ job' = [job EXCEPT ![j].pc = "warn", ![j].todo = {NoTransfer} \X job[j].cases \X StateFindings]
    /\ owed' = owed \cup (StateFindings \X (job[j].cases \cap watch))
    /\ UNCHANGED <<world, clock, stored, feed, excused, repeatable, mishaps>>

\* The job throws or the worker dies: BullMQ runs the next pass, an event is dropped.
Fail(j) ==
    /\ Mishap
    /\ ~At(j, "idle")
    /\ job' = [job EXCEPT ![j] = Idle]
    /\ excused' = excused \cup {NoTransfer} \cup
                    (IF j = Poller THEN {} ELSE {job[j].event})
    /\ repeatable' = IF j # Poller \/ page = NoPage THEN repeatable ELSE repeatable \cup page
    /\ UNCHANGED <<world, clock, stored, feed, owed>>

-----------------------------------------------------------------------------
(* tronPoller.ts and checkpoint.ts *)

\* findDueTronAddresses: the shortest interval of those who watch.
Due == \E c \in watch : clock - checkpoint >= Interval[c]

StartPass ==
    /\ ~Pushed
    /\ At(Poller, "idle") /\ Due
    /\ job' = [job EXCEPT ![Poller] = [Idle EXCEPT !.pc = "fetch", !.now = clock,
                                       !.since = checkpoint, !.cases = watch]]
    /\ UNCHANGED <<world, clock, stored, feed, owed, excused, repeatable, mishaps>>

History(s) == {x \in indexed : moved[x] >= s}

\* collectTransfers: the history since the checkpoint, cached for ever under that
\* checkpoint (adapters/tron.ts). What happened before the pass began and is not in
\* it had no fair chance if it was indexed late or the page came from the cache.
Fetch ==
    LET j == job[Poller]
        items == IF page = NoPage THEN History(j.since) ELSE page
    IN  /\ At(Poller, "fetch")
        /\ page' = items
        /\ job' = [job EXCEPT ![Poller].pc = "tell",
                     ![Poller].todo = UNION {{x} \X j.cases \X Findings(x) : x \in items}]
        /\ excused' = excused \cup
              {x \in Transfers \ items : moved[x] # 0 /\ moved[x] < j.now
                                         /\ (x \notin indexed \/ page # NoPage)}
        /\ repeatable' = repeatable \cup {x \in items : moved[x] >= j.now}
        /\ UNCHANGED <<world, clock, watch, checkpoint, marked, told, retold, feed, owed, mishaps>>

\* Variant: one later, lest the last transfer be seen twice.
AdvanceOneLater ==
    /\ At(Poller, "warn") /\ job[Poller].todo = {}
    /\ checkpoint' = job[Poller].now + 1
    /\ page' = NoPage
    /\ job' = [job EXCEPT ![Poller] = Idle]
    /\ UNCHANGED <<world, clock, watch, marked, told, retold, feed, owed, excused,
                   repeatable, mishaps>>

\* advanceCheckpoint: to the clock at the start of the pass.
Advance ==
    /\ At(Poller, "warn") /\ job[Poller].todo = {}
    /\ checkpoint' = job[Poller].now
    /\ page' = NoPage
    /\ job' = [job EXCEPT ![Poller] = Idle]
    /\ UNCHANGED <<world, clock, watch, marked, told, retold, feed, owed, excused,
                   repeatable, mishaps>>

-----------------------------------------------------------------------------
(* pushHandler.ts *)

\* The provider delivers x, once or again.
Deliver(d, x) ==
    /\ Pushed /\ listed /\ line[chain] = "tracking"
    /\ moved[x] # 0 /\ At(d, "idle")
    /\ job' = [job EXCEPT ![d] = [Idle EXCEPT !.pc = "mark", !.event = x]]
    /\ UNCHANGED <<world, clock, stored, feed, owed, excused, repeatable, mishaps>>

\* Variant: the key is looked up, and set by a later command.
MarkLater(d) ==
    /\ At(d, "mark")
    /\ job' = [job EXCEPT ![d] = IF @.event \in marked THEN Idle ELSE [@ EXCEPT !.pc = "lookup"]]
    /\ UNCHANGED <<world, clock, stored, feed, owed, excused, repeatable, mishaps>>

\* isNewEvent: SET NX, before anything else is done.
Mark(d) ==
    /\ At(d, "mark")
    /\ marked' = marked \cup {job[d].event}
    /\ job' = [job EXCEPT ![d] = IF @.event \in marked THEN Idle ELSE [@ EXCEPT !.pc = "lookup"]]
    /\ UNCHANGED <<world, clock, watch, checkpoint, page, told, retold, feed, owed, excused,
                   repeatable, mishaps>>

\* The watchlist rows of the address as the event spells it: EVM events spell it in lower
\* case, the rows are in checksum case.
Rows == IF chain = "evm" THEN {} ELSE watch

LookUp(d) ==
    /\ At(d, "lookup")
    /\ job' = [job EXCEPT ![d] =
          IF Rows = {} THEN Idle
          ELSE [@ EXCEPT !.pc = "tell", !.cases = Rows,
                         !.todo = {job[d].event} \X Rows \X Findings(job[d].event)]]
    /\ UNCHANGED <<world, clock, stored, feed, owed, excused, repeatable, mishaps>>

Handled(d) ==
    /\ d # Poller /\ At(d, "warn") /\ job[d].todo = {}
    /\ job' = [job EXCEPT ![d] = Idle]
    /\ UNCHANGED <<world, clock, stored, feed, owed, excused, repeatable, mishaps>>

\* Ten minutes pass: the key expires.
Forget(x) ==
    /\ Mishap
    /\ x \in marked
    /\ \A j \in Jobs : job[j].event # x
    /\ marked' = marked \ {x}
    /\ repeatable' = repeatable \cup {x}
    /\ UNCHANGED <<world, clock, watch, checkpoint, page, told, retold, feed, job, owed, excused>>

\* The worker starts again, with the list of the moment, or its connections come and go.
Feed ==
    /\ Pushed
    /\ \/ (\A j \in Jobs : At(j, "idle")) /\ StartAgain(watch # {})
       \/ \E c \in Clients : Open(c) \/ Close(c) \/ Reconnect(c)
    /\ UNCHANGED <<world, clock, stored, job, owed, excused, repeatable>>

-----------------------------------------------------------------------------
Next ==
    \/ Tick \/ StartPass \/ Fetch \/ Advance \/ Feed
    \/ \E x \in Transfers : Transfer(x) \/ Index(x) \/ Forget(x) \/ \E d \in Deliveries : Deliver(d, x)
    \/ \E r \in StateRules : BecomesTrue(r)
    \/ \E c \in Cases : Watch(c) \/ Unwatch(c)
    \/ \E j \in Jobs : Tell(j) \/ Judge(j) \/ Fail(j)
    \/ \E d \in Deliveries : Mark(d) \/ LookUp(d) \/ Handled(d)

Spec == Init /\ [][Next]_vars

-----------------------------------------------------------------------------
\* Is the worker done with x? It never looks at it again by itself.
Settled(x) == IF Pushed THEN x \in marked /\ \A j \in Jobs : job[j].event # x
              ELSE moved[x] # 0 /\ moved[x] < checkpoint

Told(x, c) == {x} \X {c} \X Findings(x) \subseteq told

\* A case that watches the wallet is told of every transfer that trips a rule, whatever
\* happens during the pass: the checkpoint never moves past a transfer, and a mark never
\* stays, without its alerts. The exceptions are the ones the code has: a transfer the
\* provider shows late, a page cached by a pass that failed, an event whose handling failed,
\* and EVM wallets, whose rows are never found.
NoTransferLost == \A x \in Transfers, c \in Cases :
    Settled(x) /\ <<x, c>> \in owed /\ x \notin excused /\ chain # "evm" => Told(x, c)

\* "never re-fetches or re-alerts an already-seen transfer" (tronPoller.ts:34), and a
\* redelivered message makes no second alert (pushHandler.ts:24-26): except after a pass that
\* failed, for a transfer that happened while its pass ran, and after ten minutes.
NoRepeatedAlert == \A a \in retold : a[1] # NoTransfer => a[1] \in repeatable

\* A4 and A5 are announced once to a case that watches a TRON wallet. (Push handlers
\* overlap, and two may find the alert missing.)
StateToldOnce == ~Pushed => \A a \in retold : a[1] # NoTransfer

\* When A4 or A5 is announced, every case that watches then hears of it, unless a pass
\* fails half way: nobody is told later, for the alert exists.
StateAlertReachesAll == \A r \in StateRules, c \in Cases :
    <<r, c>> \in owed /\ NoTransfer \notin excused /\ (\A j \in Jobs : ~At(j, "warn"))
    => <<NoTransfer, c, r>> \in told
=============================================================================
