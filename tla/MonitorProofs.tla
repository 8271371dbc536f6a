----------------------------- MODULE MonitorProofs -----------------------------
(***************************************************************************)
(* Proofs about Monitor, for any transfers, cases and push handlers, any   *)
(* intervals and any bounds. Four layers: what each place of a job means,  *)
(* that no transfer is lost, that no alert about a transfer is stored      *)
(* twice, and the alerts about the state of the wallet; beside them, the   *)
(* connections.                                                            *)
(***************************************************************************)
EXTENDS Monitor, TLAPS

-----------------------------------------------------------------------------
(* The invariants. First layer: types, and what each place of a job means *)

Past == {"lookup", "tell", "warn"}

JobShape(j) ==
    /\ job[j].pc = "idle" => job[j].event = NoTransfer
    /\ job[j].pc # "idle" => (j = Poller <=> ~Pushed)
    /\ j = Poller => job[j].pc \in {"idle", "fetch", "tell", "warn"} /\ job[j].event = NoTransfer
    /\ j # Poller /\ job[j].pc # "idle" =>
          job[j].pc # "fetch" /\ job[j].event \in Transfers /\ moved[job[j].event] # 0
    /\ job[j].pc = "tell" => \A a \in job[j].todo :
          /\ a[1] \in Transfers /\ a[3] \in Findings(a[1])
          /\ j = Poller => a[1] \in page
          /\ j # Poller => a[1] = job[j].event
    /\ job[j].pc = "warn" => \A a \in job[j].todo : a[1] = NoTransfer

\* The poller works with the checkpoint it has read, on a page of what happened.
PollerShape ==
    LET j == job[Poller] IN
    /\ clock # 0
    /\ \A x \in Transfers : moved[x] <= clock
    /\ \A x \in indexed \cup marked : moved[x] # 0
    /\ page # NoPage => page \subseteq indexed
    /\ j.pc # "idle" => j.since = checkpoint /\ checkpoint <= j.now /\ j.now <= clock
    /\ j.pc \in {"tell", "warn"} => page # NoPage
    /\ checkpoint <= clock

\* Who is owed an alert watches.
OwedWatch == \A o \in owed : o[2] \in watch

Shape == TypeOK /\ (\A j \in Jobs : JobShape(j)) /\ PollerShape /\ OwedWatch

-----------------------------------------------------------------------------
(* The second layer: no transfer is lost *)

\* All alerts about x for c are stored, or on the list of j.
InHand(j, x, c) == \A r \in Findings(x) : <<x, c, r>> \in told \cup job[j].todo

\* Whoever marked an event is still at it, or done.
PushInv == chain = "btc" =>
    \A x \in marked \ excused, c \in Cases : <<x, c>> \in owed =>
        \/ Told(x, c)
        \/ \E d \in Deliveries : /\ job[d].event = x
                                 /\ \/ At(d, "lookup")
                                    \/ At(d, "tell") /\ InHand(d, x, c)

\* Behind the checkpoint everything is told; behind the start of the pass everything is
\* on the list of the pass.
PollInv == ~Pushed =>
    \A x \in Transfers \ excused, c \in Cases : moved[x] # 0 /\ <<x, c>> \in owed =>
        /\ moved[x] < checkpoint => Told(x, c)
        /\ ~At(Poller, "idle") /\ moved[x] < job[Poller].now =>
              /\ c \in job[Poller].cases
              /\ At(Poller, "tell") => InHand(Poller, x, c)
              /\ At(Poller, "warn") => Told(x, c)

-----------------------------------------------------------------------------
(* The third layer: no alert is stored twice *)

Single(x) == x \in Transfers /\ x \notin repeatable

\* A pushed event has one handler past its mark, which has told nothing of what it has
\* still to tell.
MarksFirst(d) == job[d].pc \in Past => job[d].event \in marked

Apart(d, e) == d # e /\ job[d].pc \in Past /\ job[e].pc \in Past => job[d].event # job[e].event

Fresh(d) ==
    /\ job[d].pc = "lookup" => \A a \in told : Single(a[1]) => a[1] # job[d].event
    /\ job[d].pc = "tell" => \A a \in job[d].todo : Single(a[1]) => a \notin told

ToldMarked == \A a \in told : Single(a[1]) => a[1] \in marked

PushOnce == Pushed =>
    /\ \A d \in Deliveries : MarksFirst(d) /\ Fresh(d)
    /\ \A d, e \in Deliveries : Apart(d, e)
    /\ ToldMarked

\* What a polled wallet was told of lies behind the checkpoint, or on the page of the pass.
OldPage == (job[Poller].pc \in {"idle", "fetch"} /\ page # NoPage) => page \subseteq repeatable

OnPage(x) == job[Poller].pc \in {"tell", "warn"} /\ x \in page

ToldBehind == \A a \in told : Single(a[1]) =>
    moved[a[1]] # 0 /\ (moved[a[1]] < checkpoint \/ OnPage(a[1]))

PageBehind == \A x \in Transfers : OnPage(x) /\ Single(x) => moved[x] < job[Poller].now

StillToTell == job[Poller].pc = "tell" =>
    \A a \in job[Poller].todo : Single(a[1]) => a \notin told

PollOnce == ~Pushed => OldPage /\ ToldBehind /\ PageBehind /\ StillToTell

-----------------------------------------------------------------------------
(* The fourth layer: alerts about the state of the wallet *)

\* Who is owed an alert about the state has it, or a job is about to give it.
Pending(a) == \E j \in Jobs : job[j].pc = "warn" /\ a \in job[j].todo

StatePending == NoTransfer \notin excused =>
    \A r \in StateRules, c \in Cases : <<r, c>> \in owed =>
        <<NoTransfer, c, r>> \in told \/ Pending(<<NoTransfer, c, r>>)

\* The poller tells of the state only what nobody was told.
FreshState == (~Pushed /\ job[Poller].pc = "warn") => job[Poller].todo \cap told = {}

-----------------------------------------------------------------------------
(* What an action does to the jobs *)

Others(j) == \A k \in Jobs \ {j} : job'[k] = job[k]

Keeps(j) ==
    /\ job'[j].event = job[j].event
    /\ job'[j].now = job[j].now
    /\ job'[j].since = job[j].since
    /\ job'[j].cases = job[j].cases

\* A job is a record of its fields.
LEMMA JobFields ==
    ASSUME NEW n \in Job
    PROVE  /\ n.pc \in {"idle", "fetch", "mark", "lookup", "tell", "warn"}
           /\ n.event \in Transfers \cup {NoTransfer}
           /\ n.now \in Time /\ n.since \in Time
           /\ n.cases \subseteq Cases /\ n.todo \subseteq Alerts
<1> QED  BY DEF Job

\* A job of other fields.
LEMMA JobMade ==
    ASSUME NEW p \in {"idle", "fetch", "mark", "lookup", "tell", "warn"},
           NEW e \in Transfers \cup {NoTransfer}, NEW n \in Time, NEW s \in Time,
           NEW c \in SUBSET Cases, NEW t \in SUBSET Alerts
    PROVE  [pc |-> p, event |-> e, now |-> n, since |-> s, cases |-> c, todo |-> t] \in Job
<1> QED  BY DEF Job

LEMMA IdleIsJob == Idle \in Job /\ Idle.pc = "idle" /\ Idle.event = NoTransfer /\ Idle.todo = {}
<1>1. 0 \in Time
  BY MonitorAssumption DEF Time
<1> QED  BY <1>1 DEF Idle, Job

\* One job is replaced.
LEMMA Replaced ==
    ASSUME job \in [Jobs -> Job], NEW j \in Jobs, NEW n \in Job, job' = [job EXCEPT ![j] = n]
    PROVE  job' \in [Jobs -> Job] /\ job'[j] = n /\ Others(j)
<1> QED  BY DEF Others

\* A finding is a rule, and an alert a triple.
LEMMA FindingsAreRules == \A x : Findings(x) \subseteq Rules
<1> QED  BY DEF Findings, Rules

LEMMA StateFindingsAreRules == StateFindings \subseteq state
<1> QED  BY DEF StateFindings

LEMMA AlertParts ==
    ASSUME NEW a \in Alerts
    PROVE  a[1] \in Transfers \cup {NoTransfer} /\ a[2] \in Cases /\ a[3] \in Rules
           /\ a = <<a[1], a[2], a[3]>>
<1> QED  BY DEF Alerts

LEMMA EndEffect ==
    ASSUME TypeOK, NEW j \in Jobs, job' = [job EXCEPT ![j] = Idle]
    PROVE  job' \in [Jobs -> Job] /\ Others(j) /\ job'[j] = Idle
<1> QED  BY IdleIsJob DEF TypeOK, Others

LEMMA TellEffect ==
    ASSUME TypeOK, NEW j \in Jobs, Tell(j)
    PROVE  \E a \in job[j].todo :
             /\ job' \in [Jobs -> Job] /\ Others(j) /\ Keeps(j)
             /\ job'[j].pc = job[j].pc
             /\ job'[j].todo = job[j].todo \ {a}
             /\ told' = told \cup {a}
             /\ retold' = IF a \in told THEN retold \cup {a} ELSE retold
<1>1. PICK a \in job[j].todo : /\ told' = told \cup {a}
                               /\ retold' = IF a \in told THEN retold \cup {a} ELSE retold
                               /\ job' = [job EXCEPT ![j].todo = @ \ {a}]
  BY DEF Tell
<1> DEFINE n == [job[j] EXCEPT !.todo = job[j].todo \ {a}]
<1>2. job \in [Jobs -> Job] /\ job[j] \in Job
  BY DEF TypeOK
<1>3. /\ n \in Job /\ n.pc = job[j].pc /\ n.todo = job[j].todo \ {a} /\ n.event = job[j].event
      /\ n.now = job[j].now /\ n.since = job[j].since /\ n.cases = job[j].cases
  BY <1>2 DEF Job
<1>4. job' = [job EXCEPT ![j] = n]
  BY <1>1, <1>2
<1> HIDE DEF n
<1>5. job' \in [Jobs -> Job] /\ job'[j] = n /\ Others(j)
  BY <1>2, <1>3, <1>4, Replaced
<1> QED  BY <1>1, <1>3, <1>5 DEF Keeps

LEMMA JudgeEffect ==
    ASSUME TypeOK, NEW j \in Jobs, Judge(j)
    PROVE  /\ job' \in [Jobs -> Job] /\ Others(j) /\ Keeps(j)
           /\ job'[j].pc = "warn"
           /\ job'[j].todo = {NoTransfer} \X job[j].cases \X StateFindings
<1> DEFINE t == {NoTransfer} \X job[j].cases \X StateFindings
<1> DEFINE n == [job[j] EXCEPT !.pc = "warn", !.todo = t]
<1>1. job \in [Jobs -> Job] /\ job[j] \in Job
  BY DEF TypeOK
<1>2. t \subseteq Alerts
  <2>1. StateFindings \subseteq Rules
    BY DEF TypeOK, StateFindings, Rules
  <2>2. job[j].cases \subseteq Cases
    BY <1>1, JobFields
  <2> QED  BY <2>1, <2>2 DEF Alerts
<1>3. job' = [job EXCEPT ![j].pc = "warn", ![j].todo = t]
  BY DEF Judge
<1> HIDE DEF t
<1>4. /\ n \in Job /\ n.pc = "warn" /\ n.todo = t /\ n.event = job[j].event
      /\ n.now = job[j].now /\ n.since = job[j].since /\ n.cases = job[j].cases
  BY <1>1, <1>2 DEF Job
<1>5. job' = [job EXCEPT ![j] = n]
  BY <1>1, <1>3
<1> HIDE DEF n
<1>6. job' \in [Jobs -> Job] /\ job'[j] = n /\ Others(j)
  BY <1>1, <1>4, <1>5, Replaced
<1> QED  BY <1>4, <1>6 DEF Keeps, t

LEMMA StartEffect ==
    ASSUME TypeOK, StartPass
    PROVE  /\ job' \in [Jobs -> Job] /\ Others(Poller)
           /\ job'[Poller].pc = "fetch" /\ job'[Poller].event = NoTransfer
           /\ job'[Poller].now = clock /\ job'[Poller].since = checkpoint
           /\ job'[Poller].cases = watch /\ job'[Poller].todo = {}
<1> DEFINE n == [Idle EXCEPT !.pc = "fetch", !.now = clock, !.since = checkpoint, !.cases = watch]
<1>1. job \in [Jobs -> Job] /\ clock \in Time /\ checkpoint \in Time /\ watch \in SUBSET Cases
      /\ Poller \in Jobs
  BY DEF TypeOK, Jobs
<1>2. n \in Job /\ n.pc = "fetch" /\ n.event = Idle.event /\ n.now = clock /\ n.since = checkpoint
      /\ n.cases = watch /\ n.todo = Idle.todo
  BY <1>1, IdleIsJob DEF Job
<1>3. job' = [job EXCEPT ![Poller] = n]
  BY DEF StartPass
<1> HIDE DEF n
<1>4. job' \in [Jobs -> Job] /\ job'[Poller] = n /\ Others(Poller)
  BY <1>1, <1>2, <1>3, Replaced
<1> QED  BY <1>2, <1>4, IdleIsJob

\* The page of a pass: what Fetch reads, and the alerts it leads to.
Items == IF page = NoPage THEN History(job[Poller].since) ELSE page

Wanted == UNION {{x} \X job[Poller].cases \X Findings(x) : x \in Items}

LEMMA WantedIs ==
    /\ \A a \in Wanted : a[1] \in Items /\ a[2] \in job[Poller].cases /\ a[3] \in Findings(a[1])
                         /\ a = <<a[1], a[2], a[3]>>
    /\ \A x \in Items, c \in job[Poller].cases : \A r \in Findings(x) : <<x, c, r>> \in Wanted
<1> DEFINE S(x) == {x} \X job[Poller].cases \X Findings(x)
<1>1. ASSUME NEW a \in Wanted
      PROVE  a[1] \in Items /\ a[2] \in job[Poller].cases /\ a[3] \in Findings(a[1])
             /\ a = <<a[1], a[2], a[3]>>
  <2>1. PICK x \in Items : a \in S(x)
    BY DEF Wanted
  <2>2. a[1] = x /\ a[2] \in job[Poller].cases /\ a[3] \in Findings(x) /\ a = <<a[1], a[2], a[3]>>
    BY <2>1
  <2> QED  BY <2>2
<1>2. ASSUME NEW x \in Items, NEW c \in job[Poller].cases, NEW r \in Findings(x)
      PROVE  <<x, c, r>> \in Wanted
  <2>1. <<x, c, r>> \in S(x)
    OBVIOUS
  <2> QED  BY <2>1 DEF Wanted
<1> QED  BY <1>1, <1>2

LEMMA ItemsAreTransfers == ASSUME TypeOK PROVE Items \subseteq Transfers
<1> QED  BY DEF TypeOK, Items, History

LEMMA FetchEffect ==
    ASSUME TypeOK, Fetch
    PROVE  /\ job' \in [Jobs -> Job] /\ Others(Poller) /\ Keeps(Poller)
           /\ job'[Poller].pc = "tell" /\ job'[Poller].todo = Wanted
           /\ page' = Items
           /\ excused' = excused \cup
                {x \in Transfers \ Items : moved[x] # 0 /\ moved[x] < job[Poller].now
                                            /\ (x \notin indexed \/ page # NoPage)}
           /\ repeatable' = repeatable \cup {x \in Items : moved[x] >= job[Poller].now}
<1> DEFINE n == [job[Poller] EXCEPT !.pc = "tell", !.todo = Wanted]
<1>1. job \in [Jobs -> Job] /\ job[Poller] \in Job /\ Poller \in Jobs
  BY DEF TypeOK, Jobs
<1>2. Wanted \subseteq Alerts
  <2>1. ASSUME NEW a \in Wanted
        PROVE  a \in Alerts
    <3>1. a[1] \in Items /\ a[2] \in job[Poller].cases /\ a[3] \in Findings(a[1])
          /\ a = <<a[1], a[2], a[3]>>
      BY WantedIs
    <3>2. a[1] \in Transfers /\ a[2] \in Cases /\ a[3] \in Rules
      BY <3>1, <1>1, JobFields, ItemsAreTransfers, FindingsAreRules
    <3> QED  BY <3>1, <3>2 DEF Alerts
  <2> QED  BY <2>1
<1>3. /\ job' = [job EXCEPT ![Poller].pc = "tell", ![Poller].todo = Wanted]
      /\ page' = Items
      /\ excused' = excused \cup
                {x \in Transfers \ Items : moved[x] # 0 /\ moved[x] < job[Poller].now
                                            /\ (x \notin indexed \/ page # NoPage)}
      /\ repeatable' = repeatable \cup {x \in Items : moved[x] >= job[Poller].now}
  BY DEF Fetch, Items, Wanted
<1>4. /\ n \in Job /\ n.pc = "tell" /\ n.todo = Wanted /\ n.event = job[Poller].event
      /\ n.now = job[Poller].now /\ n.since = job[Poller].since /\ n.cases = job[Poller].cases
  BY <1>1, <1>2 DEF Job
<1>5. job' = [job EXCEPT ![Poller] = n]
  BY <1>1, <1>3
<1> HIDE DEF n
<1>6. job' \in [Jobs -> Job] /\ job'[Poller] = n /\ Others(Poller)
  BY <1>1, <1>4, <1>5, Replaced
<1> QED  BY <1>3, <1>4, <1>6 DEF Keeps

LEMMA DeliverEffect ==
    ASSUME TypeOK, NEW d \in Deliveries, NEW x \in Transfers, Deliver(d, x)
    PROVE  /\ job' \in [Jobs -> Job] /\ Others(d)
           /\ job'[d].pc = "mark" /\ job'[d].event = x /\ job'[d].todo = {}
<1> DEFINE n == [Idle EXCEPT !.pc = "mark", !.event = x]
<1>1. job \in [Jobs -> Job] /\ d \in Jobs
  BY DEF TypeOK, Jobs
<1>2. n \in Job /\ n.pc = "mark" /\ n.event = x /\ n.todo = Idle.todo
  BY IdleIsJob DEF Job
<1>3. job' = [job EXCEPT ![d] = n]
  BY DEF Deliver
<1> HIDE DEF n
<1>4. job' \in [Jobs -> Job] /\ job'[d] = n /\ Others(d)
  BY <1>1, <1>2, <1>3, Replaced
<1> QED  BY <1>2, <1>4, IdleIsJob

LEMMA MarkEffect ==
    ASSUME TypeOK, NEW d \in Deliveries, Mark(d), job[d].event \notin marked
    PROVE  /\ job' \in [Jobs -> Job] /\ Others(d) /\ Keeps(d)
           /\ job'[d].pc = "lookup" /\ job'[d].todo = job[d].todo
<1> DEFINE n == [job[d] EXCEPT !.pc = "lookup"]
<1>1. job \in [Jobs -> Job] /\ job[d] \in Job /\ d \in Jobs
  BY DEF TypeOK, Jobs
<1>2. /\ n \in Job /\ n.pc = "lookup" /\ n.todo = job[d].todo /\ n.event = job[d].event
      /\ n.now = job[d].now /\ n.since = job[d].since /\ n.cases = job[d].cases
  BY <1>1 DEF Job
<1>3. job' = [job EXCEPT ![d] = n]
  BY <1>1 DEF Mark
<1> HIDE DEF n
<1>4. job' \in [Jobs -> Job] /\ job'[d] = n /\ Others(d)
  BY <1>1, <1>2, <1>3, Replaced
<1> QED  BY <1>2, <1>4 DEF Keeps

LEMMA MarkAgainEffect ==
    ASSUME TypeOK, NEW d \in Deliveries, Mark(d), job[d].event \in marked
    PROVE  job' \in [Jobs -> Job] /\ Others(d) /\ job'[d] = Idle
<1>1. job' = [job EXCEPT ![d] = Idle]
  BY DEF Mark, TypeOK, Jobs
<1> QED  BY <1>1, EndEffect DEF Jobs

LEMMA LookUpEffect ==
    ASSUME TypeOK, NEW d \in Deliveries, LookUp(d), Rows # {}, job[d].event \in Transfers
    PROVE  /\ job' \in [Jobs -> Job] /\ Others(d)
           /\ job'[d].pc = "tell" /\ job'[d].event = job[d].event
           /\ job'[d].todo = {job[d].event} \X Rows \X Findings(job[d].event)
<1> DEFINE t == {job[d].event} \X Rows \X Findings(job[d].event)
<1> DEFINE n == [job[d] EXCEPT !.pc = "tell", !.cases = Rows, !.todo = t]
<1>1. job \in [Jobs -> Job] /\ job[d] \in Job /\ d \in Jobs
  BY DEF TypeOK, Jobs
<1>2. Rows \subseteq Cases
  BY DEF TypeOK, Rows
<1>3. t \subseteq Alerts
  <2>1. Findings(job[d].event) \subseteq Rules
    BY FindingsAreRules
  <2> QED  BY <1>2, <2>1 DEF Alerts
<1>4. job' = [job EXCEPT ![d] = n]
  BY <1>1 DEF LookUp
<1> HIDE DEF t
<1>5. n \in Job /\ n.pc = "tell" /\ n.todo = t /\ n.event = job[d].event
  BY <1>1, <1>2, <1>3 DEF Job
<1> HIDE DEF n
<1>6. job' \in [Jobs -> Job] /\ job'[d] = n /\ Others(d)
  BY <1>1, <1>4, <1>5, Replaced
<1> QED  BY <1>5, <1>6 DEF t

-----------------------------------------------------------------------------
(* The first layer *)

LEMMA SameFindings == ASSUME chain' = chain PROVE \A x : Findings(x)' = Findings(x)
<1> QED  BY DEF Findings, Value, Pushed

LEMMA InitShape == Init => Shape
<1> SUFFICES ASSUME Init PROVE Shape
  OBVIOUS
<1>1. TypeOK
  <2>1. 0 \in Time /\ 1 \in Time
    BY MonitorAssumption DEF Time
  <2>2. job \in [Jobs -> Job]
    BY IdleIsJob DEF Init
  <2>3. FeedTypeOK
    BY DEF Init, FeedInit, FeedTypeOK, Started, Pushed
  <2> QED  BY <2>1, <2>2, <2>3, MonitorAssumption DEF Init, TypeOK
<1>2. ASSUME NEW j \in Jobs PROVE JobShape(j)
  <2>1. job[j].pc = "idle" /\ job[j].event = NoTransfer
    BY IdleIsJob DEF Init
  <2> QED  BY <2>1 DEF JobShape
<1>3. PollerShape
  <2>1. Poller \in Jobs
    BY DEF Jobs
  <2>2. job[Poller].pc = "idle"
    BY <2>1, IdleIsJob DEF Init
  <2> QED  BY <2>2 DEF PollerShape, Init
<1>4. OwedWatch
  BY DEF Init, OwedWatch
<1> QED  BY <1>1, <1>2, <1>3, <1>4 DEF Shape

\* What a shape says of a handler at work.
LEMMA HandlerEvent ==
    ASSUME Shape, NEW d \in Deliveries, job[d].pc # "idle"
    PROVE  job[d].event \in Transfers /\ moved[job[d].event] # 0 /\ Pushed /\ d \in Jobs /\ d # Poller
<1> QED  BY MonitorAssumption DEF Shape, JobShape, Jobs

LEMMA PollerRuns ==
    ASSUME Shape, job[Poller].pc # "idle"
    PROVE  ~Pushed /\ Poller \in Jobs
<1> QED  BY DEF Shape, JobShape, Jobs

\* Who of the jobs is at work depends on the chain.
LEMMA AtWork ==
    ASSUME Shape, NEW j \in Jobs, job[j].pc # "idle"
    PROVE  /\ j = Poller <=> ~Pushed
           /\ j # Poller => j \in Deliveries
<1> QED  BY DEF Shape, JobShape, Jobs

\* The connections come and go.
LEMMA FeedTypes == ASSUME FeedTypeOK, Feed PROVE FeedTypeOK'
<1>1. CASE StartAgain(watch # {})
  BY <1>1 DEF StartAgain, Started, FeedTypeOK
<1>2. ASSUME NEW c \in Clients, Open(c) PROVE FeedTypeOK'
  BY <1>2 DEF Open, Subscribe, FeedTypeOK, Clients
<1>3. ASSUME NEW c \in Clients, Close(c) PROVE FeedTypeOK'
  BY <1>3 DEF Close, FeedTypeOK
<1>4. ASSUME NEW c \in Clients, Reconnect(c) PROVE FeedTypeOK'
  BY <1>4 DEF Reconnect, FeedTypeOK
<1> QED  BY <1>1, <1>2, <1>3, <1>4 DEF Feed

\* The types, action by action.
LEMMA TypeStep == Shape /\ [Next]_vars => TypeOK'
<1> SUFFICES ASSUME Shape, [Next]_vars PROVE TypeOK'
  OBVIOUS
<1>0. Poller \in Jobs /\ Deliveries \subseteq Jobs /\ TypeOK
  BY DEF Jobs, Shape
<1>f. UNCHANGED feed => FeedTypeOK'
  BY <1>0 DEF TypeOK, FeedTypeOK, feed
<1> USE <1>0, <1>f DEF TypeOK
<1>1. CASE Tick
  BY <1>1, MonitorAssumption DEF Tick, world, stored, Time
<1>2. ASSUME NEW x \in Transfers, Transfer(x) PROVE TypeOK'
  BY <1>2 DEF Transfer, stored
<1>3. ASSUME NEW x \in Transfers, Index(x) PROVE TypeOK'
  BY <1>3 DEF Index, stored
<1>4. ASSUME NEW r \in StateRules, BecomesTrue(r) PROVE TypeOK'
  BY <1>4 DEF BecomesTrue, stored
<1>5. ASSUME NEW c \in Cases, Watch(c) PROVE TypeOK'
  BY <1>5 DEF Watch, world
<1>m. Mishap => mishaps' \in 0 .. MaxMishaps
  BY MonitorAssumption DEF Mishap
<1>6. ASSUME NEW c \in Cases, Unwatch(c) PROVE TypeOK'
  BY <1>6, <1>m DEF Unwatch, world
<1>7. ASSUME NEW j \in Jobs, Tell(j) PROVE TypeOK'
  <2>1. PICK a \in job[j].todo : job' \in [Jobs -> Job] /\ told' = told \cup {a}
                               /\ retold' = IF a \in told THEN retold \cup {a} ELSE retold
    BY <1>7, TellEffect
  <2>2. a \in Alerts
    BY JobFields
  <2> QED  BY <1>7, <2>1, <2>2 DEF Tell, world
<1>8. ASSUME NEW j \in Jobs, Judge(j) PROVE TypeOK'
  <2>1. job' \in [Jobs -> Job]
    BY <1>8, JudgeEffect
  <2>2. owed' \subseteq (Transfers \cup StateRules) \X Cases
    BY <1>8 DEF Judge, StateFindings
  <2> QED  BY <1>8, <2>1, <2>2 DEF Judge, world, stored
<1>9. ASSUME NEW j \in Jobs, Fail(j) PROVE TypeOK'
  <2>1. job' \in [Jobs -> Job]
    BY <1>9, EndEffect DEF Fail
  <2>2. excused' \subseteq Transfers \cup {NoTransfer}
    BY <1>9, JobFields DEF Fail
  <2>3. repeatable' \subseteq Transfers
    BY <1>9 DEF Fail
  <2> QED  BY <1>9, <1>m, <2>1, <2>2, <2>3 DEF Fail, world, stored
<1>10. CASE StartPass
  BY <1>10, StartEffect DEF StartPass, world, stored
<1>11. CASE Fetch
  BY <1>11, FetchEffect, ItemsAreTransfers DEF Fetch, world
<1>12. CASE Advance
  <2>1. job' \in [Jobs -> Job] /\ job[Poller].now \in Time
    BY <1>0, <1>12, EndEffect, JobFields DEF Advance
  <2> QED  BY <1>12, <2>1 DEF Advance, world
<1>13. ASSUME NEW d \in Deliveries, NEW x \in Transfers, Deliver(d, x) PROVE TypeOK'
  BY <1>13, DeliverEffect DEF Deliver, world, stored
<1>14. ASSUME NEW d \in Deliveries, Mark(d) PROVE TypeOK'
  <2>1. job' \in [Jobs -> Job]
    BY <1>14, MarkEffect, MarkAgainEffect
  <2>2. marked' \subseteq Transfers
    BY <1>14, HandlerEvent DEF Mark, At
  <2> QED  BY <1>14, <2>1, <2>2 DEF Mark, world
<1>15. ASSUME NEW d \in Deliveries, LookUp(d) PROVE TypeOK'
  <2>1. job' \in [Jobs -> Job]
    <3>1. CASE Rows = {}
      <4>1. job' = [job EXCEPT ![d] = Idle]
        BY <1>15, <3>1 DEF LookUp
      <4> QED  BY <4>1, EndEffect
    <3>2. CASE Rows # {}
      BY <1>15, <3>2, HandlerEvent, LookUpEffect DEF LookUp, At
    <3> QED  BY <3>1, <3>2
  <2> QED  BY <1>15, <2>1 DEF LookUp, world, stored
<1>16. ASSUME NEW d \in Deliveries, Handled(d) PROVE TypeOK'
  BY <1>16, EndEffect DEF Handled, world, stored
<1>17. ASSUME NEW x \in Transfers, Forget(x) PROVE TypeOK'
  BY <1>17, <1>m DEF Forget, world
<1>18. CASE Feed
  <2>1. mishaps' \in 0 .. MaxMishaps
    BY <1>18, <1>m DEF Feed, StartAgain, Open, Close, Reconnect
  <2> QED  BY <1>18, <2>1, FeedTypes DEF Feed, world, stored
<1>19. CASE UNCHANGED vars
  BY <1>19 DEF vars, world, stored
<1> QED
  BY <1>1, <1>2, <1>3, <1>4, <1>5, <1>6, <1>7, <1>8, <1>9, <1>10, <1>11, <1>12, <1>13, <1>14,
     <1>15, <1>16, <1>17, <1>18, <1>19 DEF Next

\* A job nobody touches keeps its shape.
LEMMA ShapeKept ==
    ASSUME TypeOK, NEW j \in Jobs, JobShape(j), job'[j] = job[j], chain' = chain,
           \A x \in Transfers : moved[x] # 0 => moved'[x] # 0,
           j = Poller => page' = page
    PROVE  JobShape(j)'
<1>1. \A x : Findings(x)' = Findings(x)
  BY SameFindings
<1>2. Pushed' = Pushed
  BY DEF Pushed
<1> QED  BY <1>1, <1>2 DEF JobShape

LEMMA ShapeIdle ==
    ASSUME NEW j \in Jobs, job'[j] = Idle
    PROVE  JobShape(j)'
<1>1. job'[j].pc = "idle" /\ job'[j].event = NoTransfer
  BY IdleIsJob
<1> QED  BY <1>1 DEF JobShape

\* One job moves, and the chain and its transfers do not.
LEMMA OthersShape ==
    ASSUME Shape, NEW j \in Jobs, Others(j), chain' = chain, moved' = moved,
           j # Poller => page' = page, JobShape(j)'
    PROVE  \A k \in Jobs : JobShape(k)'
<1> SUFFICES ASSUME NEW k \in Jobs, k # j PROVE JobShape(k)'
  OBVIOUS
<1>1. job'[k] = job[k] /\ JobShape(k) /\ TypeOK
  BY DEF Others, Shape
<1>2. CASE j # Poller
  BY <1>1, <1>2, ShapeKept
<1>3. CASE j = Poller
  BY <1>1, <1>3, ShapeKept
<1> QED  BY <1>2, <1>3

LEMMA JobShapeStep == Shape /\ [Next]_vars => \A j \in Jobs : JobShape(j)'
<1> SUFFICES ASSUME Shape, [Next]_vars PROVE \A j \in Jobs : JobShape(j)'
  OBVIOUS
<1>0. Poller \in Jobs /\ Deliveries \subseteq Jobs /\ TypeOK
  BY DEF Jobs, Shape
<1>a. ASSUME job' = job, chain' = chain, page' = page,
             \A x \in Transfers : moved[x] # 0 => moved'[x] # 0
      PROVE  \A j \in Jobs : JobShape(j)'
  <2> TAKE j \in Jobs
  <2>1. JobShape(j) /\ job'[j] = job[j]
    BY <1>a DEF Shape
  <2> QED  BY <1>0, <1>a, <2>1, ShapeKept
<1>1. CASE Tick
  BY <1>1, <1>a DEF Tick, world, stored
<1>2. ASSUME NEW x \in Transfers, Transfer(x) PROVE \A j \in Jobs : JobShape(j)'
  <2>1. \A y \in Transfers : moved[y] # 0 => moved'[y] # 0
    BY <1>2, <1>0 DEF Transfer, TypeOK
  <2> QED  BY <1>2, <2>1, <1>a DEF Transfer, stored
<1>3. ASSUME NEW x \in Transfers, Index(x) PROVE \A j \in Jobs : JobShape(j)'
  BY <1>3, <1>a DEF Index, stored
<1>4. ASSUME NEW r \in StateRules, BecomesTrue(r) PROVE \A j \in Jobs : JobShape(j)'
  BY <1>4, <1>a DEF BecomesTrue, stored
<1>5. ASSUME NEW c \in Cases, Watch(c) PROVE \A j \in Jobs : JobShape(j)'
  BY <1>5, <1>a DEF Watch, world
<1>6. ASSUME NEW c \in Cases, Unwatch(c) PROVE \A j \in Jobs : JobShape(j)'
  BY <1>6, <1>a DEF Unwatch, world
<1>7. ASSUME NEW j \in Jobs, Tell(j) PROVE \A k \in Jobs : JobShape(k)'
  <2>1. chain' = chain /\ moved' = moved /\ page' = page
    BY <1>7 DEF Tell, world
  <2>2. PICK a \in job[j].todo : /\ Others(j) /\ Keeps(j)
                               /\ job'[j].pc = job[j].pc
                               /\ job'[j].todo = job[j].todo \ {a}
    BY <1>0, <1>7, TellEffect
  <2>3. JobShape(j)'
    <3>1. \A x : Findings(x)' = Findings(x)
      BY <2>1, SameFindings
    <3>2. Pushed' = Pushed
      BY <2>1 DEF Pushed
    <3> QED  BY <2>1, <2>2, <3>1, <3>2 DEF Shape, JobShape, Keeps
  <2> QED  BY <2>1, <2>2, <2>3, OthersShape
<1>8. ASSUME NEW j \in Jobs, Judge(j) PROVE \A k \in Jobs : JobShape(k)'
  <2>1. chain' = chain /\ moved' = moved /\ page' = page /\ job[j].pc = "tell"
    BY <1>8 DEF Judge, world, stored, At
  <2>2. /\ Others(j) /\ Keeps(j) /\ job'[j].pc = "warn"
        /\ job'[j].todo = {NoTransfer} \X job[j].cases \X StateFindings
    BY <1>0, <1>8, JudgeEffect
  <2>3. \A a \in job'[j].todo : a[1] = NoTransfer
    BY <2>2
  <2>4. JobShape(j)'
    BY <2>1, <2>2, <2>3 DEF Shape, JobShape, Keeps, Pushed
  <2> QED  BY <2>1, <2>2, <2>4, OthersShape
<1>b. ASSUME NEW j \in Jobs, job' = [job EXCEPT ![j] = Idle], chain' = chain, moved' = moved,
             j # Poller => page' = page
      PROVE  \A k \in Jobs : JobShape(k)'
  BY <1>0, <1>b, EndEffect, ShapeIdle, OthersShape
<1>9. ASSUME NEW j \in Jobs, Fail(j) PROVE \A k \in Jobs : JobShape(k)'
  BY <1>9, <1>b DEF Fail, world, stored
<1>10. CASE StartPass
  <2>1. chain' = chain /\ moved' = moved /\ page' = page /\ ~Pushed
    BY <1>10 DEF StartPass, world, stored
  <2>2. JobShape(Poller)'
    BY <1>0, <1>10, <2>1, StartEffect DEF JobShape, Pushed
  <2> QED  BY <1>0, <1>10, <2>1, <2>2, StartEffect, OthersShape
<1>11. CASE Fetch
  <2>1. chain' = chain /\ moved' = moved /\ job[Poller].pc = "fetch"
    BY <1>11 DEF Fetch, world, At
  <2>2. /\ Others(Poller) /\ Keeps(Poller) /\ page' = Items
        /\ job'[Poller].pc = "tell" /\ job'[Poller].todo = Wanted
    BY <1>0, <1>11, FetchEffect
  <2>3. \A a \in Wanted : a[1] \in Transfers /\ a[1] \in Items /\ a[3] \in Findings(a[1])
    BY <1>0, WantedIs, ItemsAreTransfers
  <2>4. \A x : Findings(x)' = Findings(x)
    BY <2>1, SameFindings
  <2>5. JobShape(Poller)'
    <3>1. job[Poller].event = NoTransfer /\ ~Pushed
      BY <1>0, <2>1 DEF Shape, JobShape
    <3> QED  BY <2>1, <2>2, <2>3, <2>4, <3>1 DEF JobShape, Keeps, Pushed
  <2> QED  BY <1>0, <2>1, <2>2, <2>5, OthersShape
<1>12. CASE Advance
  BY <1>0, <1>12, <1>b DEF Advance, world
<1>13. ASSUME NEW d \in Deliveries, NEW x \in Transfers, Deliver(d, x) PROVE \A j \in Jobs : JobShape(j)'
  <2>1. chain' = chain /\ moved' = moved /\ page' = page /\ Pushed /\ moved[x] # 0 /\ d # Poller
    BY <1>13, MonitorAssumption DEF Deliver, world, stored
  <2>2. JobShape(d)'
    BY <1>0, <1>13, <2>1, DeliverEffect DEF JobShape, Pushed
  <2> QED  BY <1>0, <1>13, <2>1, <2>2, DeliverEffect, OthersShape
<1>14. ASSUME NEW d \in Deliveries, Mark(d) PROVE \A j \in Jobs : JobShape(j)'
  <2>1. chain' = chain /\ moved' = moved /\ page' = page /\ job[d].pc = "mark"
    BY <1>14 DEF Mark, world, At
  <2>2. CASE job[d].event \in marked
    BY <1>0, <1>14, <2>1, <2>2, MarkAgainEffect, ShapeIdle, OthersShape
  <2>3. CASE job[d].event \notin marked
    <3>1. Others(d) /\ Keeps(d) /\ job'[d].pc = "lookup"
      BY <1>0, <1>14, <2>3, MarkEffect
    <3>2. JobShape(d)'
      BY <1>0, <2>1, <3>1, HandlerEvent DEF JobShape, Keeps, Pushed
    <3> QED  BY <1>0, <2>1, <3>1, <3>2, OthersShape
  <2> QED  BY <2>2, <2>3
<1>15. ASSUME NEW d \in Deliveries, LookUp(d) PROVE \A j \in Jobs : JobShape(j)'
  <2>1. chain' = chain /\ moved' = moved /\ page' = page /\ job[d].pc = "lookup"
    BY <1>15 DEF LookUp, world, stored, At
  <2>2. CASE Rows = {}
    <3>1. job' = [job EXCEPT ![d] = Idle]
      BY <1>15, <2>2 DEF LookUp
    <3> QED  BY <1>0, <2>1, <3>1, <1>b
  <2>3. CASE Rows # {}
    <3>1. job[d].event \in Transfers /\ moved[job[d].event] # 0 /\ Pushed /\ d # Poller
      BY <2>1, HandlerEvent
    <3>2. /\ Others(d) /\ job'[d].pc = "tell" /\ job'[d].event = job[d].event
          /\ job'[d].todo = {job[d].event} \X Rows \X Findings(job[d].event)
      BY <1>0, <1>15, <2>3, <3>1, LookUpEffect
    <3>3. \A a \in job'[d].todo : a[1] = job[d].event /\ a[3] \in Findings(a[1])
      BY <3>2
    <3>4. \A x : Findings(x)' = Findings(x)
      BY <2>1, SameFindings
    <3>5. JobShape(d)'
      BY <2>1, <3>1, <3>2, <3>3, <3>4 DEF JobShape, Pushed
    <3> QED  BY <1>0, <2>1, <3>2, <3>5, OthersShape
  <2> QED  BY <2>2, <2>3
<1>16. ASSUME NEW d \in Deliveries, Handled(d) PROVE \A j \in Jobs : JobShape(j)'
  BY <1>0, <1>16, <1>b DEF Handled, world, stored
<1>17. ASSUME NEW x \in Transfers, Forget(x) PROVE \A j \in Jobs : JobShape(j)'
  BY <1>17, <1>a DEF Forget, world
<1>18. CASE Feed
  BY <1>18, <1>a DEF Feed, world, stored
<1>19. CASE UNCHANGED vars
  BY <1>19, <1>a DEF vars, world, stored
<1> QED
  BY <1>1, <1>2, <1>3, <1>4, <1>5, <1>6, <1>7, <1>8, <1>9, <1>10, <1>11, <1>12, <1>13, <1>14,
     <1>15, <1>16, <1>17, <1>18, <1>19 DEF Next

LEMMA PollerShapeStep == Shape /\ [Next]_vars => PollerShape'
<1> SUFFICES ASSUME Shape, [Next]_vars PROVE PollerShape'
  OBVIOUS
<1>0. Poller \in Jobs /\ Deliveries \subseteq Jobs /\ TypeOK /\ PollerShape
  BY DEF Jobs, Shape
<1>t. /\ clock \in Nat /\ checkpoint \in Nat /\ \A x \in Transfers : moved[x] \in Nat
      /\ job[Poller].now \in Nat /\ job[Poller].since \in Nat
  BY <1>0, JobFields DEF TypeOK, Time
\* The handlers, and what concerns neither the poller nor the time.
<1>a. ASSUME job'[Poller] = job[Poller], clock' = clock, moved' = moved, indexed' = indexed,
             \A x \in marked' \ marked : moved[x] # 0, page' = page, checkpoint' = checkpoint
      PROVE  PollerShape'
  BY <1>0, <1>a DEF PollerShape
<1>b. ASSUME NEW j \in Jobs, j # Poller, Others(j) PROVE job'[Poller] = job[Poller]
  BY <1>0, <1>b DEF Others
<1>i. ASSUME job'[Poller] = Idle, clock' = clock, moved' = moved, indexed' = indexed,
             marked' = marked, page' = page \/ page' = NoPage, checkpoint' <= clock
      PROVE  PollerShape'
  <2>1. job'[Poller].pc = "idle"
    BY <1>i, IdleIsJob
  <2> QED  BY <1>0, <1>i, <2>1 DEF PollerShape
<1>1. CASE Tick
  BY <1>0, <1>1, <1>t DEF Tick, world, stored, PollerShape
<1>2. ASSUME NEW x \in Transfers, Transfer(x) PROVE PollerShape'
  <2>1. moved'[x] = clock /\ \A y \in Transfers \ {x} : moved'[y] = moved[y]
    BY <1>0, <1>2 DEF Transfer, TypeOK
  <2>2. x \notin indexed \cup marked
    BY <1>0, <1>2 DEF Transfer, PollerShape
  <2>3. indexed \cup marked \subseteq Transfers
    BY <1>0 DEF TypeOK
  <2>4. /\ clock' = clock /\ indexed' = indexed /\ marked' = marked /\ page' = page
        /\ job' = job /\ checkpoint' = checkpoint
    BY <1>2 DEF Transfer, stored
  <2> QED  BY <1>0, <1>t, <2>1, <2>2, <2>3, <2>4 DEF PollerShape
<1>3. ASSUME NEW x \in Transfers, Index(x) PROVE PollerShape'
  <2>1. page # NoPage => page \subseteq indexed'
    BY <1>0, <1>3 DEF Index, PollerShape
  <2> QED  BY <1>0, <1>3, <2>1 DEF Index, stored, PollerShape
<1>4. ASSUME NEW r \in StateRules, BecomesTrue(r) PROVE PollerShape'
  BY <1>4, <1>a DEF BecomesTrue, stored
<1>5. ASSUME NEW c \in Cases, Watch(c) PROVE PollerShape'
  BY <1>5, <1>a DEF Watch, world
<1>6. ASSUME NEW c \in Cases, Unwatch(c) PROVE PollerShape'
  BY <1>6, <1>a DEF Unwatch, world
<1>7. ASSUME NEW j \in Jobs, Tell(j) PROVE PollerShape'
  <2>1. Others(j) /\ Keeps(j) /\ job'[j].pc = job[j].pc
    BY <1>0, <1>7, TellEffect
  <2>2. CASE j # Poller
    BY <1>7, <2>1, <2>2, <1>a, <1>b DEF Tell, world
  <2>3. CASE j = Poller
    BY <1>0, <1>7, <2>1, <2>3 DEF Tell, world, PollerShape, Keeps
  <2> QED  BY <2>2, <2>3
<1>8. ASSUME NEW j \in Jobs, Judge(j) PROVE PollerShape'
  <2>1. Others(j) /\ Keeps(j) /\ job'[j].pc = "warn" /\ job[j].pc = "tell"
    BY <1>0, <1>8, JudgeEffect DEF Judge, At
  <2>2. CASE j # Poller
    BY <1>8, <2>1, <2>2, <1>a, <1>b DEF Judge, world, stored
  <2>3. CASE j = Poller
    BY <1>0, <1>8, <2>1, <2>3 DEF Judge, world, stored, PollerShape, Keeps
  <2> QED  BY <2>2, <2>3
<1>9. ASSUME NEW j \in Jobs, Fail(j) PROVE PollerShape'
  <2>1. Others(j) /\ job'[j] = Idle
    BY <1>0, <1>9, EndEffect DEF Fail
  <2>2. CASE j # Poller
    BY <1>9, <2>1, <2>2, <1>a, <1>b DEF Fail, world, stored
  <2>3. CASE j = Poller
    BY <1>0, <1>9, <2>1, <2>3, <1>i DEF Fail, world, stored, PollerShape
  <2> QED  BY <2>2, <2>3
<1>10. CASE StartPass
  BY <1>0, <1>t, <1>10, StartEffect DEF StartPass, world, stored, PollerShape
<1>11. CASE Fetch
  <2>1. /\ Keeps(Poller) /\ page' = Items /\ job'[Poller].pc = "tell"
    BY <1>0, <1>11, FetchEffect
  <2>2. Items \subseteq indexed
    BY <1>0 DEF PollerShape, Items, History
  <2>3. NoTransfer \notin Items
    BY <1>0, ItemsAreTransfers, MonitorAssumption
  <2>4. /\ clock' = clock /\ moved' = moved /\ indexed' = indexed /\ marked' = marked
        /\ checkpoint' = checkpoint /\ job[Poller].pc # "idle"
    BY <1>11 DEF Fetch, world, At
  <2> QED  BY <1>0, <2>1, <2>2, <2>3, <2>4 DEF PollerShape, Keeps, NoPage
<1>12. CASE Advance
  <2>1. job'[Poller] = Idle
    BY <1>0, <1>12, EndEffect DEF Advance
  <2>2. job[Poller].now <= clock
    BY <1>0, <1>12 DEF Advance, At, PollerShape
  <2> QED  BY <1>12, <2>1, <2>2, <1>i DEF Advance, world
<1>c. ASSUME NEW d \in Deliveries, Others(d) PROVE job'[Poller] = job[Poller]
  BY <1>0, <1>b, <1>c, MonitorAssumption
<1>13. ASSUME NEW d \in Deliveries, NEW x \in Transfers, Deliver(d, x) PROVE PollerShape'
  <2>1. job'[Poller] = job[Poller]
    BY <1>0, <1>13, <1>c, DeliverEffect
  <2> QED  BY <1>13, <2>1, <1>a DEF Deliver, world, stored
<1>14. ASSUME NEW d \in Deliveries, Mark(d) PROVE PollerShape'
  <2>1. job'[Poller] = job[Poller]
    BY <1>0, <1>14, <1>c, MarkEffect, MarkAgainEffect
  <2>2. moved[job[d].event] # 0
    BY <1>14, HandlerEvent DEF Mark, At
  <2> QED  BY <1>14, <2>1, <2>2, <1>a DEF Mark, world
<1>15. ASSUME NEW d \in Deliveries, LookUp(d) PROVE PollerShape'
  <2>1. job'[Poller] = job[Poller]
    BY <1>0, <1>15, MonitorAssumption DEF LookUp, TypeOK
  <2> QED  BY <1>15, <2>1, <1>a DEF LookUp, world, stored
<1>16. ASSUME NEW d \in Deliveries, Handled(d) PROVE PollerShape'
  <2>1. job'[Poller] = job[Poller]
    BY <1>0, <1>16, <1>c, EndEffect DEF Handled
  <2> QED  BY <1>16, <2>1, <1>a DEF Handled, world, stored
<1>17. ASSUME NEW x \in Transfers, Forget(x) PROVE PollerShape'
  BY <1>17, <1>a DEF Forget, world
<1>18. CASE Feed
  BY <1>18, <1>a DEF Feed, world, stored
<1>19. CASE UNCHANGED vars
  BY <1>19, <1>a DEF vars, world, stored
<1> QED
  BY <1>1, <1>2, <1>3, <1>4, <1>5, <1>6, <1>7, <1>8, <1>9, <1>10, <1>11, <1>12, <1>13, <1>14,
     <1>15, <1>16, <1>17, <1>18, <1>19 DEF Next

LEMMA OwedWatchStep == Shape /\ [Next]_vars => OwedWatch'
<1> SUFFICES ASSUME Shape, [Next]_vars PROVE OwedWatch'
  OBVIOUS
<1>0. OwedWatch
  BY DEF Shape
<1>a. ASSUME owed' = owed, watch' = watch PROVE OwedWatch'
  BY <1>0, <1>a DEF OwedWatch
<1>1. ASSUME NEW x \in Transfers, Transfer(x) PROVE OwedWatch'
  BY <1>0, <1>1 DEF Transfer, stored, OwedWatch
<1>2. ASSUME NEW c \in Cases, Watch(c) PROVE OwedWatch'
  BY <1>0, <1>2 DEF Watch, OwedWatch
<1>3. ASSUME NEW c \in Cases, Unwatch(c) PROVE OwedWatch'
  BY <1>0, <1>3 DEF Unwatch, OwedWatch
<1>4. ASSUME NEW j \in Jobs, Judge(j) PROVE OwedWatch'
  BY <1>0, <1>4 DEF Judge, stored, OwedWatch
<1>5. CASE Tick \/ StartPass \/ Fetch \/ Advance \/ Feed
  BY <1>5, <1>a DEF Tick, StartPass, Fetch, Advance, Feed, stored
<1>6. ASSUME NEW x \in Transfers, Index(x) \/ Forget(x) PROVE OwedWatch'
  BY <1>6, <1>a DEF Index, Forget, stored
<1>7. ASSUME NEW r \in StateRules, BecomesTrue(r) PROVE OwedWatch'
  BY <1>7, <1>a DEF BecomesTrue, stored
<1>8. ASSUME NEW j \in Jobs, Tell(j) \/ Fail(j) PROVE OwedWatch'
  BY <1>8, <1>a DEF Tell, Fail, stored
<1>9. ASSUME NEW d \in Deliveries, (\E x \in Transfers : Deliver(d, x)) \/ Mark(d) \/ LookUp(d) \/ Handled(d)
      PROVE  OwedWatch'
  BY <1>9, <1>a DEF Deliver, Mark, LookUp, Handled, stored
<1>10. CASE UNCHANGED vars
  BY <1>10, <1>a DEF vars, stored
<1> QED
  BY <1>1, <1>2, <1>3, <1>4, <1>5, <1>6, <1>7, <1>8, <1>9, <1>10 DEF Next

LEMMA ShapeStep == Shape /\ [Next]_vars => Shape'
<1> SUFFICES ASSUME Shape, [Next]_vars PROVE Shape'
  OBVIOUS
<1>1. TypeOK'
  BY TypeStep
<1>2. \A j \in Jobs : JobShape(j)'
  BY JobShapeStep
<1>3. PollerShape' /\ OwedWatch'
  BY PollerShapeStep, OwedWatchStep
<1> QED  BY <1>1, <1>2, <1>3 DEF Shape

\* Every variable of the monitor keeps its type: in particular a handler only ever
\* works on a transfer, and every alert names a case and a rule.
THEOREM TypeCorrect == Spec => []TypeOK
<1>1. Shape => TypeOK
  BY DEF Shape
<1> QED  BY <1>1, InitShape, ShapeStep, PTL DEF Spec

-----------------------------------------------------------------------------
(* The second layer *)

\* Told, and the alerts in hand, only grow together.
LEMMA ToldKept ==
    ASSUME chain' = chain, told \subseteq told', NEW x, NEW c, Told(x, c)
    PROVE  Told(x, c)'
<1>1. Findings(x)' = Findings(x)
  BY SameFindings
<1> QED  BY <1>1 DEF Told

LEMMA InHandKept ==
    ASSUME chain' = chain, NEW j, NEW x, NEW c, InHand(j, x, c),
           told \cup job[j].todo \subseteq told' \cup job'[j].todo
    PROVE  InHand(j, x, c)'
<1>1. Findings(x)' = Findings(x)
  BY SameFindings
<1> QED  BY <1>1 DEF InHand

\* With nothing left to tell, what was in hand is told.
LEMMA InHandTold ==
    ASSUME NEW j, NEW x, NEW c, InHand(j, x, c), job[j].todo = {}
    PROVE  Told(x, c)
<1> QED  BY DEF InHand, Told

\* No alert is ever forgotten, and the chain never changes.
LEMMA Grows ==
    ASSUME [Next]_vars
    PROVE  chain' = chain /\ told \subseteq told'
<1>1. CASE Tick \/ StartPass \/ Fetch \/ Advance \/ Feed
  BY <1>1 DEF Tick, StartPass, Fetch, Advance, Feed, world, stored
<1>2. ASSUME NEW x \in Transfers, Transfer(x) \/ Index(x) \/ Forget(x) PROVE chain' = chain /\ told \subseteq told'
  BY <1>2 DEF Transfer, Index, Forget, world, stored
<1>3. ASSUME NEW r \in StateRules, BecomesTrue(r) PROVE chain' = chain /\ told \subseteq told'
  BY <1>3 DEF BecomesTrue, stored
<1>4. ASSUME NEW c \in Cases, Watch(c) \/ Unwatch(c) PROVE chain' = chain /\ told \subseteq told'
  BY <1>4 DEF Watch, Unwatch, world
<1>5. ASSUME NEW j \in Jobs, Tell(j) PROVE chain' = chain /\ told \subseteq told'
  BY <1>5 DEF Tell, world
<1>6. ASSUME NEW j \in Jobs, Judge(j) \/ Fail(j) PROVE chain' = chain /\ told \subseteq told'
  BY <1>6 DEF Judge, Fail, world, stored
<1>7. ASSUME NEW d \in Deliveries, (\E x \in Transfers : Deliver(d, x)) \/ Mark(d) \/ LookUp(d) \/ Handled(d)
      PROVE  chain' = chain /\ told \subseteq told'
  BY <1>7 DEF Deliver, Mark, LookUp, Handled, world, stored
<1>8. CASE UNCHANGED vars
  BY <1>8 DEF vars, world, stored
<1> QED
  BY <1>1, <1>2, <1>3, <1>4, <1>5, <1>6, <1>7, <1>8 DEF Next

\* Who is newly owed an alert about a transfer: only when it happens.
LEMMA NewlyOwed ==
    ASSUME Shape, [Next]_vars, NEW x \in Transfers, NEW c \in Cases, <<x, c>> \in owed', <<x, c>> \notin owed
    PROVE  Transfer(x)
<1>1. CASE Tick \/ StartPass \/ Fetch \/ Advance \/ Feed
  BY <1>1 DEF Tick, StartPass, Fetch, Advance, Feed
<1>2. ASSUME NEW y \in Transfers, Transfer(y) PROVE Transfer(x)
  BY <1>2 DEF Transfer
<1>3. ASSUME NEW y \in Transfers, Index(y) \/ Forget(y) PROVE Transfer(x)
  BY <1>3 DEF Index, Forget
<1>4. ASSUME NEW r \in StateRules, BecomesTrue(r) PROVE Transfer(x)
  BY <1>4 DEF BecomesTrue
<1>5. ASSUME NEW d \in Cases, Watch(d) \/ Unwatch(d) PROVE Transfer(x)
  BY <1>5 DEF Watch, Unwatch
<1>6. ASSUME NEW j \in Jobs, Tell(j) \/ Fail(j) PROVE Transfer(x)
  BY <1>6 DEF Tell, Fail
<1>7. ASSUME NEW j \in Jobs, Judge(j) PROVE Transfer(x)
  <2>1. x \notin StateFindings
    BY MonitorAssumption DEF StateFindings, Shape, TypeOK
  <2> QED  BY <1>7, <2>1 DEF Judge
<1>8. ASSUME NEW d \in Deliveries, (\E y \in Transfers : Deliver(d, y)) \/ Mark(d) \/ LookUp(d) \/ Handled(d)
      PROVE  Transfer(x)
  BY <1>8 DEF Deliver, Mark, LookUp, Handled
<1>9. CASE UNCHANGED vars
  BY <1>9 DEF vars
<1> QED
  BY <1>1, <1>2, <1>3, <1>4, <1>5, <1>6, <1>7, <1>8, <1>9 DEF Next

\* Handler d still has the event x and alerts case c of it.
HasIt(d, x, c) ==
    /\ job[d].event = x
    /\ \/ job[d].pc = "lookup"
       \/ job[d].pc = "tell" /\ InHand(d, x, c)

LEMMA PushInvIs ==
    PushInv <=> (chain = "btc" => \A x \in marked \ excused, c \in Cases : <<x, c>> \in owed =>
                    Told(x, c) \/ \E d \in Deliveries : HasIt(d, x, c))
<1> QED  BY Zenon DEF PushInv, HasIt, At

LEMMA HasItKept ==
    ASSUME Shape, chain' = chain, told \subseteq told', NEW d \in Deliveries, job'[d] = job[d],
           NEW x, NEW c, HasIt(d, x, c)
    PROVE  HasIt(d, x, c)'
<1>1. job[d].pc = "tell" /\ InHand(d, x, c) => InHand(d, x, c)'
  BY InHandKept
<1> QED  BY <1>1 DEF HasIt

LEMMA PushInvStep == Shape /\ PushInv /\ [Next]_vars => PushInv'
<1> SUFFICES ASSUME Shape, PushInv, [Next]_vars, chain' = "btc",
                    NEW x \in marked' \ excused', NEW c \in Cases, <<x, c>> \in owed'
             PROVE  Told(x, c)' \/ \E d \in Deliveries : HasIt(d, x, c)'
  BY PushInvIs DEF PushInv, HasIt, At
<1>0. /\ Poller \in Jobs /\ Deliveries \subseteq Jobs /\ TypeOK /\ PollerShape /\ Pushed
      /\ chain = "btc" /\ chain' = chain /\ told \subseteq told'
      /\ x \in Transfers /\ Shape'
  BY Grows, ShapeStep DEF Jobs, Shape, Pushed, TypeOK
<1> DEFINE Goal == Told(x, c)' \/ \E d \in Deliveries : HasIt(d, x, c)'
<1>o. <<x, c>> \in owed \/ Transfer(x)
  BY <1>0, NewlyOwed
<1>n. Transfer(x) => x \notin marked'
  BY <1>0 DEF Transfer, stored, PollerShape
<1>w. <<x, c>> \in owed
  BY <1>o, <1>n
<1>a. ASSUME x \in marked, x \notin excused, \A d \in Deliveries : HasIt(d, x, c) => Goal PROVE Goal
  <2>1. Told(x, c) => Told(x, c)'
    BY <1>0, ToldKept
  <2>2. Told(x, c) \/ \E d \in Deliveries : HasIt(d, x, c)
    BY <1>0, <1>a, <1>w, PushInvIs
  <2> QED  BY <1>a, <2>1, <2>2
<1>b. ASSUME job' = job, marked' \subseteq marked, excused' = excused PROVE Goal
  <2>1. \A d \in Deliveries : HasIt(d, x, c) => HasIt(d, x, c)'
    BY <1>0, <1>b, HasItKept
  <2> QED  BY <1>a, <1>b, <2>1
\* One handler moves.
<1>c. ASSUME NEW j \in Jobs, Others(j), marked' = marked, excused \subseteq excused',
             j \in Deliveries /\ HasIt(j, x, c) => Goal
      PROVE  Goal
  <2>1. \A d \in Deliveries : d # j /\ HasIt(d, x, c) => HasIt(d, x, c)'
    BY <1>0, <1>c, HasItKept DEF Others
  <2> QED  BY <1>a, <1>c, <2>1
<1>1. CASE Tick \/ Feed
  BY <1>1, <1>b DEF Tick, Feed, stored
<1>2. ASSUME NEW y \in Transfers, Transfer(y) \/ Index(y) \/ Forget(y) PROVE Goal
  BY <1>2, <1>b DEF Transfer, Index, Forget, stored
<1>3. ASSUME NEW r \in StateRules, BecomesTrue(r) PROVE Goal
  BY <1>3, <1>b DEF BecomesTrue, stored
<1>4. ASSUME NEW e \in Cases, Watch(e) \/ Unwatch(e) PROVE Goal
  BY <1>4, <1>b DEF Watch, Unwatch
<1>5. ASSUME NEW j \in Jobs, Tell(j) PROVE Goal
  <2>1. PICK a \in job[j].todo : /\ Others(j) /\ Keeps(j)
                               /\ job'[j].pc = job[j].pc
                               /\ job'[j].todo = job[j].todo \ {a}
                               /\ told' = told \cup {a}
    BY <1>0, <1>5, TellEffect
  <2>2. j \in Deliveries /\ HasIt(j, x, c) => HasIt(j, x, c)'
    <3>1. InHand(j, x, c) => InHand(j, x, c)'
      BY <1>0, <2>1, InHandKept
    <3> QED  BY <2>1, <3>1 DEF HasIt, Keeps
  <2> QED  BY <1>5, <1>c, <2>1, <2>2 DEF Tell
<1>6. ASSUME NEW j \in Jobs, Judge(j) PROVE Goal
  <2>1. Others(j)
    BY <1>0, <1>6, JudgeEffect
  <2>2. HasIt(j, x, c) => Told(x, c)
    BY <1>6, InHandTold DEF Judge, At, HasIt
  <2> QED  BY <1>0, <1>6, <1>c, <2>1, <2>2, ToldKept DEF Judge, stored
<1>7. ASSUME NEW j \in Jobs, Fail(j) PROVE Goal
  <2>1. Others(j)
    BY <1>0, <1>7, EndEffect DEF Fail
  <2>2. ~(j \in Deliveries /\ HasIt(j, x, c))
    BY <1>7, MonitorAssumption DEF Fail, HasIt
  <2> QED  BY <1>7, <1>c, <2>1, <2>2 DEF Fail, stored
<1>8. CASE StartPass \/ Fetch \/ Advance
  BY <1>8, <1>0, PollerRuns DEF StartPass, Fetch, Advance, At
<1>9. ASSUME NEW d \in Deliveries, NEW y \in Transfers, Deliver(d, y) PROVE Goal
  BY <1>0, <1>9, <1>c, DeliverEffect DEF Deliver, HasIt, At, stored
<1>10. ASSUME NEW d \in Deliveries, Mark(d) PROVE Goal
  <2>0. job[d].pc = "mark" /\ marked' = marked \cup {job[d].event} /\ excused' = excused /\ ~HasIt(d, x, c)
    BY <1>10 DEF Mark, At, HasIt
  <2>1. CASE job[d].event \in marked
    BY <1>0, <1>10, <1>c, <2>0, <2>1, MarkAgainEffect
  <2>2. CASE job[d].event \notin marked
    <3>1. Others(d) /\ Keeps(d) /\ job'[d].pc = "lookup"
      BY <1>0, <1>10, <2>2, MarkEffect
    <3>2. CASE x = job[d].event
      BY <3>1, <3>2 DEF HasIt, Keeps
    <3>3. CASE x # job[d].event
      <4>1. \A e \in Deliveries : HasIt(e, x, c) => HasIt(e, x, c)'
        BY <1>0, <2>0, <3>1, HasItKept DEF Others
      <4> QED  BY <1>a, <2>0, <3>3, <4>1
    <3> QED  BY <3>2, <3>3
  <2> QED  BY <2>1, <2>2
<1>11. ASSUME NEW d \in Deliveries, LookUp(d) PROVE Goal
  <2>0. job[d].pc = "lookup" /\ marked' = marked /\ excused' = excused /\ job[d].event \in Transfers
    BY <1>11, HandlerEvent DEF LookUp, At, stored
  <2>1. Rows = watch /\ c \in watch
    BY <1>0, <1>w DEF Rows, Shape, OwedWatch
  <2>2. /\ Others(d) /\ job'[d].pc = "tell" /\ job'[d].event = job[d].event
        /\ job'[d].todo = {job[d].event} \X watch \X Findings(job[d].event)
    BY <1>0, <1>11, <2>0, <2>1, LookUpEffect
  <2>3. job[d].event = x => HasIt(d, x, c)'
    <3> SUFFICES ASSUME job[d].event = x PROVE HasIt(d, x, c)'
      OBVIOUS
    <3>1. Findings(x)' = Findings(x)
      BY <1>0, SameFindings
    <3>2. \A r \in Findings(x) : <<x, c, r>> \in job'[d].todo
      BY <2>1, <2>2
    <3> QED  BY <2>2, <3>1, <3>2 DEF HasIt, InHand
  <2> QED  BY <1>0, <1>c, <2>0, <2>2, <2>3 DEF HasIt
<1>12. ASSUME NEW d \in Deliveries, Handled(d) PROVE Goal
  BY <1>0, <1>12, <1>c, EndEffect DEF Handled, HasIt, At, stored
<1>13. CASE UNCHANGED vars
  BY <1>13, <1>b DEF vars, stored
<1> QED
  BY <1>1, <1>2, <1>3, <1>4, <1>5, <1>6, <1>7, <1>8, <1>9, <1>10, <1>11, <1>12, <1>13 DEF Next

\* What a polled wallet's alerts about x for c depend on.
Polled(x, c) ==
    /\ moved[x] < checkpoint => Told(x, c)
    /\ (job[Poller].pc # "idle" /\ moved[x] < job[Poller].now) =>
          /\ c \in job[Poller].cases
          /\ job[Poller].pc = "tell" => InHand(Poller, x, c)
          /\ job[Poller].pc = "warn" => Told(x, c)

LEMMA PollInvIs ==
    PollInv <=> (~Pushed => \A x \in Transfers \ excused, c \in Cases :
                                (moved[x] # 0 /\ <<x, c>> \in owed) => Polled(x, c))
<1> QED  BY Zenon DEF PollInv, Polled, At

LEMMA PollInvStep == Shape /\ PollInv /\ [Next]_vars => PollInv'
<1> SUFFICES ASSUME Shape, PollInv, [Next]_vars PROVE PollInv'
  OBVIOUS
<1>q. Pushed' = Pushed
  BY Grows DEF Pushed
<1> SUFFICES ASSUME ~Pushed,
                    NEW x \in Transfers \ excused', NEW c \in Cases, moved'[x] # 0, <<x, c>> \in owed'
             PROVE  Polled(x, c)'
  BY <1>q DEF PollInv, Polled, At
<1>0. /\ Poller \in Jobs /\ Deliveries \subseteq Jobs /\ TypeOK /\ PollerShape
      /\ chain' = chain /\ told \subseteq told'
  BY Grows DEF Jobs, Shape
<1>t. /\ clock \in Nat /\ checkpoint \in Nat /\ \A y \in Transfers : moved[y] \in Nat
      /\ job[Poller].now \in Nat
  BY <1>0, JobFields DEF TypeOK, Time
<1>p. \A j \in Jobs : job[j].pc # "idle" => j = Poller
  BY AtWork
<1>o. <<x, c>> \in owed \/ Transfer(x)
  BY <1>0, NewlyOwed
<1>k. Told(x, c) => Told(x, c)'
  BY <1>0, ToldKept
<1>1. CASE Transfer(x)
  <2>1. moved'[x] = clock /\ job' = job /\ checkpoint' = checkpoint
    BY <1>0, <1>1 DEF Transfer, stored, TypeOK
  <2>2. ~(clock < checkpoint) /\ (job[Poller].pc # "idle" => ~(clock < job[Poller].now))
    BY <1>0, <1>t DEF PollerShape
  <2> QED  BY <2>1, <2>2 DEF Polled
<1> SUFFICES ASSUME <<x, c>> \in owed, ~Transfer(x) PROVE Polled(x, c)'
  BY <1>1, <1>o
<1>a. ASSUME moved'[x] = moved[x], x \notin excused PROVE Polled(x, c)
  BY <1>a, PollInvIs
\* Nothing of the poller moves.
<1>b. ASSUME moved'[x] = moved[x], excused' = excused, job' = job, checkpoint' = checkpoint
      PROVE  Polled(x, c)'
  <2>1. Polled(x, c)
    BY <1>a, <1>b
  <2>2. InHand(Poller, x, c) => InHand(Poller, x, c)'
    BY <1>0, <1>b, InHandKept
  <2> QED  BY <1>b, <1>k, <2>1, <2>2 DEF Polled
<1>2. CASE Tick \/ Feed
  BY <1>2, <1>b DEF Tick, Feed, world, stored
<1>3. ASSUME NEW y \in Transfers, Transfer(y) PROVE Polled(x, c)'
  <2>1. y # x
    BY <1>3
  <2>2. moved'[x] = moved[x]
    BY <1>0, <1>3, <2>1 DEF Transfer, TypeOK
  <2> QED  BY <1>3, <1>b, <2>2 DEF Transfer, stored
<1>4. ASSUME NEW y \in Transfers, Index(y) \/ Forget(y) PROVE Polled(x, c)'
  BY <1>4, <1>b DEF Index, Forget, world, stored
<1>5. ASSUME NEW r \in StateRules, BecomesTrue(r) PROVE Polled(x, c)'
  BY <1>5, <1>b DEF BecomesTrue, stored
<1>6. ASSUME NEW e \in Cases, Watch(e) \/ Unwatch(e) PROVE Polled(x, c)'
  BY <1>6, <1>b DEF Watch, Unwatch, world
<1>7. ASSUME NEW j \in Jobs, Tell(j) PROVE Polled(x, c)'
  <2>0. j = Poller
    BY <1>7, <1>p DEF Tell
  <2>1. PICK a \in job[Poller].todo : /\ Keeps(Poller)
                               /\ job'[Poller].pc = job[Poller].pc
                               /\ job'[Poller].todo = job[Poller].todo \ {a}
                               /\ told' = told \cup {a}
    BY <1>0, <1>7, <2>0, TellEffect
  <2>2. moved' = moved /\ excused' = excused /\ checkpoint' = checkpoint
    BY <1>7 DEF Tell, world
  <2>3. Polled(x, c)
    BY <1>a, <2>2
  <2>4. InHand(Poller, x, c) => InHand(Poller, x, c)'
    BY <1>0, <2>1, InHandKept
  <2> QED  BY <1>k, <2>1, <2>2, <2>3, <2>4 DEF Polled, Keeps
<1>8. ASSUME NEW j \in Jobs, Judge(j) PROVE Polled(x, c)'
  <2>0. j = Poller /\ job[Poller].pc = "tell" /\ job[Poller].todo = {}
    BY <1>8, <1>p DEF Judge, At
  <2>1. Keeps(Poller) /\ job'[Poller].pc = "warn"
    BY <1>0, <1>8, <2>0, JudgeEffect
  <2>2. moved' = moved /\ excused' = excused /\ checkpoint' = checkpoint
    BY <1>8 DEF Judge, world, stored
  <2>3. Polled(x, c)
    BY <1>a, <2>2
  <2>4. InHand(Poller, x, c) => Told(x, c)
    BY <2>0, InHandTold
  <2> QED  BY <1>k, <2>0, <2>1, <2>2, <2>3, <2>4 DEF Polled, Keeps
\* The job of the poller ends, and the checkpoint stays.
<1>9. ASSUME NEW j \in Jobs, Fail(j) PROVE Polled(x, c)'
  <2>0. j = Poller
    BY <1>9, <1>p DEF Fail, At
  <2>1. job'[Poller] = Idle
    BY <1>0, <1>9, <2>0, EndEffect DEF Fail
  <2>2. moved' = moved /\ x \notin excused /\ checkpoint' = checkpoint
    BY <1>9 DEF Fail, world, stored
  <2>3. Polled(x, c)
    BY <1>a, <2>2
  <2> QED  BY <1>k, <2>1, <2>2, <2>3, IdleIsJob DEF Polled
<1>10. CASE StartPass
  <2>1. moved' = moved /\ excused' = excused /\ checkpoint' = checkpoint
    BY <1>10 DEF StartPass, world, stored
  <2>2. Polled(x, c)
    BY <1>a, <2>1
  <2>3. c \in watch
    BY DEF Shape, OwedWatch
  <2> QED  BY <1>0, <1>10, <1>k, <2>1, <2>2, <2>3, StartEffect DEF Polled
<1>11. CASE Fetch
  <2>0. job[Poller].pc = "fetch" /\ moved' = moved /\ checkpoint' = checkpoint
    BY <1>11 DEF Fetch, At, world
  <2>1. /\ Keeps(Poller) /\ job'[Poller].pc = "tell" /\ job'[Poller].todo = Wanted
        /\ excused' = excused \cup
             {y \in Transfers \ Items : moved[y] # 0 /\ moved[y] < job[Poller].now
                                         /\ (y \notin indexed \/ page # NoPage)}
    BY <1>0, <1>11, FetchEffect
  <2>2. Polled(x, c)
    BY <1>a, <2>0, <2>1
  <2>3. ASSUME moved[x] < job[Poller].now PROVE c \in job[Poller].cases /\ InHand(Poller, x, c)'
    <3>1. c \in job[Poller].cases
      BY <2>0, <2>2, <2>3 DEF Polled
    <3>2. Findings(x)' = Findings(x)
      BY <1>0, SameFindings
    <3>3. CASE x \in Items
      <4>1. \A r \in Findings(x) : <<x, c, r>> \in Wanted
        BY <3>1, <3>3, WantedIs
      <4> QED  BY <2>1, <3>1, <3>2, <4>1 DEF InHand
    <3>4. CASE x \notin Items
      <4>1. x \in indexed /\ page = NoPage
        BY <2>0, <2>1, <2>3, <3>4
      <4>2. ~(moved[x] >= job[Poller].since)
        BY <3>4, <4>1 DEF Items, History
      <4>3. job[Poller].since = checkpoint
        BY <1>0, <2>0 DEF PollerShape
      <4>4. Told(x, c)
        BY <1>t, <2>2, <4>2, <4>3 DEF Polled
      <4> QED  BY <1>0, <3>1, <3>2, <4>4 DEF Told, InHand
    <3> QED  BY <3>3, <3>4
  <2> QED  BY <1>k, <2>0, <2>1, <2>2, <2>3 DEF Polled, Keeps
<1>12. CASE Advance
  <2>0. job[Poller].pc = "warn" /\ checkpoint' = job[Poller].now /\ moved' = moved /\ excused' = excused
    BY <1>12 DEF Advance, At, world
  <2>1. job'[Poller] = Idle
    BY <1>0, <1>12, EndEffect DEF Advance
  <2>2. Polled(x, c)
    BY <1>a, <2>0
  <2> QED  BY <1>k, <2>0, <2>1, <2>2, IdleIsJob DEF Polled
<1>13. ASSUME NEW d \in Deliveries, (\E y \in Transfers : Deliver(d, y)) \/ Mark(d) \/ LookUp(d) \/ Handled(d)
       PROVE  Polled(x, c)'
  <2>1. Pushed
    BY <1>13, HandlerEvent DEF Deliver, Mark, LookUp, Handled, At
  <2> QED  BY <2>1
<1>14. CASE UNCHANGED vars
  BY <1>14, <1>b DEF vars, world, stored
<1> QED
  BY <1>2, <1>3, <1>4, <1>5, <1>6, <1>7, <1>8, <1>9, <1>10, <1>11, <1>12, <1>13, <1>14 DEF Next

\* A case that watches the wallet is told of every transfer that trips a rule, whatever
\* happens during the pass or between two deliveries: the checkpoint of the poller never
\* moves past a transfer, and a mark never stays, without its alerts.
THEOREM NothingSkipped == Spec => []NoTransferLost
<1>1. Init => Shape /\ PushInv /\ PollInv
  BY InitShape DEF Init, PushInv, PollInv
<1>2. Shape /\ PushInv /\ PollInv /\ [Next]_vars => (Shape /\ PushInv /\ PollInv)'
  BY ShapeStep, PushInvStep, PollInvStep
<1>3. Shape /\ PushInv /\ PollInv => NoTransferLost
  <2> SUFFICES ASSUME Shape, PushInv, PollInv, NEW x \in Transfers, NEW c \in Cases,
                      Settled(x), <<x, c>> \in owed, x \notin excused, chain # "evm"
               PROVE  Told(x, c)
    BY DEF NoTransferLost
  <2>1. CASE Pushed
    <3>1. chain = "btc"
      BY <2>1 DEF Pushed, Shape, TypeOK, Clients
    <3>2. x \in marked /\ \A d \in Deliveries : ~HasIt(d, x, c)
      BY <2>1 DEF Settled, HasIt, Jobs
    <3> QED  BY <3>1, <3>2, PushInvIs
  <2>2. CASE ~Pushed
    BY <2>2, PollInvIs DEF Settled, Polled
  <2> QED  BY <2>1, <2>2
<1> QED  BY <1>1, <1>2, <1>3, PTL DEF Spec

-----------------------------------------------------------------------------
(* The third layer *)

LEMMA PushOnceStep == Shape /\ PushOnce /\ [Next]_vars => PushOnce'
<1> SUFFICES ASSUME Shape, PushOnce, [Next]_vars PROVE PushOnce'
  OBVIOUS
<1>q. Pushed' = Pushed
  BY Grows DEF Pushed
<1> SUFFICES ASSUME Pushed PROVE PushOnce'
  BY <1>q DEF PushOnce
<1>0. /\ Poller \in Jobs /\ Deliveries \subseteq Jobs /\ TypeOK
      /\ \A d \in Deliveries : MarksFirst(d) /\ Fresh(d)
      /\ \A d, e \in Deliveries : Apart(d, e)
      /\ ToldMarked
  BY DEF Jobs, Shape, PushOnce
<1>p. \A j \in Jobs : job[j].pc # "idle" => j \in Deliveries
  BY AtWork
\* No job moves and nothing is told.
<1>a. ASSUME job' = job, told' = told, marked' = marked, repeatable' = repeatable PROVE PushOnce'
  BY <1>0, <1>a DEF PushOnce, MarksFirst, Fresh, Apart, ToldMarked, Single
\* One handler moves and tells nothing.
<1>b. ASSUME NEW d \in Deliveries, Others(d), told' = told, marked \subseteq marked',
             repeatable \subseteq repeatable',
             MarksFirst(d)', Fresh(d)', \A e \in Deliveries : Apart(d, e)'
      PROVE  PushOnce'
  <2>1. \A y : Single(y)' => Single(y)
    BY <1>b DEF Single
  <2>2. ASSUME NEW e \in Deliveries PROVE MarksFirst(e)' /\ Fresh(e)'
    <3>1. CASE e = d
      BY <1>b, <3>1
    <3>2. CASE e # d
      <4>1. job'[e] = job[e]
        BY <1>0, <1>b, <3>2 DEF Others
      <4> QED  BY <1>0, <1>b, <2>1, <4>1 DEF MarksFirst, Fresh
    <3> QED  BY <3>1, <3>2
  <2>3. ASSUME NEW e \in Deliveries, NEW f \in Deliveries PROVE Apart(e, f)'
    <3>1. CASE e = d \/ f = d
      BY <1>b, <3>1 DEF Apart
    <3>2. CASE e # d /\ f # d
      <4>1. job'[e] = job[e] /\ job'[f] = job[f]
        BY <1>0, <1>b, <3>2 DEF Others
      <4> QED  BY <1>0, <4>1 DEF Apart
    <3> QED  BY <3>1, <3>2
  <2>4. ToldMarked'
    BY <1>0, <1>b, <2>1 DEF ToldMarked
  <2> QED  BY <2>2, <2>3, <2>4 DEF PushOnce
<1>c. ASSUME NEW d \in Deliveries, Others(d), told' = told, marked \subseteq marked',
             repeatable \subseteq repeatable', job'[d].pc \in {"idle", "mark"}
      PROVE  PushOnce'
  BY <1>b, <1>c DEF MarksFirst, Fresh, Apart, Past
<1>1. CASE Tick \/ Feed
  BY <1>1, <1>a DEF Tick, Feed, stored
<1>2. ASSUME NEW y \in Transfers, Transfer(y) \/ Index(y) PROVE PushOnce'
  BY <1>2, <1>a DEF Transfer, Index, stored
<1>3. ASSUME NEW r \in StateRules, BecomesTrue(r) PROVE PushOnce'
  BY <1>3, <1>a DEF BecomesTrue, stored
<1>4. ASSUME NEW e \in Cases, Watch(e) \/ Unwatch(e) PROVE PushOnce'
  BY <1>4, <1>a DEF Watch, Unwatch
\* Nobody works on the event whose mark expires.
<1>5. ASSUME NEW x \in Transfers, Forget(x) PROVE PushOnce'
  <2>1. /\ job' = job /\ told' = told /\ marked' = marked \ {x} /\ repeatable' = repeatable \cup {x}
        /\ \A d \in Deliveries : job[d].event # x
    BY <1>0, <1>5 DEF Forget
  <2>2. \A y : Single(y)' <=> Single(y) /\ y # x
    BY <2>1 DEF Single
  <2>3. \A d \in Deliveries : MarksFirst(d)' /\ Fresh(d)'
    BY <1>0, <2>1, <2>2 DEF MarksFirst, Fresh
  <2>4. ToldMarked'
    BY <1>0, <2>1, <2>2 DEF ToldMarked
  <2> QED  BY <1>0, <2>1, <2>3, <2>4 DEF PushOnce, Apart
<1>6. ASSUME NEW j \in Jobs, Tell(j) PROVE PushOnce'
  <2>0. j \in Deliveries /\ marked' = marked /\ repeatable' = repeatable /\ job[j].pc \in {"tell", "warn"}
    BY <1>6, <1>p DEF Tell
  <2>1. PICK a \in job[j].todo : /\ Others(j) /\ Keeps(j)
                               /\ job'[j].pc = job[j].pc
                               /\ job'[j].todo = job[j].todo \ {a}
                               /\ told' = told \cup {a}
    BY <1>0, <1>6, TellEffect
  <2>2. \A y : Single(y)' <=> Single(y)
    BY <2>0 DEF Single
  <2>3. Single(a[1]) => job[j].pc = "tell" /\ a[1] = job[j].event
    BY <2>0, MonitorAssumption DEF Shape, JobShape, Single
  <2>4. \A d \in Deliveries : job'[d].pc = job[d].pc /\ job'[d].event = job[d].event
    BY <1>0, <2>1 DEF Others, Keeps
  <2>5. \A d \in Deliveries : MarksFirst(d)'
    BY <1>0, <2>0, <2>4 DEF MarksFirst
  <2>6. \A d, e \in Deliveries : Apart(d, e)'
    BY <1>0, <2>4 DEF Apart
  <2>7. ToldMarked'
    <3>1. Single(a[1]) => a[1] \in marked
      BY <1>0, <2>0, <2>3 DEF MarksFirst, Past
    <3> QED  BY <1>0, <2>0, <2>1, <2>2, <3>1 DEF ToldMarked
  <2>8. ASSUME NEW d \in Deliveries PROVE Fresh(d)'
    <3>1. CASE d = j
      BY <1>0, <2>0, <2>1, <2>2, <3>1 DEF Fresh
    <3>2. CASE d # j
      <4>1. job'[d] = job[d]
        BY <1>0, <2>1, <3>2 DEF Others
      <4>2. job[d].pc \in Past => job[d].event # job[j].event
        BY <1>0, <2>0, <3>2 DEF Apart, Past
      <4>3. job[d].pc = "tell" => \A b \in job[d].todo : b[1] = job[d].event
        BY <1>0, <2>0, MonitorAssumption DEF Shape, JobShape
      <4> QED  BY <1>0, <2>1, <2>2, <2>3, <4>1, <4>2, <4>3 DEF Fresh, Past
    <3> QED  BY <3>1, <3>2
  <2> QED  BY <2>5, <2>6, <2>7, <2>8 DEF PushOnce
<1>7. ASSUME NEW j \in Jobs, Judge(j) PROVE PushOnce'
  <2>0. /\ j \in Deliveries /\ marked' = marked /\ repeatable' = repeatable /\ told' = told
        /\ job[j].pc = "tell"
    BY <1>7, <1>p DEF Judge, At, stored
  <2>1. Others(j) /\ Keeps(j) /\ job'[j].pc = "warn"
    BY <1>0, <1>7, JudgeEffect
  <2>2. MarksFirst(j)' /\ Fresh(j)'
    BY <1>0, <2>0, <2>1 DEF MarksFirst, Fresh, Keeps, Past
  <2>3. \A e \in Deliveries : Apart(j, e)'
    BY <1>0, <2>0, <2>1 DEF Apart, Keeps, Others, Past
  <2> QED  BY <1>b, <2>0, <2>1, <2>2, <2>3
<1>8. ASSUME NEW j \in Jobs, Fail(j) PROVE PushOnce'
  <2>1. /\ j \in Deliveries /\ told' = told /\ marked' = marked /\ repeatable \subseteq repeatable'
    BY <1>8, <1>p DEF Fail, At, stored
  <2>2. Others(j) /\ job'[j] = Idle
    BY <1>0, <1>8, EndEffect DEF Fail
  <2> QED  BY <1>c, <2>1, <2>2, IdleIsJob
<1>9. CASE StartPass \/ Fetch \/ Advance
  BY <1>9, <1>0, PollerRuns DEF StartPass, Fetch, Advance, At
<1>10. ASSUME NEW d \in Deliveries, NEW y \in Transfers, Deliver(d, y) PROVE PushOnce'
  BY <1>0, <1>10, <1>c, DeliverEffect DEF Deliver, stored
<1>11. ASSUME NEW d \in Deliveries, Mark(d) PROVE PushOnce'
  <2>0. /\ job[d].pc = "mark" /\ marked' = marked \cup {job[d].event} /\ told' = told
        /\ repeatable' = repeatable
    BY <1>11 DEF Mark, At
  <2>1. CASE job[d].event \in marked
    BY <1>0, <1>11, <1>c, <2>0, <2>1, MarkAgainEffect, IdleIsJob
  <2>2. CASE job[d].event \notin marked
    <3>1. Others(d) /\ Keeps(d) /\ job'[d].pc = "lookup"
      BY <1>0, <1>11, <2>2, MarkEffect
    <3>2. MarksFirst(d)'
      BY <2>0, <3>1 DEF MarksFirst, Keeps
    <3>3. Fresh(d)'
      BY <1>0, <2>0, <2>2, <3>1 DEF Fresh, Keeps, ToldMarked, Single
    <3>4. \A e \in Deliveries : Apart(d, e)'
      BY <1>0, <2>2, <3>1 DEF Apart, Keeps, Others, MarksFirst
    <3> QED  BY <1>b, <2>0, <3>1, <3>2, <3>3, <3>4
  <2> QED  BY <2>1, <2>2
<1>12. ASSUME NEW d \in Deliveries, LookUp(d) PROVE PushOnce'
  <2>0. /\ job[d].pc = "lookup" /\ marked' = marked /\ told' = told /\ repeatable' = repeatable
        /\ job[d].event \in Transfers
    BY <1>12, HandlerEvent DEF LookUp, At, stored
  <2>1. CASE Rows = {}
    <3>1. job' = [job EXCEPT ![d] = Idle]
      BY <1>12, <2>1 DEF LookUp
    <3> QED  BY <1>0, <1>c, <2>0, <3>1, EndEffect, IdleIsJob
  <2>2. CASE Rows # {}
    <3>1. /\ Others(d) /\ job'[d].pc = "tell" /\ job'[d].event = job[d].event
          /\ job'[d].todo = {job[d].event} \X Rows \X Findings(job[d].event)
      BY <1>0, <1>12, <2>0, <2>2, LookUpEffect
    <3>2. \A a \in job'[d].todo : a[1] = job[d].event
      BY <3>1
    <3>3. MarksFirst(d)'
      BY <1>0, <2>0, <3>1 DEF MarksFirst, Past
    <3>4. Fresh(d)'
      BY <1>0, <2>0, <3>1, <3>2 DEF Fresh, Single
    <3>5. \A e \in Deliveries : Apart(d, e)'
      BY <1>0, <2>0, <3>1 DEF Apart, Others, Past
    <3> QED  BY <1>b, <2>0, <3>1, <3>3, <3>4, <3>5
  <2> QED  BY <2>1, <2>2
<1>13. ASSUME NEW d \in Deliveries, Handled(d) PROVE PushOnce'
  BY <1>0, <1>13, <1>c, EndEffect, IdleIsJob DEF Handled, stored
<1>14. CASE UNCHANGED vars
  BY <1>14, <1>a DEF vars, stored
<1> QED
  BY <1>1, <1>2, <1>3, <1>4, <1>5, <1>6, <1>7, <1>8, <1>9, <1>10, <1>11, <1>12, <1>13, <1>14 DEF Next

LEMMA PollOnceStep == Shape /\ PollOnce /\ [Next]_vars => PollOnce'
<1> SUFFICES ASSUME Shape, PollOnce, [Next]_vars PROVE PollOnce'
  OBVIOUS
<1>q. Pushed' = Pushed
  BY Grows DEF Pushed
<1> SUFFICES ASSUME ~Pushed PROVE PollOnce'
  BY <1>q DEF PollOnce
<1>0. /\ Poller \in Jobs /\ TypeOK /\ PollerShape
      /\ OldPage /\ ToldBehind /\ PageBehind /\ StillToTell
  BY DEF Jobs, Shape, PollOnce
<1>t. /\ clock \in Nat /\ checkpoint \in Nat /\ \A y \in Transfers : moved[y] \in Nat
      /\ job[Poller].now \in Nat
  BY <1>0, JobFields DEF TypeOK, Time
<1>p. \A j \in Jobs : job[j].pc # "idle" => j = Poller
  BY AtWork
<1>a. ASSUME job' = job, told' = told, page' = page, repeatable \subseteq repeatable',
             moved' = moved, checkpoint' = checkpoint
      PROVE  PollOnce'
  BY <1>0, <1>a DEF PollOnce, OldPage, OnPage, ToldBehind, PageBehind, StillToTell, Single
<1>1. CASE Tick \/ Feed
  BY <1>1, <1>a DEF Tick, Feed, stored, world
<1>2. ASSUME NEW x \in Transfers, Transfer(x) PROVE PollOnce'
  <2>1. moved[x] = 0 /\ \A y \in Transfers \ {x} : moved'[y] = moved[y]
    BY <1>0, <1>2 DEF Transfer, TypeOK
  <2>2. /\ job' = job /\ told' = told /\ page' = page /\ repeatable' = repeatable
        /\ checkpoint' = checkpoint
    BY <1>2 DEF Transfer, stored
  <2>3. ~OnPage(x)
    <3>1. x \notin indexed
      BY <1>0, <2>1 DEF PollerShape
    <3> QED  BY <1>0, <3>1 DEF OnPage, PollerShape
  <2>4. ToldBehind'
    <3> SUFFICES ASSUME NEW a \in told, Single(a[1])
                 PROVE  moved'[a[1]] # 0 /\ (moved'[a[1]] < checkpoint \/ OnPage(a[1]))
      BY <2>2 DEF ToldBehind, Single, OnPage
    <3>1. moved[a[1]] # 0 /\ (moved[a[1]] < checkpoint \/ OnPage(a[1])) /\ a[1] \in Transfers
      BY <1>0 DEF ToldBehind, Single
    <3> QED  BY <2>1, <3>1
  <2>5. PageBehind'
    BY <1>0, <2>1, <2>2, <2>3 DEF PageBehind, OnPage, Single
  <2> QED  BY <1>0, <2>2, <2>4, <2>5 DEF PollOnce, OldPage, StillToTell, Single
<1>3. ASSUME NEW x \in Transfers, Index(x) \/ Forget(x) PROVE PollOnce'
  BY <1>3, <1>a DEF Index, Forget, stored, world
<1>4. ASSUME NEW r \in StateRules, BecomesTrue(r) PROVE PollOnce'
  BY <1>4, <1>a DEF BecomesTrue, stored
<1>5. ASSUME NEW e \in Cases, Watch(e) \/ Unwatch(e) PROVE PollOnce'
  BY <1>5, <1>a DEF Watch, Unwatch, world
<1>6. ASSUME NEW j \in Jobs, Tell(j) PROVE PollOnce'
  <2>0. /\ j = Poller /\ job[Poller].pc \in {"tell", "warn"} /\ page' = page
        /\ repeatable' = repeatable /\ moved' = moved /\ checkpoint' = checkpoint
    BY <1>6, <1>p DEF Tell, world
  <2>1. PICK a \in job[Poller].todo : /\ Keeps(Poller)
                               /\ job'[Poller].pc = job[Poller].pc
                               /\ job'[Poller].todo = job[Poller].todo \ {a}
                               /\ told' = told \cup {a}
    BY <1>0, <1>6, <2>0, TellEffect
  <2>2. Single(a[1]) => a[1] \in page
    BY <1>0, <2>0, MonitorAssumption DEF Shape, JobShape, Single
  <2>3. \A x : Single(x)' <=> Single(x)
    BY <2>0 DEF Single
  <2>4. \A x : OnPage(x)' <=> OnPage(x)
    BY <2>0, <2>1 DEF OnPage
  <2>5. OldPage'
    BY <2>0, <2>1 DEF OldPage
  <2>6. ToldBehind'
    <3>1. ASSUME Single(a[1]) PROVE moved[a[1]] # 0 /\ OnPage(a[1])
      <4>1. a[1] \in page /\ page # NoPage
        BY <1>0, <2>0, <2>2, <3>1 DEF PollerShape
      <4> QED  BY <1>0, <2>0, <4>1 DEF PollerShape, OnPage
    <3> QED  BY <1>0, <2>0, <2>1, <2>3, <2>4, <3>1 DEF ToldBehind
  <2>7. PageBehind'
    BY <1>0, <2>0, <2>1, <2>3, <2>4 DEF PageBehind, Keeps
  <2>8. StillToTell'
    BY <1>0, <2>1, <2>3 DEF StillToTell
  <2> QED  BY <2>5, <2>6, <2>7, <2>8 DEF PollOnce
<1>7. ASSUME NEW j \in Jobs, Judge(j) PROVE PollOnce'
  <2>0. /\ j = Poller /\ job[Poller].pc = "tell" /\ page' = page /\ told' = told
        /\ repeatable' = repeatable /\ moved' = moved /\ checkpoint' = checkpoint
    BY <1>7, <1>p DEF Judge, At, world, stored
  <2>1. Keeps(Poller) /\ job'[Poller].pc = "warn"
    BY <1>0, <1>7, <2>0, JudgeEffect
  <2>2. \A x : (Single(x)' <=> Single(x)) /\ (OnPage(x)' <=> OnPage(x))
    BY <2>0, <2>1 DEF OnPage, Single
  <2> QED
    BY <1>0, <2>0, <2>1, <2>2 DEF PollOnce, OldPage, ToldBehind, PageBehind, StillToTell, Keeps
\* The page of a pass that fails may be judged again.
<1>8. ASSUME NEW j \in Jobs, Fail(j) PROVE PollOnce'
  <2>0. /\ j = Poller /\ page' = page /\ told' = told /\ moved' = moved /\ checkpoint' = checkpoint
        /\ repeatable' = IF page = NoPage THEN repeatable ELSE repeatable \cup page
    BY <1>8, <1>p DEF Fail, At, world, stored
  <2>1. job'[Poller].pc = "idle"
    BY <1>0, <1>8, <2>0, EndEffect, IdleIsJob DEF Fail
  <2>2. \A x : Single(x)' => Single(x) /\ ~OnPage(x)
    <3>1. \A x : OnPage(x) => page # NoPage
      BY <1>0 DEF OnPage, PollerShape
    <3> QED  BY <2>0, <3>1 DEF Single, OnPage
  <2>3. ToldBehind'
    BY <1>0, <2>0, <2>2 DEF ToldBehind
  <2>4. OldPage'
    BY <2>0 DEF OldPage
  <2> QED  BY <2>1, <2>3, <2>4 DEF PollOnce, PageBehind, OnPage, StillToTell
<1>9. CASE StartPass
  <2>0. /\ job[Poller].pc = "idle" /\ page' = page /\ told' = told /\ moved' = moved
        /\ checkpoint' = checkpoint /\ repeatable' = repeatable
    BY <1>9 DEF StartPass, At, world, stored
  <2>1. job'[Poller].pc = "fetch"
    BY <1>0, <1>9, StartEffect
  <2> QED
    BY <1>0, <2>0, <2>1 DEF PollOnce, OldPage, ToldBehind, PageBehind, StillToTell, OnPage, Single
<1>10. CASE Fetch
  <2>0. /\ job[Poller].pc = "fetch" /\ told' = told /\ moved' = moved /\ checkpoint' = checkpoint
    BY <1>10 DEF Fetch, At, world
  <2>1. /\ Keeps(Poller) /\ job'[Poller].pc = "tell" /\ job'[Poller].todo = Wanted /\ page' = Items
        /\ repeatable' = repeatable \cup {x \in Items : moved[x] >= job[Poller].now}
    BY <1>0, <1>10, FetchEffect
  <2>2. \A x : Single(x)' => Single(x)
    BY <2>1 DEF Single
  <2>3. ToldBehind'
    BY <1>0, <2>0, <2>2 DEF ToldBehind, OnPage
  <2>4. PageBehind'
    BY <1>t, <2>0, <2>1 DEF PageBehind, OnPage, Single, Keeps
  <2>5. StillToTell'
    <3> SUFFICES ASSUME NEW a \in Wanted, Single(a[1])', a \in told PROVE FALSE
      BY <2>0, <2>1 DEF StillToTell
    <3>1. a[1] \in Items /\ Single(a[1])
      BY <2>2, WantedIs
    <3>2. moved[a[1]] < checkpoint
      BY <1>0, <2>0, <3>1 DEF ToldBehind, OnPage
    <3>3. page = NoPage
      BY <1>0, <2>0, <3>1 DEF OldPage, Items, Single
    <3>4. moved[a[1]] >= job[Poller].since
      BY <3>1, <3>3 DEF Items, History
    <3>5. job[Poller].since = checkpoint /\ a[1] \in Transfers
      BY <1>0, <2>0, <3>1 DEF PollerShape, Single
    <3> QED  BY <1>t, <3>2, <3>4, <3>5
  <2> QED  BY <2>1, <2>3, <2>4, <2>5 DEF PollOnce, OldPage
<1>11. CASE Advance
  <2>0. /\ job[Poller].pc = "warn" /\ told' = told /\ moved' = moved /\ page' = NoPage
        /\ checkpoint' = job[Poller].now /\ repeatable' = repeatable
    BY <1>11 DEF Advance, At, world
  <2>1. job'[Poller].pc = "idle"
    BY <1>0, <1>11, EndEffect, IdleIsJob DEF Advance
  <2>2. ToldBehind'
    <3> SUFFICES ASSUME NEW a \in told, Single(a[1])
                 PROVE  moved[a[1]] # 0 /\ moved[a[1]] < job[Poller].now
      BY <2>0 DEF ToldBehind, Single
    <3>1. moved[a[1]] # 0 /\ (moved[a[1]] < checkpoint \/ OnPage(a[1])) /\ a[1] \in Transfers
      BY <1>0 DEF ToldBehind, Single
    <3>2. checkpoint <= job[Poller].now
      BY <1>0, <2>0 DEF PollerShape
    <3> QED  BY <1>0, <1>t, <3>1, <3>2 DEF PageBehind
  <2> QED  BY <2>0, <2>1, <2>2 DEF PollOnce, OldPage, PageBehind, OnPage, StillToTell
<1>12. ASSUME NEW d \in Deliveries, (\E y \in Transfers : Deliver(d, y)) \/ Mark(d) \/ LookUp(d) \/ Handled(d)
       PROVE  PollOnce'
  <2>1. Pushed
    BY <1>12, HandlerEvent DEF Deliver, Mark, LookUp, Handled, At
  <2> QED  BY <2>1
<1>13. CASE UNCHANGED vars
  BY <1>13, <1>a DEF vars, world, stored
<1> QED
  BY <1>1, <1>2, <1>3, <1>4, <1>5, <1>6, <1>7, <1>8, <1>9, <1>10, <1>11, <1>12, <1>13 DEF Next

\* What is told a second time may be told a second time.
LEMMA RetoldStep ==
    Shape /\ PushOnce /\ PollOnce /\ NoRepeatedAlert /\ [Next]_vars => NoRepeatedAlert'
<1> SUFFICES ASSUME Shape, PushOnce, PollOnce, NoRepeatedAlert, [Next]_vars PROVE NoRepeatedAlert'
  OBVIOUS
<1>0. TypeOK
  BY DEF Shape
<1>a. ASSUME retold' = retold, repeatable \subseteq repeatable' PROVE NoRepeatedAlert'
  BY <1>a DEF NoRepeatedAlert
<1>1. CASE Tick \/ StartPass \/ Fetch \/ Advance \/ Feed
  BY <1>1, <1>a DEF Tick, StartPass, Fetch, Advance, Feed, stored
<1>2. ASSUME NEW y \in Transfers, Transfer(y) \/ Index(y) \/ Forget(y) PROVE NoRepeatedAlert'
  BY <1>2, <1>a DEF Transfer, Index, Forget, stored
<1>3. ASSUME NEW r \in StateRules, BecomesTrue(r) PROVE NoRepeatedAlert'
  BY <1>3, <1>a DEF BecomesTrue, stored
<1>4. ASSUME NEW e \in Cases, Watch(e) \/ Unwatch(e) PROVE NoRepeatedAlert'
  BY <1>4, <1>a DEF Watch, Unwatch
<1>5. ASSUME NEW j \in Jobs, Tell(j) PROVE NoRepeatedAlert'
  <2>0. job[j].pc \in {"tell", "warn"} /\ repeatable' = repeatable
    BY <1>5 DEF Tell
  <2>1. PICK a \in job[j].todo : retold' = IF a \in told THEN retold \cup {a} ELSE retold
    BY <1>0, <1>5, TellEffect
  <2>2. ASSUME a \in told, a[1] # NoTransfer PROVE a[1] \in repeatable
    <3>1. job[j].pc = "tell" /\ a[1] \in Transfers
      BY <2>0, <2>2 DEF Shape, JobShape
    <3>2. CASE Pushed
      <4>1. j \in Deliveries
        BY <3>1, <3>2, AtWork
      <4> QED  BY <2>2, <3>1, <3>2, <4>1 DEF PushOnce, Fresh, Single
    <3>3. CASE ~Pushed
      <4>1. j = Poller
        BY <3>1, <3>3, AtWork
      <4> QED  BY <2>2, <3>1, <3>3, <4>1 DEF PollOnce, StillToTell, Single
    <3> QED  BY <3>2, <3>3
  <2> QED  BY <2>0, <2>1, <2>2 DEF NoRepeatedAlert
<1>6. ASSUME NEW j \in Jobs, Judge(j) \/ Fail(j) PROVE NoRepeatedAlert'
  BY <1>6, <1>a DEF Judge, Fail, stored
<1>7. ASSUME NEW d \in Deliveries, (\E x \in Transfers : Deliver(d, x)) \/ Mark(d) \/ LookUp(d) \/ Handled(d)
      PROVE  NoRepeatedAlert'
  BY <1>7, <1>a DEF Deliver, Mark, LookUp, Handled, stored
<1>8. CASE UNCHANGED vars
  BY <1>8, <1>a DEF vars, stored
<1> QED
  BY <1>1, <1>2, <1>3, <1>4, <1>5, <1>6, <1>7, <1>8 DEF Next

Once == Shape /\ PushOnce /\ PollOnce /\ NoRepeatedAlert

LEMMA OnceInductive == (Init => Once) /\ (Once /\ [Next]_vars => Once')
<1>1. ASSUME Init PROVE Once
  <2>1. Shape
    BY <1>1, InitShape
  <2>2. \A j \in Jobs : job[j].pc = "idle"
    BY <1>1, IdleIsJob DEF Init
  <2>3. Deliveries \subseteq Jobs /\ Poller \in Jobs /\ told = {} /\ retold = {} /\ page = NoPage
    BY <1>1 DEF Init, Jobs
  <2>4. PushOnce
    BY <2>2, <2>3 DEF PushOnce, MarksFirst, Fresh, Apart, ToldMarked, Past
  <2>5. PollOnce
    BY <2>2, <2>3 DEF PollOnce, OldPage, ToldBehind, PageBehind, OnPage, StillToTell
  <2> QED  BY <2>1, <2>3, <2>4, <2>5 DEF Once, NoRepeatedAlert
<1>2. Once /\ [Next]_vars => Once'
  BY ShapeStep, PushOnceStep, PollOnceStep, RetoldStep DEF Once
<1> QED  BY <1>1, <1>2

\* No alert about a transfer is stored a second time, by the passes of the poller or by the
\* handlers of one event, but for the transfers the code lets be judged again.
THEOREM NothingRepeated == Spec => []NoRepeatedAlert
<1>1. Init => Once
  BY OnceInductive
<1>2. Once /\ [Next]_vars => Once'
  BY OnceInductive
<1>3. Once => NoRepeatedAlert
  BY DEF Once
<1> QED  BY <1>1, <1>2, <1>3, PTL DEF Spec

-----------------------------------------------------------------------------
(* The fourth layer *)

LEMMA FreshStateStep == Shape /\ FreshState /\ [Next]_vars => FreshState'
<1> SUFFICES ASSUME Shape, FreshState, [Next]_vars PROVE FreshState'
  OBVIOUS
<1>q. Pushed' = Pushed
  BY Grows DEF Pushed
<1> SUFFICES ASSUME ~Pushed PROVE FreshState'
  BY <1>q DEF FreshState
<1>0. Poller \in Jobs /\ TypeOK
  BY DEF Jobs, Shape
<1>p. \A j \in Jobs : job[j].pc # "idle" => j = Poller
  BY AtWork
<1>a. ASSUME job' = job, told' = told PROVE FreshState'
  BY <1>q, <1>a DEF FreshState
<1>1. CASE Tick \/ Feed
  BY <1>1, <1>a DEF Tick, Feed, stored
<1>2. ASSUME NEW y \in Transfers, Transfer(y) \/ Index(y) \/ Forget(y) PROVE FreshState'
  BY <1>2, <1>a DEF Transfer, Index, Forget, stored
<1>3. ASSUME NEW r \in StateRules, BecomesTrue(r) PROVE FreshState'
  BY <1>3, <1>a DEF BecomesTrue, stored
<1>4. ASSUME NEW e \in Cases, Watch(e) \/ Unwatch(e) PROVE FreshState'
  BY <1>4, <1>a DEF Watch, Unwatch
<1>5. ASSUME NEW j \in Jobs, Tell(j) PROVE FreshState'
  <2>0. j = Poller
    BY <1>5, <1>p DEF Tell
  <2> QED  BY <1>0, <1>5, <2>0, TellEffect DEF FreshState
<1>6. ASSUME NEW j \in Jobs, Judge(j) PROVE FreshState'
  <2>0. j = Poller /\ told' = told
    BY <1>6, <1>p DEF Judge, At, stored
  <2>1. job'[Poller].todo = {NoTransfer} \X job[Poller].cases \X StateFindings
    BY <1>0, <1>6, <2>0, JudgeEffect
  <2>2. job[Poller].cases \subseteq Cases
    BY <1>0, JobFields DEF TypeOK
  <2>3. \A r \in StateFindings, c \in Cases : <<NoTransfer, c, r>> \notin told
    BY DEF StateFindings
  <2>4. ASSUME NEW a \in job'[Poller].todo PROVE a \notin told
    <3>1. PICK c \in Cases, r \in StateFindings : a = <<NoTransfer, c, r>>
      BY <2>1, <2>2, <2>4
    <3> QED  BY <2>3, <3>1
  <2> QED  BY <2>0, <2>4 DEF FreshState
<1>7. ASSUME NEW j \in Jobs, Fail(j) PROVE FreshState'
  <2>0. j = Poller
    BY <1>7, <1>p DEF Fail, At
  <2> QED  BY <1>0, <1>7, <2>0, EndEffect, IdleIsJob DEF FreshState, Fail
<1>8. CASE StartPass
  BY <1>0, <1>8, StartEffect DEF FreshState
<1>9. CASE Fetch
  BY <1>0, <1>9, FetchEffect DEF FreshState
<1>10. CASE Advance
  BY <1>0, <1>10, EndEffect, IdleIsJob DEF FreshState, Advance
<1>11. ASSUME NEW d \in Deliveries, (\E y \in Transfers : Deliver(d, y)) \/ Mark(d) \/ LookUp(d) \/ Handled(d)
       PROVE  FreshState'
  <2>1. Pushed
    BY <1>11, HandlerEvent DEF Deliver, Mark, LookUp, Handled, At
  <2> QED  BY <2>1
<1>12. CASE UNCHANGED vars
  BY <1>12, <1>a DEF vars, stored
<1> QED
  BY <1>1, <1>2, <1>3, <1>4, <1>5, <1>6, <1>7, <1>8, <1>9, <1>10, <1>11, <1>12 DEF Next

LEMMA StateRetoldStep == Shape /\ FreshState /\ StateToldOnce /\ [Next]_vars => StateToldOnce'
<1> SUFFICES ASSUME Shape, FreshState, StateToldOnce, [Next]_vars PROVE StateToldOnce'
  OBVIOUS
<1>q. Pushed' = Pushed
  BY Grows DEF Pushed
<1>a. ASSUME retold' = retold PROVE StateToldOnce'
  BY <1>q, <1>a DEF StateToldOnce
<1>1. CASE Tick \/ StartPass \/ Fetch \/ Advance \/ Feed
  BY <1>1, <1>a DEF Tick, StartPass, Fetch, Advance, Feed, stored
<1>2. ASSUME NEW y \in Transfers, Transfer(y) \/ Index(y) \/ Forget(y) PROVE StateToldOnce'
  BY <1>2, <1>a DEF Transfer, Index, Forget, stored
<1>3. ASSUME NEW r \in StateRules, BecomesTrue(r) PROVE StateToldOnce'
  BY <1>3, <1>a DEF BecomesTrue, stored
<1>4. ASSUME NEW e \in Cases, Watch(e) \/ Unwatch(e) PROVE StateToldOnce'
  BY <1>4, <1>a DEF Watch, Unwatch
<1>5. ASSUME NEW j \in Jobs, Tell(j) PROVE StateToldOnce'
  <2> SUFFICES ASSUME ~Pushed PROVE StateToldOnce'
    BY <1>q DEF StateToldOnce
  <2>0. j = Poller /\ job[Poller].pc \in {"tell", "warn"}
    BY <1>5, AtWork DEF Tell
  <2>1. PICK a \in job[Poller].todo : retold' = IF a \in told THEN retold \cup {a} ELSE retold
    BY <1>5, <2>0, TellEffect DEF Shape
  <2>2. a \in told => a[1] # NoTransfer
    BY <1>5, <2>0, MonitorAssumption DEF Shape, JobShape, FreshState
  <2> QED  BY <2>1, <2>2 DEF StateToldOnce
<1>6. ASSUME NEW j \in Jobs, Judge(j) \/ Fail(j) PROVE StateToldOnce'
  BY <1>6, <1>a DEF Judge, Fail, stored
<1>7. ASSUME NEW d \in Deliveries, (\E x \in Transfers : Deliver(d, x)) \/ Mark(d) \/ LookUp(d) \/ Handled(d)
      PROVE  StateToldOnce'
  BY <1>7, <1>a DEF Deliver, Mark, LookUp, Handled, stored
<1>8. CASE UNCHANGED vars
  BY <1>8, <1>a DEF vars, stored
<1> QED
  BY <1>1, <1>2, <1>3, <1>4, <1>5, <1>6, <1>7, <1>8 DEF Next

\* A polled wallet's A4 and A5 alerts are stored once for each case.
THEOREM StateOnce == Spec => []StateToldOnce
<1>1. Init => Shape /\ FreshState /\ StateToldOnce
  <2> SUFFICES ASSUME Init PROVE Shape /\ FreshState /\ StateToldOnce
    OBVIOUS
  <2> QED  BY InitShape DEF Init, FreshState, StateToldOnce
<1>2. Shape /\ FreshState /\ StateToldOnce /\ [Next]_vars => (Shape /\ FreshState /\ StateToldOnce)'
  BY ShapeStep, FreshStateStep, StateRetoldStep
<1> QED  BY <1>1, <1>2, PTL DEF Spec

LEMMA StatePendingStep == Shape /\ StatePending /\ [Next]_vars => StatePending'
<1> SUFFICES ASSUME Shape, StatePending, [Next]_vars PROVE StatePending'
  OBVIOUS
<1>g. excused \subseteq excused'
  <2>1. CASE Tick \/ StartPass \/ Fetch \/ Advance \/ Feed
    BY <2>1 DEF Tick, StartPass, Fetch, Advance, Feed
  <2>2. ASSUME NEW y \in Transfers, Transfer(y) \/ Index(y) \/ Forget(y) PROVE excused \subseteq excused'
    BY <2>2 DEF Transfer, Index, Forget
  <2>3. ASSUME NEW r \in StateRules, BecomesTrue(r) PROVE excused \subseteq excused'
    BY <2>3 DEF BecomesTrue
  <2>4. ASSUME NEW e \in Cases, Watch(e) \/ Unwatch(e) PROVE excused \subseteq excused'
    BY <2>4 DEF Watch, Unwatch
  <2>5. ASSUME NEW j \in Jobs, Tell(j) \/ Judge(j) \/ Fail(j) PROVE excused \subseteq excused'
    BY <2>5 DEF Tell, Judge, Fail
  <2>6. ASSUME NEW d \in Deliveries, (\E y \in Transfers : Deliver(d, y)) \/ Mark(d) \/ LookUp(d) \/ Handled(d)
        PROVE  excused \subseteq excused'
    BY <2>6 DEF Deliver, Mark, LookUp, Handled
  <2>7. CASE UNCHANGED vars
    BY <2>7 DEF vars
  <2> QED  BY <2>1, <2>2, <2>3, <2>4, <2>5, <2>6, <2>7 DEF Next
<1> SUFFICES ASSUME NoTransfer \notin excused',
                    NEW r \in StateRules, NEW c \in Cases, <<r, c>> \in owed'
             PROVE  <<NoTransfer, c, r>> \in told' \/ Pending(<<NoTransfer, c, r>>)'
  BY DEF StatePending, Pending
<1> DEFINE b == <<NoTransfer, c, r>>
<1> DEFINE Goal == b \in told' \/ Pending(b)'
<1>0. Poller \in Jobs /\ Deliveries \subseteq Jobs /\ TypeOK /\ told \subseteq told'
  BY Grows DEF Jobs, Shape
<1>w. <<r, c>> \in owed => b \in told \/ Pending(b)
  BY <1>g DEF StatePending
<1> SUFFICES Goal
  OBVIOUS
<1> HIDE DEF b
<1>a. ASSUME job' = job, <<r, c>> \in owed PROVE Goal
  BY <1>0, <1>w, <1>a DEF Pending
\* One job moves.
<1>b. ASSUME NEW j \in Jobs, Others(j), <<r, c>> \in owed,
             job[j].pc = "warn" /\ b \in job[j].todo => Goal
      PROVE  Goal
  BY <1>0, <1>w, <1>b DEF Pending, Others
<1>1. CASE Tick \/ Feed
  BY <1>1, <1>a DEF Tick, Feed
<1>2. ASSUME NEW x \in Transfers, Transfer(x) PROVE Goal
  <2>1. r # x
    BY MonitorAssumption
  <2> QED  BY <1>2, <1>a, <2>1 DEF Transfer
<1>3. ASSUME NEW x \in Transfers, Index(x) \/ Forget(x) PROVE Goal
  BY <1>3, <1>a DEF Index, Forget
<1>4. ASSUME NEW s \in StateRules, BecomesTrue(s) PROVE Goal
  BY <1>4, <1>a DEF BecomesTrue
<1>5. ASSUME NEW e \in Cases, Watch(e) \/ Unwatch(e) PROVE Goal
  BY <1>5, <1>a DEF Watch, Unwatch
<1>6. ASSUME NEW j \in Jobs, Tell(j) PROVE Goal
  <2>0. <<r, c>> \in owed
    BY <1>6 DEF Tell
  <2>1. PICK a \in job[j].todo : /\ Others(j)
                               /\ job'[j].pc = job[j].pc
                               /\ job'[j].todo = job[j].todo \ {a}
                               /\ told' = told \cup {a}
    BY <1>0, <1>6, TellEffect
  <2>2. job[j].pc = "warn" /\ b \in job[j].todo => Goal
    BY <2>1 DEF Pending
  <2> QED  BY <1>b, <2>0, <2>1, <2>2
<1>7. ASSUME NEW j \in Jobs, Judge(j) PROVE Goal
  <2>0. /\ owed' = owed \cup (StateFindings \X (job[j].cases \cap watch))
        /\ job[j].pc = "tell"
    BY <1>7 DEF Judge, At
  <2>1. /\ Others(j) /\ job'[j].pc = "warn"
        /\ job'[j].todo = {NoTransfer} \X job[j].cases \X StateFindings
    BY <1>0, <1>7, JudgeEffect
  <2>2. CASE <<r, c>> \in owed
    BY <1>b, <2>0, <2>1, <2>2
  <2>3. CASE <<r, c>> \in StateFindings \X (job[j].cases \cap watch)
    <3>1. b \in job'[j].todo
      BY <2>1, <2>3 DEF b
    <3> QED  BY <2>1, <3>1 DEF Pending
  <2> QED  BY <2>0, <2>2, <2>3
<1>8. ASSUME NEW j \in Jobs, Fail(j) PROVE Goal
  BY <1>8 DEF Fail
<1>9. CASE StartPass
  BY <1>0, <1>9, <1>b, StartEffect DEF StartPass, At
<1>10. CASE Fetch
  BY <1>0, <1>10, <1>b, FetchEffect DEF Fetch, At
<1>11. CASE Advance
  BY <1>0, <1>11, <1>b, EndEffect DEF Advance
<1>12. ASSUME NEW d \in Deliveries, NEW x \in Transfers, Deliver(d, x) PROVE Goal
  BY <1>0, <1>12, <1>b, DeliverEffect DEF Deliver, At
<1>13. ASSUME NEW d \in Deliveries, Mark(d) PROVE Goal
  BY <1>0, <1>13, <1>b, MarkEffect, MarkAgainEffect DEF Mark, At
<1>14. ASSUME NEW d \in Deliveries, LookUp(d) PROVE Goal
  <2>1. Others(d)
    BY <1>0, <1>14 DEF LookUp, TypeOK, Others
  <2> QED  BY <1>0, <1>14, <1>b, <2>1 DEF LookUp, At
<1>15. ASSUME NEW d \in Deliveries, Handled(d) PROVE Goal
  BY <1>0, <1>15, <1>b, EndEffect DEF Handled
<1>16. CASE UNCHANGED vars
  BY <1>16, <1>a DEF vars
<1> QED
  BY <1>1, <1>2, <1>3, <1>4, <1>5, <1>6, <1>7, <1>8, <1>9, <1>10, <1>11, <1>12, <1>13, <1>14,
     <1>15, <1>16 DEF Next

\* When A4 or A5 is announced, every case that watches then hears of it, unless a pass fails
\* half way.
THEOREM StateReachesAll == Spec => []StateAlertReachesAll
<1>1. Init => Shape /\ StatePending
  BY InitShape DEF Init, StatePending
<1>2. Shape /\ StatePending /\ [Next]_vars => (Shape /\ StatePending)'
  BY ShapeStep, StatePendingStep
<1>3. Shape /\ StatePending => StateAlertReachesAll
  BY DEF StatePending, Pending, StateAlertReachesAll, At
<1> QED  BY <1>1, <1>2, <1>3, PTL DEF Spec


-----------------------------------------------------------------------------
(* The connections *)

\* Who was given the list has repeated it on every open line. The start has given it to nobody
\* before it is over, and to everybody then, if no connection failed meanwhile.
FeedInv ==
    /\ FeedTypeOK
    /\ \A c \in watching : line[c] # "open"
    /\ awaited # {} => watching = {}
    /\ ~troubled => /\ awaited = {} => watching = Clients
                    /\ awaited # {} => \A c \in Clients \ awaited : line[c] = "open"

LEMMA OpenKeeps == ASSUME FeedInv, NEW c \in Clients, Open(c) PROVE FeedInv'
<1> USE DEF FeedInv, FeedTypeOK
<1>1. CASE Subscribe(c)
  <2>1. awaited = {c} /\ awaited' = {} /\ UNCHANGED troubled
    BY <1>1 DEF Open, Subscribe
  <2>2. /\ watching' = IF c # "evm" /\ line["evm"] = "connecting" THEN {"evm"} ELSE Clients
        /\ line' = [d \in Clients |->
              IF d \in watching' /\ (d = c \/ line[d] = "open") THEN "tracking" ELSE line[d]]
    BY <1>1 DEF Subscribe
  <2>3. FeedTypeOK'
    BY <2>1, <2>2 DEF Open, Clients
  <2>4. \A d \in watching' : line'[d] # "open"
    BY <2>2 DEF Clients
  <2>5. ~troubled => watching' = Clients
    BY <2>1, <2>2 DEF Clients
  <2> QED  BY <2>1, <2>3, <2>4, <2>5
<1>2. CASE awaited # {c}
  <2>1. /\ awaited' = awaited \ {c} /\ UNCHANGED <<watching, troubled>>
        /\ line' = [line EXCEPT ![c] = IF c \in watching THEN "tracking" ELSE "open"]
    BY <1>2 DEF Open, Subscribe
  <2>2. awaited = {} <=> awaited' = {}
    BY <1>2, <2>1
  <2> QED  BY <2>1, <2>2 DEF Open
<1> QED  BY <1>1, <1>2 DEF Open

LEMMA FeedInvStep == FeedInv /\ [Next]_vars => FeedInv'
<1> SUFFICES ASSUME FeedInv, [Next]_vars PROVE FeedInv'
  OBVIOUS
<1>1. CASE UNCHANGED feed
  BY <1>1 DEF feed, FeedInv, FeedTypeOK
<1>2. CASE Feed
  <2>1. CASE StartAgain(watch # {})
    BY <2>1 DEF StartAgain, Started, FeedInv, FeedTypeOK, Clients
  <2>2. ASSUME NEW c \in Clients, Open(c) PROVE FeedInv'
    BY <2>2, OpenKeeps
  <2>3. ASSUME NEW c \in Clients, Close(c) PROVE FeedInv'
    BY <2>3 DEF Close, FeedInv, FeedTypeOK
  <2>4. ASSUME NEW c \in Clients, Reconnect(c) PROVE FeedInv'
    BY <2>4 DEF Reconnect, FeedInv, FeedTypeOK
  <2> QED  BY <1>2, <2>1, <2>2, <2>3, <2>4 DEF Feed
<1>3. Feed \/ UNCHANGED feed
  BY DEF Next, vars, Tick, StartPass, Fetch, Advance, Transfer, Index, Forget, Deliver,
         BecomesTrue, Watch, Unwatch, Tell, Judge, Fail, Mark, LookUp, Handled
<1> QED  BY <1>1, <1>2, <1>3

\* Once the worker has started undisturbed, an open line is one that was told what to track,
\* for any number of failures.
THEOREM OpenLinesAreHeard == Spec => []OpenLinesTrack
<1>1. Init => FeedInv
  BY DEF Init, FeedInit, Started, FeedInv, FeedTypeOK, Clients
<1>2. FeedInv => OpenLinesTrack
  BY DEF FeedInv, OpenLinesTrack
<1> QED  BY <1>1, <1>2, FeedInvStep, PTL DEF Spec
=============================================================================
