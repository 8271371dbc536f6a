------------------------------- MODULE TraceJob -------------------------------
(***************************************************************************)
(* The life of one trace: the importer that creates its row and enqueues   *)
(* it (apps/api/src/intake), the BullMQ job with its attempts, and the     *)
(* worker's runs (workers/trace/engine.ts, workers/src/index.ts) that walk *)
(* it, store its hops in Postgres and then in Neo4j, and announce the end. *)
(* The walk itself is TraceWalk; here it is a row of batches. Runs are     *)
(* interrupted by failing calls, by the death of the worker, and by BullMQ *)
(* taking a job for stalled while its run is alive.                        *)
(***************************************************************************)
EXTENDS Naturals, FiniteSets

CONSTANTS
    Imports,     \* imports of files that contain the complaint
    Runs,        \* slots of the workers that may run the job
    Attempts,    \* attempts of the BullMQ job
    MaxStalls,   \* stalls BullMQ forgives a job
    Batches,     \* flushes of one walk
    NoRun,
    Faults       \* what may go wrong

ASSUME TraceJobAssumption ==
    /\ Attempts \in Nat \ {0}
    /\ MaxStalls \in Nat
    /\ Batches \in Nat \ {0}
    /\ NoRun \notin Runs
    /\ Faults \subseteq {"queue", "row", "store", "publish", "crash", "stall"}

VARIABLES
    row,       \* TraceJob.status
    import,    \* import[i]: how far the import is
    job,       \* the BullMQ job: state, attemptsMade, stalls, owner of the lock
    run,       \* run[r]: where runTrace is, its batch, opts.attempt.made
    pg, neo,   \* the batches in the Hop table, and in Neo4j
    watched,   \* are the frontier addresses on the watchlist?
    told,      \* trace.completed events: with the terminals, or without any
    mishaps    \* observation: which of crash, stall and row failure have occurred

vars == <<row, import, job, run, pg, neo, watched, told, mishaps>>

Job == [state : {"none", "waiting", "active", "completed", "failed"},
        made : 0 .. Attempts, stalls : 0 .. MaxStalls + 1, owner : Runs \cup {NoRun}]
Places == {"idle", "load", "again", "start", "pg", "neo", "complete", "hooks", "publish", "catch"}
Run == [pc : Places, batch : 1 .. Batches, made : 0 .. Attempts]
NoJob == [state |-> "none", made |-> 0, stalls |-> 0, owner |-> NoRun]
Idle == [pc |-> "idle", batch |-> 1, made |-> 0]

TypeOK ==
    /\ row \in {"ABSENT", "QUEUED", "RUNNING", "COMPLETED", "FAILED"}
    /\ import \in [Imports -> {"idle", "committed", "done"}]
    /\ job \in Job
    /\ run \in [Runs -> Run]
    /\ pg \subseteq 1 .. Batches /\ neo \subseteq 1 .. Batches
    /\ watched \in BOOLEAN
    /\ told \subseteq {"terminals", "empty"}
    /\ mishaps \subseteq {"row", "crash", "stall"}

Init ==
    /\ row = "ABSENT"
    /\ import = [i \in Imports |-> "idle"]
    /\ job = NoJob
    /\ run = [r \in Runs |-> Idle]
    /\ pg = {} /\ neo = {}
    /\ watched = FALSE
    /\ told = {}
    /\ mishaps = {}

-----------------------------------------------------------------------------
(* intake/service.ts and intake/queue.ts                                   *)

\* ingest up to the enqueue: the first import creates the row in one transaction;
\* any other finds a duplicate, and takes the job along if its row is still QUEUED.
Import(i) ==
    /\ import[i] = "idle"
    /\ row' = IF row = "ABSENT" THEN "QUEUED" ELSE row
    /\ import' = [import EXCEPT ![i] = IF row \in {"ABSENT", "QUEUED"} THEN "committed" ELSE "done"]
    /\ UNCHANGED <<job, run, pg, neo, watched, told, mishaps>>

\* Variant: enqueue without a job id of its own.
AddAlways == job' = [NoJob EXCEPT !.state = "waiting"]

\* addBulk with jobId trace_<id>: nothing happens while BullMQ knows the job.
Add == IF job.state = "none" THEN job' = [NoJob EXCEPT !.state = "waiting"] ELSE UNCHANGED job

\* The job is added, or Redis does not answer before the deadline (the job may have
\* been added all the same), or the API dies: the row stays QUEUED.
Enqueue(i) ==
    /\ import[i] = "committed"
    /\ \/ Add
       \/ "queue" \in Faults /\ UNCHANGED job
    /\ import' = [import EXCEPT ![i] = "done"]
    /\ UNCHANGED <<row, run, pg, neo, watched, told, mishaps>>

-----------------------------------------------------------------------------
(* BullMQ                                                                  *)

Take(r) ==
    /\ run[r].pc = "idle"
    /\ job.state = "waiting"
    /\ job' = [job EXCEPT !.state = "active", !.owner = r]
    /\ run' = [run EXCEPT ![r] = [pc |-> "load", batch |-> 1, made |-> job.made]]
    /\ UNCHANGED <<row, import, pg, neo, watched, told, mishaps>>

\* runTrace has returned; a run that lost the lock changes nothing.
Return(r) ==
    /\ run' = [run EXCEPT ![r] = Idle]
    /\ job' = IF job.owner = r THEN [job EXCEPT !.state = "completed", !.owner = NoRun] ELSE job

\* runTrace has thrown: BullMQ tries again as long as there are attempts.
Throw(r) ==
    /\ run' = [run EXCEPT ![r] = Idle]
    /\ job' = IF job.owner # r THEN job
              ELSE [job EXCEPT !.made = @ + 1, !.owner = NoRun,
                               !.state = IF job.made + 1 < Attempts THEN "waiting" ELSE "failed"]

\* The lock of an active job has expired: its worker is dead, or too busy to renew
\* it. The job is started over, unless it has stalled too often.
Stalled ==
    /\ job.state = "active"
    /\ run[job.owner].pc = "idle" \/ "stall" \in Faults
    /\ mishaps' = IF run[job.owner].pc = "idle" THEN mishaps ELSE mishaps \cup {"stall"}
    /\ job' = [job EXCEPT !.stalls = @ + 1, !.owner = NoRun,
                          !.state = IF job.stalls < MaxStalls THEN "waiting" ELSE "failed"]
    /\ UNCHANGED <<row, import, run, pg, neo, watched, told>>

\* removeOnComplete: the job is forgotten when enough others have completed.
Evict ==
    /\ job.state = "completed"
    /\ job' = NoJob
    /\ UNCHANGED <<row, import, run, pg, neo, watched, told, mishaps>>

-----------------------------------------------------------------------------
(* runTrace                                                                *)

At(r, place) == run[r].pc = place
Goto(r, place) == run' = [run EXCEPT ![r].pc = place] /\ UNCHANGED job

Load(r) ==
    /\ At(r, "load")
    /\ Goto(r, IF row = "COMPLETED" THEN "again" ELSE "start")
    /\ UNCHANGED <<row, import, pg, neo, watched, told, mishaps>>

\* A COMPLETED job is not walked again: trace.completed goes out without terminals.
AnnounceAgain(r) ==
    /\ At(r, "again")
    /\ told' = told \cup {"empty"}
    /\ Return(r)
    /\ UNCHANGED <<row, import, pg, neo, watched, mishaps>>

SetRunning(r) ==
    /\ At(r, "start")
    /\ row' = "RUNNING"
    /\ Goto(r, "pg")
    /\ UNCHANGED <<import, pg, neo, watched, told, mishaps>>

\* flush: hop.createMany ...
StoreHops(r) ==
    /\ At(r, "pg")
    /\ pg' = pg \cup {run[r].batch}
    /\ Goto(r, "neo")
    /\ UNCHANGED <<row, import, neo, watched, told, mishaps>>

\* Variant: the walk is over after a flush, whatever is still to come.
StoreGraphSkips(r) ==
    /\ At(r, "neo")
    /\ neo' = neo \cup {run[r].batch}
    /\ run' = [run EXCEPT ![r].pc = "complete"]
    /\ UNCHANGED <<row, import, job, pg, watched, told, mishaps>>

\* ... then writeGraphHops; after the last batch the walk is over.
StoreGraph(r) ==
    /\ At(r, "neo")
    /\ neo' = neo \cup {run[r].batch}
    /\ IF run[r].batch < Batches
       THEN run' = [run EXCEPT ![r].pc = "pg", ![r].batch = @ + 1]
       ELSE run' = [run EXCEPT ![r].pc = "complete"]
    /\ UNCHANGED <<row, import, job, pg, watched, told, mishaps>>

Complete(r) ==
    /\ At(r, "complete")
    /\ row' = "COMPLETED"
    /\ Goto(r, "hooks")
    /\ UNCHANGED <<import, pg, neo, watched, told, mishaps>>

\* onTerminal: a hook that fails is logged, the trace goes on.
Hooks(r) ==
    /\ At(r, "hooks")
    /\ \/ watched' = TRUE
       \/ "row" \in Faults /\ UNCHANGED watched
    /\ Goto(r, "publish")
    /\ UNCHANGED <<row, import, pg, neo, told, mishaps>>

Announce(r) ==
    /\ At(r, "publish")
    /\ told' = told \cup {"terminals"}
    /\ Return(r)
    /\ UNCHANGED <<row, import, pg, neo, watched, mishaps>>

\* Variant: every failed attempt marks the row.
CatchAlways(r) ==
    /\ At(r, "catch")
    /\ row' = "FAILED"
    /\ Throw(r)
    /\ UNCHANGED <<import, pg, neo, watched, told, mishaps>>

\* Variant: the last attempt is one too late to know that it is the last.
CatchTooLate(r) ==
    /\ At(r, "catch")
    /\ row' = row
    /\ Throw(r)
    /\ UNCHANGED <<import, pg, neo, watched, told, mishaps>>

\* The catch block: only the final attempt marks the row FAILED.
Catch(r) ==
    /\ At(r, "catch")
    /\ row' = IF run[r].made + 1 >= Attempts THEN "FAILED" ELSE row
    /\ Throw(r)
    /\ UNCHANGED <<import, pg, neo, watched, told, mishaps>>

-----------------------------------------------------------------------------
(* Failures                                                                *)

\* A call to a store, to a provider or to Redis throws inside the try block.
WalkFails(r) ==
    /\ \/ "store" \in Faults /\ run[r].pc \in {"pg", "neo"}
       \/ "publish" \in Faults /\ run[r].pc \in {"pg", "publish"}
    /\ Goto(r, "catch")
    /\ UNCHANGED <<row, import, pg, neo, watched, told, mishaps>>

\* The event of a COMPLETED job is published outside the try block.
AgainFails(r) ==
    /\ "publish" \in Faults
    /\ At(r, "again")
    /\ Throw(r)
    /\ UNCHANGED <<row, import, pg, neo, watched, told, mishaps>>

\* The row cannot be read or written: outside the try block (load, start), inside
\* it (complete), or in the catch block itself.
RowFails(r) ==
    /\ "row" \in Faults
    /\ \/ run[r].pc \in {"load", "start", "catch"} /\ Throw(r)
       \/ At(r, "complete") /\ Goto(r, "catch")
    /\ mishaps' = mishaps \cup {"row"}
    /\ UNCHANGED <<row, import, pg, neo, watched, told>>

\* The worker dies in the middle of a run.
Crash(r) ==
    /\ "crash" \in Faults
    /\ run[r].pc # "idle"
    /\ run' = [run EXCEPT ![r] = Idle]
    /\ mishaps' = mishaps \cup {"crash"}
    /\ UNCHANGED <<row, import, job, pg, neo, watched, told>>

-----------------------------------------------------------------------------
Walk(r) == Load(r) \/ AnnounceAgain(r) \/ SetRunning(r) \/ StoreHops(r) \/ StoreGraph(r)
             \/ Complete(r) \/ Hooks(r) \/ Announce(r) \/ Catch(r)
Fail(r) == WalkFails(r) \/ AgainFails(r) \/ RowFails(r) \/ Crash(r)

Next == \/ \E i \in Imports : Import(i) \/ Enqueue(i)
        \/ \E r \in Runs : Take(r) \/ Walk(r) \/ Fail(r)
        \/ Stalled \/ Evict

Spec == Init /\ [][Next]_vars

\* A worker that lives takes waiting jobs and goes on with its run; BullMQ's check
\* for stalled jobs recurs. Nothing makes anybody import.
FairSpec == /\ Spec
            /\ WF_vars(\E r \in Runs : Take(r)) /\ WF_vars(Stalled)
            /\ \A r \in Runs : WF_vars(Walk(r))

-----------------------------------------------------------------------------
(* Properties                                                              *)

Everything == 1 .. Batches

\* A trace that shows COMPLETED, or was announced with its terminals, is stored to
\* the last hop in both databases, whichever attempts, dead or overlapping, wrote it.
AnnouncedIsStored ==
    (row = "COMPLETED" \/ told # {}) => (pg = Everything /\ neo = Everything)

\* The graph never shows a transfer the Hop table does not have, also between the two
\* writes of a flush, after one of them failed, and while two runs overlap.
GraphTrailsTable == neo \subseteq pg

\* "same job id => no double enqueue" (service.ts:349): however often the complaint is
\* imported, and whatever becomes of the attempts, two runs are under way at once only
\* if BullMQ took a live one for stalled.
OneWalkAtATime ==
    "stall" \in mishaps \/ Cardinality({r \in Runs : run[r].pc # "idle"}) <= 1

\* COMPLETED is left only by the last attempt, whose announcement failed, or by a run
\* that was taken for stalled; a retry, a re-import or a restart never touches it.
CompletedStays ==
    [][row = "COMPLETED" /\ row' # row
         => \/ "stall" \in mishaps
            \/ row' = "FAILED" /\ job.made + 1 = Attempts]_vars

\* A job that waits is a trace that ends COMPLETED or FAILED, whatever the stores and
\* the event channel do, unless its row cannot be written or a worker is lost.
TraceEnds ==
    (job.state = "waiting") ~> (row \in {"COMPLETED", "FAILED"} \/ mishaps # {})
=============================================================================
