----------------------------- MODULE TraceProofs -----------------------------
(***************************************************************************)
(* What a trace promises: its job, for any number of imports, workers,     *)
(* attempts, stalls and batches and any mixture of faults; and its walk,   *)
(* for every graph of transfers and every setting of the engine.           *)
(*                                                                         *)
(* Runs of the job are told apart by the lock of the BullMQ job: as long   *)
(* as BullMQ has not taken a live run for stalled, the only run is the     *)
(* owner of the lock. The stores only grow, and a run knows what it has    *)
(* written itself; that is enough for them even when runs overlap.         *)
(***************************************************************************)
EXTENDS TraceJob, TraceWalk, FiniteSetTheorems, WellFoundedInduction, TLAPS

Alive == {"waiting", "active"}

\* BullMQ's own bookkeeping, and what a run knows of its attempt.
QueueInv ==
    /\ job.state = "active" => job.owner \in Runs
    /\ job.state # "active" => job.owner = NoRun
    /\ job.state \in Alive => job.made < Attempts /\ job.stalls <= MaxStalls
    /\ \A r \in Runs : run[r].pc # "idle" /\ job.owner = r => run[r].made = job.made

\* Whatever a run has passed is in both stores.
StoreInv ==
    /\ neo \subseteq pg
    /\ \A r \in Runs : run[r].pc \in {"load", "start"} => run[r].batch = 1
    /\ \A r \in Runs : run[r].pc \in {"pg", "neo"} => 1 .. (run[r].batch - 1) \subseteq neo
    /\ \A r \in Runs : run[r].pc = "neo" => run[r].batch \in pg
    /\ \A r \in Runs : run[r].pc \in {"again", "complete", "hooks", "publish"} => neo = Everything
    /\ row = "COMPLETED" \/ told # {} => neo = Everything

\* Without a false stall a run owns the lock, and has not completed the row already.
LockInv ==
    "stall" \notin mishaps => \A r \in Runs :
        /\ run[r].pc # "idle" => job.owner = r
        /\ run[r].pc \in {"start", "pg", "neo", "complete"} => row # "COMPLETED"

IInv == TypeOK /\ QueueInv /\ StoreInv /\ LockInv

-----------------------------------------------------------------------------
(* The ways in which a step changes the runs and the job                   *)

\* A run that moves on keeps its batch and its attempt.
LEMMA GotoFacts ==
    ASSUME TypeOK, NEW r \in Runs, NEW place \in Places, Goto(r, place)
    PROVE  /\ run' \in [Runs -> Run]
           /\ run'[r].pc = place
           /\ run'[r].batch = run[r].batch
           /\ run'[r].made = run[r].made
           /\ \A q \in Runs \ {r} : run'[q] = run[q]
           /\ job' = job
<1>1. run[r] \in Run
  BY DEF TypeOK
<1>2. run' = [run EXCEPT ![r] = [run[r] EXCEPT !.pc = place]] /\ job' = job
  BY DEF Goto
<1>3. [run[r] EXCEPT !.pc = place] \in Run
  BY <1>1 DEF Run
<1>4. run'[r] = [run[r] EXCEPT !.pc = place]
  BY <1>2 DEF TypeOK
<1> QED BY <1>1, <1>2, <1>3, <1>4 DEF TypeOK, Run

\* A run that ends leaves an idle slot behind.
LEMMA IdleFacts ==
    ASSUME TypeOK, NEW r \in Runs, run' = [run EXCEPT ![r] = Idle]
    PROVE  /\ run' \in [Runs -> Run]
           /\ run'[r].pc = "idle"
           /\ \A q \in Runs \ {r} : run'[q] = run[q]
<1>1. Idle \in Run /\ Idle.pc = "idle"
  BY TraceJobAssumption DEF Idle, Run, Places
<1> QED BY <1>1 DEF TypeOK

\* A step that leaves the job alone, and gives no run the attempt of another job,
\* leaves the bookkeeping alone.
LEMMA QueueFrame ==
    ASSUME TypeOK, QueueInv, NEW r \in Runs, job' = job,
           run'[r].pc = "idle" \/ (run[r].pc # "idle" /\ run'[r].made = run[r].made),
           \A q \in Runs \ {r} : run'[q] = run[q]
    PROVE  QueueInv'
  BY DEF QueueInv, Alive

\* The end of a run, good or bad, is entered in the books if it still has the lock.
LEMMA EndFacts ==
    ASSUME TypeOK, QueueInv, NEW r \in Runs, Return(r) \/ Throw(r)
    PROVE  /\ job' \in Job
           /\ QueueInv'
           /\ run' \in [Runs -> Run]
           /\ run'[r].pc = "idle"
           /\ \A q \in Runs \ {r} : run'[q] = run[q]
           /\ job' = job \/ job'.owner = NoRun
           /\ \A q \in Runs \ {r} : job.owner = q => job'.owner = q
<1>1. /\ run' \in [Runs -> Run]
      /\ run'[r].pc = "idle"
      /\ \A q \in Runs \ {r} : run'[q] = run[q]
  BY IdleFacts DEF Return, Throw
<1>2. job \in Job
  BY DEF TypeOK
<1>3. CASE job.owner # r
  <2>1. job' = job
    BY <1>3 DEF Return, Throw
  <2> QED BY <1>1, <1>2, <2>1, QueueFrame
<1>4. CASE job.owner = r
  <2>1. r # NoRun
    BY TraceJobAssumption
  <2>2. job.state = "active" /\ job.made < Attempts
    BY <1>4, <2>1 DEF QueueInv, Alive
  <2>3. CASE Return(r)
    <3>1. job' = [job EXCEPT !.state = "completed", !.owner = NoRun]
      BY <1>4, <2>3 DEF Return
    <3>2. job' \in Job /\ job'.state = "completed" /\ job'.owner = NoRun
      BY <1>2, <3>1 DEF Job
    <3> QED BY <1>1, <1>4, <3>2, TraceJobAssumption DEF QueueInv, Alive
  <2>4. CASE Throw(r)
    <3> DEFINE next == IF job.made + 1 < Attempts THEN "waiting" ELSE "failed"
    <3>1. job' = [job EXCEPT !.made = job.made + 1, !.owner = NoRun, !.state = next]
      BY <1>4, <2>4 DEF Throw
    <3>2. job.made + 1 \in 0 .. Attempts
      BY <1>2, <2>2, TraceJobAssumption, SMT DEF Job
    <3>3. /\ job' \in Job /\ job'.state = next /\ job'.owner = NoRun
          /\ job'.made = job.made + 1 /\ job'.stalls = job.stalls
      BY <1>2, <3>1, <3>2 DEF Job
    <3>4. job'.state \in Alive => job'.made < Attempts /\ job'.stalls <= MaxStalls
      BY <2>2, <3>3 DEF Alive, QueueInv
    <3> HIDE DEF next
    <3>5. job'.state # "active"
      BY <3>3 DEF next
    <3> QED BY <1>1, <1>4, <3>3, <3>4, <3>5, TraceJobAssumption DEF QueueInv
  <2> QED BY <2>3, <2>4
<1> QED BY <1>3, <1>4

-----------------------------------------------------------------------------
(* Steps of the importer and of BullMQ                                     *)

\* Importing and enqueueing touch no run.
LEMMA ImportStep ==
    ASSUME IInv, NEW i \in Imports, Import(i) \/ Enqueue(i)
    PROVE  IInv'
<1> USE DEF IInv
<1>1. CASE Import(i)
  <2>1. /\ row' = row \/ (row = "ABSENT" /\ row' = "QUEUED")
        /\ UNCHANGED <<job, run, pg, neo, watched, told, mishaps>>
    BY <1>1 DEF Import
  <2>2. row' = "COMPLETED" => row = "COMPLETED"
    BY <2>1
  <2>3. TypeOK'
    <3>1. import' \in [Imports -> {"idle", "committed", "done"}]
      BY <1>1 DEF Import, TypeOK
    <3> QED BY <2>1, <3>1 DEF TypeOK
  <2>4. QueueInv' /\ StoreInv' /\ LockInv'
    BY <2>1, <2>2 DEF QueueInv, StoreInv, LockInv
  <2> QED BY <2>3, <2>4
<1>2. CASE Enqueue(i)
  <2>1. /\ job' = job \/ (job.state = "none" /\ job' = [NoJob EXCEPT !.state = "waiting"])
        /\ UNCHANGED <<row, run, pg, neo, watched, told, mishaps>>
    BY <1>2 DEF Enqueue, Add
  <2>2. import' \in [Imports -> {"idle", "committed", "done"}]
    BY <1>2 DEF Enqueue, TypeOK
  <2>3. CASE job' = job
    BY <2>1, <2>2, <2>3 DEF TypeOK, QueueInv, StoreInv, LockInv
  <2>4. CASE job.state = "none" /\ job' = [NoJob EXCEPT !.state = "waiting"]
    <3>1. job' = [state |-> "waiting", made |-> 0, stalls |-> 0, owner |-> NoRun]
      BY <2>4 DEF NoJob
    <3>2. job' \in Job
      BY <3>1, TraceJobAssumption DEF Job
    <3>3. TypeOK'
      BY <2>1, <2>2, <3>2 DEF TypeOK
    <3>4. QueueInv'
      BY <2>1, <3>1, TraceJobAssumption DEF QueueInv, Alive
    <3>5. job.owner = NoRun
      BY <2>4 DEF QueueInv
    <3>6. LockInv'
      BY <2>1, <3>1, <3>5 DEF LockInv
    <3>7. StoreInv'
      BY <2>1 DEF StoreInv
    <3> QED BY <3>3, <3>4, <3>6, <3>7
  <2> QED BY <2>1, <2>3, <2>4
<1> QED BY <1>1, <1>2

\* A waiting job goes to an idle worker; if no stall was false, no run is alive.
LEMMA TakeStep == ASSUME IInv, NEW r \in Runs, Take(r) PROVE IInv'
<1> USE DEF IInv
<1> DEFINE new == [pc |-> "load", batch |-> 1, made |-> job.made]
<1>1. /\ run[r].pc = "idle" /\ job.state = "waiting"
      /\ job' = [job EXCEPT !.state = "active", !.owner = r]
      /\ run' = [run EXCEPT ![r] = new]
      /\ UNCHANGED <<row, import, pg, neo, watched, told, mishaps>>
  BY DEF Take
<1>2. job \in Job /\ run \in [Runs -> Run]
  BY DEF TypeOK
<1>3. new \in Run
  BY <1>2, TraceJobAssumption DEF Run, Job, Places
<1>4. /\ run' \in [Runs -> Run] /\ run'[r] = new
      /\ \A q \in Runs \ {r} : run'[q] = run[q]
  BY <1>1, <1>2, <1>3
<1>5. /\ job' \in Job /\ job'.state = "active" /\ job'.owner = r
      /\ job'.made = job.made /\ job'.stalls = job.stalls
  BY <1>1, <1>2 DEF Job
<1>6. run'[r].pc = "load" /\ run'[r].made = job.made
  BY <1>4
<1>7. TypeOK'
  BY <1>1, <1>4, <1>5 DEF TypeOK
<1>8. QueueInv'
  BY <1>1, <1>4, <1>5, <1>6 DEF QueueInv, Alive
<1>9. StoreInv'
  BY <1>1, <1>4, <1>6 DEF StoreInv
<1>10. LockInv'
  <2>1. job.owner = NoRun /\ NoRun \notin Runs
    BY <1>1, TraceJobAssumption DEF QueueInv
  <2>2. "stall" \notin mishaps => \A q \in Runs : run[q].pc = "idle"
    BY <2>1 DEF LockInv
  <2> QED BY <1>1, <1>4, <1>5, <1>6, <2>2 DEF LockInv
<1> QED BY <1>7, <1>8, <1>9, <1>10

\* The lock expires; if its owner is alive the step is remembered as a false stall.
LEMMA StalledStep == ASSUME IInv, Stalled PROVE IInv'
<1> USE DEF IInv
<1> DEFINE next == IF job.stalls < MaxStalls THEN "waiting" ELSE "failed"
<1>1. /\ job.state = "active"
      /\ job' = [job EXCEPT !.stalls = job.stalls + 1, !.owner = NoRun, !.state = next]
      /\ UNCHANGED <<row, import, run, pg, neo, watched, told>>
      /\ mishaps' = IF run[job.owner].pc = "idle" THEN mishaps ELSE mishaps \cup {"stall"}
  BY DEF Stalled
<1>2. job \in Job /\ job.owner \in Runs /\ job.made < Attempts /\ job.stalls <= MaxStalls
  BY <1>1 DEF TypeOK, QueueInv, Alive
<1>3. job.stalls + 1 \in 0 .. MaxStalls + 1
  BY <1>2, TraceJobAssumption, SMT DEF Job
<1>4. /\ job' \in Job /\ job'.state = next /\ job'.owner = NoRun
      /\ job'.made = job.made /\ job'.stalls = job.stalls + 1
  BY <1>1, <1>2, <1>3 DEF Job
<1>5. next = "waiting" => job.stalls + 1 <= MaxStalls
  BY <1>2, TraceJobAssumption, SMT DEF Job
<1>6. next \in {"waiting", "failed"}
  OBVIOUS
<1> HIDE DEF next
<1>7. TypeOK'
  BY <1>1, <1>4 DEF TypeOK
<1>8. QueueInv'
  BY <1>1, <1>2, <1>4, <1>5, <1>6, TraceJobAssumption DEF QueueInv, Alive
<1>9. StoreInv'
  BY <1>1 DEF StoreInv
<1>10. LockInv'
  <2>1. CASE run[job.owner].pc = "idle"
    <3>1. "stall" \notin mishaps => \A q \in Runs : run[q].pc = "idle"
      BY <2>1 DEF LockInv
    <3> QED BY <1>1, <2>1, <3>1 DEF LockInv
  <2>2. CASE run[job.owner].pc # "idle"
    BY <1>1, <2>2 DEF LockInv
  <2> QED BY <2>1, <2>2
<1> QED BY <1>7, <1>8, <1>9, <1>10

\* A completed job is forgotten; nobody owns its lock.
LEMMA EvictStep == ASSUME IInv, Evict PROVE IInv'
<1> USE DEF IInv
<1>1. /\ job.state = "completed" /\ job' = NoJob
      /\ UNCHANGED <<row, import, run, pg, neo, watched, told, mishaps>>
  BY DEF Evict
<1>2. NoJob \in Job /\ NoJob.state = "none" /\ NoJob.owner = NoRun
  BY TraceJobAssumption DEF NoJob, Job
<1>3. job.owner = NoRun
  BY <1>1 DEF QueueInv
<1>4. TypeOK'
  BY <1>1, <1>2 DEF TypeOK
<1>5. QueueInv' /\ StoreInv' /\ LockInv'
  BY <1>1, <1>2, <1>3, TraceJobAssumption DEF QueueInv, StoreInv, LockInv, Alive
<1> QED BY <1>4, <1>5

-----------------------------------------------------------------------------
(* Steps of a run                                                          *)

\* The stores grow, other runs stand still, and the run that moves has earned its place.
LEMMA StoreMove ==
    ASSUME IInv, NEW r \in Runs,
           \A q \in Runs \ {r} : run'[q] = run[q],
           neo \subseteq neo', pg \subseteq pg', neo' \subseteq pg', neo' \subseteq Everything,
           run'[r].pc \in {"load", "start"} => run'[r].batch = 1,
           run'[r].pc \in {"pg", "neo"} => 1 .. (run'[r].batch - 1) \subseteq neo',
           run'[r].pc = "neo" => run'[r].batch \in pg',
           run'[r].pc \in {"again", "complete", "hooks", "publish"} => neo' = Everything,
           row' = "COMPLETED" \/ told' # {} => neo' = Everything
    PROVE  StoreInv'
<1>1. neo = Everything => neo' = Everything
  OBVIOUS
<1>2. ASSUME NEW q \in Runs
      PROVE /\ run'[q].pc \in {"load", "start"} => run'[q].batch = 1
            /\ run'[q].pc \in {"pg", "neo"} => 1 .. (run'[q].batch - 1) \subseteq neo'
            /\ run'[q].pc = "neo" => run'[q].batch \in pg'
            /\ run'[q].pc \in {"again", "complete", "hooks", "publish"} => neo' = Everything
  <2>1. CASE q = r
    BY <2>1
  <2>2. CASE q # r
    <3>1. run'[q] = run[q]
      BY <2>2
    <3>2. /\ run[q].pc \in {"load", "start"} => run[q].batch = 1
          /\ run[q].pc \in {"pg", "neo"} => 1 .. (run[q].batch - 1) \subseteq neo
          /\ run[q].pc = "neo" => run[q].batch \in pg
          /\ run[q].pc \in {"again", "complete", "hooks", "publish"} => neo = Everything
      BY DEF IInv, StoreInv
    <3> QED BY <1>1, <3>1, <3>2
  <2> QED BY <2>1, <2>2
<1>3. Everything' = Everything
  BY DEF Everything
<1> QED BY <1>2, <1>3 DEF StoreInv

\* Without a false stall the run that moves is the only one.
LEMMA LockMove ==
    ASSUME IInv, NEW r \in Runs,
           \A q \in Runs \ {r} : run'[q] = run[q],
           mishaps \subseteq mishaps',
           run[r].pc # "idle",
           run'[r].pc = "idle" \/ job' = job,
           "stall" \notin mishaps /\ run'[r].pc \in {"start", "pg", "neo", "complete"}
             => row' # "COMPLETED"
    PROVE  LockInv'
<1> SUFFICES ASSUME "stall" \notin mishaps', NEW q \in Runs
             PROVE  /\ run'[q].pc # "idle" => job'.owner = q
                    /\ run'[q].pc \in {"start", "pg", "neo", "complete"} => row' # "COMPLETED"
  BY DEF LockInv
<1>1. "stall" \notin mishaps
  OBVIOUS
<1>2. job.owner = r
  BY <1>1 DEF IInv, LockInv
<1>3. CASE q = r
  BY <1>1, <1>2, <1>3
<1>4. CASE q # r
  <2>1. run'[q] = run[q]
    BY <1>4
  <2>2. run[q].pc = "idle"
    BY <1>1, <1>2, <1>4 DEF IInv, LockInv
  <2> QED BY <2>1, <2>2
<1> QED BY <1>3, <1>4

\* A run goes on, and neither the stores nor the events change.
LEMMA MoveStep ==
    ASSUME IInv, NEW r \in Runs, NEW place \in Places, Goto(r, place),
           run[r].pc # "idle",
           UNCHANGED <<import, pg, neo, told>>,
           row' \in {"ABSENT", "QUEUED", "RUNNING", "COMPLETED", "FAILED"},
           watched' \in BOOLEAN,
           mishaps' \in SUBSET {"row", "crash", "stall"}, mishaps \subseteq mishaps',
           place # "neo",
           place \in {"load", "start", "pg"} => run[r].batch = 1,
           place \in {"again", "complete", "hooks", "publish"} => neo = Everything,
           row' = "COMPLETED" => neo = Everything,
           "stall" \notin mishaps /\ place \in {"start", "pg", "complete"} => row' # "COMPLETED"
    PROVE  IInv'
<1>1. /\ run' \in [Runs -> Run]
      /\ run'[r].pc = place
      /\ run'[r].batch = run[r].batch
      /\ run'[r].made = run[r].made
      /\ \A q \in Runs \ {r} : run'[q] = run[q]
      /\ job' = job
  BY GotoFacts DEF IInv
<1>2. TypeOK'
  BY <1>1 DEF IInv, TypeOK
<1>3. QueueInv'
  BY <1>1, QueueFrame DEF IInv
<1>4. StoreInv'
  <2>1. neo \subseteq pg /\ neo \subseteq Everything
    BY DEF IInv, StoreInv, TypeOK, Everything
  <2>2. place = "pg" => 1 .. (run'[r].batch - 1) = {}
    BY <1>1, SMT
  <2>3. told # {} => neo = Everything
    BY DEF IInv, StoreInv
  <2> QED BY <1>1, <2>1, <2>2, <2>3, StoreMove
<1>5. LockInv'
  BY <1>1, LockMove
<1> QED BY <1>2, <1>3, <1>4, <1>5 DEF IInv

\* A run ends, and the stores do not change.
LEMMA EndStep ==
    ASSUME IInv, NEW r \in Runs, Return(r) \/ Throw(r),
           run[r].pc # "idle",
           UNCHANGED <<import, pg, neo, watched>>,
           row' \in {"ABSENT", "QUEUED", "RUNNING", "COMPLETED", "FAILED"},
           row' = "COMPLETED" => row = "COMPLETED",
           told' \in SUBSET {"terminals", "empty"},
           told' # {} => neo = Everything,
           mishaps' \in SUBSET {"row", "crash", "stall"}, mishaps \subseteq mishaps'
    PROVE  IInv'
<1>1. /\ job' \in Job
      /\ QueueInv'
      /\ run' \in [Runs -> Run]
      /\ run'[r].pc = "idle"
      /\ \A q \in Runs \ {r} : run'[q] = run[q]
  BY EndFacts DEF IInv
<1>2. TypeOK'
  BY <1>1 DEF IInv, TypeOK
<1>3. StoreInv'
  <2>1. neo \subseteq pg /\ neo \subseteq Everything
    BY DEF IInv, StoreInv, TypeOK, Everything
  <2>2. row = "COMPLETED" => neo = Everything
    BY DEF IInv, StoreInv
  <2> QED BY <1>1, <2>1, <2>2, StoreMove
<1>4. LockInv'
  BY <1>1, LockMove
<1> QED BY <1>1, <1>2, <1>3, <1>4 DEF IInv

\* The steps of runTrace that write neither store.
LEMMA WalkStep ==
    ASSUME IInv, NEW r \in Runs,
           \/ Load(r) \/ AnnounceAgain(r) \/ SetRunning(r)
           \/ Complete(r) \/ Hooks(r) \/ Announce(r) \/ Catch(r)
    PROVE  IInv'
<1>1. /\ row \in {"ABSENT", "QUEUED", "RUNNING", "COMPLETED", "FAILED"}
      /\ watched \in BOOLEAN
      /\ told \in SUBSET {"terminals", "empty"}
      /\ mishaps \in SUBSET {"row", "crash", "stall"}
  BY DEF IInv, TypeOK
<1>2. /\ run[r].pc \in {"load", "start"} => run[r].batch = 1
      /\ run[r].pc \in {"again", "complete", "hooks", "publish"} => neo = Everything
      /\ row = "COMPLETED" \/ told # {} => neo = Everything
  BY DEF IInv, StoreInv
<1>3. "stall" \notin mishaps /\ run[r].pc \in {"start", "pg", "neo", "complete"}
        => row # "COMPLETED"
  BY DEF IInv, LockInv
<1>4. CASE Load(r)
  <2> DEFINE place == IF row = "COMPLETED" THEN "again" ELSE "start"
  <2>1. /\ run[r].pc = "load" /\ Goto(r, place)
        /\ UNCHANGED <<row, import, pg, neo, watched, told, mishaps>>
    BY <1>4 DEF Load, At
  <2>2. /\ place \in Places /\ place \in {"again", "start"}
        /\ place = "again" => row = "COMPLETED"
        /\ place = "start" => row # "COMPLETED"
    BY DEF Places
  <2> HIDE DEF place
  <2> QED BY <1>1, <1>2, <2>1, <2>2, MoveStep
<1>5. CASE AnnounceAgain(r)
  BY <1>1, <1>2, <1>5, EndStep DEF AnnounceAgain, At
<1>6. CASE SetRunning(r)
  <2>1. "pg" \in Places
    BY DEF Places
  <2> QED BY <1>1, <1>2, <1>6, <2>1, MoveStep DEF SetRunning, At
<1>7. CASE Complete(r)
  <2>1. "hooks" \in Places
    BY DEF Places
  <2> QED BY <1>1, <1>2, <1>7, <2>1, MoveStep DEF Complete, At
<1>8. CASE Hooks(r)
  <2>1. "publish" \in Places
    BY DEF Places
  <2>2. watched' \in BOOLEAN
    BY <1>1, <1>8 DEF Hooks
  <2> QED BY <1>1, <1>2, <1>8, <2>1, <2>2, MoveStep DEF Hooks, At
<1>9. CASE Announce(r)
  BY <1>1, <1>2, <1>9, EndStep DEF Announce, At
<1>10. CASE Catch(r)
  <2>1. row' = row \/ row' = "FAILED"
    BY <1>10 DEF Catch
  <2> QED BY <1>1, <1>2, <1>10, <2>1, EndStep DEF Catch, At
<1> QED BY <1>4, <1>5, <1>6, <1>7, <1>8, <1>9, <1>10

\* The two writes of a flush.
LEMMA FlushStep ==
    ASSUME IInv, NEW r \in Runs, StoreHops(r) \/ StoreGraph(r)
    PROVE  IInv'
<1> DEFINE b == run[r].batch
<1>1. /\ run \in [Runs -> Run] /\ run[r] \in Run /\ b \in Everything
      /\ pg \subseteq Everything /\ neo \subseteq Everything
  BY DEF IInv, TypeOK, Run, Everything
<1>2. /\ neo \subseteq pg
      /\ run[r].pc \in {"pg", "neo"} => 1 .. (b - 1) \subseteq neo
      /\ run[r].pc = "neo" => b \in pg
      /\ row = "COMPLETED" \/ told # {} => neo = Everything
  BY DEF IInv, StoreInv
<1>3. "stall" \notin mishaps /\ run[r].pc \in {"pg", "neo"} => row # "COMPLETED"
  BY DEF IInv, LockInv
<1>4. CASE StoreHops(r)
  <2>1. /\ run[r].pc = "pg" /\ pg' = pg \cup {b} /\ Goto(r, "neo")
        /\ UNCHANGED <<row, import, neo, watched, told, mishaps>>
    BY <1>4 DEF StoreHops, At
  <2>2. "neo" \in Places
    BY DEF Places
  <2>3. /\ run' \in [Runs -> Run]
        /\ run'[r].pc = "neo"
        /\ run'[r].batch = b
        /\ run'[r].made = run[r].made
        /\ \A q \in Runs \ {r} : run'[q] = run[q]
        /\ job' = job
    BY <2>1, <2>2, GotoFacts DEF IInv
  <2>4. TypeOK'
    BY <1>1, <2>1, <2>3 DEF IInv, TypeOK, Everything
  <2>5. QueueInv'
    BY <2>1, <2>3, QueueFrame DEF IInv
  <2>6. StoreInv'
    BY <1>1, <1>2, <2>1, <2>3, StoreMove
  <2>7. LockInv'
    BY <1>3, <2>1, <2>3, LockMove
  <2> QED BY <2>4, <2>5, <2>6, <2>7 DEF IInv
<1>5. CASE StoreGraph(r)
  <2>1. /\ run[r].pc = "neo" /\ neo' = neo \cup {b}
        /\ UNCHANGED <<row, import, job, pg, watched, told, mishaps>>
        /\ IF b < Batches
           THEN run' = [run EXCEPT ![r].pc = "pg", ![r].batch = b + 1]
           ELSE run' = [run EXCEPT ![r].pc = "complete"]
    BY <1>5 DEF StoreGraph, At
  <2>2. 1 .. b \subseteq neo'
    <3>1. 1 .. b = (1 .. (b - 1)) \cup {b}
      BY <1>1, TraceJobAssumption, SMT DEF Everything
    <3> QED BY <1>2, <2>1, <3>1
  <2>3. /\ run' \in [Runs -> Run]
        /\ \A q \in Runs \ {r} : run'[q] = run[q]
        /\ run'[r].made = run[r].made
        /\ \/ run'[r].pc = "pg" /\ run'[r].batch = b + 1
           \/ run'[r].pc = "complete" /\ neo' = Everything
    <3>1. CASE b < Batches
      <4> DEFINE new == [run[r] EXCEPT !.pc = "pg", !.batch = b + 1]
      <4>1. b + 1 \in 1 .. Batches
        BY <1>1, <3>1, TraceJobAssumption, SMT DEF Everything
      <4>2. new \in Run /\ new.pc = "pg" /\ new.batch = b + 1 /\ new.made = run[r].made
        BY <1>1, <4>1 DEF Run, Places
      <4>3. run' = [run EXCEPT ![r] = new]
        BY <2>1, <3>1
      <4> QED BY <1>1, <4>2, <4>3
    <3>2. CASE ~(b < Batches)
      <4> DEFINE new == [run[r] EXCEPT !.pc = "complete"]
      <4>1. b = Batches
        BY <1>1, <3>2, TraceJobAssumption, SMT DEF Everything
      <4>2. new \in Run /\ new.pc = "complete" /\ new.made = run[r].made
        BY <1>1 DEF Run, Places
      <4>3. run' = [run EXCEPT ![r] = new]
        BY <2>1, <3>2
      <4>4. neo' = Everything
        BY <1>1, <2>1, <2>2, <4>1 DEF Everything
      <4> QED BY <1>1, <4>2, <4>3, <4>4
    <3> QED BY <3>1, <3>2
  <2>4. TypeOK'
    BY <1>1, <2>1, <2>3 DEF IInv, TypeOK, Everything
  <2>5. QueueInv'
    BY <2>1, <2>3, QueueFrame DEF IInv
  <2>6. StoreInv'
    <3>1. run'[r].pc = "pg" => 1 .. (run'[r].batch - 1) \subseteq neo'
      <4>1. (b + 1) - 1 = b
        BY <1>1, TraceJobAssumption, SMT DEF Everything
      <4> QED BY <2>2, <2>3, <4>1
    <3>2. row' = "COMPLETED" \/ told' # {} => neo' = Everything
      BY <1>1, <1>2, <2>1
    <3> QED BY <1>1, <1>2, <2>1, <2>3, <3>1, <3>2, StoreMove
  <2>7. LockInv'
    BY <1>3, <2>1, <2>3, LockMove
  <2> QED BY <2>4, <2>5, <2>6, <2>7 DEF IInv
<1> QED BY <1>4, <1>5

\* Every way in which a run can be interrupted.
LEMMA FailStep == ASSUME IInv, NEW r \in Runs, Fail(r) PROVE IInv'
<1>1. /\ row \in {"ABSENT", "QUEUED", "RUNNING", "COMPLETED", "FAILED"}
      /\ watched \in BOOLEAN
      /\ told \in SUBSET {"terminals", "empty"}
      /\ mishaps \in SUBSET {"row", "crash", "stall"}
  BY DEF IInv, TypeOK
<1>2. row = "COMPLETED" \/ told # {} => neo = Everything
  BY DEF IInv, StoreInv
<1>3. "catch" \in Places
  BY DEF Places
<1>4. CASE WalkFails(r)
  <2>1. run[r].pc # "idle"
    BY <1>4 DEF WalkFails
  <2> QED BY <1>1, <1>2, <1>3, <1>4, <2>1, MoveStep DEF WalkFails
<1>5. CASE AgainFails(r)
  BY <1>1, <1>2, <1>5, EndStep DEF AgainFails, At
<1>6. CASE RowFails(r)
  <2>1. CASE run[r].pc \in {"load", "start", "catch"} /\ Throw(r)
    BY <1>1, <1>2, <1>6, <2>1, EndStep DEF RowFails
  <2>2. CASE At(r, "complete") /\ Goto(r, "catch")
    BY <1>1, <1>2, <1>3, <1>6, <2>2, MoveStep DEF RowFails, At
  <2> QED BY <1>6, <2>1, <2>2 DEF RowFails
<1>7. CASE Crash(r)
  <2>1. /\ run[r].pc # "idle"
        /\ run' = [run EXCEPT ![r] = Idle]
        /\ mishaps' = mishaps \cup {"crash"}
        /\ UNCHANGED <<row, import, job, pg, neo, watched, told>>
    BY <1>7 DEF Crash
  <2>2. /\ run' \in [Runs -> Run]
        /\ run'[r].pc = "idle"
        /\ \A q \in Runs \ {r} : run'[q] = run[q]
    BY <2>1, IdleFacts DEF IInv
  <2>3. TypeOK'
    BY <2>1, <2>2 DEF IInv, TypeOK
  <2>4. QueueInv'
    BY <2>1, <2>2, QueueFrame DEF IInv
  <2>5. StoreInv'
    <3>1. neo \subseteq pg /\ neo \subseteq Everything
      BY DEF IInv, StoreInv, TypeOK, Everything
    <3> QED BY <1>2, <2>1, <2>2, <3>1, StoreMove
  <2>6. LockInv'
    BY <2>1, <2>2, LockMove
  <2> QED BY <2>3, <2>4, <2>5, <2>6 DEF IInv
<1> QED BY <1>4, <1>5, <1>6, <1>7 DEF Fail

-----------------------------------------------------------------------------
(* The invariant and what follows from it                                  *)

\* Before the first import nothing is stored, queued or under way.
LEMMA InitIInv == Init => IInv
<1> SUFFICES ASSUME Init PROVE IInv
  OBVIOUS
<1>1. \A r \in Runs : run[r] = Idle
  BY DEF Init
<1>2. Idle \in Run /\ Idle.pc = "idle"
  BY TraceJobAssumption DEF Idle, Run, Places
<1>3. NoJob \in Job /\ NoJob.state = "none" /\ NoJob.owner = NoRun
  BY TraceJobAssumption DEF NoJob, Job
<1>4. TypeOK
  BY <1>2, <1>3 DEF Init, TypeOK
<1>5. QueueInv
  BY <1>1, <1>2, <1>3 DEF Init, QueueInv, Alive
<1>6. StoreInv
  BY <1>1, <1>2 DEF Init, StoreInv
<1>7. LockInv
  BY <1>1, <1>2 DEF Init, LockInv
<1> QED BY <1>4, <1>5, <1>6, <1>7 DEF IInv

\* Every step keeps the invariant.
LEMMA StepIInv == IInv /\ [Next]_vars => IInv'
<1> SUFFICES ASSUME IInv, [Next]_vars PROVE IInv'
  OBVIOUS
<1>1. ASSUME NEW i \in Imports, Import(i) \/ Enqueue(i) PROVE IInv'
  BY <1>1, ImportStep
<1>2. ASSUME NEW r \in Runs, Take(r) PROVE IInv'
  BY <1>2, TakeStep
<1>3. ASSUME NEW r \in Runs, Walk(r) PROVE IInv'
  BY <1>3, WalkStep, FlushStep DEF Walk
<1>4. ASSUME NEW r \in Runs, Fail(r) PROVE IInv'
  BY <1>4, FailStep
<1>5. CASE Stalled
  BY <1>5, StalledStep
<1>6. CASE Evict
  BY <1>6, EvictStep
<1>7. CASE UNCHANGED vars
  BY <1>7 DEF vars, IInv, TypeOK, QueueInv, StoreInv, LockInv, Everything
<1> QED BY <1>1, <1>2, <1>3, <1>4, <1>5, <1>6, <1>7 DEF Next

\* The invariant of the theorems below.
LEMMA Invariant == Spec => []IInv
  BY InitIInv, StepIInv, PTL DEF Spec

\* The row, the job, the runs and the stores are well formed; in particular no job
\* is attempted or stalls more often than BullMQ allows.
THEOREM TypeCorrect == Spec => []TypeOK
<1>1. IInv => TypeOK
  BY DEF IInv
<1> QED BY <1>1, Invariant, PTL

\* The graph store never has a batch that the Hop table lacks.
THEOREM GraphNeverAhead == Spec => []GraphTrailsTable
<1>1. IInv => GraphTrailsTable
  BY DEF IInv, StoreInv, GraphTrailsTable
<1> QED BY <1>1, Invariant, PTL

\* COMPLETED, and any announcement, mean that both stores hold every batch.
THEOREM AnnouncedMeansStored == Spec => []AnnouncedIsStored
<1>1. IInv => AnnouncedIsStored
  BY DEF IInv, StoreInv, TypeOK, AnnouncedIsStored, Everything
<1> QED BY <1>1, Invariant, PTL

\* Two runs of one trace overlap only after BullMQ has taken a live run for stalled.
THEOREM OnlyStallsOverlap == Spec => []OneWalkAtATime
<1>1. ASSUME IInv, "stall" \notin mishaps
      PROVE  Cardinality({r \in Runs : run[r].pc # "idle"}) <= 1
  <2> DEFINE S == {r \in Runs : run[r].pc # "idle"}
  <2>1. S \subseteq {job.owner}
    BY <1>1 DEF IInv, LockInv
  <2>2. S = {} \/ S = {job.owner}
    BY <2>1
  <2>3. Cardinality(S) = 0 \/ Cardinality(S) = 1
    BY <2>2, FS_EmptySet, FS_Singleton
  <2> HIDE DEF S
  <2>4. Cardinality(S) <= 1
    BY <2>3
  <2> QED BY <2>4 DEF S
<1>2. IInv => OneWalkAtATime
  BY <1>1 DEF OneWalkAtATime
<1> QED BY <1>2, Invariant, PTL

\* Who changes a row, and from what.
LEMMA RowStep ==
    ASSUME IInv, [Next]_vars, row = "COMPLETED", row' # row, "stall" \notin mishaps
    PROVE  row' = "FAILED" /\ job.made + 1 = Attempts
<1>1. \A r \in Runs : run[r].pc = "start" => row # "COMPLETED"
  BY DEF IInv, LockInv
<1>2. ASSUME NEW r \in Runs, Catch(r) PROVE row' = "FAILED" /\ job.made + 1 = Attempts
  <2>1. row' = "FAILED" /\ run[r].made + 1 >= Attempts /\ run[r].pc # "idle"
    BY <1>2 DEF Catch, At
  <2>2. job.owner = r
    BY <2>1 DEF IInv, LockInv
  <2>3. r # NoRun
    BY TraceJobAssumption
  <2>4. job.made = run[r].made /\ job.made < Attempts /\ job.made \in 0 .. Attempts
    BY <2>1, <2>2, <2>3 DEF IInv, QueueInv, Alive, TypeOK, Job
  <2>5. job.made + 1 = Attempts
    BY <2>1, <2>4, TraceJobAssumption, SMT
  <2> QED BY <2>1, <2>5
<1>3. ASSUME NEW r \in Runs, Walk(r) PROVE Catch(r)
  BY <1>1, <1>3 DEF Walk, Load, AnnounceAgain, SetRunning, StoreHops, StoreGraph, Complete,
                    Hooks, Announce, At
<1>4. ASSUME NEW r \in Runs, Take(r) \/ Fail(r) PROVE FALSE
  BY <1>4 DEF Take, Fail, WalkFails, AgainFails, RowFails, Crash
<1>5. ASSUME NEW i \in Imports, Import(i) \/ Enqueue(i) PROVE FALSE
  BY <1>5 DEF Import, Enqueue
<1>6. ~Stalled /\ ~Evict /\ ~UNCHANGED vars
  BY DEF Stalled, Evict, vars
<1> QED BY <1>2, <1>3, <1>4, <1>5, <1>6 DEF Next

\* Only the last attempt, whose announcement failed, takes COMPLETED back, unless a
\* live run was taken for stalled.
THEOREM CompletedRowStays == Spec => CompletedStays
<1>1. IInv /\ [Next]_vars
        => [row = "COMPLETED" /\ row' # row
              => \/ "stall" \in mishaps
                 \/ row' = "FAILED" /\ job.made + 1 = Attempts]_vars
  BY RowStep
<1> QED BY <1>1, Invariant, PTL DEF Spec, CompletedStays

-----------------------------------------------------------------------------
(* The walk: its priority queue with lazy deletion does its work whatever  *)
(* the shares are, and the shares conserve what was reported.              *)

\* The walk stays inside the addresses there are.
Inside == reached \subseteq Addresses /\ task.history \in Histories

WalkIInv == Inside /\ NobodyForgotten

-----------------------------------------------------------------------------
\* Where the money of a transfer can be followed to is an address.
LEMMA DestIsAddress ==
    ASSUME Inside, NEW a, NEW e \in Feeding(a)
    PROVE  Dest(e) \in Addresses
<1>1. e \in Selected(a) \/ e \in Resolved(a)
  BY DEF Feeding
<1>2. e \in Legs(a)
  BY <1>1 DEF Selected, Top, Resolved, Crossings
<1>3. e \in task.history
  BY <1>2 DEF Legs, Outs
<1>4. e.to \in Addresses
  BY <1>3, WalkAssumption DEF Inside
<1>5. CASE e.to \in Bridges
  <2>1. e \in Resolved(a)
    BY <1>1, <1>5 DEF Selected, Top, Crossings
  <2>2. Landing[e.to] # Nowhere
    BY <2>1 DEF Resolved
  <2> QED BY <1>5, <2>2, WalkAssumption DEF Dest
<1>6. CASE e.to \notin Bridges
  BY <1>4, <1>6 DEF Dest
<1> QED BY <1>5, <1>6

\* An address that is expanded, and feeds no other, leaves the rest as it is.
LEMMA Leaving ==
    ASSUME WalkIInv, NEW p, heap' = heap \ {p}, expanded' = expanded \cup {p.key},
           UNCHANGED <<task, meta, reached>>
    PROVE  WalkIInv'
<1>1. Inside'
  BY DEF WalkIInv, Inside
<1>2. ASSUME NEW b \in reached \ expanded' PROVE Entry(b, meta[b].taint) \in heap'
  <2>1. Entry(b, meta[b].taint) \in heap
    BY <1>2 DEF WalkIInv, NobodyForgotten, Waiting
  <2>2. Entry(b, meta[b].taint).key = b
    BY DEF Entry
  <2>3. Entry(b, meta[b].taint) # p
    BY <1>2, <2>2
  <2> QED BY <2>1, <2>3
<1>3. NobodyForgotten'
  BY <1>2 DEF NobodyForgotten, Waiting, Entry
<1> QED BY <1>1, <1>3 DEF WalkIInv

\* At the start only the seed waits, and it is in the heap.
LEMMA WalkInitIInv == WalkInit => WalkIInv
<1> SUFFICES ASSUME WalkInit PROVE WalkIInv
  OBVIOUS
<1>1. Inside
  BY WalkAssumption DEF WalkInit, Inside
<1>2. meta[Seed].taint = task.reported
  <2>1. meta[Seed] = [Unknown EXCEPT !.taint = task.reported]
    BY WalkAssumption DEF WalkInit
  <2> QED BY <2>1 DEF Unknown
<1>3. NobodyForgotten
  BY <1>2 DEF WalkInit, NobodyForgotten, Waiting
<1> QED BY <1>1, <1>3 DEF WalkIInv

\* Every turn of the loop keeps the invariant.
LEMMA WalkStepIInv == WalkIInv /\ [WalkNext]_walkVars => WalkIInv'
<1> SUFFICES ASSUME WalkIInv, [WalkNext]_walkVars PROVE WalkIInv'
  OBVIOUS
<1>1. ASSUME NEW p \in heap, Discard(p) PROVE WalkIInv'
  <2>1. /\ Stale(p) /\ heap' = heap \ {p}
        /\ UNCHANGED <<task, meta, reached, expanded>>
    BY <1>1 DEF Discard
  <2>2. ASSUME NEW b \in Waiting PROVE Entry(b, meta[b].taint) \in heap'
    <3>1. Entry(b, meta[b].taint) \in heap
      BY DEF WalkIInv, NobodyForgotten
    <3>2. /\ Entry(b, meta[b].taint).key = b
          /\ Entry(b, meta[b].taint).taint = meta[b].taint
      BY DEF Entry
    <3>3. Entry(b, meta[b].taint) # p
      BY <2>1, <3>2 DEF Stale, Waiting
    <3> QED BY <2>1, <3>1, <3>3
  <2>3. NobodyForgotten'
    BY <2>1, <2>2 DEF NobodyForgotten, Waiting, Entry
  <2> QED BY <2>1, <2>3 DEF WalkIInv, Inside
<1>2. ASSUME NEW p \in heap, Service(p) PROVE WalkIInv'
  BY <1>2, Leaving DEF Service, Visit
<1>3. ASSUME NEW p \in heap, OutOfHops(p) PROVE WalkIInv'
  BY <1>3, Leaving DEF OutOfHops, Visit
<1>4. ASSUME NEW p \in heap, HighDegreeService(p) PROVE WalkIInv'
  BY <1>4, Leaving DEF HighDegreeService, Visit
<1>5. ASSUME NEW p \in heap, FanOut(p) PROVE WalkIInv'
  <2> DEFINE a     == p.key
             grown == {Dest(e) : e \in Feeding(a)}
  <2>1. /\ meta' = [n \in Addresses |->
                       IF n \in grown THEN Fed(a, n, {e \in Feeding(a) : Dest(e) = n})
                       ELSE meta[n]]
        /\ reached' = reached \cup grown
        /\ heap' = (heap \ {p}) \cup Push(a, grown)
        /\ expanded' = expanded \cup {a}
        /\ task' = task
    BY <1>5 DEF FanOut, Visit
  <2>2. grown \subseteq Addresses
    BY DestIsAddress DEF WalkIInv
  <2> HIDE DEF grown
  <2>3. Inside'
    BY <2>1, <2>2 DEF WalkIInv, Inside
  <2>4. ASSUME NEW b \in reached' \ expanded' PROVE Entry(b, meta'[b].taint) \in heap'
    <3>1. CASE b \in grown
      BY <2>1, <3>1 DEF Push
    <3>2. CASE b \notin grown
      <4>1. b \in reached \ expanded /\ b # p.key /\ b \in Addresses
        BY <2>1, <2>4, <3>2 DEF WalkIInv, Inside
      <4>2. meta'[b] = meta[b]
        BY <2>1, <3>2, <4>1
      <4>3. Entry(b, meta[b].taint) \in heap
        BY <4>1 DEF WalkIInv, NobodyForgotten, Waiting
      <4>4. Entry(b, meta[b].taint).key = b
        BY DEF Entry
      <4>5. Entry(b, meta[b].taint) # p
        BY <4>1, <4>4
      <4> QED BY <2>1, <4>2, <4>3, <4>5
    <3> QED BY <3>1, <3>2
  <2>5. NobodyForgotten'
    BY <2>4 DEF NobodyForgotten, Waiting, Entry
  <2> QED BY <2>3, <2>5 DEF WalkIInv
<1>6. CASE Finish
  BY <1>6 DEF Finish, WalkIInv, Inside, NobodyForgotten, Waiting, Entry
<1>7. CASE UNCHANGED walkVars
  BY <1>7 DEF walkVars, WalkIInv, Inside, NobodyForgotten, Waiting, Entry
<1> QED BY <1>1, <1>2, <1>3, <1>4, <1>5, <1>6, <1>7 DEF WalkNext, Turn

\* The invariant of the theorems below.
THEOREM WalkInvariant == WalkSpec => []WalkIInv
  BY WalkInitIInv, WalkStepIInv, PTL DEF WalkSpec

\* Lazy deletion never drops the last entry of an address that still waits.
THEOREM LazyDeletionForgetsNobody == WalkSpec => []NobodyForgotten
<1>1. WalkIInv => NobodyForgotten
  BY DEF WalkIInv
<1> QED BY <1>1, WalkInvariant, PTL

-----------------------------------------------------------------------------
\* What one step does for the order of expansion.
LEMMA StepHighestFirst ==
    ASSUME WalkIInv, [WalkNext]_walkVars, NEW a \in expanded' \ expanded, NEW b \in Waiting
    PROVE  meta[b].taint <= meta[a].taint
<1>1. PICK p \in heap : Visit(p) /\ expanded' = expanded \cup {p.key}
  <2>1. ASSUME NEW p \in heap, Turn(p)
        PROVE  \E q \in heap : Visit(q) /\ expanded' = expanded \cup {q.key}
    <3>1. ~Discard(p)
      BY DEF Discard
    <3>2. Visit(p)
      BY <2>1, <3>1 DEF Turn, Service, OutOfHops, HighDegreeService, FanOut
    <3> QED BY <3>2 DEF Visit
  <2>2. ~Finish /\ ~UNCHANGED walkVars
    BY DEF Finish, walkVars
  <2> QED BY <2>1, <2>2 DEF WalkNext
<1>2. a = p.key /\ meta[a].taint = p.taint
  BY <1>1 DEF Visit, Stale
<1>3. Entry(b, meta[b].taint) \in heap
  BY DEF WalkIInv, NobodyForgotten
<1>4. Entry(b, meta[b].taint).taint = meta[b].taint
  BY DEF Entry
<1>5. Entry(b, meta[b].taint).taint <= p.taint
  BY <1>1, <1>3 DEF Visit, TopEntry
<1> QED BY <1>2, <1>4, <1>5

\* The address expanded next is never poorer than one left waiting, although the
\* heap it is taken from is full of stale entries.
THEOREM AlwaysHighestFirst == WalkSpec => HighestFirst
<1>1. WalkIInv /\ [WalkNext]_walkVars =>
        [\A a \in expanded' \ expanded : \A b \in Waiting : meta[b].taint <= meta[a].taint]_walkVars
  BY StepHighestFirst
<1> QED BY <1>1, WalkInvariant, PTL DEF WalkSpec, HighestFirst
-----------------------------------------------------------------------------
(* What is kept. A transfer once found is in the buffer or in the graph, the  *)
(* table has the key of every transfer in the graph, and a walk that is done  *)
(* has an empty buffer.                                                       *)

StoredInv ==
    /\ \A b \in reached \ {Seed} : \E e \in Kept : Dest(e) = b
    /\ \A e \in graph : Key(e) \in table
    /\ phase = "done" => buffer = {}

\* persistEdges keeps what was kept and adds its transfers, whether it flushes or not.
LEMMA PersistKeeps ==
    ASSUME StoredInv, NEW S, Persist(S)
    PROVE  Kept' = Kept \cup S /\ \A e \in graph' : Key(e) \in table'
<1>1. CASE Cardinality(buffer \cup S) >= FlushAt
  <2>1. /\ table' = table \cup {Key(e) : e \in buffer \cup S}
        /\ graph' = graph \cup buffer \cup S
        /\ buffer' = {}
    BY <1>1 DEF Persist, Write
  <2> QED BY <2>1 DEF StoredInv, Kept
<1>2. CASE ~(Cardinality(buffer \cup S) >= FlushAt)
  <2>1. buffer' = buffer \cup S /\ UNCHANGED <<table, graph>>
    BY <1>2 DEF Persist
  <2> QED BY <2>1 DEF StoredInv, Kept
<1> QED BY <1>1, <1>2

\* A turn that reaches nobody new.
LEMMA SameReach ==
    ASSUME StoredInv, phase = "walk", UNCHANGED <<reached, phase>>, NEW S, Kept' = Kept \cup S,
           \A e \in graph' : Key(e) \in table'
    PROVE  StoredInv'
  BY DEF StoredInv, Dest

\* Every turn, and the last flush, keep it.
LEMMA StepStored == StoredInv /\ [WalkNext]_walkVars => StoredInv'
<1> SUFFICES ASSUME StoredInv, [WalkNext]_walkVars PROVE StoredInv'
  OBVIOUS
<1>0. Kept = Kept \cup {}
  OBVIOUS
<1>1. ASSUME NEW p \in heap, Discard(p) \/ Service(p) \/ OutOfHops(p) PROVE StoredInv'
  <2>1. phase = "walk" /\ UNCHANGED <<reached, phase, buffer, graph, table>>
    BY <1>1 DEF Discard, Service, OutOfHops, Visit, Running
  <2>2. Kept' = Kept \cup {} /\ \A e \in graph' : Key(e) \in table'
    BY <2>1 DEF Kept, StoredInv, Key
  <2> QED BY <2>1, <2>2, SameReach
<1>2. ASSUME NEW p \in heap, HighDegreeService(p) PROVE StoredInv'
  <2>1. phase = "walk" /\ UNCHANGED <<reached, phase>> /\ Persist(Top(Outs(p.key)))
    BY <1>2 DEF HighDegreeService, Visit, Running
  <2> QED BY <2>1, PersistKeeps, SameReach
<1>3. ASSUME NEW p \in heap, FanOut(p) PROVE StoredInv'
  <2> DEFINE a     == p.key
             S     == Selected(a) \cup Crossings(a)
             grown == {Dest(e) : e \in Feeding(a)}
  <2>1. /\ phase = "walk" /\ phase' = phase
        /\ reached' = reached \cup grown
        /\ Persist(S)
    BY <1>3 DEF FanOut, Visit, Running
  <2>2. Kept' = Kept \cup S /\ \A e \in graph' : Key(e) \in table'
    BY <2>1, PersistKeeps
  <2>3. \A b \in grown : \E e \in S : Dest(e) = b
    BY DEF Feeding, Resolved
  <2> HIDE DEF S, grown
  <2> QED BY <2>1, <2>2, <2>3 DEF StoredInv, Dest
<1>4. CASE Finish
  <2>1. /\ UNCHANGED reached /\ buffer' = {}
        /\ table' = table \cup {Key(e) : e \in buffer}
        /\ graph' = graph \cup buffer
    BY <1>4 DEF Finish, Write
  <2>2. Kept' = Kept
    BY <2>1 DEF Kept
  <2> QED BY <2>1, <2>2 DEF StoredInv, Dest, Key
<1>5. CASE UNCHANGED walkVars
  BY <1>5 DEF walkVars, StoredInv, Kept, Dest, Key
<1> QED BY <1>1, <1>2, <1>3, <1>4, <1>5 DEF WalkNext, Turn

\* Whatever the limits and however the buffer fills, a COMPLETED walk has in both stores a
\* transfer into every address it reached.
THEOREM CompletedWalkIsStored == WalkSpec => []WalkIsStored
<1>1. WalkInit => StoredInv
  BY DEF WalkInit, StoredInv
<1>2. StoredInv => WalkIsStored
  BY DEF StoredInv, WalkIsStored, Kept
<1> QED BY <1>1, <1>2, StepStored, PTL DEF WalkSpec

-----------------------------------------------------------------------------
(* The limits. Every entry is of an address that was reached, and an address  *)
(* is expanded only while hops are left.                                      *)

LimitsInv ==
    /\ Inside
    /\ \A q \in heap : q.key \in reached
    /\ WithinLimits

Lt == {p \in Nat \X Nat : p[1] < p[2]}

LEMMA LtWellFounded == IsWellFoundedOn(Lt, Nat)
BY NatLessThanWellFounded DEF OpToRel, Lt

\* A set of hops or times within bounds has a smallest element.
LEMMA LeastOfNaturals ==
    ASSUME NEW N \in Nat, NEW S \in SUBSET (0 .. N), S # {}
    PROVE  Min(S) \in S
<1>1. S \subseteq Nat
  OBVIOUS
<1>2. PICK x \in S : \A y \in S : <<y, x>> \notin Lt
  BY <1>1, LtWellFounded, WFMin
<1>3. ASSUME NEW y \in S PROVE x =< y
  <2>1. x \in Nat /\ y \in Nat
    BY <1>1
  <2>2. ~(y < x)
    BY <1>2, <2>1 DEF Lt
  <2> QED BY <2>1, <2>2
<1> QED BY <1>3 DEF Min

\* The record of an address that is fed stays within the limits.
LEMMA FedWithin ==
    ASSUME LimitsInv, NEW a \in reached, meta[a].hop < MaxHops, NEW n \in Addresses,
           NEW S \in SUBSET Feeding(a), S # {}
    PROVE  Fed(a, n, S).hop \in 0 .. MaxHops /\ Fed(a, n, S).since \in 0 .. WindowEnd
<1> DEFINE known == IF n \in reached THEN {meta[n]} ELSE {}
           hops  == {m.hop : m \in known} \cup {meta[a].hop + 1}
           times == {m.since : m \in known} \cup {e.ts : e \in S}
<1>1. \A m \in known : m.hop \in 0 .. MaxHops /\ m.since \in 0 .. WindowEnd
  BY DEF LimitsInv, WithinLimits
<1>2. meta[a].hop + 1 \in 0 .. MaxHops
  BY WalkAssumption DEF LimitsInv, WithinLimits
<1>3. hops \subseteq 0 .. MaxHops /\ hops # {}
  BY <1>1, <1>2
<1>4. \A e \in S : e.ts \in 0 .. WindowEnd
  <2> SUFFICES ASSUME NEW e \in S PROVE e.ts \in 0 .. WindowEnd
    OBVIOUS
  <2>1. e \in Outs(a)
    BY DEF Feeding, Selected, Top, Resolved, Crossings, Legs
  <2>2. e.ts \in Int /\ e.ts >= meta[a].since /\ e.ts <= WindowEnd
    BY <2>1, WalkAssumption DEF Outs, LimitsInv, Inside
  <2>3. meta[a].since \in 0 .. WindowEnd
    BY DEF LimitsInv, WithinLimits
  <2> QED BY <2>2, <2>3, WalkAssumption
<1>5. times \subseteq 0 .. WindowEnd /\ times # {}
  BY <1>1, <1>4
<1>6. Fed(a, n, S).hop = Min(hops) /\ Fed(a, n, S).since = Min(times)
  BY DEF Fed
<1>7. MaxHops \in Nat /\ WindowEnd \in Nat
  BY WalkAssumption
<1> HIDE DEF hops, times
<1> QED BY <1>3, <1>5, <1>6, <1>7, LeastOfNaturals

\* Every turn of the loop keeps the limits.
LEMMA StepLimits == LimitsInv /\ [WalkNext]_walkVars => LimitsInv'
<1> SUFFICES ASSUME LimitsInv, [WalkNext]_walkVars PROVE LimitsInv'
  OBVIOUS
<1>1. ASSUME heap' \subseteq heap, UNCHANGED <<task, meta, reached>> PROVE LimitsInv'
  BY <1>1 DEF LimitsInv, Inside, WithinLimits
<1>2. ASSUME NEW p \in heap, Discard(p) \/ Service(p) \/ OutOfHops(p) \/ HighDegreeService(p)
      PROVE  LimitsInv'
  BY <1>1, <1>2 DEF Discard, Service, OutOfHops, HighDegreeService, Visit
<1>3. ASSUME NEW p \in heap, FanOut(p) PROVE LimitsInv'
  <2> DEFINE a       == p.key
             grown   == {Dest(e) : e \in Feeding(a)}
             into(n) == {e \in Feeding(a) : Dest(e) = n}
  <2>1. /\ meta' = [n \in Addresses |-> IF n \in grown THEN Fed(a, n, into(n)) ELSE meta[n]]
        /\ reached' = reached \cup grown
        /\ heap' = (heap \ {p}) \cup Push(a, grown)
        /\ task' = task
        /\ meta[a].hop < MaxHops
    BY <1>3 DEF FanOut, Visit, Expandable
  <2>2. a \in reached
    BY DEF LimitsInv
  <2>3. grown \subseteq Addresses
    BY DestIsAddress DEF LimitsInv
  <2>4. \A n \in grown : into(n) # {} /\ into(n) \subseteq Feeding(a)
    OBVIOUS
  <2> HIDE DEF grown, into
  <2>5. Inside'
    BY <2>1, <2>3 DEF LimitsInv, Inside
  <2>6. ASSUME NEW q \in heap' PROVE q.key \in reached'
    BY <2>1, <2>6 DEF LimitsInv, Push, Entry
  <2>7. ASSUME NEW n \in reached'
        PROVE  meta'[n].hop \in 0 .. MaxHops /\ meta'[n].since \in 0 .. WindowEnd
    <3>1. n \in Addresses
      BY <2>1, <2>3, <2>7 DEF LimitsInv, Inside
    <3>2. CASE n \in grown
      <4>1. meta'[n] = Fed(a, n, into(n))
        BY <2>1, <3>1, <3>2
      <4>2. into(n) \in SUBSET Feeding(a) /\ into(n) # {}
        BY <2>4, <3>2
      <4> QED BY <2>1, <2>2, <3>1, <4>1, <4>2, FedWithin
    <3>3. CASE n \notin grown
      <4>1. meta'[n] = meta[n] /\ n \in reached
        BY <2>1, <2>7, <3>1, <3>3
      <4> QED BY <4>1 DEF LimitsInv, WithinLimits
    <3> QED BY <3>2, <3>3
  <2> QED BY <2>5, <2>6, <2>7 DEF LimitsInv, WithinLimits
<1>4. CASE Finish
  BY <1>1, <1>4 DEF Finish
<1>5. CASE UNCHANGED walkVars
  BY <1>1, <1>5 DEF walkVars
<1> QED BY <1>2, <1>3, <1>4, <1>5 DEF WalkNext, Turn

\* At the start only the seed is reached.
LEMMA InitLimits == WalkInit => LimitsInv
<1> SUFFICES ASSUME WalkInit PROVE LimitsInv
  OBVIOUS
<1>1. Inside
  BY WalkInitIInv DEF WalkIInv
<1>2. meta[Seed].hop = 0 /\ meta[Seed].since = 0
  BY WalkAssumption DEF WalkInit, Unknown
<1>3. reached = {Seed}
  BY DEF WalkInit
<1>4. \A q \in heap : q.key \in reached
  BY DEF WalkInit, Entry
<1>5. 0 \in 0 .. MaxHops /\ 0 \in 0 .. WindowEnd
  BY WalkAssumption
<1>6. WithinLimits
  BY <1>2, <1>3, <1>5 DEF WithinLimits
<1> QED BY <1>1, <1>4, <1>6 DEF LimitsInv

\* For every graph of transfers the walk stays within the hops and the window of its job.
THEOREM WalkStaysWithinLimits == WalkSpec => []WithinLimits
<1>1. LimitsInv => WithinLimits
  BY DEF LimitsInv
<1> QED BY <1>1, InitLimits, StepLimits, PTL DEF WalkSpec

-----------------------------------------------------------------------------
(* The trail of the money. Whoever was expanded is never fed again, so its hop *)
(* and arrival, to which the trail of others refers, are final.                *)

TrailInv ==
    /\ StoredInv /\ LimitsInv
    /\ expanded \subseteq reached
    /\ MoneyTrail

\* A turn that feeds nobody, whatever it keeps.
LEMMA SameTrail ==
    ASSUME TrailInv, UNCHANGED <<meta, reached>>, expanded \subseteq expanded',
           Kept \subseteq Kept'
    PROVE  MoneyTrail'
<1> SUFFICES ASSUME NEW b \in reached \ {Seed}
             PROVE  /\ \E e \in Kept' : /\ Dest(e) = b /\ e.from \in expanded'
                                        /\ meta[b].hop = meta[e.from].hop + 1
                    /\ \E e \in Kept' : /\ Dest(e) = b /\ e.from \in expanded'
                                        /\ meta[b].since = e.ts /\ e.ts >= meta[e.from].since
  BY DEF MoneyTrail, Dest
<1> QED BY DEF TrailInv, MoneyTrail

\* The turn that fans out: who grew has a trail through the address expanded now, or the
\* smaller number of hops, or the earlier arrival, that it had before.
LEMMA FanOutTrail ==
    ASSUME TrailInv, NEW p \in heap, FanOut(p)
    PROVE  MoneyTrail'
<1> DEFINE a       == p.key
           S       == Selected(a) \cup Crossings(a)
           grown   == {Dest(e) : e \in Feeding(a)}
           into(n) == {e \in Feeding(a) : Dest(e) = n}
<1>1. /\ meta' = [n \in Addresses |-> IF n \in grown THEN Fed(a, n, into(n)) ELSE meta[n]]
      /\ reached' = reached \cup grown
      /\ expanded' = expanded \cup {a}
      /\ Persist(S)
      /\ meta[a].hop < MaxHops
  BY DEF FanOut, Visit, Expandable
<1>2. Kept' = Kept \cup S
  BY <1>1, PersistKeeps DEF TrailInv
<1>3. a \in reached /\ reached \subseteq Addresses /\ expanded \subseteq Addresses
  BY DEF TrailInv, LimitsInv, Inside
<1>4. grown \subseteq Addresses /\ grown \cap (expanded \cup {a}) = {}
  <2>1. grown \subseteq Addresses
    BY DestIsAddress DEF TrailInv, LimitsInv
  <2>2. \A e \in Feeding(a) : Dest(e) \notin expanded \cup {a}
    BY DEF Feeding
  <2> QED BY <2>1, <2>2
<1>5. \A x \in expanded' : meta'[x] = meta[x]
  BY <1>1, <1>3, <1>4
<1>6. \A e \in Feeding(a) : e \in S /\ e.from = a /\ e.ts >= meta[a].since
  BY DEF Feeding, Selected, Top, Resolved, Crossings, Legs, Outs
<1>7. ASSUME NEW b \in reached \ {Seed}
      PROVE  /\ \E e \in Kept' : /\ Dest(e) = b /\ e.from \in expanded'
                                 /\ meta[b].hop = meta'[e.from].hop + 1
             /\ \E e \in Kept' : /\ Dest(e) = b /\ e.from \in expanded'
                                 /\ meta[b].since = e.ts /\ e.ts >= meta'[e.from].since
  BY <1>1, <1>2, <1>5, ZenonT(30) DEF TrailInv, MoneyTrail
<1>8. ASSUME NEW b \in grown
      PROVE  /\ meta'[b].hop \in {m.hop : m \in IF b \in reached THEN {meta[b]} ELSE {}}
                                   \cup {meta[a].hop + 1}
             /\ meta'[b].since \in {m.since : m \in IF b \in reached THEN {meta[b]} ELSE {}}
                                     \cup {e.ts : e \in into(b)}
  <2> DEFINE known == IF b \in reached THEN {meta[b]} ELSE {}
             hops  == {m.hop : m \in known} \cup {meta[a].hop + 1}
             times == {m.since : m \in known} \cup {e.ts : e \in into(b)}
  <2>1. /\ meta'[b].hop = Min(hops)
        /\ meta'[b].since = Min(times)
    BY <1>1, <1>4 DEF Fed
  <2>2. hops \subseteq 0 .. MaxHops /\ times \subseteq 0 .. WindowEnd
    <3>1. \A m \in known : m.hop \in 0 .. MaxHops /\ m.since \in 0 .. WindowEnd
      BY DEF TrailInv, LimitsInv, WithinLimits
    <3>2. meta[a].hop + 1 \in 0 .. MaxHops
      BY <1>1, <1>3, WalkAssumption DEF TrailInv, LimitsInv, WithinLimits
    <3>3. ASSUME NEW e \in into(b) PROVE e.ts \in 0 .. WindowEnd
      <4>1. e \in Outs(a)
        BY DEF Feeding, Selected, Top, Resolved, Crossings, Legs
      <4>2. e.ts \in Int /\ e.ts >= meta[a].since /\ e.ts <= WindowEnd
        BY <4>1, WalkAssumption DEF Outs, TrailInv, LimitsInv, Inside
      <4>3. meta[a].since \in 0 .. WindowEnd
        BY <1>3 DEF TrailInv, LimitsInv, WithinLimits
      <4> QED BY <4>2, <4>3, WalkAssumption
    <3> QED BY <3>1, <3>2, <3>3
  <2>3. hops # {} /\ times # {}
    OBVIOUS
  <2>4. MaxHops \in Nat /\ WindowEnd \in Nat
    BY WalkAssumption
  <2> HIDE DEF hops, times
  <2>5. Min(hops) \in hops /\ Min(times) \in times
    BY <2>2, <2>3, <2>4, LeastOfNaturals
  <2> QED BY <2>1, <2>5 DEF hops, times
<1>9. ASSUME NEW b \in reached' \ {Seed}
      PROVE  /\ \E e \in Kept' : /\ Dest(e) = b /\ e.from \in expanded'
                                 /\ meta'[b].hop = meta'[e.from].hop + 1
             /\ \E e \in Kept' : /\ Dest(e) = b /\ e.from \in expanded'
                                 /\ meta'[b].since = e.ts /\ e.ts >= meta'[e.from].since
  <2>1. CASE b \notin grown
    <3>1. b \in reached \ {Seed} /\ b \in Addresses
      BY <1>1, <1>3, <2>1
    <3>2. meta'[b] = meta[b]
      BY <1>1, <2>1, <3>1
    <3> QED BY <1>7, <3>1, <3>2
  <2>2. CASE b \in grown
    <3>1. PICK d \in Feeding(a) : Dest(d) = b
      BY <2>2
    <3>2. \E e \in Kept' : /\ Dest(e) = b /\ e.from \in expanded'
                           /\ meta'[b].hop = meta'[e.from].hop + 1
      <4>1. CASE meta'[b].hop = meta[a].hop + 1
        <5>1. d \in Kept' /\ d.from = a
          BY <1>2, <1>6, <3>1
        <5>2. a \in expanded' /\ meta'[a] = meta[a]
          BY <1>1, <1>5
        <5> QED BY <3>1, <4>1, <5>1, <5>2
      <4>2. CASE b \in reached /\ meta'[b].hop = meta[b].hop
        BY <1>7, <1>9, <4>2
      <4> QED BY <1>8, <2>2, <4>1, <4>2
    <3>3. \E e \in Kept' : /\ Dest(e) = b /\ e.from \in expanded'
                           /\ meta'[b].since = e.ts /\ e.ts >= meta'[e.from].since
      <4>1. CASE \E e \in into(b) : meta'[b].since = e.ts
        BY <1>1, <1>2, <1>5, <1>6, <4>1
      <4>2. CASE b \in reached /\ meta'[b].since = meta[b].since
        BY <1>7, <1>9, <4>2
      <4> QED BY <1>8, <2>2, <4>1, <4>2
    <3> QED BY <3>2, <3>3
  <2> QED BY <2>1, <2>2
<1> QED BY <1>9 DEF MoneyTrail, Dest

\* Every turn keeps the trail.
LEMMA StepTrail == TrailInv /\ [WalkNext]_walkVars => TrailInv'
<1> SUFFICES ASSUME TrailInv, [WalkNext]_walkVars PROVE TrailInv'
  OBVIOUS
<1>1. StoredInv' /\ LimitsInv'
  BY StepStored, StepLimits DEF TrailInv
<1>2. ASSUME NEW p \in heap, Turn(p) PROVE expanded' \subseteq reached' /\ MoneyTrail'
  <2>1. p.key \in reached
    BY DEF TrailInv, LimitsInv
  <2>2. CASE Discard(p) \/ Service(p) \/ OutOfHops(p)
    <3>1. /\ UNCHANGED <<meta, reached, buffer, graph>>
          /\ expanded \subseteq expanded' /\ expanded' \subseteq expanded \cup {p.key}
      BY <2>2 DEF Discard, Service, OutOfHops, Visit
    <3> QED BY <2>1, <3>1, SameTrail DEF TrailInv, Kept
  <2>3. CASE HighDegreeService(p)
    <3>1. /\ UNCHANGED <<meta, reached>> /\ Persist(Top(Outs(p.key)))
          /\ expanded' = expanded \cup {p.key}
      BY <2>3 DEF HighDegreeService, Visit
    <3>2. Kept' = Kept \cup Top(Outs(p.key))
      BY <3>1, PersistKeeps DEF TrailInv
    <3> QED BY <2>1, <3>1, <3>2, SameTrail DEF TrailInv
  <2>4. CASE FanOut(p)
    <3>1. reached \subseteq reached' /\ expanded' = expanded \cup {p.key}
      BY <2>4 DEF FanOut, Visit
    <3> QED BY <2>1, <2>4, <3>1, FanOutTrail DEF TrailInv
  <2> QED BY <1>2, <2>2, <2>3, <2>4 DEF Turn
<1>3. CASE Finish
  <2>1. UNCHANGED <<meta, reached, expanded>> /\ buffer' = {} /\ graph' = graph \cup buffer
    BY <1>3 DEF Finish, Write
  <2> QED BY <1>1, <2>1, SameTrail DEF TrailInv, Kept
<1>4. CASE UNCHANGED walkVars
  <2>1. UNCHANGED <<meta, reached, expanded, buffer, graph>>
    BY <1>4 DEF walkVars
  <2> QED BY <1>1, <2>1, SameTrail DEF TrailInv, Kept
<1> QED BY <1>1, <1>2, <1>3, <1>4 DEF WalkNext, TrailInv

\* However paths fork, join and cycle, and in whatever order they are walked, every address
\* reached has a stored trail: one of its hops and one of its arrival.
THEOREM MoneyLeavesATrail == WalkSpec => []MoneyTrail
<1>1. WalkInit => TrailInv
  <2> SUFFICES ASSUME WalkInit PROVE TrailInv
    OBVIOUS
  <2>1. StoredInv
    BY DEF WalkInit, StoredInv
  <2>2. LimitsInv
    BY InitLimits
  <2>3. reached = {Seed} /\ expanded = {}
    BY DEF WalkInit
  <2> QED BY <2>1, <2>2, <2>3 DEF TrailInv, MoneyTrail
<1>2. TrailInv => MoneyTrail
  BY DEF TrailInv
<1> QED BY <1>1, <1>2, StepTrail, PTL DEF WalkSpec

-----------------------------------------------------------------------------
(* Sums over finite sets. The recursion by which they are defined has a       *)
(* solution because a sum of natural numbers counts something.                *)

\* Induction over the subsets of a finite set, with the set of those that have the property
\* in place of the property.
LEMMA SetInduction ==
    ASSUME NEW S, IsFiniteSet(S), NEW P, {} \in P,
           \A T \in SUBSET S : \A x \in S \ T : T \in P => T \cup {x} \in P
    PROVE  S \in P
<1> SUFFICES ASSUME S \notin P PROVE FALSE
  OBVIOUS
<1> DEFINE Bad == {T \in SUBSET S : T \notin P}
<1>1. Bad \subseteq FiniteSubsetsOf(S) /\ Bad # {}
  BY FS_Subset DEF FiniteSubsetsOf
<1>2. PICK T \in Bad : \A U \in Bad : <<U, T>> \notin StrictSubsetOrdering(S)
  <2> HIDE DEF Bad
  <2> QED BY <1>1, FS_StrictSubsetOrderingWellFounded, WFMin
<1>3. PICK x \in T : TRUE
  OBVIOUS
<1>4. T \ {x} \in SUBSET S /\ T \ {x} # T /\ x \in S \ (T \ {x}) /\ (T \ {x}) \cup {x} = T
  BY <1>3
<1>5. T \ {x} \in Bad
  BY <1>4
<1>6. <<T \ {x}, T>> \in StrictSubsetOrdering(S)
  BY <1>4 DEF StrictSubsetOrdering
<1> QED BY <1>2, <1>5, <1>6

\* f[x] tokens for every x of S.
Units(f, S) == UNION {{x} \X (1 .. f[x]) : x \in S}

\* What an element brings is counted once.
LEMMA UnitsOfOne ==
    ASSUME NEW f, NEW x, f[x] \in Nat
    PROVE  IsFiniteSet(Units(f, {x})) /\ Cardinality(Units(f, {x})) = f[x]
<1> DEFINE tokens == {x} \X (1 .. f[x])
<1>1. Units(f, {x}) = tokens
  BY DEF Units
<1>2. IsFiniteSet(1 .. f[x]) /\ Cardinality(1 .. f[x]) = f[x]
  BY FS_Interval, SMTT(20)
<1>3. IsFiniteSet({x}) /\ Cardinality({x}) = 1
  BY FS_Singleton
<1>4. IsFiniteSet(tokens) /\ Cardinality(tokens) = 1 * f[x]
  BY <1>2, <1>3, FS_Product
<1> HIDE DEF tokens
<1> QED BY <1>1, <1>4

\* Sets without a common element.
LEMMA DisjointCount ==
    ASSUME NEW A, NEW B, IsFiniteSet(A), IsFiniteSet(B), A \cap B = {}
    PROVE  IsFiniteSet(A \cup B) /\ Cardinality(A \cup B) = Cardinality(A) + Cardinality(B)
<1>1. Cardinality(A \cup B) = Cardinality(A) + Cardinality(B) - Cardinality(A \cap B)
  BY FS_Union
<1>2. Cardinality(A \cap B) = 0
  BY FS_EmptySet
<1>3. Cardinality(A) \in Nat /\ Cardinality(B) \in Nat
  BY FS_CardinalityType
<1> QED BY <1>1, <1>2, <1>3, FS_Union

\* An element more brings its own tokens.
LEMMA UnitsGrow ==
    ASSUME NEW f, NEW S, NEW x, x \notin S, f[x] \in Nat, IsFiniteSet(Units(f, S))
    PROVE  /\ IsFiniteSet(Units(f, S \cup {x}))
           /\ Cardinality(Units(f, S \cup {x})) = f[x] + Cardinality(Units(f, S))
<1> DEFINE A == Units(f, S)
           B == Units(f, {x})
           C == Units(f, S \cup {x})
<1>1. C = A \cup B /\ A \cap B = {}
  BY DEF Units
<1>2. IsFiniteSet(A) /\ Cardinality(A) \in Nat
  BY FS_CardinalityType
<1>3. IsFiniteSet(B) /\ Cardinality(B) = f[x]
  BY UnitsOfOne
<1> SUFFICES IsFiniteSet(C) /\ Cardinality(C) = f[x] + Cardinality(A)
  OBVIOUS
<1> HIDE DEF A, B, C
<1>4. IsFiniteSet(C) /\ Cardinality(C) = Cardinality(A) + Cardinality(B)
  BY <1>1, <1>2, <1>3, DisjointCount
<1> QED BY <1>2, <1>3, <1>4

\* There are finitely many.
LEMMA UnitsFinite ==
    ASSUME NEW f, NEW S, IsFiniteSet(S), \A x \in S : f[x] \in Nat
    PROVE  IsFiniteSet(Units(f, S)) /\ Cardinality(Units(f, S)) \in Nat
<1> DEFINE P == {T \in SUBSET S : IsFiniteSet(Units(f, T))}
<1>1. {} \in P
  <2>1. Units(f, {}) = {}
    BY DEF Units
  <2> QED BY <2>1, FS_EmptySet
<1>2. ASSUME NEW T \in SUBSET S, NEW x \in S \ T, T \in P PROVE T \cup {x} \in P
  BY <1>2, UnitsGrow
<1> HIDE DEF P
<1>3. S \in P
  BY <1>1, <1>2, SetInduction
<1> QED BY <1>3, FS_CardinalityType DEF P

Sum(f, S) == Cardinality(Units(f, S))

\* The sum of f over S is their number: it satisfies the recursion that defines the sum, and
\* nothing else does.
LEMMA SumIsCount ==
    ASSUME NEW f, NEW S, IsFiniteSet(S), \A x \in S : f[x] \in Nat
    PROVE  SumFunctionOnSet(f, S) = Sum(f, S)
<1> DEFINE Pick(s) == CHOOSE x \in s : TRUE
           Eq(it) == it = [s \in SUBSET S |-> IF s = {} THEN 0 ELSE f[Pick(s)] + it[s \ {Pick(s)}]]
           count == [s \in SUBSET S |-> Cardinality(Units(f, s))]
<1>1. SumFunctionOnSet(f, S) = (CHOOSE it : Eq(it))[S]
  BY DEF SumFunctionOnSet, FoldFunctionOnSet, MapThenFoldSet
<1>2. \A s \in SUBSET S : s # {} => Pick(s) \in s
  OBVIOUS
<1> HIDE DEF Pick
<1>3. Eq(count)
  <2> SUFFICES ASSUME NEW s \in SUBSET S
               PROVE  count[s] = IF s = {} THEN 0 ELSE f[Pick(s)] + count[s \ {Pick(s)}]
    OBVIOUS
  <2>1. CASE s = {}
    BY <2>1, FS_EmptySet DEF Units
  <2>2. CASE s # {}
    <3>1. Pick(s) \in s
      BY <1>2, <2>2
    <3> DEFINE x == Pick(s)
               r == s \ {x}
    <3>2. x \in S /\ x \notin r /\ s = r \cup {x} /\ r \in SUBSET S
      BY <3>1
    <3>3. IsFiniteSet(Units(f, r))
      BY <3>2, UnitsFinite, FS_Subset
    <3>4. Cardinality(Units(f, s)) = f[x] + Cardinality(Units(f, r))
      BY <3>2, <3>3, UnitsGrow
    <3> QED BY <2>2, <3>2, <3>4
  <2> QED BY <2>1, <2>2
<1>4. ASSUME NEW it, Eq(it) PROVE it[S] = count[S]
  <2> SUFFICES ASSUME it[S] # count[S] PROVE FALSE
    OBVIOUS
  <2> DEFINE Off == {t \in SUBSET S : it[t] # count[t]}
  <2> HIDE DEF count
  <2>1. Off \subseteq FiniteSubsetsOf(S) /\ Off # {}
    BY FS_Subset DEF FiniteSubsetsOf
  <2>2. PICK t \in Off : \A u \in Off : <<u, t>> \notin StrictSubsetOrdering(S)
    <3> HIDE DEF Off
    <3> QED BY <2>1, FS_StrictSubsetOrderingWellFounded, WFMin
  <2> DEFINE r == t \ {Pick(t)}
  <2>3. t \in SUBSET S
    OBVIOUS
  <2>4. /\ it[t] = IF t = {} THEN 0 ELSE f[Pick(t)] + it[r]
        /\ count[t] = IF t = {} THEN 0 ELSE f[Pick(t)] + count[r]
    <3>1. it = [s \in SUBSET S |-> IF s = {} THEN 0 ELSE f[Pick(s)] + it[s \ {Pick(s)}]]
      BY <1>4
    <3>2. count = [s \in SUBSET S |-> IF s = {} THEN 0 ELSE f[Pick(s)] + count[s \ {Pick(s)}]]
      BY <1>3
    <3>3. it[t] = IF t = {} THEN 0 ELSE f[Pick(t)] + it[r]
      BY <2>3, <3>1
    <3>4. count[t] = IF t = {} THEN 0 ELSE f[Pick(t)] + count[r]
      BY <2>3, <3>2
    <3> QED BY <3>3, <3>4
  <2>5. t # {}
    BY <2>4
  <2>6. Pick(t) \in t
    BY <1>2, <2>3, <2>5
  <2>7. r \in Off
    BY <2>3, <2>4, <2>5, <2>6
  <2>8. <<r, t>> \in StrictSubsetOrdering(S)
    BY <2>3, <2>6 DEF StrictSubsetOrdering
  <2> QED BY <2>2, <2>7, <2>8
<1> HIDE DEF Eq
<1>5. Eq(CHOOSE it : Eq(it))
  BY <1>3
<1>6. (CHOOSE it : Eq(it))[S] = count[S]
  BY <1>4, <1>5
<1> QED BY <1>1, <1>6 DEF Sum

\* A sum of natural numbers is one.
LEMMA SumNat ==
    ASSUME NEW f, NEW S, IsFiniteSet(S), \A x \in S : f[x] \in Nat
    PROVE  Sum(f, S) \in Nat
BY UnitsFinite DEF Sum

\* Nothing adds up to nothing.
LEMMA SumOfNone == ASSUME NEW f PROVE Sum(f, {}) = 0
<1>1. Units(f, {}) = {}
  BY DEF Units
<1> QED BY <1>1, FS_EmptySet DEF Sum

\* One summand more.
LEMMA SumGrows ==
    ASSUME NEW f, NEW S, IsFiniteSet(S), NEW x, x \notin S, \A y \in S \cup {x} : f[y] \in Nat
    PROVE  Sum(f, S \cup {x}) = f[x] + Sum(f, S)
BY UnitsFinite, UnitsGrow DEF Sum

\* Only the values on S count.
LEMMA SumSame ==
    ASSUME NEW f, NEW g, NEW S, \A x \in S : f[x] = g[x]
    PROVE  Sum(f, S) = Sum(g, S)
<1>1. Units(f, S) = Units(g, S)
  BY DEF Units
<1> QED BY <1>1 DEF Sum

\* The sum over two sets without a common element.
LEMMA SumOfBoth ==
    ASSUME NEW f, NEW S, NEW T, IsFiniteSet(S), IsFiniteSet(T), S \cap T = {},
           \A x \in S \cup T : f[x] \in Nat
    PROVE  Sum(f, S \cup T) = Sum(f, S) + Sum(f, T)
<1> DEFINE A == Units(f, S)
           B == Units(f, T)
           C == Units(f, S \cup T)
<1>1. C = A \cup B /\ A \cap B = {}
  BY DEF Units
<1>2. IsFiniteSet(A) /\ IsFiniteSet(B)
  BY UnitsFinite
<1> SUFFICES Cardinality(C) = Cardinality(A) + Cardinality(B)
  BY DEF Sum
<1> HIDE DEF A, B, C
<1> QED BY <1>1, <1>2, DisjointCount

\* A part of the summands adds up to no more than all of them.
LEMMA SumOfPart ==
    ASSUME NEW f, NEW S, IsFiniteSet(S), \A x \in S : f[x] \in Nat, NEW T \in SUBSET S
    PROVE  Sum(f, T) <= Sum(f, S)
<1>1. Units(f, T) \subseteq Units(f, S)
  BY DEF Units
<1> QED BY <1>1, UnitsFinite, FS_Subset DEF Sum

\* Summands that keep a ratio keep it in sum.
LEMMA SumInRatio ==
    ASSUME NEW f, NEW g, NEW S, IsFiniteSet(S), NEW c \in Nat, NEW d \in Nat,
           \A x \in S : f[x] \in Nat /\ g[x] \in Nat /\ d * g[x] <= c * f[x]
    PROVE  d * Sum(g, S) <= c * Sum(f, S)
<1> DEFINE P == {T \in SUBSET S : d * Sum(g, T) <= c * Sum(f, T)}
<1>1. {} \in P
  BY SumOfNone
<1>2. ASSUME NEW T \in SUBSET S, NEW x \in S \ T, T \in P PROVE T \cup {x} \in P
  <2>1. IsFiniteSet(T)
    BY FS_Subset
  <2>2. Sum(f, T \cup {x}) = f[x] + Sum(f, T) /\ Sum(g, T \cup {x}) = g[x] + Sum(g, T)
    BY <2>1, SumGrows
  <2>3. Sum(f, T) \in Nat /\ Sum(g, T) \in Nat
    BY <2>1, SumNat
  <2>4. \A m, n, k \in Nat : k * (m + n) = k * m + k * n /\ k * m \in Nat
    OBVIOUS
  <2>5. /\ d * (g[x] + Sum(g, T)) = d * g[x] + d * Sum(g, T)
        /\ c * (f[x] + Sum(f, T)) = c * f[x] + c * Sum(f, T)
    BY <2>3, <2>4
  <2>6. d * g[x] + d * Sum(g, T) <= c * f[x] + c * Sum(f, T)
    <3>1. d * g[x] <= c * f[x] /\ d * Sum(g, T) <= c * Sum(f, T)
      BY <1>2
    <3>2. d * g[x] \in Nat /\ c * f[x] \in Nat /\ d * Sum(g, T) \in Nat /\ c * Sum(f, T) \in Nat
      BY <2>3, <2>4
    <3> QED BY <3>1, <3>2
  <2>7. d * Sum(g, T \cup {x}) <= c * Sum(f, T \cup {x})
    BY <2>2, <2>5, <2>6
  <2> QED BY <2>7
<1> HIDE DEF P
<1>3. S \in P
  BY <1>1, <1>2, SetInduction
<1> QED BY <1>3 DEF P

\* The sum of two functions.
LEMMA SumOfSums ==
    ASSUME NEW f, NEW g, NEW h, NEW S, IsFiniteSet(S),
           \A x \in S : f[x] \in Nat /\ g[x] \in Nat /\ h[x] = f[x] + g[x]
    PROVE  Sum(h, S) = Sum(f, S) + Sum(g, S)
<1> DEFINE P == {T \in SUBSET S : Sum(h, T) = Sum(f, T) + Sum(g, T)}
<1>1. {} \in P
  BY SumOfNone
<1>2. ASSUME NEW T \in SUBSET S, NEW x \in S \ T, T \in P PROVE T \cup {x} \in P
  <2>1. IsFiniteSet(T)
    BY FS_Subset
  <2>2. /\ Sum(f, T \cup {x}) = f[x] + Sum(f, T)
        /\ Sum(g, T \cup {x}) = g[x] + Sum(g, T)
        /\ Sum(h, T \cup {x}) = h[x] + Sum(h, T)
    BY <2>1, SumGrows
  <2>3. Sum(f, T) \in Nat /\ Sum(g, T) \in Nat
    BY <2>1, SumNat
  <2> QED BY <1>2, <2>2, <2>3
<1> HIDE DEF P
<1>3. S \in P
  BY <1>1, <1>2, SetInduction
<1> QED BY <1>3 DEF P

\* Summing what goes to each target sums what goes to any.
LEMMA SumByTarget ==
    ASSUME NEW f, NEW S, IsFiniteSet(S), \A x \in S : f[x] \in Nat,
           NEW G, IsFiniteSet(G), NEW to, \A x \in S : to[x] \in G,
           NEW part, \A n \in G : part[n] = {x \in S : to[x] = n},
           NEW g, \A n \in G : g[n] = Sum(f, part[n])
    PROVE  Sum(g, G) = Sum(f, S)
<1> DEFINE into(T) == {x \in S : to[x] \in T}
           P == {T \in SUBSET G : Sum(g, T) = Sum(f, into(T))}
<1>1. {} \in P
  <2>1. into({}) = {}
    OBVIOUS
  <2> QED BY <2>1, SumOfNone
<1>2. \A n \in G : part[n] \subseteq S /\ IsFiniteSet(part[n])
  BY FS_Subset
<1>3. ASSUME NEW n \in G PROVE g[n] \in Nat
  <2>1. g[n] = Sum(f, part[n]) /\ \A x \in part[n] : f[x] \in Nat
    BY <1>2
  <2> QED BY <1>2, <2>1, SumNat
<1>4. ASSUME NEW T \in SUBSET G, NEW n \in G \ T, T \in P PROVE T \cup {n} \in P
  <2>1. into(T \cup {n}) = into(T) \cup part[n] /\ into(T) \cap part[n] = {}
    OBVIOUS
  <2>2. IsFiniteSet(into(T)) /\ IsFiniteSet(part[n]) /\ IsFiniteSet(T)
    BY <1>2, FS_Subset
  <2>3. \A x \in into(T) \cup part[n] : f[x] \in Nat
    BY <1>2
  <2>4. g[n] = Sum(f, part[n]) /\ Sum(g, T) = Sum(f, into(T))
    BY <1>4
  <2>5. Sum(g, T \cup {n}) = g[n] + Sum(g, T)
    BY <1>3, <2>2, SumGrows
  <2> SUFFICES Sum(g, T \cup {n}) = Sum(f, into(T \cup {n}))
    OBVIOUS
  <2>6. Sum(f, into(T)) \in Nat /\ Sum(f, part[n]) \in Nat
    BY <2>2, <2>3, SumNat
  <2> HIDE DEF into
  <2>7. Sum(f, into(T) \cup part[n]) = Sum(f, into(T)) + Sum(f, part[n])
    BY <2>1, <2>2, <2>3, SumOfBoth
  <2>8. Sum(f, into(T \cup {n})) = Sum(f, into(T) \cup part[n])
    BY <2>1, Zenon
  <2> QED BY <2>4, <2>5, <2>6, <2>7, <2>8
<1>5. into(G) = S
  OBVIOUS
<1> HIDE DEF P
<1>6. G \in P
  BY <1>1, <1>4, SetInduction
<1> QED BY <1>5, <1>6 DEF P

-----------------------------------------------------------------------------
(* The allocation of taint                                                   *)

\* Transfers as a provider answers with.
Amounts(S) ==
    /\ IsFiniteSet(S)
    /\ \A e \in S : e.ts \in Int /\ e.id \in Nat /\ e.usd \in Nat \cup {Unpriced}
    /\ \A e, f \in S : e.id = f.id => e = f

LEMMA HistoryAmounts == ASSUME Inside, NEW S \in SUBSET task.history PROVE Amounts(S)
<1>1. /\ IsFiniteSet(task.history)
      /\ \A e \in task.history : e.ts \in Int /\ e.id \in Nat /\ e.usd \in Nat \cup {Unpriced}
      /\ \A e, f \in task.history : e.id = f.id => e = f
  BY WalkAssumption DEF Inside
<1> QED BY <1>1, FS_Subset DEF Amounts

\* A total is the sum of the values.
LEMMA TotalIsSum ==
    ASSUME NEW S, Amounts(S), NEW f, \A e \in S : f[e] = Value(e)
    PROVE  /\ Total(S) = Sum(f, S) /\ Total(S) \in Nat
           /\ \A e \in S : Value(e) \in Nat
<1>1. \A e \in S : Value(e) \in Nat
  BY DEF Amounts, Value
<1>2. IsFiniteSet(S)
  BY DEF Amounts
<1> DEFINE v == [e \in S |-> Value(e)]
<1>3. Total(S) = SumFunctionOnSet(v, S)
  BY DEF Total, SumFunction
<1>4. SumFunctionOnSet(v, S) = Sum(v, S) /\ Sum(v, S) \in Nat
  BY <1>1, <1>2, SumIsCount, SumNat
<1>5. Sum(v, S) = Sum(f, S)
  BY SumSame
<1> QED BY <1>1, <1>3, <1>4, <1>5

\* HAIRCUT: shares in proportion, rounded down, are no more than what is split.
LEMMA HaircutSplits ==
    ASSUME NEW S, Amounts(S), NEW t \in Nat,
           NEW g, \A e \in S : g[e] = HaircutShare(t, S, e)
    PROVE  /\ \A e \in S : g[e] \in Nat
           /\ Sum(g, S) <= t
<1> DEFINE v == [e \in S |-> Value(e)]
           T == Total(S)
<1>1. T = Sum(v, S) /\ T \in Nat /\ (\A e \in S : Value(e) \in Nat) /\ IsFiniteSet(S)
  BY TotalIsSum DEF Amounts
<1>2. \A e \in S : g[e] = IF T = 0 THEN 0 ELSE IF t >= T THEN v[e] ELSE (v[e] * t) \div T
  BY DEF HaircutShare
<1>3. \A e \in S : v[e] \in Nat
  BY <1>1
<1> HIDE DEF v, T
<1>4. CASE T = 0
  <2>1. \A e \in S : g[e] \in Nat /\ 1 * g[e] <= 0 * v[e]
    BY <1>2, <1>3, <1>4
  <2>2. 1 * Sum(g, S) <= 0 * Sum(v, S)
    BY <1>1, <1>3, <2>1, SumInRatio
  <2>3. Sum(g, S) \in Nat /\ Sum(v, S) \in Nat
    BY <1>1, <1>3, <2>1, SumNat
  <2> QED BY <2>1, <2>2, <2>3
<1>5. CASE T # 0 /\ t >= T
  <2>1. \A e \in S : g[e] = v[e]
    BY <1>2, <1>5
  <2>2. Sum(g, S) = Sum(v, S)
    BY <2>1, SumSame
  <2> QED BY <1>1, <1>3, <1>5, <2>1, <2>2
<1>6. CASE T # 0 /\ ~(t >= T)
  <2>1. \A m \in Nat : \A k \in Nat \ {0} : m \div k \in Nat /\ k * (m \div k) <= m
    OBVIOUS
  <2>2. ASSUME NEW e \in S PROVE g[e] \in Nat /\ T * g[e] <= t * v[e]
    <3>1. v[e] * t \in Nat /\ v[e] * t = t * v[e]
      BY <1>3
    <3>2. g[e] = (v[e] * t) \div T
      BY <1>2, <1>6
    <3> QED BY <1>1, <1>6, <2>1, <3>1, <3>2
  <2>3. T * Sum(g, S) <= t * Sum(v, S)
    BY <1>1, <1>3, <2>2, SumInRatio
  <2>4. Sum(g, S) \in Nat
    BY <1>1, <2>2, SumNat
  <2>5. \A m, n \in Nat : \A k \in Nat \ {0} : k * m <= n * k => m <= n
    OBVIOUS
  <2>6. Sum(g, S) <= t
    BY <1>1, <1>6, <2>3, <2>4, <2>5
  <2> QED BY <2>2, <2>6
<1> QED BY <1>4, <1>5, <1>6

\* Chronological order: transfers are in a line.
LEMMA EarlierIsOrder ==
    ASSUME NEW S, Amounts(S)
    PROVE  /\ \A e \in S : ~Earlier(e, e)
           /\ \A e, f \in S : e = f \/ Earlier(e, f) \/ Earlier(f, e)
           /\ \A e, f, g \in S : Earlier(e, f) /\ Earlier(f, g) => Earlier(e, g)
<1>1. \A e \in S : e.usd \in Int /\ e.ts \in Int /\ e.id \in Int
  BY DEF Amounts, Unpriced
<1>2. \A e, f \in S : e # f => e.id # f.id
  BY DEF Amounts
<1> QED BY <1>1, <1>2 DEF Earlier, Richer

\* Among finitely many there is a last one.
LEMMA LastTransfer ==
    ASSUME NEW S, Amounts(S), S # {}
    PROVE  \E m \in S : \A e \in S : ~Earlier(m, e)
<1> DEFINE P == {T \in SUBSET S : T = {} \/ \E m \in T : \A e \in T : ~Earlier(m, e)}
<1>1. {} \in P
  OBVIOUS
<1>2. ASSUME NEW T \in SUBSET S, NEW x \in S \ T, T \in P PROVE T \cup {x} \in P
  <2> SUFFICES \E m \in T \cup {x} : \A e \in T \cup {x} : ~Earlier(m, e)
    OBVIOUS
  <2>1. CASE T = {}
    BY <2>1, EarlierIsOrder
  <2>2. CASE T # {}
    <3>1. PICK m \in T : \A e \in T : ~Earlier(m, e)
      BY <1>2, <2>2
    <3>2. CASE Earlier(m, x)
      <4>1. \A e \in T \cup {x} : ~Earlier(x, e)
        BY <3>1, <3>2, EarlierIsOrder
      <4> QED BY <4>1
    <3>3. CASE ~Earlier(m, x)
      BY <3>1, <3>3
    <3> QED BY <3>2, <3>3
  <2> QED BY <2>1, <2>2
<1>3. IsFiniteSet(S)
  BY DEF Amounts
<1> HIDE DEF P
<1>4. S \in P
  BY <1>1, <1>2, <1>3, SetInduction
<1> QED BY <1>4 DEF P

\* FIFO: what the transfers up to some moment carry is no more than what is split, nor than
\* what they are worth.
LEMMA FifoSplits ==
    ASSUME NEW S, Amounts(S), NEW t \in Nat,
           NEW g, \A e \in S : g[e] = FifoShare(t, S, e)
    PROVE  /\ \A e \in S : g[e] \in Nat
           /\ Sum(g, S) <= t
<1> DEFINE v == [e \in S |-> Value(e)]
           before(e) == {f \in S : Earlier(f, e)}
           UpTo(D) == D \in SUBSET S /\ \A e \in D : before(e) \subseteq D
           Bounded(D) == Sum(g, D) <= t /\ Sum(g, D) <= Sum(v, D)
<1>1. IsFiniteSet(S)
  BY DEF Amounts
<1>2. \A e \in S : v[e] \in Nat
  BY DEF Amounts, Value
<1>3. \A T \in SUBSET S : Amounts(T) /\ IsFiniteSet(T)
  BY FS_Subset DEF Amounts
<1>4. \A T \in SUBSET S : Total(T) = Sum(v, T) /\ Sum(v, T) \in Nat
  BY <1>3, TotalIsSum
<1>5. ASSUME NEW e \in S
      PROVE  g[e] = IF t - Sum(v, before(e)) <= 0 THEN 0
                    ELSE IF t - Sum(v, before(e)) < v[e] THEN t - Sum(v, before(e)) ELSE v[e]
  <2>1. Total(before(e)) = Sum(v, before(e))
    BY <1>4
  <2> QED BY <2>1 DEF FifoShare
<1>6. \A e \in S : Sum(v, before(e)) \in Nat
  BY <1>4
<1> HIDE DEF v
<1>7. ASSUME NEW e \in S PROVE g[e] \in Nat
  <2> DEFINE spent == Sum(v, before(e))
  <2>1. g[e] = IF t - spent <= 0 THEN 0 ELSE IF t - spent < v[e] THEN t - spent ELSE v[e]
    BY <1>5
  <2>2. spent \in Nat /\ v[e] \in Nat
    BY <1>2, <1>6
  <2> HIDE DEF spent
  <2> QED BY <2>1, <2>2
<1>8. UpTo(S)
  OBVIOUS
<1>9. ASSUME NEW D, UpTo(D), \A C \in SUBSET D : C # D /\ UpTo(C) => Bounded(C)
      PROVE  Bounded(D)
  <2>1. CASE D = {}
    BY <2>1, SumOfNone
  <2>2. CASE D # {}
    <3>1. Amounts(D) /\ D \subseteq S
      BY <1>3, <1>9
    <3>2. PICK m \in D : \A e \in D : ~Earlier(m, e)
      BY <2>2, <3>1, LastTransfer
    <3> DEFINE C == D \ {m}
    <3>3. before(m) = C
      <4>1. before(m) \subseteq D
        BY <1>9
      <4>2. m \notin before(m)
        BY <3>1, EarlierIsOrder
      <4>3. \A e \in C : Earlier(e, m)
        BY <3>1, <3>2, EarlierIsOrder
      <4> QED BY <3>1, <4>1, <4>2, <4>3
    <3>4. UpTo(C)
      <4>1. ASSUME NEW e \in C, NEW f \in before(e) PROVE f \in C
        <5>1. f \in D
          BY <1>9, <4>1
        <5>2. f # m
          BY <3>1, <3>2, <4>1
        <5> QED BY <5>1, <5>2
      <4> QED BY <3>1, <4>1
    <3>5. Bounded(C)
      <4>1. C \in SUBSET D /\ C # D
        BY <3>2
      <4> QED BY <1>9, <3>4, <4>1
    <3>6. m \in S /\ m \notin C /\ D = C \cup {m} /\ C \in SUBSET S /\ IsFiniteSet(C)
      BY <1>3, <3>1, <3>2
    <3>7. Sum(g, D) = g[m] + Sum(g, C) /\ Sum(v, D) = v[m] + Sum(v, C)
      BY <1>2, <1>7, <3>6, SumGrows
    <3>8. Sum(g, C) \in Nat /\ Sum(v, C) \in Nat
      BY <1>2, <1>7, <3>6, SumNat
    <3>9. g[m] = IF t - Sum(v, C) <= 0 THEN 0
                 ELSE IF t - Sum(v, C) < v[m] THEN t - Sum(v, C) ELSE v[m]
      BY <1>5, <3>3, <3>6
    <3>10. v[m] \in Nat
      BY <1>2, <3>6
    <3> QED BY <3>5, <3>7, <3>8, <3>9, <3>10
  <2> QED BY <2>1, <2>2
<1>10. Bounded(S)
  <2> SUFFICES ASSUME ~Bounded(S) PROVE FALSE
    OBVIOUS
  <2> DEFINE Bad == {D \in SUBSET S : UpTo(D) /\ ~Bounded(D)}
  <2>1. Bad \subseteq FiniteSubsetsOf(S) /\ Bad # {}
    BY <1>3, <1>8 DEF FiniteSubsetsOf
  <2>2. PICK D \in Bad : \A C \in Bad : <<C, D>> \notin StrictSubsetOrdering(S)
    <3> HIDE DEF Bad
    <3> QED BY <2>1, FS_StrictSubsetOrderingWellFounded, WFMin
  <2>3. ASSUME NEW C \in SUBSET D, C # D, UpTo(C) PROVE Bounded(C)
    <3>1. <<C, D>> \in StrictSubsetOrdering(S)
      BY <2>3 DEF StrictSubsetOrdering
    <3> QED BY <2>2, <2>3, <3>1
  <2>4. UpTo(D)
    OBVIOUS
  <2> HIDE DEF UpTo, Bounded
  <2>5. Bounded(D)
    BY <1>9, <2>3, <2>4
  <2> QED BY <2>5
<1> QED BY <1>7, <1>10

\* Under either model the transfers that share an amount get no more than that.
LEMMA ShareSplits ==
    ASSUME NEW S, Amounts(S), NEW t \in Nat, NEW g, \A e \in S : g[e] = Share(t, S, e)
    PROVE  /\ \A e \in S : g[e] \in Nat
           /\ Sum(g, S) <= t
BY HaircutSplits, FifoSplits DEF Share

-----------------------------------------------------------------------------
(* The money of the case. What an address hands on is split among those it    *)
(* feeds, so together they hold no more than before.                          *)

Stops == {"service", "max_hops", "high_degree"}

TaintInv ==
    /\ StoredInv /\ LimitsInv
    /\ IsFiniteSet(reached) /\ expanded \subseteq reached
    /\ task.reported \in Nat
    /\ \A n \in Addresses : meta[n].taint \in Nat
    /\ \A n \in Addresses \ reached : meta[n].taint = 0
    /\ \A t \in terminals : t.reason \in Stops => t.addr \in expanded
    /\ TaintConserved

\* The sum in TaintConserved is one.
LEMMA HeldIsSum ==
    ASSUME NEW m, NEW R, IsFiniteSet(R), NEW f, \A a \in R : m[a].taint \in Nat /\ f[a] = m[a].taint
    PROVE  SumFunction([a \in R |-> m[a].taint]) = Sum(f, R) /\ Sum(f, R) \in Nat
<1> DEFINE g == [a \in R |-> m[a].taint]
<1>1. \A a \in R : g[a] \in Nat
  OBVIOUS
<1>2. SumFunction(g) = SumFunctionOnSet(g, R)
  BY DEF SumFunction
<1>3. SumFunctionOnSet(g, R) = Sum(g, R) /\ Sum(g, R) \in Nat
  BY <1>1, SumIsCount, SumNat
<1>4. Sum(g, R) = Sum(f, R)
  BY SumSame
<1> QED BY <1>2, <1>3, <1>4

\* A turn in which nobody hands anything on.
LEMMA SameHolders ==
    ASSUME TaintInv, UNCHANGED <<task, meta, reached>>, HandedOn' = HandedOn, Kept \subseteq Kept'
    PROVE  TaintConserved'
<1>1. Crossed' = {} => Crossed = {}
  BY DEF Crossed
<1>2. (reached \ HandedOn)' = reached \ HandedOn /\ meta' = meta /\ task' = task
  OBVIOUS
<1> QED BY <1>1, <1>2 DEF TaintInv, TaintConserved

\* An address at which the walk stops keeps what it holds.
LEMMA StoppedHolds ==
    ASSUME TaintInv, NEW a \in reached, a \notin expanded, expanded' = expanded \cup {a},
           NEW why \in Stops, terminals' = terminals \cup {Terminal(a, why)},
           UNCHANGED <<task, meta, reached>>, Kept \subseteq Kept'
    PROVE  /\ expanded' \subseteq reached'
           /\ \A t \in terminals' : t.reason \in Stops => t.addr \in expanded'
           /\ TaintConserved'
<1>1. \A b, w : Terminal(b, w).addr = b /\ Terminal(b, w).reason = w
  BY DEF Terminal
<1>2. \A b \in expanded : \A w \in Stops : Terminal(b, w) \in terminals'
                                            => Terminal(b, w) \in terminals
  BY <1>1
<1>3. HandedOn' = HandedOn
  BY <1>2 DEF HandedOn, Stops, Terminal
<1>4. TaintConserved'
  BY <1>3, SameHolders
<1> QED BY <1>1, <1>4 DEF TaintInv

\* What the transfers out of an address hand on are natural numbers, and those that were
\* selected hand on no more than it holds.
LEMMA HandedSplits ==
    ASSUME TaintInv, NEW a \in reached
    PROVE  /\ \A e \in Feeding(a) : Handed(a, e) \in Nat
           /\ IsFiniteSet(Feeding(a))
           /\ Resolved(a) = {} =>
                 Sum([e \in Feeding(a) |-> Handed(a, e)], Feeding(a)) <= meta[a].taint
<1> DEFINE t == meta[a].taint
           S == Selected(a)
           g == [e \in S |-> Share(t, S, e)]
<1>1. t \in Nat /\ Inside
  BY DEF TaintInv, LimitsInv, Inside
<1>2. S \subseteq task.history /\ Resolved(a) \subseteq task.history
  BY DEF Selected, Top, Resolved, Crossings, Legs, Outs
<1>3. Amounts(S)
  BY <1>1, <1>2, HistoryAmounts
<1>4. (\A e \in S : g[e] \in Nat) /\ Sum(g, S) <= t
  <2> HIDE DEF t, S
  <2> QED BY <1>1, <1>3, ShareSplits
<1>5. \A e \in S : Handed(a, e) = g[e]
  BY DEF Handed, Selected, Top, Crossings
<1>6. ASSUME NEW e \in Resolved(a) PROVE Handed(a, e) \in Nat
  <2>1. e.to \in Bridges
    BY DEF Resolved, Crossings
  <2>2. Amounts({e})
    BY <1>1, <1>2, HistoryAmounts
  <2> DEFINE h == [x \in {e} |-> Share(t, {e}, x)]
  <2>3. h[e] \in Nat
    <3>1. \A x \in {e} : h[x] = Share(t, {e}, x)
      OBVIOUS
    <3> HIDE DEF h, t
    <3> QED BY <1>1, <2>2, <3>1, ShareSplits
  <2> QED BY <2>1, <2>3 DEF Handed
<1>7. Feeding(a) \subseteq S \cup Resolved(a)
  BY DEF Feeding
<1>8. IsFiniteSet(Feeding(a)) /\ IsFiniteSet(S)
  BY <1>1, <1>2, <1>7, FS_Subset, WalkAssumption DEF Inside
<1>9. \A e \in Feeding(a) : Handed(a, e) \in Nat
  BY <1>4, <1>5, <1>6, <1>7
<1>10. ASSUME Resolved(a) = {}
       PROVE  Sum([e \in Feeding(a) |-> Handed(a, e)], Feeding(a)) <= t
  <2> DEFINE h == [e \in Feeding(a) |-> Handed(a, e)]
  <2>1. Feeding(a) \subseteq S
    BY <1>7, <1>10
  <2>2. \A e \in Feeding(a) : h[e] = g[e]
    BY <1>5, <2>1
  <2> HIDE DEF g, h, S, t
  <2>3. Sum(h, Feeding(a)) = Sum(g, Feeding(a))
    BY <2>2, SumSame
  <2>4. Sum(g, Feeding(a)) <= Sum(g, S)
    BY <1>4, <1>8, <2>1, SumOfPart
  <2>5. Sum(g, Feeding(a)) \in Nat /\ Sum(g, S) \in Nat
    BY <1>4, <1>8, <2>1, SumNat
  <2>6. Sum(h, Feeding(a)) <= t
    BY <1>1, <1>4, <2>3, <2>4, <2>5
  <2> QED BY <2>6 DEF h
<1> QED BY <1>8, <1>9, <1>10

\* The fan-out: what an address gets is the sum of what is handed to it, and a natural number.
LEMMA FanOutTaint ==
    ASSUME TaintInv, NEW p \in heap, FanOut(p)
    PROVE  /\ IsFiniteSet(reached') /\ expanded' \subseteq reached'
           /\ \A n \in Addresses : meta'[n].taint \in Nat
           /\ \A n \in Addresses \ reached' : meta'[n].taint = 0
           /\ \A t \in terminals' : t.reason \in Stops => t.addr \in expanded'
           /\ TaintConserved'
<1> DEFINE a       == p.key
           F       == Feeding(a)
           grown   == {Dest(e) : e \in F}
           into(n) == {e \in F : Dest(e) = n}
           h       == [e \in F |-> Handed(a, e)]
           m       == [n \in Addresses |-> meta[n].taint]
           g       == [n \in Addresses |-> IF n \in grown THEN Sum(h, into(n)) ELSE 0]
           s       == [n \in Addresses |-> m[n] + g[n]]
           R       == reached \ HandedOn
<1>1. /\ meta' = [n \in Addresses |-> IF n \in grown THEN Fed(a, n, into(n)) ELSE meta[n]]
      /\ reached' = reached \cup grown
      /\ expanded' = expanded \cup {a} /\ a \notin expanded
      /\ terminals' = terminals \cup {Terminal(e.to, "bridge_unresolved") :
                                         e \in Crossings(a) \ Resolved(a)}
      /\ Persist(Selected(a) \cup Crossings(a))
      /\ task' = task
  BY DEF FanOut, Visit, Stale
<1>2. a \in reached /\ reached \subseteq Addresses /\ expanded \subseteq reached /\ IsFiniteSet(reached)
  BY DEF TaintInv, LimitsInv, Inside
<1>3. /\ \A e \in F : h[e] \in Nat
      /\ IsFiniteSet(F)
      /\ Resolved(a) = {} => Sum(h, F) <= m[a]
  <2> HIDE DEF a
  <2> QED BY <1>2, HandedSplits
<1>4. grown \subseteq Addresses /\ grown \cap (expanded \cup {a}) = {}
  <2>1. grown \subseteq Addresses
    BY DestIsAddress DEF TaintInv, LimitsInv
  <2>2. \A e \in F : Dest(e) \notin expanded \cup {a}
    BY DEF Feeding
  <2> QED BY <2>1, <2>2
<1>5. IsFiniteSet(grown)
  <2> DEFINE d == [e \in F |-> Dest(e)]
  <2>1. d \in Surjection(F, grown)
    BY DEF Surjection
  <2> HIDE DEF F, grown, d
  <2> QED BY <1>3, <2>1, FS_Surjection
<1>6. \A n \in Addresses : m[n] \in Nat
  BY DEF TaintInv
<1>7. \A n \in grown : IsFiniteSet(into(n)) /\ Sum(h, into(n)) \in Nat
  <2> SUFFICES ASSUME NEW n \in grown PROVE IsFiniteSet(into(n)) /\ Sum(h, into(n)) \in Nat
    OBVIOUS
  <2>1. into(n) \in SUBSET F
    OBVIOUS
  <2>2. IsFiniteSet(into(n))
    BY <1>3, <2>1, FS_Subset
  <2>3. \A e \in into(n) : h[e] \in Nat
    BY <1>3, <2>1
  <2> HIDE DEF h, into
  <2> QED BY <2>2, <2>3, SumNat
<1>8. ASSUME NEW n \in Addresses PROVE meta'[n].taint = s[n]
  <2>1. CASE n \in grown
    <3> DEFINE k == [e \in into(n) |-> Handed(a, e)]
    <3>1. meta'[n].taint = m[n] + SumFunction(k)
      BY <1>1, <2>1 DEF Fed
    <3>2. SumFunction(k) = SumFunctionOnSet(k, into(n))
      BY DEF SumFunction
    <3>3. \A e \in into(n) : k[e] = h[e] /\ k[e] \in Nat
      BY <1>3
    <3> HIDE DEF k, h
    <3>4. SumFunctionOnSet(k, into(n)) = Sum(k, into(n))
      BY <1>7, <2>1, <3>3, SumIsCount
    <3>5. Sum(k, into(n)) = Sum(h, into(n))
      BY <3>3, SumSame
    <3> QED BY <2>1, <3>1, <3>2, <3>4, <3>5
  <2>2. CASE n \notin grown
    <3>1. meta'[n] = meta[n]
      BY <1>1, <2>2
    <3> QED BY <1>6, <2>2, <3>1
  <2> QED BY <2>1, <2>2
<1>9. \A n \in Addresses : g[n] \in Nat /\ s[n] \in Nat
  <2> SUFFICES ASSUME NEW n \in Addresses PROVE g[n] \in Nat /\ s[n] \in Nat
    OBVIOUS
  <2>1. m[n] \in Nat
    BY <1>6
  <2>2. g[n] \in Nat
    <3> HIDE DEF grown, h, into
    <3> QED BY <1>7
  <2> HIDE DEF m, g
  <2> QED BY <2>1, <2>2
<1>10. IsFiniteSet(reached')
  BY <1>1, <1>2, <1>5, FS_Union
<1>11. expanded' \subseteq reached'
  BY <1>1, <1>2
<1>12. \A n \in Addresses : meta'[n].taint \in Nat
  BY <1>8, <1>9
<1>13. ASSUME NEW n \in Addresses \ reached' PROVE meta'[n].taint = 0
  <2>1. n \notin grown /\ n \notin reached
    BY <1>1, <1>13
  <2>2. meta'[n] = meta[n]
    BY <1>1, <2>1
  <2> QED BY <2>1, <2>2 DEF TaintInv
<1>14. \A t \in terminals' : t.reason \in Stops => t \in terminals
  BY <1>1 DEF Terminal, Stops
<1>15. \A t \in terminals' : t.reason \in Stops => t.addr \in expanded'
  BY <1>1, <1>14 DEF TaintInv
<1>16. HandedOn' = HandedOn \cup {a}
  <2>1. \A b, w : Terminal(b, w).addr = b /\ Terminal(b, w).reason = w
    BY DEF Terminal
  <2>2. \A b \in expanded' : \A w \in Stops : Terminal(b, w) \in terminals' <=> Terminal(b, w) \in terminals
    BY <1>1, <1>14, <2>1
  <2>3. \A w \in Stops : Terminal(a, w) \notin terminals
    BY <1>1, <2>1 DEF TaintInv
  <2>4. HandedOn' = {b \in expanded' : \A w \in Stops : Terminal(b, w) \notin terminals'}
    BY DEF HandedOn, Stops, Terminal
  <2>5. HandedOn = {b \in expanded : \A w \in Stops : Terminal(b, w) \notin terminals}
    BY DEF HandedOn, Stops
  <2> QED BY <1>1, <2>2, <2>3, <2>4, <2>5
<1>17. ASSUME Crossed' = {}
       PROVE  SumFunction([b \in reached' \ HandedOn' |-> meta'[b].taint]) <= task'.reported
  <2>1. Kept' = Kept \cup Selected(a) \cup Crossings(a)
    BY <1>1, PersistKeeps DEF TaintInv
  <2>2. Resolved(a) = {} /\ Crossed = {}
    BY <1>17, <2>1 DEF Crossed, Resolved, Crossings
  <2>3. Sum(m, R) <= task.reported /\ Sum(m, R) \in Nat /\ IsFiniteSet(R)
    <3>1. SumFunction([b \in R |-> meta[b].taint]) <= task.reported
      BY <2>2 DEF TaintInv, TaintConserved
    <3>2. IsFiniteSet(R)
      BY <1>2, FS_Subset
    <3>3. \A b \in R : meta[b].taint \in Nat /\ m[b] = meta[b].taint
      BY <1>2, <1>6
    <3> HIDE DEF R, m
    <3> QED BY <3>1, <3>2, <3>3, HeldIsSum
  <2> DEFINE Q   == R \ {a}
             old == Q \cup grown
  <2>4. reached' \ HandedOn' = old
    BY <1>1, <1>4, <1>16 DEF HandedOn
  <2>5. a \in R /\ a \notin Q /\ R = Q \cup {a} /\ Q \subseteq Addresses /\ IsFiniteSet(Q)
    <3>1. a \in R
      BY <1>1, <1>2 DEF HandedOn
    <3> QED BY <1>2, <2>3, <3>1, FS_Subset
  <2>6. IsFiniteSet(old) /\ old \subseteq Addresses
    BY <1>4, <1>5, <2>5, FS_Union
  <2>7. SumFunction([b \in old |-> meta'[b].taint]) = Sum(s, old)
    <3>1. \A b \in old : meta'[b].taint \in Nat /\ s[b] = meta'[b].taint
      BY <1>8, <1>9, <2>6
    <3> HIDE DEF old, s
    <3> QED BY <2>6, <3>1, HeldIsSum
  <2>8. Sum(s, old) = Sum(m, old) + Sum(g, old)
    <3>1. \A b \in old : m[b] \in Nat /\ g[b] \in Nat /\ s[b] = m[b] + g[b]
      BY <1>6, <1>9, <2>6
    <3> HIDE DEF old, m, g, s
    <3> QED BY <2>6, <3>1, SumOfSums
  <2> DEFINE new == grown \ Q
  <2>9. Sum(m, old) = Sum(m, Q)
    <3>1. old = Q \cup new /\ Q \cap new = {} /\ IsFiniteSet(new)
      BY <1>5, FS_Subset
    <3>2. \A b \in new : m[b] = 0
      <4>1. \A b \in new : b \in Addresses \ reached
        BY <1>4 DEF HandedOn
      <4> QED BY <4>1 DEF TaintInv
    <3>3. \A b \in Q \cup new : m[b] \in Nat
      BY <1>4, <1>6, <2>5
    <3> HIDE DEF old, Q, new, m
    <3>4. Sum(m, Q \cup new) = Sum(m, Q) + Sum(m, new)
      BY <2>5, <3>1, <3>3, SumOfBoth
    <3>5. \A b \in new : m[b] \in Nat /\ 1 * m[b] <= 0 * m[b]
      BY <3>2
    <3>6. 1 * Sum(m, new) <= 0 * Sum(m, new)
      BY <3>1, <3>5, SumInRatio
    <3>7. Sum(m, new) \in Nat /\ Sum(m, Q) \in Nat
      BY <2>5, <3>1, <3>3, SumNat
    <3> QED BY <3>1, <3>4, <3>6, <3>7
  <2> DEFINE rest == Q \ grown
  <2>10. Sum(g, old) = Sum(g, grown)
    <3>1. old = grown \cup rest /\ grown \cap rest = {} /\ IsFiniteSet(rest)
      BY <2>5, FS_Subset
    <3>2. \A b \in rest : g[b] = 0
      BY <2>5
    <3>3. \A b \in grown \cup rest : g[b] \in Nat
      BY <1>4, <1>9, <2>5
    <3> HIDE DEF old, rest, grown, g
    <3>4. Sum(g, grown \cup rest) = Sum(g, grown) + Sum(g, rest)
      BY <1>5, <3>1, <3>3, SumOfBoth
    <3>5. \A b \in rest : g[b] \in Nat /\ 1 * g[b] <= 0 * g[b]
      BY <3>2
    <3>6. 1 * Sum(g, rest) <= 0 * Sum(g, rest)
      BY <3>1, <3>5, SumInRatio
    <3>7. Sum(g, rest) \in Nat /\ Sum(g, grown) \in Nat
      BY <1>5, <3>1, <3>3, SumNat
    <3> QED BY <3>1, <3>4, <3>6, <3>7
  <2> DEFINE to   == [e \in F |-> Dest(e)]
             part == [n \in grown |-> into(n)]
  <2>11. Sum(g, grown) = Sum(h, F)
    <3>1. \A n \in grown : part[n] = {e \in F : to[e] = n}
      OBVIOUS
    <3>2. \A n \in grown : g[n] = Sum(h, part[n])
      BY <1>4
    <3>3. \A e \in F : to[e] \in grown /\ h[e] \in Nat
      BY <1>3
    <3> HIDE DEF F, grown, to, part, g, h
    <3> QED BY <1>3, <1>5, <3>1, <3>2, <3>3, SumByTarget
  <2>12. Sum(m, R) = m[a] + Sum(m, Q)
    <3>1. \A b \in Q \cup {a} : m[b] \in Nat
      BY <1>2, <1>6, <2>5
    <3> HIDE DEF Q, m
    <3> QED BY <2>5, <3>1, SumGrows
  <2>13. Sum(m, Q) \in Nat /\ Sum(h, F) \in Nat /\ m[a] \in Nat
    <3>1. m[a] \in Nat
      BY <1>2, <1>6
    <3>2. \A b \in Q : m[b] \in Nat
      BY <1>6, <2>5
    <3> HIDE DEF Q, m, h, F, a
    <3> QED BY <1>3, <2>5, <3>1, <3>2, SumNat
  <2> HIDE DEF old, Q, R, m, g, h, s, F, a, grown
  <2>14. Sum(s, old) <= Sum(m, R)
    BY <1>3, <2>2, <2>8, <2>9, <2>10, <2>11, <2>12, <2>13
  <2>15. Sum(s, old) <= task.reported
    <3>1. Sum(s, old) \in Nat /\ task.reported \in Nat
      BY <2>8, <2>9, <2>10, <2>11, <2>13 DEF TaintInv
    <3> QED BY <2>3, <2>14, <3>1
  <2> QED BY <1>1, <2>4, <2>7, <2>15
<1>18. TaintConserved'
  BY <1>17 DEF TaintConserved
<1> QED BY <1>10, <1>11, <1>12, <1>13, <1>15, <1>18

\* Every turn keeps it.
LEMMA StepTaint == TaintInv /\ [WalkNext]_walkVars => TaintInv'
<1> SUFFICES ASSUME TaintInv, [WalkNext]_walkVars PROVE TaintInv'
  OBVIOUS
<1>1. StoredInv' /\ LimitsInv'
  BY StepStored, StepLimits DEF TaintInv
<1>2. ASSUME UNCHANGED <<task, meta, reached, expanded, terminals>>, Kept \subseteq Kept'
      PROVE  TaintInv'
  <2>1. HandedOn' = HandedOn
    BY <1>2 DEF HandedOn, Terminal
  <2>2. TaintConserved'
    BY <1>2, <2>1, SameHolders
  <2> QED BY <1>1, <1>2, <2>2 DEF TaintInv
<1>3. ASSUME NEW p \in heap, NEW why \in Stops, expanded' = expanded \cup {p.key},
             p.key \notin expanded, terminals' = terminals \cup {Terminal(p.key, why)},
             UNCHANGED <<task, meta, reached>>, Kept \subseteq Kept'
      PROVE  TaintInv'
  <2>1. p.key \in reached
    BY DEF TaintInv, LimitsInv
  <2>2. /\ expanded' \subseteq reached'
        /\ \A t \in terminals' : t.reason \in Stops => t.addr \in expanded'
        /\ TaintConserved'
    BY <1>3, <2>1, StoppedHolds
  <2> QED BY <1>1, <1>3, <2>2 DEF TaintInv
<1>4. ASSUME NEW p \in heap, Turn(p) PROVE TaintInv'
  <2>1. CASE Discard(p)
    BY <1>2, <2>1 DEF Discard, Kept
  <2>2. CASE Service(p)
    BY <1>3, <2>2 DEF Service, Visit, Stale, Kept, Stops
  <2>3. CASE OutOfHops(p)
    BY <1>3, <2>3 DEF OutOfHops, Visit, Stale, Kept, Stops
  <2>4. CASE HighDegreeService(p)
    <3>1. Kept' = Kept \cup Top(Outs(p.key))
      BY <2>4, PersistKeeps DEF HighDegreeService, TaintInv
    <3> QED BY <1>3, <2>4, <3>1 DEF HighDegreeService, Visit, Stale, Stops
  <2>5. CASE FanOut(p)
    <3>1. task' = task
      BY <2>5 DEF FanOut, Visit
    <3> QED BY <1>1, <2>5, <3>1, FanOutTaint DEF TaintInv
  <2> QED BY <1>4, <2>1, <2>2, <2>3, <2>4, <2>5 DEF Turn
<1>5. CASE Finish
  BY <1>2, <1>5 DEF Finish, Write, Kept
<1>6. CASE UNCHANGED walkVars
  BY <1>2, <1>6 DEF walkVars, Kept
<1> QED BY <1>4, <1>5, <1>6 DEF WalkNext

\* At the start the seed holds what was reported.
LEMMA InitTaint == WalkInit => TaintInv
<1> SUFFICES ASSUME WalkInit PROVE TaintInv
  OBVIOUS
<1>1. StoredInv /\ LimitsInv
  BY InitLimits DEF WalkInit, StoredInv
<1>2. task.reported \in Nat
  BY WalkAssumption DEF WalkInit
<1>3. reached = {Seed} /\ expanded = {} /\ terminals = {} /\ IsFiniteSet({Seed})
  BY FS_Singleton DEF WalkInit
<1>4. \A n \in Addresses : meta[n].taint = IF n = Seed THEN task.reported ELSE 0
  BY DEF WalkInit, Unknown
<1>5. Seed \in Addresses
  BY WalkAssumption
<1>6. TaintConserved
  <2> DEFINE f == [n \in Addresses |-> meta[n].taint]
  <2>1. reached \ HandedOn = {Seed}
    BY <1>3 DEF HandedOn
  <2>2. f[Seed] = task.reported /\ f[Seed] = meta[Seed].taint
    BY <1>4, <1>5
  <2> HIDE DEF f
  <2>3. SumFunction([a \in {Seed} |-> meta[a].taint]) = Sum(f, {Seed})
    BY <1>2, <1>3, <2>2, HeldIsSum
  <2>4. Sum(f, {} \cup {Seed}) = f[Seed] + Sum(f, {})
    BY <1>2, <2>2, FS_EmptySet, SumGrows
  <2>5. Sum(f, {Seed}) = task.reported
    BY <1>2, <2>2, <2>4, SumOfNone
  <2> QED BY <1>2, <2>1, <2>3, <2>5 DEF TaintConserved
<1> QED BY <1>1, <1>2, <1>3, <1>4, <1>5, <1>6 DEF TaintInv

\* Taint is split, never made, whatever the graph and the model: while no bridge is crossed,
\* all addresses that still hold money hold no more than was reported.
THEOREM TaintIsConserved == WalkSpec => []TaintConserved
<1>1. TaintInv => TaintConserved
  BY DEF TaintInv
<1> QED BY <1>1, InitTaint, StepTaint, PTL DEF WalkSpec
==============================================================================
