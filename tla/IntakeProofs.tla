------------------------------ MODULE IntakeProofs ------------------------------
(***************************************************************************)
(* Proofs about Intake, for any complaints, wallets, chains and imports,   *)
(* and any number of faults. Four layers: the rows of an import, the cases *)
(* they get, the trace jobs they get, and the chains that are traced.      *)
(***************************************************************************)
EXTENDS Intake, FiniteSetTheorems, TLAPS

-----------------------------------------------------------------------------
(* The invariants. First layer: types, and what an import keeps about its rows *)

Working(i) == run[i].pc \in {"prepare", "commit"}

\* A row that is left has a number of its own, and once linked a case.
RowsShape(i) ==
    /\ \A n \in run[i].items : run[i].file[n] \in Acks
    /\ \A n, m \in run[i].items : run[i].file[n] = run[i].file[m] => n = m
    /\ Working(i) => \A n \in run[i].items : run[i].caseOf[n] \in Acks

Shape == TypeOK /\ \A i \in Imports : RowsShape(i)

-----------------------------------------------------------------------------
(* Second layer: cases *)

\* A case is named by a complaint that is in it.
Founders == \A a \in Stored : book[a] \in Acks /\ book[book[a]] = book[a]

IsCase(c) == c \in Stored /\ book[c] = c

\* Row n founds a case.
Founds(i, n) == run[i].caseOf[n] = run[i].file[n] /\ run[i].file[n] \notin Stored

\* The case of a row is there, or a row of the batch founds it.
HasCase(i, n) ==
    \/ IsCase(run[i].caseOf[n])
    \/ \E m \in run[i].items : run[i].caseOf[m] = run[i].file[m] /\ run[i].caseOf[n] = run[i].file[m]

\* Who shares a wallet with a row that founds a case came since it was linked.
Alone(i, n) ==
    /\ \A b \in Stored : Shares(b, run[i].file[n]) => b \in run[i].missed
    /\ \A m \in run[i].items : m # n /\ Founds(i, m) => ~Shares(run[i].file[m], run[i].file[n])

Decision(i) == Working(i) => \A n \in run[i].items : HasCase(i, n) /\ (Founds(i, n) => Alone(i, n))

-----------------------------------------------------------------------------
(* Third layer: trace jobs *)

FreshOnce(i) == run[i].pc = "commit" => \A t \in run[i].fresh :
    /\ \E n \in run[i].items : run[i].file[n] = t.of
    /\ \A s \in traces : SameKey(s, t) => s.of \in run[i].missed
    /\ \A s \in run[i].fresh : SameKey(s, t) => s = t

-----------------------------------------------------------------------------
(* Fourth layer: which chains are traced *)

Required(a, w) == IF Decided(a, w) # {} THEN Decided(a, w) ELSE Active[w]

HasSeeds(i) ==
    \/ run[i].pc \in {"link", "prepare", "commit"}
    \/ run[i].pc = "dedup" /\ run[i].retry # 0

\* These seeds, or these jobs, are all that rows need.
Complete(file, items, seeds) == \A n \in items :
    \A w \in WalletsOf[file[n]] : \A ch \in Required(file[n], w) : <<file[n], w, ch>> \in seeds

Serves(file, items, caseOf, silent, jobs) == \A n \in items :
    \A w \in WalletsOf[file[n]] : \A ch \in Required(file[n], w) :
        <<file[n], w, ch>> \in silent \/ \E t \in jobs : t.case = caseOf[n] /\ t.seed = w /\ t.chain = ch

SeedsComplete(i) == HasSeeds(i) => Complete(run[i].file, run[i].items, run[i].seeds \cup run[i].silent)

Planned(i) == run[i].pc = "commit" =>
    Serves(run[i].file, run[i].items, run[i].caseOf, run[i].silent, traces \cup run[i].fresh)

-----------------------------------------------------------------------------
(* What an action does to the imports *)

Others(i) == \A k \in Imports \ {i} : run'[k] = run[k]

Pcs == {"idle", "dedup", "probe", "link", "prepare", "commit", "reassert", "enqueue"}

LEMMA RunFields ==
    ASSUME NEW n \in Run
    PROVE  /\ n.pc \in Pcs /\ n.file \in [Rows -> Acks \cup {NoCase}] /\ n.items \in SUBSET Rows
           /\ n.retry \in 0 .. 2 /\ n.dup \in SUBSET Acks /\ n.seeds \in SUBSET Seeds
           /\ n.silent \in SUBSET Seeds /\ n.start \in 0 .. MaxTime
           /\ n.caseOf \in [Rows -> Acks \cup {NoCase}]
           /\ n.fresh \in SUBSET Trace /\ n.jobs \in SUBSET Trace /\ n.missed \in SUBSET Acks
<1> QED  BY DEF Run, Pcs

LEMMA IdleIsRun ==
    /\ Idle \in Run /\ Idle.pc = "idle" /\ Idle.items = {} /\ Idle.retry = 0 /\ Idle.dup = {}
    /\ Idle.jobs = {}
<1>1. 0 \in 0 .. MaxTime /\ NoRows \in [Rows -> Acks \cup {NoCase}]
  BY IntakeAssumption DEF NoRows
<1> HIDE DEF NoRows
<1> QED  BY <1>1 DEF Idle, Run

\* One import moves.
LEMMA Replaced ==
    ASSUME run \in [Imports -> Run], NEW i \in Imports, NEW n \in Run, run' = [run EXCEPT ![i] = n]
    PROVE  run' \in [Imports -> Run] /\ run'[i] = n /\ Others(i)
<1> QED  BY DEF Others

LEMMA EndEffect ==
    ASSUME TypeOK, NEW i \in Imports, run' = [run EXCEPT ![i] = Idle]
    PROVE  run' \in [Imports -> Run] /\ Others(i) /\ run'[i] = Idle
<1> QED  BY IdleIsRun, Replaced DEF TypeOK

LEMMA BeginEffect ==
    ASSUME TypeOK, NEW i \in Imports, Begin(i)
    PROVE  /\ run' \in [Imports -> Run] /\ Others(i)
           /\ run'[i].pc = "dedup" /\ run'[i].retry = 0
           /\ \A n \in run'[i].items : run'[i].file[n] \in Acks
           /\ \A n, m \in run'[i].items : run'[i].file[n] = run'[i].file[m] => n = m
<1>1. PICK f \in Files[i] :
         run' = [run EXCEPT ![i] = [Idle EXCEPT !.pc = "dedup",
                    !.file = [n \in Rows |-> IF n \in DOMAIN f THEN f[n] ELSE NoCase],
                    !.items = {n \in DOMAIN f : f[n] \in Acks /\ \A m \in 1 .. n - 1 : f[m] # f[n]}]]
  BY DEF Begin
<1> DEFINE file == [n \in Rows |-> IF n \in DOMAIN f THEN f[n] ELSE NoCase]
<1> DEFINE items == {n \in DOMAIN f : f[n] \in Acks /\ \A m \in 1 .. n - 1 : f[m] # f[n]}
<1> DEFINE r == [Idle EXCEPT !.pc = "dedup", !.file = file, !.items = items]
<1>2. DOMAIN f \subseteq Rows /\ \A n \in DOMAIN f : f[n] \in Acks \cup {NoCase}
  BY IntakeAssumption
<1>3. file \in [Rows -> Acks \cup {NoCase}] /\ items \in SUBSET Rows
  BY <1>2
<1>4. \A n \in items : file[n] = f[n] /\ f[n] \in Acks /\ n \in 1 .. 3
  BY <1>2 DEF Rows
<1>5. \A n, m \in items : f[n] = f[m] => n = m
  <2>1. ASSUME NEW n \in 1 .. 3, NEW m \in 1 .. 3, n < m PROVE n \in 1 .. m - 1
    BY <2>1
  <2>2. \A m \in items : \A n \in 1 .. m - 1 : f[n] # f[m]
    OBVIOUS
  <2>3. \A n, m \in items : n < m => f[n] # f[m]
    <3> HIDE DEF items
    <3> QED  BY <1>4, <2>1, <2>2
  <2> HIDE DEF items, file, r
  <2>0. \A n \in items : n \in Int
    <3>1. \A n \in items : n \in 1 .. 3
      BY <1>4
    <3> QED  BY <3>1
  <2>4. \A n, m \in items : n < m \/ m < n \/ n = m
    BY <2>0
  <2> QED  BY <2>3, <2>4
<1>6. run' = [run EXCEPT ![i] = r]
  BY <1>1
<1>7. \A n \in items : file[n] \in Acks
  BY <1>4
<1>8. \A n, m \in items : file[n] = file[m] => n = m
  BY <1>4, <1>5
<1> HIDE DEF file, items
<1>9. r \in Run /\ r.pc = "dedup" /\ r.file = file /\ r.items = items /\ r.retry = Idle.retry
  BY <1>3, IdleIsRun DEF Run
<1> HIDE DEF r
<1>10. run' \in [Imports -> Run] /\ run'[i] = r /\ Others(i)
  BY <1>6, <1>9, Replaced DEF TypeOK
<1> QED  BY <1>7, <1>8, <1>9, <1>10, IdleIsRun

\* What stays of import i.
KeepsRows(i) == run'[i].file = run[i].file /\ run'[i].items = run[i].items
KeepsSeeds(i) == run'[i].seeds = run[i].seeds /\ run'[i].silent = run[i].silent

\* Dedup ends, or leaves the rows that are not stored.
LEMMA DedupEffect ==
    ASSUME TypeOK, NEW i \in Imports, Dedup(i), \A n \in run[i].items : run[i].file[n] \in Acks
    PROVE  /\ run' \in [Imports -> Run] /\ Others(i)
           /\ \/ run'[i].pc = "reassert" /\ run'[i].items = {}
              \/ /\ run'[i].pc = IF run[i].retry = 0 THEN "probe" ELSE "link"
                 /\ run'[i].file = run[i].file
                 /\ run'[i].items \subseteq run[i].items
                 /\ KeepsSeeds(i)
<1> DEFINE j == run[i]
<1> DEFINE hits == {n \in j.items : j.file[n] \in Stored}
<1> DEFINE rest == j.items \ hits
<1> DEFINE seen == j.dup \cup {book[j.file[n]] : n \in hits}
<1>1. run \in [Imports -> Run] /\ run[i] \in Run
  BY DEF TypeOK
<1>2. seen \in SUBSET Acks
  <2>1. \A n \in hits : book[j.file[n]] \in Acks
    BY DEF TypeOK, Stored
  <2> QED  BY <1>1, <2>1, RunFields
<1>3. rest \in SUBSET Rows /\ rest \subseteq run[i].items
  BY <1>1, RunFields
<1>4. run' = [run EXCEPT ![i] = IF rest = {} THEN [Idle EXCEPT !.pc = "reassert", !.dup = seen]
                                    ELSE [run[i] EXCEPT !.pc = IF run[i].retry = 0 THEN "probe" ELSE "link",
                                                   !.items = rest, !.dup = seen, !.start = clock]]
  BY DEF Dedup
<1> HIDE DEF seen, rest
<1>5. CASE rest = {}
  <2> DEFINE r == [Idle EXCEPT !.pc = "reassert", !.dup = seen]
  <2>1. r \in Run /\ r.pc = "reassert" /\ r.items = Idle.items
    BY <1>2, IdleIsRun DEF Run
  <2>2. run' = [run EXCEPT ![i] = r]
    BY <1>4, <1>5
  <2> HIDE DEF r
  <2> QED  BY <1>1, <2>1, <2>2, Replaced, IdleIsRun
<1>6. CASE rest # {}
  <2> DEFINE p == IF run[i].retry = 0 THEN "probe" ELSE "link"
  <2> DEFINE r == [run[i] EXCEPT !.pc = p, !.items = rest, !.dup = seen, !.start = clock]
  <2>1. run' = [run EXCEPT ![i] = r]
    BY <1>4, <1>6
  <2>2. p \in {"probe", "link"}
    OBVIOUS
  <2>3. p = IF run[i].retry = 0 THEN "probe" ELSE "link"
    OBVIOUS
  <2> HIDE DEF p
  <2>4. r \in Run /\ r.pc = p /\ r.items = rest /\ r.file = run[i].file
        /\ r.seeds = run[i].seeds /\ r.silent = run[i].silent
    BY <1>1, <1>2, <1>3, <2>2 DEF Run, TypeOK
  <2> HIDE DEF r
  <2>5. run' \in [Imports -> Run] /\ run'[i] = r /\ Others(i)
    BY <1>1, <2>1, <2>4, Replaced
  <2> QED  BY <1>3, <2>3, <2>4, <2>5 DEF KeepsSeeds
<1> QED  BY <1>5, <1>6

\* What Probe asks and finds, given who stays silent.
New(i) == {run[i].file[n] : n \in run[i].items}

Asked(i) == {w \in Wallets : \E a \in New(i) : w \in WalletsOf[a] /\ Decided(a, w) = {}}

Found(i, quiet) == {s \in New(i) \X Wallets \X Chains :
    s[2] \in WalletsOf[s[1]]
    /\ s[3] \in SeedChains(s[1], s[2], IF s[2] \in Asked(i) THEN quiet[s[2]] ELSE {})}

NotFound(i, quiet) == {s \in New(i) \X Asked(i) \X Evm :
    s[3] \in quiet[s[2]] /\ Active[s[2]] \ quiet[s[2]] # {}}

LEMMA ProbeEffect ==
    ASSUME TypeOK, NEW i \in Imports, Probe(i), \A n \in run[i].items : run[i].file[n] \in Acks
    PROVE  /\ run' \in [Imports -> Run] /\ Others(i)
           /\ run'[i].pc = "link" /\ KeepsRows(i)
           /\ \E quiet \in [Asked(i) -> SUBSET Evm] :
                 run'[i].seeds = Found(i, quiet) /\ run'[i].silent = NotFound(i, quiet)
<1>1. PICK quiet \in [Asked(i) -> SUBSET Evm] :
        run' = [run EXCEPT ![i].pc = "link", ![i].start = clock,
                           ![i].seeds = Found(i, quiet), ![i].silent = NotFound(i, quiet)]
  BY DEF Probe, New, Asked, Found, NotFound
<1>2. run \in [Imports -> Run] /\ run[i] \in Run /\ clock \in 0 .. MaxTime
  BY DEF TypeOK
<1>3. New(i) \subseteq Acks
  BY DEF New
<1>4. Found(i, quiet) \in SUBSET Seeds
  BY <1>3 DEF Found, Seeds
<1>5. NotFound(i, quiet) \in SUBSET Seeds
  <2>1. Asked(i) \subseteq Wallets /\ Evm \subseteq Chains
    BY DEF Asked, Chains
  <2> QED  BY <1>3, <2>1 DEF NotFound, Seeds
<1> DEFINE s == Found(i, quiet)
<1> DEFINE t == NotFound(i, quiet)
<1>6. s \in SUBSET Seeds /\ t \in SUBSET Seeds
      /\ run' = [run EXCEPT ![i].pc = "link", ![i].start = clock, ![i].seeds = s, ![i].silent = t]
  BY <1>1, <1>4, <1>5
<1> HIDE DEF s, t
<1> DEFINE r == [run[i] EXCEPT !.pc = "link", !.start = clock, !.seeds = s, !.silent = t]
<1>7. r \in Run /\ r.pc = "link" /\ r.seeds = s /\ r.silent = t
      /\ r.file = run[i].file /\ r.items = run[i].items
  BY <1>2, <1>6 DEF Run
<1>8. run' = [run EXCEPT ![i] = r]
  BY <1>2, <1>6
<1> HIDE DEF r
<1>9. run' \in [Imports -> Run] /\ run'[i] = r /\ Others(i)
  BY <1>2, <1>7, <1>8, Replaced
<1> QED  BY <1>7, <1>9 DEF KeepsRows, s, t

LEMMA LinkEffect ==
    ASSUME TypeOK, NEW i \in Imports, Link(i)
    PROVE  /\ run' \in [Imports -> Run] /\ Others(i)
           /\ run'[i].pc = "prepare" /\ KeepsRows(i) /\ KeepsSeeds(i)
           /\ run'[i].missed = {}
           /\ \E c \in [run[i].items -> Acks] :
                 Assigns(run[i], c) /\ \A n \in run[i].items : run'[i].caseOf[n] = c[n]
<1>1. PICK c \in [run[i].items -> Acks] :
         /\ Assigns(run[i], c)
         /\ run' = [run EXCEPT ![i].pc = "prepare", ![i].missed = {},
                               ![i].caseOf = [n \in Rows |-> IF n \in run[i].items THEN c[n] ELSE NoCase]]
  BY DEF Link
<1>2. run \in [Imports -> Run] /\ run[i] \in Run /\ clock \in 0 .. MaxTime
  BY DEF TypeOK
<1> DEFINE f == [n \in Rows |-> IF n \in run[i].items THEN c[n] ELSE NoCase]
<1> DEFINE none == {}
<1>3. f \in [Rows -> Acks \cup {NoCase}] /\ \A n \in run[i].items : f[n] = c[n]
  <2>1. run[i].items \in SUBSET Rows
    BY <1>2, RunFields
  <2> QED  BY <2>1
<1>4. run' = [run EXCEPT ![i].pc = "prepare", ![i].missed = none, ![i].caseOf = f]
  BY <1>1
<1>5. none \in SUBSET Acks
  OBVIOUS
<1> HIDE DEF f, none
<1> DEFINE r == [run[i] EXCEPT !.pc = "prepare", !.missed = none, !.caseOf = f]
<1>6. r \in Run /\ r.pc = "prepare" /\ r.missed = none /\ r.caseOf = f
      /\ r.file = run[i].file /\ r.items = run[i].items
      /\ r.seeds = run[i].seeds /\ r.silent = run[i].silent
  BY <1>2, <1>3, <1>5 DEF Run
<1>7. run' = [run EXCEPT ![i] = r]
  BY <1>2, <1>4
<1> HIDE DEF r
<1>8. run' \in [Imports -> Run] /\ run'[i] = r /\ Others(i)
  BY <1>2, <1>6, <1>7, Replaced
<1>9. \A n \in run[i].items : run'[i].caseOf[n] = c[n]
  BY <1>3, <1>6, <1>8
<1>10. Assigns(run[i], c) /\ none = {}
  BY <1>1 DEF none
<1> QED  BY <1>6, <1>8, <1>9, <1>10 DEF KeepsRows, KeepsSeeds

\* What Prepare wants, and what it creates.
JobFor(i, s) == [case |-> run[i].caseOf[RowOf(run[i], s[1])], chain |-> s[3], seed |-> s[2], of |-> s[1]]

Wanted(i) == {JobFor(i, s) : s \in {u \in run[i].seeds : \E n \in run[i].items : run[i].file[n] = u[1]}}

Created(i) == {t \in Wanted(i) : (\A s \in Have(Wanted(i)) : ~SameKey(s, t))
                /\ \A s \in Wanted(i) : SameKey(s, t) => RowOf(run[i], t.of) <= RowOf(run[i], s.of)}

LEMMA RowOfIs ==
    ASSUME NEW i \in Imports, RowsShape(i), NEW n \in run[i].items
    PROVE  RowOf(run[i], run[i].file[n]) = n
<1> QED  BY DEF RowOf, RowsShape

LEMMA WantedAreTraces ==
    ASSUME TypeOK, NEW i \in Imports, RowsShape(i), Working(i)
    PROVE  /\ Wanted(i) \in SUBSET Trace
           /\ \A t \in Wanted(i) : \E n \in run[i].items : run[i].file[n] = t.of
<1>1. run[i].seeds \in SUBSET Seeds
  BY RunFields DEF TypeOK
<1>2. ASSUME NEW t \in Wanted(i)
      PROVE  t \in Trace /\ \E n \in run[i].items : run[i].file[n] = t.of
  <2>1. PICK u \in run[i].seeds : t = JobFor(i, u) /\ \E n \in run[i].items : run[i].file[n] = u[1]
    BY <1>2 DEF Wanted
  <2>2. PICK n \in run[i].items : run[i].file[n] = u[1]
    BY <2>1
  <2>3. RowOf(run[i], u[1]) = n /\ run[i].caseOf[n] \in Acks
    BY <2>2, RowOfIs DEF RowsShape
  <2>4. u[1] \in Acks /\ u[2] \in Wallets /\ u[3] \in Chains
    BY <1>1 DEF Seeds
  <2>5. t = [case |-> run[i].caseOf[n], chain |-> u[3], seed |-> u[2], of |-> u[1]]
    BY <2>1, <2>3 DEF JobFor
  <2> QED  BY <2>2, <2>3, <2>4, <2>5 DEF Trace
<1> QED  BY <1>2

LEMMA PrepareEffect ==
    ASSUME TypeOK, NEW i \in Imports, RowsShape(i), Prepare(i)
    PROVE  /\ run' \in [Imports -> Run] /\ Others(i)
           /\ run'[i].pc = "commit" /\ KeepsRows(i) /\ KeepsSeeds(i)
           /\ run'[i].missed = run[i].missed /\ run'[i].caseOf = run[i].caseOf
           /\ run'[i].fresh = Created(i)
<1>0. Working(i)
  BY DEF Prepare, At, Working
<1>1. PICK reused \in SUBSET Have(Wanted(i)) :
         run' = [run EXCEPT ![i].pc = "commit", ![i].fresh = Created(i), ![i].jobs = Created(i) \cup reused]
  BY DEF Prepare, JobFor, Wanted, Created
<1>2. run \in [Imports -> Run] /\ run[i] \in Run
  BY DEF TypeOK
<1> DEFINE fresh == Created(i)
<1> DEFINE jobs == Created(i) \cup reused
<1>3. fresh \in SUBSET Trace /\ jobs \in SUBSET Trace
  <2>1. Have(Wanted(i)) \subseteq Trace
    BY DEF TypeOK, Have
  <2> QED  BY <1>0, <2>1, WantedAreTraces DEF Created
<1>4. run' = [run EXCEPT ![i].pc = "commit", ![i].fresh = fresh, ![i].jobs = jobs]
  BY <1>1
<1> HIDE DEF fresh, jobs
<1> DEFINE r == [run[i] EXCEPT !.pc = "commit", !.fresh = fresh, !.jobs = jobs]
<1>5. r \in Run /\ r.pc = "commit" /\ r.fresh = fresh /\ r.missed = run[i].missed
      /\ r.caseOf = run[i].caseOf /\ r.file = run[i].file /\ r.items = run[i].items
      /\ r.seeds = run[i].seeds /\ r.silent = run[i].silent
  BY <1>2, <1>3 DEF Run
<1>6. run' = [run EXCEPT ![i] = r]
  BY <1>2, <1>4
<1> HIDE DEF r
<1>7. run' \in [Imports -> Run] /\ run'[i] = r /\ Others(i)
  BY <1>2, <1>5, <1>6, Replaced
<1> QED  BY <1>5, <1>7 DEF KeepsRows, KeepsSeeds, fresh

LEMMA RetryEffect ==
    ASSUME TypeOK, NEW i \in Imports, Retry(i)
    PROVE  /\ run' \in [Imports -> Run] /\ Others(i)
           /\ \/ run'[i] = Idle
              \/ run'[i].pc = "dedup" /\ KeepsRows(i) /\ KeepsSeeds(i)
<1>1. run \in [Imports -> Run] /\ run[i] \in Run /\ run[i].retry \in 0 .. 2
  BY RunFields DEF TypeOK
<1>2. run' = [run EXCEPT ![i] = IF run[i].retry = 2 THEN Idle
                  ELSE [run[i] EXCEPT !.pc = "dedup", !.retry = @ + 1, !.caseOf = NoRows, !.fresh = {},
                                 !.jobs = {}, !.start = 0, !.missed = {}]]
  BY DEF Retry
<1>3. CASE run[i].retry = 2
  <2>1. run' = [run EXCEPT ![i] = Idle]
    BY <1>2, <1>3
  <2> QED  BY <2>1, EndEffect
<1>4. CASE run[i].retry # 2
  <2> DEFINE k == run[i].retry + 1
  <2> DEFINE none == {}
  <2> DEFINE zero == 0
  <2>1. /\ k \in 0 .. 2 /\ zero \in 0 .. MaxTime /\ NoRows \in [Rows -> Acks \cup {NoCase}]
        /\ none \in SUBSET Trace /\ none \in SUBSET Acks
    BY <1>1, <1>4, IntakeAssumption DEF NoRows
  <2>2. run' = [run EXCEPT ![i] = [run[i] EXCEPT !.pc = "dedup", !.retry = k, !.caseOf = NoRows,
                    !.fresh = none, !.jobs = none, !.start = zero, !.missed = none]]
    BY <1>2, <1>4
  <2> HIDE DEF k, none, zero, NoRows
  <2> DEFINE r == [run[i] EXCEPT !.pc = "dedup", !.retry = k, !.caseOf = NoRows,
                    !.fresh = none, !.jobs = none, !.start = zero, !.missed = none]
  <2>3. r \in Run /\ r.pc = "dedup" /\ r.file = run[i].file /\ r.items = run[i].items
        /\ r.seeds = run[i].seeds /\ r.silent = run[i].silent
    BY <1>1, <2>1 DEF Run
  <2>4. run' = [run EXCEPT ![i] = r]
    BY <2>2
  <2> HIDE DEF r
  <2>5. run' \in [Imports -> Run] /\ run'[i] = r /\ Others(i)
    BY <1>1, <2>3, <2>4, Replaced
  <2> QED  BY <2>3, <2>5 DEF KeepsRows, KeepsSeeds
<1> QED  BY <1>3, <1>4

\* The others notice what is committed.
Notices(i) == \A k \in Imports \ {i} :
    /\ run'[k].pc = run[k].pc /\ KeepsRows(k) /\ KeepsSeeds(k) /\ run'[k].retry = run[k].retry
    /\ run'[k].caseOf = run[k].caseOf /\ run'[k].fresh = run[k].fresh
    /\ Working(k) => run'[k].missed = run[k].missed \cup New(i)

LEMMA CommitEffect ==
    ASSUME TypeOK, NEW i \in Imports, Commit(i), \A n \in run[i].items : run[i].file[n] \in Acks
    PROVE  /\ run' \in [Imports -> Run] /\ Notices(i)
           /\ run'[i].pc = "reassert" /\ run'[i].items = {}
           /\ book' = [a \in Acks |-> IF a \in New(i) THEN run[i].caseOf[RowOf(run[i], a)] ELSE book[a]]
           /\ traces' = traces \cup run[i].fresh
           /\ blind' = blind \cup (New(i) \X run[i].missed)
           /\ untraced' = untraced \cup run[i].silent
<1>1. run \in [Imports -> Run] /\ run[i] \in Run
  BY DEF TypeOK
<1> DEFINE r == [Idle EXCEPT !.pc = "reassert", !.jobs = run[i].jobs, !.dup = run[i].dup]
<1>2. r \in Run /\ r.pc = "reassert" /\ r.items = Idle.items
  <2>1. run[i].jobs \in SUBSET Trace /\ run[i].dup \in SUBSET Acks
    BY <1>1, RunFields
  <2> QED  BY <2>1, IdleIsRun DEF Run
<1>3. run' = [k \in Imports |-> IF k = i THEN r
                                     ELSE IF run[k].pc \in {"prepare", "commit"}
                                          THEN [run[k] EXCEPT !.missed = @ \cup New(i)]
                                     ELSE run[k]]
  BY DEF Commit, New
<1> HIDE DEF r
<1>4. New(i) \subseteq Acks
  BY DEF New
<1>5. ASSUME NEW k \in Imports \ {i}
      PROVE  /\ run'[k] \in Run
             /\ run'[k].pc = run[k].pc /\ KeepsRows(k) /\ KeepsSeeds(k) /\ run'[k].retry = run[k].retry
             /\ run'[k].caseOf = run[k].caseOf /\ run'[k].fresh = run[k].fresh
             /\ Working(k) => run'[k].missed = run[k].missed \cup New(i)
  <2>1. run[k] \in Run
    BY <1>1
  <2>2. CASE Working(k)
    <3> DEFINE ms == run[k].missed \cup New(i)
    <3> DEFINE q == [run[k] EXCEPT !.missed = ms]
    <3>1. run'[k] = q
      BY <1>3, <2>2 DEF Working
    <3>2. ms \in SUBSET Acks
      BY <1>4, <2>1, RunFields
    <3>3. ms = run[k].missed \cup New(i)
      OBVIOUS
    <3> HIDE DEF ms
    <3>4. q \in Run /\ q.pc = run[k].pc /\ q.file = run[k].file /\ q.items = run[k].items
          /\ q.seeds = run[k].seeds /\ q.silent = run[k].silent /\ q.retry = run[k].retry
          /\ q.caseOf = run[k].caseOf /\ q.fresh = run[k].fresh /\ q.missed = ms
      BY <2>1, <3>2 DEF Run
    <3> HIDE DEF q
    <3> QED  BY <3>1, <3>3, <3>4 DEF KeepsRows, KeepsSeeds
  <2>3. CASE ~Working(k)
    <3>1. run'[k] = run[k]
      BY <1>3, <2>3 DEF Working
    <3> QED  BY <2>1, <2>3, <3>1 DEF KeepsRows, KeepsSeeds
  <2> QED  BY <2>2, <2>3
<1>6. run' \in [Imports -> Run] /\ run'[i] = r
  <2>1. \A k \in Imports : run'[k] \in Run
    BY <1>2, <1>3, <1>5
  <2> QED  BY <1>3, <2>1
<1>7. Notices(i)
  BY <1>5 DEF Notices
<1>8. /\ book' = [a \in Acks |-> IF a \in New(i) THEN run[i].caseOf[RowOf(run[i], a)] ELSE book[a]]
      /\ traces' = traces \cup run[i].fresh
      /\ blind' = blind \cup (New(i) \X run[i].missed)
      /\ untraced' = untraced \cup run[i].silent
  BY DEF Commit, New
<1> QED  BY <1>2, <1>6, <1>7, <1>8, IdleIsRun

LEMMA ReassertEffect ==
    ASSUME TypeOK, NEW i \in Imports, Reassert(i)
    PROVE  run' \in [Imports -> Run] /\ Others(i) /\ run'[i].pc = "enqueue" /\ KeepsRows(i)
<1>1. run \in [Imports -> Run] /\ run[i] \in Run
  BY DEF TypeOK
<1> DEFINE jobs == run[i].jobs \cup {t \in traces : t.case \in run[i].dup}
<1>2. jobs \in SUBSET Trace
  BY <1>1, RunFields DEF TypeOK
<1>3. run' = [run EXCEPT ![i].pc = "enqueue", ![i].jobs = jobs]
  BY DEF Reassert
<1> HIDE DEF jobs
<1> DEFINE r == [run[i] EXCEPT !.pc = "enqueue", !.jobs = jobs]
<1>4. r \in Run /\ r.pc = "enqueue" /\ r.file = run[i].file /\ r.items = run[i].items
  BY <1>1, <1>2 DEF Run
<1>5. run' = [run EXCEPT ![i] = r]
  BY <1>1, <1>3
<1> HIDE DEF r
<1> QED  BY <1>1, <1>4, <1>5, Replaced DEF KeepsRows

-----------------------------------------------------------------------------
(* The first layer *)

LEMMA InitShape == Init => Shape
<1> SUFFICES ASSUME Init PROVE Shape
  OBVIOUS
<1>1. run \in [Imports -> Run] /\ \A i \in Imports : run[i] = Idle
  BY IdleIsRun DEF Init
<1>2. TypeOK
  BY <1>1, IntakeAssumption DEF Init, TypeOK
<1>3. \A i \in Imports : RowsShape(i)
  BY <1>1, IdleIsRun DEF RowsShape
<1> QED  BY <1>2, <1>3 DEF Shape

LEMMA ShapeRows ==
    ASSUME Shape, NEW i \in Imports
    PROVE  TypeOK /\ RowsShape(i) /\ \A n \in run[i].items : run[i].file[n] \in Acks
<1> QED  BY DEF Shape, RowsShape

\* The kinds of steps: nothing moves or some imports end, one import moves, or commits.
Moves(i) == stored' = stored /\ (Begin(i) \/ Dedup(i) \/ Probe(i) \/ Link(i) \/ Prepare(i) \/ Retry(i) \/ Reassert(i))

LEMMA StepKinds ==
    ASSUME Shape, [Next]_vars
    PROVE  \/ stored' = stored /\ \A i \in Imports : run'[i] = run[i] \/ run'[i] = Idle
           \/ \E i \in Imports : Moves(i)
           \/ \E i \in Imports : Commit(i)
<1>0. TypeOK
  BY DEF Shape
<1>1. ASSUME NEW i \in Imports, Begin(i) \/ Dedup(i) \/ Probe(i) \/ Link(i) \/ Prepare(i) \/ Retry(i) \/ Reassert(i)
      PROVE  Moves(i)
  BY <1>1 DEF Moves, Begin, Dedup, Probe, Link, Prepare, Retry, Reassert, stored
<1>2. ASSUME NEW i \in Imports, Enqueue(i) \/ EnqueueFails(i) \/ Fails(i)
      PROVE  stored' = stored /\ \A k \in Imports : run'[k] = run[k] \/ run'[k] = Idle
  <2>1. run' = [run EXCEPT ![i] = Idle] /\ stored' = stored
    BY <1>2 DEF Enqueue, EnqueueFails, Fails, stored
  <2> QED  BY <1>0, <2>1 DEF TypeOK
<1>3. ASSUME Land \/ Tick \/ Crash \/ UNCHANGED vars
      PROVE  stored' = stored /\ \A k \in Imports : run'[k] = run[k] \/ run'[k] = Idle
  BY <1>3 DEF Land, Tick, Crash, vars, stored
<1> QED  BY <1>1, <1>2, <1>3 DEF Next, Step

LEMMA PlaceIsNat == ASSUME NEW items \in SUBSET Rows, NEW n PROVE Place(items, n) \in Nat
<1>1. IsFiniteSet(Rows)
  <2>1. 1 \in Int /\ 3 \in Int
    OBVIOUS
  <2> QED  BY <2>1, FS_Interval DEF Rows
<1>2. IsFiniteSet({m \in items : m < n})
  BY <1>1, FS_Subset
<1> QED  BY <1>2, FS_CardinalityType DEF Place

LEMMA TypeStep == Shape /\ [Next]_vars => TypeOK'
<1> SUFFICES ASSUME Shape, [Next]_vars PROVE TypeOK'
  OBVIOUS
<1>0. TypeOK
  BY DEF Shape
<1>r. \A i \in Imports : RowsShape(i) /\ \A n \in run[i].items : run[i].file[n] \in Acks
  BY ShapeRows
<1>f. Fault => faults' \in 0 .. MaxFaults
  BY <1>0, IntakeAssumption DEF Fault, TypeOK
<1>a. ASSUME UNCHANGED stored, UNCHANGED world, run' \in [Imports -> Run] PROVE TypeOK'
  BY <1>0, <1>a DEF TypeOK, stored, world
<1>1. ASSUME NEW i \in Imports, Begin(i) PROVE TypeOK'
  BY <1>0, <1>1, <1>a, BeginEffect DEF Begin
<1>2. ASSUME NEW i \in Imports, Dedup(i) PROVE TypeOK'
  BY <1>0, <1>r, <1>2, <1>a, DedupEffect DEF Dedup
<1>3. ASSUME NEW i \in Imports, Probe(i) PROVE TypeOK'
  BY <1>0, <1>r, <1>3, <1>a, ProbeEffect DEF Probe
<1>4. ASSUME NEW i \in Imports, Link(i) PROVE TypeOK'
  BY <1>0, <1>4, <1>a, LinkEffect DEF Link
<1>5. ASSUME NEW i \in Imports, Prepare(i) PROVE TypeOK'
  BY <1>0, <1>r, <1>5, <1>a, PrepareEffect DEF Prepare
<1>6. ASSUME NEW i \in Imports, Retry(i) PROVE TypeOK'
  BY <1>0, <1>6, <1>a, RetryEffect DEF Retry
<1>7. ASSUME NEW i \in Imports, Reassert(i) PROVE TypeOK'
  BY <1>0, <1>7, <1>a, ReassertEffect DEF Reassert
<1>8. ASSUME NEW i \in Imports, Commit(i) PROVE TypeOK'
  <2>0. run[i] \in Run /\ run[i].items \in SUBSET Rows /\ run[i].start \in Nat /\ Working(i)
        /\ run[i].fresh \in SUBSET Trace /\ run[i].silent \in SUBSET Seeds /\ run[i].missed \in SUBSET Acks
    BY <1>0, <1>8, RunFields, IntakeAssumption DEF TypeOK, Commit, At, Working
  <2>1. /\ run' \in [Imports -> Run]
        /\ book' = [a \in Acks |-> IF a \in New(i) THEN run[i].caseOf[RowOf(run[i], a)] ELSE book[a]]
        /\ traces' = traces \cup run[i].fresh
        /\ blind' = blind \cup (New(i) \X run[i].missed)
        /\ untraced' = untraced \cup run[i].silent
    BY <1>0, <1>r, <1>8, CommitEffect
  <2>2. ASSUME NEW a \in New(i) PROVE run[i].caseOf[RowOf(run[i], a)] \in Acks
    <3>1. PICK n \in run[i].items : a = run[i].file[n]
      BY DEF New
    <3>2. RowOf(run[i], a) = n
      BY <1>r, <3>1, RowOfIs
    <3> QED  BY <1>r, <2>0, <3>2 DEF RowsShape
  <2>3. book' \in [Acks -> Acks \cup {NoCase}]
    BY <1>0, <2>1, <2>2 DEF TypeOK
  <2>4. opened' \in [Acks -> Nat]
    <3>1. \A a \in Acks : run[i].start + Place(run[i].items, RowOf(run[i], a)) \in Nat
      BY <2>0, PlaceIsNat
    <3>2. opened' = [a \in Acks |-> IF a \in New(i) /\ run[i].caseOf[RowOf(run[i], a)] = a
                                     THEN run[i].start + Place(run[i].items, RowOf(run[i], a)) ELSE opened[a]]
      BY <1>8 DEF Commit, New
    <3> QED  BY <1>0, <3>1, <3>2 DEF TypeOK
  <2>5. New(i) \subseteq Acks
    BY <1>r DEF New
  <2> QED  BY <1>0, <1>8, <2>0, <2>1, <2>3, <2>4, <2>5 DEF TypeOK, Commit, world
<1>9. ASSUME NEW i \in Imports, Enqueue(i) PROVE TypeOK'
  <2>1. run[i].jobs \in SUBSET Trace
    BY <1>0, RunFields DEF TypeOK
  <2> QED  BY <1>0, <1>9, <2>1, EndEffect DEF Enqueue, TypeOK, stored
<1>10. ASSUME NEW i \in Imports, EnqueueFails(i) PROVE TypeOK'
  <2>1. run[i].jobs \in SUBSET Trace
    BY <1>0, RunFields DEF TypeOK
  <2>2. limbo' \subseteq Trace /\ queue' \subseteq Trace
    BY <1>0, <1>10, <2>1 DEF EnqueueFails, TypeOK
  <2> QED  BY <1>0, <1>f, <1>10, <2>2, EndEffect DEF EnqueueFails, TypeOK, stored
<1>11. ASSUME NEW i \in Imports, Fails(i) PROVE TypeOK'
  BY <1>0, <1>f, <1>11, EndEffect DEF Fails, TypeOK, stored
<1>12. CASE Land
  BY <1>0, <1>12 DEF Land, TypeOK, stored
<1>13. CASE Crash
  BY <1>0, <1>f, <1>13, IdleIsRun DEF Crash, TypeOK, stored
<1>14. CASE Tick
  BY <1>0, <1>14, IntakeAssumption DEF Tick, TypeOK, stored
<1>15. CASE UNCHANGED vars
  BY <1>0, <1>15 DEF vars, TypeOK
<1> QED
  BY <1>1, <1>2, <1>3, <1>4, <1>5, <1>6, <1>7, <1>8, <1>9, <1>10, <1>11, <1>12, <1>13, <1>14,
     <1>15 DEF Next, Step

\* An import that keeps its rows keeps their shape, one that has none left has no shape.
LEMMA RowsShapeKept ==
    ASSUME NEW k \in Imports, RowsShape(k), run'[k].file = run[k].file, run'[k].items \subseteq run[k].items,
           run'[k].pc \in {"prepare", "commit"} => Working(k) /\ run'[k].caseOf = run[k].caseOf
    PROVE  RowsShape(k)'
<1> QED  BY DEF RowsShape, Working

LEMMA RowsShapeNone == ASSUME NEW k \in Imports, run'[k].items = {} PROVE RowsShape(k)'
<1> QED  BY DEF RowsShape

LEMMA RowsShapeStep == Shape /\ [Next]_vars => \A k \in Imports : RowsShape(k)'
<1> SUFFICES ASSUME Shape, [Next]_vars, NEW k \in Imports PROVE RowsShape(k)'
  OBVIOUS
<1>0. TypeOK /\ \A i \in Imports : RowsShape(i) /\ \A n \in run[i].items : run[i].file[n] \in Acks
  BY ShapeRows DEF Shape
<1>s. run'[k] = run[k] => RowsShape(k)'
  BY <1>0, RowsShapeKept DEF Working
<1>1. ASSUME run'[k] = run[k] \/ run'[k] = Idle PROVE RowsShape(k)'
  BY <1>s, <1>1, IdleIsRun, RowsShapeNone
<1>2. ASSUME NEW i \in Imports, Moves(i) PROVE RowsShape(k)'
  <2>1. CASE Begin(i)
    BY <1>0, <1>s, <2>1, BeginEffect DEF Others, RowsShape, Working
  <2>2. CASE Dedup(i)
    <3>1. /\ Others(i)
          /\ \/ run'[i].items = {}
             \/ run'[i].pc \in {"probe", "link"} /\ run'[i].file = run[i].file /\ run'[i].items \subseteq run[i].items
      BY <1>0, <2>2, DedupEffect
    <3> QED  BY <1>0, <1>s, <3>1, RowsShapeKept, RowsShapeNone DEF Others
  <2>3. CASE Probe(i)
    BY <1>0, <1>s, <2>3, ProbeEffect, RowsShapeKept DEF Others, KeepsRows
  <2>4. CASE Link(i)
    BY <1>0, <1>s, <2>4, LinkEffect DEF Others, KeepsRows, RowsShape
  <2>5. CASE Prepare(i)
    BY <1>0, <1>s, <2>5, PrepareEffect, RowsShapeKept DEF Others, KeepsRows, Prepare, At, Working
  <2>6. CASE Retry(i)
    BY <1>0, <1>s, <2>6, RetryEffect, RowsShapeKept, RowsShapeNone, IdleIsRun DEF Others, KeepsRows
  <2>7. CASE Reassert(i)
    BY <1>0, <1>s, <2>7, ReassertEffect, RowsShapeKept DEF Others, KeepsRows
  <2> QED  BY <1>2, <2>1, <2>2, <2>3, <2>4, <2>5, <2>6, <2>7 DEF Moves
<1>3. ASSUME NEW i \in Imports, Commit(i) PROVE RowsShape(k)'
  <2>1. Notices(i) /\ run'[i].items = {}
    BY <1>0, <1>3, CommitEffect
  <2> QED  BY <1>0, <2>1, RowsShapeKept, RowsShapeNone DEF Notices, KeepsRows, Working
<1> QED  BY <1>1, <1>2, <1>3, StepKinds

LEMMA ShapeStep == Shape /\ [Next]_vars => Shape'
<1> QED  BY TypeStep, RowsShapeStep DEF Shape

LEMMA AlwaysShape == Spec => []Shape
<1> QED  BY InitShape, ShapeStep, PTL DEF Spec

\* Every variable keeps its type: in particular whatever an import commits is a case for a
\* complaint it found in its file, and a trace job for a wallet of it.
THEOREM TypeCorrect == Spec => []TypeOK
<1>1. Shape => TypeOK
  BY DEF Shape
<1> QED  BY <1>1, AlwaysShape, PTL

\* What a commit does to the complaints that are stored.
LEMMA CommitStores ==
    ASSUME Shape, NEW i \in Imports, Commit(i)
    PROVE  /\ Stored' = Stored \cup New(i) /\ Stored \cap New(i) = {}
           /\ \A a \in Stored : book'[a] = book[a]
           /\ \A n \in run[i].items : book'[run[i].file[n]] = run[i].caseOf[n]
<1>0. TypeOK /\ RowsShape(i) /\ \A n \in run[i].items : run[i].file[n] \in Acks /\ run[i].caseOf[n] \in Acks
  BY ShapeRows DEF Commit, At, RowsShape, Working
<1>1. book' = [a \in Acks |-> IF a \in New(i) THEN run[i].caseOf[RowOf(run[i], a)] ELSE book[a]]
  BY <1>0, CommitEffect
<1>2. Stored \cap New(i) = {} /\ New(i) \subseteq Acks
  BY <1>0 DEF Commit, Conflict, New
<1>3. \A n \in run[i].items : book'[run[i].file[n]] = run[i].caseOf[n]
  BY <1>0, <1>1, RowOfIs DEF New
<1>4. \A a \in Acks \ New(i) : book'[a] = book[a]
  BY <1>1
<1>5. \A a \in New(i) : book'[a] \in Acks
  BY <1>0, <1>3 DEF New
<1> QED  BY <1>2, <1>3, <1>4, <1>5, IntakeAssumption DEF Stored

\* A complaint is created once: it stays in the case it was given, and the case with it,
\* whatever other imports bring the same acknowledgement number.
THEOREM ComplaintsStay == Spec => CreatedOnce
<1>1. Shape /\ [Next]_vars => [KeepsStored]_vars
  <2> SUFFICES ASSUME Shape, [Next]_vars, NEW a \in Stored
               PROVE  book'[a] = book[a] /\ opened'[a] = opened[a]
    BY DEF KeepsStored
  <2>1. CASE stored' = stored
    BY <2>1 DEF stored
  <2>2. ASSUME NEW i \in Imports, Commit(i) PROVE book'[a] = book[a] /\ opened'[a] = opened[a]
    <3>1. a \notin New(i) /\ book'[a] = book[a] /\ a \in Acks
      BY <2>2, CommitStores DEF Stored
    <3>2. opened' = [b \in Acks |-> IF b \in New(i) /\ run[i].caseOf[RowOf(run[i], b)] = b
                                     THEN run[i].start + Place(run[i].items, RowOf(run[i], b)) ELSE opened[b]]
      BY <2>2 DEF Commit, New
    <3> QED  BY <3>1, <3>2
  <2> QED  BY <2>1, <2>2, StepKinds DEF Moves
<1> QED  BY <1>1, AlwaysShape, PTL DEF Spec, CreatedOnce

-----------------------------------------------------------------------------
(* The second layer *)

LEMMA SharesBothWays == \A a, b : Shares(a, b) <=> Shares(b, a)
<1> QED  BY DEF Shares

LEMMA CasesAreStored == ASSUME Founders, NEW b \in Stored PROVE IsCase(book[b])
<1>1. book[b] \in Acks /\ book[book[b]] = book[b]
  BY DEF Founders
<1> QED  BY <1>1, IntakeAssumption DEF IsCase, Stored

\* The case of row k is there, or a row up to k founds it.
Settled(i, c, k) == k \in run[i].items =>
    \/ IsCase(c[k])
    \/ \E m \in run[i].items : m <= k /\ c[m] = run[i].file[m] /\ c[k] = run[i].file[m]

LEMMA MatchesInclude ==
    ASSUME NEW i \in Imports, NEW c, NEW n
    PROVE  /\ \A b \in Stored : Shares(b, run[i].file[n]) => book[b] \in Matches(run[i], c, n)
           /\ \A m \in run[i].items : m < n /\ Shares(run[i].file[m], run[i].file[n])
                 => c[m] \in Matches(run[i], c, n)
<1> QED  BY DEF Matches

LEMMA MatchesFrom ==
    ASSUME NEW i \in Imports, NEW c, NEW n, NEW x \in Matches(run[i], c, n)
    PROVE  \/ \E b \in Stored : x = book[b]
           \/ \E m \in run[i].items : m < n /\ x = c[m]
<1> QED  BY DEF Matches

LEMMA AssignedFrom ==
    ASSUME NEW i \in Imports, NEW c, Assigns(run[i], c), NEW n \in run[i].items
    PROVE  /\ Matches(run[i], c, n) = {} => c[n] = run[i].file[n]
           /\ Matches(run[i], c, n) # {} => c[n] \in Matches(run[i], c, n)
<1> QED  BY DEF Assigns

LEMMA SettledStep ==
    ASSUME Shape, Founders, NEW i \in Imports, NEW c, Assigns(run[i], c), NEW k \in Rows,
           \A m \in Rows : m < k => Settled(i, c, m)
    PROVE  Settled(i, c, k)
<1> SUFFICES ASSUME k \in run[i].items
             PROVE  \/ IsCase(c[k])
                    \/ \E m \in run[i].items : m <= k /\ c[m] = run[i].file[m] /\ c[k] = run[i].file[m]
  BY DEF Settled
<1>0. run[i].items \subseteq Rows /\ Rows \subseteq Nat
  BY RunFields DEF Shape, TypeOK, Rows
<1>1. CASE Matches(run[i], c, k) = {}
  <2>1. c[k] = run[i].file[k] /\ k <= k
    BY <1>0, <1>1, AssignedFrom
  <2> QED  BY <2>1
<1>2. CASE Matches(run[i], c, k) # {}
  <2>1. \/ \E b \in Stored : c[k] = book[b]
        \/ \E m \in run[i].items : m < k /\ c[k] = c[m]
    <3>1. c[k] \in Matches(run[i], c, k)
      BY <1>2, AssignedFrom
    <3> QED  BY <3>1, MatchesFrom
  <2>2. CASE \E b \in Stored : c[k] = book[b]
    BY <2>2, CasesAreStored
  <2>3. ASSUME NEW m \in run[i].items, m < k, c[k] = c[m]
        PROVE  \/ IsCase(c[k])
               \/ \E l \in run[i].items : l <= k /\ c[l] = run[i].file[l] /\ c[k] = run[i].file[l]
    <3>1. Settled(i, c, m)
      BY <1>0, <2>3
    <3>2. CASE IsCase(c[m])
      BY <2>3, <3>2
    <3>3. ASSUME NEW l \in run[i].items, l <= m, c[l] = run[i].file[l], c[m] = run[i].file[l]
          PROVE  l <= k /\ c[k] = run[i].file[l]
      <4>1. l \in Nat /\ m \in Nat /\ k \in Nat
        BY <1>0
      <4> QED  BY <2>3, <3>3, <4>1
    <3> QED  BY <2>3, <3>1, <3>2, <3>3 DEF Settled
  <2> QED  BY <2>1, <2>2, <2>3
<1> QED  BY <1>1, <1>2

\* There are few rows: the steps add up.
LEMMA AllSettled ==
    ASSUME Shape, Founders, NEW i \in Imports, NEW c, Assigns(run[i], c)
    PROVE  \A k \in Rows : Settled(i, c, k)
<1>0. 1 \in Rows /\ 2 \in Rows /\ 3 \in Rows /\ \A k \in Rows : k = 1 \/ k = 2 \/ k = 3
  BY DEF Rows
<1>1. Settled(i, c, 1)
  <2>1. \A m \in Rows : ~(m < 1)
    BY <1>0
  <2> QED  BY <1>0, <2>1, SettledStep
<1>2. Settled(i, c, 2)
  <2>1. \A m \in Rows : m < 2 => m = 1
    BY <1>0
  <2> QED  BY <1>0, <1>1, <2>1, SettledStep
<1>3. Settled(i, c, 3)
  <2>1. \A m \in Rows : m < 3 => m = 1 \/ m = 2
    BY <1>0
  <2> QED  BY <1>0, <1>1, <1>2, <2>1, SettledStep
<1> QED  BY <1>0, <1>1, <1>2, <1>3

\* A row that founds a case found none to join.
LEMMA NoneToJoin ==
    ASSUME Shape, Founders, NEW i \in Imports, NEW c, Assigns(run[i], c), NEW n \in run[i].items,
           c[n] = run[i].file[n], run[i].file[n] \notin Stored
    PROVE  Matches(run[i], c, n) = {}
<1> SUFFICES ASSUME Matches(run[i], c, n) # {} PROVE FALSE
  OBVIOUS
<1>0. run[i].items \subseteq Rows /\ Rows \subseteq Nat
  BY RunFields DEF Shape, TypeOK, Rows
<1>1. \/ \E b \in Stored : c[n] = book[b]
      \/ \E m \in run[i].items : m < n /\ c[n] = c[m]
  <2>1. c[n] \in Matches(run[i], c, n)
    BY AssignedFrom
  <2> QED  BY <2>1, MatchesFrom
<1>2. ~\E b \in Stored : c[n] = book[b]
  BY CasesAreStored DEF IsCase
<1>3. PICK m \in run[i].items : m < n /\ c[n] = c[m]
  BY <1>1, <1>2
<1>4. Settled(i, c, m)
  BY <1>0, AllSettled
<1>5. PICK l \in run[i].items : l <= m /\ c[m] = run[i].file[l]
  BY <1>3, <1>4 DEF Settled, IsCase
<1>6. l = n
  BY <1>3, <1>5 DEF Shape, RowsShape
<1>7. l \in Nat /\ m \in Nat /\ n \in Nat
  BY <1>0
<1> QED  BY <1>3, <1>5, <1>6, <1>7

LEMMA LinkDecides ==
    ASSUME Shape, Founders, NEW i \in Imports, Link(i)
    PROVE  Decision(i)'
<1>0. TypeOK
  BY DEF Shape
<1>1. run'[i].file = run[i].file /\ run'[i].items = run[i].items /\ Stored' = Stored /\ book' = book
  BY <1>0, LinkEffect DEF KeepsRows, Link, stored, Stored
<1>2. PICK c \in [run[i].items -> Acks] :
        Assigns(run[i], c) /\ \A n \in run[i].items : run'[i].caseOf[n] = c[n]
  BY <1>0, LinkEffect
<1>3. run[i].items \subseteq Rows /\ Rows \subseteq Nat
  BY <1>0, RunFields DEF TypeOK, Rows
<1> SUFFICES ASSUME NEW n \in run[i].items
             PROVE  HasCase(i, n)' /\ (Founds(i, n)' => Alone(i, n)')
  BY <1>1 DEF Decision
<1>4. HasCase(i, n)'
  <2>1. Settled(i, c, n)
    BY <1>2, <1>3, AllSettled
  <2> QED  BY <1>1, <1>2, <2>1 DEF Settled, HasCase, IsCase
<1>5. ASSUME NEW m \in run[i].items, Founds(i, m)' PROVE Matches(run[i], c, m) = {}
  BY <1>1, <1>2, <1>5, NoneToJoin DEF Founds
<1>6. ASSUME Founds(i, n)' PROVE Alone(i, n)'
  <2>1. \A b \in Stored : ~Shares(b, run[i].file[n])
    BY <1>5, <1>6, MatchesInclude
  <2>2. ASSUME NEW m \in run[i].items, m # n, Founds(i, m)' PROVE ~Shares(run[i].file[m], run[i].file[n])
    <3>1. CASE m < n
      BY <1>5, <1>6, <3>1, MatchesInclude
    <3>2. CASE n < m
      BY <1>5, <2>2, <3>2, MatchesInclude, SharesBothWays
    <3>3. m \in Nat /\ n \in Nat
      BY <1>3
    <3>4. m < n \/ n < m
      BY <2>2, <3>3
    <3> QED  BY <3>1, <3>2, <3>4
  <2> QED  BY <1>1, <2>1, <2>2 DEF Alone
<1> QED  BY <1>4, <1>6

\* Import k does not move, and what is stored grows by complaints it notices.
LEMMA DecisionKept ==
    ASSUME NEW k \in Imports, Decision(k), Working(k)' => Working(k),
           run'[k].file = run[k].file, run'[k].items = run[k].items,
           Working(k) => run'[k].caseOf = run[k].caseOf,
           Stored \subseteq Stored', \A a \in Stored : book'[a] = book[a],
           Working(k) => run[k].missed \cup (Stored' \ Stored) \subseteq run'[k].missed
    PROVE  Decision(k)'
<1> SUFFICES ASSUME Working(k), NEW n \in run[k].items
             PROVE  HasCase(k, n)' /\ (Founds(k, n)' => Alone(k, n)')
  BY DEF Decision
<1>1. HasCase(k, n)'
  BY DEF Decision, HasCase, IsCase
<1>2. \A m \in run[k].items : Founds(k, m)' => Founds(k, m)
  BY DEF Founds
<1>3. ASSUME Founds(k, n)' PROVE Alone(k, n)'
  <2>1. Alone(k, n)
    BY <1>2, <1>3 DEF Decision
  <2> QED  BY <1>2, <2>1 DEF Alone
<1> QED  BY <1>1, <1>3

LEMMA DecisionNone == ASSUME NEW k \in Imports, ~Working(k)' PROVE Decision(k)'
<1> QED  BY DEF Decision

LEMMA DecisionStep ==
    Shape /\ Founders /\ (\A k \in Imports : Decision(k)) /\ [Next]_vars => \A k \in Imports : Decision(k)'
<1> SUFFICES ASSUME Shape, Founders, \A i \in Imports : Decision(i), [Next]_vars, NEW k \in Imports
             PROVE  Decision(k)'
  OBVIOUS
<1>0. TypeOK /\ \A i \in Imports : RowsShape(i) /\ \A n \in run[i].items : run[i].file[n] \in Acks
  BY ShapeRows DEF Shape
<1>s. stored' = stored => Stored' = Stored /\ book' = book
  BY DEF stored, Stored
<1>k. ASSUME stored' = stored, run'[k] = run[k] PROVE Decision(k)'
  BY <1>s, <1>k, DecisionKept DEF Working
<1>1. ASSUME stored' = stored, run'[k] = run[k] \/ run'[k] = Idle PROVE Decision(k)'
  BY <1>k, <1>1, IdleIsRun, DecisionNone DEF Working
<1>2. ASSUME NEW i \in Imports, Moves(i) PROVE Decision(k)'
  <2>0. stored' = stored
    BY <1>2 DEF Moves
  <2>1. CASE Begin(i)
    BY <1>0, <1>k, <2>0, <2>1, BeginEffect, DecisionNone DEF Others, Working
  <2>2. CASE Dedup(i)
    <3>1. Others(i) /\ run'[i].pc \in {"reassert", "probe", "link"}
      BY <1>0, <2>2, DedupEffect
    <3> QED  BY <1>k, <2>0, <3>1, DecisionNone DEF Others, Working
  <2>3. CASE Probe(i)
    BY <1>0, <1>k, <2>0, <2>3, ProbeEffect, DecisionNone DEF Others, Working
  <2>4. CASE Link(i)
    BY <1>0, <1>k, <2>0, <2>4, LinkEffect, LinkDecides DEF Others
  <2>5. CASE Prepare(i)
    <3>1. /\ Others(i) /\ KeepsRows(i) /\ run'[i].caseOf = run[i].caseOf /\ run'[i].missed = run[i].missed
          /\ Working(i)
      BY <1>0, <2>5, PrepareEffect DEF Prepare, At, Working
    <3>2. Decision(i)'
      BY <1>s, <2>0, <3>1, DecisionKept DEF KeepsRows
    <3> QED  BY <1>k, <2>0, <3>1, <3>2 DEF Others
  <2>6. CASE Retry(i)
    BY <1>0, <1>k, <2>0, <2>6, RetryEffect, DecisionNone, IdleIsRun DEF Others, Working
  <2>7. CASE Reassert(i)
    BY <1>0, <1>k, <2>0, <2>7, ReassertEffect, DecisionNone DEF Others, Working
  <2> QED  BY <1>2, <2>1, <2>2, <2>3, <2>4, <2>5, <2>6, <2>7 DEF Moves
<1>3. ASSUME NEW i \in Imports, Commit(i) PROVE Decision(k)'
  <2>1. Notices(i) /\ run'[i].pc = "reassert"
    BY <1>0, <1>3, CommitEffect
  <2>2. Stored' = Stored \cup New(i) /\ \A a \in Stored : book'[a] = book[a]
    BY <1>3, CommitStores
  <2>3. CASE k = i
    BY <2>1, <2>3, DecisionNone DEF Working
  <2>4. CASE k # i
    <3>1. /\ run'[k].pc = run[k].pc /\ run'[k].file = run[k].file /\ run'[k].items = run[k].items
          /\ run'[k].caseOf = run[k].caseOf
          /\ Working(k) => run'[k].missed = run[k].missed \cup New(i)
      BY <2>1, <2>4 DEF Notices, KeepsRows
    <3>2. Working(k)' => Working(k)
      BY <3>1 DEF Working
    <3> QED  BY <2>2, <3>1, <3>2, DecisionKept
  <2> QED  BY <2>3, <2>4
<1> QED  BY <1>1, <1>2, <1>3, StepKinds

\* The complaints that are stored at a commit: their cases are named by complaints in them.
LEMMA FoundersStep ==
    Shape /\ Founders /\ (\A k \in Imports : Decision(k)) /\ [Next]_vars => Founders'
<1> SUFFICES ASSUME Shape, Founders, \A i \in Imports : Decision(i), [Next]_vars PROVE Founders'
  OBVIOUS
<1>1. CASE stored' = stored
  BY <1>1 DEF stored, Founders, Stored
<1>2. ASSUME NEW i \in Imports, Commit(i) PROVE Founders'
  <2>0. /\ \A n \in run[i].items : run[i].file[n] \in Acks /\ run[i].caseOf[n] \in Acks /\ HasCase(i, n)
        /\ TypeOK
    BY <1>2, ShapeRows DEF Commit, At, RowsShape, Working, Decision
  <2>1. /\ Stored' = Stored \cup New(i)
        /\ \A a \in Stored : book'[a] = book[a]
        /\ \A n \in run[i].items : book'[run[i].file[n]] = run[i].caseOf[n]
    BY <1>2, CommitStores
  <2>2. ASSUME NEW a \in Stored PROVE book'[a] \in Acks /\ book'[book'[a]] = book'[a]
    BY <2>1, CasesAreStored DEF Founders, IsCase
  <2>3. ASSUME NEW n \in run[i].items
        PROVE  book'[run[i].file[n]] \in Acks /\ book'[book'[run[i].file[n]]] = book'[run[i].file[n]]
    BY <2>0, <2>1 DEF HasCase, IsCase
  <2> QED  BY <2>1, <2>2, <2>3 DEF Founders, New
<1> QED  BY <1>1, <1>2, StepKinds DEF Moves

LEMMA OneCaseStep ==
    Shape /\ Founders /\ (\A k \in Imports : Decision(k)) /\ OneCasePerWallet /\ [Next]_vars => OneCasePerWallet'
<1> SUFFICES ASSUME Shape, Founders, \A i \in Imports : Decision(i), OneCasePerWallet, [Next]_vars
             PROVE  OneCasePerWallet'
  OBVIOUS
<1>1. CASE stored' = stored
  BY <1>1 DEF stored, OneCasePerWallet, Stored
<1>2. ASSUME NEW i \in Imports, Commit(i) PROVE OneCasePerWallet'
  <2>0. /\ TypeOK /\ RowsShape(i) /\ Working(i)
        /\ \A n \in run[i].items : run[i].file[n] \in Acks
        /\ \A n \in run[i].items : Founds(i, n) => Alone(i, n)
    BY <1>2, ShapeRows DEF Commit, At, Working, Decision
  <2>1. /\ Stored' = Stored \cup New(i) /\ Stored \cap New(i) = {}
        /\ \A a \in Stored : book'[a] = book[a]
        /\ \A n \in run[i].items : book'[run[i].file[n]] = run[i].caseOf[n]
    BY <1>2, CommitStores
  <2>2. blind' = blind \cup (New(i) \X run[i].missed)
    BY <1>2, <2>0, CommitEffect
  <2>3. ASSUME NEW a \in New(i), book'[a] = a
        PROVE  \E n \in run[i].items : a = run[i].file[n] /\ Founds(i, n) /\ Alone(i, n)
    <3>1. PICK n \in run[i].items : a = run[i].file[n]
      BY DEF New
    <3> QED  BY <2>0, <2>1, <2>3, <3>1 DEF Founds
  <2>4. ASSUME NEW a \in New(i), NEW b \in Stored, book'[a] = a, Shares(a, b)
        PROVE  <<a, b>> \in blind'
    <3>1. PICK n \in run[i].items : a = run[i].file[n] /\ Alone(i, n)
      BY <2>3, <2>4
    <3>2. b \in run[i].missed
      BY <2>4, <3>1, SharesBothWays DEF Alone
    <3> QED  BY <2>2, <3>2
  <2>5. ASSUME NEW a \in New(i), NEW b \in New(i), a # b, book'[a] = a, book'[b] = b PROVE ~Shares(a, b)
    <3>1. PICK n \in run[i].items : a = run[i].file[n] /\ Founds(i, n)
      BY <2>3, <2>5
    <3>2. PICK m \in run[i].items : b = run[i].file[m] /\ Alone(i, m)
      BY <2>3, <2>5
    <3> QED  BY <2>5, <3>1, <3>2 DEF Alone
  <2> SUFFICES ASSUME NEW a \in Stored', NEW b \in Stored', a # b, book'[a] = a, book'[b] = b, Shares(a, b)
               PROVE  <<a, b>> \in blind' \/ <<b, a>> \in blind'
    BY DEF OneCasePerWallet, Shares
  <2>6. CASE a \in Stored /\ b \in Stored
    BY <2>1, <2>2, <2>6 DEF OneCasePerWallet
  <2>7. CASE a \in New(i) /\ b \in Stored
    BY <2>4, <2>7
  <2>8. CASE a \in Stored /\ b \in New(i)
    BY <2>4, <2>8, SharesBothWays
  <2>9. CASE a \in New(i) /\ b \in New(i)
    BY <2>5, <2>9
  <2> QED  BY <2>1, <2>6, <2>7, <2>8, <2>9
<1> QED  BY <1>1, <1>2, StepKinds DEF Moves

CasesInv == Shape /\ Founders /\ (\A k \in Imports : Decision(k)) /\ OneCasePerWallet

LEMMA InitCases == Init => CasesInv
<1> SUFFICES ASSUME Init PROVE CasesInv
  OBVIOUS
<1>1. Stored = {}
  BY DEF Init, Stored
<1>2. \A k \in Imports : run[k].pc = "idle"
  BY IdleIsRun DEF Init
<1> QED  BY <1>1, <1>2, InitShape DEF CasesInv, Founders, Decision, Working, OneCasePerWallet

LEMMA CasesStep == CasesInv /\ [Next]_vars => CasesInv'
<1> QED  BY ShapeStep, FoundersStep, DecisionStep, OneCaseStep DEF CasesInv

\* Two cases were never founded on one wallet, but by imports that overlapped.
THEOREM OneCase == Spec => []OneCasePerWallet
<1>1. CasesInv => OneCasePerWallet
  BY DEF CasesInv
<1> QED  BY <1>1, InitCases, CasesStep, PTL DEF Spec

-----------------------------------------------------------------------------
(* The third layer *)

LEMMA SameKeyIsEquivalence ==
    ASSUME NEW s, NEW t
    PROVE  /\ SameKey(s, t) => SameKey(t, s)
           /\ \A u : SameKey(s, t) /\ SameKey(t, u) => SameKey(s, u)
<1> QED  BY DEF SameKey

\* Each job is for a row of the import.
LEMMA RowsOfWanted ==
    ASSUME Shape, NEW i \in Imports, Working(i), NEW t \in Wanted(i)
    PROVE  \E n \in run[i].items : run[i].file[n] = t.of /\ RowOf(run[i], t.of) = n /\ n \in Rows
<1>1. TypeOK /\ RowsShape(i) /\ run[i].items \subseteq Rows
  BY ShapeRows, RunFields DEF Shape, TypeOK
<1>2. PICK n \in run[i].items : run[i].file[n] = t.of
  BY <1>1, WantedAreTraces
<1>3. RowOf(run[i], t.of) = n
  BY <1>1, <1>2, RowOfIs
<1> QED  BY <1>1, <1>2, <1>3

LEMMA CreatesOnce ==
    ASSUME Shape, NEW i \in Imports, Working(i), NEW t \in Created(i)
    PROVE  /\ \A s \in traces : ~SameKey(s, t)
           /\ \A s \in Created(i) : SameKey(s, t) => s = t
<1>0. TypeOK /\ RowsShape(i) /\ t \in Wanted(i) /\ Created(i) \subseteq Wanted(i)
  BY ShapeRows DEF Created
<1>1. ASSUME NEW s \in traces, SameKey(s, t) PROVE FALSE
  <2>1. s \in Have(Wanted(i))
    BY <1>0, <1>1 DEF Have
  <2> QED  BY <1>1, <2>1 DEF Created
<1>2. ASSUME NEW s \in Created(i), SameKey(s, t) PROVE s = t
  <2>1. RowOf(run[i], t.of) <= RowOf(run[i], s.of) /\ RowOf(run[i], s.of) <= RowOf(run[i], t.of)
    BY <1>0, <1>2, SameKeyIsEquivalence DEF Created
  <2>2. PICK n \in run[i].items : run[i].file[n] = t.of /\ RowOf(run[i], t.of) = n /\ n \in Rows
    BY <1>0, RowsOfWanted
  <2>3. PICK m \in run[i].items : run[i].file[m] = s.of /\ RowOf(run[i], s.of) = m /\ m \in Rows
    BY <1>0, <1>2, RowsOfWanted
  <2>4. n = m
    <3>1. n \in Nat /\ m \in Nat
      BY <2>2, <2>3 DEF Rows
    <3> QED  BY <2>1, <2>2, <2>3, <3>1
  <2>5. s.of = t.of /\ s \in Trace /\ t \in Trace
    BY <1>0, <2>2, <2>3, <2>4, WantedAreTraces
  <2> QED  BY <1>2, <2>5 DEF SameKey, Trace
<1> QED  BY <1>1, <1>2

LEMMA FreshNone == ASSUME NEW k \in Imports, run'[k].pc # "commit" PROVE FreshOnce(k)'
<1> QED  BY DEF FreshOnce

\* An import waits to commit while traces grow by some it notices.
LEMMA FreshKept ==
    ASSUME NEW k \in Imports, FreshOnce(k), run[k].pc = "commit",
           run'[k].file = run[k].file, run'[k].items = run[k].items, run'[k].fresh = run[k].fresh,
           run[k].missed \subseteq run'[k].missed,
           \A s \in traces' : s \in traces \/ s.of \in run'[k].missed
    PROVE  FreshOnce(k)'
<1> SUFFICES ASSUME NEW t \in run[k].fresh
             PROVE  /\ \E n \in run[k].items : run[k].file[n] = t.of
                    /\ \A s \in traces' : SameKey(s, t) => s.of \in run'[k].missed
                    /\ \A s \in run[k].fresh : SameKey(s, t) => s = t
  BY DEF FreshOnce, SameKey
<1> QED  BY DEF FreshOnce

LEMMA FreshStep ==
    Shape /\ (\A k \in Imports : FreshOnce(k)) /\ [Next]_vars => \A k \in Imports : FreshOnce(k)'
<1> SUFFICES ASSUME Shape, \A i \in Imports : FreshOnce(i), [Next]_vars, NEW k \in Imports
             PROVE  FreshOnce(k)'
  OBVIOUS
<1>0. TypeOK /\ \A i \in Imports : RowsShape(i) /\ \A n \in run[i].items : run[i].file[n] \in Acks
  BY ShapeRows DEF Shape
<1>k. ASSUME stored' = stored, run'[k] = run[k] PROVE FreshOnce(k)'
  <2>1. traces' = traces
    BY <1>k DEF stored
  <2> QED  BY <1>k, <2>1, FreshKept, FreshNone
<1>1. ASSUME stored' = stored, run'[k] = run[k] \/ run'[k] = Idle PROVE FreshOnce(k)'
  BY <1>k, <1>1, IdleIsRun, FreshNone
<1>2. ASSUME NEW i \in Imports, Moves(i) PROVE FreshOnce(k)'
  <2>0. stored' = stored /\ traces' = traces
    BY <1>2 DEF Moves, stored
  <2>1. CASE Begin(i)
    BY <1>0, <1>k, <2>0, <2>1, BeginEffect, FreshNone DEF Others
  <2>2. CASE Dedup(i)
    <3>1. Others(i) /\ run'[i].pc \in {"reassert", "probe", "link"}
      BY <1>0, <2>2, DedupEffect
    <3> QED  BY <1>k, <2>0, <3>1, FreshNone DEF Others
  <2>3. CASE Probe(i)
    BY <1>0, <1>k, <2>0, <2>3, ProbeEffect, FreshNone DEF Others
  <2>4. CASE Link(i)
    BY <1>0, <1>k, <2>0, <2>4, LinkEffect, FreshNone DEF Others
  <2>5. CASE Prepare(i)
    <3>1. /\ Others(i) /\ KeepsRows(i) /\ run'[i].fresh = Created(i) /\ Working(i)
      BY <1>0, <2>5, PrepareEffect DEF Prepare, At, Working
    <3>2. \A t \in Created(i) : /\ \E n \in run[i].items : run[i].file[n] = t.of
                                /\ \A s \in traces : ~SameKey(s, t)
                                /\ \A s \in Created(i) : SameKey(s, t) => s = t
      BY <3>1, CreatesOnce, RowsOfWanted DEF Created
    <3>3. FreshOnce(i)'
      <4> SUFFICES ASSUME NEW t \in Created(i)
                   PROVE  /\ \E n \in run[i].items : run[i].file[n] = t.of
                          /\ \A s \in traces : SameKey(s, t) => s.of \in run'[i].missed
                          /\ \A s \in Created(i) : SameKey(s, t) => s = t
        BY <2>0, <3>1 DEF FreshOnce, KeepsRows, SameKey
      <4> QED  BY <3>2
    <3> QED  BY <1>k, <2>0, <3>1, <3>3 DEF Others
  <2>6. CASE Retry(i)
    BY <1>0, <1>k, <2>0, <2>6, RetryEffect, FreshNone, IdleIsRun DEF Others
  <2>7. CASE Reassert(i)
    BY <1>0, <1>k, <2>0, <2>7, ReassertEffect, FreshNone DEF Others
  <2> QED  BY <1>2, <2>1, <2>2, <2>3, <2>4, <2>5, <2>6, <2>7 DEF Moves
<1>3. ASSUME NEW i \in Imports, Commit(i) PROVE FreshOnce(k)'
  <2>1. Notices(i) /\ run'[i].pc = "reassert" /\ traces' = traces \cup run[i].fresh /\ run[i].pc = "commit"
    BY <1>0, <1>3, CommitEffect DEF Commit, At
  <2>2. \A s \in run[i].fresh : s.of \in New(i)
    BY <2>1 DEF FreshOnce, New
  <2>3. CASE k = i \/ run[k].pc # "commit"
    BY <2>1, <2>3, FreshNone DEF Notices
  <2>4. CASE k # i /\ run[k].pc = "commit"
    <3>1. /\ run'[k].file = run[k].file /\ run'[k].items = run[k].items /\ run'[k].fresh = run[k].fresh
          /\ run'[k].missed = run[k].missed \cup New(i)
      BY <2>1, <2>4 DEF Notices, KeepsRows, Working
    <3> QED  BY <2>1, <2>2, <2>4, <3>1, FreshKept
  <2> QED  BY <2>3, <2>4
<1> QED  BY <1>1, <1>2, <1>3, StepKinds

LEMMA OneTraceStep ==
    Shape /\ (\A k \in Imports : FreshOnce(k)) /\ OneTracePerSeed /\ [Next]_vars => OneTracePerSeed'
<1> SUFFICES ASSUME Shape, \A i \in Imports : FreshOnce(i), OneTracePerSeed, [Next]_vars PROVE OneTracePerSeed'
  OBVIOUS
<1>1. CASE stored' = stored
  BY <1>1 DEF stored, OneTracePerSeed, SameKey
<1>2. ASSUME NEW i \in Imports, Commit(i) PROVE OneTracePerSeed'
  <2>1. traces' = traces \cup run[i].fresh /\ blind' = blind \cup (New(i) \X run[i].missed)
        /\ run[i].pc = "commit"
    BY <1>2, ShapeRows, CommitEffect DEF Commit, At
  <2>2. \A t \in run[i].fresh : /\ t.of \in New(i)
                                /\ \A s \in traces : SameKey(s, t) => s.of \in run[i].missed
                                /\ \A s \in run[i].fresh : SameKey(s, t) => s = t
    BY <2>1 DEF FreshOnce, New
  <2>3. ASSUME NEW t \in run[i].fresh, NEW s \in traces, SameKey(s, t) PROVE <<t.of, s.of>> \in blind'
    BY <2>1, <2>2, <2>3
  <2> SUFFICES ASSUME NEW s \in traces', NEW t \in traces', s # t, SameKey(s, t)
               PROVE  <<s.of, t.of>> \in blind' \/ <<t.of, s.of>> \in blind'
    BY DEF OneTracePerSeed, SameKey
  <2>4. CASE s \in traces /\ t \in traces
    BY <2>1, <2>4 DEF OneTracePerSeed
  <2>5. CASE s \in traces /\ t \in run[i].fresh
    BY <2>3, <2>5
  <2>6. CASE s \in run[i].fresh /\ t \in traces
    BY <2>3, <2>6, SameKeyIsEquivalence
  <2>7. CASE s \in run[i].fresh /\ t \in run[i].fresh
    BY <2>2, <2>7
  <2> QED  BY <2>1, <2>4, <2>5, <2>6, <2>7
<1> QED  BY <1>1, <1>2, StepKinds DEF Moves

TracesInv == Shape /\ (\A k \in Imports : FreshOnce(k)) /\ OneTracePerSeed

\* A case has one trace job for a wallet and chain, but for imports that overlapped.
THEOREM OneTrace == Spec => []OneTracePerSeed
<1>1. Init => TracesInv
  <2> SUFFICES ASSUME Init PROVE TracesInv
    OBVIOUS
  <2>1. traces = {} /\ \A k \in Imports : run[k].pc = "idle"
    BY IdleIsRun DEF Init
  <2> QED  BY <2>1, InitShape DEF TracesInv, FreshOnce, OneTracePerSeed
<1>2. TracesInv /\ [Next]_vars => TracesInv'
  BY ShapeStep, FreshStep, OneTraceStep DEF TracesInv
<1>3. TracesInv => OneTracePerSeed
  BY DEF TracesInv
<1> QED  BY <1>1, <1>2, <1>3, PTL DEF Spec

-----------------------------------------------------------------------------
(* The fourth layer *)

LEMMA DecidedChains == ASSUME NEW a \in Acks, NEW w \in Wallets PROVE Decided(a, w) \subseteq Chains
<1>1. Family[w] \in {"TRON", "BTC", "EVM"} /\ {"ETH", "BSC"} \subseteq Evm
  BY IntakeAssumption
<1>2. Family[w] # "EVM" => Decided(a, w) = {Family[w]}
  BY DEF Decided
<1>3. Family[w] = "EVM" => Decided(a, w) \in {{"ETH"}, {"BSC"}, {}}
  <2>1. CASE Network[a] = "ERC20"
    BY <2>1 DEF Decided
  <2>2. CASE Network[a] = "BEP20"
    BY <2>2 DEF Decided
  <2>3. CASE Network[a] # "ERC20" /\ Network[a] # "BEP20"
    BY <2>3 DEF Decided
  <2> QED  BY <2>1, <2>2, <2>3
<1> QED  BY <1>1, <1>2, <1>3 DEF Chains

\* What is found covers what is required, but for the chains that stayed silent while
\* another answered.
LEMMA ProbeCompletes ==
    ASSUME Shape, NEW i \in Imports, NEW quiet \in [Asked(i) -> SUBSET Evm], NEW n \in run[i].items,
           NEW w \in WalletsOf[run[i].file[n]], NEW ch \in Required(run[i].file[n], w)
    PROVE  <<run[i].file[n], w, ch>> \in Found(i, quiet) \cup NotFound(i, quiet)
<1> DEFINE a == run[i].file[n]
<1>1. a \in Acks /\ a \in New(i)
  BY ShapeRows DEF New
<1>2. w \in Wallets
  BY <1>1, IntakeAssumption
<1>3. Active[w] \subseteq Evm /\ Evm \subseteq Chains
  BY <1>2, IntakeAssumption DEF Chains
<1> HIDE DEF a
<1>4. CASE Decided(a, w) # {}
  <2>1. ch \in Decided(a, w)
    BY <1>4 DEF Required, a
  <2>2. ch \in Chains
    BY <1>1, <1>2, <2>1, DecidedChains
  <2>3. \A q : SeedChains(a, w, q) = Decided(a, w)
    BY <1>4 DEF SeedChains
  <2>4. <<a, w, ch>> \in Found(i, quiet)
    BY <1>1, <1>2, <2>1, <2>2, <2>3 DEF Found, a
  <2> QED  BY <2>4 DEF a
<1>5. CASE Decided(a, w) = {}
  <2>1. ch \in Active[w] /\ ch \in Chains
    BY <1>3, <1>5 DEF Required, a
  <2>2. w \in Asked(i)
    BY <1>1, <1>2, <1>5 DEF Asked, a
  <2>3. SeedChains(a, w, quiet[w]) = Probed(w, quiet[w])
    BY <1>5 DEF SeedChains
  <2>4. CASE ch \in Probed(w, quiet[w])
    <3>1. <<a, w, ch>> \in Found(i, quiet)
      BY <1>1, <1>2, <2>1, <2>2, <2>3, <2>4 DEF Found, a
    <3> QED  BY <3>1 DEF a
  <2>5. CASE ch \notin Probed(w, quiet[w])
    <3>1. ch \in quiet[w] /\ Active[w] \ quiet[w] # {}
      BY <2>1, <2>5 DEF Probed
    <3>2. <<a, w, ch>> \in NotFound(i, quiet)
      BY <1>1, <1>3, <2>1, <2>2, <3>1 DEF NotFound
    <3> QED  BY <3>2 DEF a
  <2> QED  BY <2>4, <2>5
<1> QED  BY <1>4, <1>5

LEMMA SeedsKept ==
    ASSUME NEW k \in Imports, SeedsComplete(k), HasSeeds(k)' => HasSeeds(k),
           run'[k].file = run[k].file, run'[k].items \subseteq run[k].items,
           HasSeeds(k) => KeepsSeeds(k)
    PROVE  SeedsComplete(k)'
<1> SUFFICES ASSUME HasSeeds(k) PROVE Complete(run[k].file, run'[k].items, run[k].seeds \cup run[k].silent)
  BY DEF SeedsComplete, KeepsSeeds
<1> QED  BY DEF SeedsComplete, Complete

LEMMA SeedsNone == ASSUME NEW k \in Imports, ~HasSeeds(k)' \/ run'[k].items = {} PROVE SeedsComplete(k)'
<1>1. \A file, seeds : Complete(file, {}, seeds)
  BY DEF Complete
<1> QED  BY <1>1 DEF SeedsComplete

LEMMA SeedsStep ==
    Shape /\ (\A k \in Imports : SeedsComplete(k)) /\ [Next]_vars => \A k \in Imports : SeedsComplete(k)'
<1> SUFFICES ASSUME Shape, \A i \in Imports : SeedsComplete(i), [Next]_vars, NEW k \in Imports
             PROVE  SeedsComplete(k)'
  OBVIOUS
<1>0. TypeOK /\ \A i \in Imports : RowsShape(i) /\ \A n \in run[i].items : run[i].file[n] \in Acks
  BY ShapeRows DEF Shape
<1>k. ASSUME run'[k] = run[k] PROVE SeedsComplete(k)'
  BY <1>k, SeedsKept DEF HasSeeds, KeepsSeeds
<1>1. ASSUME run'[k] = run[k] \/ run'[k] = Idle PROVE SeedsComplete(k)'
  BY <1>k, <1>1, IdleIsRun, SeedsNone
<1>2. ASSUME NEW i \in Imports, Moves(i) PROVE SeedsComplete(k)'
  <2>1. CASE Begin(i)
    BY <1>0, <1>k, <2>1, BeginEffect, SeedsNone DEF Others, HasSeeds
  <2>2. CASE Dedup(i)
    <3>0. run[i].pc = "dedup"
      BY <2>2 DEF Dedup, At
    <3>1. /\ Others(i)
          /\ \/ run'[i].items = {}
             \/ /\ run'[i].pc = IF run[i].retry = 0 THEN "probe" ELSE "link"
                /\ run'[i].file = run[i].file /\ run'[i].items \subseteq run[i].items /\ KeepsSeeds(i)
      BY <1>0, <2>2, DedupEffect
    <3>2. SeedsComplete(i)'
      BY <3>0, <3>1, SeedsKept, SeedsNone DEF HasSeeds
    <3> QED  BY <1>k, <3>1, <3>2 DEF Others
  <2>3. CASE Probe(i)
    <3>1. PICK quiet \in [Asked(i) -> SUBSET Evm] :
             /\ Others(i) /\ KeepsRows(i)
             /\ run'[i].seeds = Found(i, quiet) /\ run'[i].silent = NotFound(i, quiet)
      BY <1>0, <2>3, ProbeEffect
    <3>2. SeedsComplete(i)'
      <4>1. Complete(run[i].file, run[i].items, Found(i, quiet) \cup NotFound(i, quiet))
        BY ProbeCompletes DEF Complete
      <4> QED  BY <3>1, <4>1 DEF SeedsComplete, KeepsRows
    <3> QED  BY <1>k, <3>1, <3>2 DEF Others
  <2>4. CASE Link(i)
    <3>1. Others(i) /\ KeepsRows(i) /\ KeepsSeeds(i) /\ HasSeeds(i)
      BY <1>0, <2>4, LinkEffect DEF Link, At, HasSeeds
    <3> QED  BY <1>k, <3>1, SeedsKept DEF Others, KeepsRows
  <2>5. CASE Prepare(i)
    <3>1. Others(i) /\ KeepsRows(i) /\ KeepsSeeds(i) /\ HasSeeds(i)
      BY <1>0, <2>5, PrepareEffect DEF Prepare, At, HasSeeds
    <3> QED  BY <1>k, <3>1, SeedsKept DEF Others, KeepsRows
  <2>6. CASE Retry(i)
    <3>0. TypeOK
      BY <1>0
    <3>1. Others(i) /\ (run'[i] = Idle \/ (KeepsRows(i) /\ KeepsSeeds(i)))
      BY <2>6, <3>0, RetryEffect
    <3>2. HasSeeds(i)
      BY <2>6 DEF Retry, At, HasSeeds
    <3> QED  BY <1>k, <3>1, <3>2, SeedsKept, SeedsNone, IdleIsRun DEF Others, KeepsRows
  <2>7. CASE Reassert(i)
    BY <1>0, <1>k, <2>7, ReassertEffect, SeedsNone DEF Others, HasSeeds
  <2> QED  BY <1>2, <2>1, <2>2, <2>3, <2>4, <2>5, <2>6, <2>7 DEF Moves
<1>3. ASSUME NEW i \in Imports, Commit(i) PROVE SeedsComplete(k)'
  <2>1. Notices(i) /\ run'[i].items = {}
    BY <1>0, <1>3, CommitEffect
  <2> QED  BY <2>1, SeedsKept, SeedsNone DEF Notices, HasSeeds, KeepsRows
<1> QED  BY <1>1, <1>2, <1>3, StepKinds

LEMMA LeastRow == ASSUME NEW S \in SUBSET Rows, S # {} PROVE \E m \in S : \A n \in S : m <= n
<1>1. \A n \in S : n = 1 \/ n = 2 \/ n = 3
  BY DEF Rows
<1>2. CASE 1 \in S
  BY <1>1, <1>2
<1>3. CASE 1 \notin S /\ 2 \in S
  BY <1>1, <1>3
<1>4. CASE 1 \notin S /\ 2 \notin S
  BY <1>1, <1>4
<1> QED  BY <1>2, <1>3, <1>4

\* Of the jobs for one case, chain and wallet one is there or is created.
LEMMA OneIsCreated ==
    ASSUME Shape, NEW i \in Imports, Working(i), NEW t \in Wanted(i)
    PROVE  \E s \in traces \cup Created(i) : SameKey(s, t)
<1> SUFFICES ASSUME \A s \in traces : ~SameKey(s, t) PROVE \E s \in Created(i) : SameKey(s, t)
  OBVIOUS
<1> DEFINE Same == {s \in Wanted(i) : SameKey(s, t)}
<1> DEFINE S == {RowOf(run[i], s.of) : s \in Same}
<1>1. S \in SUBSET Rows /\ S # {}
  <2>1. t \in Same
    BY DEF SameKey
  <2>2. \A s \in Same : RowOf(run[i], s.of) \in Rows
    BY RowsOfWanted
  <2> QED  BY <2>1, <2>2
<1>2. PICK m \in S : \A n \in S : m <= n
  BY <1>1, LeastRow
<1>3. PICK s \in Same : m = RowOf(run[i], s.of)
  BY <1>2
<1>4. \A u \in Have(Wanted(i)) : ~SameKey(u, s)
  BY <1>3, SameKeyIsEquivalence DEF Have
<1>5. \A u \in Wanted(i) : SameKey(u, s) => RowOf(run[i], s.of) <= RowOf(run[i], u.of)
  <2> SUFFICES ASSUME NEW u \in Wanted(i), SameKey(u, s) PROVE m <= RowOf(run[i], u.of)
    BY <1>3
  <2>1. u \in Same
    BY <1>3, SameKeyIsEquivalence
  <2> QED  BY <1>2, <2>1
<1> QED  BY <1>3, <1>4, <1>5 DEF Created

LEMMA PlannedNone == ASSUME NEW k \in Imports, run'[k].pc # "commit" PROVE Planned(k)'
<1> QED  BY DEF Planned

LEMMA PlannedKept ==
    ASSUME NEW k \in Imports, Planned(k), run[k].pc = "commit",
           run'[k].file = run[k].file, run'[k].items = run[k].items, run'[k].fresh = run[k].fresh,
           run'[k].silent = run[k].silent, run'[k].caseOf = run[k].caseOf, traces \subseteq traces'
    PROVE  Planned(k)'
<1>1. Serves(run[k].file, run[k].items, run[k].caseOf, run[k].silent, traces \cup run[k].fresh)
  BY DEF Planned
<1>2. Serves(run[k].file, run[k].items, run[k].caseOf, run[k].silent, traces' \cup run[k].fresh)
  BY <1>1 DEF Serves
<1> QED  BY <1>2 DEF Planned

LEMMA PreparePlans ==
    ASSUME Shape, NEW i \in Imports, SeedsComplete(i), Prepare(i)
    PROVE  Planned(i)'
<1>0. TypeOK /\ RowsShape(i) /\ Working(i) /\ HasSeeds(i) /\ traces' = traces
  BY ShapeRows DEF Prepare, At, Working, HasSeeds, stored
<1>1. /\ KeepsRows(i) /\ KeepsSeeds(i) /\ run'[i].caseOf = run[i].caseOf /\ run'[i].fresh = Created(i)
  BY <1>0, PrepareEffect
<1>5. Complete(run[i].file, run[i].items, run[i].seeds \cup run[i].silent)
  BY <1>0 DEF SeedsComplete
<1> SUFFICES Serves(run[i].file, run[i].items, run[i].caseOf, run[i].silent, traces \cup Created(i))
  BY <1>0, <1>1 DEF Planned, KeepsRows, KeepsSeeds
<1> SUFFICES ASSUME NEW n \in run[i].items,
                    NEW w \in WalletsOf[run[i].file[n]], NEW ch \in Required(run[i].file[n], w),
                    <<run[i].file[n], w, ch>> \in run[i].seeds
             PROVE  \E t \in traces \cup Created(i) :
                          t.case = run[i].caseOf[n] /\ t.seed = w /\ t.chain = ch
  BY <1>5 DEF Serves, Complete
<1> DEFINE u == <<run[i].file[n], w, ch>>
<1>2. JobFor(i, u) \in Wanted(i)
  <2>1. u[1] = run[i].file[n]
    OBVIOUS
  <2> HIDE DEF u
  <2>2. u \in run[i].seeds
    BY DEF u
  <2> QED  BY <2>1, <2>2 DEF Wanted
<1>3. JobFor(i, u).case = run[i].caseOf[n] /\ JobFor(i, u).seed = w /\ JobFor(i, u).chain = ch
  BY <1>0, RowOfIs DEF JobFor
<1>4. PICK s \in traces \cup Created(i) : SameKey(s, JobFor(i, u))
  BY <1>0, <1>2, OneIsCreated
<1> QED  BY <1>3, <1>4 DEF SameKey

LEMMA PlannedStep ==
    Shape /\ (\A k \in Imports : SeedsComplete(k) /\ Planned(k)) /\ [Next]_vars => \A k \in Imports : Planned(k)'
<1> SUFFICES ASSUME Shape, \A i \in Imports : SeedsComplete(i) /\ Planned(i), [Next]_vars, NEW k \in Imports
             PROVE  Planned(k)'
  OBVIOUS
<1>0. TypeOK /\ \A i \in Imports : RowsShape(i) /\ \A n \in run[i].items : run[i].file[n] \in Acks
  BY ShapeRows DEF Shape
<1>k. ASSUME stored' = stored, run'[k] = run[k] PROVE Planned(k)'
  <2>1. traces' = traces
    BY <1>k DEF stored
  <2> QED  BY <1>k, <2>1, PlannedKept, PlannedNone
<1>1. ASSUME stored' = stored, run'[k] = run[k] \/ run'[k] = Idle PROVE Planned(k)'
  BY <1>k, <1>1, IdleIsRun, PlannedNone
<1>2. ASSUME NEW i \in Imports, Moves(i) PROVE Planned(k)'
  <2>0. stored' = stored
    BY <1>2 DEF Moves
  <2>1. CASE Begin(i)
    BY <1>0, <1>k, <2>0, <2>1, BeginEffect, PlannedNone DEF Others
  <2>2. CASE Dedup(i)
    <3>1. Others(i) /\ run'[i].pc \in {"reassert", "probe", "link"}
      BY <1>0, <2>2, DedupEffect
    <3> QED  BY <1>k, <2>0, <3>1, PlannedNone DEF Others
  <2>3. CASE Probe(i)
    BY <1>0, <1>k, <2>0, <2>3, ProbeEffect, PlannedNone DEF Others
  <2>4. CASE Link(i)
    BY <1>0, <1>k, <2>0, <2>4, LinkEffect, PlannedNone DEF Others
  <2>5. CASE Prepare(i)
    BY <1>0, <1>k, <2>0, <2>5, PrepareEffect, PreparePlans DEF Others
  <2>6. CASE Retry(i)
    BY <1>0, <1>k, <2>0, <2>6, RetryEffect, PlannedNone, IdleIsRun DEF Others
  <2>7. CASE Reassert(i)
    BY <1>0, <1>k, <2>0, <2>7, ReassertEffect, PlannedNone DEF Others
  <2> QED  BY <1>2, <2>1, <2>2, <2>3, <2>4, <2>5, <2>6, <2>7 DEF Moves
<1>3. ASSUME NEW i \in Imports, Commit(i) PROVE Planned(k)'
  <2>1. Notices(i) /\ run'[i].pc = "reassert" /\ traces' = traces \cup run[i].fresh
    BY <1>0, <1>3, CommitEffect
  <2>2. CASE k = i \/ run[k].pc # "commit"
    BY <2>1, <2>2, PlannedNone DEF Notices
  <2>3. CASE k # i /\ run[k].pc = "commit"
    BY <2>1, <2>3, PlannedKept DEF Notices, KeepsRows, KeepsSeeds
  <2> QED  BY <2>2, <2>3
<1> QED  BY <1>1, <1>2, <1>3, StepKinds

Traced(a, case, missing, jobs) == \A w \in WalletsOf[a] : \A ch \in Required(a, w) :
    <<a, w, ch>> \in missing \/ \E t \in jobs : t.case = case /\ t.seed = w /\ t.chain = ch

LEMMA TracedIs == TracedWhereActive <=> \A a \in Stored : Traced(a, book[a], untraced, traces)
<1> QED  BY DEF TracedWhereActive, Traced, Required

LEMMA TracedStep ==
    Shape /\ (\A k \in Imports : Planned(k)) /\ (\A a \in Stored : Traced(a, book[a], untraced, traces))
    /\ [Next]_vars => (\A a \in Stored : Traced(a, book[a], untraced, traces))'
<1> SUFFICES ASSUME Shape, \A i \in Imports : Planned(i),
                    \A a \in Stored : Traced(a, book[a], untraced, traces), [Next]_vars
             PROVE  \A a \in Stored' : Traced(a, book'[a], untraced', traces')
  OBVIOUS
<1>1. CASE stored' = stored
  BY <1>1 DEF stored, Stored
<1>2. ASSUME NEW i \in Imports, Commit(i) PROVE \A a \in Stored' : Traced(a, book'[a], untraced', traces')
  <2>1. traces' = traces \cup run[i].fresh /\ untraced' = untraced \cup run[i].silent /\ run[i].pc = "commit"
    BY <1>2, ShapeRows, CommitEffect DEF Commit, At
  <2>2. /\ Stored' = Stored \cup New(i)
        /\ \A a \in Stored : book'[a] = book[a]
        /\ \A n \in run[i].items : book'[run[i].file[n]] = run[i].caseOf[n]
    BY <1>2, CommitStores
  <2>3. ASSUME NEW a \in Stored PROVE Traced(a, book'[a], untraced', traces')
    <3>1. Traced(a, book[a], untraced, traces) /\ book'[a] = book[a]
      BY <2>2
    <3> QED  BY <2>1, <3>1 DEF Traced
  <2>4. ASSUME NEW n \in run[i].items PROVE Traced(run[i].file[n], run[i].caseOf[n], untraced', traces')
    <3>1. Serves(run[i].file, run[i].items, run[i].caseOf, run[i].silent, traces \cup run[i].fresh)
      BY <2>1 DEF Planned
    <3> QED  BY <2>1, <3>1 DEF Serves, Traced
  <2> QED  BY <2>2, <2>3, <2>4 DEF New
<1> QED  BY <1>1, <1>2, StepKinds DEF Moves

ChainsInv == Shape /\ (\A k \in Imports : SeedsComplete(k) /\ Planned(k))
             /\ \A a \in Stored : Traced(a, book[a], untraced, traces)

\* The wallets of a stored complaint are traced in its case, on the chain that is decided or
\* on every chain where they are active, but for chains that were silent while another answered.
THEOREM AllTraced == Spec => []TracedWhereActive
<1>1. Init => ChainsInv
  <2> SUFFICES ASSUME Init PROVE ChainsInv
    OBVIOUS
  <2>1. Stored = {} /\ \A k \in Imports : run[k].pc = "idle"
    BY IdleIsRun DEF Init, Stored
  <2> QED  BY <2>1, InitShape DEF ChainsInv, SeedsComplete, HasSeeds, Planned
<1>2. ChainsInv /\ [Next]_vars => ChainsInv'
  BY ShapeStep, SeedsStep, PlannedStep, TracedStep DEF ChainsInv
<1>3. ChainsInv => TracedWhereActive
  BY TracedIs DEF ChainsInv
<1> QED  BY <1>1, <1>2, <1>3, PTL DEF Spec

=============================================================================
