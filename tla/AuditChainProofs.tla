-------------------------- MODULE AuditChainProofs --------------------------
(***************************************************************************)
(* Proofs about AuditChain for any recorders, verifiers and scopes. IInv   *)
(* says why the advisory lock is enough: whoever holds it is the only one  *)
(* between its read and its commit, so what it read is still the last row. *)
(***************************************************************************)
EXTENDS AuditChain, SequenceTheorems, WellFoundedInduction, TLAPS

Holding == {"locked", "read", "inserted"}

\* Only the holder of the lock is past "waiting".
LockInv == \A r \in Recorders : pc[r] \in Holding => lock = r

\* The sequence has given out every seq in use, and an uncommitted row has the
\* greatest of them.
SeqInv ==
    /\ nextSeq \in Nat
    /\ \A x \in rows : x.seq \in Nat /\ x.seq < nextSeq
    /\ \A r \in Recorders : pc[r] = "inserted" =>
          /\ draft[r].seq \in Nat /\ draft[r].seq < nextSeq
          /\ \A x \in rows : x.seq < draft[r].seq

\* What the holder read is still the hash of the last row.
ReadInv == \A r \in Recorders :
    /\ pc[r] \in {"read", "inserted"} => prevHash[r] = LastHash(rows)
    /\ pc[r] = "inserted" => Sound(draft[r], LastHash(rows))

FunInv == /\ pc \in [Recorders -> {"idle", "waiting", "locked", "read", "inserted", "done", "aborted"}]
          /\ DOMAIN prevHash = Recorders
          /\ DOMAIN draft = Recorders
          /\ DOMAIN verdict = Verifiers
          /\ DOMAIN walk = Verifiers
          /\ \A v \in Verifiers : walk[v] = [scope |-> walk[v].scope, todo |-> walk[v].todo]

\* Rows a scoped walk still has to look at are still in the table.
WalkInv == \A v \in Verifiers : walk[v].scope \in Scopes => walk[v].todo \subseteq rows

Linked == \A x \in rows : Sound(x, LastHash(Below(rows, x.seq)))
Untouched == SeqInv /\ ReadInv /\ WalkInv /\ Linked /\ \A v \in Verifiers : verdict[v] # "broken"

IInv == /\ FunInv
        /\ LockInv
        /\ tampered = {} => Untouched

\* The bookkeeping of the lock: it is taken when free and released by its holder.
LEMMA LockStep == FunInv /\ LockInv /\ [Next]_vars => FunInv' /\ LockInv'
<1> SUFFICES ASSUME FunInv, LockInv, [Next]_vars PROVE FunInv' /\ LockInv'
  OBVIOUS
<1> USE AuditAssumption DEF FunInv, LockInv, Holding, Goto
<1>1. ASSUME NEW r \in Recorders, Record(r) PROVE FunInv' /\ LockInv'
  <2>1. CASE Open(r)
    BY <2>1 DEF Open
  <2>2. CASE Lock(r)
    BY <2>2 DEF Lock
  <2>3. CASE ReadPrevious(r)
    BY <2>3 DEF ReadPrevious
  <2>4. CASE Insert(r)
    BY <2>4 DEF Insert
  <2>5. CASE Commit(r)
    BY <2>5 DEF Commit
  <2> QED
    BY <1>1, <2>1, <2>2, <2>3, <2>4, <2>5 DEF Record
<1>2. ASSUME NEW r \in Recorders, Abort(r) PROVE FunInv' /\ LockInv'
  BY <1>2 DEF Abort
<1>3. ASSUME NEW v \in Verifiers, VerifyAll(v) \/ VerifyEnd(v) PROVE FunInv' /\ LockInv'
  BY <1>3 DEF VerifyAll, VerifyEnd
<1>4. ASSUME NEW v \in Verifiers, NEW s \in Scopes, VerifyScope(v, s) PROVE FunInv' /\ LockInv'
  BY <1>4 DEF VerifyScope
<1>5. ASSUME NEW v \in Verifiers, NEW x \in walk[v].todo, VerifyRow(v, x) PROVE FunInv' /\ LockInv'
  <2>1. UNCHANGED <<lock, pc, prevHash, draft>> /\ DOMAIN verdict' = Verifiers
    BY <1>5 DEF VerifyRow
  <2>2. walk' = [walk EXCEPT ![v].todo = @ \ {x}] \/ walk' = walk
    BY <1>5 DEF VerifyRow
  <2> QED
    BY <2>1, <2>2
<1>6. ASSUME NEW x \in rows, Alter(x) \/ Remove(x) PROVE FunInv' /\ LockInv'
  BY <1>6 DEF Alter, Remove
<1>7. CASE UNCHANGED vars
  BY <1>7 DEF vars
<1> QED
  BY <1>1, <1>2, <1>3, <1>4, <1>5, <1>6, <1>7 DEF Next, Verify

\* While nobody touches the table, every step keeps the chain linked and keeps
\* what the holder of the lock has read up to date.
LEMMA UntouchedStep ==
    ASSUME FunInv, LockInv, Untouched, tampered = {}, tampered' = {}, [Next]_vars
    PROVE  Untouched'
<1> USE DEF Goto
<1>1. ASSUME NEW r \in Recorders, Open(r) \/ Lock(r) \/ Abort(r)
      PROVE  Untouched'
  <2>1. UNCHANGED <<rows, nextSeq, prevHash, draft, walk, verdict>>
    BY <1>1 DEF Open, Lock, Abort
  <2>2. \A q \in Recorders : pc'[q] \in {"read", "inserted"} => pc'[q] = pc[q]
    BY <1>1 DEF Open, Lock, Abort, FunInv
  <2> QED
    BY <2>1, <2>2 DEF Untouched, SeqInv, ReadInv, WalkInv, Linked
<1>2. ASSUME NEW r \in Recorders, ReadPrevious(r)
      PROVE  Untouched'
  <2>1. UNCHANGED <<rows, nextSeq, draft, walk, verdict>>
    BY <1>2 DEF ReadPrevious
  <2>2. /\ pc'[r] = "read" /\ prevHash'[r] = LastHash(rows)
        /\ \A q \in Recorders \ {r} : pc'[q] = pc[q] /\ prevHash'[q] = prevHash[q]
    BY <1>2 DEF ReadPrevious, FunInv
  <2> QED
    BY <2>1, <2>2 DEF Untouched, SeqInv, ReadInv, WalkInv, Linked
<1>3. ASSUME NEW r \in Recorders, Insert(r)
      PROVE  Untouched'
  <2>1. UNCHANGED <<rows, prevHash, walk, verdict>> /\ pc[r] = "read"
    BY <1>3 DEF Insert
  <2>2. /\ pc'[r] = "inserted" /\ nextSeq' = nextSeq + 1
        /\ draft'[r].seq = nextSeq
        /\ Sound(draft'[r], prevHash[r])
        /\ \A q \in Recorders \ {r} : pc'[q] = pc[q] /\ draft'[q] = draft[q]
    BY <1>3 DEF Insert, FunInv, Sound
  <2>3. SeqInv'
    BY <2>1, <2>2 DEF Untouched, SeqInv
  <2>4. ReadInv'
    BY <2>1, <2>2 DEF Untouched, ReadInv
  <2> QED
    BY <2>1, <2>3, <2>4 DEF Untouched, WalkInv, Linked
<1>4. ASSUME NEW r \in Recorders, Commit(r)
      PROVE  Untouched'
  <2> DEFINE d == draft[r]
  <2>1. /\ rows' = rows \cup {d} /\ pc[r] = "inserted"
        /\ UNCHANGED <<nextSeq, prevHash, draft, walk, verdict>>
    BY <1>4 DEF Commit
  <2>2. /\ pc'[r] = "done"
        /\ \A q \in Recorders \ {r} : pc'[q] = pc[q]
    BY <1>4 DEF Commit, FunInv
  <2>3. /\ d.seq \in Nat /\ d.seq < nextSeq
        /\ \A x \in rows : x.seq \in Nat /\ x.seq < d.seq
        /\ Sound(d, LastHash(rows))
    BY <2>1 DEF Untouched, SeqInv, ReadInv
  <2>4. \A q \in Recorders : pc'[q] \notin {"read", "inserted"}
    BY <2>1, <2>2, AuditAssumption DEF LockInv, Holding
  <2>5. /\ Below(rows', d.seq) = rows
        /\ \A x \in rows : Below(rows', x.seq) = Below(rows, x.seq)
    <3> HIDE DEF d
    <3>1. /\ Below(rows \cup {d}, d.seq) = rows
          /\ \A x \in rows : Below(rows \cup {d}, x.seq) = Below(rows, x.seq)
      BY <2>3 DEF Below
    <3> QED
      BY <2>1, <3>1
  <2>6. Linked'
    BY <2>1, <2>3, <2>5 DEF Untouched, Linked
  <2>7. SeqInv'
    BY <2>1, <2>3, <2>4 DEF Untouched, SeqInv
  <2> QED
    BY <2>1, <2>4, <2>6, <2>7 DEF Untouched, ReadInv, WalkInv
<1>5. ASSUME NEW v \in Verifiers, VerifyAll(v)
      PROVE  Untouched'
  <2>1. UNCHANGED <<rows, nextSeq, pc, prevHash, draft>>
    BY <1>5 DEF VerifyAll
  <2>2. /\ walk'[v].scope = "all" /\ verdict'[v] = "valid"
        /\ \A w \in Verifiers \ {v} : walk'[w] = walk[w] /\ verdict'[w] = verdict[w]
    BY <1>5 DEF VerifyAll, FunInv, Untouched, Linked
  <2> QED
    BY <2>1, <2>2, AuditAssumption DEF Untouched, SeqInv, ReadInv, WalkInv, Linked
<1>6. ASSUME NEW v \in Verifiers, NEW s \in Scopes, VerifyScope(v, s)
      PROVE  Untouched'
  <2>1. UNCHANGED <<rows, nextSeq, pc, prevHash, draft, verdict>>
    BY <1>6 DEF VerifyScope
  <2>2. /\ walk'[v].todo \subseteq rows
        /\ \A w \in Verifiers \ {v} : walk'[w] = walk[w]
    BY <1>6 DEF VerifyScope, FunInv
  <2> QED
    BY <2>1, <2>2 DEF Untouched, SeqInv, ReadInv, WalkInv, Linked
<1>7. ASSUME NEW v \in Verifiers, NEW x \in walk[v].todo, VerifyRow(v, x)
      PROVE  Untouched'
  <2>1. UNCHANGED <<rows, nextSeq, pc, prevHash, draft>>
    BY <1>7 DEF VerifyRow
  <2>2. x \in rows
    BY <1>7 DEF VerifyRow, Untouched, WalkInv
  <2>3. Sound(x, LastHash(Below(rows, x.seq)))
    BY <2>2 DEF Untouched, Linked
  <2>4. walk' = [walk EXCEPT ![v].todo = @ \ {x}] /\ verdict' = verdict
    BY <1>7, <2>3 DEF VerifyRow
  <2>5. \A w \in Verifiers : walk'[w].scope = walk[w].scope /\ walk'[w].todo \subseteq walk[w].todo
    BY <2>4 DEF FunInv
  <2> QED
    BY <2>1, <2>4, <2>5 DEF Untouched, SeqInv, ReadInv, WalkInv, Linked
<1>8. ASSUME NEW v \in Verifiers, VerifyEnd(v)
      PROVE  Untouched'
  BY <1>8 DEF VerifyEnd, FunInv, Untouched, SeqInv, ReadInv, WalkInv, Linked
<1>9. ASSUME NEW x \in rows, Alter(x) \/ Remove(x)
      PROVE  FALSE
  BY <1>9 DEF Alter, Remove
<1>10. CASE UNCHANGED vars
  BY <1>10 DEF vars, Untouched, SeqInv, ReadInv, WalkInv, Linked
<1> QED
  BY <1>1, <1>2, <1>3, <1>4, <1>5, <1>6, <1>7, <1>8, <1>9, <1>10 DEF Next, Record, Verify

\* A table that was touched stays on record as touched.
LEMMA TamperedStays == [Next]_vars /\ tampered' = {} => tampered = {}
<1> SUFFICES ASSUME [Next]_vars, tampered' = {} PROVE tampered = {}
  OBVIOUS
<1> QED
  BY DEF Next, Record, Verify, Open, Lock, ReadPrevious, Insert, Commit, Abort, VerifyAll,
         VerifyEnd, VerifyScope, VerifyRow, Alter, Remove, vars

LEMMA InductiveStep == IInv /\ [Next]_vars => IInv'
BY LockStep, UntouchedStep, TamperedStays DEF IInv

LEMMA InitIInv == Init => IInv
<1> SUFFICES ASSUME Init PROVE IInv
  OBVIOUS
<1>1. FunInv /\ LockInv
  BY DEF Init, FunInv, LockInv, Holding
<1>2. Untouched
  BY AuditAssumption DEF Init, Untouched, SeqInv, ReadInv, WalkInv, Linked
<1> QED
  BY <1>1, <1>2 DEF IInv

\* For any number of processes recording at once, with transactions rolled back
\* anywhere, an untouched audit table is one unbroken chain.
THEOREM LinearChain == Spec => []ChainIsLinear
<1>1. IInv => ChainIsLinear
  BY DEF IInv, Untouched, Linked, ChainIsLinear
<1> QED
  BY <1>1, InitIInv, InductiveStep, PTL DEF Spec

\* No walk over an untouched table, whole or scoped, reports a broken row.
THEOREM VerifyIsQuiet == Spec => []NoFalseAlarm
<1>1. IInv => NoFalseAlarm
  BY DEF IInv, Untouched, NoFalseAlarm
<1> QED
  BY <1>1, InitIInv, InductiveStep, PTL DEF Spec

-----------------------------------------------------------------------------
(* Types. LastHash is the hash of some row because the numbers given out so *)
(* far are bounded, so a table that is not empty has a greatest one.        *)

Lt == {p \in Nat \X Nat : p[1] < p[2]}

LEMMA LtWellFounded == IsWellFoundedOn(Lt, Nat)
BY NatLessThanWellFounded DEF OpToRel, Lt

LEMMA HasLast ==
    ASSUME NEW table, NEW n \in Nat, table # {}, \A x \in table : x.seq \in Nat /\ x.seq < n
    PROVE  \E x \in table : IsLast(x, table)
<1> DEFINE gaps == {n - x.seq : x \in table}
<1>1. gaps \subseteq Nat /\ gaps # {}
  OBVIOUS
<1>2. PICK m \in gaps : \A y \in gaps : <<y, m>> \notin Lt
  <2> HIDE DEF gaps
  <2> QED
    BY <1>1, LtWellFounded, WFMin
<1>3. PICK x \in table : m = n - x.seq
  BY <1>2
<1>4. ASSUME NEW y \in table PROVE y.seq <= x.seq
  <2>1. n - y.seq \in gaps /\ n - y.seq \in Nat /\ m \in Nat
    BY <1>1, <1>2
  <2>2. ~(n - y.seq < m)
    BY <1>2, <2>1 DEF Lt
  <2> QED
    BY <1>3, <2>2
<1> QED
  BY <1>3, <1>4 DEF IsLast

\* Every number in use has been given out.
NumbersGiven ==
    /\ \A x \in rows : x.seq < nextSeq
    /\ \A r \in Recorders : pc[r] = "inserted" => draft[r].seq < nextSeq

LEMMA LastHashType == TypeOK /\ NumbersGiven => LastHash(rows) \in Seq(Materials)
<1> SUFFICES ASSUME TypeOK, NumbersGiven PROVE LastHash(rows) \in Seq(Materials)
  OBVIOUS
<1>1. CASE rows = {}
  BY <1>1 DEF LastHash, Genesis
<1>2. CASE rows # {}
  <2>1. PICK x \in rows : IsLast(x, rows)
    BY <1>2, HasLast DEF TypeOK, NumbersGiven, Row
  <2>2. (CHOOSE y \in rows : IsLast(y, rows)) \in rows
    BY <2>1
  <2> QED
    BY <1>2, <2>2 DEF LastHash, TypeOK, Row, IsLast
<1> QED
  BY <1>1, <1>2

LEMMA AlteredRow ==
    ASSUME NEW x \in Row
    PROVE  [x EXCEPT !.material = NoOne] \in Row /\ [x EXCEPT !.material = NoOne].seq = x.seq
BY DEF Row, Materials

LEMMA TypeStep == TypeOK /\ NumbersGiven /\ [Next]_vars => TypeOK' /\ NumbersGiven'
<1> SUFFICES ASSUME TypeOK, NumbersGiven, [Next]_vars PROVE TypeOK' /\ NumbersGiven'
  OBVIOUS
<1> USE AuditAssumption DEF TypeOK, NumbersGiven, Goto
<1>1. ASSUME NEW r \in Recorders, Open(r) \/ Lock(r) \/ Commit(r) \/ Abort(r)
      PROVE  TypeOK' /\ NumbersGiven'
  <2>1. CASE Open(r) \/ Lock(r) \/ Abort(r)
    BY <2>1 DEF Open, Lock, Abort
  <2>2. CASE Commit(r)
    BY <2>2 DEF Commit
  <2> QED
    BY <1>1, <2>1, <2>2
<1>2. ASSUME NEW r \in Recorders, ReadPrevious(r) PROVE TypeOK' /\ NumbersGiven'
  <2>1. prevHash' \in [Recorders -> Seq(Materials)]
    BY <1>2, LastHashType DEF ReadPrevious
  <2> QED
    BY <1>2, <2>1 DEF ReadPrevious
<1>3. ASSUME NEW r \in Recorders, Insert(r) PROVE TypeOK' /\ NumbersGiven'
  <2> DEFINE d == [seq |-> nextSeq, material |-> r, prev |-> prevHash[r],
                   hash |-> Hash(r, prevHash[r])]
  <2>1. d \in Row
    BY DEF Row, Hash, Materials
  <2>2. draft' = [draft EXCEPT ![r] = d] /\ d.seq = nextSeq /\ nextSeq' = nextSeq + 1
    BY <1>3 DEF Insert
  <2>3. UNCHANGED <<rows, lock, prevHash, walk, verdict, tampered>>
        /\ pc' = [pc EXCEPT ![r] = "inserted"]
    BY <1>3 DEF Insert
  <2> HIDE DEF d
  <2>4. TypeOK'
    BY <2>1, <2>2, <2>3
  <2>5. \A q \in Recorders \ {r} : pc'[q] = pc[q] /\ draft'[q] = draft[q]
    BY <2>2, <2>3
  <2>6. (\A x \in rows : x.seq \in Nat) /\ (\A q \in Recorders : draft[q].seq \in Nat)
    BY DEF Row
  <2>7. NumbersGiven'
    BY <2>2, <2>3, <2>5, <2>6
  <2> QED
    BY <2>4, <2>7
<1>4. ASSUME NEW v \in Verifiers, VerifyAll(v) \/ VerifyEnd(v) PROVE TypeOK' /\ NumbersGiven'
  <2>1. CASE VerifyAll(v)
    <3>1. [scope |-> "all", todo |-> rows] \in [scope : Scopes \cup {"none", "all"}, todo : SUBSET Row]
      OBVIOUS
    <3>2. verdict' \in [Verifiers -> {"none", "valid", "broken"}]
      BY <2>1 DEF VerifyAll
    <3> QED
      BY <2>1, <3>1, <3>2 DEF VerifyAll
  <2>2. CASE VerifyEnd(v)
    BY <2>2 DEF VerifyEnd
  <2> QED
    BY <1>4, <2>1, <2>2
<1>5. ASSUME NEW v \in Verifiers, NEW s \in Scopes, VerifyScope(v, s)
      PROVE  TypeOK' /\ NumbersGiven'
  <2>1. {x \in rows : InScope(x, s)} \subseteq Row
    OBVIOUS
  <2> QED
    BY <1>5, <2>1 DEF VerifyScope
<1>6. ASSUME NEW v \in Verifiers, NEW x \in walk[v].todo, VerifyRow(v, x)
      PROVE  TypeOK' /\ NumbersGiven'
  <2>1. UNCHANGED <<rows, nextSeq, lock, pc, prevHash, draft, tampered>>
    BY <1>6 DEF VerifyRow
  <2> DEFINE w == [scope |-> walk[v].scope, todo |-> walk[v].todo \ {x}]
  <2>2. walk' = walk \/ walk' = [walk EXCEPT ![v] = w]
    BY <1>6 DEF VerifyRow
  <2>3. w \in [scope : Scopes \cup {"none", "all"}, todo : SUBSET Row]
    OBVIOUS
  <2>4. verdict' \in [Verifiers -> {"none", "valid", "broken"}]
    BY <1>6 DEF VerifyRow
  <2> HIDE DEF w
  <2>5. walk' \in [Verifiers -> [scope : Scopes \cup {"none", "all"}, todo : SUBSET Row]]
    BY <2>2, <2>3
  <2> QED
    BY <2>1, <2>4, <2>5
<1>7. ASSUME NEW x \in rows, Alter(x) \/ Remove(x) PROVE TypeOK' /\ NumbersGiven'
  <2> DEFINE y == [x EXCEPT !.material = NoOne]
  <2>4. y \in Row /\ y.seq = x.seq
    BY AlteredRow
  <2>5. UNCHANGED <<nextSeq, lock, pc, prevHash, draft, walk, verdict>>
        /\ tampered' = tampered \cup {x}
    BY <1>7 DEF Alter, Remove
  <2>6. rows' = (rows \ {x}) \cup {y} \/ rows' = rows \ {x}
    BY <1>7, Zenon DEF Alter, Remove
  <2> HIDE DEF y
  <2> QED
    BY <2>4, <2>5, <2>6
<1>8. CASE UNCHANGED vars
  BY <1>8 DEF vars
<1> QED
  BY <1>1, <1>2, <1>3, <1>4, <1>5, <1>6, <1>7, <1>8 DEF Next, Record, Verify

\* The type invariant, whatever is recorded, rolled back, verified or tampered with.
THEOREM TypeCorrect == Spec => []TypeOK
<1>1. Init => TypeOK /\ NumbersGiven
  BY AuditAssumption DEF Init, TypeOK, NumbersGiven, NoRow, Row, Materials, Genesis
<1> QED
  BY <1>1, TypeStep, PTL DEF Spec

-----------------------------------------------------------------------------
(* What a valid verdict proves. No row leaves the service with a hash that   *)
(* covers less than a material and the hash before it, and nobody who alters *)
(* a row can mend its hash.                                                  *)

LEMMA AppendFacts ==
    ASSUME NEW s \in Seq(Materials), NEW e \in Materials
    PROVE  /\ Len(Append(s, e)) = Len(s) + 1 /\ Len(s) \in Nat
           /\ SubSeq(Append(s, e), 1, Len(s) + 1) = Append(s, e)
           /\ Append(s, e)[Len(s) + 1] = e
           /\ \A i \in 1 .. Len(s) : /\ Append(s, e)[i] = s[i]
                                     /\ SubSeq(Append(s, e), 1, i) = SubSeq(s, 1, i)
<1> DEFINE t == Append(s, e)
<1>1. /\ Len(s) \in Nat /\ Len(t) = Len(s) + 1 /\ t \in Seq(Materials)
      /\ t[Len(s) + 1] = e /\ \A i \in 1 .. Len(s) : t[i] = s[i]
  BY AppendProperties, LenProperties
<1>2. SubSeq(t, 1, Len(t)) = t
  BY <1>1, SubSeqFull
<1>3. ASSUME NEW i \in 1 .. Len(s) PROVE SubSeq(t, 1, i) = SubSeq(s, 1, i)
  <2>1. SubSeq(t, 1, i) = [j \in 1 .. i |-> t[1 + j - 1]] /\ SubSeq(s, 1, i) = [j \in 1 .. i |-> s[1 + j - 1]]
    BY <1>1
  <2> QED BY <1>1, <2>1
<1> QED BY <1>1, <1>2, <1>3

\* The hash of a row was computed from some material that was recorded.
Hashed(x) == \E m \in Recorders : x.hash = Append(x.prev, m)

HashInv ==
    /\ TypeOK /\ NumbersGiven
    /\ \A x \in rows : Hashed(x)
    /\ \A r \in Recorders : pc[r] = "inserted" => draft[r].material = r /\ Hashed(draft[r])
    /\ TamperingIsFound

\* What a walk of the whole log shows about the rows it found sound.
Backed(table) ==
    \A x \in table :
       /\ x.material # NoOne
       /\ \A i \in DOMAIN x.prev : \E y \in table : y.hash = SubSeq(x.prev, 1, i)

LEMMA SoundMeansBacked ==
    ASSUME NEW table \in SUBSET Row, NEW n \in Nat, \A x \in table : x.seq < n /\ Hashed(x),
           \A x \in table : Sound(x, LastHash(Below(table, x.seq)))
    PROVE  Backed(table)
<1>1. ASSUME NEW x \in table PROVE x.material # NoOne
  <2>1. PICK m \in Recorders : x.hash = Append(x.prev, m)
    BY DEF Hashed
  <2>2. x.hash = Append(x.prev, x.material)
    BY DEF Sound, Hash
  <2>3. x.prev \in Seq(Materials) /\ m \in Materials /\ x.material \in Materials
    BY DEF Row, Materials
  <2>4. m = x.material
    <3>1. Append(x.prev, m)[Len(x.prev) + 1] = m
      BY <2>3, AppendProperties
    <3>2. Append(x.prev, x.material)[Len(x.prev) + 1] = x.material
      BY <2>3, AppendProperties
    <3> QED BY <2>1, <2>2, <3>1, <3>2
  <2> QED BY <2>4, AuditAssumption
<1>2. ASSUME NEW x \in table, x.prev # <<>>
      PROVE  \E y \in table : y.hash = x.prev
  <2> DEFINE low == Below(table, x.seq)
  <2>1. x.prev = LastHash(low)
    BY DEF Sound
  <2>2. low # {}
    BY <1>2, <2>1 DEF LastHash, Genesis
  <2>3. x.seq \in Nat /\ \A y \in low : y \in table /\ y.seq \in Nat /\ y.seq < x.seq
    BY DEF Below, Row
  <2> HIDE DEF low
  <2>4. \E y \in low : IsLast(y, low)
    BY <2>2, <2>3, HasLast
  <2>5. (CHOOSE y \in low : IsLast(y, low)) \in low
    BY <2>4
  <2> QED BY <2>1, <2>2, <2>3, <2>5 DEF LastHash
<1> DEFINE Lost(k) == \E x \in table : /\ Len(x.prev) = k
                                       /\ \E i \in DOMAIN x.prev :
                                             \A y \in table : y.hash # SubSeq(x.prev, 1, i)
           Bad == {k \in Nat : Lost(k)}
<1>3. Bad = {}
  <2> SUFFICES ASSUME Bad # {} PROVE FALSE
    OBVIOUS
  <2>1. PICK k \in Bad : \A j \in Bad : <<j, k>> \notin Lt
    <3>1. Bad \subseteq Nat
      OBVIOUS
    <3> HIDE DEF Bad
    <3> QED BY <3>1, LtWellFounded, WFMin
  <2>2. PICK x \in table : /\ Len(x.prev) = k
                           /\ \E i \in DOMAIN x.prev :
                                 \A y \in table : y.hash # SubSeq(x.prev, 1, i)
    OBVIOUS
  <2>3. PICK i \in DOMAIN x.prev : \A y \in table : y.hash # SubSeq(x.prev, 1, i)
    BY <2>2
  <2>4. x.prev \in Seq(Materials) /\ i \in 1 .. Len(x.prev) /\ Len(x.prev) \in Nat
    <3>1. x.prev \in Seq(Materials)
      BY DEF Row
    <3> QED BY <2>3, <3>1, LenProperties
  <2>5. x.prev # <<>>
    BY <2>4
  <2>6. PICK y \in table : y.hash = x.prev
    BY <1>2, <2>5
  <2>7. PICK m \in Recorders : y.hash = Append(y.prev, m)
    BY DEF Hashed
  <2>8. y.prev \in Seq(Materials) /\ m \in Materials
    BY DEF Row, Materials
  <2>9. /\ Len(x.prev) = Len(y.prev) + 1 /\ Len(y.prev) \in Nat
        /\ SubSeq(x.prev, 1, Len(y.prev) + 1) = x.prev
        /\ \A j \in 1 .. Len(y.prev) : SubSeq(x.prev, 1, j) = SubSeq(y.prev, 1, j)
    BY <2>6, <2>7, <2>8, AppendFacts
  <2>10. i \in 1 .. Len(y.prev)
    <3>1. i # Len(y.prev) + 1
      BY <2>3, <2>6, <2>9
    <3> QED BY <2>4, <2>9, <3>1
  <2>11. \A z \in table : z.hash # SubSeq(y.prev, 1, i)
    BY <2>3, <2>9, <2>10
  <2>12. i \in DOMAIN y.prev
    BY <2>8, <2>10, LenProperties
  <2>13. Len(y.prev) \in Bad
    BY <2>9, <2>11, <2>12
  <2>14. <<Len(y.prev), k>> \in Lt
    BY <2>2, <2>9 DEF Lt
  <2> QED BY <2>1, <2>13, <2>14
<1>4. ASSUME NEW x \in table, NEW i \in DOMAIN x.prev
      PROVE  \E y \in table : y.hash = SubSeq(x.prev, 1, i)
  <2>1. Len(x.prev) \in Nat
    BY LenProperties DEF Row
  <2> QED BY <1>3, <2>1
<1> QED BY <1>1, <1>4 DEF Backed

\* Every step keeps it. A walk of the whole log is one step, and its rows are the table then.
LEMMA HashStep == HashInv /\ [Next]_vars => HashInv'
<1> SUFFICES ASSUME HashInv, [Next]_vars PROVE HashInv'
  OBVIOUS
<1> USE DEF Goto
<1>0. TypeOK /\ NumbersGiven /\ TypeOK' /\ NumbersGiven'
  BY TypeStep DEF HashInv
<1> DEFINE Drafted == \A r \in Recorders : pc[r] = "inserted" => draft[r].material = r /\ Hashed(draft[r])
<1>1. TamperingIsFound <=> \A v \in Verifiers :
                              walk[v].scope = "all" /\ verdict[v] = "valid" => Backed(walk[v].todo)
  BY DEF TamperingIsFound, Backed
<1>2. ASSUME UNCHANGED <<walk, verdict>> PROVE TamperingIsFound'
  BY <1>2 DEF HashInv, TamperingIsFound
<1>3. ASSUME NEW r \in Recorders, Open(r) \/ Lock(r) \/ ReadPrevious(r) \/ Abort(r) PROVE HashInv'
  <2>1. UNCHANGED <<rows, draft, walk, verdict>>
    BY <1>3 DEF Open, Lock, ReadPrevious, Abort
  <2>2. \A q \in Recorders : pc'[q] = "inserted" => pc[q] = "inserted"
    BY <1>0, <1>3 DEF Open, Lock, ReadPrevious, Abort, TypeOK
  <2> QED BY <1>0, <1>2, <2>1, <2>2 DEF HashInv, Hashed
<1>4. ASSUME NEW r \in Recorders, Insert(r) PROVE HashInv'
  <2>1. UNCHANGED <<rows, walk, verdict>>
    BY <1>4 DEF Insert
  <2>2. /\ draft'[r].material = r /\ draft'[r].hash = Append(draft'[r].prev, r)
        /\ \A q \in Recorders \ {r} : pc'[q] = pc[q] /\ draft'[q] = draft[q]
    BY <1>0, <1>4 DEF Insert, TypeOK, Hash
  <2>3. ASSUME NEW q \in Recorders, pc'[q] = "inserted"
        PROVE  draft'[q].material = q /\ Hashed(draft'[q])
    <3>1. CASE q = r
      BY <2>2, <3>1 DEF Hashed
    <3>2. CASE q # r
      BY <2>2, <2>3, <3>2 DEF HashInv
    <3> QED BY <3>1, <3>2
  <2>4. \A x \in rows' : Hashed(x)
    BY <2>1 DEF HashInv
  <2> QED BY <1>0, <1>2, <2>1, <2>3, <2>4 DEF HashInv, Hashed
<1>5. ASSUME NEW r \in Recorders, Commit(r) PROVE HashInv'
  <2>1. /\ rows' = rows \cup {draft[r]} /\ pc[r] = "inserted"
        /\ UNCHANGED <<draft, walk, verdict>>
        /\ \A q \in Recorders : pc'[q] = "inserted" => pc[q] = "inserted"
    BY <1>0, <1>5 DEF Commit, TypeOK
  <2> QED BY <1>0, <1>2, <2>1 DEF HashInv, Hashed
<1>6. ASSUME NEW v \in Verifiers, VerifyAll(v) PROVE HashInv'
  <2>1. UNCHANGED <<rows, pc, draft>>
    BY <1>6 DEF VerifyAll
  <2>2. /\ walk'[v].todo = rows
        /\ verdict'[v] = "valid" => \A x \in rows : Sound(x, LastHash(Below(rows, x.seq)))
        /\ \A w \in Verifiers \ {v} : walk'[w] = walk[w] /\ verdict'[w] = verdict[w]
    BY <1>0, <1>6 DEF VerifyAll, TypeOK
  <2>3. verdict'[v] = "valid" => Backed(rows)
    <3>1. rows \in SUBSET Row /\ nextSeq \in Nat /\ \A x \in rows : x.seq < nextSeq /\ Hashed(x)
      BY <1>0 DEF TypeOK, NumbersGiven, HashInv
    <3> QED BY <2>2, <3>1, SoundMeansBacked
  <2>4. \A w \in Verifiers : walk'[w].scope = "all" /\ verdict'[w] = "valid" => Backed(walk'[w].todo)
    <3> SUFFICES ASSUME NEW w \in Verifiers, walk'[w].scope = "all", verdict'[w] = "valid"
                 PROVE  Backed(walk'[w].todo)
      OBVIOUS
    <3>1. CASE w = v
      BY <2>2, <2>3, <3>1
    <3>2. CASE w # v
      BY <1>1, <2>2, <3>2 DEF HashInv
    <3> QED BY <3>1, <3>2
  <2>5. TamperingIsFound'
    BY <2>4 DEF TamperingIsFound, Backed
  <2> QED BY <1>0, <2>1, <2>5 DEF HashInv, Hashed
<1>7. ASSUME NEW v \in Verifiers, UNCHANGED <<rows, pc, draft>>, walk'[v].scope # "all",
             \A w \in Verifiers \ {v} : walk'[w] = walk[w] /\ verdict'[w] = verdict[w]
      PROVE  HashInv'
  <2>1. \A w \in Verifiers : walk'[w].scope = "all" /\ verdict'[w] = "valid" => Backed(walk'[w].todo)
    BY <1>1, <1>7 DEF HashInv
  <2>2. TamperingIsFound'
    BY <2>1 DEF TamperingIsFound, Backed
  <2> QED BY <1>0, <1>7, <2>2 DEF HashInv, Hashed
<1>8. ASSUME NEW v \in Verifiers, NEW s \in Scopes, VerifyScope(v, s) PROVE HashInv'
  <2>1. /\ UNCHANGED <<rows, pc, draft>> /\ walk'[v].scope = s
        /\ \A w \in Verifiers \ {v} : walk'[w] = walk[w] /\ verdict'[w] = verdict[w]
    BY <1>0, <1>8 DEF VerifyScope, TypeOK
  <2> QED BY <1>7, <2>1, AuditAssumption
<1>9. ASSUME NEW v \in Verifiers, VerifyEnd(v) \/ \E x \in walk[v].todo : VerifyRow(v, x)
      PROVE  HashInv'
  <2>1. walk[v].scope \in Scopes /\ UNCHANGED <<rows, pc, draft>>
    BY <1>9 DEF VerifyEnd, VerifyRow
  <2>2. /\ walk'[v].scope = walk[v].scope
        /\ \A w \in Verifiers \ {v} : walk'[w] = walk[w] /\ verdict'[w] = verdict[w]
    <3>1. CASE VerifyEnd(v)
      BY <1>0, <3>1 DEF VerifyEnd, TypeOK
    <3>2. ASSUME NEW x \in walk[v].todo, VerifyRow(v, x)
          PROVE  /\ walk'[v].scope = walk[v].scope
                 /\ \A w \in Verifiers \ {v} : walk'[w] = walk[w] /\ verdict'[w] = verdict[w]
      BY <1>0, <3>2 DEF VerifyRow, TypeOK
    <3> QED BY <1>9, <3>1, <3>2
  <2> QED BY <1>7, <2>1, <2>2, AuditAssumption
<1>10. ASSUME NEW x \in rows, Alter(x) \/ Remove(x) PROVE HashInv'
  <2> DEFINE y == [x EXCEPT !.material = NoOne]
  <2>1. UNCHANGED <<pc, draft, walk, verdict>>
    BY <1>10 DEF Alter, Remove
  <2>2. rows' = (rows \ {x}) \cup {y} \/ rows' = rows \ {x}
    BY <1>10, Zenon DEF Alter, Remove
  <2>3. y.hash = x.hash /\ y.prev = x.prev
    BY <1>0 DEF TypeOK, Row
  <2>4. Hashed(y)
    BY <2>3 DEF HashInv, Hashed
  <2> HIDE DEF y
  <2>5. \A z \in rows' : Hashed(z)
    BY <2>2, <2>4 DEF HashInv
  <2> QED BY <1>0, <1>2, <2>1, <2>5 DEF HashInv, Hashed
<1>11. CASE UNCHANGED vars
  BY <1>0, <1>2, <1>11 DEF vars, HashInv, Hashed
<1> QED
  BY <1>3, <1>4, <1>5, <1>6, <1>8, <1>9, <1>10, <1>11 DEF Next, Record, Verify

\* Whatever is altered or taken out of the middle, and whenever, a walk of the whole log that
\* answers valid has before it every row its hashes cover, unaltered.
THEOREM TamperingShows == Spec => []TamperingIsFound
<1>1. Init => HashInv
  <2> SUFFICES ASSUME Init PROVE HashInv
    OBVIOUS
  <2>1. TypeOK /\ NumbersGiven
    BY AuditAssumption DEF Init, TypeOK, NumbersGiven, NoRow, Row, Materials, Genesis
  <2> QED BY <2>1 DEF Init, HashInv, TamperingIsFound
<1>2. HashInv => TamperingIsFound
  BY DEF HashInv
<1> QED
  BY <1>1, <1>2, HashStep, PTL DEF Spec

-----------------------------------------------------------------------------
(* The refinement. While nobody tampers, the hash of the last row lists whom *)
(* the log has recorded, and those are done: nobody is recorded twice.       *)

LogInv ==
    tampered = {} => \A x \in rows : \A i \in DOMAIN x.hash :
                        x.hash[i] \in Recorders /\ pc[x.hash[i]] = "done"

\* The last row of a table that is not empty is one of its rows.
LEMMA LastRow ==
    ASSUME TypeOK, NumbersGiven, rows # {}
    PROVE  \E x \in rows : LastHash(rows) = x.hash
<1>1. PICK x \in rows : IsLast(x, rows)
  BY HasLast DEF TypeOK, NumbersGiven, Row
<1>2. (CHOOSE y \in rows : IsLast(y, rows)) \in rows
  BY <1>1
<1> QED BY <1>2 DEF LastHash

\* A commit appends its entry, for the first time.
LEMMA CommitAppends ==
    ASSUME IInv, HashInv, LogInv, tampered = {}, NEW r \in Recorders, Commit(r)
    PROVE  /\ LastHash(rows') = Append(LastHash(rows), r)
           /\ draft[r].hash = Append(LastHash(rows), r)
           /\ LastHash(rows) \in Seq(Materials)
           /\ \A i \in DOMAIN LastHash(rows) :
                 LastHash(rows)[i] \in Recorders /\ pc[LastHash(rows)[i]] = "done"
<1> DEFINE d == draft[r]
<1>1. rows' = rows \cup {d} /\ pc[r] = "inserted"
  BY DEF Commit
<1>2. /\ d.seq \in Nat /\ \A x \in rows : x.seq \in Nat /\ x.seq < d.seq
      /\ Sound(d, LastHash(rows)) /\ d.material = r
  BY <1>1 DEF IInv, Untouched, SeqInv, ReadInv, HashInv
<1>3. d.hash = Append(LastHash(rows), r)
  BY <1>2 DEF Sound, Hash
<1>4. LastHash(rows') = d.hash
  <2> HIDE DEF d
  <2>1. IsLast(d, rows \cup {d}) /\ \A y \in rows \cup {d} : IsLast(y, rows \cup {d}) => y = d
    BY <1>2 DEF IsLast
  <2>2. (CHOOSE y \in rows \cup {d} : IsLast(y, rows \cup {d})) = d
    BY <2>1
  <2> QED BY <1>1, <2>2 DEF LastHash
<1>5. LastHash(rows) \in Seq(Materials)
  BY LastHashType DEF HashInv
<1>6. \A i \in DOMAIN LastHash(rows) :
         LastHash(rows)[i] \in Recorders /\ pc[LastHash(rows)[i]] = "done"
  <2>1. CASE rows = {}
    <3>1. LastHash(rows) = <<>>
      BY <2>1 DEF LastHash, Genesis
    <3> QED BY <3>1
  <2>2. CASE rows # {}
    BY <2>2, LastRow DEF LogInv, HashInv
  <2> QED BY <2>1, <2>2
<1> QED BY <1>3, <1>4, <1>5, <1>6

\* Every step keeps it.
LEMMA LogStep == IInv /\ HashInv /\ LogInv /\ [Next]_vars => LogInv'
<1> SUFFICES ASSUME IInv, HashInv, LogInv, [Next]_vars, tampered' = {} PROVE LogInv'
  BY DEF LogInv
<1>0. tampered = {} /\ TypeOK
  BY TamperedStays DEF HashInv
<1>1. ASSUME rows' = rows, \A q \in Recorders : pc[q] = "done" => pc'[q] = "done" PROVE LogInv'
  BY <1>0, <1>1 DEF LogInv
<1>2. ASSUME NEW r \in Recorders, Open(r) \/ Lock(r) \/ ReadPrevious(r) \/ Insert(r) \/ Abort(r)
      PROVE  LogInv'
  <2>1. rows' = rows /\ \A q \in Recorders : pc[q] = "done" => pc'[q] = "done"
    BY <1>0, <1>2 DEF Open, Lock, ReadPrevious, Insert, Abort, Goto, TypeOK
  <2> QED BY <1>1, <2>1
<1>3. ASSUME NEW r \in Recorders, Commit(r) PROVE LogInv'
  <2> DEFINE l == LastHash(rows)
             d == draft[r]
  <2>1. /\ rows' = rows \cup {d}
        /\ \A q \in Recorders : pc[q] = "done" => pc'[q] = "done"
        /\ pc'[r] = "done"
    BY <1>0, <1>3 DEF Commit, Goto, TypeOK
  <2>2. /\ d.hash = Append(l, r) /\ l \in Seq(Materials)
        /\ \A i \in DOMAIN l : l[i] \in Recorders /\ pc[l[i]] = "done"
    BY <1>0, <1>3, CommitAppends
  <2> HIDE DEF l, d
  <2>3. \A i \in DOMAIN d.hash : d.hash[i] \in Recorders /\ pc'[d.hash[i]] = "done"
    <3>1. r \in Materials
      BY DEF Materials
    <3>2. /\ Append(l, r) \in Seq(Materials) /\ Len(Append(l, r)) = Len(l) + 1 /\ Len(l) \in Nat
          /\ Append(l, r)[Len(l) + 1] = r /\ \A i \in 1 .. Len(l) : Append(l, r)[i] = l[i]
      BY <2>2, <3>1, AppendProperties, LenProperties
    <3>3. DOMAIN Append(l, r) = 1 .. Len(l) + 1 /\ DOMAIN l = 1 .. Len(l)
      BY <2>2, <3>2, LenProperties
    <3> QED BY <2>1, <2>2, <3>2, <3>3
  <2> QED BY <1>0, <2>1, <2>3 DEF LogInv
<1>4. ASSUME NEW v \in Verifiers, Verify(v) PROVE LogInv'
  <2>1. UNCHANGED <<rows, pc>>
    BY <1>4 DEF Verify, VerifyAll, VerifyEnd, VerifyScope, VerifyRow
  <2> QED BY <1>1, <2>1
<1>5. ASSUME NEW x \in rows, Alter(x) \/ Remove(x) PROVE FALSE
  BY <1>5 DEF Alter, Remove
<1>6. CASE UNCHANGED vars
  BY <1>1, <1>6 DEF vars
<1> QED BY <1>2, <1>3, <1>4, <1>5, <1>6 DEF Next, Record

\* A step appends one entry that was not in the log, or leaves the log as it is.
LEMMA LogGrows ==
    IInv /\ HashInv /\ LogInv /\ [Next]_vars => [tampered' = {} => TheLog!Next]_(LastHash(rows))
<1> SUFFICES ASSUME IInv, HashInv, LogInv, [Next]_vars, tampered' = {}
             PROVE  TheLog!Next \/ LastHash(rows)' = LastHash(rows)
  OBVIOUS
<1>0. tampered = {} /\ TypeOK
  BY TamperedStays DEF HashInv
<1>1. ASSUME rows' = rows PROVE LastHash(rows)' = LastHash(rows)
  BY <1>1
<1>2. ASSUME NEW r \in Recorders, Commit(r) PROVE TheLog!Next
  <2>1. /\ LastHash(rows)' = Append(LastHash(rows), r)
        /\ \A i \in DOMAIN LastHash(rows) : pc[LastHash(rows)[i]] = "done"
    BY <1>0, <1>2, CommitAppends
  <2>2. pc[r] = "inserted"
    BY <1>2 DEF Commit
  <2>3. ~TheLog!Recorded(r)
    BY <2>1, <2>2 DEF TheLog!Recorded
  <2> QED BY <2>1, <2>3 DEF TheLog!Next, TheLog!Append1
<1>3. ASSUME NEW r \in Recorders, Open(r) \/ Lock(r) \/ ReadPrevious(r) \/ Insert(r) \/ Abort(r)
      PROVE  rows' = rows
  BY <1>3 DEF Open, Lock, ReadPrevious, Insert, Abort
<1>4. ASSUME NEW v \in Verifiers, Verify(v) PROVE rows' = rows
  BY <1>4 DEF Verify, VerifyAll, VerifyEnd, VerifyScope, VerifyRow
<1>5. ASSUME NEW x \in rows, Alter(x) \/ Remove(x) PROVE FALSE
  BY <1>5 DEF Alter, Remove
<1>6. CASE UNCHANGED vars
  BY <1>1, <1>6 DEF vars
<1> QED BY <1>1, <1>2, <1>3, <1>4, <1>5, <1>6 DEF Next, Record

\* The refinement: while nobody tampers with the table, processes that record at once, with
\* transactions rolled back anywhere, write one append-only log.
THEOREM OneLog == Spec => ImplementsLog
<1>1. Init => TheLog!Init
  BY DEF Init, LastHash, Genesis, TheLog!Init
<1>2. Init => HashInv /\ LogInv
  <2> SUFFICES ASSUME Init PROVE HashInv /\ LogInv
    OBVIOUS
  <2>1. TypeOK /\ NumbersGiven
    BY AuditAssumption DEF Init, TypeOK, NumbersGiven, NoRow, Row, Materials, Genesis
  <2> QED BY <2>1 DEF Init, HashInv, TamperingIsFound, LogInv
<1> QED
  BY <1>1, <1>2, InitIInv, InductiveStep, HashStep, LogStep, LogGrows, PTL DEF Spec, ImplementsLog
=============================================================================
