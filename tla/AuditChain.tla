----------------------------- MODULE AuditChain -----------------------------
(***************************************************************************)
(* apps/api/src/audit/service.ts: the hash chain of AuditLog. Each call of *)
(* record opens a transaction, takes a transaction-scoped advisory lock,   *)
(* reads the row with the greatest seq, and inserts a row whose hash       *)
(* covers that row's hash. verifyChain recomputes the chain while others   *)
(* keep recording. The hash is ideal: it determines everything it covers,  *)
(* so it is represented by the sequence of the materials hashed so far.    *)
(***************************************************************************)
EXTENDS Naturals, Sequences

CONSTANTS
    Recorders,   \* calls of record; each writes one entry, named after it
    Verifiers,   \* calls of verifyChain
    Scopes, ScopeOf,  \* the entity each entry is about
    NoOne,       \* no lock holder, the material of an altered row
    Tampering    \* may rows be altered or removed behind the service's back?

ASSUME AuditAssumption ==
    /\ NoOne \notin Recorders
    /\ ScopeOf \in [Recorders -> Scopes]
    /\ "all" \notin Scopes
    /\ Tampering \in BOOLEAN

VARIABLES
    rows,      \* the committed rows
    nextSeq,   \* the sequence behind AuditLog.seq: it never goes back
    lock,      \* who holds pg_advisory_xact_lock
    pc,        \* pc[r]: how far recorder r got
    prevHash,  \* prevHash[r]: the hash r read
    draft,     \* draft[r]: the row r has inserted and not committed
    walk,      \* walk[v]: what verifier v does, over which rows
    verdict,   \* verdict[v]: its answer
    tampered   \* rows as they were when somebody altered or removed them

vars == <<rows, nextSeq, lock, pc, prevHash, draft, walk, verdict, tampered>>

Genesis == <<>>
Hash(material, prev) == Append(prev, material)
NoRow == [seq |-> 0, material |-> NoOne, prev |-> Genesis, hash |-> Genesis]

Materials == Recorders \cup {NoOne}
Row == [seq : Nat, material : Materials, prev : Seq(Materials), hash : Seq(Materials)]

\* findFirst(where seq < s, orderBy seq desc) over a set of rows.
Below(table, s) == {x \in table : x.seq < s}
IsLast(x, table) == x \in table /\ \A y \in table : y.seq <= x.seq
LastHash(table) == IF table = {} THEN Genesis
                   ELSE (CHOOSE x \in table : IsLast(x, table)).hash

TypeOK ==
    /\ rows \subseteq Row
    /\ nextSeq \in Nat
    /\ lock \in Recorders \cup {NoOne}
    /\ pc \in [Recorders -> {"idle", "waiting", "locked", "read", "inserted", "done", "aborted"}]
    /\ prevHash \in [Recorders -> Seq(Materials)]
    /\ draft \in [Recorders -> Row]
    /\ walk \in [Verifiers -> [scope : Scopes \cup {"none", "all"}, todo : SUBSET Row]]
    /\ verdict \in [Verifiers -> {"none", "valid", "broken"}]
    /\ tampered \subseteq Row

Init ==
    /\ rows = {}
    /\ nextSeq = 1
    /\ lock = NoOne
    /\ pc = [r \in Recorders |-> "idle"]
    /\ prevHash = [r \in Recorders |-> Genesis]
    /\ draft = [r \in Recorders |-> NoRow]
    /\ walk = [v \in Verifiers |-> [scope |-> "none", todo |-> {}]]
    /\ verdict = [v \in Verifiers |-> "none"]
    /\ tampered = {}

-----------------------------------------------------------------------------
Goto(r, place) == pc' = [pc EXCEPT ![r] = place]

\* record: BEGIN.
Open(r) ==
    /\ pc[r] = "idle"
    /\ Goto(r, "waiting")
    /\ UNCHANGED <<rows, nextSeq, lock, prevHash, draft, walk, verdict, tampered>>

\* Variant: no advisory lock, as with the fakes that have no $transaction.
LockNever(r) ==
    /\ pc[r] = "waiting"
    /\ Goto(r, "locked")
    /\ UNCHANGED <<rows, nextSeq, lock, prevHash, draft, walk, verdict, tampered>>

\* SELECT pg_advisory_xact_lock
Lock(r) ==
    /\ pc[r] = "waiting"
    /\ lock = NoOne
    /\ lock' = r
    /\ Goto(r, "locked")
    /\ UNCHANGED <<rows, nextSeq, prevHash, draft, walk, verdict, tampered>>

\* append: the previous row is the committed one with the greatest seq.
ReadPrevious(r) ==
    /\ pc[r] = "locked"
    /\ prevHash' = [prevHash EXCEPT ![r] = LastHash(rows)]
    /\ Goto(r, "read")
    /\ UNCHANGED <<rows, nextSeq, lock, draft, walk, verdict, tampered>>

\* append: auditLog.create. The sequence gives out seq at once, for good.
Insert(r) ==
    /\ pc[r] = "read"
    /\ draft' = [draft EXCEPT ![r] = [seq |-> nextSeq, material |-> r, prev |-> prevHash[r],
                                      hash |-> Hash(r, prevHash[r])]]
    /\ nextSeq' = nextSeq + 1
    /\ Goto(r, "inserted")
    /\ UNCHANGED <<rows, lock, prevHash, walk, verdict, tampered>>

\* Variant: the transaction does not end, so the lock is never given back.
CommitKeepsLock(r) ==
    /\ pc[r] = "inserted"
    /\ rows' = rows \cup {draft[r]}
    /\ Goto(r, "done")
    /\ UNCHANGED <<nextSeq, lock, prevHash, draft, walk, verdict, tampered>>

\* COMMIT: the row becomes visible and the lock is released with it.
Commit(r) ==
    /\ pc[r] = "inserted"
    /\ rows' = rows \cup {draft[r]}
    /\ lock' = NoOne
    /\ Goto(r, "done")
    /\ UNCHANGED <<nextSeq, prevHash, draft, walk, verdict, tampered>>

\* The transaction times out, a call of it fails or the process dies: ROLLBACK
\* frees the lock, the row was never visible, its seq stays a gap.
Abort(r) ==
    /\ pc[r] \in {"waiting", "locked", "read", "inserted"}
    /\ lock' = IF lock = r THEN NoOne ELSE lock
    /\ Goto(r, "aborted")
    /\ UNCHANGED <<rows, nextSeq, prevHash, draft, walk, verdict, tampered>>

-----------------------------------------------------------------------------
\* Variant: the loop only follows the links and recomputes no hash.
SoundLinkOnly(x, expectedPrev) == x.prev = expectedPrev

\* The comparison in the loop of verifyChain.
Sound(x, expectedPrev) == x.prev = expectedPrev /\ x.hash = Hash(x.material, x.prev)

\* verifyChain() without a scope: one query, and the loop has no await in it.
VerifyAll(v) ==
    /\ verdict[v] = "none"
    /\ walk[v].scope = "none"
    /\ walk' = [walk EXCEPT ![v] = [scope |-> "all", todo |-> rows]]
    /\ verdict' = [verdict EXCEPT ![v] =
                     IF \A x \in rows : Sound(x, LastHash(Below(rows, x.seq)))
                     THEN "valid" ELSE "broken"]
    /\ UNCHANGED <<rows, nextSeq, lock, pc, prevHash, draft, tampered>>

\* verifyChain(entity): one query for the rows of the scope ...
InScope(x, s) == x.material # NoOne /\ ScopeOf[x.material] = s

VerifyScope(v, s) ==
    /\ verdict[v] = "none"
    /\ walk[v].scope = "none"
    /\ walk' = [walk EXCEPT ![v] = [scope |-> s, todo |-> {x \in rows : InScope(x, s)}]]
    /\ UNCHANGED <<rows, nextSeq, lock, pc, prevHash, draft, verdict, tampered>>

\* Variant: a scoped walk starts from nothing, as the walk of the whole log does.
VerifyRowFromGenesis(v, x) ==
    /\ verdict[v] = "none"
    /\ walk[v].scope \in Scopes
    /\ x \in walk[v].todo
    /\ \A y \in walk[v].todo : x.seq <= y.seq
    /\ IF Sound(x, LastHash(Below({y \in rows : InScope(y, walk[v].scope)}, x.seq)))
       THEN /\ walk' = [walk EXCEPT ![v].todo = @ \ {x}]
            /\ UNCHANGED verdict
       ELSE /\ verdict' = [verdict EXCEPT ![v] = "broken"]
            /\ UNCHANGED walk
    /\ UNCHANGED <<rows, nextSeq, lock, pc, prevHash, draft, tampered>>

\* ... and one more query per row, for the row that precedes it in the whole log.
VerifyRow(v, x) ==
    /\ verdict[v] = "none"
    /\ walk[v].scope \in Scopes
    /\ x \in walk[v].todo
    /\ \A y \in walk[v].todo : x.seq <= y.seq
    /\ IF Sound(x, LastHash(Below(rows, x.seq)))
       THEN /\ walk' = [walk EXCEPT ![v].todo = @ \ {x}]
            /\ UNCHANGED verdict
       ELSE /\ verdict' = [verdict EXCEPT ![v] = "broken"]
            /\ UNCHANGED walk
    /\ UNCHANGED <<rows, nextSeq, lock, pc, prevHash, draft, tampered>>

VerifyEnd(v) ==
    /\ verdict[v] = "none"
    /\ walk[v].scope \in Scopes
    /\ walk[v].todo = {}
    /\ verdict' = [verdict EXCEPT ![v] = "valid"]
    /\ UNCHANGED <<rows, nextSeq, lock, pc, prevHash, draft, walk, tampered>>

-----------------------------------------------------------------------------
\* Somebody with access to the table changes a row, or removes one.
Alter(x) ==
    /\ Tampering
    /\ x \in rows /\ x.material # NoOne
    /\ rows' = (rows \ {x}) \cup {[x EXCEPT !.material = NoOne]}
    /\ tampered' = tampered \cup {x}
    /\ UNCHANGED <<nextSeq, lock, pc, prevHash, draft, walk, verdict>>

Remove(x) ==
    /\ Tampering
    /\ x \in rows
    /\ rows' = rows \ {x}
    /\ tampered' = tampered \cup {x}
    /\ UNCHANGED <<nextSeq, lock, pc, prevHash, draft, walk, verdict>>

-----------------------------------------------------------------------------
Record(r) == Open(r) \/ Lock(r) \/ ReadPrevious(r) \/ Insert(r) \/ Commit(r)

Verify(v) == \/ VerifyAll(v) \/ VerifyEnd(v)
             \/ \E s \in Scopes : VerifyScope(v, s)
             \/ \E x \in walk[v].todo : VerifyRow(v, x)

Next == \/ \E r \in Recorders : Record(r) \/ Abort(r)
        \/ \E v \in Verifiers : Verify(v)
        \/ \E x \in rows : Alter(x) \/ Remove(x)

Spec == Init /\ [][Next]_vars

\* Postgres serves waiters of a lock in turn, and a transaction that holds it
\* goes on until it commits or is rolled back.
FairSpec == /\ Spec
            /\ \A r \in Recorders : /\ SF_vars(Lock(r))
                                    /\ WF_vars(ReadPrevious(r) \/ Insert(r) \/ Commit(r))

-----------------------------------------------------------------------------
\* The lock exists so that two requests do not "both read the same previous row
\* and fork the chain" (service.ts:40-42): every row follows the one before it,
\* with gaps in seq where transactions were rolled back.
ChainIsLinear ==
    tampered = {} => \A x \in rows : Sound(x, LastHash(Below(rows, x.seq)))

\* Seen through the hash of its last row, which stands for everything before it,
\* the table is an append-only log written by all processes together, as long as
\* nobody tampers with it.
TheLog == INSTANCE AppendOnlyLog WITH Entries <- Recorders, log <- LastHash(rows)
ImplementsLog == TheLog!Init /\ [][tampered' = {} => TheLog!Next]_(LastHash(rows))

\* verifyChain never cries wolf: as long as nobody touched the table, no walk,
\* whole or scoped, reports a broken row, also while others keep recording.
NoFalseAlarm ==
    tampered = {} => \A v \in Verifiers : verdict[v] # "broken"

\* "altering any past row breaks every hash computed after it": when a walk of the
\* whole log answers valid, no row in it is altered, and everything the hashes of
\* its rows cover is there, unaltered: nothing was taken out of the middle.
TamperingIsFound ==
    \A v \in Verifiers :
        walk[v].scope = "all" /\ verdict[v] = "valid"
          => \A x \in walk[v].todo :
                /\ x.material # NoOne
                /\ \A i \in DOMAIN x.prev :
                      \E y \in walk[v].todo : y.hash = SubSeq(x.prev, 1, i)

\* No recorder waits forever: the lock comes back from every transaction.
EveryRecordEnds ==
    \A r \in Recorders : pc[r] = "waiting" ~> pc[r] \in {"done", "aborted"}
=============================================================================
