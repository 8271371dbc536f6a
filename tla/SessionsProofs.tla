--------------------------- MODULE SessionsProofs ---------------------------
(***************************************************************************)
(* Proofs about Sessions for any tabs, users, requests, handlers, and any  *)
(* number of tokens and mishaps. The invariant comes in layers, each of    *)
(* which rests on those before it: what handlers know of the token they    *)
(* work on, where tokens are spent, what a revocation has found and done,  *)
(* who waits for whom, and whom the answer to a refresh is about.          *)
(***************************************************************************)
EXTENDS Sessions, TLAPS

-----------------------------------------------------------------------------
(* What a step does to the handlers, field by field *)

OthersKept(h) == /\ handler' \in [Handlers -> Handler]
                 /\ \A g \in Handlers \ {h} : handler'[g] = handler[g]

\* h goes on to pc with the same request.
Moved(h, pc) ==
    /\ OthersKept(h)
    /\ handler'[h].pc = pc
    /\ handler'[h].op = handler[h].op /\ handler'[h].user = handler[h].user
    /\ handler'[h].token = handler[h].token
    /\ handler'[h].answer = handler[h].answer /\ handler'[h].fresh = handler[h].fresh

IsIdle(r) == /\ r.pc = "idle" /\ r.op = "login" /\ r.user = NoUser /\ r.token = 0 /\ r.members = {}
             /\ r.doomed = {} /\ r.answer = "none" /\ r.fresh = 0

\* h is done, and has perhaps answered.
Ended(h, answer, fresh) ==
    /\ OthersKept(h)
    /\ \/ IsIdle(handler'[h]) /\ ~Awaited(h)
       \/ /\ handler'[h].pc = "reply" /\ handler'[h].op = handler[h].op
          /\ handler'[h].answer = answer /\ handler'[h].fresh = fresh

\* h takes a request up.
Started(h, op, user, token) ==
    /\ OthersKept(h)
    /\ handler'[h].pc = IF op = "login" THEN "save" ELSE "consume"
    /\ handler'[h].op = op /\ handler'[h].user = user /\ handler'[h].token = token
    /\ handler'[h].members = {} /\ handler'[h].doomed = {}
    /\ handler'[h].answer = "none" /\ handler'[h].fresh = 0

LEMMA IdleType == Idle \in Handler /\ IsIdle(Idle)
BY SessionsAssumption DEF Idle, Handler, Places, Tokens, IsIdle

LEMMA GoMoves ==
    ASSUME TypeOK, NEW h \in Handlers, NEW pc \in Places, Go(h, pc)
    PROVE  /\ Moved(h, pc)
           /\ handler'[h].members = handler[h].members /\ handler'[h].doomed = handler[h].doomed
<1>1. OthersKept(h) /\ handler'[h] = [handler[h] EXCEPT !.pc = pc] /\ handler[h] \in Handler
  BY DEF TypeOK, Go, Handler, OthersKept
<1> QED
  BY <1>1 DEF Moved, Handler

LEMMA ReplyEnds ==
    ASSUME TypeOK, NEW h \in Handlers, NEW answer \in {"ok", "rejected", "unavailable"},
           NEW fresh \in 0 .. MaxTokens, Reply(h, answer, fresh)
    PROVE  Ended(h, answer, fresh)
<1> DEFINE r == [Idle EXCEPT !.pc = "reply", !.op = handler[h].op, !.answer = answer, !.fresh = fresh]
<1>1. handler[h].op \in {"login", "refresh", "logout"}
  BY DEF TypeOK, Handler
<1>2. r \in Handler /\ r.pc = "reply" /\ r.op = handler[h].op /\ r.answer = answer /\ r.fresh = fresh
  BY <1>1, IdleType DEF Handler, Places
<1>3. \/ handler' = [handler EXCEPT ![h] = Idle] /\ ~Awaited(h)
      \/ handler' = [handler EXCEPT ![h] = r]
  BY DEF Reply
<1> HIDE DEF r
<1> QED
  BY <1>2, <1>3, IdleType DEF TypeOK, Ended, OthersKept

LEMMA AsksStarts ==
    ASSUME TypeOK, NEW h \in Handlers, NEW op \in {"login", "refresh", "logout"},
           NEW user \in Users \cup {NoUser}, NEW token \in 0 .. MaxTokens,
           handler' = Asks(h, op, user, token)
    PROVE  Started(h, op, user, token)
<1> DEFINE r == [Idle EXCEPT !.pc = IF op = "login" THEN "save" ELSE "consume",
                             !.op = op, !.user = user, !.token = token]
<1>1. /\ r \in Handler /\ r.pc = (IF op = "login" THEN "save" ELSE "consume")
      /\ r.op = op /\ r.user = user /\ r.token = token
      /\ r.members = {} /\ r.doomed = {} /\ r.answer = "none" /\ r.fresh = 0
  BY IdleType DEF Handler, Places, IsIdle
<1>2. handler' = [handler EXCEPT ![h] = r]
  BY DEF Asks
<1> HIDE DEF r
<1> QED
  BY <1>1, <1>2 DEF TypeOK, Started, OthersKept

\* h is idle again and nobody is told.
Dropped(h) == OthersKept(h) /\ IsIdle(handler'[h])

LEMMA IdleDrops ==
    ASSUME TypeOK, NEW h \in Handlers, handler' = [handler EXCEPT ![h] = Idle]
    PROVE  Dropped(h)
BY IdleType DEF TypeOK, Dropped, OthersKept

-----------------------------------------------------------------------------
(* The first layer: types, and what is known of tokens and requests *)

Busy(h) == handler[h].pc \notin {"idle", "reply"}

TokensKnown ==
    /\ active \subseteq 1 .. issued /\ used \subseteq 1 .. issued /\ slipped \subseteq 1 .. issued
    /\ \A k \in 1 .. issued : owner[k] \in Users

HandlerKnown(h) ==
    /\ Busy(h) => handler[h].user \in Users
    /\ Busy(h) /\ handler[h].op = "login" => At(h, "save") /\ handler[h].token = 0
    /\ Busy(h) /\ handler[h].op # "login" =>
          handler[h].token \in 1 .. issued /\ handler[h].user = owner[handler[h].token]
    /\ handler[h].answer = "ok" => handler[h].fresh \in 1 .. issued

TabKnown(t) ==
    /\ tab[t].token \in 0 .. issued
    /\ tab[t].user # NoUser => tab[t].token # 0

KnowledgeInv == /\ TokensKnown
                /\ \A h \in Handlers : HandlerKnown(h)
                /\ \A t \in Tabs : TabKnown(t)

Core == TypeOK /\ KnowledgeInv

\* The steps of a handler, as they change its record.
\* A step that also sets one of the two sets of the record.
LEMMA DoomedMoves ==
    ASSUME TypeOK, NEW h \in Handlers, NEW pc \in Places, NEW set \in SUBSET Tokens,
           handler' = [handler EXCEPT ![h].pc = pc, ![h].doomed = set]
    PROVE  Moved(h, pc) /\ handler'[h].members = handler[h].members /\ handler'[h].doomed = set
<1> DEFINE q == [handler[h] EXCEPT !.pc = pc, !.doomed = set]
<1>1. handler[h] \in Handler
  BY DEF TypeOK
<1>2. /\ q \in Handler /\ q.pc = pc /\ q.doomed = set /\ q.members = handler[h].members
      /\ q.op = handler[h].op /\ q.user = handler[h].user /\ q.token = handler[h].token
      /\ q.answer = handler[h].answer /\ q.fresh = handler[h].fresh
  BY <1>1 DEF Handler
<1>3. handler' = [handler EXCEPT ![h] = q]
  OBVIOUS
<1> HIDE DEF q
<1> QED
  BY <1>2, <1>3 DEF TypeOK, Moved, OthersKept

LEMMA MembersMoves ==
    ASSUME TypeOK, NEW h \in Handlers, NEW pc \in Places, NEW set \in SUBSET Tokens,
           handler' = [handler EXCEPT ![h].pc = pc, ![h].members = set]
    PROVE  Moved(h, pc) /\ handler'[h].members = set /\ handler'[h].doomed = handler[h].doomed
<1> DEFINE q == [handler[h] EXCEPT !.pc = pc, !.members = set]
<1>1. handler[h] \in Handler
  BY DEF TypeOK
<1>2. /\ q \in Handler /\ q.pc = pc /\ q.members = set /\ q.doomed = handler[h].doomed
      /\ q.op = handler[h].op /\ q.user = handler[h].user /\ q.token = handler[h].token
      /\ q.answer = handler[h].answer /\ q.fresh = handler[h].fresh
  BY <1>1 DEF Handler
<1>3. handler' = [handler EXCEPT ![h] = q]
  OBVIOUS
<1> HIDE DEF q
<1> QED
  BY <1>2, <1>3 DEF TypeOK, Moved, OthersKept

LEMMA ConsumeMoves ==
    ASSUME TypeOK, NEW h \in Handlers, Consume(h)
    PROVE  /\ \/ Moved(h, "mark") /\ handler[h].token \in active
              \/ Moved(h, "lookup") /\ handler[h].token \notin active
           /\ handler'[h].members = handler[h].members /\ handler'[h].doomed = handler[h].doomed
BY GoMoves DEF Consume, Places

LEMMA MarkUsedMoves ==
    ASSUME TypeOK, NEW h \in Handlers, MarkUsed(h)
    PROVE  \/ handler[h].op = "logout" /\ Dropped(h)
           \/ handler[h].op # "logout" /\ Moved(h, "save")
BY GoMoves, IdleDrops DEF MarkUsed, Places

LEMMA LookupMoves ==
    ASSUME TypeOK, NEW h \in Handlers, Lookup(h)
    PROVE  \/ handler[h].op = "logout" /\ Dropped(h)
           \/ /\ handler[h].op # "logout" /\ Moved(h, "list") /\ handler[h].token \in used
              /\ handler'[h].doomed = {j \in active : owner[j] = owner[handler[h].token]} \ slipped
           \/ handler[h].op # "logout" /\ Ended(h, "rejected", 0)
<1> DEFINE d == {j \in active : owner[j] = owner[handler[h].token]} \ slipped
<1>1. CASE handler[h].op = "logout"
  BY <1>1, IdleDrops DEF Lookup
<1>2. CASE handler[h].op # "logout" /\ handler[h].token \in used
  <2>1. handler' = [handler EXCEPT ![h].pc = "list", ![h].doomed = d]
    BY <1>2 DEF Lookup
  <2>2. d \in SUBSET Tokens /\ "list" \in Places
    BY DEF TypeOK, Places
  <2> HIDE DEF d
  <2>3. Moved(h, "list") /\ handler'[h].doomed = d
    BY <2>1, <2>2, DoomedMoves
  <2> QED
    BY <1>2, <2>3 DEF d
<1>3. CASE handler[h].op # "logout" /\ handler[h].token \notin used
  BY <1>3, ReplyEnds, SessionsAssumption DEF Lookup
<1> QED
  BY <1>1, <1>2, <1>3

LEMMA ListTokensMoves ==
    ASSUME Core, NEW h \in Handlers, ListTokens(h)
    PROVE  /\ Moved(h, "delete")
           /\ handler'[h].members = listed[handler[h].user] /\ handler'[h].doomed = handler[h].doomed
<1> DEFINE m == listed[handler[h].user]
<1>1. m \in SUBSET Tokens /\ "delete" \in Places
  BY DEF ListTokens, Core, KnowledgeInv, HandlerKnown, TypeOK, Busy, At, Places
<1>2. handler' = [handler EXCEPT ![h].pc = "delete", ![h].members = m]
  BY DEF ListTokens
<1> HIDE DEF m
<1>3. Moved(h, "delete") /\ handler'[h].members = m /\ handler'[h].doomed = handler[h].doomed
  BY <1>1, <1>2, MembersMoves DEF Core
<1> QED
  BY <1>3 DEF m

LEMMA DeleteListedMoves ==
    ASSUME TypeOK, NEW h \in Handlers, DeleteListed(h)
    PROVE  Moved(h, "drop") /\ handler'[h].doomed = handler[h].doomed
<1>1. handler' = [handler EXCEPT ![h].pc = "drop", ![h].members = {}]
  BY DEF DeleteListed
<1>2. {} \in SUBSET Tokens /\ "drop" \in Places
  BY DEF Places
<1> QED
  BY <1>1, <1>2, MembersMoves

LEMMA DropListEnds ==
    ASSUME TypeOK, NEW h \in Handlers, DropList(h)
    PROVE  Ended(h, "rejected", 0)
BY ReplyEnds, SessionsAssumption DEF DropList

LEMMA SaveEnds ==
    ASSUME TypeOK, NEW h \in Handlers, Save(h)
    PROVE  Ended(h, "ok", issued + 1) /\ issued' = issued + 1 /\ issued + 1 \in 1 .. MaxTokens
<1>1. issued + 1 \in 1 .. MaxTokens
  BY SessionsAssumption DEF Save, TypeOK
<1>2. Reply(h, "ok", issued + 1)
  BY DEF Save
<1> QED
  BY <1>1, <1>2, ReplyEnds, SessionsAssumption DEF Save

LEMMA HandlerFailsEnds ==
    ASSUME TypeOK, NEW h \in Handlers, HandlerFails(h)
    PROVE  Ended(h, "unavailable", 0)
BY ReplyEnds, SessionsAssumption DEF HandlerFails

\* What one handler does with its record, as far as types and knowledge go.
LEMMA KnownKept ==
    ASSUME Core, NEW h \in Handlers, UNCHANGED <<issued, owner>>,
           \/ \E pc \in {"mark", "lookup", "list", "delete", "drop", "save"} :
                 Moved(h, pc) /\ Busy(h) /\ handler[h].op # "login"
           \/ Dropped(h)
           \/ \E answer \in {"rejected", "unavailable"} : Ended(h, answer, 0)
    PROVE  \A g \in Handlers : HandlerKnown(g)'
<1>1. \A g \in Handlers \ {h} : HandlerKnown(g)'
  BY DEF Moved, Dropped, Ended, OthersKept, Core, KnowledgeInv, HandlerKnown, Busy, At
<1>2. HandlerKnown(h)'
  BY DEF Moved, Dropped, Ended, IsIdle, Core, KnowledgeInv, HandlerKnown, Busy, At
<1> QED
  BY <1>1, <1>2

LEMMA CoreServe ==
    ASSUME Core, NEW h \in Handlers, Serve(h) \/ HandlerFails(h)
    PROVE  Core'
<1> USE SessionsAssumption
<1>1. CASE Consume(h)
  <2>1. Busy(h) /\ handler[h].op # "login"
    BY <1>1 DEF Consume, Core, KnowledgeInv, HandlerKnown, Busy, At
  <2>2. \A g \in Handlers : HandlerKnown(g)'
    BY <1>1, <2>1, ConsumeMoves, KnownKept DEF Consume, Core
  <2>3. handler' \in [Handlers -> Handler]
    BY <1>1, ConsumeMoves DEF Core, Moved, OthersKept
  <2> QED
    BY <1>1, <2>2, <2>3 DEF Consume, client, Core, TypeOK, KnowledgeInv, TokensKnown, TabKnown
<1>2. CASE MarkUsed(h)
  <2>1. Busy(h) /\ handler[h].op # "login"
    BY <1>2 DEF MarkUsed, Core, KnowledgeInv, HandlerKnown, Busy, At
  <2>2. \A g \in Handlers : HandlerKnown(g)'
    BY <1>2, <2>1, MarkUsedMoves, KnownKept DEF MarkUsed, Core
  <2>3. handler' \in [Handlers -> Handler]
    BY <1>2, MarkUsedMoves DEF Core, Moved, Dropped, OthersKept
  <2>4. handler[h].token \in 1 .. issued
    BY <2>1 DEF Core, KnowledgeInv, HandlerKnown
  <2>5. used' \subseteq Tokens /\ used' \subseteq 1 .. issued
    <3>1. used' = used \cup {handler[h].token}
      BY <1>2 DEF MarkUsed
    <3>2. used \subseteq 1 .. issued /\ 1 .. issued \subseteq Tokens
      BY DEF Core, TypeOK, KnowledgeInv, TokensKnown, Tokens
    <3> QED
      BY <2>4, <3>1, <3>2
  <2>6. listed' \in [Users -> SUBSET Tokens]
    BY <1>2 DEF MarkUsed, Core, TypeOK
  <2>7. UNCHANGED <<issued, owner, active, client, slipped, mishaps>>
    BY <1>2 DEF MarkUsed
  <2> QED
    BY <2>2, <2>3, <2>5, <2>6, <2>7 DEF client, Core, TypeOK, KnowledgeInv, TokensKnown, TabKnown
<1>3. CASE Lookup(h)
  <2>1. Busy(h) /\ handler[h].op # "login"
    BY <1>3 DEF Lookup, Core, KnowledgeInv, HandlerKnown, Busy, At
  <2>2. UNCHANGED <<redis, client, slipped, mishaps>>
    BY <1>3 DEF Lookup
  <2>3. \A g \in Handlers : HandlerKnown(g)'
    BY <1>3, <2>1, <2>2, LookupMoves, KnownKept DEF Core, redis
  <2>4. handler' \in [Handlers -> Handler]
    BY <1>3, LookupMoves DEF Core, Moved, Dropped, Ended, OthersKept
  <2> QED
    BY <2>2, <2>3, <2>4 DEF redis, client, Core, TypeOK, KnowledgeInv, TokensKnown, TabKnown
<1>4. CASE ListTokens(h)
  <2>1. Busy(h) /\ handler[h].op # "login"
    BY <1>4 DEF ListTokens, Core, KnowledgeInv, HandlerKnown, Busy, At
  <2>2. UNCHANGED <<redis, client, slipped, mishaps>>
    BY <1>4 DEF ListTokens
  <2>3. \A g \in Handlers : HandlerKnown(g)'
    BY <1>4, <2>1, <2>2, ListTokensMoves, KnownKept DEF redis
  <2>4. handler' \in [Handlers -> Handler]
    BY <1>4, ListTokensMoves DEF Moved, OthersKept
  <2> QED
    BY <2>2, <2>3, <2>4 DEF redis, client, Core, TypeOK, KnowledgeInv, TokensKnown, TabKnown
<1>5. CASE DeleteListed(h)
  <2>1. Busy(h) /\ handler[h].op # "login"
    BY <1>5 DEF DeleteListed, Core, KnowledgeInv, HandlerKnown, Busy, At
  <2>2. \A g \in Handlers : HandlerKnown(g)'
    BY <1>5, <2>1, DeleteListedMoves, KnownKept DEF DeleteListed, Core
  <2>3. handler' \in [Handlers -> Handler]
    BY <1>5, DeleteListedMoves DEF Core, Moved, OthersKept
  <2> QED
    BY <1>5, <2>2, <2>3 DEF DeleteListed, client, Core, TypeOK, KnowledgeInv, TokensKnown, TabKnown
<1>6. CASE DropList(h)
  <2>1. \A g \in Handlers : HandlerKnown(g)'
    BY <1>6, DropListEnds, KnownKept DEF DropList, Core
  <2>2. handler' \in [Handlers -> Handler]
    BY <1>6, DropListEnds DEF Core, Ended, OthersKept
  <2>3. listed' \in [Users -> SUBSET Tokens]
    BY <1>6 DEF DropList, Core, TypeOK
  <2>4. UNCHANGED <<issued, owner, active, used, client, slipped, mishaps>>
    BY <1>6 DEF DropList
  <2> QED
    BY <2>1, <2>2, <2>3, <2>4 DEF client, Core, TypeOK, KnowledgeInv, TokensKnown, TabKnown
<1>7. CASE Save(h)
  <2>1. /\ Ended(h, "ok", issued + 1) /\ issued' = issued + 1 /\ issued' \in 1 .. MaxTokens
        /\ handler[h].user \in Users
    BY <1>7, SaveEnds DEF Save, Core, KnowledgeInv, HandlerKnown, Busy, At
  <2>2. /\ owner' = [owner EXCEPT ![issued'] = handler[h].user]
        /\ active' = active \cup {issued'}
        /\ slipped' \subseteq slipped \cup {issued'}
        /\ listed' = [listed EXCEPT ![handler[h].user] = @ \cup {issued'}]
        /\ UNCHANGED <<used, client, mishaps>>
    BY <1>7, <2>1 DEF Save
  <2>3. TypeOK'
    BY <2>1, <2>2 DEF Core, TypeOK, client, Ended, OthersKept, Tokens
  <2>4. \A k \in 1 .. issued : owner'[k] = owner[k]
    BY <2>1, <2>2 DEF Core, TypeOK, Tokens
  <2>5. TokensKnown'
    BY <2>1, <2>2, <2>4 DEF Core, TypeOK, KnowledgeInv, TokensKnown, Tokens
  <2>6. \A g \in Handlers \ {h} : HandlerKnown(g)'
    BY <2>1, <2>4 DEF Core, TypeOK, KnowledgeInv, HandlerKnown, Ended, OthersKept, Busy, At
  <2>7. HandlerKnown(h)'
    BY <2>1 DEF HandlerKnown, Ended, IsIdle, Busy, At
  <2>8. \A t \in Tabs : TabKnown(t)'
    BY <2>1, <2>2 DEF Core, TypeOK, KnowledgeInv, TabKnown, client
  <2> QED
    BY <2>3, <2>5, <2>6, <2>7, <2>8 DEF Core, KnowledgeInv
<1>8. CASE HandlerFails(h)
  <2>1. UNCHANGED <<redis, client, slipped>> /\ mishaps' \in 0 .. MaxMishaps + 1
    BY <1>8 DEF HandlerFails, Mishap, Overtaking, Core, TypeOK
  <2>2. \A g \in Handlers : HandlerKnown(g)'
    BY <1>8, <2>1, HandlerFailsEnds, KnownKept DEF Core, redis
  <2>3. handler' \in [Handlers -> Handler]
    BY <1>8, HandlerFailsEnds DEF Core, Ended, OthersKept
  <2> QED
    BY <2>1, <2>2, <2>3 DEF redis, client, Core, TypeOK, KnowledgeInv, TokensKnown, TabKnown
<1> QED
  BY <1>1, <1>2, <1>3, <1>4, <1>5, <1>6, <1>7, <1>8 DEF Serve

\* The fields of a tab after the updates the client makes.
LEMMA EmptiedTab ==
    ASSUME NEW s \in Tab
    PROVE  LET e == Emptied(s) IN
              /\ e \in Tab /\ e.user = NoUser /\ e.token = 0 /\ e.foreign = FALSE
              /\ e.crossed = (s.flight # 0) /\ e.flight = s.flight /\ e.login = s.login
<1> DEFINE no == FALSE
           busy == (s.flight # 0)
           none == 0
<1>0. /\ no \in BOOLEAN /\ busy \in BOOLEAN
      /\ none \in 0 .. MaxTokens /\ none \in 0 .. K /\ NoUser \in Users \cup {NoUser}
  BY SessionsAssumption
<1>1. Emptied(s) = [s EXCEPT !.user = NoUser, !.token = none, !.foreign = no, !.crossed = busy]
  BY DEF Emptied
<1> HIDE DEF no, busy, none
<1>2. Emptied(s) \in Tab
  BY <1>0, <1>1 DEF Tab
<1>3. LET e == Emptied(s) IN
       /\ e.user = NoUser /\ e.token = none /\ e.foreign = no
       /\ e.crossed = busy /\ e.flight = s.flight /\ e.login = s.login
  BY <1>1 DEF Tab
<1> QED
  BY <1>2, <1>3 DEF no, busy, none

LEMMA LandedTab ==
    ASSUME NEW s \in Tab
    PROVE  LET l == Landed(s) IN
              /\ l \in Tab /\ l.user = s.user /\ l.token = s.token /\ l.foreign = s.foreign
              /\ l.crossed = FALSE /\ l.flight = 0 /\ l.login = s.login
<1> DEFINE no == FALSE
           none == 0
<1>0. no \in BOOLEAN /\ none \in 0 .. K
  BY SessionsAssumption
<1>1. Landed(s) = [s EXCEPT !.flight = none, !.crossed = no]
  BY DEF Landed
<1> HIDE DEF no, none
<1>2. Landed(s) \in Tab
  BY <1>0, <1>1 DEF Tab
<1>3. LET l == Landed(s) IN
       /\ l.user = s.user /\ l.token = s.token /\ l.foreign = s.foreign
       /\ l.crossed = no /\ l.flight = none /\ l.login = s.login
  BY <1>1 DEF Tab
<1> QED
  BY <1>2, <1>3 DEF no, none

LEMMA AwaitsLogin ==
    ASSUME NEW s \in Tab, NEW h \in 0 .. K
    PROVE  LET n == [s EXCEPT !.login = h] IN
              /\ n \in Tab /\ n.user = s.user /\ n.token = s.token /\ n.foreign = s.foreign
              /\ n.crossed = s.crossed /\ n.flight = s.flight /\ n.login = h
BY DEF Tab

LEMMA AwaitsRefresh ==
    ASSUME NEW s \in Tab, NEW h \in 0 .. K
    PROVE  LET f == [s EXCEPT !.flight = h, !.crossed = FALSE] IN
              /\ f \in Tab /\ f.user = s.user /\ f.token = s.token /\ f.foreign = s.foreign
              /\ f.crossed = FALSE /\ f.flight = h /\ f.login = s.login
<1> DEFINE no == FALSE
<1>0. no \in BOOLEAN
  OBVIOUS
<1>1. [s EXCEPT !.flight = h, !.crossed = FALSE] = [s EXCEPT !.flight = h, !.crossed = no]
  OBVIOUS
<1> HIDE DEF no
<1>2. [s EXCEPT !.flight = h, !.crossed = no] \in Tab
  BY <1>0 DEF Tab
<1>3. LET f == [s EXCEPT !.flight = h, !.crossed = no] IN
       /\ f.user = s.user /\ f.token = s.token /\ f.foreign = s.foreign
       /\ f.crossed = no /\ f.flight = h /\ f.login = s.login
  BY DEF Tab
<1> QED
  BY <1>1, <1>2, <1>3 DEF no

LEMMA NoSessionType ==
    /\ NoSession \in Tab /\ NoSession.user = NoUser /\ NoSession.token = 0 /\ NoSession.foreign = FALSE
    /\ NoSession.flight = 0 /\ NoSession.crossed = FALSE /\ NoSession.login = 0
BY SessionsAssumption DEF NoSession, Tab

-----------------------------------------------------------------------------
(* What a step does to the tabs *)

OtherTabsKept(t) == /\ tab' \in [Tabs -> Tab]
                    /\ \A s \in Tabs \ {t} : tab'[s] = tab[s]

\* The session of t as far as the store holds it.
StoreOf(t, user, token, foreign) ==
    tab'[t].user = user /\ tab'[t].token = token /\ tab'[t].foreign = foreign

\* What the client of t waits for.
WaitsFor(t, flight, crossed, login) ==
    tab'[t].flight = flight /\ tab'[t].crossed = crossed /\ tab'[t].login = login

StoreKept(t) == StoreOf(t, tab[t].user, tab[t].token, tab[t].foreign)
WaitsKept(t) == WaitsFor(t, tab[t].flight, tab[t].crossed, tab[t].login)

LEMMA LoginTab ==
    ASSUME TypeOK, NEW t \in Tabs, NEW u \in Users, Login(t, u)
    PROVE  \E h \in Handlers :
              /\ Free(h) /\ Started(h, "login", u, 0)
              /\ OtherTabsKept(t) /\ StoreKept(t) /\ WaitsFor(t, tab[t].flight, tab[t].crossed, h)
<1>1. PICK h \in Handlers : /\ Free(h)
                            /\ handler' = Asks(h, "login", u, 0)
                            /\ tab' = [tab EXCEPT ![t].login = h]
  BY DEF Login
<1>2. Started(h, "login", u, 0)
  BY <1>1, AsksStarts, SessionsAssumption
<1> DEFINE n == [tab[t] EXCEPT !.login = h]
<1>3. tab[t] \in Tab /\ h \in 0 .. K
  BY SessionsAssumption DEF TypeOK, Handlers
<1>4. /\ n \in Tab /\ n.user = tab[t].user /\ n.token = tab[t].token /\ n.foreign = tab[t].foreign
      /\ n.crossed = tab[t].crossed /\ n.flight = tab[t].flight /\ n.login = h
  BY <1>3, AwaitsLogin
<1>5. tab' = [tab EXCEPT ![t] = n]
  BY <1>1
<1> HIDE DEF n
<1> QED
  BY <1>1, <1>2, <1>4, <1>5 DEF TypeOK, OtherTabsKept, StoreKept, StoreOf, WaitsFor

LEMMA LoggedInTab ==
    ASSUME Core, NEW t \in Tabs, LoggedIn(t)
    PROVE  LET h == tab[t].login IN
           /\ h \in Handlers /\ Dropped(h) /\ At(h, "reply") /\ OtherTabsKept(t)
           /\ \/ /\ handler[h].answer # "ok"
                 /\ StoreKept(t) /\ WaitsFor(t, tab[t].flight, tab[t].crossed, 0)
              \/ /\ handler[h].answer = "ok"
                 /\ StoreOf(t, owner[handler[h].fresh], handler[h].fresh, FALSE)
                 /\ WaitsFor(t, tab[t].flight, tab[t].flight # 0, 0)
<1> DEFINE h == tab[t].login
<1>1. tab[t] \in Tab /\ h \in Handlers /\ h \in 0 .. K
  BY SessionsAssumption DEF LoggedIn, Core, TypeOK, Tab, Handlers
<1>2. Dropped(h) /\ At(h, "reply")
  BY <1>1, IdleDrops DEF LoggedIn, Core
<1>3. CASE handler[h].answer # "ok"
  <2> DEFINE n == [tab[t] EXCEPT !.login = 0]
  <2>1. 0 \in 0 .. K
    BY SessionsAssumption
  <2>2. /\ n \in Tab /\ n.user = tab[t].user /\ n.token = tab[t].token /\ n.foreign = tab[t].foreign
        /\ n.crossed = tab[t].crossed /\ n.flight = tab[t].flight /\ n.login = 0
    BY <1>1, <2>1, AwaitsLogin
  <2>3. tab' = [tab EXCEPT ![t] = n]
    BY <1>3 DEF LoggedIn
  <2> HIDE DEF n
  <2>4. OtherTabsKept(t) /\ StoreKept(t) /\ WaitsFor(t, tab[t].flight, tab[t].crossed, 0)
    BY <2>2, <2>3 DEF Core, TypeOK, OtherTabsKept, StoreKept, StoreOf, WaitsFor
  <2> QED
    BY <1>1, <1>2, <1>3, <2>4
<1>4. CASE handler[h].answer = "ok"
  <2> DEFINE k == handler[h].fresh
             u == owner[k]
             no == FALSE
             busy == (tab[t].flight # 0)
             none == 0
             n == [tab[t] EXCEPT !.login = none, !.user = u, !.token = k, !.foreign = no, !.crossed = busy]
  <2>1. k \in 1 .. issued
    BY <1>1, <1>4 DEF Core, KnowledgeInv, HandlerKnown
  <2>2. /\ k \in 0 .. MaxTokens /\ u \in Users \cup {NoUser}
        /\ no \in BOOLEAN /\ busy \in BOOLEAN /\ none \in 0 .. K
    BY <2>1, SessionsAssumption DEF Core, TypeOK, KnowledgeInv, TokensKnown
  <2>3. tab' = [tab EXCEPT ![t] = n]
    BY <1>4 DEF LoggedIn
  <2> HIDE DEF k, u, no, busy, none
  <2>5. n \in Tab
    BY <1>1, <2>2 DEF Tab
  <2>6. /\ n.user = u /\ n.token = k /\ n.foreign = no /\ n.crossed = busy
        /\ n.flight = tab[t].flight /\ n.login = none
    BY <1>1 DEF Tab
  <2> HIDE DEF n
  <2>7. /\ OtherTabsKept(t)
        /\ tab'[t].user = u /\ tab'[t].token = k /\ tab'[t].foreign = no /\ tab'[t].crossed = busy
        /\ tab'[t].flight = tab[t].flight /\ tab'[t].login = none
    BY <2>3, <2>5, <2>6 DEF Core, TypeOK, OtherTabsKept
  <2>4. OtherTabsKept(t) /\ StoreOf(t, owner[k], k, FALSE) /\ WaitsFor(t, tab[t].flight, tab[t].flight # 0, 0)
    BY <2>7 DEF StoreOf, WaitsFor, u, no, busy, none
  <2> QED
    BY <1>1, <1>2, <1>4, <2>4 DEF k
<1> QED
  BY <1>3, <1>4

LEMMA SignOutTab ==
    ASSUME Core, NEW t \in Tabs, SignOut(t)
    PROVE  /\ \E h \in Handlers : Free(h) /\ Started(h, "logout", owner[tab[t].token], tab[t].token)
           /\ tab[t].token \in 1 .. issued
           /\ OtherTabsKept(t) /\ StoreOf(t, NoUser, 0, FALSE)
           /\ WaitsFor(t, tab[t].flight, tab[t].flight # 0, tab[t].login)
<1>1. tab[t] \in Tab /\ tab[t].token \in 1 .. issued /\ owner[tab[t].token] \in Users
      /\ tab[t].token \in 0 .. MaxTokens
  BY DEF SignOut, Core, TypeOK, KnowledgeInv, TokensKnown, TabKnown, Tab
<1>2. PICK h \in Handlers : Free(h) /\ handler' = Asks(h, "logout", owner[tab[t].token], tab[t].token)
  BY DEF SignOut
<1>3. Started(h, "logout", owner[tab[t].token], tab[t].token)
  BY <1>1, <1>2, AsksStarts DEF Core
<1>4. 0 \in 0 .. K /\ 0 \in 0 .. MaxTokens /\ FALSE \in BOOLEAN
  BY SessionsAssumption
<1> DEFINE n == Emptied(tab[t])
<1>5. /\ n \in Tab /\ n.user = NoUser /\ n.token = 0 /\ n.foreign = FALSE
      /\ n.crossed = (tab[t].flight # 0) /\ n.flight = tab[t].flight /\ n.login = tab[t].login
  BY <1>1, EmptiedTab
<1>6. tab' = [tab EXCEPT ![t] = n]
  BY DEF SignOut
<1> HIDE DEF n
<1>7. OtherTabsKept(t) /\ StoreOf(t, NoUser, 0, FALSE)
      /\ WaitsFor(t, tab[t].flight, tab[t].flight # 0, tab[t].login)
  BY <1>5, <1>6 DEF Core, TypeOK, OtherTabsKept, StoreOf, WaitsFor
<1> QED
  BY <1>1, <1>2, <1>3, <1>7

LEMMA UnauthorizedTab ==
    ASSUME Core, NEW r \in Requests, NEW t \in Tabs, Unauthorized(r, t)
    PROVE  \/ tab[t].flight # 0 /\ UNCHANGED <<handler, tab>>
           \/ /\ tab[t].flight = 0 /\ tab[t].token \in 1 .. issued
              /\ OtherTabsKept(t) /\ StoreKept(t)
              /\ \E h \in Handlers :
                    /\ Free(h) /\ Started(h, "refresh", owner[tab[t].token], tab[t].token)
                    /\ WaitsFor(t, h, FALSE, tab[t].login)
<1> SUFFICES ASSUME tab[t].flight = 0, tab[t].token # 0,
                    NEW h \in Handlers, Free(h),
                    handler' = Asks(h, "refresh", owner[tab[t].token], tab[t].token),
                    tab' = [tab EXCEPT ![t].flight = h, ![t].crossed = FALSE]
             PROVE  /\ tab[t].token \in 1 .. issued
                    /\ OtherTabsKept(t) /\ StoreKept(t)
                    /\ Started(h, "refresh", owner[tab[t].token], tab[t].token)
                    /\ WaitsFor(t, h, FALSE, tab[t].login)
  BY DEF Unauthorized
<1>1. tab[t] \in Tab /\ tab[t].token \in 1 .. issued /\ owner[tab[t].token] \in Users
      /\ tab[t].token \in 0 .. MaxTokens
  BY DEF Core, TypeOK, KnowledgeInv, TokensKnown, TabKnown, Tab
<1>2. Started(h, "refresh", owner[tab[t].token], tab[t].token)
  BY <1>1, AsksStarts DEF Core
<1>3. h \in 0 .. K
  BY SessionsAssumption DEF Handlers
<1> DEFINE n == [tab[t] EXCEPT !.flight = h, !.crossed = FALSE]
<1>4. /\ n \in Tab /\ n.user = tab[t].user /\ n.token = tab[t].token /\ n.foreign = tab[t].foreign
      /\ n.crossed = FALSE /\ n.flight = h /\ n.login = tab[t].login
  BY <1>1, <1>3, AwaitsRefresh
<1>5. tab' = [tab EXCEPT ![t] = n]
  OBVIOUS
<1> HIDE DEF n
<1> QED
  BY <1>1, <1>2, <1>4, <1>5 DEF Core, TypeOK, OtherTabsKept, StoreKept, StoreOf, WaitsFor

\* What becomes of a tab whose session expires.
LEMMA ExpiredTab ==
    ASSUME NEW s \in Tab
    PROVE  LET e == Expired(s) IN
              /\ e \in Tab /\ e.flight = s.flight /\ e.login = s.login
              /\ \/ e = s /\ s.user = NoUser
                 \/ e.user = NoUser /\ e.token = 0 /\ e.foreign = FALSE /\ e.crossed = (s.flight # 0)
BY EmptiedTab DEF Expired

LEMMA RefreshedTab ==
    ASSUME Core, NEW t \in Tabs, Refreshed(t)
    PROVE  LET h == tab[t].flight IN
           /\ h \in Handlers /\ Dropped(h) /\ At(h, "reply") /\ OtherTabsKept(t)
           /\ WaitsFor(t, 0, FALSE, tab[t].login)
           /\ \/ /\ handler[h].answer = "ok" /\ handler[h].fresh \in 1 .. issued
                 /\ StoreOf(t, tab[t].user, handler[h].fresh, tab[t].foreign \/ tab[t].crossed)
              \/ handler[h].answer # "ok" /\ StoreKept(t)
              \/ handler[h].answer # "ok" /\ StoreOf(t, NoUser, 0, FALSE)
<1> DEFINE h == tab[t].flight
           l == Landed(tab[t])
<1>1. tab[t] \in Tab /\ h \in Handlers
  BY SessionsAssumption DEF Refreshed, Core, TypeOK, Tab, Handlers
<1>2. Dropped(h) /\ At(h, "reply")
  BY <1>1, IdleDrops DEF Refreshed, Core
<1>3. /\ l \in Tab /\ l.user = tab[t].user /\ l.token = tab[t].token /\ l.foreign = tab[t].foreign
      /\ l.crossed = FALSE /\ l.flight = 0 /\ l.login = tab[t].login
  BY <1>1, LandedTab
<1>4. CASE handler[h].answer = "ok"
  <2> DEFINE k == handler[h].fresh
             b == tab[t].foreign \/ tab[t].crossed
             n == [l EXCEPT !.token = k, !.foreign = b]
  <2>1. k \in 1 .. issued
    BY <1>1, <1>4 DEF Core, KnowledgeInv, HandlerKnown
  <2>2. k \in 0 .. MaxTokens /\ b \in BOOLEAN
    BY <1>1, <2>1, SessionsAssumption DEF Core, TypeOK
  <2>3. tab' = [tab EXCEPT ![t] = n]
    BY <1>4 DEF Refreshed
  <2> HIDE DEF k, b, l
  <2>4. /\ n \in Tab /\ n.user = l.user /\ n.token = k /\ n.foreign = b
        /\ n.crossed = l.crossed /\ n.flight = l.flight /\ n.login = l.login
    BY <1>3, <2>2 DEF Tab
  <2> HIDE DEF n
  <2>5. OtherTabsKept(t) /\ WaitsFor(t, 0, FALSE, tab[t].login)
    BY <1>3, <2>3, <2>4 DEF Core, TypeOK, OtherTabsKept, WaitsFor
  <2>6. tab'[t].user = tab[t].user /\ tab'[t].token = k /\ tab'[t].foreign = b
    BY <1>3, <2>3, <2>4 DEF Core, TypeOK
  <2> QED
    BY <1>1, <1>2, <1>4, <2>1, <2>5, <2>6 DEF k, b, StoreOf
<1>5. CASE handler[h].answer = "rejected"
  <2> DEFINE n == Expired(l)
  <2>1. tab' = [tab EXCEPT ![t] = n]
    BY <1>5 DEF Refreshed
  <2> HIDE DEF l
  <2>2. /\ n \in Tab /\ n.flight = l.flight /\ n.login = l.login
        /\ \/ n = l
           \/ n.user = NoUser /\ n.token = 0 /\ n.foreign = FALSE /\ n.crossed = (l.flight # 0)
    BY <1>3, ExpiredTab
  <2> HIDE DEF n
  <2>3. OtherTabsKept(t) /\ tab'[t] = n
    BY <2>1, <2>2 DEF Core, TypeOK, OtherTabsKept
  <2>4. CASE n = l
    BY <1>1, <1>2, <1>3, <1>5, <2>3, <2>4 DEF WaitsFor, StoreKept, StoreOf
  <2>5. CASE n.user = NoUser /\ n.token = 0 /\ n.foreign = FALSE /\ n.crossed = (l.flight # 0)
    <3>1. n.crossed = FALSE
      BY <1>3, <2>5
    <3> QED
      BY <1>1, <1>2, <1>3, <1>5, <2>2, <2>3, <2>5, <3>1 DEF WaitsFor, StoreOf
  <2> QED
    BY <2>2, <2>4, <2>5
<1>6. CASE handler[h].answer = "unavailable"
  <2>1. tab' = [tab EXCEPT ![t] = l]
    BY <1>6 DEF Refreshed
  <2> HIDE DEF l
  <2>2. OtherTabsKept(t) /\ WaitsFor(t, 0, FALSE, tab[t].login) /\ StoreKept(t)
    BY <1>3, <2>1 DEF Core, TypeOK, OtherTabsKept, WaitsFor, StoreKept, StoreOf
  <2> QED
    BY <1>1, <1>2, <1>6, <2>2
<1> QED
  BY <1>4, <1>5, <1>6 DEF Refreshed

LEMMA RetryRefusedTab ==
    ASSUME Core, NEW r \in Requests, RetryRefused(r)
    PROVE  \/ tab' = tab
           \/ LET t == request[r].tab IN
              /\ t \in Tabs /\ OtherTabsKept(t) /\ StoreOf(t, NoUser, 0, FALSE)
              /\ WaitsFor(t, tab[t].flight, tab[t].flight # 0, tab[t].login)
<1> DEFINE t == request[r].tab
           n == Expired(tab[t])
<1>1. tab' = [tab EXCEPT ![t] = n]
  BY DEF RetryRefused
<1>2. CASE t \notin Tabs
  <2>1. tab \in [Tabs -> Tab]
    BY DEF Core, TypeOK
  <2> HIDE DEF t, n
  <2>2. tab' = tab
    BY <1>1, <1>2, <2>1
  <2> QED
    BY <2>2
<1>3. CASE t \in Tabs
  <2>1. tab[t] \in Tab
    BY <1>3 DEF Core, TypeOK
  <2>2. /\ n \in Tab /\ n.flight = tab[t].flight /\ n.login = tab[t].login
        /\ \/ n = tab[t]
           \/ n.user = NoUser /\ n.token = 0 /\ n.foreign = FALSE /\ n.crossed = (tab[t].flight # 0)
    BY <2>1, ExpiredTab
  <2> HIDE DEF n
  <2>3. OtherTabsKept(t) /\ tab'[t] = n
    BY <1>1, <1>3, <2>2 DEF Core, TypeOK, OtherTabsKept
  <2>4. CASE n = tab[t]
    <3>1. tab' = tab
      BY <1>1, <1>3, <2>4 DEF Core, TypeOK
    <3> QED
      BY <3>1
  <2>5. CASE n # tab[t]
    BY <1>3, <2>2, <2>3, <2>5 DEF StoreOf, WaitsFor
  <2> QED
    BY <2>4, <2>5
<1> QED
  BY <1>2, <1>3

LEMMA TimesOutTab ==
    ASSUME Core, NEW t \in Tabs, TimesOut(t)
    PROVE  OtherTabsKept(t) /\ StoreKept(t) /\ WaitsFor(t, 0, FALSE, tab[t].login)
<1> DEFINE l == Landed(tab[t])
<1>1. /\ l \in Tab /\ l.user = tab[t].user /\ l.token = tab[t].token /\ l.foreign = tab[t].foreign
      /\ l.crossed = FALSE /\ l.flight = 0 /\ l.login = tab[t].login
  BY LandedTab DEF Core, TypeOK
<1>2. tab' = [tab EXCEPT ![t] = l]
  BY DEF TimesOut
<1> HIDE DEF l
<1> QED
  BY <1>1, <1>2 DEF Core, TypeOK, OtherTabsKept, StoreKept, StoreOf, WaitsFor

\* A fresh page with the session of tab t.
Restored(t) == [NoSession EXCEPT !.user = tab[t].user, !.token = tab[t].token, !.foreign = tab[t].foreign]

LEMMA RestoredTab ==
    ASSUME TypeOK, NEW t \in Tabs
    PROVE  LET n == Restored(t) IN
              /\ n \in Tab /\ n.user = tab[t].user /\ n.token = tab[t].token /\ n.foreign = tab[t].foreign
              /\ n.flight = 0 /\ n.crossed = FALSE /\ n.login = 0
<1> DEFINE u == tab[t].user
           k == tab[t].token
           b == tab[t].foreign
<1>1. u \in Users \cup {NoUser} /\ k \in 0 .. MaxTokens /\ b \in BOOLEAN
  BY DEF TypeOK, Tab
<1>2. Restored(t) = [NoSession EXCEPT !.user = u, !.token = k, !.foreign = b]
  BY DEF Restored
<1> HIDE DEF u, k, b
<1>3. LET n == Restored(t) IN
         /\ n \in Tab /\ n.user = u /\ n.token = k /\ n.foreign = b
         /\ n.flight = 0 /\ n.crossed = FALSE /\ n.login = 0
  BY <1>1, <1>2, NoSessionType DEF Tab
<1> QED
  BY <1>3 DEF u, k, b

LEMMA ReloadTab ==
    ASSUME Core, NEW t \in Tabs, Reload(t)
    PROVE  /\ OtherTabsKept(t) /\ WaitsFor(t, 0, FALSE, 0)
           /\ \/ (tab[t].user = NoUser \/ tab[t].token = 0) /\ StoreOf(t, NoUser, 0, FALSE)
              \/ StoreKept(t)
           /\ handler' \in [Handlers -> Handler]
           /\ \A h \in Handlers :
                 \/ handler'[h] = handler[h]
                 \/ At(h, "reply") /\ IsIdle(handler'[h]) /\ h \in {tab[t].flight, tab[t].login}
<1>1. tab[t] \in Tab
  BY DEF Core, TypeOK
<1>2. /\ handler' \in [Handlers -> Handler]
      /\ \A h \in Handlers :
            \/ handler'[h] = handler[h]
            \/ At(h, "reply") /\ IsIdle(handler'[h]) /\ h \in {tab[t].flight, tab[t].login}
  BY IdleType DEF Reload, Core, TypeOK
<1>3. CASE tab[t].user = NoUser \/ tab[t].token = 0
  <2>1. tab' = [tab EXCEPT ![t] = NoSession]
    BY <1>3 DEF Reload
  <2>2. OtherTabsKept(t) /\ WaitsFor(t, 0, FALSE, 0) /\ StoreOf(t, NoUser, 0, FALSE)
    BY <2>1, NoSessionType DEF Core, TypeOK, OtherTabsKept, WaitsFor, StoreOf
  <2> QED
    BY <1>2, <1>3, <2>2
<1>4. CASE ~(tab[t].user = NoUser \/ tab[t].token = 0)
  <2> DEFINE n == Restored(t)
  <2>1. tab' = [tab EXCEPT ![t] = n]
    BY <1>4 DEF Reload, Restored
  <2>3. /\ n \in Tab /\ n.user = tab[t].user /\ n.token = tab[t].token /\ n.foreign = tab[t].foreign
        /\ n.flight = 0 /\ n.crossed = FALSE /\ n.login = 0
    BY RestoredTab DEF Core
  <2> HIDE DEF n
  <2>4. OtherTabsKept(t) /\ WaitsFor(t, 0, FALSE, 0) /\ StoreKept(t)
    BY <2>1, <2>3 DEF Core, TypeOK, OtherTabsKept, WaitsFor, StoreKept, StoreOf
  <2> QED
    BY <1>2, <2>4
<1> QED
  BY <1>3, <1>4

LEMMA DuplicateTab ==
    ASSUME Core, NEW t \in Tabs, NEW s \in Tabs, Duplicate(t, s)
    PROVE  /\ OtherTabsKept(s) /\ WaitsFor(s, 0, FALSE, 0) /\ tab[s].flight = 0 /\ tab[s].login = 0
           /\ StoreOf(s, tab[t].user, tab[t].token, tab[t].foreign)
<1> DEFINE n == Restored(t)
<1>1. tab' = [tab EXCEPT ![s] = n] /\ tab[s] = NoSession
  BY DEF Duplicate, Restored
<1>3. /\ n \in Tab /\ n.user = tab[t].user /\ n.token = tab[t].token /\ n.foreign = tab[t].foreign
      /\ n.flight = 0 /\ n.crossed = FALSE /\ n.login = 0
  BY RestoredTab DEF Core
<1> HIDE DEF n
<1> QED
  BY <1>1, <1>3, NoSessionType DEF Core, TypeOK, OtherTabsKept, WaitsFor, StoreOf

-----------------------------------------------------------------------------
(* The first layer, in the steps of the browser *)

LEMMA StartKnown ==
    ASSUME Core, NEW h \in Handlers, UNCHANGED <<issued, owner>>,
           NEW op \in {"login", "refresh", "logout"}, NEW u \in Users, NEW k,
           Started(h, op, u, k),
           (op = "login" /\ k = 0) \/ (op # "login" /\ k \in 1 .. issued /\ u = owner[k])
    PROVE  \A g \in Handlers : HandlerKnown(g)'
<1>1. \A g \in Handlers \ {h} : HandlerKnown(g)'
  BY DEF Started, OthersKept, Core, KnowledgeInv, HandlerKnown, Busy, At
<1>2. HandlerKnown(h)'
  BY DEF Started, HandlerKnown, Busy, At
<1> QED
  BY <1>1, <1>2

\* Requests keep their shape.
LEMMA RequestSteps ==
    ASSUME TypeOK, NEW t \in Tabs
    PROVE  /\ NoRequest \in Request /\ [pc |-> "waiting", tab |-> t] \in Request
           /\ GivenUp(t) \in [Requests -> Request]
           /\ [r \in Requests |-> IF r \in Waiting(t) THEN [request[r] EXCEPT !.pc = "retried"]
                                                      ELSE request[r]] \in [Requests -> Request]
<1>1. NoRequest \in Request /\ [pc |-> "waiting", tab |-> t] \in Request
  BY DEF NoRequest, Request
<1>2. GivenUp(t) \in [Requests -> Request]
  BY <1>1 DEF GivenUp, TypeOK
<1>3. \A r \in Requests : [request[r] EXCEPT !.pc = "retried"] \in Request
  BY DEF TypeOK, Request
<1> QED
  BY <1>1, <1>2, <1>3 DEF TypeOK

\* What is left to show of a step that changes nothing in Redis.
LEMMA CoreKept ==
    ASSUME Core, UNCHANGED <<redis, slipped>>,
           handler' \in [Handlers -> Handler], \A h \in Handlers : HandlerKnown(h)',
           tab' \in [Tabs -> Tab], \A t \in Tabs : TabKnown(t)',
           request' \in [Requests -> Request], mishaps' \in 0 .. MaxMishaps + 1
    PROVE  Core'
BY DEF redis, Core, TypeOK, KnowledgeInv, TokensKnown

\* A tab that keeps its store, gets a known token or is emptied is known.
LEMMA TabsKnown ==
    ASSUME Core, issued' = issued, NEW t \in Tabs, OtherTabsKept(t),
           \/ StoreKept(t)
           \/ \E u, k, f : StoreOf(t, u, k, f) /\ k \in 1 .. issued
           \/ StoreOf(t, NoUser, 0, FALSE)
    PROVE  tab' \in [Tabs -> Tab] /\ \A s \in Tabs : TabKnown(s)'
<1>1. \A s \in Tabs \ {t} : TabKnown(s)'
  BY DEF OtherTabsKept, Core, KnowledgeInv, TabKnown
<1>2. TabKnown(t)'
  BY DEF StoreKept, StoreOf, Core, TypeOK, KnowledgeInv, TabKnown
<1> QED
  BY <1>1, <1>2 DEF OtherTabsKept

\* Handlers that are cleared, as when an answer is taken, are known.
LEMMA ClearedKnown ==
    ASSUME Core, UNCHANGED <<issued, owner>>,
           \A h \in Handlers : handler'[h] = handler[h] \/ IsIdle(handler'[h])
    PROVE  \A h \in Handlers : HandlerKnown(h)'
BY DEF IsIdle, Core, KnowledgeInv, HandlerKnown, Busy, At

LEMMA CoreBrowse ==
    ASSUME Core, Next, ~\E h \in Handlers : Serve(h) \/ HandlerFails(h)
    PROVE  Core'
<1> USE SessionsAssumption
<1>0. mishaps \in 0 .. MaxMishaps + 1 /\ TypeOK
  BY DEF Core, TypeOK
<1>1. ASSUME NEW r \in Requests, RetryAnswered(r) PROVE Core'
  <2>1. UNCHANGED <<redis, handler, tab, slipped, mishaps>> /\ request' \in [Requests -> Request]
    BY <1>1 DEF RetryAnswered, Ends, Core, TypeOK, NoRequest, Request
  <2> QED
    BY <2>1 DEF redis, Core, TypeOK, KnowledgeInv, TokensKnown, HandlerKnown, Busy, At, TabKnown
<1>2. ASSUME NEW r \in Requests, RetryRefused(r) PROVE Core'
  <2>1. UNCHANGED <<redis, handler, slipped>> /\ request' \in [Requests -> Request]
        /\ mishaps' \in 0 .. MaxMishaps + 1
    BY <1>2, <1>0 DEF RetryRefused, Ends, Mishap, TypeOK, NoRequest, Request
  <2>2. tab' \in [Tabs -> Tab] /\ \A s \in Tabs : TabKnown(s)'
    <3>1. CASE tab' = tab
      BY <2>1, <3>1 DEF redis, Core, TypeOK, KnowledgeInv, TabKnown
    <3>2. CASE tab' # tab
      BY <1>2, <2>1, <3>2, RetryRefusedTab, TabsKnown DEF redis
    <3> QED
      BY <3>1, <3>2
  <2>3. \A h \in Handlers : HandlerKnown(h)'
    BY <2>1, ClearedKnown DEF redis
  <2> QED
    BY <2>1, <2>2, <2>3, CoreKept DEF Core, TypeOK
<1>3. ASSUME NEW r \in Requests, NEW t \in Tabs, Unauthorized(r, t) PROVE Core'
  <2>1. UNCHANGED <<redis, slipped, mishaps>> /\ request' \in [Requests -> Request]
    BY <1>0, <1>3, RequestSteps DEF Unauthorized, TypeOK
  <2>2. CASE UNCHANGED <<handler, tab>>
    BY <2>1, <2>2 DEF redis, Core, TypeOK, KnowledgeInv, TokensKnown, HandlerKnown, Busy, At, TabKnown
  <2>3. CASE ~UNCHANGED <<handler, tab>>
    <3>1. PICK h \in Handlers : Started(h, "refresh", owner[tab[t].token], tab[t].token)
      BY <1>3, <2>3, UnauthorizedTab
    <3>2. OtherTabsKept(t) /\ StoreKept(t) /\ tab[t].token \in 1 .. issued
      BY <1>3, <2>3, UnauthorizedTab
    <3>3. owner[tab[t].token] \in Users
      BY <3>2 DEF Core, KnowledgeInv, TokensKnown
    <3>4. \A g \in Handlers : HandlerKnown(g)'
      BY <2>1, <3>1, <3>2, <3>3, StartKnown DEF redis
    <3>5. tab' \in [Tabs -> Tab] /\ \A s \in Tabs : TabKnown(s)'
      BY <2>1, <3>2, TabsKnown DEF redis
    <3> QED
      BY <1>0, <2>1, <3>1, <3>4, <3>5, CoreKept DEF Started, OthersKept
  <2> QED
    BY <2>2, <2>3
<1>4. ASSUME NEW t \in Tabs, LoggedIn(t) PROVE Core'
  <2>1. UNCHANGED <<redis, request, slipped>> /\ mishaps' \in 0 .. MaxMishaps + 1
    BY <1>0, <1>4 DEF LoggedIn, Overtaking
  <2>2. tab[t].login \in Handlers /\ Dropped(tab[t].login) /\ OtherTabsKept(t)
    BY <1>4, LoggedInTab
  <2>3. StoreKept(t) \/ \E u, k, f : StoreOf(t, u, k, f) /\ k \in 1 .. issued
    BY <1>4, <2>2, LoggedInTab DEF Core, KnowledgeInv, HandlerKnown
  <2>4. tab' \in [Tabs -> Tab] /\ \A s \in Tabs : TabKnown(s)'
    BY <2>1, <2>2, <2>3, TabsKnown DEF redis
  <2>5. \A h \in Handlers : HandlerKnown(h)'
    BY <2>1, <2>2, ClearedKnown DEF redis, Dropped, OthersKept
  <2> QED
    BY <2>1, <2>2, <2>4, <2>5, CoreKept DEF Core, TypeOK, Dropped, OthersKept
<1>5. ASSUME NEW t \in Tabs, SignOut(t) PROVE Core'
  <2>1. UNCHANGED <<redis, request, slipped>> /\ mishaps' \in 0 .. MaxMishaps + 1
    BY <1>0, <1>5 DEF SignOut, Overtaking
  <2>2. PICK h \in Handlers : Started(h, "logout", owner[tab[t].token], tab[t].token)
    BY <1>5, SignOutTab
  <2>3. tab[t].token \in 1 .. issued /\ OtherTabsKept(t) /\ StoreOf(t, NoUser, 0, FALSE)
    BY <1>5, SignOutTab
  <2>4. owner[tab[t].token] \in Users
    BY <2>3 DEF Core, KnowledgeInv, TokensKnown
  <2>5. \A g \in Handlers : HandlerKnown(g)'
    BY <2>1, <2>2, <2>3, <2>4, StartKnown DEF redis
  <2>6. tab' \in [Tabs -> Tab] /\ \A s \in Tabs : TabKnown(s)'
    BY <2>1, <2>3, TabsKnown DEF redis
  <2> QED
    BY <2>1, <2>2, <2>5, <2>6, CoreKept DEF Core, TypeOK, Started, OthersKept
<1>6. ASSUME NEW t \in Tabs, Refreshed(t) PROVE Core'
  <2>1. UNCHANGED <<redis, slipped, mishaps>>
    BY <1>6 DEF Refreshed
  <2>2. request' \in [Requests -> Request]
    BY <1>0, <1>6, RequestSteps DEF Refreshed
  <2>3. tab[t].flight \in Handlers /\ Dropped(tab[t].flight) /\ OtherTabsKept(t)
    BY <1>6, RefreshedTab
  <2>4. \/ StoreKept(t) \/ StoreOf(t, NoUser, 0, FALSE)
        \/ \E u, k, f : StoreOf(t, u, k, f) /\ k \in 1 .. issued
    BY <1>6, RefreshedTab
  <2>5. tab' \in [Tabs -> Tab] /\ \A s \in Tabs : TabKnown(s)'
    BY <2>1, <2>3, <2>4, TabsKnown DEF redis
  <2>6. \A h \in Handlers : HandlerKnown(h)'
    BY <2>1, <2>3, ClearedKnown DEF redis, Dropped, OthersKept
  <2> QED
    BY <1>0, <2>1, <2>2, <2>3, <2>5, <2>6, CoreKept DEF Dropped, OthersKept
<1>7. ASSUME NEW t \in Tabs, TimesOut(t) PROVE Core'
  <2>1. UNCHANGED <<redis, handler, slipped>> /\ mishaps' \in 0 .. MaxMishaps + 1
    BY <1>0, <1>7 DEF TimesOut, Mishap
  <2>2. request' \in [Requests -> Request]
    BY <1>0, <1>7, RequestSteps DEF TimesOut
  <2>3. tab' \in [Tabs -> Tab] /\ \A s \in Tabs : TabKnown(s)'
    BY <1>7, <2>1, TimesOutTab, TabsKnown DEF redis
  <2>4. \A h \in Handlers : HandlerKnown(h)'
    BY <2>1, ClearedKnown DEF redis
  <2> QED
    BY <2>1, <2>2, <2>3, <2>4, CoreKept DEF Core, TypeOK
<1>8. ASSUME NEW t \in Tabs, Reload(t) PROVE Core'
  <2>1. UNCHANGED <<redis, slipped>> /\ mishaps' \in 0 .. MaxMishaps + 1
    BY <1>0, <1>8 DEF Reload, Mishap
  <2>2. request' \in [Requests -> Request]
    BY <1>0, <1>8, RequestSteps DEF Reload, TypeOK
  <2>3. tab' \in [Tabs -> Tab] /\ \A s \in Tabs : TabKnown(s)'
    BY <1>8, <2>1, ReloadTab, TabsKnown DEF redis
  <2>4. \A h \in Handlers : HandlerKnown(h)'
    BY <1>8, <2>1, ReloadTab, ClearedKnown DEF redis
  <2>5. handler' \in [Handlers -> Handler]
    BY <1>8, ReloadTab
  <2> QED
    BY <2>1, <2>2, <2>3, <2>4, <2>5, CoreKept
<1>9. ASSUME NEW t \in Tabs, NEW u \in Users, Login(t, u) PROVE Core'
  <2>1. UNCHANGED <<redis, request, slipped, mishaps>>
    BY <1>9 DEF Login
  <2>2. PICK h \in Handlers : Started(h, "login", u, 0) /\ OtherTabsKept(t) /\ StoreKept(t)
    BY <1>0, <1>9, LoginTab
  <2>3. \A g \in Handlers : HandlerKnown(g)'
    <3>1. UNCHANGED <<issued, owner>>
      BY <2>1 DEF redis
    <3> QED
      BY <2>2, <3>1 DEF Started, OthersKept, Core, KnowledgeInv, HandlerKnown, Busy, At
  <2>4. tab' \in [Tabs -> Tab] /\ \A s \in Tabs : TabKnown(s)'
    BY <2>1, <2>2, TabsKnown DEF redis
  <2> QED
    BY <1>0, <2>1, <2>2, <2>3, <2>4, CoreKept DEF TypeOK, Started, OthersKept
<1>10. ASSUME NEW t \in Tabs, NEW s \in Tabs, Duplicate(t, s) PROVE Core'
  <2>1. UNCHANGED <<redis, handler, request, slipped>> /\ mishaps' \in 0 .. MaxMishaps + 1
    BY <1>0, <1>10 DEF Duplicate, Mishap
  <2>2. OtherTabsKept(s) /\ StoreOf(s, tab[t].user, tab[t].token, tab[t].foreign)
    BY <1>10, DuplicateTab
  <2>3. tab[t].token \in 1 .. issued
    BY <1>10 DEF Duplicate, Core, TypeOK, KnowledgeInv, TabKnown
  <2>4. tab' \in [Tabs -> Tab] /\ \A x \in Tabs : TabKnown(x)'
    BY <2>1, <2>2, <2>3, TabsKnown DEF redis
  <2>5. \A h \in Handlers : HandlerKnown(h)'
    BY <2>1, ClearedKnown DEF redis
  <2> QED
    BY <2>1, <2>4, <2>5, CoreKept DEF Core, TypeOK
<1> QED
  BY <1>1, <1>2, <1>3, <1>4, <1>5, <1>6, <1>7, <1>8, <1>9, <1>10 DEF Next

LEMMA CoreStep == Core /\ [Next]_vars => Core'
<1>1. Core /\ Next => Core'
  BY CoreServe, CoreBrowse
<1>2. Core /\ UNCHANGED vars => Core'
  BY DEF vars, redis, client, Core, TypeOK, KnowledgeInv, TokensKnown, HandlerKnown, Busy, At, TabKnown
<1> QED
  BY <1>1, <1>2

LEMMA InitCore == Init => Core
<1> SUFFICES ASSUME Init PROVE Core
  OBVIOUS
<1>1. TypeOK
  BY IdleType, NoSessionType, SessionsAssumption DEF Init, TypeOK, NoRequest, Request
<1>2. TokensKnown
  BY SessionsAssumption DEF Init, TokensKnown
<1>3. \A h \in Handlers : HandlerKnown(h)
  BY IdleType DEF Init, HandlerKnown, Busy, IsIdle
<1>4. \A t \in Tabs : TabKnown(t)
  BY NoSessionType DEF Init, TabKnown
<1> QED
  BY <1>1, <1>2, <1>3, <1>4 DEF Core, KnowledgeInv

\* The type invariant of both ends of a session.
THEOREM TypeCorrect == Spec => []TypeOK
BY InitCore, CoreStep, PTL DEF Spec, Core

-----------------------------------------------------------------------------
(* The second and third layer: spending and revoking, seen from Redis *)

\* To Redis the browser only starts and forgets requests.
Fresh(h) == \/ handler'[h].pc = "consume"
            \/ handler'[h].pc = "save" /\ handler'[h].op = "login"

LEMMA BrowserToRedis ==
    ASSUME Core, Next, ~\E h \in Handlers : Serve(h) \/ HandlerFails(h)
    PROVE  /\ UNCHANGED <<redis, slipped>>
           /\ \A h \in Handlers : \/ handler'[h] = handler[h]
                                  \/ IsIdle(handler'[h])
                                  \/ Fresh(h)
<1>1. ASSUME NEW r \in Requests, RetryAnswered(r) \/ RetryRefused(r)
      PROVE  UNCHANGED <<redis, slipped, handler>>
  BY <1>1 DEF RetryAnswered, RetryRefused
<1>2. ASSUME NEW r \in Requests, NEW t \in Tabs, Unauthorized(r, t)
      PROVE  /\ UNCHANGED <<redis, slipped>>
             /\ \A h \in Handlers : handler'[h] = handler[h] \/ Fresh(h)
  <2>1. UNCHANGED <<redis, slipped>>
    BY <1>2 DEF Unauthorized
  <2>2. \A h \in Handlers : handler'[h] = handler[h] \/ Fresh(h)
    BY <1>2, UnauthorizedTab DEF Started, OthersKept, Fresh
  <2> QED
    BY <2>1, <2>2
<1>3. ASSUME NEW t \in Tabs, LoggedIn(t) \/ Refreshed(t)
      PROVE  /\ UNCHANGED <<redis, slipped>>
             /\ \A h \in Handlers : handler'[h] = handler[h] \/ IsIdle(handler'[h])
  <2>1. UNCHANGED <<redis, slipped>>
    BY <1>3 DEF LoggedIn, Refreshed
  <2>2. CASE LoggedIn(t)
    BY <2>1, <2>2, LoggedInTab DEF Dropped, OthersKept
  <2>3. CASE Refreshed(t)
    BY <2>1, <2>3, RefreshedTab DEF Dropped, OthersKept
  <2> QED
    BY <1>3, <2>2, <2>3
<1>4. ASSUME NEW t \in Tabs, SignOut(t)
      PROVE  /\ UNCHANGED <<redis, slipped>>
             /\ \A h \in Handlers : handler'[h] = handler[h] \/ Fresh(h)
  <2>1. UNCHANGED <<redis, slipped>>
    BY <1>4 DEF SignOut
  <2>2. \A h \in Handlers : handler'[h] = handler[h] \/ Fresh(h)
    BY <1>4, SignOutTab DEF Started, OthersKept, Fresh
  <2> QED
    BY <2>1, <2>2
<1>5. ASSUME NEW t \in Tabs, NEW s \in Tabs, TimesOut(t) \/ Duplicate(t, s)
      PROVE  UNCHANGED <<redis, slipped, handler>>
  BY <1>5 DEF TimesOut, Duplicate
<1>6. ASSUME NEW t \in Tabs, Reload(t)
      PROVE  /\ UNCHANGED <<redis, slipped>>
             /\ \A h \in Handlers : handler'[h] = handler[h] \/ IsIdle(handler'[h])
  <2>1. UNCHANGED <<redis, slipped>>
    BY <1>6 DEF Reload
  <2> QED
    BY <1>6, <2>1, ReloadTab
<1>7. ASSUME NEW t \in Tabs, NEW u \in Users, Login(t, u)
      PROVE  /\ UNCHANGED <<redis, slipped>>
             /\ \A h \in Handlers : handler'[h] = handler[h] \/ Fresh(h)
  <2>1. UNCHANGED <<redis, slipped>>
    BY <1>7 DEF Login
  <2>2. \A h \in Handlers : handler'[h] = handler[h] \/ Fresh(h)
    BY <1>7, LoginTab DEF Core, Started, OthersKept, Fresh
  <2> QED
    BY <2>1, <2>2
<1> QED
  BY <1>1, <1>2, <1>3, <1>4, <1>5, <1>6, <1>7 DEF Next

\* A token is spent where it is marked, and nowhere else: it is no longer active then
\* and not yet used, nobody else marks it, and what a refresh saves replaces a used one.
SpendingInv ==
    /\ active \cap used = {}
    /\ \A h \in Handlers : At(h, "mark") => handler[h].token \notin active \cup used
    /\ \A h, g \in Handlers : h # g /\ At(h, "mark") /\ At(g, "mark") => handler[h].token # handler[g].token
    /\ \A h \in Handlers : At(h, "save") /\ handler[h].op # "login" => handler[h].token \in used

\* No step below adds to active or used, but may end or move a handler.
LEMMA SpendingKept ==
    ASSUME SpendingInv, used' = used, active' \subseteq active,
           \A h \in Handlers : \/ handler'[h] = handler[h]
                               \/ handler'[h].pc \notin {"mark", "save"}
                               \/ Fresh(h)
    PROVE  SpendingInv'
BY DEF SpendingInv, At, Fresh

LEMMA SpendingStep == Core /\ SpendingInv /\ [Next]_vars => SpendingInv'
<1> SUFFICES ASSUME Core, SpendingInv, [Next]_vars PROVE SpendingInv'
  OBVIOUS
<1>0. TypeOK
  BY DEF Core
<1>1. ASSUME NEW h \in Handlers, Consume(h) PROVE SpendingInv'
  <2> DEFINE k == handler[h].token
  <2>1. active' = active \ {k} /\ used' = used
    BY <1>1 DEF Consume
  <2>2. CASE Moved(h, "mark") /\ k \in active
    <3>1. k \notin active' /\ k \notin used
      BY <2>1, <2>2 DEF SpendingInv
    <3>2. \A g \in Handlers \ {h} : handler'[g] = handler[g] /\ (At(g, "mark") => handler[g].token # k)
      BY <2>2 DEF Moved, OthersKept, SpendingInv
    <3>3. handler'[h].pc = "mark" /\ handler'[h].token = k
      BY <2>2 DEF Moved
    <3> HIDE DEF k
    <3> QED
      BY <2>1, <3>1, <3>2, <3>3 DEF SpendingInv, At
  <2>3. CASE Moved(h, "lookup")
    BY <2>1, <2>3, SpendingKept DEF Moved, OthersKept
  <2> QED
    BY <1>0, <1>1, <2>2, <2>3, ConsumeMoves
<1>2. ASSUME NEW h \in Handlers, MarkUsed(h) PROVE SpendingInv'
  <2> DEFINE k == handler[h].token
  <2>1. used' = used \cup {k} /\ active' = active /\ At(h, "mark")
    BY <1>2 DEF MarkUsed
  <2>2. k \notin active /\ \A g \in Handlers \ {h} : At(g, "mark") => handler[g].token # k
    BY <2>1 DEF SpendingInv
  <2>3. CASE Dropped(h)
    <3>1. handler'[h].pc = "idle" /\ \A g \in Handlers \ {h} : handler'[g] = handler[g]
      BY <2>3 DEF Dropped, OthersKept, IsIdle
    <3> HIDE DEF k
    <3> QED
      BY <2>1, <2>2, <3>1 DEF SpendingInv, At
  <2>4. CASE Moved(h, "save")
    <3>1. /\ handler'[h].pc = "save" /\ handler'[h].token = k
          /\ \A g \in Handlers \ {h} : handler'[g] = handler[g]
      BY <2>4 DEF Moved, OthersKept
    <3> HIDE DEF k
    <3> QED
      BY <2>1, <2>2, <3>1 DEF SpendingInv, At
  <2> QED
    BY <1>0, <1>2, <2>3, <2>4, MarkUsedMoves
<1>3. ASSUME NEW h \in Handlers, Lookup(h) PROVE SpendingInv'
  <2>1. UNCHANGED <<active, used>>
    BY <1>3 DEF Lookup, redis
  <2>2. handler'[h].pc \notin {"mark", "save"} /\ \A g \in Handlers \ {h} : handler'[g] = handler[g]
    BY <1>0, <1>3, LookupMoves DEF Dropped, Moved, Ended, OthersKept, IsIdle
  <2> QED
    BY <2>1, <2>2, SpendingKept
<1>4. ASSUME NEW h \in Handlers, ListTokens(h) PROVE SpendingInv'
  <2>1. UNCHANGED <<active, used>>
    BY <1>4 DEF ListTokens, redis
  <2>2. handler'[h].pc \notin {"mark", "save"} /\ \A g \in Handlers \ {h} : handler'[g] = handler[g]
    BY <1>4, ListTokensMoves DEF Moved, OthersKept
  <2> QED
    BY <2>1, <2>2, SpendingKept
<1>5. ASSUME NEW h \in Handlers, DeleteListed(h) PROVE SpendingInv'
  <2>1. active' \subseteq active /\ used' = used
    BY <1>5 DEF DeleteListed
  <2>2. handler'[h].pc \notin {"mark", "save"} /\ \A g \in Handlers \ {h} : handler'[g] = handler[g]
    BY <1>0, <1>5, DeleteListedMoves DEF Moved, OthersKept
  <2> QED
    BY <2>1, <2>2, SpendingKept
<1>6. ASSUME NEW h \in Handlers, DropList(h) PROVE SpendingInv'
  <2>1. UNCHANGED <<active, used>>
    BY <1>6 DEF DropList
  <2>2. handler'[h].pc \notin {"mark", "save"} /\ \A g \in Handlers \ {h} : handler'[g] = handler[g]
    BY <1>0, <1>6, DropListEnds DEF Ended, OthersKept, IsIdle
  <2> QED
    BY <2>1, <2>2, SpendingKept
<1>7. ASSUME NEW h \in Handlers, Save(h) PROVE SpendingInv'
  <2> DEFINE k == issued + 1
  <2>1. active' = active \cup {k} /\ used' = used
    BY <1>7 DEF Save
  <2>2. handler'[h].pc \notin {"mark", "save"} /\ \A g \in Handlers \ {h} : handler'[g] = handler[g]
    BY <1>0, <1>7, SaveEnds DEF Ended, OthersKept, IsIdle
  <2>3. k \notin used /\ \A g \in Handlers : At(g, "mark") => handler[g].token # k
    BY DEF Core, TypeOK, KnowledgeInv, TokensKnown, HandlerKnown, Busy, At
  <2> HIDE DEF k
  <2> QED
    BY <2>1, <2>2, <2>3 DEF SpendingInv, At
<1>8. ASSUME NEW h \in Handlers, HandlerFails(h) PROVE SpendingInv'
  <2>1. UNCHANGED <<active, used>>
    BY <1>8 DEF HandlerFails, redis
  <2>2. handler'[h].pc \notin {"mark", "save"} /\ \A g \in Handlers \ {h} : handler'[g] = handler[g]
    BY <1>0, <1>8, HandlerFailsEnds DEF Ended, OthersKept, IsIdle
  <2> QED
    BY <2>1, <2>2, SpendingKept
<1>9. CASE Next /\ ~\E h \in Handlers : Serve(h) \/ HandlerFails(h)
  BY <1>9, BrowserToRedis, SpendingKept DEF redis, IsIdle
<1>10. CASE UNCHANGED vars
  BY <1>10, SpendingKept DEF vars, redis
<1> QED
  BY <1>1, <1>2, <1>3, <1>4, <1>5, <1>6, <1>7, <1>8, <1>9, <1>10 DEF Next, Serve

\* However tabs, retries and sign-outs overlap, a token is exchanged for at most one
\* other, for any number of handlers at once.
THEOREM Single == Spec => []SpentOnce
<1>1. Core /\ SpendingInv => SpentOnce
  BY DEF Core, KnowledgeInv, HandlerKnown, SpendingInv, SpentOnce, Busy, At
<1>2. Init => SpendingInv
  BY IdleType DEF Init, SpendingInv, At, IsIdle
<1> QED
  BY <1>1, <1>2, InitCore, CoreStep, SpendingStep, PTL DEF Spec

\* The tokens of u a revocation has to find.
Old(u) == {k \in active \ slipped : owner[k] = u}

Revoking == {"list", "delete", "drop"}

\* What a revocation has found out and done so far.
RevocationInv ==
    /\ Revocable
    /\ \A h \in Handlers : At(h, "delete") => Old(handler[h].user) \subseteq handler[h].members
    /\ \A h \in Handlers : At(h, "drop") => Old(handler[h].user) = {}
    /\ \A h \in Handlers : handler[h].pc \in Revoking =>
          handler[h].doomed \subseteq {k \in 1 .. issued : owner[k] = handler[h].user} \ slipped

\* A step that saves nothing and changes no list, and after which nobody is revoking
\* who was not.
LEMMA RevocationKept ==
    ASSUME RevocationInv, UNCHANGED <<issued, owner, listed, slipped>>, active' \subseteq active,
           \A h \in Handlers : handler'[h] = handler[h] \/ handler'[h].pc \notin Revoking
    PROVE  RevocationInv'
<1>1. Revocable'
  BY DEF RevocationInv, Revocable
<1>2. \A u : Old(u)' \subseteq Old(u)
  BY DEF Old
<1>3. \A h \in Handlers : At(h, "delete")' =>
         Old(handler[h].user)' \subseteq handler'[h].members
  <2> SUFFICES ASSUME NEW h \in Handlers, At(h, "delete")'
               PROVE  Old(handler[h].user)' \subseteq handler'[h].members
    OBVIOUS
  <2>1. handler'[h] = handler[h] /\ At(h, "delete")
    BY DEF At, Revoking
  <2>2. Old(handler[h].user)' \subseteq Old(handler[h].user)
    BY <2>1 DEF Old
  <2> QED
    BY <2>1, <2>2 DEF RevocationInv
<1>4. \A h \in Handlers : At(h, "drop")' => Old(handler[h].user)' = {}
  <2> SUFFICES ASSUME NEW h \in Handlers, At(h, "drop")' PROVE Old(handler[h].user)' = {}
    OBVIOUS
  <2>1. handler'[h] = handler[h] /\ At(h, "drop")
    BY DEF At, Revoking
  <2>2. Old(handler[h].user)' \subseteq Old(handler[h].user)
    BY <2>1 DEF Old
  <2> QED
    BY <2>1, <2>2 DEF RevocationInv
<1>5. \A h \in Handlers : handler'[h].pc \in Revoking =>
         handler'[h].doomed \subseteq {k \in 1 .. issued' : owner'[k] = handler'[h].user} \ slipped'
  BY DEF RevocationInv
<1> QED
  BY <1>1, <1>3, <1>4, <1>5 DEF RevocationInv

LEMMA RevocationStep == Core /\ SpendingInv /\ RevocationInv /\ [Next]_vars => RevocationInv'
<1> SUFFICES ASSUME Core, SpendingInv, RevocationInv, [Next]_vars PROVE RevocationInv'
  OBVIOUS
<1>0. TypeOK
  BY DEF Core
<1>1. ASSUME NEW h \in Handlers, Consume(h) PROVE RevocationInv'
  <2>1. UNCHANGED <<issued, owner, listed, slipped>> /\ active' \subseteq active
    BY <1>1 DEF Consume
  <2>2. handler'[h].pc \notin Revoking /\ \A g \in Handlers \ {h} : handler'[g] = handler[g]
    BY <1>0, <1>1, ConsumeMoves DEF Moved, OthersKept, Revoking
  <2> QED
    BY <2>1, <2>2, RevocationKept
<1>2. ASSUME NEW h \in Handlers, MarkUsed(h) PROVE RevocationInv'
  <2> DEFINE k == handler[h].token
  <2>1. /\ UNCHANGED <<issued, owner, active, slipped>> /\ At(h, "mark")
        /\ listed' = [listed EXCEPT ![owner[k]] = @ \ {k}]
    BY <1>2 DEF MarkUsed
  <2>2. handler'[h].pc \notin Revoking /\ \A g \in Handlers \ {h} : handler'[g] = handler[g]
    BY <1>0, <1>2, MarkUsedMoves DEF Moved, Dropped, OthersKept, IsIdle, Revoking
  <2>3. k \notin active
    BY <2>1 DEF SpendingInv
  <2>4. Revocable'
    <3> HIDE DEF k
    <3>1. \A u \in Users : \A j : j \in listed[u] /\ j # k => j \in listed'[u]
      BY <2>1 DEF Core, TypeOK
    <3>2. \A j \in active \ slipped : owner[j] \in Users
      BY DEF Core, KnowledgeInv, TokensKnown
    <3> QED
      BY <2>1, <2>3, <3>1, <3>2 DEF RevocationInv, Revocable
  <2>5. \A g \in Handlers : handler'[g].pc \in Revoking => handler'[g] = handler[g]
    BY <2>2
  <2> QED
    BY <2>1, <2>4, <2>5 DEF RevocationInv, At, Old, Revoking
<1>3. ASSUME NEW h \in Handlers, Lookup(h) PROVE RevocationInv'
  <2>1. UNCHANGED <<issued, owner, active, listed, slipped>> /\ At(h, "lookup")
    BY <1>3 DEF Lookup, redis
  <2>2. CASE handler'[h].pc \notin Revoking /\ \A g \in Handlers \ {h} : handler'[g] = handler[g]
    BY <2>1, <2>2, RevocationKept
  <2>3. CASE /\ handler[h].op # "logout" /\ Moved(h, "list") 
             /\ handler'[h].doomed = {j \in active : owner[j] = owner[handler[h].token]} \ slipped
    <3>1. handler[h].user = owner[handler[h].token]
      BY <2>1, <2>3 DEF Core, KnowledgeInv, HandlerKnown, Busy, At
    <3>2. handler'[h].doomed \subseteq {k \in 1 .. issued : owner[k] = handler[h].user} \ slipped
      BY <2>3, <3>1 DEF Core, KnowledgeInv, TokensKnown
    <3>3. /\ handler'[h].pc = "list" /\ handler'[h].user = handler[h].user
          /\ \A g \in Handlers \ {h} : handler'[g] = handler[g]
      BY <2>3 DEF Moved, OthersKept
    <3>4. Revocable' /\ \A u : Old(u)' = Old(u)
      BY <2>1 DEF RevocationInv, Revocable, Old
    <3>5. \A g \in Handlers : At(g, "delete")' \/ At(g, "drop")' => handler'[g] = handler[g]
      BY <3>3 DEF At
    <3>6. \A g \in Handlers : handler'[g].pc \in Revoking =>
            handler'[g].doomed \subseteq {k \in 1 .. issued' : owner'[k] = handler'[g].user} \ slipped'
      <4>1. ASSUME NEW g \in Handlers, g = h
            PROVE  handler'[g].doomed \subseteq {k \in 1 .. issued' : owner'[k] = handler'[g].user} \ slipped'
        BY <2>1, <3>2, <3>3, <4>1
      <4>2. ASSUME NEW g \in Handlers \ {h}, handler'[g].pc \in Revoking
            PROVE  handler'[g].doomed \subseteq {k \in 1 .. issued' : owner'[k] = handler'[g].user} \ slipped'
        BY <2>1, <3>3, <4>2 DEF RevocationInv
      <4> QED
        BY <4>1, <4>2
    <3> QED
      BY <2>1, <3>4, <3>5, <3>6 DEF RevocationInv, At, Old
  <2> QED
    BY <1>0, <1>3, <2>2, <2>3, LookupMoves DEF Dropped, Ended, OthersKept, IsIdle, Revoking
<1>4. ASSUME NEW h \in Handlers, ListTokens(h) PROVE RevocationInv'
  <2>1. UNCHANGED <<issued, owner, active, listed, slipped>> /\ At(h, "list")
    BY <1>4 DEF ListTokens, redis
  <2>2. /\ Moved(h, "delete") /\ handler'[h].members = listed[handler[h].user]
        /\ handler'[h].doomed = handler[h].doomed
    BY <1>4, ListTokensMoves
  <2>3. /\ handler'[h].pc = "delete" /\ handler'[h].user = handler[h].user
        /\ \A g \in Handlers \ {h} : handler'[g] = handler[g]
    BY <2>2 DEF Moved, OthersKept
  <2>4. Old(handler[h].user) \subseteq handler'[h].members
    BY <2>2 DEF RevocationInv, Revocable, Old
  <2>5. Revocable' /\ \A u : Old(u)' = Old(u)
    BY <2>1 DEF RevocationInv, Revocable, Old
  <2>6. handler[h].doomed \subseteq {k \in 1 .. issued : owner[k] = handler[h].user} \ slipped
    BY <2>1 DEF RevocationInv, At, Revoking
  <2>7. \A g \in Handlers : handler'[g].pc \in Revoking =>
          handler'[g].doomed \subseteq {k \in 1 .. issued' : owner'[k] = handler'[g].user} \ slipped'
    <3>1. ASSUME NEW g \in Handlers, g = h
          PROVE  handler'[g].doomed \subseteq {k \in 1 .. issued' : owner'[k] = handler'[g].user} \ slipped'
      BY <2>1, <2>2, <2>3, <2>6, <3>1
    <3>2. ASSUME NEW g \in Handlers \ {h}, handler'[g].pc \in Revoking
          PROVE  handler'[g].doomed \subseteq {k \in 1 .. issued' : owner'[k] = handler'[g].user} \ slipped'
      BY <2>1, <2>3, <3>2 DEF RevocationInv
    <3> QED
      BY <3>1, <3>2
  <2>8. \A g \in Handlers : At(g, "delete")' => Old(handler'[g].user) \subseteq handler'[g].members
    BY <2>3, <2>4 DEF RevocationInv, At
  <2>9. \A g \in Handlers : At(g, "drop")' => Old(handler'[g].user) = {}
    BY <2>3 DEF RevocationInv, At
  <2> QED
    BY <2>1, <2>5, <2>7, <2>8, <2>9 DEF RevocationInv, Old
<1>5. ASSUME NEW h \in Handlers, DeleteListed(h) PROVE RevocationInv'
  <2>1. /\ UNCHANGED <<issued, owner, listed, slipped>> /\ At(h, "delete")
        /\ active' = active \ handler[h].members
    BY <1>5 DEF DeleteListed
  <2>2. /\ handler'[h].pc = "drop" /\ handler'[h].user = handler[h].user
        /\ handler'[h].doomed = handler[h].doomed
        /\ \A g \in Handlers \ {h} : handler'[g] = handler[g]
    BY <1>0, <1>5, DeleteListedMoves DEF Moved, OthersKept
  <2>3. \A u : {k \in active' \ slipped' : owner'[k] = u} \subseteq Old(u)
    BY <2>1 DEF Old
  <2>4. {k \in active' \ slipped' : owner'[k] = handler[h].user} = {}
    BY <2>1 DEF RevocationInv, Old
  <2>5. Revocable'
    BY <2>1 DEF RevocationInv, Revocable
  <2>6. \A g \in Handlers : At(g, "delete")' =>
          {k \in active' \ slipped' : owner'[k] = handler'[g].user} \subseteq handler'[g].members
    BY <2>2, <2>3 DEF RevocationInv, At
  <2>7. \A g \in Handlers : At(g, "drop")' => {k \in active' \ slipped' : owner'[k] = handler'[g].user} = {}
    BY <2>2, <2>3, <2>4 DEF RevocationInv, At
  <2>8. \A g \in Handlers : handler'[g].pc \in Revoking =>
          /\ handler[g].pc \in Revoking /\ handler'[g].user = handler[g].user
          /\ handler'[g].doomed = handler[g].doomed
    BY <2>1, <2>2 DEF At, Revoking
  <2>9. \A g \in Handlers : handler'[g].pc \in Revoking =>
          handler'[g].doomed \subseteq {k \in 1 .. issued' : owner'[k] = handler'[g].user} \ slipped'
    BY <2>1, <2>8 DEF RevocationInv
  <2> QED
    BY <2>5, <2>6, <2>7, <2>9 DEF RevocationInv, Old
<1>6. ASSUME NEW h \in Handlers, DropList(h) PROVE RevocationInv'
  <2> DEFINE u == handler[h].user
  <2>1. /\ UNCHANGED <<issued, owner, active, slipped>> /\ At(h, "drop")
        /\ listed' = [listed EXCEPT ![u] = {}]
    BY <1>6 DEF DropList
  <2>2. handler'[h].pc \notin Revoking /\ \A g \in Handlers \ {h} : handler'[g] = handler[g]
    BY <1>0, <1>6, DropListEnds DEF Ended, OthersKept, IsIdle, Revoking
  <2>3. \A k \in active \ slipped : owner[k] # u /\ owner[k] \in Users
    BY <2>1 DEF RevocationInv, Old, Core, KnowledgeInv, TokensKnown
  <2>4. Revocable'
    <3> HIDE DEF u
    <3>1. \A v \in Users \ {u} : listed'[v] = listed[v]
      BY <2>1 DEF Core, TypeOK
    <3> QED
      BY <2>1, <2>3, <3>1 DEF RevocationInv, Revocable
  <2>5. \A g \in Handlers : handler'[g].pc \in Revoking => handler'[g] = handler[g]
    BY <2>2
  <2> QED
    BY <2>1, <2>4, <2>5 DEF RevocationInv, At, Old, Revoking
<1>7. ASSUME NEW h \in Handlers, Save(h) PROVE RevocationInv'
  <2> DEFINE n == issued + 1
             u == handler[h].user
  <2>1. /\ issued' = n /\ n \in Tokens /\ At(h, "save") /\ u \in Users /\ issued \in Nat
        /\ owner' = [owner EXCEPT ![n] = u]
        /\ active' = active \cup {n}
        /\ listed' = [listed EXCEPT ![u] = @ \cup {n}]
        /\ slipped' = IF BeingRevoked(u) THEN slipped \cup {n} ELSE slipped
    <3>1. issued' = n /\ n \in Tokens
      BY <1>0, <1>7, SaveEnds DEF Tokens
    <3>2. u \in Users /\ issued \in Nat
      BY <1>7 DEF Save, Core, TypeOK, KnowledgeInv, HandlerKnown, Busy, At
    <3> QED
      BY <1>7, <3>1, <3>2 DEF Save
  <2>2. handler'[h].pc \notin Revoking /\ \A g \in Handlers \ {h} : handler'[g] = handler[g]
    BY <1>0, <1>7, SaveEnds DEF Ended, OthersKept, IsIdle, Revoking
  <2>3. n \notin active \cup slipped /\ n \notin 1 .. issued /\ 1 .. issued \subseteq 1 .. n
    BY <2>1 DEF Core, TypeOK, KnowledgeInv, TokensKnown
  <2>4. /\ owner'[n] = u
        /\ \A k \in 1 .. issued : owner'[k] = owner[k]
        /\ \A k \in active \cup slipped : k # n /\ owner'[k] = owner[k]
    BY <2>1, <2>3 DEF Core, TypeOK, KnowledgeInv, TokensKnown
  <2>5. /\ n \in listed'[u]
        /\ \A v \in Users : listed[v] \subseteq listed'[v]
    BY <2>1 DEF Core, TypeOK
  <2> HIDE DEF n, u
  <2>6. \A k \in active \ slipped : owner[k] \in Users
    BY DEF Core, KnowledgeInv, TokensKnown
  <2>7. Revocable'
    <3> SUFFICES ASSUME NEW k \in active' \ slipped' PROVE k \in listed'[owner'[k]]
      BY DEF Revocable
    <3>1. CASE k = n
      BY <2>4, <2>5, <3>1
    <3>2. CASE k # n
      BY <2>1, <2>4, <2>5, <2>6, <3>2 DEF RevocationInv, Revocable
    <3> QED
      BY <3>1, <3>2
  <2>8. ASSUME NEW g \in Handlers, handler'[g].pc \in {"delete", "drop"}
        PROVE  {k \in active' \ slipped' : owner'[k] = handler'[g].user} \subseteq Old(handler[g].user)
    <3>1. handler'[g] = handler[g] /\ g # h
      BY <2>2, <2>8 DEF Revoking
    <3>2. handler[g].user = u => n \in slipped'
      BY <2>1, <2>8, <3>1 DEF BeingRevoked
    <3>3. ASSUME NEW k \in active' \ slipped', owner'[k] = handler'[g].user
          PROVE  k \in Old(handler[g].user)
      <4>1. k # n
        BY <2>4, <3>1, <3>2, <3>3
      <4> QED
        BY <2>1, <2>4, <3>1, <3>3, <4>1 DEF Old
    <3> QED
      BY <3>3
  <2>9. \A g \in Handlers : handler'[g].pc \in Revoking => handler'[g] = handler[g]
    BY <2>2
  <2>10. \A g \in Handlers : At(g, "delete")' =>
          {k \in active' \ slipped' : owner'[k] = handler'[g].user} \subseteq handler'[g].members
    BY <2>8, <2>9 DEF RevocationInv, At, Revoking
  <2>11. \A g \in Handlers : At(g, "drop")' => {k \in active' \ slipped' : owner'[k] = handler'[g].user} = {}
    BY <2>8, <2>9 DEF RevocationInv, At, Revoking
  <2>12. \A g \in Handlers : handler'[g].pc \in Revoking =>
          handler'[g].doomed \subseteq {k \in 1 .. issued' : owner'[k] = handler'[g].user} \ slipped'
    <3> SUFFICES ASSUME NEW g \in Handlers, handler'[g].pc \in Revoking,
                        NEW k \in handler'[g].doomed
                 PROVE  k \in 1 .. issued' /\ owner'[k] = handler'[g].user /\ k \notin slipped'
      OBVIOUS
    <3>1. handler'[g] = handler[g]
      BY <2>9
    <3>2. k \in 1 .. issued /\ owner[k] = handler[g].user /\ k \notin slipped
      BY <3>1 DEF RevocationInv
    <3> QED
      BY <2>1, <2>3, <2>4, <3>1, <3>2
  <2> QED
    BY <2>7, <2>10, <2>11, <2>12 DEF RevocationInv, Old
<1>8. ASSUME NEW h \in Handlers, HandlerFails(h) PROVE RevocationInv'
  <2>1. UNCHANGED <<issued, owner, active, listed, slipped>>
    BY <1>8 DEF HandlerFails, redis
  <2>2. handler'[h].pc \notin Revoking /\ \A g \in Handlers \ {h} : handler'[g] = handler[g]
    BY <1>0, <1>8, HandlerFailsEnds DEF Ended, OthersKept, IsIdle, Revoking
  <2> QED
    BY <2>1, <2>2, RevocationKept
<1>9. CASE Next /\ ~\E h \in Handlers : Serve(h) \/ HandlerFails(h)
  BY <1>9, BrowserToRedis, RevocationKept DEF redis, IsIdle, Fresh, Revoking
<1>10. CASE UNCHANGED vars
  BY <1>10, RevocationKept DEF vars, redis
<1> QED
  BY <1>1, <1>2, <1>3, <1>4, <1>5, <1>6, <1>7, <1>8, <1>9, <1>10 DEF Next, Serve

LEMMA InitRevocation == Init => SpendingInv /\ RevocationInv
<1> SUFFICES ASSUME Init PROVE SpendingInv /\ RevocationInv
  OBVIOUS
<1>1. active = {} /\ \A h \in Handlers : handler[h].pc = "idle"
  BY IdleType DEF Init, IsIdle
<1> QED
  BY <1>1 DEF SpendingInv, RevocationInv, Revocable, At, Old, Revoking

\* What can be exchanged is where a revocation looks for it.
THEOREM Findable == Spec => []Revocable
<1>1. RevocationInv => Revocable
  BY DEF RevocationInv
<1> QED
  BY <1>1, InitCore, InitRevocation, CoreStep, SpendingStep, RevocationStep, PTL DEF Spec

\* A replay ends every session its user had when it was noticed, whatever refreshes,
\* logins and other revocations run at the same time.
THEOREM FamilyEnds == Spec => []ReplayEndsFamily
<1>1. RevocationInv => ReplayEndsFamily
  BY DEF RevocationInv, ReplayEndsFamily, At, Old, Revoking
<1> QED
  BY <1>1, InitCore, InitRevocation, CoreStep, SpendingStep, RevocationStep, PTL DEF Spec

-----------------------------------------------------------------------------
(* The fourth layer: who waits for whom, and about whom *)

\* To the browser a handler moves on, ends a logout, fails or answers.
LEMMA ServerToBrowser ==
    ASSUME Core, NEW h \in Handlers, Serve(h) \/ HandlerFails(h)
    PROVE  /\ UNCHANGED client
           /\ \/ /\ \E pc \in Places \ {"idle", "reply"} : Moved(h, pc)
                 /\ Busy(h) /\ UNCHANGED <<issued, owner>>
              \/ Dropped(h) /\ handler[h].op = "logout" /\ UNCHANGED <<issued, owner>>
              \/ /\ \E answer \in {"rejected", "unavailable"} : Ended(h, answer, 0)
                 /\ ~At(h, "idle") /\ UNCHANGED <<issued, owner>>
              \/ Save(h)
<1>0. TypeOK
  BY DEF Core
<1>1. CASE Consume(h)
  BY <1>0, <1>1, ConsumeMoves DEF Consume, Busy, At, Places
<1>2. CASE MarkUsed(h)
  BY <1>0, <1>2, MarkUsedMoves DEF MarkUsed, Busy, At, Places
<1>3. CASE Lookup(h)
  BY <1>0, <1>3, LookupMoves DEF Lookup, redis, Busy, At, Places
<1>4. CASE ListTokens(h)
  BY <1>4, ListTokensMoves DEF ListTokens, redis, Busy, At, Places
<1>5. CASE DeleteListed(h)
  BY <1>0, <1>5, DeleteListedMoves DEF DeleteListed, Busy, At, Places
<1>6. CASE DropList(h)
  BY <1>0, <1>6, DropListEnds DEF DropList, At
<1>7. CASE Save(h)
  BY <1>7 DEF Save
<1>8. CASE HandlerFails(h)
  BY <1>0, <1>8, HandlerFailsEnds DEF HandlerFails, redis
<1> QED
  BY <1>1, <1>2, <1>3, <1>4, <1>5, <1>6, <1>7, <1>8 DEF Serve

FlightWaits(t) == tab[t].flight # 0 =>
    handler[tab[t].flight].op = "refresh" /\ ~At(tab[t].flight, "idle")
LoginWaits(t) == tab[t].login # 0 =>
    handler[tab[t].login].op = "login" /\ ~At(tab[t].login, "idle")
RequestWaits(r) == request[r].pc = "waiting" =>
    request[r].tab \in Tabs /\ tab[request[r].tab].flight # 0

\* A tab waits for a handler that is at work for it, and for nobody else.
WaitInv ==
    /\ \A t \in Tabs : FlightWaits(t) /\ LoginWaits(t)
    /\ \A s, t \in Tabs : s # t /\ tab[s].flight # 0 => tab[s].flight # tab[t].flight
    /\ \A s, t \in Tabs : s # t /\ tab[s].login # 0 => tab[s].login # tab[t].login
    /\ \A r \in Requests : RequestWaits(r)

\* The refresh of a tab is about the user it shows, unless it was overtaken.
FlightBelongs(t) == LET h == tab[t].flight IN
    h # 0 /\ ~tab[t].crossed /\ ~tab[t].foreign =>
        /\ Busy(h) => handler[h].user = tab[t].user
        /\ handler[h].answer = "ok" => owner[handler[h].fresh] = tab[t].user

BelongInv ==
    /\ TokensBelongToUser
    /\ \A t \in Tabs : FlightBelongs(t)
    /\ \A h \in Handlers : ~At(h, "reply") => handler[h].answer = "none"

LEMMA Awaiting ==
    ASSUME TypeOK, NEW t \in Tabs
    PROVE  /\ tab[t].flight # 0 => tab[t].flight \in Handlers /\ Awaited(tab[t].flight)
           /\ tab[t].login # 0 => tab[t].login \in Handlers /\ Awaited(tab[t].login)
BY SessionsAssumption DEF TypeOK, Tab, Handlers, Awaited

LEMMA WaitServe ==
    ASSUME Core, WaitInv, NEW h \in Handlers, Serve(h) \/ HandlerFails(h)
    PROVE  WaitInv'
<1>0. TypeOK /\ UNCHANGED <<tab, request>>
  BY ServerToBrowser DEF Core, client
<1>1. \A g \in Handlers \ {h} : handler'[g] = handler[g]
  <2>1. CASE Save(h)
    BY <1>0, <2>1, SaveEnds DEF Ended, OthersKept
  <2> QED
    BY <2>1, ServerToBrowser DEF Moved, Dropped, Ended, OthersKept
<1>2. Awaited(h) /\ handler[h].op # "logout" /\ ~At(h, "idle") =>
         handler'[h].op = handler[h].op /\ handler'[h].pc # "idle"
  <2>1. CASE Save(h)
    BY <1>0, <2>1, SaveEnds DEF Ended
  <2> QED
    BY <2>1, ServerToBrowser DEF Moved, Dropped, Ended
<1>3. \A t \in Tabs : FlightWaits(t)' /\ LoginWaits(t)'
  <2> SUFFICES ASSUME NEW t \in Tabs PROVE FlightWaits(t)' /\ LoginWaits(t)'
    OBVIOUS
  <2>1. FlightWaits(t) /\ LoginWaits(t)
    BY DEF WaitInv
  <2>2. FlightWaits(t)'
    BY <1>0, <1>1, <1>2, <2>1, Awaiting DEF FlightWaits, At
  <2>3. LoginWaits(t)'
    BY <1>0, <1>1, <1>2, <2>1, Awaiting DEF LoginWaits, At
  <2> QED
    BY <2>2, <2>3
<1> QED
  BY <1>0, <1>3 DEF WaitInv, RequestWaits

LEMMA BelongServe ==
    ASSUME Core, WaitInv, BelongInv, NEW h \in Handlers, Serve(h) \/ HandlerFails(h)
    PROVE  BelongInv'
<1>0. TypeOK /\ UNCHANGED <<tab, request>>
  BY ServerToBrowser DEF Core, client
<1>1. CASE Save(h)
  <2>1. /\ Ended(h, "ok", issued + 1) /\ issued' = issued + 1 /\ issued + 1 \in Tokens
        /\ owner' = [owner EXCEPT ![issued + 1] = handler[h].user]
    BY <1>0, <1>1, SaveEnds DEF Save, Tokens
  <2>2. \A k \in 1 .. issued : owner'[k] = owner[k]
    BY <2>1 DEF Core, TypeOK
  <2>3. owner'[issued + 1] = handler[h].user
    BY <2>1 DEF Core, TypeOK
  <2>4. TokensBelongToUser'
    BY <1>0, <2>2 DEF BelongInv, TokensBelongToUser, Core, TypeOK, KnowledgeInv, TabKnown
  <2>5. ASSUME NEW t \in Tabs PROVE FlightBelongs(t)'
    <3>1. CASE tab[t].flight = h
      BY <1>0, <1>1, <2>1, <2>3, <3>1 DEF BelongInv, FlightBelongs, Save, Ended, IsIdle, Busy, At
    <3>2. CASE tab[t].flight # h
      <4>1. tab[t].flight # 0 => handler'[tab[t].flight] = handler[tab[t].flight]
        BY <1>0, <2>1, <3>2, Awaiting DEF Ended, OthersKept
      <4>2. tab[t].flight # 0 /\ handler[tab[t].flight].answer = "ok" =>
              handler[tab[t].flight].fresh \in 1 .. issued
        BY <1>0, Awaiting DEF Core, KnowledgeInv, HandlerKnown
      <4> QED
        BY <1>0, <2>2, <4>1, <4>2 DEF BelongInv, FlightBelongs, Busy
    <3> QED
      BY <3>1, <3>2
  <2>6. \A g \in Handlers : ~At(g, "reply")' => handler'[g].answer = "none"
    BY <2>1 DEF BelongInv, Ended, OthersKept, IsIdle, At
  <2> QED
    BY <2>4, <2>5, <2>6 DEF BelongInv
<1>2. CASE ~Save(h)
  <2>1. UNCHANGED <<issued, owner>>
    BY <1>2, ServerToBrowser
  <2>2. \A g \in Handlers \ {h} : handler'[g] = handler[g]
    BY <1>2, ServerToBrowser DEF Moved, Dropped, Ended, OthersKept
  <2>3. /\ Busy(h)' => Busy(h) /\ handler'[h].user = handler[h].user
        /\ handler'[h].answer = "ok" =>
             handler[h].answer = "ok" /\ handler'[h].fresh = handler[h].fresh
        /\ handler'[h].pc # "reply" => handler'[h].answer \in {handler[h].answer, "none"} /\ (handler'[h].answer = "none" \/ Busy(h))
    BY <1>2, ServerToBrowser DEF Moved, Dropped, Ended, IsIdle, Busy
  <2>4. TokensBelongToUser'
    BY <1>0, <2>1 DEF BelongInv, TokensBelongToUser
  <2>5. ASSUME NEW t \in Tabs PROVE FlightBelongs(t)'
    <3>1. CASE tab[t].flight = h
      BY <1>0, <2>1, <2>3, <3>1 DEF BelongInv, FlightBelongs
    <3>2. CASE tab[t].flight # h
      <4>1. tab[t].flight # 0 => handler'[tab[t].flight] = handler[tab[t].flight]
        BY <1>0, <2>2, <3>2, Awaiting
      <4> QED
        BY <1>0, <2>1, <4>1 DEF BelongInv, FlightBelongs, Busy
    <3> QED
      BY <3>1, <3>2
  <2>6. \A g \in Handlers : ~At(g, "reply")' => handler'[g].answer = "none"
    BY <2>2, <2>3 DEF BelongInv, At, Busy
  <2> QED
    BY <2>4, <2>5, <2>6 DEF BelongInv
<1> QED
  BY <1>1, <1>2

\* A step of the client of t that leaves other tabs and the handlers they wait for
\* alone, and after which t waits for nobody else's handler.
LEMMA WaitKept ==
    ASSUME WaitInv, NEW t \in Tabs, OtherTabsKept(t),
           \A s \in Tabs \ {t} : /\ tab[s].flight # 0 => handler'[tab[s].flight] = handler[tab[s].flight]
                                 /\ tab[s].login # 0 => handler'[tab[s].login] = handler[tab[s].login],
           FlightWaits(t)', LoginWaits(t)',
           \A s \in Tabs \ {t} : /\ tab'[t].flight # 0 => tab'[t].flight # tab[s].flight
                                 /\ tab'[t].login # 0 => tab'[t].login # tab[s].login,
           \A r \in Requests : RequestWaits(r)'
    PROVE  WaitInv'
<1>1. \A s \in Tabs \ {t} : FlightWaits(s)' /\ LoginWaits(s)'
  BY DEF OtherTabsKept, WaitInv, FlightWaits, LoginWaits, At
<1>2. \A s, x \in Tabs : s # x /\ tab'[s].flight # 0 => tab'[s].flight # tab'[x].flight
  BY DEF OtherTabsKept, WaitInv
<1>3. \A s, x \in Tabs : s # x /\ tab'[s].login # 0 => tab'[s].login # tab'[x].login
  BY DEF OtherTabsKept, WaitInv
<1> QED
  BY <1>1, <1>2, <1>3 DEF WaitInv

\* An idle handler is awaited by nobody.
LEMMA FreeIsUnawaited ==
    ASSUME TypeOK, WaitInv, NEW h \in Handlers, Free(h), NEW t \in Tabs
    PROVE  tab[t].flight # h /\ tab[t].login # h
<1>1. h # 0 /\ At(h, "idle")
  BY SessionsAssumption DEF Free, Handlers
<1> QED
  BY <1>1 DEF WaitInv, FlightWaits, LoginWaits

\* The requests that wait still do, unless they waited for t and are taken along.
LEMMA RequestsKept ==
    ASSUME WaitInv, NEW t \in Tabs, OtherTabsKept(t),
           \/ request' = request /\ tab'[t].flight = tab[t].flight
           \/ \A r \in Requests : \/ request'[r] = request[r] /\ r \notin Waiting(t)
                                  \/ request'[r].pc # "waiting"
    PROVE  \A r \in Requests : RequestWaits(r)'
<1> SUFFICES ASSUME NEW r \in Requests, request'[r].pc = "waiting"
             PROVE  request'[r].tab \in Tabs /\ tab'[request'[r].tab].flight # 0
  BY DEF RequestWaits
<1>1. request'[r] = request[r] /\ request[r].tab \in Tabs /\ tab[request[r].tab].flight # 0
  BY DEF WaitInv, RequestWaits
<1>2. request[r].tab = t => tab'[t].flight = tab[t].flight
  BY <1>1 DEF Waiting
<1> QED
  BY <1>1, <1>2 DEF OtherTabsKept

LEMMA WaitBrowse ==
    ASSUME Core, WaitInv, Next, ~\E h \in Handlers : Serve(h) \/ HandlerFails(h)
    PROVE  WaitInv'
<1>0. TypeOK
  BY DEF Core
<1>1. ASSUME NEW r \in Requests, RetryAnswered(r) PROVE WaitInv'
  <2>1. UNCHANGED <<handler, tab>>
    BY <1>1 DEF RetryAnswered
  <2>2. \A q \in Requests : request'[q] = request[q] \/ request'[q].pc # "waiting"
    BY <1>0, <1>1 DEF RetryAnswered, Ends, NoRequest, TypeOK
  <2> QED
    BY <2>1, <2>2 DEF WaitInv, FlightWaits, LoginWaits, RequestWaits, At
<1>2. ASSUME NEW r \in Requests, RetryRefused(r) PROVE WaitInv'
  <2>1. UNCHANGED handler
    BY <1>2 DEF RetryRefused
  <2>2. \A q \in Requests : request'[q] = request[q] \/ request'[q].pc # "waiting"
    BY <1>0, <1>2 DEF RetryRefused, Ends, NoRequest, TypeOK
  <2>3. \A t \in Tabs : tab'[t].flight = tab[t].flight /\ tab'[t].login = tab[t].login
    BY <1>2, RetryRefusedTab DEF OtherTabsKept, WaitsFor
  <2> QED
    BY <2>1, <2>2, <2>3 DEF WaitInv, FlightWaits, LoginWaits, RequestWaits, At
<1>3. ASSUME NEW r \in Requests, NEW t \in Tabs, Unauthorized(r, t) PROVE WaitInv'
  <2>1. request' = [request EXCEPT ![r] = [pc |-> "waiting", tab |-> t]]
    BY <1>3 DEF Unauthorized
  <2>2. \A q \in Requests : \/ request'[q] = request[q]
                            \/ request'[q].tab = t
    BY <1>0, <2>1 DEF TypeOK
  <2>3. CASE tab[t].flight # 0 /\ UNCHANGED <<handler, tab>>
    BY <2>2, <2>3 DEF WaitInv, FlightWaits, LoginWaits, RequestWaits, At
  <2>4. CASE tab[t].flight = 0
    <3>1. PICK h \in Handlers : /\ Free(h) /\ Started(h, "refresh", owner[tab[t].token], tab[t].token)
                                /\ WaitsFor(t, h, FALSE, tab[t].login)
      BY <1>3, <2>4, UnauthorizedTab
    <3>2. OtherTabsKept(t)
      BY <1>3, <2>4, UnauthorizedTab
    <3>3. h # 0 /\ \A s \in Tabs : tab[s].flight # h /\ tab[s].login # h
      BY <1>0, <3>1, FreeIsUnawaited, SessionsAssumption DEF Handlers
    <3>4. \A s \in Tabs : /\ tab[s].flight # 0 => handler'[tab[s].flight] = handler[tab[s].flight]
                          /\ tab[s].login # 0 => handler'[tab[s].login] = handler[tab[s].login]
      BY <1>0, <3>1, <3>3, Awaiting DEF Started, OthersKept
    <3>5. FlightWaits(t)'
      BY <3>1 DEF FlightWaits, WaitsFor, Started, At
    <3>6. LoginWaits(t)'
      BY <3>1, <3>4 DEF WaitInv, LoginWaits, WaitsFor, At
    <3>7. \A q \in Requests : RequestWaits(q)'
      BY <2>2, <3>1, <3>2, <3>3 DEF WaitInv, RequestWaits, OtherTabsKept, WaitsFor
    <3>8. \A s \in Tabs \ {t} : /\ tab'[t].flight # tab[s].flight
                                /\ tab'[t].login # 0 => tab'[t].login # tab[s].login
      BY <3>1, <3>3 DEF WaitInv, WaitsFor
    <3> QED
      BY <3>2, <3>4, <3>5, <3>6, <3>7, <3>8, WaitKept
  <2> QED
    BY <1>3, <2>3, <2>4 DEF Unauthorized
<1>4. ASSUME NEW t \in Tabs, LoggedIn(t) PROVE WaitInv'
  <2> DEFINE h == tab[t].login
  <2>1. /\ h \in Handlers /\ h # 0 /\ Dropped(h) /\ OtherTabsKept(t) /\ request' = request
        /\ tab'[t].flight = tab[t].flight /\ tab'[t].login = 0
    BY <1>4, LoggedInTab, SessionsAssumption DEF LoggedIn, WaitsFor, Handlers
  <2>2. handler[h].op = "login" /\ \A s \in Tabs \ {t} : tab[s].login # h
    BY <2>1 DEF WaitInv, LoginWaits
  <2>3. \A s \in Tabs : tab[s].flight # h
    BY <2>1, <2>2 DEF WaitInv, FlightWaits
  <2> HIDE DEF h
  <2>4. \A s \in Tabs \ {t} : /\ tab[s].flight # 0 => handler'[tab[s].flight] = handler[tab[s].flight]
                              /\ tab[s].login # 0 => handler'[tab[s].login] = handler[tab[s].login]
    BY <1>0, <2>1, <2>2, <2>3, Awaiting DEF Dropped, OthersKept
  <2>5. tab[t].flight # 0 => handler'[tab[t].flight] = handler[tab[t].flight]
    BY <1>0, <2>1, <2>3, Awaiting DEF Dropped, OthersKept
  <2>6. FlightWaits(t)' /\ LoginWaits(t)'
    BY <2>1, <2>5 DEF WaitInv, FlightWaits, LoginWaits, At
  <2>7. \A r \in Requests : RequestWaits(r)'
    BY <2>1, RequestsKept
  <2>8. \A s \in Tabs \ {t} : tab'[t].flight # 0 => tab'[t].flight # tab[s].flight
    BY <2>1 DEF WaitInv
  <2> QED
    BY <2>1, <2>4, <2>6, <2>7, <2>8, WaitKept
<1>5. ASSUME NEW t \in Tabs, SignOut(t) PROVE WaitInv'
  <2>1. PICK h \in Handlers : Free(h) /\ Started(h, "logout", owner[tab[t].token], tab[t].token)
    BY <1>5, SignOutTab
  <2>2. /\ OtherTabsKept(t) /\ request' = request
        /\ tab'[t].flight = tab[t].flight /\ tab'[t].login = tab[t].login
    BY <1>5, SignOutTab DEF SignOut, WaitsFor
  <2>3. \A s \in Tabs : tab[s].flight # h /\ tab[s].login # h
    BY <1>0, <2>1, FreeIsUnawaited
  <2>4. \A s \in Tabs : /\ tab[s].flight # 0 => handler'[tab[s].flight] = handler[tab[s].flight]
                        /\ tab[s].login # 0 => handler'[tab[s].login] = handler[tab[s].login]
    BY <1>0, <2>1, <2>3, Awaiting DEF Started, OthersKept
  <2>5. FlightWaits(t)' /\ LoginWaits(t)'
    BY <2>2, <2>4 DEF WaitInv, FlightWaits, LoginWaits, At
  <2>6. \A r \in Requests : RequestWaits(r)'
    BY <2>2, RequestsKept
  <2>7. \A s \in Tabs \ {t} : /\ tab'[t].flight # 0 => tab'[t].flight # tab[s].flight
                              /\ tab'[t].login # 0 => tab'[t].login # tab[s].login
    BY <2>2 DEF WaitInv
  <2> QED
    BY <2>2, <2>4, <2>5, <2>6, <2>7, WaitKept
<1>6. ASSUME NEW t \in Tabs, Refreshed(t) PROVE WaitInv'
  <2> DEFINE h == tab[t].flight
  <2>1. /\ h \in Handlers /\ h # 0 /\ Dropped(h) /\ OtherTabsKept(t)
        /\ tab'[t].flight = 0 /\ tab'[t].login = tab[t].login
    BY <1>6, RefreshedTab, SessionsAssumption DEF Refreshed, WaitsFor, Handlers
  <2>2. handler[h].op = "refresh" /\ \A s \in Tabs \ {t} : tab[s].flight # h
    BY <2>1 DEF WaitInv, FlightWaits
  <2>3. \A s \in Tabs : tab[s].login # h
    BY <2>1, <2>2 DEF WaitInv, LoginWaits
  <2>4. \A r \in Requests : \/ request'[r] = request[r] /\ r \notin Waiting(t)
                            \/ request'[r].pc # "waiting"
    BY <1>0, <1>6 DEF Refreshed, GivenUp, NoRequest, TypeOK, Request
  <2> HIDE DEF h
  <2>5. \A s \in Tabs \ {t} : /\ tab[s].flight # 0 => handler'[tab[s].flight] = handler[tab[s].flight]
                              /\ tab[s].login # 0 => handler'[tab[s].login] = handler[tab[s].login]
    BY <1>0, <2>1, <2>2, <2>3, Awaiting DEF Dropped, OthersKept
  <2>6. tab[t].login # 0 => handler'[tab[t].login] = handler[tab[t].login]
    BY <1>0, <2>1, <2>3, Awaiting DEF Dropped, OthersKept
  <2>7. FlightWaits(t)' /\ LoginWaits(t)'
    BY <2>1, <2>6 DEF WaitInv, FlightWaits, LoginWaits, At
  <2>8. \A r \in Requests : RequestWaits(r)'
    BY <2>1, <2>4, RequestsKept
  <2>9. \A s \in Tabs \ {t} : tab'[t].login # 0 => tab'[t].login # tab[s].login
    BY <2>1 DEF WaitInv
  <2> QED
    BY <2>1, <2>5, <2>7, <2>8, <2>9, WaitKept
<1>7. ASSUME NEW t \in Tabs, TimesOut(t) PROVE WaitInv'
  <2>1. handler' = handler /\ OtherTabsKept(t) /\ tab'[t].flight = 0 /\ tab'[t].login = tab[t].login
    BY <1>7, TimesOutTab DEF TimesOut, WaitsFor
  <2>2. \A r \in Requests : \/ request'[r] = request[r] /\ r \notin Waiting(t)
                            \/ request'[r].pc # "waiting"
    BY <1>0, <1>7 DEF TimesOut, GivenUp, NoRequest, TypeOK, Request
  <2>3. FlightWaits(t)' /\ LoginWaits(t)'
    BY <2>1 DEF WaitInv, FlightWaits, LoginWaits, At
  <2>4. \A r \in Requests : RequestWaits(r)'
    BY <2>1, <2>2, RequestsKept
  <2>5. \A s \in Tabs \ {t} : tab'[t].login # 0 => tab'[t].login # tab[s].login
    BY <2>1 DEF WaitInv
  <2> QED
    BY <2>1, <2>3, <2>4, <2>5, WaitKept
<1>8. ASSUME NEW t \in Tabs, Reload(t) PROVE WaitInv'
  <2>1. OtherTabsKept(t) /\ tab'[t].flight = 0 /\ tab'[t].login = 0
    BY <1>8, ReloadTab DEF WaitsFor
  <2>2. ASSUME NEW s \in Tabs \ {t}, NEW h \in Handlers, h \in {tab[s].flight, tab[s].login}
        PROVE  handler'[h] = handler[h]
    <3>1. h # 0
      BY SessionsAssumption DEF Handlers
    <3>2. h \notin {tab[t].flight, tab[t].login}
      BY <2>2, <3>1 DEF WaitInv, FlightWaits, LoginWaits
    <3> QED
      BY <1>8, <3>2, ReloadTab
  <2>3. \A s \in Tabs \ {t} : /\ tab[s].flight # 0 => handler'[tab[s].flight] = handler[tab[s].flight]
                              /\ tab[s].login # 0 => handler'[tab[s].login] = handler[tab[s].login]
    BY <1>0, <2>2, Awaiting
  <2>4. \A r \in Requests : \/ request'[r] = request[r] /\ r \notin Waiting(t)
                            \/ request'[r].pc # "waiting"
    BY <1>0, <1>8 DEF Reload, Waiting, NoRequest, TypeOK
  <2>5. FlightWaits(t)' /\ LoginWaits(t)'
    BY <2>1 DEF FlightWaits, LoginWaits
  <2>6. \A r \in Requests : RequestWaits(r)'
    BY <2>1, <2>4, RequestsKept
  <2> QED
    BY <2>1, <2>3, <2>5, <2>6, WaitKept
<1>9. ASSUME NEW t \in Tabs, NEW u \in Users, Login(t, u) PROVE WaitInv'
  <2>1. PICK h \in Handlers : /\ Free(h) /\ Started(h, "login", u, 0)
                              /\ OtherTabsKept(t) /\ WaitsFor(t, tab[t].flight, tab[t].crossed, h)
    BY <1>0, <1>9, LoginTab
  <2>2. request' = request
    BY <1>9 DEF Login
  <2>3. \A s \in Tabs : tab[s].flight # h /\ tab[s].login # h
    BY <1>0, <2>1, FreeIsUnawaited
  <2>4. \A s \in Tabs : /\ tab[s].flight # 0 => handler'[tab[s].flight] = handler[tab[s].flight]
                        /\ tab[s].login # 0 => handler'[tab[s].login] = handler[tab[s].login]
    BY <1>0, <2>1, <2>3, Awaiting DEF Started, OthersKept
  <2>5. FlightWaits(t)'
    BY <2>1, <2>4 DEF WaitInv, FlightWaits, WaitsFor, At
  <2>6. LoginWaits(t)'
    BY <2>1 DEF LoginWaits, WaitsFor, Started, At
  <2>7. \A r \in Requests : RequestWaits(r)'
    BY <2>1, <2>2, RequestsKept DEF WaitsFor
  <2>8. \A s \in Tabs \ {t} : /\ tab'[t].flight # 0 => tab'[t].flight # tab[s].flight
                              /\ tab'[t].login # tab[s].login
    BY <2>1, <2>3 DEF WaitInv, WaitsFor
  <2> QED
    BY <2>1, <2>4, <2>5, <2>6, <2>7, <2>8, WaitKept
<1>10. ASSUME NEW t \in Tabs, NEW s \in Tabs, Duplicate(t, s) PROVE WaitInv'
  <2>1. handler' = handler /\ request' = request
    BY <1>10 DEF Duplicate
  <2>2. /\ OtherTabsKept(s) /\ tab'[s].flight = 0 /\ tab'[s].login = 0 /\ tab[s].flight = 0
    BY <1>10, DuplicateTab DEF WaitsFor
  <2>3. FlightWaits(s)' /\ LoginWaits(s)'
    BY <2>2 DEF FlightWaits, LoginWaits
  <2>4. \A r \in Requests : RequestWaits(r)'
    BY <2>1, <2>2, RequestsKept
  <2> QED
    BY <2>1, <2>2, <2>3, <2>4, WaitKept
<1> QED
  BY <1>1, <1>2, <1>3, <1>4, <1>5, <1>6, <1>7, <1>8, <1>9, <1>10 DEF Next

LEMMA WaitStep == Core /\ WaitInv /\ [Next]_vars => WaitInv'
<1>1. Core /\ WaitInv /\ Next => WaitInv'
  BY WaitServe, WaitBrowse
<1>2. WaitInv /\ UNCHANGED vars => WaitInv'
  BY DEF vars, client, WaitInv, FlightWaits, LoginWaits, RequestWaits, At
<1> QED
  BY <1>1, <1>2

\* A step of the client of t is right if it is right for t.
LEMMA BelongKept ==
    ASSUME Core, WaitInv, BelongInv, owner' = owner, NEW t \in Tabs, OtherTabsKept(t),
           \A s \in Tabs \ {t} : tab[s].flight # 0 => handler'[tab[s].flight] = handler[tab[s].flight],
           ~tab'[t].foreign /\ tab'[t].token # 0 => tab'[t].user = owner[tab'[t].token],
           FlightBelongs(t)',
           \A h \in Handlers : \/ handler'[h] = handler[h]
                               \/ handler'[h].answer = "none"
    PROVE  BelongInv'
<1>1. \A s \in Tabs \ {t} : FlightBelongs(s)'
  BY DEF OtherTabsKept, BelongInv, FlightBelongs, Busy
<1>2. TokensBelongToUser'
  BY DEF OtherTabsKept, BelongInv, TokensBelongToUser
<1>3. \A h \in Handlers : ~At(h, "reply")' => handler'[h].answer = "none"
  BY DEF BelongInv, At
<1> QED
  BY <1>1, <1>2, <1>3 DEF BelongInv

LEMMA BelongBrowse ==
    ASSUME Core, WaitInv, BelongInv, Next, ~\E h \in Handlers : Serve(h) \/ HandlerFails(h)
    PROVE  BelongInv'
<1>0. TypeOK /\ owner' = owner
  BY BrowserToRedis DEF Core, redis
<1>1. ASSUME NEW r \in Requests, RetryAnswered(r) PROVE BelongInv'
  BY <1>0, <1>1 DEF RetryAnswered, BelongInv, TokensBelongToUser, FlightBelongs, Busy, At
<1>2. ASSUME NEW r \in Requests, RetryRefused(r) PROVE BelongInv'
  <2>1. UNCHANGED handler
    BY <1>2 DEF RetryRefused
  <2>2. CASE tab' = tab
    BY <1>0, <2>1, <2>2 DEF BelongInv, TokensBelongToUser, FlightBelongs, Busy, At
  <2>3. CASE tab' # tab
    <3>1. PICK t \in Tabs :
          /\ OtherTabsKept(t) /\ StoreOf(t, NoUser, 0, FALSE)
          /\ WaitsFor(t, tab[t].flight, tab[t].flight # 0, tab[t].login)
      BY <1>2, <2>3, RetryRefusedTab
    <3>2. FlightBelongs(t)'
      BY <3>1 DEF FlightBelongs, WaitsFor
    <3> QED
      BY <1>0, <2>1, <3>1, <3>2, BelongKept DEF StoreOf
  <2> QED
    BY <2>2, <2>3
<1>3. ASSUME NEW r \in Requests, NEW t \in Tabs, Unauthorized(r, t) PROVE BelongInv'
  <2>1. CASE UNCHANGED <<handler, tab>>
    BY <1>0, <2>1 DEF BelongInv, TokensBelongToUser, FlightBelongs, Busy, At
  <2>2. CASE ~UNCHANGED <<handler, tab>>
    <3>1. PICK h \in Handlers : /\ Free(h) /\ Started(h, "refresh", owner[tab[t].token], tab[t].token)
                                /\ WaitsFor(t, h, FALSE, tab[t].login)
      BY <1>3, <2>2, UnauthorizedTab
    <3>2. OtherTabsKept(t) /\ StoreKept(t) /\ tab[t].token \in 1 .. issued
      BY <1>3, <2>2, UnauthorizedTab
    <3>3. \A s \in Tabs : tab[s].flight # h
      BY <1>0, <3>1, FreeIsUnawaited
    <3>4. \A s \in Tabs : tab[s].flight # 0 => handler'[tab[s].flight] = handler[tab[s].flight]
      BY <1>0, <3>1, <3>3, Awaiting DEF Started, OthersKept
    <3>5. \A g \in Handlers : handler'[g] = handler[g] \/ handler'[g].answer = "none"
      BY <3>1 DEF Started, OthersKept
    <3>6. tab[t].token # 0
      BY <3>2
    <3>7. ~tab'[t].foreign /\ tab'[t].token # 0 => tab'[t].user = owner[tab'[t].token]
      BY <3>2 DEF StoreKept, StoreOf, BelongInv, TokensBelongToUser
    <3>8. FlightBelongs(t)'
      BY <3>1, <3>2, <3>6 DEF FlightBelongs, WaitsFor, StoreKept, StoreOf, Started,
                              BelongInv, TokensBelongToUser
    <3> QED
      BY <1>0, <3>2, <3>4, <3>5, <3>7, <3>8, BelongKept
  <2> QED
    BY <2>1, <2>2
<1>4. ASSUME NEW t \in Tabs, LoggedIn(t) PROVE BelongInv'
  <2> DEFINE h == tab[t].login
  <2>1. h \in Handlers /\ h # 0 /\ Dropped(h) /\ OtherTabsKept(t)
    BY <1>4, LoggedInTab, SessionsAssumption DEF LoggedIn, Handlers
  <2>2. \A s \in Tabs : tab[s].flight # h
    BY <2>1 DEF WaitInv, FlightWaits, LoginWaits
  <2>3. \/ StoreKept(t) /\ WaitsFor(t, tab[t].flight, tab[t].crossed, 0)
        \/ \E k : /\ StoreOf(t, owner[k], k, FALSE)
                  /\ WaitsFor(t, tab[t].flight, tab[t].flight # 0, 0)
    BY <1>4, LoggedInTab
  <2> HIDE DEF h
  <2>4. \A s \in Tabs : tab[s].flight # 0 => handler'[tab[s].flight] = handler[tab[s].flight]
    BY <1>0, <2>1, <2>2, Awaiting DEF Dropped, OthersKept
  <2>5. \A g \in Handlers : handler'[g] = handler[g] \/ handler'[g].answer = "none"
    BY <2>1 DEF Dropped, OthersKept, IsIdle
  <2>6. CASE StoreKept(t) /\ WaitsFor(t, tab[t].flight, tab[t].crossed, 0)
    <3>1. FlightBelongs(t)'
      BY <1>0, <2>4, <2>6 DEF FlightBelongs, WaitsFor, StoreKept, StoreOf, BelongInv, Busy
    <3>2. ~tab'[t].foreign /\ tab'[t].token # 0 => tab'[t].user = owner[tab'[t].token]
      BY <2>6 DEF StoreKept, StoreOf, BelongInv, TokensBelongToUser
    <3> QED
      BY <1>0, <2>1, <2>4, <2>5, <3>1, <3>2, BelongKept
  <2>7. CASE \E k : /\ StoreOf(t, owner[k], k, FALSE)
                    /\ WaitsFor(t, tab[t].flight, tab[t].flight # 0, 0)
    <3>1. FlightBelongs(t)'
      BY <2>7 DEF FlightBelongs, WaitsFor
    <3>2. ~tab'[t].foreign /\ tab'[t].token # 0 => tab'[t].user = owner[tab'[t].token]
      BY <2>7 DEF StoreOf
    <3> QED
      BY <1>0, <2>1, <2>4, <2>5, <3>1, <3>2, BelongKept
  <2> QED
    BY <2>3, <2>6, <2>7
<1>5. ASSUME NEW t \in Tabs, SignOut(t) PROVE BelongInv'
  <2>1. PICK h \in Handlers : Free(h) /\ Started(h, "logout", owner[tab[t].token], tab[t].token)
    BY <1>5, SignOutTab
  <2>2. /\ OtherTabsKept(t) /\ StoreOf(t, NoUser, 0, FALSE)
        /\ WaitsFor(t, tab[t].flight, tab[t].flight # 0, tab[t].login)
    BY <1>5, SignOutTab
  <2>3. \A s \in Tabs : tab[s].flight # h
    BY <1>0, <2>1, FreeIsUnawaited
  <2>4. \A s \in Tabs : tab[s].flight # 0 => handler'[tab[s].flight] = handler[tab[s].flight]
    BY <1>0, <2>1, <2>3, Awaiting DEF Started, OthersKept
  <2>5. \A g \in Handlers : handler'[g] = handler[g] \/ handler'[g].answer = "none"
    BY <2>1 DEF Started, OthersKept
  <2>6. FlightBelongs(t)'
    BY <2>2 DEF FlightBelongs, WaitsFor
  <2> QED
    BY <1>0, <2>2, <2>4, <2>5, <2>6, BelongKept DEF StoreOf
<1>6. ASSUME NEW t \in Tabs, Refreshed(t) PROVE BelongInv'
  <2> DEFINE h == tab[t].flight
  <2>1. h \in Handlers /\ h # 0 /\ Dropped(h) /\ OtherTabsKept(t) /\ tab'[t].flight = 0
    BY <1>6, RefreshedTab DEF Refreshed, WaitsFor
  <2>2. \A s \in Tabs \ {t} : tab[s].flight # h
    BY <2>1 DEF WaitInv
  <2>3. ~tab'[t].foreign /\ tab'[t].token # 0 => tab'[t].user = owner[tab'[t].token]
    <3>1. CASE StoreKept(t)
      BY <3>1 DEF StoreKept, StoreOf, BelongInv, TokensBelongToUser
    <3>2. CASE StoreOf(t, NoUser, 0, FALSE)
      BY <3>2 DEF StoreOf
    <3>3. CASE /\ handler[h].answer = "ok"
               /\ StoreOf(t, tab[t].user, handler[h].fresh, tab[t].foreign \/ tab[t].crossed)
      BY <2>1, <3>3 DEF StoreOf, BelongInv, FlightBelongs
    <3> QED
      BY <1>6, <3>1, <3>2, <3>3, RefreshedTab
  <2> HIDE DEF h
  <2>4. \A s \in Tabs \ {t} : tab[s].flight # 0 => handler'[tab[s].flight] = handler[tab[s].flight]
    BY <1>0, <2>1, <2>2, Awaiting DEF Dropped, OthersKept
  <2>5. \A g \in Handlers : handler'[g] = handler[g] \/ handler'[g].answer = "none"
    BY <2>1 DEF Dropped, OthersKept, IsIdle
  <2>6. FlightBelongs(t)'
    BY <2>1 DEF FlightBelongs
  <2> QED
    BY <1>0, <2>1, <2>3, <2>4, <2>5, <2>6, BelongKept
<1>7. ASSUME NEW t \in Tabs, TimesOut(t) PROVE BelongInv'
  <2>1. handler' = handler /\ OtherTabsKept(t) /\ StoreKept(t) /\ tab'[t].flight = 0
    BY <1>7, TimesOutTab DEF TimesOut, WaitsFor
  <2>2. ~tab'[t].foreign /\ tab'[t].token # 0 => tab'[t].user = owner[tab'[t].token]
    BY <2>1 DEF StoreKept, StoreOf, BelongInv, TokensBelongToUser
  <2>3. FlightBelongs(t)'
    BY <2>1 DEF FlightBelongs
  <2> QED
    BY <1>0, <2>1, <2>2, <2>3, BelongKept
<1>8. ASSUME NEW t \in Tabs, Reload(t) PROVE BelongInv'
  <2>1. /\ OtherTabsKept(t) /\ tab'[t].flight = 0
        /\ StoreOf(t, NoUser, 0, FALSE) \/ StoreKept(t)
    BY <1>8, ReloadTab DEF WaitsFor
  <2>2. ~tab'[t].foreign /\ tab'[t].token # 0 => tab'[t].user = owner[tab'[t].token]
    BY <2>1 DEF StoreKept, StoreOf, BelongInv, TokensBelongToUser
  <2>3. ASSUME NEW s \in Tabs \ {t}, tab[s].flight # 0
        PROVE  handler'[tab[s].flight] = handler[tab[s].flight]
    <3>1. tab[s].flight \notin {tab[t].flight, tab[t].login}
      BY <2>3 DEF WaitInv, FlightWaits, LoginWaits
    <3> QED
      BY <1>0, <1>8, <2>3, <3>1, ReloadTab, Awaiting
  <2>4. \A g \in Handlers : handler'[g] = handler[g] \/ handler'[g].answer = "none"
    BY <1>8, ReloadTab DEF IsIdle
  <2>5. FlightBelongs(t)'
    BY <2>1 DEF FlightBelongs
  <2> QED
    BY <1>0, <2>1, <2>2, <2>3, <2>4, <2>5, BelongKept
<1>9. ASSUME NEW t \in Tabs, NEW u \in Users, Login(t, u) PROVE BelongInv'
  <2>1. PICK h \in Handlers : /\ Free(h) /\ Started(h, "login", u, 0) /\ OtherTabsKept(t) /\ StoreKept(t)
                              /\ WaitsFor(t, tab[t].flight, tab[t].crossed, h)
    BY <1>0, <1>9, LoginTab
  <2>2. \A s \in Tabs : tab[s].flight # h
    BY <1>0, <2>1, FreeIsUnawaited
  <2>3. \A s \in Tabs : tab[s].flight # 0 => handler'[tab[s].flight] = handler[tab[s].flight]
    BY <1>0, <2>1, <2>2, Awaiting DEF Started, OthersKept
  <2>4. \A g \in Handlers : handler'[g] = handler[g] \/ handler'[g].answer = "none"
    BY <2>1 DEF Started, OthersKept
  <2>5. ~tab'[t].foreign /\ tab'[t].token # 0 => tab'[t].user = owner[tab'[t].token]
    BY <2>1 DEF StoreKept, StoreOf, BelongInv, TokensBelongToUser
  <2>6. FlightBelongs(t)'
    BY <1>0, <2>1, <2>3 DEF FlightBelongs, WaitsFor, StoreKept, StoreOf, BelongInv, Busy
  <2> QED
    BY <1>0, <2>1, <2>3, <2>4, <2>5, <2>6, BelongKept
<1>10. ASSUME NEW t \in Tabs, NEW s \in Tabs, Duplicate(t, s) PROVE BelongInv'
  <2>1. handler' = handler
    BY <1>10 DEF Duplicate
  <2>2. /\ OtherTabsKept(s) /\ tab'[s].flight = 0
        /\ StoreOf(s, tab[t].user, tab[t].token, tab[t].foreign)
    BY <1>10, DuplicateTab DEF WaitsFor
  <2>3. ~tab'[s].foreign /\ tab'[s].token # 0 => tab'[s].user = owner[tab'[s].token]
    BY <2>2 DEF StoreOf, BelongInv, TokensBelongToUser
  <2>4. FlightBelongs(s)'
    BY <2>2 DEF FlightBelongs
  <2> QED
    BY <1>0, <2>1, <2>2, <2>3, <2>4, BelongKept
<1> QED
  BY <1>1, <1>2, <1>3, <1>4, <1>5, <1>6, <1>7, <1>8, <1>9, <1>10 DEF Next

LEMMA BelongStep == Core /\ WaitInv /\ BelongInv /\ [Next]_vars => BelongInv'
<1>1. Core /\ WaitInv /\ BelongInv /\ Next => BelongInv'
  BY BelongServe, BelongBrowse
<1>2. BelongInv /\ UNCHANGED vars => BelongInv'
  BY DEF vars, client, redis, BelongInv, TokensBelongToUser, FlightBelongs, Busy, At
<1> QED
  BY <1>1, <1>2

LEMMA InitWait == Init => WaitInv /\ BelongInv
<1> SUFFICES ASSUME Init PROVE WaitInv /\ BelongInv
  OBVIOUS
<1>1. \A t \in Tabs : tab[t].flight = 0 /\ tab[t].login = 0 /\ tab[t].token = 0
  BY NoSessionType DEF Init
<1>2. \A r \in Requests : request[r].pc # "waiting"
  BY DEF Init, NoRequest
<1>3. \A h \in Handlers : handler[h].answer = "none"
  BY IdleType DEF Init, IsIdle
<1> QED
  BY <1>1, <1>2, <1>3 DEF WaitInv, FlightWaits, LoginWaits, RequestWaits,
                          BelongInv, TokensBelongToUser, FlightBelongs

\* Whatever ends a refresh takes everybody along who waits for it.
THEOREM WaitersAreServed == Spec => []NobodyWaitsInVain
<1>1. WaitInv => NobodyWaitsInVain
  BY DEF WaitInv, FlightWaits, RequestWaits, NobodyWaitsInVain
<1> QED
  BY <1>1, InitCore, InitWait, CoreStep, WaitStep, PTL DEF Spec

\* The tokens of a tab are those of the user it shows, unless a sign-out or a login
\* overtook a refresh.
THEOREM TokensBelong == Spec => []TokensBelongToUser
<1>1. BelongInv => TokensBelongToUser
  BY DEF BelongInv
<1> QED
  BY <1>1, InitCore, InitWait, CoreStep, WaitStep, BelongStep, PTL DEF Spec


-----------------------------------------------------------------------------
(* The fifth layer: as long as nothing failed, every token that can be       *)
(* exchanged has exactly one place: a tab, an answer on its way to one, or a *)
(* logout on its way to spend it.                                            *)

\* The token h carries outside the tabs: the new one of its answer, or the one of a logout.
Held(h) == IF At(h, "reply") THEN handler[h].fresh
           ELSE IF At(h, "consume") /\ handler[h].op = "logout" THEN handler[h].token ELSE 0

\* h exchanges a token for somebody who waits; it is never refused, so nobody is revoked.
CalmHandler(h) ==
    /\ handler[h].pc \in {"idle", "consume", "mark", "save", "reply"}
    /\ At(h, "reply") => handler[h].answer = "ok"
    /\ Busy(h) /\ handler[h].op # "logout" => Awaited(h)
    /\ At(h, "save") => handler[h].op # "logout"
    /\ Held(h) # 0 => Held(h) \in active

\* The token of t can be exchanged until the refresh of t has done so.
CalmTab(t) ==
    /\ tab[t].user # NoUser <=> tab[t].token # 0
    /\ tab[t].login # 0 => tab[t].token = 0
    /\ tab[t].flight # 0 => tab[t].token # 0
    /\ tab[t].flight # 0 /\ At(tab[t].flight, "consume") => handler[tab[t].flight].token = tab[t].token
    /\ tab[t].token # 0 => (tab[t].token \in active <=> tab[t].flight = 0 \/ At(tab[t].flight, "consume"))

OnePlace ==
    /\ \A s, t \in Tabs : s # t /\ tab[s].token # 0 => tab[s].token # tab[t].token
    /\ \A g, h \in Handlers : g # h /\ Held(g) # 0 => Held(g) # Held(h)
    /\ \A h \in Handlers, t \in Tabs : Held(h) # 0 => Held(h) # tab[t].token

SomePlace == \A k \in active : \/ \E t \in Tabs : tab[t].token = k
                               \/ \E h \in Handlers : Held(h) = k

Calm == /\ \A h \in Handlers : CalmHandler(h)
        /\ \A t \in Tabs : CalmTab(t)
        /\ OnePlace /\ SomePlace

CalmInv == mishaps = 0 => Calm

\* A handler at "consume" works on a token that can be exchanged.
LEMMA ConsumesActive ==
    ASSUME Core, WaitInv, Calm, NEW h \in Handlers, At(h, "consume")
    PROVE  handler[h].token \in active
<1>1. handler[h].op \in {"refresh", "logout"} /\ handler[h].token # 0 /\ Busy(h)
  BY DEF Core, TypeOK, Handler, KnowledgeInv, TokensKnown, HandlerKnown, Busy, At
<1>2. CASE handler[h].op = "logout"
  BY <1>1, <1>2 DEF Calm, CalmHandler, Held, At
<1>3. CASE handler[h].op = "refresh"
  <2>1. PICK t \in Tabs : tab[t].flight = h \/ tab[t].login = h
    BY <1>1, <1>3 DEF Calm, CalmHandler, Awaited
  <2>2. h # 0 /\ tab[t].flight = h
    BY <1>3, <2>1, SessionsAssumption DEF WaitInv, LoginWaits, Handlers
  <2> QED BY <2>2 DEF Calm, CalmTab
<1> QED BY <1>1, <1>2, <1>3

\* What is carried, or in a tab, has been issued.
LEMMA HeldKnown ==
    ASSUME Core, Calm
    PROVE  /\ \A h \in Handlers : Held(h) \in 0 .. issued
           /\ \A t \in Tabs : tab[t].token \in 0 .. issued
           /\ active \subseteq 1 .. issued /\ issued \in Nat
<1>1. issued \in Nat
  BY SessionsAssumption DEF Core, TypeOK
<1>2. ASSUME NEW h \in Handlers PROVE Held(h) \in 0 .. issued
  BY <1>1 DEF Core, KnowledgeInv, HandlerKnown, Calm, CalmHandler, Held, Busy, At
<1> QED BY <1>1, <1>2 DEF Core, KnowledgeInv, TokensKnown, TabKnown

LEMMA CalmServe ==
    ASSUME Core, WaitInv, Calm, NEW h \in Handlers, Serve(h)
    PROVE  Calm'
<1>0. TypeOK /\ UNCHANGED tab /\ \A g \in Handlers : Awaited(g)' <=> Awaited(g)
  BY ServerToBrowser DEF Core, client, Awaited
<1>1. CASE Consume(h)
  <2> DEFINE k == handler[h].token
  <2>1. k \in active /\ Busy(h) /\ At(h, "consume") /\ handler[h].op # "login" /\ k # 0
    BY <1>1, ConsumesActive DEF Consume, Core, KnowledgeInv, TokensKnown, HandlerKnown, Busy, At
  <2>2. Moved(h, "mark") /\ active' = active \ {k}
    BY <1>0, <1>1, <2>1, ConsumeMoves DEF Consume
  <2>3. Held(h)' = 0 /\ \A g \in Handlers \ {h} : Held(g)' = Held(g)
    BY <2>2 DEF Moved, OthersKept, Held, At
  <2>4. \A g \in Handlers \ {h} : Held(g) # k \/ Held(g) = 0
    <3>1. CASE handler[h].op = "logout"
      BY <2>1, <3>1 DEF Calm, OnePlace, Held, At
    <3>2. CASE handler[h].op # "logout"
      <4>1. PICK t \in Tabs : tab[t].flight = h \/ tab[t].login = h
        BY <2>1, <3>2 DEF Calm, CalmHandler, Awaited
      <4>2. h # 0 /\ tab[t].flight = h
        BY <2>1, <4>1, SessionsAssumption DEF WaitInv, LoginWaits, Handlers
      <4>3. tab[t].token = k
        BY <2>1, <4>2 DEF Calm, CalmTab
      <4> QED BY <4>3 DEF Calm, OnePlace
    <3> QED BY <3>1, <3>2
  <2>5. ASSUME NEW g \in Handlers PROVE CalmHandler(g)'
    BY <1>0, <2>1, <2>2, <2>3, <2>4 DEF Calm, CalmHandler, Moved, OthersKept, Busy, At
  <2>6. ASSUME NEW t \in Tabs PROVE CalmTab(t)'
    <3>1. CASE tab[t].flight = h
      <4>1. h # 0 /\ tab[t].token = k
        BY <2>1, <3>1, SessionsAssumption DEF Calm, CalmTab, Handlers
      <4>2. handler'[h].pc = "mark"
        BY <2>2 DEF Moved
      <4> QED BY <1>0, <2>2, <3>1, <4>1, <4>2 DEF Calm, CalmTab, At
    <3>2. CASE tab[t].flight # h
      <4>1. tab[t].flight # 0 => handler'[tab[t].flight] = handler[tab[t].flight]
        BY <1>0, <2>2, <3>2, Awaiting DEF Moved, OthersKept
      <4>2. tab[t].token # k
        <5>1. CASE handler[h].op = "logout"
          BY <2>1, <5>1 DEF Calm, OnePlace, Held, At
        <5>2. CASE handler[h].op # "logout"
          <6>1. PICK s \in Tabs : tab[s].flight = h \/ tab[s].login = h
            BY <2>1, <5>2 DEF Calm, CalmHandler, Awaited
          <6>2. h # 0 /\ tab[s].flight = h
            BY <2>1, <6>1, SessionsAssumption DEF WaitInv, LoginWaits, Handlers
          <6>3. tab[s].token = k /\ s # t
            BY <2>1, <3>2, <6>2 DEF Calm, CalmTab
          <6> QED BY <2>1, <6>3 DEF Calm, OnePlace
        <5> QED BY <5>1, <5>2
      <4> QED BY <1>0, <2>2, <4>1, <4>2 DEF Calm, CalmTab, At
    <3> QED BY <3>1, <3>2
  <2>7. OnePlace'
    BY <1>0, <2>3 DEF Calm, OnePlace
  <2>8. SomePlace'
    <3>1. Held(h) \in {0, k}
      BY <2>1 DEF Held, At
    <3>2. 0 \notin active
      BY <1>0 DEF Core, KnowledgeInv, TokensKnown
    <3> QED BY <1>0, <2>2, <2>3, <3>1, <3>2 DEF Calm, SomePlace
  <2> QED BY <2>5, <2>6, <2>7, <2>8 DEF Calm
<1>2. CASE MarkUsed(h)
  <2>1. At(h, "mark") /\ active' = active
    BY <1>2 DEF MarkUsed
  <2>2. /\ OthersKept(h) /\ handler'[h].pc \in {"idle", "save"}
        /\ handler'[h].pc = "save" => handler[h].op # "logout" /\ handler'[h].op = handler[h].op
    BY <1>0, <1>2, MarkUsedMoves DEF Moved, Dropped, IsIdle
  <2>3. Held(h) = 0 /\ Held(h)' = 0 /\ \A g \in Handlers \ {h} : Held(g)' = Held(g)
    BY <2>1, <2>2 DEF OthersKept, Held, At
  <2>4. ASSUME NEW g \in Handlers PROVE CalmHandler(g)'
    BY <1>0, <2>1, <2>2, <2>3 DEF Calm, CalmHandler, OthersKept, Busy, At
  <2>5. ASSUME NEW t \in Tabs PROVE CalmTab(t)'
    <3>1. tab[t].flight # 0 => tab[t].flight \in Handlers
      BY <1>0, Awaiting
    <3> QED BY <1>0, <2>1, <2>2, <3>1 DEF Calm, CalmTab, OthersKept, At
  <2>6. OnePlace' /\ SomePlace'
    BY <1>0, <2>1, <2>3 DEF Calm, OnePlace, SomePlace
  <2> QED BY <2>4, <2>5, <2>6 DEF Calm
<1>3. CASE Lookup(h) \/ ListTokens(h) \/ DeleteListed(h) \/ DropList(h)
  BY <1>3 DEF Lookup, ListTokens, DeleteListed, DropList, Calm, CalmHandler, At
<1>4. CASE Save(h)
  <2> DEFINE k == issued + 1
  <2>1. /\ Ended(h, "ok", k) /\ At(h, "save") /\ active' = active \cup {k}
    BY <1>0, <1>4, SaveEnds DEF Save
  <2>2. Awaited(h)
    BY <2>1 DEF Calm, CalmHandler, Busy, At
  <2>3. /\ OthersKept(h) /\ handler'[h].pc = "reply" /\ handler'[h].answer = "ok"
        /\ handler'[h].fresh = k
    BY <2>1, <2>2 DEF Ended
  <2>4. Held(h) = 0 /\ Held(h)' = k /\ \A g \in Handlers \ {h} : Held(g)' = Held(g)
    BY <2>1, <2>3 DEF OthersKept, Held, At
  <2>5. k # 0 /\ k \notin active /\ (\A g \in Handlers : Held(g) # k) /\ \A t \in Tabs : tab[t].token # k
    BY HeldKnown
  <2> HIDE DEF k
  <2>6. ASSUME NEW g \in Handlers PROVE CalmHandler(g)'
    BY <1>0, <2>1, <2>3, <2>4 DEF Calm, CalmHandler, OthersKept, Busy, At
  <2>7. ASSUME NEW t \in Tabs PROVE CalmTab(t)'
    <3>1. tab[t].flight # 0 => tab[t].flight \in Handlers
      BY <1>0, Awaiting
    <3> QED BY <1>0, <2>1, <2>3, <2>5, <3>1 DEF Calm, CalmTab, OthersKept, At
  <2>8. OnePlace'
    BY <1>0, <2>4, <2>5 DEF Calm, OnePlace
  <2>9. SomePlace'
    <3>1. ASSUME NEW j \in active
          PROVE  (\E t \in Tabs : tab[t].token = j) \/ \E g \in Handlers : Held(g)' = j
      <4>1. j # 0
        BY HeldKnown
      <4> QED BY <2>4, <4>1 DEF Calm, SomePlace
    <3> QED BY <1>0, <2>1, <2>4, <3>1 DEF SomePlace
  <2> QED BY <2>6, <2>7, <2>8, <2>9 DEF Calm
<1> QED
  BY <1>1, <1>2, <1>3, <1>4 DEF Serve

\* A step of the client of t with the help of h: the tokens the two carry are handed over
\* or kept, and none that can be exchanged is dropped.
LEMMA CalmKept ==
    ASSUME Core, WaitInv, Calm, active' = active,
           NEW t \in Tabs, NEW h \in Handlers, OtherTabsKept(t), OthersKept(h),
           \A s \in Tabs \ {t} : tab[s].flight # h,
           tab[t].flight \in {0, h, tab'[t].flight}, tab[t].login \in {0, h, tab'[t].login},
           CalmTab(t)', CalmHandler(h)',
           tab'[t].token \in {0, tab[t].token, Held(h)}, Held(h)' \in {0, tab[t].token, Held(h)},
           tab'[t].token # 0 => tab'[t].token # Held(h)',
           Held(h) # 0 => Held(h) \in {tab'[t].token, Held(h)'},
           tab[t].token \in active => tab[t].token \in {tab'[t].token, Held(h)'}
    PROVE  Calm'
<1>0. TypeOK /\ 0 \notin active /\ 0 \notin Handlers
  BY SessionsAssumption DEF Core, KnowledgeInv, TokensKnown, Handlers
<1>1. \A g \in Handlers \ {h} : Held(g)' = Held(g)
  BY DEF OthersKept, Held, At
<1>2. ASSUME NEW g \in Handlers \ {h} PROVE CalmHandler(g)'
  <2>1. Awaited(g) => Awaited(g)'
    BY <1>0 DEF Awaited, OtherTabsKept
  <2> QED BY <1>1, <2>1 DEF Calm, CalmHandler, OthersKept, Busy, At
<1>3. ASSUME NEW s \in Tabs \ {t} PROVE CalmTab(s)'
  <2>1. tab[s].flight # 0 => handler'[tab[s].flight] = handler[tab[s].flight]
    BY <1>0, Awaiting DEF OthersKept
  <2> QED BY <2>1 DEF Calm, CalmTab, OtherTabsKept, At
<1>4. OnePlace'
  <2>1. \A s \in Tabs \ {t} : tab'[s].token = tab[s].token
    BY DEF OtherTabsKept
  <2>2. \A s \in Tabs \ {t} : tab'[t].token # 0 => tab'[t].token # tab[s].token
    BY DEF Calm, OnePlace
  <2>3. \A s \in Tabs \ {t} : Held(h)' # 0 => Held(h)' # tab[s].token
    BY DEF Calm, OnePlace
  <2>4. \A g \in Handlers \ {h} : Held(g) # 0 => Held(g) # tab'[t].token /\ Held(g) # Held(h)'
    BY DEF Calm, OnePlace
  <2> QED BY <1>1, <2>1, <2>2, <2>3, <2>4 DEF Calm, OnePlace
<1>5. SomePlace'
  BY <1>0, <1>1 DEF Calm, SomePlace, OtherTabsKept
<1> QED BY <1>2, <1>3, <1>4, <1>5 DEF Calm

LEMMA CalmBrowse ==
    ASSUME Core, WaitInv, Calm, mishaps = 0, mishaps' = 0, Next,
           ~\E h \in Handlers : Serve(h) \/ HandlerFails(h)
    PROVE  Calm'
<1>0. TypeOK /\ UNCHANGED <<issued, owner, active>>
  BY BrowserToRedis DEF Core, redis
<1>1. ASSUME UNCHANGED <<handler, tab>> PROVE Calm'
  BY <1>0, <1>1 DEF Calm, CalmHandler, CalmTab, OnePlace, SomePlace, Held, Awaited, Busy, At
<1>2. ASSUME NEW r \in Requests, RetryAnswered(r) PROVE Calm'
  BY <1>1, <1>2 DEF RetryAnswered
<1>3. ASSUME NEW r \in Requests, NEW t \in Tabs, Unauthorized(r, t) PROVE Calm'
  <2>1. CASE UNCHANGED <<handler, tab>>
    BY <1>1, <2>1
  <2>2. CASE ~UNCHANGED <<handler, tab>>
    <3> DEFINE k == tab[t].token
    <3>1. PICK h \in Handlers : /\ Free(h) /\ Started(h, "refresh", owner[k], k)
                                /\ WaitsFor(t, h, FALSE, tab[t].login)
      BY <1>3, <2>2, UnauthorizedTab
    <3>2. OtherTabsKept(t) /\ StoreKept(t) /\ k \in 1 .. issued /\ tab[t].flight = 0
      BY <1>3, <2>2, UnauthorizedTab
    <3>3. \A s \in Tabs : tab[s].flight # h
      BY <1>0, <3>1, FreeIsUnawaited
    <3>4. Held(h) = 0 /\ Held(h)' = 0 /\ OthersKept(h) /\ h # 0
      BY <3>1, SessionsAssumption DEF Free, Started, Held, At, Handlers
    <3>5. CalmHandler(h)'
      BY <3>1, <3>4 DEF CalmHandler, Started, WaitsFor, Awaited, Busy, At
    <3>6. CalmTab(t)'
      BY <1>0, <3>1, <3>2, <3>4 DEF Calm, CalmTab, Started, WaitsFor, StoreKept, StoreOf, At
    <3> QED
      BY <1>0, <3>1, <3>2, <3>3, <3>4, <3>5, <3>6, CalmKept DEF WaitsFor, StoreKept, StoreOf
  <2> QED BY <2>1, <2>2
<1>4. ASSUME NEW t \in Tabs, LoggedIn(t) PROVE Calm'
  <2>1. PICK h \in Handlers : /\ h = tab[t].login /\ h # 0
                              /\ Dropped(h) /\ OtherTabsKept(t) /\ At(h, "reply")
    BY <1>4, LoggedInTab, SessionsAssumption DEF LoggedIn, Handlers
  <2>2. handler[h].answer = "ok" /\ tab[t].token = 0 /\ tab[t].flight = 0
    BY <2>1 DEF Calm, CalmHandler, CalmTab
  <2> DEFINE k == handler[h].fresh
  <2>3. StoreOf(t, owner[k], k, FALSE) /\ WaitsFor(t, 0, FALSE, 0)
    BY <1>4, <2>1, <2>2, LoggedInTab
  <2>4. k \in 1 .. issued /\ owner[k] # NoUser
    BY <2>1, <2>2, SessionsAssumption DEF Core, KnowledgeInv, TokensKnown, HandlerKnown
  <2>5. Held(h) = k /\ Held(h)' = 0
    BY <2>1 DEF Held, Dropped, IsIdle, At
  <2>6. \A s \in Tabs : tab[s].flight # h
    BY <2>1 DEF WaitInv, FlightWaits, LoginWaits
  <2>7. CalmHandler(h)'
    BY <2>1, <2>5 DEF CalmHandler, Dropped, IsIdle, Busy, At
  <2>8. CalmTab(t)'
    <3>1. k \in active
      BY <2>1, <2>4, <2>5 DEF Calm, CalmHandler
    <3> QED BY <1>0, <2>3, <2>4, <3>1 DEF CalmTab, StoreOf, WaitsFor
  <2> HIDE DEF k
  <2> QED
    BY <1>0, <2>1, <2>2, <2>3, <2>5, <2>6, <2>7, <2>8, CalmKept DEF Dropped, StoreOf, WaitsFor
<1>5. ASSUME NEW t \in Tabs, SignOut(t) PROVE Calm'
  <2> DEFINE k == tab[t].token
  <2>1. PICK h \in Handlers : Free(h) /\ Started(h, "logout", owner[k], k)
    BY <1>5, SignOutTab
  <2>2. tab[t].flight = 0 /\ tab[t].user # NoUser
    BY <1>5 DEF SignOut, Overtaking
  <2>3. /\ OtherTabsKept(t) /\ StoreOf(t, NoUser, 0, FALSE)
        /\ WaitsFor(t, 0, FALSE, tab[t].login) /\ k \in 1 .. issued
    BY <1>5, <2>2, SignOutTab
  <2>4. \A s \in Tabs : tab[s].flight # h
    BY <1>0, <2>1, FreeIsUnawaited
  <2>5. Held(h) = 0 /\ Held(h)' = k /\ OthersKept(h)
    BY <2>1 DEF Free, Started, Held, At
  <2>6. k \in active /\ tab[t].login = 0
    BY <2>2, <2>3 DEF Calm, CalmTab
  <2>7. CalmHandler(h)'
    BY <1>0, <2>1, <2>5, <2>6 DEF CalmHandler, Started, Busy, At
  <2>8. CalmTab(t)'
    BY <2>3, <2>6 DEF CalmTab, StoreOf, WaitsFor
  <2> QED
    BY <1>0, <2>2, <2>3, <2>4, <2>5, <2>6, <2>7, <2>8, CalmKept DEF StoreOf, WaitsFor
<1>6. ASSUME NEW t \in Tabs, Refreshed(t) PROVE Calm'
  <2>1. PICK h \in Handlers : /\ h = tab[t].flight /\ h # 0
                              /\ Dropped(h) /\ OtherTabsKept(t) /\ At(h, "reply")
                              /\ WaitsFor(t, 0, FALSE, tab[t].login)
    BY <1>6, RefreshedTab DEF Refreshed
  <2>2. handler[h].answer = "ok"
    BY <2>1 DEF Calm, CalmHandler
  <2> DEFINE k == handler[h].fresh
  <2>3. tab'[t].user = tab[t].user /\ tab'[t].token = k /\ k \in 1 .. issued
    BY <1>6, <2>1, <2>2, RefreshedTab DEF StoreOf
  <2>4. tab[t].token # 0 /\ tab[t].token \notin active /\ tab[t].login = 0
    BY <2>1 DEF Calm, CalmTab, At
  <2>5. Held(h) = k /\ Held(h)' = 0
    BY <2>1 DEF Held, Dropped, IsIdle, At
  <2>6. \A s \in Tabs \ {t} : tab[s].flight # h
    BY <2>1 DEF WaitInv
  <2>7. CalmHandler(h)'
    BY <2>1, <2>5 DEF CalmHandler, Dropped, IsIdle, Busy, At
  <2>8. CalmTab(t)'
    <3>1. k \in active
      BY <2>1, <2>3, <2>5 DEF Calm, CalmHandler
    <3> QED BY <1>0, <2>1, <2>3, <2>4, <3>1 DEF Calm, CalmTab, WaitsFor
  <2> HIDE DEF k
  <2> QED
    BY <1>0, <2>1, <2>3, <2>4, <2>5, <2>6, <2>7, <2>8, CalmKept DEF Dropped, WaitsFor
<1>7. ASSUME NEW t \in Tabs, Reload(t) PROVE Calm'
  <2>1. tab[t].flight = 0 /\ tab[t].login = 0
    BY <1>0, <1>7 DEF Reload, Mishap
  <2>2. handler' = handler
    <3>1. \A h \in Handlers : handler'[h] = handler[h]
      <4>1. 0 \notin Handlers
        BY SessionsAssumption DEF Handlers
      <4>2. \A h \in Handlers : handler'[h] = handler[h] \/ h \in {tab[t].flight, tab[t].login}
        BY <1>7, ReloadTab
      <4> QED BY <2>1, <4>1, <4>2
    <3>2. handler' \in [Handlers -> Handler] /\ handler \in [Handlers -> Handler]
      BY <1>0, <1>7, ReloadTab DEF TypeOK
    <3> QED BY <3>1, <3>2
  <2>3. /\ OtherTabsKept(t) /\ tab'[t].flight = 0 /\ tab'[t].login = 0
        /\ tab'[t].user = tab[t].user /\ tab'[t].token = tab[t].token
    BY <1>7, ReloadTab DEF Calm, CalmTab, StoreOf, StoreKept, WaitsFor
  <2>4. \A s \in Tabs : /\ tab'[s].flight = tab[s].flight /\ tab'[s].login = tab[s].login
                        /\ tab'[s].user = tab[s].user /\ tab'[s].token = tab[s].token
    BY <2>1, <2>3 DEF OtherTabsKept
  <2> QED
    BY <1>0, <2>2, <2>4 DEF Calm, CalmHandler, CalmTab, OnePlace, SomePlace, Held, Awaited, Busy, At
<1>8. ASSUME NEW t \in Tabs, NEW u \in Users, Login(t, u) PROVE Calm'
  <2>1. PICK h \in Handlers : /\ Free(h) /\ Started(h, "login", u, 0) /\ OtherTabsKept(t) /\ StoreKept(t)
                              /\ WaitsFor(t, tab[t].flight, tab[t].crossed, h)
    BY <1>0, <1>8, LoginTab
  <2>2. tab[t].token = 0 /\ tab[t].flight = 0 /\ tab[t].login = 0
    BY <1>8 DEF Login, Calm, CalmTab
  <2>3. \A s \in Tabs : tab[s].flight # h
    BY <1>0, <2>1, FreeIsUnawaited
  <2>4. Held(h) = 0 /\ Held(h)' = 0 /\ OthersKept(h)
    BY <2>1 DEF Free, Started, Held, At
  <2>5. CalmHandler(h)'
    BY <2>1, <2>4 DEF CalmHandler, Started, WaitsFor, Awaited, Busy, At
  <2>6. CalmTab(t)'
    BY <2>1, <2>2 DEF Calm, CalmTab, WaitsFor, StoreKept, StoreOf
  <2> QED
    BY <1>0, <2>1, <2>2, <2>3, <2>4, <2>5, <2>6, CalmKept DEF WaitsFor, StoreKept, StoreOf
<1>9. ASSUME NEW r \in Requests, RetryRefused(r) PROVE FALSE
  BY <1>0, <1>9 DEF RetryRefused, Mishap
<1>10. ASSUME NEW t \in Tabs, TimesOut(t) PROVE FALSE
  BY <1>0, <1>10 DEF TimesOut, Mishap
<1>11. ASSUME NEW t \in Tabs, NEW s \in Tabs, Duplicate(t, s) PROVE FALSE
  BY <1>0, <1>11 DEF Duplicate, Mishap
<1> QED
  BY <1>2, <1>3, <1>4, <1>5, <1>6, <1>7, <1>8, <1>9, <1>10, <1>11 DEF Next

\* A mishap is never forgotten, and a handler that fails is one.
LEMMA MishapsStay ==
    ASSUME TypeOK, Next, mishaps' = 0
    PROVE  mishaps = 0 /\ ~\E h \in Handlers : HandlerFails(h)
<1>0. mishaps \in Nat
  BY SessionsAssumption DEF TypeOK
<1>1. ASSUME NEW h \in Handlers, Serve(h) PROVE mishaps = 0
  BY <1>1 DEF Serve, Consume, MarkUsed, Lookup, ListTokens, DeleteListed, DropList, Save
<1>2. ASSUME NEW h \in Handlers, HandlerFails(h) PROVE FALSE
  BY <1>0, <1>2 DEF HandlerFails, Mishap, Overtaking
<1>3. ASSUME NEW r \in Requests, \/ RetryAnswered(r) \/ RetryRefused(r)
                                 \/ \E t \in Tabs : Unauthorized(r, t)
      PROVE  mishaps = 0
  BY <1>0, <1>3 DEF RetryAnswered, RetryRefused, Unauthorized, Mishap
<1>4. ASSUME NEW t \in Tabs,
             \/ LoggedIn(t) \/ SignOut(t) \/ Refreshed(t) \/ TimesOut(t) \/ Reload(t)
             \/ \E u \in Users : Login(t, u)
             \/ \E s \in Tabs : Duplicate(t, s)
      PROVE  mishaps = 0
  BY <1>0, <1>4 DEF LoggedIn, SignOut, Refreshed, TimesOut, Reload, Login, Duplicate, Mishap, Overtaking
<1> QED
  BY <1>0, <1>1, <1>2, <1>3, <1>4 DEF Next

LEMMA CalmStep == Core /\ WaitInv /\ CalmInv /\ [Next]_vars => CalmInv'
<1>1. Core /\ WaitInv /\ CalmInv /\ Next => CalmInv'
  <2> SUFFICES ASSUME Core, WaitInv, CalmInv, Next, mishaps' = 0 PROVE Calm'
    BY DEF CalmInv
  <2>1. mishaps = 0 /\ ~\E h \in Handlers : HandlerFails(h)
    BY MishapsStay DEF Core
  <2>2. Calm
    BY <2>1 DEF CalmInv
  <2> QED
    BY <2>1, <2>2, CalmServe, CalmBrowse
<1>2. CalmInv /\ UNCHANGED vars => CalmInv'
  BY DEF vars, redis, client, CalmInv, Calm, CalmHandler, CalmTab, OnePlace, SomePlace, Held, Awaited, Busy, At
<1> QED
  BY <1>1, <1>2

LEMMA InitCalm == Init => CalmInv
<1> SUFFICES ASSUME Init PROVE Calm
  BY DEF CalmInv
<1>1. \A t \in Tabs : tab[t].flight = 0 /\ tab[t].login = 0 /\ tab[t].token = 0 /\ tab[t].user = NoUser
  BY NoSessionType DEF Init
<1>2. \A h \in Handlers : handler[h].pc = "idle"
  BY IdleType DEF Init, IsIdle
<1>3. \A h \in Handlers : Held(h) = 0
  BY <1>2 DEF Held, At
<1> QED
  BY <1>1, <1>2, <1>3 DEF Init, Calm, CalmHandler, CalmTab, OnePlace, SomePlace, Busy, At

\* As long as nothing failed, every token that can be exchanged is in a tab, on its way to
\* one, or on its way to be spent by a logout.
THEOREM NoneLeaks == Spec => []NothingLeaks
<1>1. Core /\ CalmInv => NothingLeaks
  <2> SUFFICES ASSUME Core, Calm, mishaps = 0, NEW k \in active,
                      \A t \in Tabs : tab[t].token # k
               PROVE  \E h \in Handlers : \/ handler[h].fresh = k
                                          \/ At(h, "consume") /\ handler[h].token = k
    BY DEF CalmInv, NothingLeaks
  <2>1. PICK h \in Handlers : Held(h) = k
    BY DEF Calm, SomePlace
  <2>2. k # 0
    BY DEF Core, KnowledgeInv, TokensKnown
  <2> QED
    BY <2>1, <2>2 DEF Held
<1> QED
  BY <1>1, InitCore, InitWait, InitCalm, CoreStep, WaitStep, CalmStep, PTL DEF Spec

\* As long as nothing failed, a session ends under its user only when they sign out: no
\* two requests that find the token expired at once, and no late 401, end it.
THEOREM SessionsLast == Spec => NoSpuriousExpiry
<1> DEFINE Lasts == mishaps' = 0 =>
                \A t \in Tabs : tab[t].user # NoUser /\ tab'[t].user = NoUser => SignOut(t)
<1>1. Core /\ WaitInv /\ CalmInv /\ [Next]_vars => [Lasts]_vars
  <2> SUFFICES ASSUME Core, WaitInv, CalmInv, Next, mishaps' = 0, NEW t \in Tabs,
                      tab[t].user # NoUser, tab'[t].user = NoUser
               PROVE  SignOut(t)
    OBVIOUS
  <2>0. TypeOK /\ Calm
    BY MishapsStay DEF Core, CalmInv
  <2>1. ASSUME NEW h \in Handlers, Serve(h) \/ HandlerFails(h) PROVE FALSE
    BY <2>1, ServerToBrowser DEF client
  <2>2. ASSUME NEW r \in Requests, RetryAnswered(r) \/ RetryRefused(r) PROVE FALSE
    BY <2>0, <2>2, SessionsAssumption DEF RetryAnswered, RetryRefused, Mishap, TypeOK
  <2>3. ASSUME NEW r \in Requests, NEW s \in Tabs, Unauthorized(r, s) PROVE FALSE
    BY <2>3, UnauthorizedTab DEF OtherTabsKept, StoreKept, StoreOf
  <2>4. ASSUME NEW s \in Tabs, LoggedIn(s) PROVE FALSE
    <3>1. ASSUME NEW h \in Handlers, handler[h].answer = "ok" PROVE owner[handler[h].fresh] # NoUser
      BY <3>1, SessionsAssumption DEF Core, KnowledgeInv, TokensKnown, HandlerKnown
    <3> QED BY <2>4, <3>1, LoggedInTab DEF OtherTabsKept, StoreKept, StoreOf
  <2>5. ASSUME NEW s \in Tabs, SignOut(s) PROVE SignOut(t)
    BY <2>5, SignOutTab DEF OtherTabsKept
  <2>6. ASSUME NEW s \in Tabs, Refreshed(s) PROVE FALSE
    <3>1. \A h \in Handlers : At(h, "reply") => handler[h].answer = "ok"
      BY <2>0 DEF Calm, CalmHandler
    <3> QED BY <2>6, <3>1, RefreshedTab DEF OtherTabsKept, StoreOf
  <2>7. ASSUME NEW s \in Tabs, TimesOut(s) PROVE FALSE
    BY <2>7, TimesOutTab DEF OtherTabsKept, StoreKept, StoreOf
  <2>8. ASSUME NEW s \in Tabs, Reload(s) PROVE FALSE
    BY <2>0, <2>8, ReloadTab DEF OtherTabsKept, StoreKept, StoreOf, Calm, CalmTab
  <2>9. ASSUME NEW s \in Tabs, NEW u \in Users, Login(s, u) PROVE FALSE
    BY <2>0, <2>9, LoginTab DEF OtherTabsKept, StoreKept, StoreOf
  <2>10. ASSUME NEW s \in Tabs, NEW x \in Tabs, Duplicate(s, x) PROVE FALSE
    BY <2>10, DuplicateTab DEF OtherTabsKept, StoreOf, Duplicate
  <2> QED
    BY <2>1, <2>2, <2>3, <2>4, <2>5, <2>6, <2>7, <2>8, <2>9, <2>10 DEF Next
<1> QED
  BY <1>1, InitCore, InitWait, InitCalm, CoreStep, WaitStep, CalmStep, PTL DEF Spec, NoSpuriousExpiry
=============================================================================
