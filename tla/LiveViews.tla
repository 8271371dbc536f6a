------------------------------- MODULE LiveViews -------------------------------
(***************************************************************************)
(* What a browser shows of a case while things happen: the trace worker    *)
(* stores and publishes the hops of a walk (workers/trace/engine.ts), the  *)
(* monitor stores and publishes alerts, the API relays what is published   *)
(* to the sockets in the room of the case (apps/api/src/realtime), and the *)
(* browser puts together what it fetched and what it heard                 *)
(* (apps/web/src/features/graph and features/alerts). One case, one trace, *)
(* one browser, with one of the two pages open; a page left and opened     *)
(* again is mounted anew, but finds the answers that react-query kept.     *)
(***************************************************************************)
EXTENDS HeaviestPath

CONSTANTS
    Turns,         \* turns of the walk
    TurnOf,        \* TurnOf[h]: the turn that comes to hop h
    Quiet,         \* hops stored without an event: into bridges, of high-degree services
    FlushAt,       \* rows that are written at once
    Attempts,      \* attempts of the trace job
    Alerts,
    Minima,        \* minimum values the officer filters by
    NoMin,         \* no minimum
    AlertList,     \* the query of the alerts page
    NoData,
    MaxMishaps,    \* failed calls, dead processes and lost connections (bound)
    MaxReads       \* reads of the server (bound)

ASSUME LiveViewsAssumption ==
    /\ Turns \in Nat /\ FlushAt \in Nat \ {0} /\ Attempts \in Nat \ {0}
    /\ TurnOf \in [Hops -> 1 .. Turns] /\ Quiet \subseteq Hops
    /\ NoMin \in Minima \ Nat /\ Minima \ {NoMin} \subseteq Nat
    /\ Hops \cap Alerts = {}
    /\ {NoData, AlertList} \cap (Hops \cup Alerts \cup Minima) = {} /\ NoData # AlertList
    /\ MaxMishaps \in Nat /\ MaxReads \in Nat

VARIABLES
    walk,       \* the run of the trace: its place, next turn, rows not yet written, attempts left
    status,     \* TraceJob.status
    stored,     \* Hop rows
    alert,      \* alert[a]: none, stored, or stored and published
    channel,    \* events published on Redis that the API has not relayed
    inRoom,     \* the API has the socket of the browser in the room of the case
    wire,       \* events sent to that socket
    socket,     \* the browser's side: down, joining (the join is under way) or up
    page,       \* the page that is open
    minimum,    \* the filter of the graph page
    live,       \* hops heard since the graph page was opened
    done,       \* the page says "Trace complete"
    seen,       \* alerts heard since the alerts page was opened
    cache,      \* what react-query keeps: cache[k] is the last answer to query k
    last,       \* the last query of this page that had data
    get,        \* the query of the page: none, asked, answered with rows, or failed
    missed,     \* (observation) what this page cannot know from events
    mishaps,
    reads

server == <<walk, status, stored, alert>>
browser == <<page, minimum, live, done, seen, cache, last, get>>
vars == <<server, channel, inRoom, wire, socket, browser, missed, mishaps, reads>>

Nothing == {NoData}   \* no answer yet
Queries == Minima \cup {AlertList}
NoGet == [stage |-> "none", rows |-> {}]

Hop(h) == [kind |-> "hop", of |-> h]
Heard(events, kind) == {e.of : e \in {x \in ToSet(events) : x.kind = kind}}

Init ==
    /\ walk = [at |-> "queued", turn |-> 1, buffer |-> {}, left |-> Attempts]
    /\ status = "QUEUED" /\ stored = {}
    /\ alert = [a \in Alerts |-> "none"]
    /\ channel = <<>> /\ wire = <<>>
    /\ inRoom = FALSE /\ socket = "down"
    /\ page \in {"graph", "alerts"} /\ minimum = NoMin
    /\ live = {} /\ done = FALSE /\ seen = {}
    /\ cache = [q \in Queries |-> Nothing] /\ last = NoData
    /\ get = [NoGet EXCEPT !.stage = "asked"]
    /\ missed = {} /\ mishaps = 0 /\ reads = 1

Mishap == mishaps < MaxMishaps /\ mishaps' = mishaps + 1

-----------------------------------------------------------------------------
(* The trace worker *)

\* runTrace on a COMPLETED row only announces it again, without terminals.
Start ==
    /\ walk.at = "queued" /\ walk.left > 0
    /\ IF status = "COMPLETED"
       THEN /\ walk' = [walk EXCEPT !.at = "again", !.left = @ - 1]
            /\ UNCHANGED status
       ELSE /\ walk' = [at |-> "walking", turn |-> 1, buffer |-> {}, left |-> walk.left - 1]
            /\ status' = "RUNNING"
    /\ UNCHANGED <<stored, alert, channel, inRoom, wire, socket, browser, missed, mishaps, reads>>

\* persistEdges publishes the hops of a turn at once, richest first; they are only buffered so far.
Richer(g, h) == IF Weight(g) = Weight(h) THEN Rank[g] < Rank[h] ELSE Weight(g) > Weight(h)

Announcements(turn) ==
    LET hops == {h \in Hops \ Quiet : TurnOf[h] = turn}
        place(h) == Cardinality({g \in hops : Richer(g, h)}) + 1
    IN  [i \in 1 .. Cardinality(hops) |-> Hop(CHOOSE h \in hops : place(h) = i)]

Full == Cardinality(walk.buffer) >= FlushAt

Turn ==
    /\ walk.at = "walking" /\ walk.turn <= Turns /\ ~Full
    /\ walk' = [walk EXCEPT !.turn = @ + 1,
                            !.buffer = @ \cup {h \in Hops : TurnOf[h] = walk.turn}]
    /\ channel' = channel \o Announcements(walk.turn)
    /\ UNCHANGED <<status, stored, alert, inRoom, wire, socket, browser, missed, mishaps, reads>>

Flush ==
    /\ walk.at = "walking" /\ walk.buffer # {}
    /\ Full \/ walk.turn > Turns
    /\ stored' = stored \cup walk.buffer
    /\ walk' = [walk EXCEPT !.buffer = {}]
    /\ UNCHANGED <<status, alert, channel, inRoom, wire, socket, browser, missed, mishaps, reads>>

Finish ==
    /\ walk.at = "walking" /\ walk.turn > Turns /\ walk.buffer = {}
    /\ status' = "COMPLETED"
    /\ walk' = [walk EXCEPT !.at = "completed"]
    /\ UNCHANGED <<stored, alert, channel, inRoom, wire, socket, browser, missed, mishaps, reads>>

Announce ==
    /\ walk.at \in {"completed", "again"}
    /\ channel' = Append(channel, [kind |-> "done"])
    /\ walk' = [walk EXCEPT !.at = "over"]
    /\ UNCHANGED <<status, stored, alert, inRoom, wire, socket, browser, missed, mishaps, reads>>

\* A call fails: some of what was to be published may be out. The last attempt marks the row,
\* but for one that only announced it again: that is done before the try block.
WalkFails ==
    /\ Mishap
    /\ walk.at \in {"walking", "completed", "again"}
    /\ \/ UNCHANGED channel
       \/ /\ walk.at = "walking" /\ walk.turn <= Turns /\ ~Full
          /\ \E n \in DOMAIN Announcements(walk.turn) :
                channel' = channel \o SubSeq(Announcements(walk.turn), 1, n)
    /\ walk' = [walk EXCEPT !.at = IF walk.left = 0 THEN "over" ELSE "queued"]
    /\ status' = IF walk.left = 0 /\ walk.at # "again" THEN "FAILED" ELSE status
    /\ UNCHANGED <<stored, alert, inRoom, wire, socket, browser, missed, reads>>

\* The worker dies; BullMQ hands the job out again.
WorkerDies ==
    /\ Mishap
    /\ walk.at \in {"walking", "completed", "again"}
    /\ walk' = [walk EXCEPT !.at = IF walk.left = 0 THEN "over" ELSE "queued"]
    /\ UNCHANGED <<status, stored, alert, channel, inRoom, wire, socket, browser, missed, reads>>

(* The monitor: an alert is published once its row is there *)
Raise(a) ==
    /\ alert[a] = "none"
    /\ alert' = [alert EXCEPT ![a] = "stored"]
    /\ UNCHANGED <<walk, status, stored, channel, inRoom, wire, socket, browser, missed, mishaps, reads>>

Publish(a) ==
    /\ alert[a] = "stored"
    /\ alert' = [alert EXCEPT ![a] = "published"]
    /\ channel' = Append(channel, [kind |-> "alert", of |-> a])
    /\ UNCHANGED <<walk, status, stored, inRoom, wire, socket, browser, missed, mishaps, reads>>

-----------------------------------------------------------------------------
(* The relay: to whoever is in the room at that moment *)

Lose(events) == missed' = missed \cup Heard(events, "hop") \cup Heard(events, "alert")

Relay ==
    /\ channel # <<>>
    /\ channel' = Tail(channel)
    /\ IF inRoom
       THEN /\ wire' = Append(wire, Head(channel))
            /\ UNCHANGED missed
       ELSE /\ Lose(<<Head(channel)>>)
            /\ UNCHANGED wire
    /\ UNCHANGED <<server, inRoom, socket, browser, mishaps, reads>>

\* The API restarts, or its subscription breaks: Redis keeps nothing for it.
RelayDies ==
    /\ Mishap
    /\ channel' = <<>> /\ wire' = <<>>
    /\ Lose(channel \o wire)
    /\ inRoom' = FALSE /\ socket' = "down"
    /\ UNCHANGED <<server, browser, reads>>

\* onConnect joins the room: the server forgets rooms when a socket drops.
Connect ==
    /\ socket = "down"
    /\ socket' = "joining"
    /\ UNCHANGED <<server, channel, inRoom, wire, browser, missed, mishaps, reads>>

Joined ==
    /\ socket = "joining"
    /\ socket' = "up" /\ inRoom' = TRUE
    /\ UNCHANGED <<server, channel, wire, browser, missed, mishaps, reads>>

Disconnect ==
    /\ Mishap
    /\ socket # "down"
    /\ socket' = "down" /\ inRoom' = FALSE
    /\ wire' = <<>> /\ Lose(wire)
    /\ UNCHANGED <<server, channel, browser, reads>>

-----------------------------------------------------------------------------
(* The graph page *)

\* The server's filter (usd >= minimum, which no unpriced hop passes) and the page's own.
Listed(h, min) == min = NoMin \/ (Usd[h] # Unpriced /\ Usd[h] >= min)
Passes(h, min) == min = NoMin \/ Weight(h) >= min

\* What the page draws from: the answer to its query; while that loads, the last one it had.
Loaded == IF cache[minimum] # Nothing THEN cache[minimum]
          ELSE IF get.stage = "failed" \/ last = NoData THEN {} ELSE cache[last]
Drawn == cache[minimum] # Nothing \/ (get.stage # "failed" /\ last # NoData)
Shown == IF Drawn THEN Loaded \cup live ELSE {}

\* onHop keeps a hop that passes the filter of the moment; mergeHop adds it if it is not there.
HearHop ==
    /\ page = "graph" /\ wire # <<>> /\ Head(wire).kind = "hop"
    /\ wire' = Tail(wire)
    /\ LET h == Head(wire).of
       IN  IF Passes(h, minimum)
           THEN live' = live \cup {h} /\ missed' = missed \ {h}
           ELSE missed' = missed \cup {h} /\ UNCHANGED live
    /\ UNCHANGED <<server, channel, inRoom, socket, page, minimum, done, seen, cache, last, get, mishaps, reads>>

HearDone ==
    /\ page = "graph" /\ wire # <<>> /\ Head(wire).kind = "done"
    /\ wire' = Tail(wire)
    /\ done' = TRUE
    /\ UNCHANGED <<server, channel, inRoom, socket, page, minimum, live, seen, cache, last, get, missed, mishaps, reads>>

\* No handler of the open page listens to these.
Ignore ==
    /\ wire # <<>> /\ (page = "graph") # (Head(wire).kind \in {"hop", "done"})
    /\ wire' = Tail(wire) /\ Lose(<<Head(wire)>>)
    /\ UNCHANGED <<server, channel, inRoom, socket, browser, mishaps, reads>>

\* Another filter is another query: the one under way is aborted; an answer kept from before
\* is shown at once, and fetched anew only when it is stale.
SetMinimum(m) ==
    /\ page = "graph" /\ m # minimum /\ reads < MaxReads
    /\ minimum' = m
    /\ last' = IF cache[minimum] # Nothing THEN minimum ELSE last
    /\ \/ get' = [NoGet EXCEPT !.stage = "asked"] /\ reads' = reads + 1
       \/ cache[m] # Nothing /\ get' = NoGet /\ UNCHANGED reads
    /\ UNCHANGED <<server, channel, inRoom, wire, socket, page, live, done, seen, cache, missed, mishaps>>

-----------------------------------------------------------------------------
(* The alerts page *)

\* Variant: a read under way when the alert is heard is left to bring it.
HearAlertOnce ==
    /\ page = "alerts" /\ wire # <<>> /\ Head(wire).kind = "alert"
    /\ wire' = Tail(wire)
    /\ LET a == Head(wire).of
       IN  /\ seen' = seen \cup {a}
           /\ get' = IF a \in seen \/ get.stage \in {"asked", "answered"} THEN get
                     ELSE [NoGet EXCEPT !.stage = "asked"]
           /\ missed' = IF cache[AlertList] = Nothing /\ get.stage = "answered"
                        THEN missed \cup ({a} \ get.rows) ELSE missed
    /\ UNCHANGED <<server, channel, inRoom, socket, page, minimum, live, done, cache, last, mishaps, reads>>

\* An alert heard for the first time invalidates the list: a read under way is given up for a
\* new one, unless it is the first of the list, which goes on.
HearAlert ==
    /\ page = "alerts" /\ wire # <<>> /\ Head(wire).kind = "alert"
    /\ wire' = Tail(wire)
    /\ LET a == Head(wire).of
           first == cache[AlertList] = Nothing /\ get.stage \in {"asked", "answered"}
       IN  /\ seen' = seen \cup {a}
           /\ get' = IF a \in seen \/ first THEN get ELSE [NoGet EXCEPT !.stage = "asked"]
           /\ missed' = IF first /\ get.stage = "answered" THEN missed \cup ({a} \ get.rows) ELSE missed
    /\ UNCHANGED <<server, channel, inRoom, socket, page, minimum, live, done, cache, last, mishaps, reads>>

-----------------------------------------------------------------------------
(* Queries *)

Query == IF page = "graph" THEN minimum ELSE AlertList

\* The server answers with the rows there are at that moment ...
Read ==
    /\ get.stage = "asked"
    /\ get' = [stage |-> "answered",
               rows |-> IF page = "graph" THEN {h \in stored : Listed(h, minimum)}
                        ELSE {a \in Alerts : alert[a] # "none"}]
    /\ UNCHANGED <<server, channel, inRoom, wire, socket, page, minimum, live, done, seen, cache, last,
                   missed, mishaps, reads>>

\* Variant: what was heard live is dropped when an answer comes, for the answer has it.
ReceiveInstead ==
    /\ get.stage = "answered"
    /\ cache' = [cache EXCEPT ![Query] = get.rows]
    /\ get' = NoGet
    /\ live' = {}
    /\ UNCHANGED <<server, channel, inRoom, wire, socket, page, minimum, done, seen, last, missed, mishaps, reads>>

\* ... and the answer comes when it comes.
Receive ==
    /\ get.stage = "answered"
    /\ cache' = [cache EXCEPT ![Query] = get.rows]
    /\ get' = NoGet
    /\ UNCHANGED <<server, channel, inRoom, wire, socket, page, minimum, live, done, seen, last, missed, mishaps, reads>>

\* Two retries have failed as well.
GetFails ==
    /\ Mishap
    /\ get.stage \in {"asked", "answered"}
    /\ get' = [NoGet EXCEPT !.stage = "failed"]
    /\ UNCHANGED <<server, channel, inRoom, wire, socket, page, minimum, live, done, seen, cache, last, missed, reads>>

\* The officer retries or refreshes, or the network comes back.
Refetch ==
    /\ get.stage \in {"none", "failed"} /\ reads < MaxReads
    /\ get' = [NoGet EXCEPT !.stage = "asked"]
    /\ reads' = reads + 1
    /\ UNCHANGED <<server, channel, inRoom, wire, socket, page, minimum, live, done, seen, cache, last, missed, mishaps>>

\* The other page, or the same one again: a new socket, nothing heard yet, no filter; an answer
\* kept from before is shown, and fetched anew only when it is stale.
Open(p) ==
    /\ reads < MaxReads
    /\ page' = p /\ minimum' = NoMin
    /\ live' = {} /\ done' = FALSE /\ seen' = {} /\ last' = NoData
    /\ socket' = "down" /\ inRoom' = FALSE /\ wire' = <<>>
    /\ missed' = missed \cup live \cup seen \cup Heard(wire, "hop") \cup Heard(wire, "alert")
    /\ reads' = reads + 1
    /\ \/ get' = [NoGet EXCEPT !.stage = "asked"]
       \/ cache[IF p = "graph" THEN NoMin ELSE AlertList] # Nothing /\ get' = NoGet
    /\ UNCHANGED <<server, channel, cache, mishaps>>

-----------------------------------------------------------------------------
Worker == Start \/ Turn \/ Flush \/ Finish \/ Announce
Hear == HearHop \/ HearDone \/ HearAlert \/ Ignore

Next ==
    \/ Worker \/ WalkFails \/ WorkerDies
    \/ \E a \in Alerts : Raise(a) \/ Publish(a)
    \/ Relay \/ RelayDies \/ Connect \/ Joined \/ Disconnect
    \/ Hear
    \/ \E m \in Minima : SetMinimum(m)
    \/ Read \/ Receive \/ GetFails \/ Refetch
    \/ \E p \in {"graph", "alerts"} : Open(p)

Spec == Init /\ [][Next]_vars

-----------------------------------------------------------------------------
\* Hops are published before they are stored, and a read may come between: so a hop that was
\* heard stays beside what is fetched. A stored hop that the filter lists is on screen or on its
\* way, unless its event found nobody in the room, or a filter that rejected it, or an earlier
\* opening of the page ("Previous data stays on screen while a filter change loads", api.ts:78).
\* And when the page says "Trace complete" every hop is stored, whatever failed before, so that a
\* read brings all of it.
NothingMissed ==
    /\ page = "graph" /\ cache[minimum] # Nothing =>
          \A h \in stored \ Quiet :
              Listed(h, minimum) => h \in Shown \cup missed \cup Heard(channel \o wire, "hop")
    /\ done => stored = Hops

\* An alert that was heard is in the list, or a read that will bring it is under way, however the
\* event, its row and the reads cross: unless that read fails, or the alert was heard while the
\* first answer, made without it, was on its way.
HeardIsListed ==
    page = "alerts" /\ cache[AlertList] # Nothing =>
        \A a \in seen \ missed :
            \/ a \in cache[AlertList]
            \/ get.stage \in {"asked", "failed"}
            \/ get.stage = "answered" /\ a \in get.rows

\* Heaviest path is "exact" on what is drawn (model.ts:257-262), at any moment of a walk: it is a
\* path of hops on screen that visits no address twice, and without cycles none is worth more.
HeaviestOf == [shown, rows \in SUBSET Hops |-> Heaviest(shown, rows)]
Verdict == [shown, rows \in SUBSET Hops |-> IsHeaviest(HeaviestOf[shown, rows], shown)]
PathIsHeaviest == page = "graph" => Verdict[Shown, IF Drawn THEN Loaded ELSE {}]
=============================================================================
