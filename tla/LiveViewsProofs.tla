---------------------------- MODULE LiveViewsProofs ----------------------------
(***************************************************************************)
(* What a browser shows of a case is whole, for any number of hops, turns, *)
(* attempts, alerts, filters, mishaps and reads. The argument follows each *)
(* hop from its event on: until it is shown or counted as missed, its      *)
(* event is on Redis or on the socket. So it does not matter what a read   *)
(* brings, or when.                                                        *)
(***************************************************************************)
EXTENDS LiveViews, FiniteSetTheorems, TLAPS

Done == [kind |-> "done"]
AlertEvent(a) == [kind |-> "alert", of |-> a]
Events == {Hop(h) : h \in Hops} \cup {AlertEvent(a) : a \in Alerts} \cup {Done}

\* What was published and neither heard nor lost.
Sent == ToSet(channel) \cup ToSet(wire)

Attempt == [at : {"queued", "walking", "completed", "again", "over"}, turn : Nat,
            buffer : SUBSET Hops, left : Nat]

TypeOK ==
    /\ walk \in Attempt
    /\ status \in {"QUEUED", "RUNNING", "COMPLETED", "FAILED"}
    /\ stored \subseteq Hops
    /\ alert \in [Alerts -> {"none", "stored", "published"}]
    /\ channel \in Seq(Events) /\ wire \in Seq(Events)
    /\ inRoom \in BOOLEAN /\ socket \in {"down", "joining", "up"}
    /\ page \in {"graph", "alerts"} /\ minimum \in Minima
    /\ live \subseteq Hops /\ done \in BOOLEAN /\ seen \subseteq Alerts
    /\ cache \in [Queries -> (SUBSET (Hops \cup Alerts)) \cup {Nothing}]
    /\ last \in Queries \cup {NoData}
    /\ get \in [stage : {"none", "asked", "answered", "failed"}, rows : SUBSET (Hops \cup Alerts)]
    /\ missed \subseteq Hops \cup Alerts
    /\ mishaps \in Nat /\ reads \in Nat

\* A hop that was published is shown, or missed, or on its way.
HopsInv == \A h \in (stored \cup walk.buffer) \ Quiet : h \in live \cup missed \/ Hop(h) \in Sent

\* A walk has kept the hops of its turns.
WalkInv == walk.at = "walking" =>
    \A h \in Hops : TurnOf[h] < walk.turn => h \in stored \cup walk.buffer

\* Whatever says that the trace is complete says so when every hop is stored.
DoneInv ==
    walk.at \in {"completed", "again"} \/ status = "COMPLETED" \/ done \/ Done \in Sent => stored = Hops

\* An alert that is heard has a row.
AlertsInv == \A a \in Alerts : a \in seen \/ AlertEvent(a) \in Sent => alert[a] # "none"

\* A read that was answered, and the list when nothing is under way, has what was heard.
ListInv == page = "alerts" =>
    /\ get.stage = "answered" => seen \ missed \subseteq get.rows
    /\ get.stage = "none" /\ cache[AlertList] # Nothing => seen \ missed \subseteq cache[AlertList]

IInv == TypeOK /\ HopsInv /\ WalkInv /\ DoneInv /\ AlertsInv /\ ListInv

-----------------------------------------------------------------------------
(* Events and sequences of them *)

\* What is sent last, first and next to something else is among what is sent.
LEMMA InAppended ==
    ASSUME NEW S, NEW s \in Seq(S), NEW e
    PROVE  ToSet(Append(s, e)) = ToSet(s) \cup {e}
<1>1. DOMAIN Append(s, e) = 1 .. Len(s) + 1 /\ DOMAIN s = 1 .. Len(s) /\ Len(s) \in Nat
  OBVIOUS
<1>2. \A i \in 1 .. Len(s) : Append(s, e)[i] = s[i]
  OBVIOUS
<1>3. Append(s, e)[Len(s) + 1] = e
  OBVIOUS
<1>4. \A i \in 1 .. Len(s) + 1 : i \in 1 .. Len(s) \/ i = Len(s) + 1
  BY <1>1
<1>5. Len(s) + 1 \in 1 .. Len(s) + 1 /\ \A i \in 1 .. Len(s) : i \in 1 .. Len(s) + 1
  BY <1>1
<1> QED BY <1>1, <1>2, <1>3, <1>4, <1>5 DEF ToSet

LEMMA InTail ==
    ASSUME NEW S, NEW s \in Seq(S), s # <<>>
    PROVE  /\ ToSet(s) = {Head(s)} \cup ToSet(Tail(s))
           /\ Head(s) \in S /\ Tail(s) \in Seq(S)
<1>1. Len(s) \in Nat /\ Len(s) > 0 /\ DOMAIN s = 1 .. Len(s)
  OBVIOUS
<1>2. DOMAIN Tail(s) = 1 .. Len(s) - 1 /\ \A i \in 1 .. Len(s) - 1 : Tail(s)[i] = s[i + 1]
  BY <1>1
<1>3. Head(s) = s[1]
  BY <1>1
<1>4. \A i \in 1 .. Len(s) : i = 1 \/ (i - 1 \in 1 .. Len(s) - 1 /\ s[i] = Tail(s)[i - 1])
  BY <1>1, <1>2
<1>5. \A i \in 1 .. Len(s) - 1 : i + 1 \in 1 .. Len(s)
  BY <1>1
<1>6. ASSUME NEW e \in ToSet(s), e # Head(s) PROVE e \in ToSet(Tail(s))
  <2>1. PICK i \in 1 .. Len(s) : e = s[i]
    BY <1>1 DEF ToSet
  <2>2. i - 1 \in 1 .. Len(s) - 1 /\ e = Tail(s)[i - 1]
    BY <1>3, <1>4, <1>6, <2>1
  <2> QED BY <1>2, <2>2 DEF ToSet
<1>7. {Head(s)} \cup ToSet(Tail(s)) \subseteq ToSet(s)
  BY <1>1, <1>2, <1>3, <1>5 DEF ToSet
<1>8. Head(s) \in S /\ Tail(s) \in Seq(S)
  BY <1>1
<1> QED BY <1>6, <1>7, <1>8

LEMMA InConcatenated ==
    ASSUME NEW S, NEW s \in Seq(S), NEW t \in Seq(S)
    PROVE  ToSet(s \o t) = ToSet(s) \cup ToSet(t)
<1>1. /\ Len(s) \in Nat /\ DOMAIN s = 1 .. Len(s)
      /\ Len(t) \in Nat /\ DOMAIN t = 1 .. Len(t)
      /\ DOMAIN (s \o t) = 1 .. Len(s) + Len(t)
  OBVIOUS
<1>2. \A i \in 1 .. Len(s) : i \in 1 .. Len(s) + Len(t) /\ (s \o t)[i] = s[i]
  BY <1>1
<1>3. \A i \in 1 .. Len(t) : Len(s) + i \in 1 .. Len(s) + Len(t) /\ (s \o t)[Len(s) + i] = t[i]
  BY <1>1
<1>4. \A i \in 1 .. Len(s) + Len(t) :
         \/ i \in 1 .. Len(s) /\ (s \o t)[i] = s[i]
         \/ i - Len(s) \in 1 .. Len(t) /\ (s \o t)[i] = t[i - Len(s)]
  BY <1>1
<1>5. ToSet(s \o t) \subseteq ToSet(s) \cup ToSet(t)
  BY <1>1, <1>4 DEF ToSet
<1>6. ToSet(s) \cup ToSet(t) \subseteq ToSet(s \o t)
  BY <1>1, <1>2, <1>3 DEF ToSet
<1> QED BY <1>5, <1>6

\* What events tell of hops and of alerts.
LEMMA HeardIs ==
    ASSUME NEW s \in Seq(Events)
    PROVE  /\ Heard(s, "hop") = {h \in Hops : Hop(h) \in ToSet(s)}
           /\ Heard(s, "alert") = {a \in Alerts : AlertEvent(a) \in ToSet(s)}
           /\ ToSet(s) \subseteq Events
<1>1. ToSet(s) \subseteq Events
  BY DEF ToSet
<1>2. \A x \in Events : \/ \E h \in Hops : x = Hop(h) /\ x.kind = "hop" /\ x.of = h
                        \/ \E a \in Alerts : x = AlertEvent(a) /\ x.kind = "alert" /\ x.of = a
                        \/ x = Done /\ x.kind = "done"
  BY DEF Events, Hop, AlertEvent, Done
<1>3. \A h : Hop(h).kind = "hop" /\ Hop(h).of = h
  BY DEF Hop
<1>4. \A a : AlertEvent(a).kind = "alert" /\ AlertEvent(a).of = a
  BY DEF AlertEvent
<1>5. \A h : h \in Heard(s, "hop") <=> \E e \in ToSet(s) : e.kind = "hop" /\ h = e.of
  BY DEF Heard
<1>6. \A a : a \in Heard(s, "alert") <=> \E e \in ToSet(s) : e.kind = "alert" /\ a = e.of
  BY DEF Heard
<1>7. Heard(s, "hop") = {h \in Hops : Hop(h) \in ToSet(s)}
  BY <1>1, <1>2, <1>3, <1>5
<1>8. Heard(s, "alert") = {a \in Alerts : AlertEvent(a) \in ToSet(s)}
  BY <1>1, <1>2, <1>4, <1>6
<1> QED BY <1>1, <1>7, <1>8

\* Events of different kinds, and of different hops or alerts, are different.
LEMMA EventsDiffer ==
    /\ \A h, g : Hop(h) = Hop(g) => h = g
    /\ \A a, b : AlertEvent(a) = AlertEvent(b) => a = b
    /\ \A h, a : Hop(h) # AlertEvent(a)
    /\ \A h : Hop(h).kind = "hop" /\ Hop(h).of = h /\ Hop(h) # Done
    /\ \A a : AlertEvent(a).kind = "alert" /\ AlertEvent(a).of = a /\ AlertEvent(a) # Done
    /\ Done.kind = "done"
    /\ \A x \in Events : \/ \E h \in Hops : x = Hop(h)
                         \/ \E a \in Alerts : x = AlertEvent(a)
                         \/ x = Done
<1>1. \A h : Hop(h).kind = "hop" /\ Hop(h).of = h
  BY DEF Hop
<1>2. \A a : AlertEvent(a).kind = "alert" /\ AlertEvent(a).of = a
  BY DEF AlertEvent
<1>3. Done.kind = "done"
  BY DEF Done
<1>4. \A x \in Events : \/ \E h \in Hops : x = Hop(h)
                        \/ \E a \in Alerts : x = AlertEvent(a)
                        \/ x = Done
  BY DEF Events
<1>5. \A h, g : Hop(h) = Hop(g) => h = g
  BY <1>1
<1>6. \A a, b : AlertEvent(a) = AlertEvent(b) => a = b
  BY <1>2
<1>7. \A h, a : Hop(h) # AlertEvent(a)
  BY <1>1, <1>2
<1>8. \A h : Hop(h) # Done
  BY <1>1, <1>3
<1>9. \A a : AlertEvent(a) # Done
  BY <1>2, <1>3
<1> QED BY <1>1, <1>2, <1>3, <1>4, <1>5, <1>6, <1>7, <1>8, <1>9

\* What an event is of.
LEMMA EventOf ==
    ASSUME NEW x \in Events
    PROVE  (x.kind = "hop" => x.of \in Hops) /\ (x.kind = "alert" => x.of \in Alerts)
<1>1. (\E h \in Hops : x = Hop(h)) \/ (\E a \in Alerts : x = AlertEvent(a)) \/ x = Done
  BY EventsDiffer
<1>2. ASSUME NEW h \in Hops, x = Hop(h) PROVE x.kind = "hop" /\ x.of \in Hops
  BY <1>2, EventsDiffer
<1>3. ASSUME NEW a \in Alerts, x = AlertEvent(a) PROVE x.kind = "alert" /\ x.of \in Alerts
  BY <1>3, EventsDiffer
<1>4. CASE x = Done
  BY <1>4, EventsDiffer
<1> QED BY <1>1, <1>2, <1>3, <1>4

-----------------------------------------------------------------------------
(* The order in which a turn announces its hops *)

\* Of two hops of a turn one comes first, so their places differ.
LEMMA PlacesDiffer ==
    ASSUME NEW hops \in SUBSET Hops, NEW g \in hops, NEW h \in hops, g # h
    PROVE  Cardinality({x \in hops : Richer(x, g)}) # Cardinality({x \in hops : Richer(x, h)})
<1> DEFINE Above(y) == {x \in hops : Richer(x, y)}
<1>1. \A x \in hops : Weight(x) \in Nat /\ Rank[x] \in Nat
  BY HopsAssumption DEF Weight
<1>2. \A x, y, z \in hops : Richer(x, y) /\ Richer(y, z) => Richer(x, z)
  BY <1>1 DEF Richer
<1>3. \A x \in hops : ~Richer(x, x)
  BY <1>1 DEF Richer
<1>4. Richer(g, h) \/ Richer(h, g)
  BY <1>1, HopsAssumption DEF Richer
<1>5. ASSUME NEW x \in hops, NEW y \in hops, Richer(x, y)
      PROVE  Cardinality(Above(x)) # Cardinality(Above(y))
  <2>1. IsFiniteSet(Above(y))
    BY HopsAssumption, FS_Subset
  <2>2. Above(x) \subseteq Above(y)
    BY <1>2, <1>5
  <2>3. x \in Above(y) /\ x \notin Above(x)
    BY <1>3, <1>5
  <2> HIDE DEF Above
  <2> QED BY <2>1, <2>2, <2>3, FS_Subset
<1> QED BY <1>4, <1>5

\* Every hop of a turn that has an event is announced, and nothing else.
LEMMA AnnouncedHops ==
    ASSUME NEW turn
    PROVE  /\ Announcements(turn) \in Seq(Events)
           /\ ToSet(Announcements(turn)) = {Hop(h) : h \in {x \in Hops \ Quiet : TurnOf[x] = turn}}
<1> DEFINE hops == {h \in Hops \ Quiet : TurnOf[h] = turn}
           Above(h) == {g \in hops : Richer(g, h)}
           n == Cardinality(hops)
           place == [h \in hops |-> Cardinality(Above(h)) + 1]
           At(i) == CHOOSE h \in hops : Cardinality(Above(h)) + 1 = i
<1>1. hops \in SUBSET Hops /\ IsFiniteSet(hops) /\ n \in Nat
  BY HopsAssumption, FS_Subset, FS_CardinalityType
<1>2. ASSUME NEW h \in hops PROVE place[h] \in 1 .. n
  <2>1. IsFiniteSet(hops \ {h}) /\ Cardinality(hops \ {h}) = n - 1
    BY <1>1, FS_RemoveElement
  <2>2. ~Richer(h, h)
    BY <1>1, HopsAssumption DEF Richer
  <2>3. Above(h) \in SUBSET (hops \ {h})
    BY <2>2
  <2> HIDE DEF Above, hops
  <2>4. IsFiniteSet(Above(h)) /\ Cardinality(Above(h)) <= n - 1
    BY <2>1, <2>3, FS_Subset
  <2>5. Cardinality(Above(h)) \in Nat
    BY <2>4, FS_CardinalityType
  <2> QED BY <1>1, <2>4, <2>5
<1>3. \A g, h \in hops : place[g] = place[h] => g = h
  <2> SUFFICES ASSUME NEW g \in hops, NEW h \in hops, g # h PROVE place[g] # place[h]
    OBVIOUS
  <2>1. Cardinality(Above(g)) # Cardinality(Above(h))
    BY <1>1, PlacesDiffer
  <2>2. Cardinality(Above(g)) \in Nat /\ Cardinality(Above(h)) \in Nat
    BY <1>1, FS_Subset, FS_CardinalityType
  <2> HIDE DEF Above, hops
  <2> QED BY <2>1, <2>2
<1>4. \A i \in 1 .. n : \E h \in hops : place[h] = i
  <2> HIDE DEF place, hops
  <2>1. place \in [hops -> 1 .. n]
    BY <1>2 DEF place
  <2>2. place \in Injection(hops, 1 .. n)
    BY <2>1, <1>3 DEF Injection, IsInjective
  <2>3. IsFiniteSet(1 .. n) /\ Cardinality(1 .. n) = n
    BY <1>1, FS_Interval
  <2>4. place \in Surjection(hops, 1 .. n)
    BY <1>1, <2>2, <2>3, FS_Injection
  <2> QED BY <2>4 DEF Surjection
<1>5. \A h \in hops : place[h] = Cardinality(Above(h)) + 1
  OBVIOUS
<1>6. Announcements(turn) = [i \in 1 .. n |-> Hop(At(i))]
  BY DEF Announcements
<1> HIDE DEF hops, Above, n, place
<1>7. \A i \in 1 .. n : At(i) \in hops
  BY <1>4, <1>5
<1>8. ASSUME NEW h \in hops PROVE At(place[h]) = h
  <2>1. Cardinality(Above(h)) + 1 = place[h]
    BY <1>5
  <2>2. At(place[h]) \in hops /\ Cardinality(Above(At(place[h]))) + 1 = place[h]
    BY <2>1
  <2> HIDE DEF At
  <2> QED BY <1>3, <1>5, <2>2
<1> HIDE DEF At
<1>9. \A h \in hops : Hop(h) \in Events
  BY <1>1 DEF Events
<1>10. Announcements(turn) \in Seq(Events)
  BY <1>1, <1>6, <1>7, <1>9
<1>11. ToSet(Announcements(turn)) = {Hop(h) : h \in hops}
  <2>1. DOMAIN Announcements(turn) = 1 .. n
    BY <1>6
  <2>2. \A h \in hops : place[h] \in 1 .. n /\ Announcements(turn)[place[h]] = Hop(h)
    BY <1>2, <1>6, <1>8
  <2>3. \A i \in 1 .. n : Announcements(turn)[i] = Hop(At(i))
    BY <1>6
  <2> QED BY <2>1, <2>2, <2>3, <1>7 DEF ToSet
<1> QED BY <1>10, <1>11 DEF hops

-----------------------------------------------------------------------------
(* What a step does to the events under way *)

\* Events leave, and a hop whose event does is counted as missed.
Loses ==
    /\ channel' \in Seq(Events) /\ wire' \in Seq(Events) /\ Sent' \subseteq Sent
    /\ missed \subseteq missed' /\ missed' \subseteq Hops \cup Alerts
    /\ \A h \in Hops : Hop(h) \in Sent => Hop(h) \in Sent' \/ h \in missed'

\* A turn announces its hops.
LEMMA TurnSends ==
    ASSUME TypeOK, Turn
    PROVE  /\ channel' \in Seq(Events)
           /\ Sent' = Sent \cup {Hop(h) : h \in {x \in Hops \ Quiet : TurnOf[x] = walk.turn}}
<1>1. channel' = channel \o Announcements(walk.turn) /\ wire' = wire
  BY DEF Turn
<1>2. channel \in Seq(Events)
  BY DEF TypeOK
<1>3. ToSet(channel') = ToSet(channel) \cup ToSet(Announcements(walk.turn))
  BY <1>1, <1>2, AnnouncedHops, InConcatenated
<1>4. channel' \in Seq(Events)
  BY <1>1, <1>2, AnnouncedHops
<1> QED BY <1>1, <1>3, <1>4, AnnouncedHops DEF Sent

\* A walk that fails may have announced some of the hops of its turn.
LEMMA FailureSends ==
    ASSUME TypeOK, WalkFails
    PROVE  /\ channel' \in Seq(Events) /\ Sent \subseteq Sent'
           /\ \A e \in Sent' \ Sent : \E h \in Hops : e = Hop(h)
<1>1. wire' = wire /\ channel \in Seq(Events)
  BY DEF WalkFails, TypeOK
<1>2. CASE channel' = channel
  BY <1>1, <1>2 DEF Sent
<1>3. CASE \E n \in DOMAIN Announcements(walk.turn) :
              channel' = channel \o SubSeq(Announcements(walk.turn), 1, n)
  <2> DEFINE all == Announcements(walk.turn)
  <2>1. PICK n \in DOMAIN all : channel' = channel \o SubSeq(all, 1, n)
    BY <1>3
  <2>2. all \in Seq(Events) /\ \A e \in ToSet(all) : \E h \in Hops : e = Hop(h)
    BY AnnouncedHops
  <2> HIDE DEF all
  <2> DEFINE some == SubSeq(all, 1, n)
  <2>3. n \in 1 .. Len(all) /\ Len(all) \in Nat /\ DOMAIN all = 1 .. Len(all)
    BY <2>2
  <2>4. some \in Seq(Events) /\ DOMAIN some = 1 .. n /\ \A i \in 1 .. n : some[i] = all[i]
    BY <2>2, <2>3
  <2> HIDE DEF some
  <2>5. ToSet(some) \subseteq ToSet(all)
    BY <2>3, <2>4 DEF ToSet
  <2>6. channel' = channel \o some
    BY <2>1 DEF some
  <2>7. ToSet(channel') = ToSet(channel) \cup ToSet(some) /\ channel' \in Seq(Events)
    BY <1>1, <2>4, <2>6, InConcatenated
  <2> QED BY <1>1, <2>2, <2>5, <2>7 DEF Sent
<1> QED BY <1>2, <1>3 DEF WalkFails

\* Publishing one event more.
LEMMA OneMoreSent ==
    ASSUME TypeOK, NEW e \in Events, channel' = Append(channel, e), wire' = wire
    PROVE  channel' \in Seq(Events) /\ Sent' = Sent \cup {e}
<1>1. channel \in Seq(Events)
  BY DEF TypeOK
<1> QED BY <1>1, InAppended DEF Sent

\* An event that finds nobody in the room, or no connection, is lost with those behind it.
LEMMA RelayLoses ==
    ASSUME TypeOK, Relay
    PROVE  Loses
<1>1. channel \in Seq(Events) /\ wire \in Seq(Events) /\ channel # <<>> /\ channel' = Tail(channel)
  BY DEF TypeOK, Relay
<1>2. /\ ToSet(channel) = {Head(channel)} \cup ToSet(channel')
      /\ Head(channel) \in Events /\ channel' \in Seq(Events)
  BY <1>1, InTail
<1>3. missed \subseteq Hops \cup Alerts
  BY DEF TypeOK
<1>4. CASE inRoom
  <2>1. wire' = Append(wire, Head(channel)) /\ missed' = missed
    BY <1>4 DEF Relay
  <2>2. ToSet(wire') = ToSet(wire) \cup {Head(channel)} /\ wire' \in Seq(Events)
    BY <1>1, <1>2, <2>1, InAppended
  <2>3. Sent' = Sent
    BY <1>2, <2>2 DEF Sent
  <2> QED BY <1>2, <1>3, <2>1, <2>2, <2>3 DEF Loses
<1>5. CASE ~inRoom
  <2> DEFINE one == <<Head(channel)>>
  <2>1. wire' = wire /\ missed' = missed \cup Heard(one, "hop") \cup Heard(one, "alert")
    BY <1>5 DEF Relay, Lose
  <2>2. one \in Seq(Events) /\ ToSet(one) = {Head(channel)}
    BY <1>2 DEF ToSet
  <2> HIDE DEF one
  <2>3. missed' \subseteq Hops \cup Alerts /\ missed \subseteq missed'
    BY <1>3, <2>1, <2>2, HeardIs
  <2>4. Sent = {Head(channel)} \cup Sent'
    BY <1>2, <2>1 DEF Sent
  <2>5. \A h \in Hops : Hop(h) = Head(channel) => h \in missed'
    BY <2>1, <2>2, HeardIs
  <2> QED BY <1>1, <1>2, <2>1, <2>3, <2>4, <2>5 DEF Loses
<1> QED BY <1>4, <1>5

LEMMA DropLoses ==
    ASSUME TypeOK, RelayDies \/ Disconnect
    PROVE  Loses
<1>1. channel \in Seq(Events) /\ wire \in Seq(Events) /\ missed \subseteq Hops \cup Alerts
  BY DEF TypeOK
<1>2. ToSet(<<>>) = {} /\ <<>> \in Seq(Events)
  BY DEF ToSet
<1>3. CASE RelayDies
  <2> DEFINE both == channel \o wire
  <2>1. channel' = <<>> /\ wire' = <<>>
    BY <1>3 DEF RelayDies
  <2>2. missed' = missed \cup Heard(both, "hop") \cup Heard(both, "alert")
    BY <1>3 DEF RelayDies, Lose
  <2>3. both \in Seq(Events) /\ ToSet(both) = Sent
    BY <1>1, InConcatenated DEF Sent
  <2> HIDE DEF both
  <2>4. missed' \subseteq Hops \cup Alerts /\ missed \subseteq missed'
    BY <1>1, <2>2, <2>3, HeardIs
  <2>5. \A h \in Hops : Hop(h) \in Sent => h \in missed'
    BY <2>2, <2>3, HeardIs
  <2>6. Sent' = {}
    BY <1>2, <2>1 DEF Sent
  <2> QED BY <1>2, <2>1, <2>4, <2>5, <2>6 DEF Loses
<1>4. CASE Disconnect
  <2>1. channel' = channel /\ wire' = <<>>
    BY <1>4 DEF Disconnect
  <2>2. missed' = missed \cup Heard(wire, "hop") \cup Heard(wire, "alert")
    BY <1>4 DEF Disconnect, Lose
  <2>3. missed' \subseteq Hops \cup Alerts /\ missed \subseteq missed'
    BY <1>1, <2>2, HeardIs
  <2>4. \A h \in Hops : Hop(h) \in ToSet(wire) => h \in missed'
    BY <1>1, <2>2, HeardIs
  <2>5. Sent' = ToSet(channel)
    BY <1>2, <2>1 DEF Sent
  <2>6. Sent' \subseteq Sent /\ \A h \in Hops : Hop(h) \in Sent => Hop(h) \in Sent' \/ h \in missed'
    BY <2>4, <2>5 DEF Sent
  <2> QED BY <1>1, <1>2, <2>1, <2>3, <2>6 DEF Loses
<1> QED BY <1>3, <1>4

\* The first event of the socket is taken from it.
LEMMA FirstTaken ==
    ASSUME TypeOK, wire # <<>>, wire' = Tail(wire), channel' = channel
    PROVE  /\ Head(wire) \in Events /\ Head(wire) \in Sent /\ wire' \in Seq(Events)
           /\ Sent' \subseteq Sent /\ Sent \subseteq Sent' \cup {Head(wire)}
<1>1. wire \in Seq(Events)
  BY DEF TypeOK
<1>2. /\ ToSet(wire) = {Head(wire)} \cup ToSet(wire')
      /\ Head(wire) \in Events /\ wire' \in Seq(Events)
  BY <1>1, InTail
<1> QED BY <1>2 DEF Sent

LEMMA IgnoredIsLost ==
    ASSUME TypeOK, Ignore
    PROVE  Loses
<1> DEFINE one == <<Head(wire)>>
<1>1. /\ wire # <<>> /\ wire' = Tail(wire) /\ channel' = channel
      /\ missed' = missed \cup Heard(one, "hop") \cup Heard(one, "alert")
  BY DEF Ignore, Lose
<1>2. /\ Head(wire) \in Events /\ wire' \in Seq(Events)
      /\ Sent' \subseteq Sent /\ Sent \subseteq Sent' \cup {Head(wire)}
  BY <1>1, FirstTaken
<1>3. one \in Seq(Events) /\ ToSet(one) = {Head(wire)}
  BY <1>2 DEF ToSet
<1> HIDE DEF one
<1>4. missed \subseteq Hops \cup Alerts /\ channel' \in Seq(Events)
  BY <1>1 DEF TypeOK
<1>5. missed' \subseteq Hops \cup Alerts /\ missed \subseteq missed'
  BY <1>1, <1>3, <1>4, HeardIs
<1>6. \A h \in Hops : Hop(h) = Head(wire) => h \in missed'
  BY <1>1, <1>3, HeardIs
<1> QED BY <1>2, <1>4, <1>5, <1>6 DEF Loses

\* A page that is left takes its events with it; what it has heard counts as missed.
LEMMA OpenLoses ==
    ASSUME TypeOK, NEW p \in {"graph", "alerts"}, Open(p)
    PROVE  /\ Loses /\ live \subseteq missed'
<1>1. channel \in Seq(Events) /\ wire \in Seq(Events) /\ missed \subseteq Hops \cup Alerts
  BY DEF TypeOK
<1>2. ToSet(<<>>) = {} /\ <<>> \in Seq(Events)
  BY DEF ToSet
<1>3. live \subseteq Hops /\ seen \subseteq Alerts
  BY DEF TypeOK
<1>4. /\ channel' = channel /\ wire' = <<>>
      /\ missed' = missed \cup live \cup seen \cup Heard(wire, "hop") \cup Heard(wire, "alert")
  BY DEF Open
<1>5. missed' \subseteq Hops \cup Alerts /\ missed \subseteq missed' /\ live \subseteq missed'
  BY <1>1, <1>3, <1>4, HeardIs
<1>6. \A h \in Hops : Hop(h) \in ToSet(wire) => h \in missed'
  BY <1>1, <1>4, HeardIs
<1>7. Sent' = ToSet(channel)
  BY <1>2, <1>4 DEF Sent
<1>8. Sent' \subseteq Sent /\ \A h \in Hops : Hop(h) \in Sent => Hop(h) \in Sent' \/ h \in missed'
  BY <1>6, <1>7 DEF Sent
<1> QED BY <1>1, <1>2, <1>4, <1>5, <1>8 DEF Loses

-----------------------------------------------------------------------------
(* Type correctness *)

LEMMA InitType == Init => TypeOK
<1> SUFFICES ASSUME Init PROVE TypeOK
  OBVIOUS
<1>1. walk \in Attempt
  BY LiveViewsAssumption DEF Init, Attempt
<1>2. /\ status = "QUEUED" /\ stored = {} /\ alert \in [Alerts -> {"none", "stored", "published"}]
      /\ channel \in Seq(Events) /\ wire \in Seq(Events) /\ inRoom = FALSE /\ socket = "down"
  BY DEF Init
<1>3. page \in {"graph", "alerts"} /\ minimum \in Minima /\ live = {} /\ done = FALSE /\ seen = {}
  BY LiveViewsAssumption DEF Init
<1>4. cache \in [Queries -> (SUBSET (Hops \cup Alerts)) \cup {Nothing}] /\ last = NoData
  <2>1. cache = [q \in Queries |-> Nothing] /\ last = NoData
    BY DEF Init
  <2> DEFINE Kept == (SUBSET (Hops \cup Alerts)) \cup {Nothing}
  <2>2. Nothing \in Kept
    OBVIOUS
  <2> HIDE DEF Kept
  <2>3. cache \in [Queries -> Kept]
    BY <2>1, <2>2
  <2> QED BY <2>1, <2>3 DEF Kept
<1>5. get \in [stage : {"none", "asked", "answered", "failed"}, rows : SUBSET (Hops \cup Alerts)]
  BY DEF Init, NoGet
<1>6. missed = {} /\ mishaps = 0 /\ reads = 1
  BY DEF Init
<1> QED BY <1>1, <1>2, <1>3, <1>4, <1>5, <1>6 DEF TypeOK

LEMMA TypeStep == TypeOK /\ [Next]_vars => TypeOK'
<1> SUFFICES ASSUME TypeOK, [Next]_vars PROVE TypeOK'
  OBVIOUS
<1> USE DEF TypeOK, server, browser
<1> DEFINE Gets == [stage : {"none", "asked", "answered", "failed"}, rows : SUBSET (Hops \cup Alerts)]
<1>0. /\ walk.at \in {"queued", "walking", "completed", "again", "over"} /\ walk.turn \in Nat
      /\ walk.buffer \subseteq Hops /\ walk.left \in Nat
  BY DEF Attempt
<1>1. CASE Start
  <2>1. walk.left - 1 \in Nat
    BY <1>0, <1>1 DEF Start
  <2>2. walk' \in Attempt
    <3>1. CASE status = "COMPLETED"
      <4>1. walk' = [walk EXCEPT !.at = "again", !.left = walk.left - 1]
        BY <1>1, <3>1 DEF Start
      <4> QED BY <1>0, <2>1, <4>1 DEF Attempt
    <3>2. CASE status # "COMPLETED"
      <4>1. walk' = [at |-> "walking", turn |-> 1, buffer |-> {}, left |-> walk.left - 1]
        BY <1>1, <3>2 DEF Start
      <4> QED BY <2>1, <4>1 DEF Attempt
    <3> QED BY <3>1, <3>2
  <2> QED BY <1>1, <2>2 DEF Start
<1>2. CASE Turn
  <2>1. channel' \in Seq(Events)
    BY <1>2, TurnSends
  <2> DEFINE next == walk.buffer \cup {h \in Hops : TurnOf[h] = walk.turn}
  <2>2. next \subseteq Hops /\ walk.turn + 1 \in Nat
    BY <1>0
  <2>3. walk' = [walk EXCEPT !.turn = walk.turn + 1, !.buffer = next]
    BY <1>2 DEF Turn
  <2> HIDE DEF next
  <2>4. walk' \in Attempt
    BY <2>2, <2>3 DEF Attempt
  <2> QED BY <1>2, <2>1, <2>4 DEF Turn
<1>3. CASE Flush \/ Finish
  <2>1. walk' \in Attempt
    BY <1>0, <1>3 DEF Flush, Finish, Attempt
  <2> QED BY <1>0, <1>3, <2>1 DEF Flush, Finish
<1>4. CASE Announce
  <2>1. Done \in Events /\ channel' = Append(channel, Done) /\ wire' = wire
    BY <1>4 DEF Announce, Done, Events
  <2>2. channel' \in Seq(Events)
    BY <2>1, OneMoreSent
  <2>3. walk' \in Attempt
    BY <1>0, <1>4 DEF Announce, Attempt
  <2> QED BY <1>4, <2>2, <2>3 DEF Announce
<1>5. CASE WalkFails
  <2>1. channel' \in Seq(Events)
    BY <1>5, FailureSends
  <2>2. walk' \in Attempt
    BY <1>0, <1>5 DEF WalkFails, Attempt
  <2>3. mishaps' \in Nat
    BY <1>5 DEF WalkFails, Mishap
  <2> QED BY <1>5, <2>1, <2>2, <2>3 DEF WalkFails
<1>6. CASE WorkerDies
  <2>1. walk' \in Attempt
    BY <1>0, <1>6 DEF WorkerDies, Attempt
  <2>2. mishaps' \in Nat
    BY <1>6 DEF WorkerDies, Mishap
  <2> QED BY <1>6, <2>1, <2>2 DEF WorkerDies
<1>7. ASSUME NEW a \in Alerts, Raise(a) PROVE TypeOK'
  BY <1>7 DEF Raise
<1>8. ASSUME NEW a \in Alerts, Publish(a) PROVE TypeOK'
  <2>1. AlertEvent(a) \in Events /\ channel' = Append(channel, AlertEvent(a)) /\ wire' = wire
    BY <1>8 DEF Publish, AlertEvent, Events
  <2>2. channel' \in Seq(Events)
    BY <2>1, OneMoreSent
  <2> QED BY <1>8, <2>2 DEF Publish
<1>9. CASE Relay
  BY <1>9, RelayLoses DEF Loses, Relay
<1>10. CASE RelayDies
  <2>1. channel' \in Seq(Events) /\ wire' \in Seq(Events) /\ missed' \subseteq Hops \cup Alerts
    BY <1>10, DropLoses DEF Loses
  <2>2. mishaps' \in Nat
    BY <1>10 DEF RelayDies, Mishap
  <2> QED BY <1>10, <2>1, <2>2 DEF RelayDies
<1>11. CASE Disconnect
  <2>1. channel' \in Seq(Events) /\ wire' \in Seq(Events) /\ missed' \subseteq Hops \cup Alerts
    BY <1>11, DropLoses DEF Loses
  <2>2. mishaps' \in Nat
    BY <1>11 DEF Disconnect, Mishap
  <2> QED BY <1>11, <2>1, <2>2 DEF Disconnect
<1>12. CASE Connect \/ Joined
  BY <1>12 DEF Connect, Joined
<1>13. CASE HearHop
  <2>1. Head(wire) \in Events /\ wire' \in Seq(Events)
    BY <1>13, FirstTaken DEF HearHop
  <2>2. Head(wire).of \in Hops
    BY <1>13, <2>1, EventOf DEF HearHop
  <2>3. live' \subseteq Hops /\ missed' \subseteq Hops \cup Alerts
    BY <1>13, <2>2 DEF HearHop
  <2> QED BY <1>13, <2>1, <2>3 DEF HearHop
<1>14. CASE HearDone
  <2>1. wire' \in Seq(Events)
    BY <1>14, FirstTaken DEF HearDone
  <2> QED BY <1>14, <2>1 DEF HearDone
<1>15. CASE HearAlert
  <2>1. Head(wire) \in Events /\ wire' \in Seq(Events)
    BY <1>15, FirstTaken DEF HearAlert
  <2>2. Head(wire).of \in Alerts
    BY <1>15, <2>1, EventOf DEF HearAlert
  <2>3. seen' \subseteq Alerts /\ missed' \subseteq Hops \cup Alerts /\ get' \in Gets
    BY <1>15, <2>2 DEF HearAlert, NoGet
  <2> QED BY <1>15, <2>1, <2>3 DEF HearAlert
<1>16. CASE Ignore
  BY <1>16, IgnoredIsLost DEF Loses, Ignore
<1>17. ASSUME NEW m \in Minima, SetMinimum(m) PROVE TypeOK'
  <2>1. last' \in Queries \cup {NoData} /\ get' \in Gets /\ reads' \in Nat
    BY <1>17 DEF SetMinimum, Queries, NoGet
  <2> QED BY <1>17, <2>1 DEF SetMinimum
<1>18. CASE Read
  <2>1. get' \in Gets
    BY <1>18 DEF Read
  <2> QED BY <1>18, <2>1 DEF Read
<1>19. CASE Receive
  <2>1. get' \in Gets
    BY <1>19 DEF Receive, NoGet
  <2>2. cache' \in [Queries -> (SUBSET (Hops \cup Alerts)) \cup {Nothing}]
    BY <1>19 DEF Receive
  <2> QED BY <1>19, <2>1, <2>2 DEF Receive
<1>20. CASE GetFails \/ Refetch
  <2>1. get' \in Gets /\ mishaps' \in Nat /\ reads' \in Nat
    BY <1>20 DEF GetFails, Refetch, NoGet, Mishap
  <2> QED BY <1>20, <2>1 DEF GetFails, Refetch
<1>21. ASSUME NEW p \in {"graph", "alerts"}, Open(p) PROVE TypeOK'
  <2>1. Loses
    BY <1>21, OpenLoses
  <2>2. get' \in Gets /\ reads' \in Nat /\ minimum' \in Minima
    BY <1>21, LiveViewsAssumption DEF Open, NoGet
  <2> QED BY <1>21, <2>1, <2>2 DEF Open, Loses
<1>22. CASE UNCHANGED vars
  BY <1>22 DEF vars
<1> QED BY <1>1, <1>2, <1>3, <1>4, <1>5, <1>6, <1>7, <1>8, <1>9, <1>10, <1>11, <1>12, <1>13, <1>14,
           <1>15, <1>16, <1>17, <1>18, <1>19, <1>20, <1>21, <1>22 DEF Next, Worker, Hear

-----------------------------------------------------------------------------
(* Every hop stays in sight *)

LEMMA HopsStep ==
    ASSUME TypeOK, HopsInv, [Next]_vars
    PROVE  HopsInv'
<1> USE DEF HopsInv, server, browser
<1>0. walk \in Attempt /\ walk.buffer \subseteq Hops /\ stored \subseteq Hops
  BY DEF TypeOK, Attempt
<1>1. CASE Start
  <2>1. walk'.buffer \subseteq walk.buffer
    <3>1. CASE status = "COMPLETED"
      <4>1. walk' = [walk EXCEPT !.at = "again", !.left = walk.left - 1]
        BY <1>1, <3>1 DEF Start
      <4> QED BY <1>0, <4>1 DEF Attempt
    <3>2. CASE status # "COMPLETED"
      BY <1>1, <3>2 DEF Start
    <3> QED BY <3>1, <3>2
  <2> QED BY <1>1, <2>1 DEF Start, Sent
<1>2. CASE Turn
  <2> DEFINE new == {x \in Hops \ Quiet : TurnOf[x] = walk.turn}
             next == {h \in Hops : TurnOf[h] = walk.turn}
  <2>1. Sent' = Sent \cup {Hop(h) : h \in new}
    BY <1>2, TurnSends
  <2>2. walk' = [walk EXCEPT !.turn = walk.turn + 1, !.buffer = walk.buffer \cup next]
    BY <1>2 DEF Turn
  <2>3. walk'.buffer = walk.buffer \cup next
    <3> HIDE DEF next
    <3> QED BY <1>0, <2>2 DEF Attempt
  <2>4. \A h \in next : h \in Quiet \/ Hop(h) \in Sent'
    BY <2>1
  <2>5. stored' = stored /\ live' = live /\ missed' = missed
    BY <1>2 DEF Turn
  <2>6. \A h : Hop(h) \in Sent => Hop(h) \in Sent'
    BY <2>1
  <2> HIDE DEF next
  <2> QED BY <2>3, <2>4, <2>5, <2>6
<1>3. CASE Flush
  <2>1. walk'.buffer = {} /\ stored' = stored \cup walk.buffer
    BY <1>0, <1>3 DEF Flush, Attempt
  <2> QED BY <1>3, <2>1 DEF Flush, Sent
<1>4. CASE Finish \/ WorkerDies
  <2>1. walk'.buffer = walk.buffer
    BY <1>0, <1>4 DEF Finish, WorkerDies, Attempt
  <2> QED BY <1>4, <2>1 DEF Finish, WorkerDies, Sent
<1>5. CASE Announce
  <2>1. walk'.buffer = walk.buffer
    BY <1>0, <1>5 DEF Announce, Attempt
  <2>2. Done \in Events /\ channel' = Append(channel, Done) /\ wire' = wire
    BY <1>5 DEF Announce, Done, Events
  <2>3. Sent' = Sent \cup {Done}
    BY <2>2, OneMoreSent
  <2> QED BY <1>5, <2>1, <2>3 DEF Announce
<1>6. CASE WalkFails
  <2>1. walk'.buffer = walk.buffer
    BY <1>0, <1>6 DEF WalkFails, Attempt
  <2>2. Sent \subseteq Sent'
    BY <1>6, FailureSends
  <2> QED BY <1>6, <2>1, <2>2 DEF WalkFails
<1>7. ASSUME NEW a \in Alerts, Publish(a) PROVE HopsInv'
  <2>1. AlertEvent(a) \in Events /\ channel' = Append(channel, AlertEvent(a)) /\ wire' = wire
    BY <1>7 DEF Publish, AlertEvent, Events
  <2>2. Sent' = Sent \cup {AlertEvent(a)}
    BY <2>1, OneMoreSent
  <2> QED BY <1>7, <2>2 DEF Publish
<1>8. CASE Relay \/ RelayDies \/ Disconnect \/ Ignore
  <2>1. Loses
    BY <1>8, RelayLoses, DropLoses, IgnoredIsLost
  <2>2. walk' = walk /\ stored' = stored /\ live' = live
    BY <1>8 DEF Relay, RelayDies, Disconnect, Ignore
  <2> QED BY <1>0, <2>1, <2>2 DEF Loses
<1>9. CASE HearHop
  <2>1. /\ Head(wire) \in Events /\ Sent \subseteq Sent' \cup {Head(wire)}
    BY <1>9, FirstTaken DEF HearHop
  <2>2. Head(wire) = Hop(Head(wire).of)
    BY <1>9, <2>1, EventsDiffer DEF HearHop
  <2>3. \A h : Hop(h) \in Sent => Hop(h) \in Sent' \/ h = Head(wire).of
    BY <2>1, <2>2, EventsDiffer
  <2>4. /\ Head(wire).of \in live' \cup missed'
        /\ live \cup missed \subseteq live' \cup missed' /\ walk' = walk /\ stored' = stored
    BY <1>9 DEF HearHop
  <2> QED BY <2>3, <2>4
<1>10. CASE HearDone \/ HearAlert
  <2>1. /\ Head(wire) \in Events /\ Sent \subseteq Sent' \cup {Head(wire)}
    BY <1>10, FirstTaken DEF HearDone, HearAlert
  <2>2. Head(wire).kind \in {"done", "alert"}
    BY <1>10 DEF HearDone, HearAlert
  <2>3. \A h : Hop(h) \in Sent => Hop(h) \in Sent'
    BY <2>1, <2>2, EventsDiffer
  <2>4. live' = live /\ missed \subseteq missed' /\ walk' = walk /\ stored' = stored
    BY <1>10 DEF HearDone, HearAlert
  <2> QED BY <2>3, <2>4
<1>11. ASSUME NEW p \in {"graph", "alerts"}, Open(p) PROVE HopsInv'
  <2>1. Loses /\ live \subseteq missed'
    BY <1>11, OpenLoses
  <2>2. walk' = walk /\ stored' = stored
    BY <1>11 DEF Open
  <2> QED BY <1>0, <2>1, <2>2 DEF Loses
<1>12. ASSUME UNCHANGED <<walk, stored, live, missed, channel, wire>> PROVE HopsInv'
  BY <1>12 DEF Sent
<1>13. ASSUME NEW a \in Alerts, Raise(a) PROVE HopsInv'
  BY <1>12, <1>13 DEF Raise
<1>14. CASE Connect \/ Joined \/ Read \/ Receive \/ GetFails \/ Refetch
  BY <1>12, <1>14 DEF Connect, Joined, Read, Receive, GetFails, Refetch
<1>15. ASSUME NEW m \in Minima, SetMinimum(m) PROVE HopsInv'
  BY <1>12, <1>15 DEF SetMinimum
<1>16. CASE UNCHANGED vars
  BY <1>12, <1>16 DEF vars
<1> QED BY <1>1, <1>2, <1>3, <1>4, <1>5, <1>6, <1>7, <1>8, <1>9, <1>10, <1>11, <1>13, <1>14, <1>15,
           <1>16 DEF Next, Worker, Hear

-----------------------------------------------------------------------------
(* A complete trace is stored *)

LEMMA WalkStep ==
    ASSUME TypeOK, WalkInv, [Next]_vars
    PROVE  WalkInv'
<1> USE DEF WalkInv, server, browser
<1>0. walk \in Attempt /\ walk.buffer \subseteq Hops /\ walk.turn \in Nat
  BY DEF TypeOK, Attempt
<1>1. CASE Start
  <2>1. walk'.at = "again" \/ walk'.turn = 1
    <3>1. CASE status = "COMPLETED"
      <4>1. walk' = [walk EXCEPT !.at = "again", !.left = walk.left - 1]
        BY <1>1, <3>1 DEF Start
      <4> QED BY <1>0, <4>1 DEF Attempt
    <3>2. CASE status # "COMPLETED"
      BY <1>1, <3>2 DEF Start
    <3> QED BY <3>1, <3>2
  <2>2. \A h \in Hops : ~(TurnOf[h] < 1)
    BY LiveViewsAssumption
  <2> QED BY <2>1, <2>2
<1>2. CASE Turn
  <2> DEFINE next == {h \in Hops : TurnOf[h] = walk.turn}
  <2>1. walk' = [walk EXCEPT !.turn = walk.turn + 1, !.buffer = walk.buffer \cup next]
    BY <1>2 DEF Turn
  <2>2. walk'.buffer = walk.buffer \cup next /\ walk'.turn = walk.turn + 1
    <3> HIDE DEF next
    <3> QED BY <1>0, <2>1 DEF Attempt
  <2>3. \A h \in Hops : TurnOf[h] \in Nat /\ (TurnOf[h] < walk.turn + 1 => TurnOf[h] < walk.turn \/ h \in next)
    BY <1>0, LiveViewsAssumption
  <2>4. stored' = stored /\ walk.at = "walking"
    BY <1>2 DEF Turn
  <2> HIDE DEF next
  <2> QED BY <2>2, <2>3, <2>4
<1>3. CASE Flush
  <2>1. walk'.turn = walk.turn /\ walk'.at = walk.at /\ stored' = stored \cup walk.buffer
    BY <1>0, <1>3 DEF Flush, Attempt
  <2> QED BY <2>1
<1>4. CASE Finish \/ Announce \/ WalkFails \/ WorkerDies
  <2>1. walk'.at # "walking"
    BY <1>0, <1>4 DEF Finish, Announce, WalkFails, WorkerDies, Attempt
  <2> QED BY <2>1
<1>5. ASSUME UNCHANGED <<walk, stored>> PROVE WalkInv'
  BY <1>5
<1>6. ASSUME NEW a \in Alerts, Raise(a) \/ Publish(a) PROVE WalkInv'
  BY <1>5, <1>6 DEF Raise, Publish
<1>7. CASE Relay \/ RelayDies \/ Connect \/ Joined \/ Disconnect \/ Hear
  BY <1>5, <1>7 DEF Relay, RelayDies, Connect, Joined, Disconnect, Hear, HearHop, HearDone, HearAlert, Ignore
<1>8. CASE Read \/ Receive \/ GetFails \/ Refetch
  BY <1>5, <1>8 DEF Read, Receive, GetFails, Refetch
<1>9. ASSUME NEW m \in Minima, SetMinimum(m) PROVE WalkInv'
  BY <1>5, <1>9 DEF SetMinimum
<1>10. ASSUME NEW p \in {"graph", "alerts"}, Open(p) PROVE WalkInv'
  BY <1>5, <1>10 DEF Open
<1>11. CASE UNCHANGED vars
  BY <1>5, <1>11 DEF vars
<1> QED BY <1>1, <1>2, <1>3, <1>4, <1>6, <1>7, <1>8, <1>9, <1>10, <1>11 DEF Next, Worker

LEMMA DoneStep ==
    ASSUME TypeOK, WalkInv, DoneInv, [Next]_vars
    PROVE  DoneInv'
<1> USE DEF DoneInv, server, browser
<1>0. walk \in Attempt /\ walk.buffer \subseteq Hops /\ walk.turn \in Nat /\ stored \subseteq Hops
  BY DEF TypeOK, Attempt
<1>1. CASE Start
  <2>1. CASE status = "COMPLETED"
    BY <1>1, <2>1 DEF Start, Sent
  <2>2. CASE status # "COMPLETED"
    <3>1. walk'.at = "walking" /\ status' = "RUNNING"
      BY <1>1, <2>2 DEF Start
    <3> QED BY <1>1, <3>1 DEF Start, Sent
  <2> QED BY <2>1, <2>2
<1>2. CASE Turn
  <2>1. walk'.at = walk.at
    BY <1>0, <1>2 DEF Turn, Attempt
  <2>2. Done \in Sent' => Done \in Sent
    BY <1>2, TurnSends, EventsDiffer
  <2> QED BY <1>2, <2>1, <2>2 DEF Turn
<1>3. CASE Flush
  <2>1. walk'.at = walk.at
    BY <1>0, <1>3 DEF Flush, Attempt
  <2>2. stored' = stored \cup walk.buffer
    BY <1>3 DEF Flush
  <2> QED BY <1>0, <1>3, <2>1, <2>2 DEF Flush, Sent
<1>4. CASE Finish
  <2>1. walk.at = "walking" /\ walk.turn > Turns /\ walk.buffer = {} /\ stored' = stored
    BY <1>4 DEF Finish
  <2>2. \A h \in Hops : TurnOf[h] < walk.turn
    BY <1>0, <2>1, LiveViewsAssumption
  <2>3. stored = Hops
    BY <1>0, <2>1, <2>2 DEF WalkInv
  <2> QED BY <2>1, <2>3
<1>5. CASE Announce
  <2>1. stored = Hops /\ stored' = stored
    BY <1>5 DEF Announce
  <2> QED BY <2>1
<1>6. CASE WalkFails
  <2>1. Done \in Sent' => Done \in Sent
    BY <1>6, FailureSends, EventsDiffer
  <2>2. walk'.at \notin {"completed", "again"} /\ (status' = "COMPLETED" => status = "COMPLETED")
    BY <1>0, <1>6 DEF WalkFails, Attempt
  <2> QED BY <1>6, <2>1, <2>2 DEF WalkFails
<1>7. CASE WorkerDies
  <2>1. walk'.at \notin {"completed", "again"}
    BY <1>0, <1>7 DEF WorkerDies, Attempt
  <2> QED BY <1>7, <2>1 DEF WorkerDies, Sent
<1>8. ASSUME NEW a \in Alerts, Publish(a) PROVE DoneInv'
  <2>1. AlertEvent(a) \in Events /\ channel' = Append(channel, AlertEvent(a)) /\ wire' = wire
    BY <1>8 DEF Publish, AlertEvent, Events
  <2>2. Done \in Sent' => Done \in Sent
    BY <2>1, OneMoreSent, EventsDiffer
  <2> QED BY <1>8, <2>2 DEF Publish
<1>9. CASE Relay \/ RelayDies \/ Disconnect \/ Ignore
  <2>1. Sent' \subseteq Sent
    BY <1>9, RelayLoses, DropLoses, IgnoredIsLost DEF Loses
  <2>2. walk' = walk /\ status' = status /\ stored' = stored /\ done' = done
    BY <1>9 DEF Relay, RelayDies, Disconnect, Ignore
  <2> QED BY <2>1, <2>2
<1>10. CASE HearHop \/ HearAlert
  <2>1. Sent' \subseteq Sent
    BY <1>10, FirstTaken DEF HearHop, HearAlert
  <2>2. walk' = walk /\ status' = status /\ stored' = stored /\ done' = done
    BY <1>10 DEF HearHop, HearAlert
  <2> QED BY <2>1, <2>2
<1>11. CASE HearDone
  <2>1. Head(wire) \in Events /\ Head(wire) \in Sent
    BY <1>11, FirstTaken DEF HearDone
  <2>2. Done \in Sent
    BY <1>11, <2>1, EventsDiffer DEF HearDone
  <2> QED BY <1>11, <2>2 DEF HearDone
<1>12. ASSUME NEW p \in {"graph", "alerts"}, Open(p) PROVE DoneInv'
  <2>1. Sent' \subseteq Sent
    BY <1>12, OpenLoses DEF Loses
  <2> QED BY <1>12, <2>1 DEF Open
<1>13. ASSUME UNCHANGED <<walk, status, stored, done, channel, wire>> PROVE DoneInv'
  BY <1>13 DEF Sent
<1>14. ASSUME NEW a \in Alerts, Raise(a) PROVE DoneInv'
  BY <1>13, <1>14 DEF Raise
<1>15. CASE Connect \/ Joined \/ Read \/ Receive \/ GetFails \/ Refetch
  BY <1>13, <1>15 DEF Connect, Joined, Read, Receive, GetFails, Refetch
<1>16. ASSUME NEW m \in Minima, SetMinimum(m) PROVE DoneInv'
  BY <1>13, <1>16 DEF SetMinimum
<1>17. CASE UNCHANGED vars
  BY <1>13, <1>17 DEF vars
<1> QED BY <1>1, <1>2, <1>3, <1>4, <1>5, <1>6, <1>7, <1>8, <1>9, <1>10, <1>11, <1>12, <1>14, <1>15,
           <1>16, <1>17 DEF Next, Worker, Hear

-----------------------------------------------------------------------------
(* Every alert that is heard is listed *)

LEMMA AlertsStep ==
    ASSUME TypeOK, AlertsInv, [Next]_vars
    PROVE  AlertsInv'
<1> USE DEF AlertsInv, server, browser
<1>1. CASE Start \/ Flush \/ Finish \/ WorkerDies \/ Connect \/ Joined \/ Read \/ Receive
           \/ GetFails \/ Refetch
  <2>1. UNCHANGED <<alert, seen, channel, wire>>
    BY <1>1 DEF Start, Flush, Finish, WorkerDies, Connect, Joined, Read, Receive, GetFails, Refetch
  <2> QED BY <2>1 DEF Sent
<1>2. CASE Turn
  <2>1. \A a : AlertEvent(a) \in Sent' => AlertEvent(a) \in Sent
    BY <1>2, TurnSends, EventsDiffer
  <2> QED BY <1>2, <2>1 DEF Turn
<1>3. CASE Announce
  <2>1. Done \in Events /\ channel' = Append(channel, Done) /\ wire' = wire
    BY <1>3 DEF Announce, Done, Events
  <2>2. \A a : AlertEvent(a) \in Sent' => AlertEvent(a) \in Sent
    BY <2>1, OneMoreSent, EventsDiffer
  <2> QED BY <1>3, <2>2 DEF Announce
<1>4. CASE WalkFails
  <2>1. \A a : AlertEvent(a) \in Sent' => AlertEvent(a) \in Sent
    BY <1>4, FailureSends, EventsDiffer
  <2> QED BY <1>4, <2>1 DEF WalkFails
<1>5. ASSUME NEW a \in Alerts, Raise(a) PROVE AlertsInv'
  <2>1. \A b \in Alerts : alert[b] # "none" => alert'[b] # "none"
    BY <1>5 DEF Raise, TypeOK
  <2>2. UNCHANGED <<seen, channel, wire>>
    BY <1>5 DEF Raise
  <2> QED BY <2>1, <2>2 DEF Sent
<1>6. ASSUME NEW a \in Alerts, Publish(a) PROVE AlertsInv'
  <2>1. AlertEvent(a) \in Events /\ channel' = Append(channel, AlertEvent(a)) /\ wire' = wire
    BY <1>6 DEF Publish, AlertEvent, Events
  <2>2. \A b : AlertEvent(b) \in Sent' => AlertEvent(b) \in Sent \/ b = a
    BY <2>1, OneMoreSent, EventsDiffer
  <2>3. \A b \in Alerts : alert[b] # "none" \/ b = a => alert'[b] # "none"
    BY <1>6 DEF Publish, TypeOK
  <2>4. seen' = seen
    BY <1>6 DEF Publish
  <2> QED BY <2>2, <2>3, <2>4
<1>7. CASE Relay \/ RelayDies \/ Disconnect \/ Ignore
  <2>1. Sent' \subseteq Sent
    BY <1>7, RelayLoses, DropLoses, IgnoredIsLost DEF Loses
  <2>2. UNCHANGED <<alert, seen>>
    BY <1>7 DEF Relay, RelayDies, Disconnect, Ignore
  <2> QED BY <2>1, <2>2
<1>8. CASE HearHop \/ HearDone
  <2>1. Sent' \subseteq Sent
    BY <1>8, FirstTaken DEF HearHop, HearDone
  <2>2. UNCHANGED <<alert, seen>>
    BY <1>8 DEF HearHop, HearDone
  <2> QED BY <2>1, <2>2
<1>9. CASE HearAlert
  <2>1. Head(wire) \in Events /\ Head(wire) \in Sent /\ Sent' \subseteq Sent
    BY <1>9, FirstTaken DEF HearAlert
  <2>2. AlertEvent(Head(wire).of) \in Sent
    BY <1>9, <2>1, EventsDiffer DEF HearAlert
  <2>3. seen' = seen \cup {Head(wire).of} /\ alert' = alert
    BY <1>9 DEF HearAlert
  <2> QED BY <2>1, <2>2, <2>3
<1>10. ASSUME NEW m \in Minima, SetMinimum(m) PROVE AlertsInv'
  <2>1. UNCHANGED <<alert, seen, channel, wire>>
    BY <1>10 DEF SetMinimum
  <2> QED BY <2>1 DEF Sent
<1>11. ASSUME NEW p \in {"graph", "alerts"}, Open(p) PROVE AlertsInv'
  <2>1. Sent' \subseteq Sent
    BY <1>11, OpenLoses DEF Loses
  <2> QED BY <1>11, <2>1 DEF Open
<1>12. CASE UNCHANGED vars
  BY <1>12 DEF vars, Sent
<1> QED BY <1>1, <1>2, <1>3, <1>4, <1>5, <1>6, <1>7, <1>8, <1>9, <1>10, <1>11, <1>12 DEF Next, Worker, Hear

\* A read brings every alert that was heard before it, and its answer becomes the list.
LEMMA ListStep ==
    ASSUME TypeOK, AlertsInv, ListInv, [Next]_vars
    PROVE  ListInv'
<1> USE DEF ListInv, server, browser
<1>0. seen \subseteq Alerts
  BY DEF TypeOK
<1>1. ASSUME missed \subseteq missed', UNCHANGED <<page, seen, get, cache>> PROVE ListInv'
  BY <1>1
<1>2. CASE Worker \/ WalkFails \/ WorkerDies \/ Connect \/ Joined
  BY <1>1, <1>2 DEF Worker, Start, Turn, Flush, Finish, Announce, WalkFails, WorkerDies, Connect, Joined
<1>3. ASSUME NEW a \in Alerts, Raise(a) \/ Publish(a) PROVE ListInv'
  BY <1>1, <1>3 DEF Raise, Publish
<1>4. CASE Relay \/ RelayDies \/ Disconnect \/ Ignore
  <2>1. missed \subseteq missed'
    BY <1>4, RelayLoses, DropLoses, IgnoredIsLost DEF Loses
  <2> QED BY <1>1, <1>4, <2>1 DEF Relay, RelayDies, Disconnect, Ignore
<1>5. CASE HearHop \/ HearDone
  <2>1. page' = "graph"
    BY <1>5 DEF HearHop, HearDone
  <2> QED BY <2>1
<1>6. CASE HearAlert
  <2> DEFINE a == Head(wire).of
             first == cache[AlertList] = Nothing /\ get.stage \in {"asked", "answered"}
  <2>1. /\ seen' = seen \cup {a} /\ UNCHANGED <<page, cache>> /\ page = "alerts"
        /\ get' = IF a \in seen \/ first THEN get ELSE [NoGet EXCEPT !.stage = "asked"]
        /\ missed' = IF first /\ get.stage = "answered" THEN missed \cup ({a} \ get.rows) ELSE missed
    BY <1>6 DEF HearAlert
  <2> HIDE DEF a
  <2>2. CASE a \in seen
    BY <2>1, <2>2
  <2>3. CASE a \notin seen /\ first
    BY <2>1, <2>3
  <2>4. CASE a \notin seen /\ ~first
    <3>1. get'.stage = "asked"
      BY <2>1, <2>4 DEF NoGet
    <3> QED BY <3>1
  <2> QED BY <2>2, <2>3, <2>4
<1>7. ASSUME NEW m \in Minima, SetMinimum(m) PROVE ListInv'
  BY <1>7 DEF SetMinimum
<1>8. CASE Read
  <2>1. CASE page = "alerts"
    <3>1. get'.stage = "answered" /\ get'.rows = {a \in Alerts : alert[a] # "none"}
      BY <1>8, <2>1 DEF Read
    <3>2. seen \subseteq get'.rows
      BY <1>0, <3>1 DEF AlertsInv
    <3>3. UNCHANGED <<seen, missed>>
      BY <1>8 DEF Read
    <3> QED BY <3>1, <3>2, <3>3
  <2>2. CASE page # "alerts"
    BY <1>8, <2>2 DEF Read
  <2> QED BY <2>1, <2>2
<1>9. CASE Receive
  <2>1. CASE page = "alerts"
    <3>1. /\ get.stage = "answered" /\ get'.stage = "none" /\ UNCHANGED <<page, seen, missed>>
          /\ cache' = [cache EXCEPT ![AlertList] = get.rows]
      BY <1>9, <2>1 DEF Receive, Query, NoGet
    <3>2. cache'[AlertList] = get.rows
      BY <3>1 DEF TypeOK, Queries
    <3> QED BY <2>1, <3>1, <3>2
  <2>2. CASE page # "alerts"
    BY <1>9, <2>2 DEF Receive
  <2> QED BY <2>1, <2>2
<1>10. CASE GetFails \/ Refetch
  <2>1. get'.stage \in {"failed", "asked"}
    BY <1>10 DEF GetFails, Refetch, NoGet
  <2> QED BY <2>1
<1>11. ASSUME NEW p \in {"graph", "alerts"}, Open(p) PROVE ListInv'
  <2>1. seen' = {} /\ get'.stage \in {"none", "asked"}
    BY <1>11 DEF Open, NoGet
  <2> QED BY <2>1
<1>12. CASE UNCHANGED vars
  BY <1>1, <1>12 DEF vars
<1> QED BY <1>2, <1>3, <1>4, <1>5, <1>6, <1>7, <1>8, <1>9, <1>10, <1>11, <1>12 DEF Next, Hear

-----------------------------------------------------------------------------
(* The theorems *)

LEMMA InitIInv == Init => IInv
<1> SUFFICES ASSUME Init PROVE IInv
  OBVIOUS
<1>1. TypeOK
  BY InitType
<1>2. Sent = {}
  BY DEF Init, Sent, ToSet
<1>3. walk.at = "queued" /\ walk.buffer = {} /\ stored = {} /\ status = "QUEUED" /\ done = FALSE
  BY DEF Init
<1>4. seen = {} /\ get.stage = "asked"
  BY DEF Init, NoGet
<1> QED BY <1>1, <1>2, <1>3, <1>4 DEF IInv, HopsInv, WalkInv, DoneInv, AlertsInv, ListInv

LEMMA Invariant == Spec => []IInv
<1>1. IInv /\ [Next]_vars => IInv'
  BY TypeStep, HopsStep, WalkStep, DoneStep, AlertsStep, ListStep DEF IInv
<1> QED BY InitIInv, <1>1, PTL DEF Spec

\* The variables keep their types (the state of runTrace, of the relay and of the two pages).
THEOREM TypeCorrect == Spec => []TypeOK
<1>1. IInv => TypeOK
  BY DEF IInv
<1> QED BY Invariant, <1>1, PTL

\* useLiveTrace, mergeHop and useTraceGraph: a stored hop that the filter lists is on screen or on
\* its way, however publications, rows, reads and filter changes cross, unless its event found
\* nobody there; and the page says "Trace complete" only when every hop is stored.
THEOREM HopsAreInSight == Spec => []NothingMissed
<1>1. IInv => NothingMissed
  <2> SUFFICES ASSUME IInv PROVE NothingMissed
    OBVIOUS
  <2>1. TypeOK /\ HopsInv /\ DoneInv
    BY DEF IInv
  <2>2. channel \in Seq(Events) /\ wire \in Seq(Events) /\ stored \subseteq Hops
    BY <2>1 DEF TypeOK
  <2> DEFINE both == channel \o wire
  <2>3. both \in Seq(Events) /\ ToSet(both) = Sent
    BY <2>2, InConcatenated DEF Sent
  <2> HIDE DEF both
  <2>4. \A h \in Hops : Hop(h) \in Sent => h \in Heard(both, "hop")
    BY <2>3, HeardIs
  <2>5. ASSUME cache[minimum] # Nothing PROVE Shown = Loaded \cup live
    BY <2>5 DEF Shown, Drawn
  <2>6. done => stored = Hops
    BY <2>1 DEF DoneInv
  <2>7. ASSUME cache[minimum] # Nothing, NEW h \in stored \ Quiet
        PROVE  h \in Shown \cup missed \cup Heard(both, "hop")
    BY <2>1, <2>2, <2>4, <2>5, <2>7 DEF HopsInv
  <2> QED BY <2>6, <2>7 DEF NothingMissed, both
<1> QED BY Invariant, <1>1, PTL

\* AlertsPage, onNew: an alert that was heard is in the list, or a read that will bring it is under
\* way, unless that read fails or the alert was heard while the first answer was on its way.
THEOREM AlertsAreListed == Spec => []HeardIsListed
<1>1. IInv => HeardIsListed
  <2> SUFFICES ASSUME IInv, page = "alerts", cache[AlertList] # Nothing, NEW a \in seen \ missed
               PROVE  \/ a \in cache[AlertList]
                      \/ get.stage \in {"asked", "failed"}
                      \/ get.stage = "answered" /\ a \in get.rows
    BY DEF HeardIsListed
  <2>1. get.stage \in {"none", "asked", "answered", "failed"}
    BY DEF IInv, TypeOK
  <2> QED BY <2>1 DEF IInv, ListInv
<1> QED BY Invariant, <1>1, PTL
=============================================================================
