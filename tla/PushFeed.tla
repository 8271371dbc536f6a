-------------------------------- MODULE PushFeed --------------------------------
(***************************************************************************)
(* The connections over which events of BTC and EVM wallets are pushed     *)
(* (workers/monitor/evmSubscriber.ts, btcSubscriber.ts) and the start of   *)
(* the worker that opens them and says what to track                       *)
(* (workers/src/index.ts:195-203). Clients of several EVM chains behave    *)
(* alike; one stands for them.                                             *)
(***************************************************************************)
EXTENDS Naturals

CONSTANT MaxMishaps   \* failures, restarts, removals and expired keys (bound)

VARIABLES
    listed,     \* was the wallet on the list that the worker read when it started?
    line,       \* line[c]: the WebSocket of client c
    awaited,    \* clients whose first connection the start waits for
    watching,   \* clients that were given the list
    troubled,   \* (observation) a connection failed during the start
    mishaps     \* how many mishaps there were

feed == <<listed, line, awaited, watching, troubled>>

Clients == {"evm", "btc"}

FeedTypeOK ==
    /\ listed \in BOOLEAN
    /\ line \in [Clients -> {"connecting", "open", "tracking", "closed"}]
    /\ awaited \subseteq Clients /\ watching \subseteq Clients
    /\ troubled \in BOOLEAN

Mishap == mishaps < MaxMishaps /\ mishaps' = mishaps + 1

\* The worker starts: it reads the list and connects every client. (Without the list, nothing.)
Started == [line |-> [c \in Clients |-> "connecting"], awaited |-> Clients, watching |-> {}]

FeedInit(onList) ==
    /\ listed = onList
    /\ line = Started.line /\ awaited = Started.awaited /\ watching = Started.watching
    /\ troubled = FALSE

StartAgain(onList) ==
    /\ Mishap
    /\ listed' = onList
    /\ line' = Started.line /\ awaited' = Started.awaited /\ watching' = Started.watching
    /\ troubled' = FALSE

\* The last of the first connections opens, and c is it: the clients are given the list, EVM
\* first, BTC unless that threw, because the line dropped meanwhile and is being connected.
Subscribe(c) ==
    /\ awaited = {c}
    /\ watching' = IF c # "evm" /\ line["evm"] = "connecting" THEN {"evm"} ELSE Clients
    /\ line' = [d \in Clients |-> IF d \in watching' /\ (d = c \/ line[d] = "open") THEN "tracking"
                                  ELSE line[d]]

\* Variant: a client that is connected again does not say what to track.
OpenSilently(c) ==
    /\ line[c] = "connecting"
    /\ awaited' = awaited \ {c}
    /\ \/ Subscribe(c)
       \/ awaited # {c} /\ line' = [line EXCEPT ![c] = "open"] /\ UNCHANGED watching
    /\ UNCHANGED <<listed, troubled, mishaps>>

\* A connection opens. A client that is connected again repeats the list it was given, if any.
Open(c) ==
    /\ line[c] = "connecting"
    /\ awaited' = awaited \ {c}
    /\ \/ Subscribe(c)
       \/ /\ awaited # {c}
          /\ line' = [line EXCEPT ![c] = IF c \in watching THEN "tracking" ELSE "open"]
          /\ UNCHANGED watching
    /\ UNCHANGED <<listed, troubled, mishaps>>

\* A connection is refused or drops. If the start waits for it, the start is given up, and no
\* client is ever given the list.
Close(c) ==
    /\ Mishap
    /\ line[c] # "closed"
    /\ line' = [line EXCEPT ![c] = "closed"]
    /\ awaited' = IF c \in awaited THEN {} ELSE awaited
    /\ troubled' = (troubled \/ awaited # {})
    /\ UNCHANGED <<listed, watching>>

\* The back-off is over.
Reconnect(c) ==
    /\ line[c] = "closed"
    /\ line' = [line EXCEPT ![c] = "connecting"]
    /\ UNCHANGED <<listed, awaited, watching, troubled, mishaps>>

-----------------------------------------------------------------------------
\* Once the worker has started, a connection that is open is one over which the provider was
\* told what to track, however often it dropped: unless a connection failed during the start.
OpenLinesTrack == awaited = {} /\ ~troubled => \A c \in Clients : line[c] # "open"
=============================================================================
