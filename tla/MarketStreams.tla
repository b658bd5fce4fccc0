---------------------------- MODULE MarketStreams ----------------------------
(***************************************************************************)
(* MarketRealtimeGateway: customers who look at the same instrument and    *)
(* interval share one connection to the provider, which is opened for the  *)
(* first, reopened after a pause when it breaks, and closed after the      *)
(* last.  A StreamState outlives its entry in the map until its connection *)
(* has closed, and a new one of the same key may exist by then.  The map   *)
(* is a process's own: this is one process of the API and the customers    *)
(* connected to it, and each process has connections of its own.  Beside it*)
(* the web page's own provider connection for the price list,              *)
(* useCryptoTickers, which reconnects in the same way.                     *)
(***************************************************************************)
EXTENDS FiniteSets

CONSTANTS
  Sockets,        \* connected customers
  Keys,           \* instrument and interval
  StreamStates,   \* bound on the StreamState objects alive at a time
  NoKey, NoStream

ASSUME MarketAssumption == NoKey \notin Keys /\ NoStream \notin StreamStates

VARIABLES
  clientStreams,   \* socket -> key
  streams,         \* key -> StreamState
  stream,          \* StreamState -> its fields
  closing,         \* StreamStates whose connection is being closed
  tickers          \* the price list's connection, and whether it is on screen

marketVars == <<clientStreams, streams, stream, closing, tickers>>

Link == {"NONE", "CONNECTING", "OPEN"}
NewStream == [subscribers |-> {}, socket |-> "NONE", reconnectTimer |-> FALSE, stopped |-> FALSE]
NoTickers == [socket |-> "NONE", timer |-> FALSE, stopped |-> TRUE]

MarketInit ==
  /\ clientStreams = [c \in Sockets |-> NoKey]
  /\ streams = [k \in Keys |-> NoStream]
  /\ stream = [i \in StreamStates |-> NewStream]
  /\ closing = {}
  /\ tickers = NoTickers

Mapped(i) == \E k \in Keys : streams[k] = i

(* Neither in the map nor in the closure of a connection or timer.         *)
Collected(i) ==
  /\ ~Mapped(i) /\ i \notin closing
  /\ stream[i].socket = "NONE" /\ ~stream[i].reconnectTimer

-----------------------------------------------------------------------------
(* Faulty: reconnects for customers who have left.                         *)
WantedAlways(state) == TRUE

(* What connectProvider and the close handler ask first.                   *)
Wanted(state) == ~state.stopped /\ state.subscribers # {}

ConnectProvider(state) ==
  IF Wanted(state) THEN [state EXCEPT !.socket = "CONNECTING"] ELSE state

(* releaseClient: what remains of the map when a customer leaves, and the  *)
(* stream, stopped if he was its last.                                     *)
Remains(c) ==
  LET k == clientStreams[c]
      i == streams[k]
      left == stream[i].subscribers \ {c}
  IN  IF k = NoKey
      THEN [streams |-> streams, stream |-> stream, closing |-> closing]
      ELSE IF left # {}
      THEN [streams |-> streams, closing |-> closing,
            stream |-> [stream EXCEPT ![i].subscribers = left]]
      ELSE [streams |-> [streams EXCEPT ![k] = NoStream],
            stream |-> [stream EXCEPT ![i] =
                          [subscribers |-> {}, socket |-> "NONE",
                           reconnectTimer |-> FALSE, stopped |-> TRUE]],
            closing |-> IF stream[i].socket = "NONE" THEN closing ELSE closing \cup {i}]

UnsubscribeFeed(c) ==
  /\ clientStreams[c] # NoKey
  /\ LET rest == Remains(c)
     IN streams' = rest.streams /\ stream' = rest.stream /\ closing' = rest.closing
  /\ clientStreams' = [clientStreams EXCEPT ![c] = NoKey]
  /\ UNCHANGED tickers

SubscribeFeed(c, k) ==
  LET rest == Remains(c)
  IN  /\ clientStreams' = [clientStreams EXCEPT ![c] = k]
      /\ closing' = rest.closing
      /\ \/ /\ rest.streams[k] # NoStream
            /\ streams' = rest.streams
            /\ stream' = [rest.stream EXCEPT ![rest.streams[k]].subscribers = @ \cup {c}]
         \/ /\ rest.streams[k] = NoStream
            /\ \E i \in StreamStates :
                 /\ Collected(i)
                 /\ streams' = [rest.streams EXCEPT ![k] = i]
                 /\ stream' = [rest.stream EXCEPT ![i] =
                                 ConnectProvider([NewStream EXCEPT !.subscribers = {c}])]
      /\ UNCHANGED tickers

-----------------------------------------------------------------------------
(* What happens on a stream's connection; errors end in a close.           *)
ProviderOpens(i) ==
  /\ stream[i].socket = "CONNECTING"
  /\ stream' = [stream EXCEPT ![i].socket = "OPEN"]
  /\ UNCHANGED <<clientStreams, streams, closing, tickers>>

OnClose(state) ==
  [state EXCEPT !.socket = "NONE", !.reconnectTimer = Wanted(state) \/ @]

ProviderCloses(i) ==
  /\ stream[i].socket # "NONE"
  /\ stream' = [stream EXCEPT ![i] = OnClose(@)]
  /\ UNCHANGED <<clientStreams, streams, closing, tickers>>

ClosingEnds(i) ==
  /\ i \in closing
  /\ closing' = closing \ {i}
  /\ stream' = [stream EXCEPT ![i] = OnClose(@)]
  /\ UNCHANGED <<clientStreams, streams, tickers>>

Reconnects(i) ==
  /\ stream[i].reconnectTimer
  /\ stream' = [stream EXCEPT ![i] = ConnectProvider([@ EXCEPT !.reconnectTimer = FALSE])]
  /\ UNCHANGED <<clientStreams, streams, closing, tickers>>

-----------------------------------------------------------------------------
(* The price list appears, for one set of instruments, and goes.           *)
TickersAppear ==
  /\ tickers.stopped
  /\ \E socket \in {"CONNECTING", "NONE"} :   \* NONE: the constructor threw
       tickers' = [socket |-> socket, timer |-> socket = "NONE", stopped |-> FALSE]
  /\ UNCHANGED <<clientStreams, streams, stream, closing>>

TickersGo ==
  /\ ~tickers.stopped
  /\ tickers' = NoTickers
  /\ UNCHANGED <<clientStreams, streams, stream, closing>>

TickersBreak ==
  /\ tickers.socket # "NONE"
  /\ tickers' = [tickers EXCEPT !.socket = "NONE", !.timer = ~tickers.stopped]
  /\ UNCHANGED <<clientStreams, streams, stream, closing>>

TickersConnect ==
  /\ \/ tickers.timer /\ tickers' = [tickers EXCEPT !.socket = "CONNECTING", !.timer = FALSE]
     \/ tickers.socket = "CONNECTING" /\ tickers' = [tickers EXCEPT !.socket = "OPEN"]
  /\ UNCHANGED <<clientStreams, streams, stream, closing>>

MarketNext ==
  \/ \E c \in Sockets : UnsubscribeFeed(c) \/ \E k \in Keys : SubscribeFeed(c, k)
  \/ \E i \in StreamStates :
       ProviderOpens(i) \/ ProviderCloses(i) \/ ClosingEnds(i) \/ Reconnects(i)
  \/ TickersAppear \/ TickersGo \/ TickersBreak \/ TickersConnect

MarketSpec == MarketInit /\ [][MarketNext]_marketVars

-----------------------------------------------------------------------------
(* Whatever customers come, go and change their minds while connections    *)
(* break and close: an instrument somebody looks at has one connection or  *)
(* one attempt ahead, never two and never none, and nothing is connected   *)
(* for nobody.                                                             *)
OneConnectionPerFeed ==
  /\ \A i \in StreamStates :
       stream[i].socket # "NONE" \/ stream[i].reconnectTimer => Mapped(i)
  /\ \A k \in Keys : LET i == streams[k] IN
       IF i = NoStream
       THEN \A c \in Sockets : clientStreams[c] # k
       ELSE /\ stream[i].subscribers = {c \in Sockets : clientStreams[c] = k}
            /\ stream[i].subscribers # {}
            /\ stream[i].socket = "NONE" <=> stream[i].reconnectTimer
  /\ ~tickers.stopped => (tickers.socket = "NONE" <=> tickers.timer)
=============================================================================
