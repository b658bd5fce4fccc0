-------------------------------- MODULE Charts --------------------------------
(***************************************************************************)
(* A live chart: the web page of an instrument merges candles pushed over  *)
(* the stream into a series it fetches every ten seconds, and again when   *)
(* it notices a gap; MarketDataService answers from a cache and asks the   *)
(* provider once for all who wait.  Each process of the API has its own    *)
(* cache, and a request may go to any of them.                             *)
(*                                                                         *)
(* Time is counted in moments, two to a candle, and the price of a moment  *)
(* is the moment.  A series is its newest candle, as of some moment, and   *)
(* its providerTimestamp: the candle's close in a fetched one, the moment  *)
(* of the event after a merge.  Older candles of the series, and the other *)
(* instruments, are left out.                                              *)
(***************************************************************************)
EXTENDS Integers, Sequences

CONSTANTS
  Fetches,      \* requests of the page at a time
  Backends,     \* processes of the API
  LastMoment,   \* bound on the moments in which prices move
  MaxFaults,    \* bound on failing answers of the provider and lost streams
  MaxPushed     \* bound on the events under way

ASSUME ChartsAssumption ==
  {LastMoment, MaxFaults} \subseteq Nat /\ MaxPushed \in Nat \ {0}

VARIABLES
  moment,    \* now
  cache,     \* process -> [asOf, fresh] of its cached series
  pending,   \* process -> its request to the provider: what it has read, if
             \* anything
  fetching,  \* fetch -> "IDLE", "WAITING" for the provider's answer to the process
             \* it is at, or the series' moment
  pushed,    \* events under way, each the moment it tells of
  gap,       \* events have been lost since the last that was received
  series,    \* [asOf, timestamp], or none
  faults

chartVars == <<moment, cache, pending, fetching, pushed, gap, series, faults>>

NoMoment == -1
NoSeries == [asOf |-> NoMoment, timestamp |-> NoMoment]
Answer(asOf) == [step |-> "ANSWERED", asOf |-> asOf, at |-> {}]
NotFetching == [step |-> "IDLE", asOf |-> NoMoment, at |-> {}]
Uncached == [asOf |-> NoMoment, fresh |-> FALSE]
NotAsked == [asked |-> FALSE, asOf |-> NoMoment]
CloseOf(t) == 2 * (t \div 2) + 1   \* the last moment of its candle

ChartInit ==
  /\ moment = 0
  /\ cache \in [Backends -> {Uncached, [asOf |-> 0, fresh |-> TRUE]}]
  /\ pending = [b \in Backends |-> NotAsked]
  /\ fetching = [f \in Fetches |-> NotFetching]
  /\ pushed = <<>> /\ gap = FALSE
  /\ series = NoSeries
  /\ faults = 0

-----------------------------------------------------------------------------
(* The price moves; an event tells of it, and lost streams tell nothing.   *)
PriceMoves ==
  /\ moment < LastMoment
  /\ moment' = moment + 1
  /\ \/ /\ Len(pushed) < MaxPushed
        /\ pushed' = Append(pushed, moment')
        /\ UNCHANGED <<gap, faults>>
     \/ /\ faults < MaxFaults
        /\ faults' = faults + 1 /\ pushed' = <<>> /\ gap' = TRUE
  /\ UNCHANGED <<cache, pending, fetching, series>>

Expires(b) ==
  /\ cache[b].fresh
  /\ cache' = [cache EXCEPT ![b].fresh = FALSE]
  /\ UNCHANGED <<moment, pending, fetching, pushed, gap, series, faults>>

-----------------------------------------------------------------------------
(* candles: from the cache, or from the provider, which is asked once.     *)
Fetch(f, b) ==
  /\ fetching[f] = NotFetching
  /\ IF cache[b].fresh
       THEN /\ fetching' = [fetching EXCEPT ![f] = Answer(cache[b].asOf)]
            /\ UNCHANGED <<cache, pending>>
       ELSE /\ fetching' = [fetching EXCEPT ![f].step = "WAITING", ![f].at = {b}]
            /\ cache' = [cache EXCEPT ![b] = Uncached]
            /\ pending' = [pending EXCEPT ![b].asked = TRUE]

(* The page's timer; its own requests may overtake each other.             *)
Poll(f) == (\E b \in Backends : Fetch(f, b)) /\ UNCHANGED <<moment, pushed, gap, series, faults>>

ProviderReads(b) ==
  /\ pending[b].asked /\ pending[b].asOf = NoMoment
  /\ pending' = [pending EXCEPT ![b].asOf = moment]
  /\ UNCHANGED <<moment, cache, fetching, pushed, gap, series, faults>>

(* Everybody who waits at a process gets its answer.                       *)
Resolved(b, answer) ==
  [f \in Fetches |-> IF fetching[f].at = {b} THEN answer ELSE fetching[f]]

(* setCache, and the answer.                                               *)
ProviderAnswers(b) ==
  /\ pending[b].asOf # NoMoment
  /\ cache' = [cache EXCEPT ![b] = [asOf |-> pending[b].asOf, fresh |-> TRUE]]
  /\ fetching' = Resolved(b, Answer(pending[b].asOf))
  /\ pending' = [pending EXCEPT ![b] = NotAsked]
  /\ UNCHANGED <<moment, pushed, gap, series, faults>>

ProviderFails(b) ==
  /\ pending[b].asked /\ faults < MaxFaults
  /\ faults' = faults + 1
  /\ fetching' = Resolved(b, NotFetching)
  /\ pending' = [pending EXCEPT ![b] = NotAsked]
  /\ UNCHANGED <<moment, cache, pushed, gap, series>>

-----------------------------------------------------------------------------
(* Faulty: the cached series of the same candle looks no newer.            *)
SupersedesIfNewer(timestamp) == timestamp > series.timestamp

Supersedes(timestamp) == timestamp >= series.timestamp

FetchArrives(f) ==
  LET fetched == [asOf |-> fetching[f].asOf, timestamp |-> CloseOf(fetching[f].asOf)]
  IN  /\ fetching[f].step = "ANSWERED"
      /\ series' = IF Supersedes(fetched.timestamp) THEN fetched ELSE series
      /\ fetching' = [fetching EXCEPT ![f] = NotFetching]
      /\ UNCHANGED <<moment, cache, pending, pushed, gap, faults>>

(* mergeRealtimeCandle: the event's candle replaces the series' own of     *)
(* that time, or is added; the timestamp is the event's in any case.       *)
Merged(t) ==
  IF series = NoSeries THEN NoSeries
  ELSE [asOf |-> IF CloseOf(t) < CloseOf(series.asOf) THEN series.asOf ELSE t,
        timestamp |-> t]

(* onCandle, and before it onGap, whose resync fetches at once.            *)
EventArrives ==
  /\ pushed # <<>>
  /\ pushed' = Tail(pushed)
  /\ series' = Merged(Head(pushed))
  /\ gap' = FALSE
  /\ IF gap /\ \E f \in Fetches : fetching[f] = NotFetching
       THEN \E f \in Fetches, b \in Backends : Fetch(f, b)
       ELSE UNCHANGED <<cache, pending, fetching>>
  /\ UNCHANGED <<moment, faults>>

(* Another instrument or interval, and back: what is under way is dropped. *)
Reselect ==
  /\ series # NoSeries /\ faults < MaxFaults
  /\ faults' = faults + 1
  /\ series' = NoSeries /\ pushed' = <<>> /\ gap' = FALSE
  /\ fetching' = [f \in Fetches |-> NotFetching]
  /\ UNCHANGED <<moment, cache, pending>>

ChartNext ==
  \/ PriceMoves \/ EventArrives \/ Reselect
  \/ \E b \in Backends : Expires(b) \/ ProviderReads(b) \/ ProviderAnswers(b) \/ ProviderFails(b)
  \/ \E f \in Fetches : Poll(f) \/ FetchArrives(f)

(* The page's timer, the cache's lifetime, and a provider that answers.    *)
ChartFairness ==
  /\ WF_chartVars(EventArrives)
  /\ \A b \in Backends :
       WF_chartVars(Expires(b)) /\ WF_chartVars(ProviderReads(b) \/ ProviderAnswers(b))
  /\ \A f \in Fetches : WF_chartVars(Poll(f) \/ FetchArrives(f))

ChartSpec == ChartInit /\ [][ChartNext]_chartVars /\ ChartFairness

-----------------------------------------------------------------------------
(* When the price rests, the chart comes to show it, from whichever of the *)
(* caches, the provider and the stream it heard last and though the stream *)
(* may tell it nothing more.                                               *)
ChartCatchesUp == <>[](series.asOf = moment)
=============================================================================
