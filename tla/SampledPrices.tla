---------------------------- MODULE SampledPrices ----------------------------
(***************************************************************************)
(* SampledPriceService: every minute a pass looks for an instrument whose  *)
(* quarter of an hour has no price yet and asks the provider, and every    *)
(* pass first drops what has been kept long enough.  A pass may take       *)
(* longer than a minute, and a process may restart within.  Each process   *)
(* of the API has the service and its timer, with its own busy and its own *)
(* memory of what it has asked; they share the database only.  Candles are *)
(* then drawn from the samples; they only read.                            *)
(***************************************************************************)
EXTENDS Integers, FiniteSets

CONSTANTS
  Slugs,        \* the sampled instruments
  Replicas,     \* processes of the API: backend and backend-b
  Passes,       \* passes under way at a time in a process
  LastQuarter,  \* bound on the quarters
  Retention,    \* how many quarters are kept: 30 days
  MaxStarts     \* bound on the restarts of a process

ASSUME SampledAssumption ==
  {LastQuarter, MaxStarts} \subseteq Nat /\ Retention \in Nat \ {0}

VARIABLES
  quarter,     \* now
  busy,        \* process -> whether a pass is under way in it
  attempted,   \* process, instrument -> the quarter it asked for last
  samples,     \* sampled_prices: <<instrument, quarter, process, how many it
               \* had stored>>; the last two stand for the moment sampled_at
  pass,        \* process, pass -> its quarter, what is left of its loop, and
               \* where it is
  asks,        \* process, instrument, quarter -> how often it asked the provider
  starts       \* process -> its restarts

sampledVars == <<quarter, busy, attempted, samples, pass, asks, starts>>

NoQuarter == -1
NoPass == [quarter |-> NoQuarter, todo |-> {}, slug |-> "NONE", step |-> "NONE"]
SampledInit ==
  /\ quarter = 0
  /\ busy = [r \in Replicas |-> FALSE]
  /\ attempted = [m \in Replicas \X Slugs |-> NoQuarter]
  /\ samples = {}
  /\ pass = [w \in Replicas \X Passes |-> NoPass]
  /\ asks = [a \in Replicas \X Slugs \X (0 .. LastQuarter) |-> 0]
  /\ starts = [r \in Replicas |-> 0]

NextQuarter ==
  /\ quarter < LastQuarter
  /\ quarter' = quarter + 1
  /\ UNCHANGED <<busy, attempted, samples, pass, asks, starts>>

(* Faulty: a slow pass does not keep its process from starting the next.  *)
MayPollAlways(r) == TRUE

MayPoll(r) == ~busy[r]

BeginPass(r, p) ==
  /\ MayPoll(r) /\ pass[<<r, p>>] = NoPass
  /\ busy' = [busy EXCEPT ![r] = TRUE]
  /\ samples' = {s \in samples : s[2] > quarter - Retention}
  /\ pass' = [pass EXCEPT ![<<r, p>>] = [quarter |-> quarter, todo |-> Slugs, slug |-> "NONE",
                                         step |-> "NEXT"]]
  /\ UNCHANGED <<quarter, attempted, asks, starts>>

(* The next instrument: asked for already, or to be looked up.             *)
NextInstrument(r, p, i) ==
  /\ pass[<<r, p>>].step = "NEXT" /\ i \in pass[<<r, p>>].todo
  /\ LET later == [pass[<<r, p>>] EXCEPT !.todo = @ \ {i}]
     IN  pass' = [pass EXCEPT ![<<r, p>>] =
           IF attempted[<<r, i>>] = pass[<<r, p>>].quarter THEN later
           ELSE [later EXCEPT !.slug = i, !.step = "LOOK"]]
  /\ UNCHANGED <<quarter, busy, attempted, samples, asks, starts>>

(* The query's answer; if there is no sample the provider is asked, and    *)
(* nothing keeps another process from finding none either.                 *)
LookUp(r, p) ==
  LET i == pass[<<r, p>>].slug
      q == pass[<<r, p>>].quarter
  IN  /\ pass[<<r, p>>].step = "LOOK"
      /\ IF \E s \in samples : s[1] = i /\ s[2] >= q
           THEN /\ pass' = [pass EXCEPT ![<<r, p>>].step = "NEXT"]
                /\ UNCHANGED <<attempted, asks>>
           ELSE /\ pass' = [pass EXCEPT ![<<r, p>>].step = "ASK"]
                /\ attempted' = [attempted EXCEPT ![<<r, i>>] = q]
                /\ asks' = [asks EXCEPT ![<<r, i, q>>] = @ + 1]
      /\ UNCHANGED <<quarter, busy, samples, starts>>

(* A price is recorded for the moment the pass began, or it is not: the    *)
(* provider fails, or another process began at that very moment.           *)
RecordSample(r, p) ==
  /\ pass[<<r, p>>].step = "ASK"
  /\ LET i == pass[<<r, p>>].slug
         q == pass[<<r, p>>].quarter
         n == Cardinality({s \in samples : s[1] = i /\ s[2] = q /\ s[3] = r})
     IN  samples' \in {samples, samples \cup {<<i, q, r, n>>}}
  /\ pass' = [pass EXCEPT ![<<r, p>>].step = "NEXT"]
  /\ UNCHANGED <<quarter, busy, attempted, asks, starts>>

(* The loop is over, or the query has failed, which ends it.               *)
EndPass(r, p) ==
  /\ \/ pass[<<r, p>>].step = "NEXT" /\ pass[<<r, p>>].todo = {}
     \/ pass[<<r, p>>].step = "LOOK"
  /\ busy' = [busy EXCEPT ![r] = FALSE]
  /\ pass' = [pass EXCEPT ![<<r, p>>] = NoPass]
  /\ UNCHANGED <<quarter, attempted, samples, asks, starts>>

RestartProcess(r) ==
  /\ starts[r] < MaxStarts /\ starts' = [starts EXCEPT ![r] = @ + 1]
  /\ busy' = [busy EXCEPT ![r] = FALSE]
  /\ attempted' = [m \in Replicas \X Slugs |-> IF m[1] = r THEN NoQuarter ELSE attempted[m]]
  /\ pass' = [w \in Replicas \X Passes |-> IF w[1] = r THEN NoPass ELSE pass[w]]
  /\ UNCHANGED <<quarter, samples, asks>>

SampledNext ==
  \/ NextQuarter
  \/ \E r \in Replicas :
       \/ RestartProcess(r)
       \/ \E p \in Passes :
            \/ BeginPass(r, p) \/ LookUp(r, p) \/ RecordSample(r, p) \/ EndPass(r, p)
            \/ \E i \in Slugs : NextInstrument(r, p, i)

SampledSpec == SampledInit /\ [][SampledNext]_sampledVars

-----------------------------------------------------------------------------
(* However slow its passes are and whatever the other processes do, one    *)
(* process stores one price of an instrument per quarter, and asks the     *)
(* provider, who counts the questions, once per quarter and once more per  *)
(* restart.                                                                *)
OneSamplePerProcess ==
  /\ \A s, t \in samples : s[1] = t[1] /\ s[2] = t[2] /\ s[3] = t[3] => s = t
  /\ \A r \in Replicas, i \in Slugs, q \in 0 .. LastQuarter :
       asks[<<r, i, q>>] <= 1 + starts[r]

(* What docs/SAMPLED_MARKET_PRICES.md says: "The backend samples each      *)
(* symbol at most once per 15-minute UTC bucket".  Two processes that look *)
(* before either has stored a price break it.                              *)
OneSamplePerQuarter == \A s, t \in samples : s[1] = t[1] /\ s[2] = t[2] => s = t
=============================================================================
