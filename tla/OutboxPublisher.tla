--------------------------- MODULE OutboxPublisher --------------------------
(***************************************************************************)
(* OutboxPublisherService.publishBatch as run by several financial         *)
(* workers (database/outbox-publisher.service.ts,                          *)
(* workers/financial-worker.ts): claim a batch under a fresh token for two *)
(* minutes, dispatch its events one by one, record each outcome if the     *)
(* token still stands.                                                     *)
(*                                                                         *)
(* A worker runs one batch at a time, so the worker's name stands for the  *)
(* batch's token; the token of a batch that ended early is "ORPHAN", which *)
(* no batch holds.  Time is two steps: a lease runs out, a delayed event   *)
(* becomes due.  The dispatcher is external.                               *)
(***************************************************************************)
EXTENDS Integers, FiniteSets

CONSTANTS
  Workers,
  Events,     \* outbox events, numbered by occurred_at: bounds the model
  Limit,      \* events a batch may claim
  NoEvent

ASSUME OutboxAssumption ==
  /\ IsFiniteSet(Events) /\ Events \subseteq Nat
  /\ Limit \in Nat \ {0}
  /\ NoEvent \notin Events
  /\ Workers \cap {"NONE", "ORPHAN"} = {}

VARIABLES
  row,        \* outbox_events: [state, claim, fresh, due]
  worker,     \* the batch a worker is in: [hand, event, outcome]
  delivered   \* history: events a dispatch handed over

vars == <<row, worker, delivered>>

NoRow == [state |-> "NONE", claim |-> "NONE", fresh |-> FALSE, due |-> FALSE]
Idle  == [hand |-> {}, event |-> NoEvent, outcome |-> "NONE"]

-----------------------------------------------------------------------------
Init ==
  /\ row = [e \in Events |-> NoRow]
  /\ worker = [w \in Workers |-> Idle]
  /\ delivered = {}

(* The transaction that enqueued e commits, not always in numeric order.   *)
Enqueue(e) ==
  /\ row[e] = NoRow
  /\ row' = [row EXCEPT ![e] = [NoRow EXCEPT !.state = "PENDING", !.due = TRUE]]
  /\ UNCHANGED <<worker, delivered>>

(* Faulty: an abandoned claim is never taken over.                         *)
ClaimableUnclaimed == {e \in Events : row[e].state = "PENDING" /\ row[e].due
                                        /\ row[e].claim = "NONE"}

Claimable == {e \in Events : /\ row[e].state = "PENDING" /\ row[e].due
                             /\ row[e].claim = "NONE" \/ ~row[e].fresh}

(* The oldest Limit of them.  FOR UPDATE SKIP LOCKED keeps two claims from *)
(* taking one row, so a claim is a step.                                   *)
Claim(w) ==
  LET batch == {e \in Claimable : Cardinality({f \in Claimable : f < e}) < Limit}
  IN  /\ worker[w] = Idle
      /\ batch # {}
      /\ row' = [e \in Events |->
                   IF e \in batch THEN [row[e] EXCEPT !.claim = w, !.fresh = TRUE] ELSE row[e]]
      /\ worker' = [worker EXCEPT ![w].hand = batch]
      /\ UNCHANGED delivered

(* The dispatcher takes the event, refuses it, or takes it and fails to    *)
(* say so.                                                                 *)
Dispatch(w, e) ==
  /\ e \in worker[w].hand
  /\ worker[w].event = NoEvent
  /\ \E outcome \in {"TAKEN", "FAILED"}, reached \in BOOLEAN :
       /\ outcome = "TAKEN" => reached
       /\ delivered' = IF reached THEN delivered \cup {e} ELSE delivered
       /\ worker' = [worker EXCEPT ![w] = [hand    |-> worker[w].hand \ {e},
                                           event   |-> e,
                                           outcome |-> outcome]]
  /\ UNCHANGED row

(* What an outcome makes of the event's row: published, or delayed.        *)
Recorded(outcome) ==
  IF outcome = "TAKEN" THEN [NoRow EXCEPT !.state = "PUBLISHED"]
  ELSE [NoRow EXCEPT !.state = "PENDING"]

(* Faulty: whoever is late has the last word.                              *)
RecordAnyToken(w) ==
  LET e == worker[w].event
  IN  /\ e # NoEvent
      /\ row' = [row EXCEPT ![e] = Recorded(worker[w].outcome)]
      /\ worker' = [worker EXCEPT ![w].event = NoEvent, ![w].outcome = "NONE"]
      /\ UNCHANGED delivered

(* Faulty: a failure is recorded as the last try.                          *)
RecordLastTry(w) ==
  LET e == worker[w].event
  IN  /\ e # NoEvent
      /\ row' = IF row[e].claim = w THEN [row EXCEPT ![e] = Recorded("TAKEN")] ELSE row
      /\ worker' = [worker EXCEPT ![w].event = NoEvent, ![w].outcome = "NONE"]
      /\ UNCHANGED delivered

(* updateMany where the token is the batch's and nothing is published yet. *)
Record(w) ==
  LET e == worker[w].event
  IN  /\ e # NoEvent
      /\ row' = IF row[e].claim = w /\ row[e].state = "PENDING"
                THEN [row EXCEPT ![e] = Recorded(worker[w].outcome)] ELSE row
      /\ worker' = [worker EXCEPT ![w].event = NoEvent, ![w].outcome = "NONE"]
      /\ UNCHANGED delivered

(* The database fails to record the success: the catch block records a     *)
(* failure of the event that was delivered.                                *)
RecordingFails(w) ==
  /\ worker[w].outcome = "TAKEN"
  /\ worker' = [worker EXCEPT ![w].outcome = "FAILED"]
  /\ UNCHANGED <<row, delivered>>

(* The process dies, or the catch block's own update throws.               *)
EndEarly(w) ==
  /\ worker[w] # Idle
  /\ worker' = [worker EXCEPT ![w] = Idle]
  /\ row' = [e \in Events |->
               IF row[e].claim = w THEN [row[e] EXCEPT !.claim = "ORPHAN"] ELSE row[e]]
  /\ UNCHANGED delivered

LeaseRunsOut(e) ==
  /\ row[e].fresh
  /\ row' = [row EXCEPT ![e].fresh = FALSE]
  /\ UNCHANGED <<worker, delivered>>

(* next_attempt_at, at least two seconds and at most an hour away.         *)
BecomesDue(e) ==
  /\ row[e].state = "PENDING" /\ ~row[e].due
  /\ row' = [row EXCEPT ![e].due = TRUE]
  /\ UNCHANGED <<worker, delivered>>

Next ==
  \/ \E e \in Events : Enqueue(e) \/ LeaseRunsOut(e) \/ BecomesDue(e)
  \/ \E w \in Workers :
       \/ Claim(w) \/ Record(w) \/ RecordingFails(w) \/ EndEarly(w)
       \/ \E e \in Events : Dispatch(w, e)

(* Workers loop and time passes.  A batch may end early again and again,   *)
(* but not for ever between claiming an event and dispatching it.          *)
PublisherFairness ==
  /\ \A w \in Workers :
       /\ WF_vars(Claim(w)) /\ WF_vars(Record(w))
       /\ \A e \in Events : SF_vars(Dispatch(w, e))
  /\ \A e \in Events : WF_vars(LeaseRunsOut(e)) /\ WF_vars(BecomesDue(e))

Spec == Init /\ [][Next]_vars /\ PublisherFairness

-----------------------------------------------------------------------------
RowType == [state : {"NONE", "PENDING", "PUBLISHED"},
            claim : Workers \cup {"NONE", "ORPHAN"}, fresh : BOOLEAN, due : BOOLEAN]
WorkerType == [hand : SUBSET Events, event : Events \cup {NoEvent},
               outcome : {"NONE", "TAKEN", "FAILED"}]

TypeOK ==
  /\ row \in [Events -> RowType]
  /\ worker \in [Workers -> WorkerType]
  /\ delivered \subseteq Events

(* OutboxDispatcher: "at-least-once semantics".  Whatever crashes, late    *)
(* outcomes and lost records there are, what is published was delivered.   *)
AtLeastOnce == \A e \in Events : row[e].state = "PUBLISHED" => e \in delivered

(* While a batch's lease on an event runs, only that batch and time change *)
(* its row: a worker that comes late neither frees nor decides an event    *)
(* another has taken over.                                                 *)
LeaseIsExclusive ==
  [][\A w \in Workers, e \in Events :
       row[e].claim = w /\ row[e].fresh /\ worker'[w] = worker[w] =>
         [row'[e] EXCEPT !.fresh = TRUE] = row[e]]_vars

(* No event is forgotten: failed, orphaned or overtaken, it is dispatched  *)
(* again until it is published.                                            *)
BeingTried(e) == \E w \in Workers : worker[w].event = e
EveryEventIsTried ==
  \A e \in Events : []<>(row[e].state = "PENDING" => BeingTried(e))
=============================================================================
