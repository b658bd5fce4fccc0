------------------------------- MODULE Notices -------------------------------
(***************************************************************************)
(* How the predictions page learns of settlements: it polls for the events *)
(* after the last it has seen, announces the newest result of each answer, *)
(* and keeps its cursor in localStorage, where the user's other windows    *)
(* and later visits find it.                                               *)
(***************************************************************************)
EXTENDS Integers, FiniteSetsExt

CONSTANTS
  PageWindows,       \* windows in which the user has the page open
  LastAccountEvent,  \* bound on the events of the user's stream
  OtherEvents,       \* those that are not about a stake
  EventPage,         \* events in an answer: 100
  MaxVisits          \* bound on reloads and on questions opened

ASSUME NoticesAssumption ==
  /\ LastAccountEvent \in Nat /\ OtherEvents \subseteq 1..LastAccountEvent
  /\ EventPage \in Nat \ {0} /\ MaxVisits \in Nat

VARIABLES
  happened,    \* last_sequence of the user's stream
  saved,       \* the cursor in localStorage
  noticeCursor, \* window -> sequence
  checking,    \* window -> the poll it waits for
  abandoned,   \* polls whose window has started afresh
  announced,   \* events of answers that a notice was shown for
  since,       \* where windows without a cursor were told to begin
  visits

noticesVars == <<happened, saved, noticeCursor, checking, abandoned, announced, since, visits>>

NoCursor == -1
NotChecking == [after |-> NoCursor, step |-> "NONE", next |-> NoCursor, events |-> {}]

NoticesInit ==
  /\ happened \in {0, 1}
  /\ saved = NoCursor
  /\ noticeCursor = [w \in PageWindows |-> NoCursor]
  /\ checking = [w \in PageWindows |-> NotChecking]
  /\ abandoned = {} /\ announced = {}
  /\ since = 0 /\ visits = 0

(* personalEvents: a page of the events about stakes after the cursor; at  *)
(* the end of them the cursor moves on to the end of the stream.           *)
PersonalEvents(after) ==
  LET mine  == {e \in after + 1 .. happened : e \notin OtherEvents}
      first == {e \in mine : Cardinality({f \in mine : f < e}) < EventPage}
  IN  IF after = NoCursor \/ after > happened
      THEN [after |-> after, step |-> "ANSWERED", next |-> happened, events |-> {}]
      ELSE [after |-> after, step |-> "ANSWERED", events |-> first,
            next |-> IF Cardinality(first) = EventPage THEN Max(first) ELSE happened]

EventHappens ==
  /\ happened < LastAccountEvent
  /\ happened' = happened + 1
  /\ UNCHANGED <<saved, noticeCursor, checking, abandoned, announced, since, visits>>

(* The page is loaded, or another question opened on it: the effect begins *)
(* with the cursor in storage, and whatever it waited for is abandoned.    *)
Visit(w) ==
  /\ visits < MaxVisits /\ visits' = visits + 1
  /\ noticeCursor' = [noticeCursor EXCEPT ![w] = saved]
  /\ checking' = [checking EXCEPT ![w] = NotChecking]
  /\ abandoned' = abandoned \cup ({checking[w]} \ {NotChecking})
  /\ UNCHANGED <<happened, saved, announced, since>>

Check(w) ==
  /\ checking[w] = NotChecking
  /\ checking' = [checking EXCEPT ![w] = [NotChecking EXCEPT !.after = noticeCursor[w],
                                                             !.step = "SENT"]]
  /\ UNCHANGED <<happened, saved, noticeCursor, abandoned, announced, since, visits>>

AnswerCheck(w) ==
  /\ checking[w].step = "SENT"
  /\ checking' = [checking EXCEPT ![w] = PersonalEvents(@.after)]
  /\ UNCHANGED <<happened, saved, noticeCursor, abandoned, announced, since, visits>>

CheckFails(w) ==
  /\ checking[w] # NotChecking
  /\ checking' = [checking EXCEPT ![w] = NotChecking]
  /\ UNCHANGED <<happened, saved, noticeCursor, abandoned, announced, since, visits>>

ReceiveEvents(w) ==
  LET answer == checking[w]
  IN  /\ answer.step = "ANSWERED"
      /\ noticeCursor' = [noticeCursor EXCEPT ![w] = answer.next]
      /\ saved' = answer.next
      /\ announced' = announced \cup answer.events
      /\ since' = IF answer.after = NoCursor THEN Max({since, answer.next}) ELSE since
      /\ checking' = [checking EXCEPT ![w] = NotChecking]
      /\ UNCHANGED <<happened, abandoned, visits>>

(* Faulty: moves the cursor before it looks whether it was stopped.        *)
ReceiveAbandonedSaving(poll) ==
  /\ abandoned' = abandoned \ {poll}
  /\ saved' = PersonalEvents(poll.after).next
  /\ since' = IF poll.after = NoCursor THEN Max({since, saved'}) ELSE since
  /\ UNCHANGED <<happened, noticeCursor, checking, announced, visits>>

ReceiveAbandoned(poll) ==
  /\ abandoned' = abandoned \ {poll}
  /\ UNCHANGED <<happened, saved, noticeCursor, checking, announced, since, visits>>

NoticesNext ==
  \/ EventHappens
  \/ \E w \in PageWindows :
       Visit(w) \/ Check(w) \/ AnswerCheck(w) \/ CheckFails(w) \/ ReceiveEvents(w)
  \/ \E poll \in abandoned : ReceiveAbandoned(poll)

NoticesSpec == NoticesInit /\ [][NoticesNext]_noticesVars

-----------------------------------------------------------------------------
(* "Durable cursor is retried on the next poll/reconnect": the cursor in   *)
(* storage passes over no settlement that no window has announced, however *)
(* polls fail, windows are reloaded and windows overtake each other.  (Of  *)
(* several in one answer only the last is worded.)                         *)
SettlementsAnnounced ==
  \A e \in since + 1 .. saved : e \notin OtherEvents => e \in announced
=============================================================================
