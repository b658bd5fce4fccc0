--------------------------- MODULE PendingCommands ---------------------------
(***************************************************************************)
(* The clients' side of idempotent commands.  A client stores a command,   *)
(* with its key, before it sends it, and forgets it when it knows how it   *)
(* ended; until then the customer can send it again.  Between them, answers*)
(* are lost, requests arrive late, and apps and pages are closed.          *)
(*                                                                         *)
(* Three clients do so: the predictions page, whose tabs share the record  *)
(* in localStorage and keep a copy each; and the mobile app's funding and  *)
(* contract repositories, in secure storage.  A client has one slot per    *)
(* customer.  The server is reduced to what an answer can be.              *)
(***************************************************************************)
EXTENDS Integers

CONSTANTS
  Clients,      \* which of the clients below are considered
  Tabs,         \* windows of the predictions page; the app has one of them
  MaxCommands   \* bound on the commands the customer confirms

PREDICTIONS == "PREDICTIONS"
FUNDING == "FUNDING"
CONTRACTS == "CONTRACTS"

ASSUME CommandAssumption ==
  /\ Clients \subseteq {PREDICTIONS, FUNDING, CONTRACTS}
  /\ Tabs # {}
  /\ MaxCommands \in Nat

VARIABLES
  client,      \* the one this is about
  stored,      \* its slot: [id, uncertain] of the command, or NoCommand
  held,        \* tab -> its copy; always NoCommand in the app
  sending,     \* tab -> the request it waits for, with the answer if any
  confirmed,   \* how many commands the customer has confirmed
  executed,    \* command -> how often the server carried it out
  late,        \* commands of requests that nobody waits for any more
  told,        \* commands whose success was shown
  killed       \* the app or a page was closed while it was sending

pendingVars == <<client, stored, held, sending, confirmed, executed, late, told, killed>>

NoCommand == [id |-> 0, uncertain |-> FALSE]
NotSending == [id |-> 0, uncertain |-> FALSE, answer |-> "NONE"]
Ids == 1..MaxCommands
Windows == IF client = PREDICTIONS THEN Tabs ELSE {CHOOSE t \in Tabs : TRUE}

PendingInit ==
  /\ client \in Clients
  /\ stored = NoCommand
  /\ held = [t \in Tabs |-> NoCommand]
  /\ sending = [t \in Tabs |-> NotSending]
  /\ confirmed = 0
  /\ executed = [c \in Ids |-> 0]
  /\ late = {}
  /\ told = {}
  /\ killed = FALSE

Asked(t) == sending[t].id # 0 /\ sending[t].answer = "NONE"
Request(command) == [id |-> command.id, uncertain |-> command.uncertain, answer |-> "NONE"]
Hold(t, command) == held' = IF client = PREDICTIONS
                              THEN [held EXCEPT ![t] = command] ELSE held

-----------------------------------------------------------------------------
(* The customer confirms a stake, a deposit, a withdrawal or a contract.   *)
Known(t) == IF client = PREDICTIONS THEN held[t] ELSE stored

Submit(t) ==
  /\ confirmed < MaxCommands
  /\ Known(t) = NoCommand /\ sending[t] = NotSending
  /\ confirmed' = confirmed + 1
  /\ LET command == [id |-> confirmed', uncertain |-> FALSE]
     IN  /\ stored' = command
         /\ Hold(t, command)
         /\ sending' = [sending EXCEPT ![t] = Request(command)]
  /\ UNCHANGED <<client, executed, late, told, killed>>

(* He sends the command he sees as pending once more.                      *)
RetryPending(t) ==
  /\ Known(t) # NoCommand /\ sending[t] = NotSending
  /\ sending' = [sending EXCEPT ![t] = Request(Known(t))]
  /\ UNCHANGED <<client, stored, held, confirmed, executed, late, told, killed>>

(* restoreSession, on opening the page and every few seconds.              *)
Restore(t) ==
  /\ client = PREDICTIONS
  /\ Hold(t, stored)
  /\ UNCHANGED <<client, stored, sending, confirmed, executed, late, told, killed>>

-----------------------------------------------------------------------------
MustExecute(c) == executed[c] = 0

Carried(c) == executed' = IF MustExecute(c) THEN [executed EXCEPT ![c] = @ + 1] ELSE executed

(* What a handler that carried nothing out may answer: INVALID is 400 or   *)
(* 403, CONFLICT 404 or 409, CHANGED a price or rate that has moved.       *)
Refusals == {"INVALID", "CONFLICT", "CHANGED"}

(* Before any handler looks for a prior command: the rate limit, the       *)
(* sign-in (after the proxy or the app has tried to renew it), and, with   *)
(* real money, the release gate, which answers 403.                        *)
NotHandled == {"THROTTLED", "SIGN_IN"} \cup IF client = PREDICTIONS THEN {} ELSE {"GATE"}

Serve(t) ==
  /\ Asked(t)
  /\ \E answer \in {"DONE"} \cup Refusals \cup NotHandled :
       /\ answer \in Refusals => MustExecute(sending[t].id)
       /\ sending' = [sending EXCEPT ![t].answer = answer]
       /\ IF answer = "DONE" THEN Carried(sending[t].id) ELSE UNCHANGED executed
  /\ UNCHANGED <<client, stored, held, confirmed, late, told, killed>>

(* The connection or the proxy's patience ends, before or after the        *)
(* request was served; unserved, it may still be on its way.               *)
TimeOut(t) ==
  /\ sending[t].id # 0
  /\ sending' = [sending EXCEPT ![t].answer = "UNREACHABLE"]
  /\ late' \in {late} \cup (IF Asked(t) THEN {late \cup {sending[t].id}} ELSE {})
  /\ UNCHANGED <<client, stored, held, confirmed, executed, told, killed>>

ServeLate(c) ==
  /\ c \in late
  /\ late' = late \ {c}
  /\ \/ Carried(c)
     \/ UNCHANGED executed
  /\ UNCHANGED <<client, stored, held, sending, confirmed, told, killed>>

-----------------------------------------------------------------------------
(* Faulty: forgets that an earlier outcome is unknown.                     *)
FundingForgetsOnRefusal(command, answer) == answer \in {"DONE", "CHANGED", "INVALID", "GATE"}

(* _send of the funding repository, on CONVERSION_RATE_CHANGED, 400, 403.  *)
FundingForgets(command, answer) ==
  \/ answer \in {"DONE", "CHANGED"}
  \/ answer \in {"INVALID", "GATE"} /\ ~command.uncertain

(* _sendTimedContract.                                                     *)
ContractForgets(answer) == answer \in {"DONE", "INVALID", "GATE", "CHANGED"}

(* send of the predictions page: 400, 403, 404, 409 and 429.               *)
PageForgets(answer) == answer \in {"DONE", "INVALID", "CONFLICT", "CHANGED", "THROTTLED"}

Forgets(command, answer) ==
  CASE client = FUNDING -> FundingForgets(command, answer)
    [] client = CONTRACTS -> ContractForgets(answer)
    [] client = PREDICTIONS -> PageForgets(answer)

(* What the slot holds after an answer that leaves the command pending.    *)
KeptAs(command) ==
  IF client = FUNDING THEN [id |-> command.id, uncertain |-> TRUE] ELSE stored

ReceiveAnswer(t) ==
  LET command == [id |-> sending[t].id, uncertain |-> sending[t].uncertain]
      answer == sending[t].answer
  IN  /\ answer # "NONE"
      /\ told' = IF answer = "DONE" THEN told \cup {command.id} ELSE told
      /\ IF Forgets(command, answer)
           THEN stored' = NoCommand /\ Hold(t, NoCommand)
           ELSE stored' = KeptAs(command) /\ UNCHANGED held
      /\ sending' = [sending EXCEPT ![t] = NotSending]
      /\ UNCHANGED <<client, confirmed, executed, late, killed>>

(* The app is killed, or a page is closed and opened again.                *)
Kill(t) ==
  /\ killed' = (killed \/ sending[t] # NotSending)
  /\ late' \in {late} \cup (IF Asked(t) THEN {late \cup {sending[t].id}} ELSE {})
  /\ sending' = [sending EXCEPT ![t] = NotSending]
  /\ Hold(t, NoCommand)
  /\ UNCHANGED <<client, stored, confirmed, executed, told>>

PendingNext ==
  \/ \E t \in Windows :
       \/ Submit(t) \/ RetryPending(t) \/ Restore(t)
       \/ Serve(t) \/ TimeOut(t) \/ ReceiveAnswer(t) \/ Kill(t)
  \/ \E c \in Ids : ServeLate(c)

PendingSpec == PendingInit /\ [][PendingNext]_pendingVars

-----------------------------------------------------------------------------
(* The server carries a command out once.                                  *)
OneExecutionPerCommand == \A c \in Ids : executed[c] <= 1

(* The command in the slot is forgotten although the server has carried it *)
(* out and the customer is not told; and not because a rate has moved,     *)
(* which tells the app that it was not carried out by then.                *)
OutcomeDiscarded ==
  /\ stored # NoCommand /\ stored' = NoCommand
  /\ executed[stored.id] > 0 /\ stored.id \notin told'
  /\ \A t \in Tabs : sending[t].answer # "CHANGED"

(* docs/PREDICTIONS.md and the pages' comments: one confirmation is one    *)
(* stake, deposit or contract, however often and from whichever window its *)
(* command is sent, and however late a request arrives.  And, by _send of  *)
(* funding_repository.dart: as long as the app runs, a request whose       *)
(* answer was lost is not given up for an outage or a closed gate that the *)
(* next attempt met.                                                       *)
PendingCommandsKept ==
  /\ []OneExecutionPerCommand
  /\ [][client = FUNDING /\ ~killed => ~OutcomeDiscarded]_pendingVars

(* docs/funding-admin-operations.md: "Interrupted mobile requests retain   *)
(* the original body and idempotency key", and a later outage or gate      *)
(* failure must not discard an earlier uncertain outcome; the same when    *)
(* the interruption was the end of the app.                                *)
UncertainOutcomesKept == [][client = FUNDING => ~OutcomeDiscarded]_pendingVars
=============================================================================
