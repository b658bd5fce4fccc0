--------------------------- MODULE AccountStream ----------------------------
(***************************************************************************)
(* The account event stream: AccountRealtimeGateway and                    *)
(* AccountEventsService on the server, and the mobile app's                *)
(* AccountRealtimeSubscription.  Events reach the app in three ways: in    *)
(* the answer to its connection, by polling, and in answers to the         *)
(* recovery it requests when it notices a gap.  The server keeps what it   *)
(* sent last per connection, the app what it received last, and both work  *)
(* on several of these at a time: between reading and sending there is a   *)
(* query, between receiving and handling an event a write to storage.      *)
(*                                                                         *)
(* One customer with one app.  Packets of a connection arrive in order and *)
(* are lost with it.  Tokens, whose rejection ends a connection like a     *)
(* drop does, and the contents of events and snapshots are left out.       *)
(***************************************************************************)
EXTENDS Integers, Sequences

CONSTANTS
  LastEvent,      \* bound on the events
  PollSize,       \* events sent per poll: 100
  RecoverySize,   \* events per recovery: 500
  MaxDrops,       \* bound on the connections that drop
  MaxPackets,     \* bound on the packets under way
  MaxRecoveries   \* bound on the recoveries the app works on

ASSUME StreamAssumption ==
  /\ {LastEvent, MaxDrops} \subseteq Nat
  /\ {PollSize, RecoverySize, MaxPackets, MaxRecoveries} \subseteq Nat \ {0}

VARIABLES
  latest,     \* account_event_streams.last_sequence
  link,       \* the connection, and the sequence the app opens it with
  sent,       \* client.data.lastSequence
  reading,    \* what the server's handlers have read
  packets,    \* packets on their way to the app
  request,    \* the app's account:recover, on its way to the server
  app,        \* the subscription's _lastSequence, _recovering and its work
  shown,      \* history: events handed to onEvent
  drops

streamVars == <<latest, link, sent, reading, packets, request, app, shown, drops>>

Unset == -1
Nothing == [step |-> "NONE"]
Server == {"CONNECT", "POLL", "RECOVER"}
Least(a, b) == IF a < b THEN a ELSE b
Sequence == IF app.last = Unset THEN 0 ELSE app.last

StreamInit ==
  /\ latest \in {0, 1}
  /\ link = [state |-> "NONE", after |-> Unset]
  /\ app = [last |-> Unset, known |-> 0, recovering |-> FALSE, live |-> {},
            recoveries |-> <<>>]
  /\ sent = Unset
  /\ reading = [h \in Server |-> Nothing]
  /\ packets = <<>>
  /\ request = Unset
  /\ shown = {}
  /\ drops = 0

Reads(h, r) == reading' = [reading EXCEPT ![h] = r]
Emit(s) == packets' = packets \o s
HasRoom == Len(packets) < MaxPackets

(* accountEvents.recover: the next events, at most so many.                *)
UpTo(after, limit) == Least(latest, after + limit)

(* OutboxService.enqueueAccount (Transactions has its transaction).        *)
CommitEvent ==
  /\ latest < LastEvent
  /\ latest' = latest + 1
  /\ UNCHANGED <<link, sent, reading, packets, request, app, shown, drops>>

-----------------------------------------------------------------------------
(* subscribe and connect: the app starts from the cursor it has stored, or *)
(* without one.                                                            *)
Subscribe(cursor) ==
  /\ link.state = "NONE"
  /\ link' = [state |-> "DOWN", after |-> cursor]
  /\ app' = [app EXCEPT !.last = cursor, !.known = IF cursor = Unset THEN 0 ELSE cursor]
  /\ UNCHANGED <<latest, sent, reading, packets, request, shown, drops>>

(* handleConnection: latestSequence, then the snapshot or the events the   *)
(* app has missed; only then the connection is polled.                     *)
Connect ==
  /\ link.state = "DOWN"
  /\ link' = [link EXCEPT !.state = "OPENING"]
  /\ Reads("CONNECT", [step |-> "READ", latest |-> latest])
  /\ UNCHANGED <<latest, sent, packets, request, app, shown, drops>>

Recovered(kind, after, seenLatest) ==
  [kind |-> kind, after |-> after, upto |-> UpTo(after, RecoverySize),
   latest |-> seenLatest]
Complete(answer) == answer.upto \in {answer.after, answer.latest}

(* snapshot: everything the customer has, read in one transaction, as of   *)
(* the event that was the last by then.                                    *)
AccountSnapshot == [kind |-> "SNAPSHOT", version |-> latest]

Welcome ==
  /\ reading["CONNECT"] # Nothing
  /\ IF link.after = Unset
       THEN /\ Emit(<<AccountSnapshot>>)
            /\ sent' = reading["CONNECT"].latest
       ELSE LET answer == Recovered("RECOVERY", link.after, reading["CONNECT"].latest)
            IN  Emit(<<answer>>) /\ sent' = answer.upto
  /\ link' = [link EXCEPT !.state = "UP"]
  /\ Reads("CONNECT", Nothing)
  /\ UNCHANGED <<latest, request, app, shown, drops>>

(* poll: what was sent last is read before the query and written after it. *)
BeginPoll ==
  /\ link.state = "UP"
  /\ reading["POLL"] = Nothing
  /\ Reads("POLL", [step |-> "READ", after |-> sent])
  /\ UNCHANGED <<latest, link, sent, packets, request, app, shown, drops>>

EndPoll ==
  LET after == reading["POLL"].after
      upto  == UpTo(after, PollSize)
  IN  /\ reading["POLL"] # Nothing
      /\ HasRoom
      /\ Emit([i \in 1..(upto - after) |-> [kind |-> "EVENT", sequence |-> after + i]])
      /\ sent' = IF upto > after THEN upto ELSE sent
      /\ Reads("POLL", Nothing)
      /\ UNCHANGED <<latest, link, request, app, shown, drops>>

(* recover, likewise; refused while the connection's token is validated.   *)
BeginRecover ==
  /\ request # Unset /\ link.state \in {"OPENING", "UP"}
  /\ Reads("RECOVER", [step |-> "READ", after |-> request, latest |-> latest])
  /\ request' = Unset
  /\ UNCHANGED <<latest, link, sent, packets, app, shown, drops>>

RecoverRefused ==
  /\ request # Unset /\ link.state = "OPENING"
  /\ Emit(<<[kind |-> "REFUSED"]>>)
  /\ request' = Unset
  /\ UNCHANGED <<latest, link, sent, reading, app, shown, drops>>

EndRecover ==
  LET r == reading["RECOVER"]
      answer == Recovered("ANSWER", r.after, r.latest)
  IN  /\ r # Nothing
      /\ HasRoom
      /\ Emit(<<answer>>)
      /\ sent' = IF answer.upto > r.after THEN answer.upto ELSE sent
      /\ Reads("RECOVER", Nothing)
      /\ UNCHANGED <<latest, link, request, app, shown, drops>>

(* The connection drops, and what was under way on it; the app opens the   *)
(* next one with what it has received.                                     *)
Drop ==
  /\ link.state \in {"OPENING", "UP"} /\ drops < MaxDrops
  /\ drops' = drops + 1
  /\ link' = [state |-> "DOWN", after |-> app.last]
  /\ sent' = Unset
  /\ reading' = [h \in Server |-> Nothing]
  /\ packets' = <<>>
  /\ request' = Unset
  /\ UNCHANGED <<latest, app, shown>>

-----------------------------------------------------------------------------
(* _requestRecovery: one at a time.  Without a connection it waits for the *)
(* next one.                                                               *)
AskAgain(state, after) ==
  IF state.recovering THEN app' = state /\ UNCHANGED request
  ELSE app' = [state EXCEPT !.recovering = TRUE] /\ request' = after

Arrived(kind) == packets # <<>> /\ Head(packets).kind = kind
Taken == packets' = Tail(packets) /\ UNCHANGED <<latest, link, sent, reading, drops>>

(* _applyEvent and _advance, up to the write of the cursor.                *)
AcceptEvent ==
  /\ Arrived("EVENT")
  /\ Head(packets).sequence = Sequence + 1
  /\ app' = [app EXCEPT !.last = Sequence + 1, !.live = @ \cup {Sequence + 1}]
  /\ Taken /\ UNCHANGED <<request, shown>>

IgnoreEvent ==
  /\ Arrived("EVENT")
  /\ Head(packets).sequence <= Sequence
  /\ Taken /\ UNCHANGED <<app, request, shown>>

(* Faulty: an event that is ahead is dropped.                              *)
NoticeGapSilently ==
  /\ Arrived("EVENT")
  /\ Head(packets).sequence > Sequence + 1
  /\ Taken /\ UNCHANGED <<app, request, shown>>

NoticeGap ==
  /\ Arrived("EVENT")
  /\ Head(packets).sequence > Sequence + 1
  /\ AskAgain(app, Sequence)
  /\ Taken /\ UNCHANGED shown

(* ... and from there on.                                                  *)
ShowEvent(e) ==
  /\ e \in app.live
  /\ app' = [app EXCEPT !.live = @ \ {e}]
  /\ shown' = shown \cup {e}
  /\ UNCHANGED <<latest, link, sent, reading, packets, request, drops>>

TakeSnapshot ==
  LET version == Head(packets).version
  IN  /\ Arrived("SNAPSHOT")
      /\ app' = IF version < Sequence THEN app
                ELSE [app EXCEPT !.last = version, !.known = version]
      /\ Taken /\ UNCHANGED <<request, shown>>

(* Faulty: goes by the latestSequence of the answer.                       *)
BeginRecoveryToLatest(state) ==
  LET packet == Head(packets)
  IN  /\ app' = [state EXCEPT !.last = packet.latest]
      /\ shown' = shown \cup (Sequence + 1)..packet.upto
      /\ UNCHANGED request

(* _applyRecovery, up to its first write: what is expected next is fixed   *)
(* when it begins.  It never begins beyond that, as the app asked earlier. *)
BeginRecovery(state) ==
  LET packet == Head(packets)
      expected == Sequence + 1
  IN  /\ UNCHANGED shown
      /\ IF expected <= packet.upto
           THEN /\ app' = [state EXCEPT !.last = expected,
                     !.recoveries = Append(@, [next |-> expected, upto |-> packet.upto,
                                               complete |-> Complete(packet)])]
                /\ UNCHANGED request
           ELSE IF Complete(packet) THEN app' = state /\ UNCHANGED request
                ELSE AskAgain(state, Sequence)

TakeRecovery ==
  /\ Arrived("RECOVERY")
  /\ Len(app.recoveries) < MaxRecoveries
  /\ BeginRecovery(app)
  /\ Taken

(* The answer to account:recover, and nothing else, ends _recovering.      *)
TakeAnswer ==
  /\ Arrived("ANSWER")
  /\ Len(app.recoveries) < MaxRecoveries
  /\ BeginRecovery([app EXCEPT !.recovering = FALSE])
  /\ Taken

TakeRefusal ==
  /\ Arrived("REFUSED")
  /\ app' = [app EXCEPT !.recovering = FALSE]
  /\ Taken /\ UNCHANGED <<request, shown>>

(* One write is done: its event is shown, and the next one written.        *)
RecoverOne(i) ==
  LET r == app.recoveries[i]
      others == [j \in 1..(Len(app.recoveries) - 1) |->
                   app.recoveries[IF j < i THEN j ELSE j + 1]]
  IN  /\ shown' = shown \cup {r.next}
      /\ IF r.next < r.upto
           THEN /\ app' = [app EXCEPT !.recoveries[i].next = r.next + 1,
                             !.last = IF @ < r.next + 1 THEN r.next + 1 ELSE @]
                /\ UNCHANGED request
           ELSE IF r.complete THEN app' = [app EXCEPT !.recoveries = others] /\ UNCHANGED request
                ELSE AskAgain([app EXCEPT !.recoveries = others], Sequence)
      /\ UNCHANGED <<latest, link, sent, reading, packets, drops>>

-----------------------------------------------------------------------------
ServerStep == Connect \/ Welcome \/ BeginPoll \/ EndPoll
                \/ BeginRecover \/ RecoverRefused \/ EndRecover
Receive == AcceptEvent \/ IgnoreEvent \/ NoticeGap \/ TakeSnapshot
             \/ TakeRecovery \/ TakeAnswer \/ TakeRefusal
StreamNext ==
  \/ CommitEvent \/ Drop \/ ServerStep \/ Receive
  \/ \E cursor \in Unset..latest : Subscribe(cursor)
  \/ \E e \in 1..LastEvent : ShowEvent(e)
  \/ \E i \in DOMAIN app.recoveries : RecoverOne(i)

(* The app reconnects, timers fire, queries and writes end, packets of a   *)
(* connection arrive.  Nobody need subscribe, commit or drop.              *)
StreamFairness ==
  /\ WF_streamVars(Connect) /\ WF_streamVars(Welcome)
  /\ WF_streamVars(BeginPoll) /\ WF_streamVars(EndPoll)
  /\ WF_streamVars(BeginRecover) /\ WF_streamVars(EndRecover)
  /\ WF_streamVars(Receive)
  /\ WF_streamVars(\E e \in 1..LastEvent : ShowEvent(e))
  /\ WF_streamVars(\E i \in DOMAIN app.recoveries : RecoverOne(i))

StreamSpec == StreamInit /\ [][StreamNext]_streamVars /\ StreamFairness

-----------------------------------------------------------------------------
StreamTypeOK ==
  /\ latest \in 0..LastEvent
  /\ link \in [state : {"NONE", "DOWN", "OPENING", "UP"}, after : Unset..LastEvent]
  /\ sent \in Unset..LastEvent /\ request \in Unset..LastEvent
  /\ app.last \in Unset..LastEvent /\ app.live \subseteq 1..LastEvent
  /\ shown \subseteq 1..LastEvent
  /\ drops \in 0..MaxDrops

(* account_realtime_client.dart: the app counts an event as received only  *)
(* when it has it.  Whatever polls, recoveries and connections overlap, no *)
(* event up to _lastSequence was left out: the app knew it from a snapshot *)
(* or before, has shown it, or is about to.                                *)
NothingLeftOut ==
  \A e \in (app.known + 1)..Sequence :
    \/ e \in shown \cup app.live
    \/ \E i \in DOMAIN app.recoveries :
         app.recoveries[i].next <= e /\ e <= app.recoveries[i].upto

Current == link.state # "NONE" => Sequence = latest

(* The app waits for an answer that cannot come any more.                  *)
WaitsInVain ==
  /\ app.recovering
  /\ request = Unset
  /\ reading["RECOVER"] = Nothing
  /\ \A i \in DOMAIN packets : packets[i].kind \notin {"ANSWER", "REFUSED"}

(* Unless a connection drops with an answer, the app catches up with every *)
(* event, through gaps, repetitions, batches that end early and drops.     *)
CatchesUp == []~WaitsInVain => []<>Current

(* docs/API_CONTRACT.md:82: "Clients apply each sequence once and request  *)
(* account:recover after a detected gap."  So they catch up for good.      *)
EventuallyCurrent == []<>Current
=============================================================================
