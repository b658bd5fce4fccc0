---------------------------- MODULE Transactions ----------------------------
(***************************************************************************)
(* createOrder, closePosition and resetDemo as the interleaved database    *)
(* transactions they are: idempotency claim, row locks, snapshot reads,    *)
(* serialization failures and retries, deadlocks, lost requests.           *)
(*                                                                         *)
(* PostgreSQL is external.  A transaction reads from the snapshot its      *)
(* first statement takes; a row lock waits for its holder; updating or     *)
(* locking a row that another transaction changed since the snapshot       *)
(* fails with 40001, and SERIALIZABLE may fail a transaction with 40001    *)
(* whenever a concurrent one has committed.  tx[r].stale is the set of     *)
(* rows committed by others since r's snapshot.                            *)
(*                                                                         *)
(* A client that retries is one more request with the same input.          *)
(***************************************************************************)
EXTENDS Trading

CONSTANTS
  Requests,     \* requests the API receives: bounds the model
  Inputs,       \* what a request may ask for
  MaxAttempts   \* runSerializable and withSerializableRetry try three times

ASSUME TransactionsAssumption ==
  /\ IsFiniteSet(Requests)
  /\ MaxAttempts \in Nat \ {0}
  /\ Inputs \subseteq [op : {"OPEN", "CLOSE", "RESET"}, account : Accounts, key : ResetKeys,
                       c : ClientOrderIds, side : Sides, quantity : Quantities]
  /\ \A in \in Inputs : in.op = "RESET" => ModeOf(in.account) = "DEMO"

VARIABLES
  command,   \* idempotency_commands, completed: [input, response]
  stream,    \* account_event_streams.last_sequence per user
  tx         \* the request's transaction: [pc, input, attempt, view, stale, reply]

txVars == <<vars, command, stream, tx>>

-----------------------------------------------------------------------------
(* idempotency_commands is unique on actor, operation and key.             *)
CommandId(in) == <<in.op, Owner(in.account), in.key>>
CommandsFor(in, rows) == {row \in rows : CommandId(row.input) = CommandId(in)}

PositionOf(in) == <<in.account, in.c>>

NoView == [position |-> <<>>]
Snapshot == [command |-> command, position |-> position, wallet |-> wallet,
             tradingEnabled |-> tradingEnabled]

Running(q) == tx[q].pc \in {"account", "claim", "lock", "write"}

HoldsAccount(q, a) ==  \* SELECT ... FROM accounts FOR UPDATE, by resetDemo
  /\ tx[q].pc \in {"claim", "lock", "write"}
  /\ tx[q].input.op = "RESET" /\ tx[q].input.account = a
(* Faulty: a request that dies leaves its IN_PROGRESS row in the way.      *)
HoldsCommandForever(q, in) ==
  tx[q].pc \in {"lock", "write", "lost"} /\ CommandId(tx[q].input) = CommandId(in)

HoldsCommand(q, in) ==  \* an uncommitted insert of the same unique key
  tx[q].pc \in {"lock", "write"} /\ CommandId(tx[q].input) = CommandId(in)
HoldsWallet(q, a) == tx[q].pc = "write" /\ tx[q].input.account = a

Others(r) == Requests \ {r}
AccountFree(r) == \A q \in Others(r) : ~HoldsAccount(q, tx[r].input.account)
WalletFree(r)  == \A q \in Others(r) : ~HoldsWallet(q, tx[r].input.account)
CommandFree(r) == \A q \in Others(r) : ~HoldsCommand(q, tx[r].input)

-----------------------------------------------------------------------------
Goto(r, pc) == tx' = [tx EXCEPT ![r].pc = pc]

(* The transaction ends, its locks with it, and the client is answered.    *)
Ended(t, code, response) ==
  [t EXCEPT !.pc = "answered", !.view = NoView, !.stale = {},
            !.reply = [code |-> code, response |-> response]]
Answer(r, code, response) ==
  /\ tx' = [tx EXCEPT ![r] = Ended(@, code, response)]
  /\ UNCHANGED <<vars, command, stream>>

(* Roll back; the retry loop starts over while attempts are left.  Only    *)
(* resetDemo's loop retries a unique violation (P2002).                    *)
Retryable(in, error) == error = "40001" \/ (error = "P2002" /\ in.op = "RESET")

(* Faulty: one attempt too few.                                            *)
FailTooSoon(r, error) ==
  IF Retryable(tx[r].input, error) /\ tx[r].attempt < MaxAttempts - 1
  THEN /\ tx' = [tx EXCEPT ![r].pc = "begin", ![r].attempt = @ + 1,
                           ![r].view = NoView, ![r].stale = {}]
       /\ UNCHANGED <<vars, command, stream>>
  ELSE Answer(r, error, <<>>)

Fail(r, error) ==
  IF Retryable(tx[r].input, error) /\ tx[r].attempt < MaxAttempts
  THEN /\ tx' = [tx EXCEPT ![r].pc = "begin", ![r].attempt = @ + 1,
                           ![r].view = NoView, ![r].stale = {}]
       /\ UNCHANGED <<vars, command, stream>>
  ELSE Answer(r, error, <<>>)

(* Commit: what the transaction wrote becomes stale for those running, the *)
(* command is completed and its account event takes the next sequence.     *)
Committed(r, rows, response) ==
  LET in      == tx[r].input
      user    == Owner(in.account)
      written == rows \cup {<<"command", CommandId(in)>>, <<"stream", user>>}
  IN  /\ command' = command \cup {[input |-> in, response |-> response]}
      /\ stream' = [stream EXCEPT ![user] = @ + 1]
      /\ tx' = [q \in Requests |->
                  IF q = r
                  THEN [tx[q] EXCEPT !.pc = "committed", !.stale = {},
                                     !.reply = [code |-> "OK", response |-> response]]
                  ELSE IF Running(q) THEN [tx[q] EXCEPT !.stale = @ \cup written]
                  ELSE tx[q]]

-----------------------------------------------------------------------------
Submit(r, in) ==
  /\ tx[r].pc = "idle"
  /\ Owner(in.account) \in registered
  /\ tx' = [tx EXCEPT ![r].pc = "begin", ![r].input = in, ![r].attempt = 1]
  /\ UNCHANGED <<vars, command, stream>>

(* The first read takes the snapshot; resetDemo goes on to lock the        *)
(* account row, the trading commands to claim their key.                   *)
Begin(r) ==
  /\ tx[r].pc = "begin"
  /\ tx' = [tx EXCEPT ![r].pc = IF tx[r].input.op = "RESET" THEN "account" ELSE "claim",
                      ![r].view = Snapshot]
  /\ UNCHANGED <<vars, command, stream>>

LockAccount(r) ==
  /\ tx[r].pc = "account"
  /\ AccountFree(r)
  /\ Goto(r, "claim")
  /\ UNCHANGED <<vars, command, stream>>

(* Faulty: replays whatever the key was used for.                          *)
ReplayAnyRequest(r) ==
  /\ tx[r].pc = "claim"
  /\ \E row \in CommandsFor(tx[r].input, tx[r].view.command) : Answer(r, "OK", row.response)

(* IdempotencyService.claim finds the key's command in the snapshot ...    *)
Replay(r) ==
  /\ tx[r].pc = "claim"
  /\ \E row \in CommandsFor(tx[r].input, tx[r].view.command) :
       IF row.input = tx[r].input THEN Answer(r, "OK", row.response)
       ELSE Answer(r, "IDEMPOTENCY_KEY_REUSED", <<>>)

(* ... or inserts its own row, once no other transaction is inserting it.  *)
(* A row committed since the snapshot is a conflict; PostgreSQL may name   *)
(* it a serialization failure or a unique violation.                       *)
Claim(r) ==
  /\ tx[r].pc = "claim"
  /\ CommandsFor(tx[r].input, tx[r].view.command) = {}
  /\ CommandFree(r)
  /\ IF CommandsFor(tx[r].input, command) = {}
     THEN Goto(r, "lock") /\ UNCHANGED <<vars, command, stream>>
     ELSE \E error \in {"40001", "P2002"} : Fail(r, error)

(* The checks made on the snapshot before the wallet is locked.            *)
Refusal(in, view) ==
  CASE in.op = "OPEN" ->
         IF Owner(in.account) \notin view.tradingEnabled THEN "TRADING_DISABLED"
         ELSE IF ModeOf(in.account) = "REAL" /\ ~IsVirtual THEN "REAL_TRADING_NOT_APPROVED"
         ELSE "NONE"
    [] in.op = "CLOSE" ->
         IF view.position[PositionOf(in)].status = "NONE" THEN "POSITION_NOT_FOUND"
         ELSE IF view.position[PositionOf(in)].status = "CLOSED" THEN "POSITION_ALREADY_CLOSED"
         ELSE "NONE"
    [] in.op = "RESET" ->
         IF \E p \in PositionsOf(in.account) : view.position[p].status = "OPEN"
         THEN "DEMO_RESET_BLOCKED" ELSE "NONE"

Refuse(r) ==
  /\ tx[r].pc = "lock"
  /\ Refusal(tx[r].input, tx[r].view) # "NONE"
  /\ Answer(r, Refusal(tx[r].input, tx[r].view), <<>>)

(* Faulty: waits for the lock, then goes on with what was read before it.  *)
LockWalletUnchecked(r) ==
  /\ tx[r].pc = "lock"
  /\ Refusal(tx[r].input, tx[r].view) = "NONE"
  /\ WalletFree(r)
  /\ Goto(r, "write") /\ UNCHANGED <<vars, command, stream>>

(* LedgerService.lockWallet.                                               *)
LockWallet(r) ==
  /\ tx[r].pc = "lock"
  /\ Refusal(tx[r].input, tx[r].view) = "NONE"
  /\ WalletFree(r)
  /\ IF <<"wallet", tx[r].input.account>> \in tx[r].stale THEN Fail(r, "40001")
     ELSE Goto(r, "write") /\ UNCHANGED <<vars, command, stream>>

-----------------------------------------------------------------------------
(* The last statements.  Inserting an order takes a key-share lock on its  *)
(* account (foreign key), which waits for a reset's row lock.  The event   *)
(* stream's row, updated last, never conflicts by itself: whoever took the *)
(* user's last sequence number also changed the wallet this one locked.    *)
MayWrite(r) ==
  /\ tx[r].pc = "write"
  /\ tx[r].input.op # "RESET" => AccountFree(r)

(* A zero line aborts the transaction; no retry loop retries a CHECK.  The *)
(* error is on its way to the client.                                      *)
RefusedByDatabase(r, key, journal) ==
  /\ PostRefused(key, journal)
  /\ tx' = [tx EXCEPT ![r].pc = "refused", ![r].stale = {},
                      ![r].reply = [code |-> "DATABASE_CHECK", response |-> <<>>]]
  /\ UNCHANGED <<registered, tradingEnabled, position, command, stream>>

(* The quote and the limits are checked before the wallet is locked, which *)
(* only changes which of two refusals a client gets.                       *)
WriteOpen(r, mid) ==
  LET in       == tx[r].input
      a        == in.account
      p        == PositionOf(in)
      price    == Quote(mid, in.side)
      exposure == RoundCents(price * in.quantity)
  IN  /\ MayWrite(r) /\ in.op = "OPEN"
      /\ IF \/ ModeOf(a) = "DEMO" /\ exposure \notin MinimumTrade..MaximumTrade
            \/ exposure > tx[r].view.wallet[a].available
         THEN Answer(r, "REJECTED", <<>>)
         ELSE IF position[p] # NoPosition THEN Fail(r, "P2002")
         ELSE IF ~RowsPositive(OpenJournal(a, exposure))
         THEN RefusedByDatabase(r, <<"order-open", p>>, OpenJournal(a, exposure))
         ELSE /\ Post(<<"order-open", p>>, OpenJournal(a, exposure))
              /\ MoveWallet(a, -exposure, exposure)
              /\ position' = [position EXCEPT ![p] =
                                [status |-> "OPEN", side |-> in.side,
                                 quantity |-> in.quantity, entry |-> price, pnl |-> 0]]
              /\ Committed(r, {<<"wallet", a>>, <<"position", p>>}, <<"OPENED", p>>)
              /\ UNCHANGED <<registered, tradingEnabled>>

WriteClose(r, mid) ==
  LET in       == tx[r].input
      a        == in.account
      p        == PositionOf(in)
      pos      == tx[r].view.position[p]
      notional == Notional(pos)
      pnl      == Pnl(pos, Quote(mid, Opposite(pos.side)))
      journal  == CloseJournal(a, notional, pnl)
  IN  /\ MayWrite(r) /\ in.op = "CLOSE"
      /\ IF tx[r].view.wallet[a].locked < notional
         THEN Answer(r, "LEDGER_PROJECTION_MISMATCH", <<>>)
         ELSE IF <<"position-close", p>> \in posted THEN Fail(r, "P2002")
         ELSE IF ~RowsPositive(journal)
         THEN RefusedByDatabase(r, <<"position-close", p>>, journal)
         ELSE /\ Post(<<"position-close", p>>, journal)
              /\ MoveWallet(a, notional + pnl, -notional)
              /\ position' = [position EXCEPT ![p] = [pos EXCEPT !.status = "CLOSED", !.pnl = pnl]]
              /\ Committed(r, {<<"wallet", a>>, <<"position", p>>}, <<"CLOSED", p, pnl>>)
              /\ UNCHANGED <<registered, tradingEnabled>>

(* resetDemo sets the projection to the target it computed from the locked *)
(* row.  The journal's key carries the request's.                          *)
WriteReset(r) ==
  LET in         == tx[r].input
      a          == in.account
      difference == DemoInitialBalance - tx[r].view.wallet[a].available
  IN  /\ MayWrite(r) /\ in.op = "RESET"
      /\ IF tx[r].view.wallet[a].locked # 0 THEN Answer(r, "DEMO_RESET_BLOCKED", <<>>)
         ELSE IF balance[Available(a)] # tx[r].view.wallet[a].available
         THEN Answer(r, "LEDGER_RECONCILIATION_FAILED", <<>>)
         ELSE /\ IF difference = 0 THEN UNCHANGED ledgerVars
                 ELSE /\ Post(<<"demo-reset", Owner(a), in.key>>, ResetJournal(a, difference))
                      /\ wallet' = [wallet EXCEPT ![a].available = DemoInitialBalance]
              /\ Committed(r, {<<"wallet", a>>}, <<"RESET", difference>>)
              /\ UNCHANGED <<registered, tradingEnabled, position>>

-----------------------------------------------------------------------------
(* SERIALIZABLE gives up on a transaction concurrent with a committed one. *)
SerializationFailure(r) == Running(r) /\ tx[r].stale # {} /\ Fail(r, "40001")

(* A reset holds the account and waits for the wallet; a trading command   *)
(* holds the wallet and waits for the account.  PostgreSQL breaks the      *)
(* cycle: the order insert fails with P2034, which is retried, or the      *)
(* reset's raw query fails with P2010 and 40P01, which is not.             *)
Deadlock(r, q) ==
  /\ tx[r].pc = "lock" /\ tx[q].pc = "write"
  /\ tx[r].input.op = "RESET" /\ tx[q].input.op # "RESET"
  /\ tx[r].input.account = tx[q].input.account
BreakDeadlock(r, q) ==
  /\ Deadlock(r, q)
  /\ Fail(q, "40001") \/ Fail(r, "40P01")

Reply(r) ==
  /\ tx[r].pc \in {"committed", "refused"}
  /\ tx' = [tx EXCEPT ![r].pc = "answered", ![r].view = NoView]
  /\ UNCHANGED <<vars, command, stream>>

(* The process dies or the connection drops: an open transaction rolls     *)
(* back, a committed one stays, and the client never learns which.         *)
Lose(r) ==
  /\ tx[r].pc \notin {"idle", "answered", "lost"}
  /\ tx' = [tx EXCEPT ![r].pc = "lost", ![r].view = NoView, ![r].stale = {},
                      ![r].reply = [code |-> "NONE", response |-> <<>>]]
  /\ UNCHANGED <<vars, command, stream>>

(* An order in flight has read the user's row and never reads it again.    *)
AdminSetTrading(u, on) ==
  SetTradingEnabled(u, on) /\ UNCHANGED <<command, stream, tx>>

SignUp(u) == Register(u) /\ UNCHANGED <<command, stream, tx>>

Serve(r) ==
  \/ Begin(r) \/ LockAccount(r) \/ Replay(r) \/ Claim(r) \/ Refuse(r) \/ LockWallet(r)
  \/ WriteReset(r)
  \/ \E mid \in MidPrices : WriteOpen(r, mid) \/ WriteClose(r, mid)
  \/ Reply(r)

TxInit ==
  /\ Init
  /\ command = {}
  /\ stream = [u \in Users |-> 0]
  /\ tx = [r \in Requests |->
             [pc |-> "idle", input |-> <<>>, attempt |-> 0, view |-> NoView, stale |-> {},
              reply |-> [code |-> "NONE", response |-> <<>>]]]

TxNext ==
  \/ \E u \in Users : SignUp(u) \/ \E on \in BOOLEAN : AdminSetTrading(u, on)
  \/ \E r \in Requests :
       \/ \E in \in Inputs : Submit(r, in)
       \/ Serve(r)
       \/ SerializationFailure(r)
       \/ Lose(r)
       \/ \E q \in Requests : BreakDeadlock(r, q)

(* The server keeps executing what it started, and PostgreSQL's deadlock   *)
(* detector runs.                                                          *)
TxFairness ==
  /\ \A r \in Requests : WF_txVars(Serve(r))
  /\ \A r, q \in Requests : WF_txVars(BreakDeadlock(r, q))

TxSpec == TxInit /\ [][TxNext]_txVars /\ TxFairness

-----------------------------------------------------------------------------
Responses == {<<>>} \cup ({"OPENED"} \X Positions) \cup ({"CLOSED"} \X Positions \X Int)
               \cup ({"RESET"} \X Int)
Commands == [input : Inputs, response : Responses]
Views ==
  [command : SUBSET Commands, position : [Positions -> PositionRecords \cup {NoPosition}],
   wallet : [Accounts -> [available : Int, locked : Int]], tradingEnabled : SUBSET Users]
Rows == ({"wallet"} \X Accounts) \cup ({"position"} \X Positions) \cup ({"stream"} \X Users)
          \cup ({"command"} \X ({"OPEN", "CLOSE", "RESET"} \X Users \X ResetKeys))
Codes == {"NONE", "OK", "40001", "40P01", "P2002", "DATABASE_CHECK", "REJECTED",
          "IDEMPOTENCY_KEY_REUSED", "TRADING_DISABLED", "REAL_TRADING_NOT_APPROVED",
          "POSITION_NOT_FOUND", "POSITION_ALREADY_CLOSED", "DEMO_RESET_BLOCKED",
          "LEDGER_PROJECTION_MISMATCH", "LEDGER_RECONCILIATION_FAILED"}
TxRecords ==
  [pc : {"idle", "begin", "account", "claim", "lock", "write", "committed", "refused",
         "answered", "lost"},
   input : Inputs \cup {<<>>}, attempt : 0..MaxAttempts, view : Views \cup {NoView},
   stale : SUBSET Rows, reply : [code : Codes, response : Responses]]

TxTypeOK ==
  /\ command \subseteq Commands
  /\ stream \in [Users -> Nat]
  /\ tx \in [Requests -> TxRecords]
  /\ \A r \in Requests :
       /\ tx[r].pc # "idle" => tx[r].input \in Inputs
       /\ Running(r) => tx[r].view \in Views
       /\ ~Running(r) => tx[r].stale = {}

(* An order that read the user while trading was enabled still counts as   *)
(* placed before a switch-off that overtook it.                            *)
EffectivelyEnabled ==
  tradingEnabled \cup
    {u \in Users : \E r \in Requests :
       /\ tx[r].pc \in {"claim", "lock", "write", "committed", "refused"}
       /\ tx[r].input.op = "OPEN"
       /\ Owner(tx[r].input.account) = u
       /\ u \in tx[r].view.tradingEnabled}

Atomic == INSTANCE Trading WITH tradingEnabled <- EffectivelyEnabled

(* Interleaved, retried and lost transactions move money and positions     *)
(* only as one command at a time would.                                    *)
AtomicCommands == Atomic!Spec

(* One key, one effect: every successful answer to a key is the same       *)
(* answer, and the command it reports is on the books.                     *)
AnswersAgree ==
  /\ \A r \in Requests : tx[r].reply.code = "OK" =>
       [input |-> tx[r].input, response |-> tx[r].reply.response] \in command
  /\ \A row1, row2 \in command :
       CommandId(row1.input) = CommandId(row2.input) => row1 = row2

(* The account event stream misses no command and counts none twice.       *)
EventPerCommand ==
  \A u \in Users :
    stream[u] = Cardinality({row \in command : Owner(row.input.account) = u})

(* However often and however concurrently a command is sent, it is done    *)
(* once: one answer for all who ask, one event for all who listen.         *)
DoneOnce == AnswersAgree /\ EventPerCommand

(* A failed attempt is owed to another request's commit, so MaxAttempts    *)
(* attempts are enough for MaxAttempts trading commands at a time: no      *)
(* client sees a serialization failure while nobody resets an account.  (A *)
(* reset's deadlocks can spend an order's attempts with nothing committed.) *)
ConflictsAreRetriedAway ==
  (\A r \in Requests : tx[r].pc # "idle" => tx[r].input.op # "RESET") =>
    \A r \in Requests : tx[r].reply.code # "40001"

(* No request waits for ever: each is answered, or lost with its server.   *)
EveryRequestEnds ==
  \A r \in Requests : tx[r].pc = "begin" ~> tx[r].pc \in {"answered", "lost"}
=============================================================================
