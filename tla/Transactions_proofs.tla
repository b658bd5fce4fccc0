------------------------ MODULE Transactions_proofs -------------------------
(***************************************************************************)
(* Interleaved transactions implement Trading and answer each command      *)
(* once, for any requests, inputs, users and prices.                       *)
(*                                                                         *)
(* What a transaction writes rests on what it read earlier.  The invariant *)
(* says when that may be relied on: as long as nobody has committed the    *)
(* wallet's row since the snapshot, the snapshot's wallet and positions    *)
(* are those of the tables; who holds the wallet's lock is in that case,   *)
(* and nobody else is about to write it.                                   *)
(***************************************************************************)
EXTENDS Transactions, Trading_proofs

InFlight(t) == t.pc \in {"account", "claim", "lock", "write"}
Claimed(t)  == t.pc \in {"lock", "write"}

(* What a transaction may rely on: its snapshot of the completed commands  *)
(* only lacks what was committed since, and its account is as it saw it    *)
(* unless the wallet's row is stale.                                       *)
ViewHolds(t) ==
  /\ t.view \in Views
  /\ t.view.command \subseteq command
  /\ t.stale # {} => t.view.command # command
  /\ <<"wallet", t.input.account>> \notin t.stale =>
       /\ t.view.wallet[t.input.account] = wallet[t.input.account]
       /\ \A p \in PositionsOf(t.input.account) : t.view.position[p] = position[p]

(* A transaction in order: sent by somebody who has signed up; only resets *)
(* lock the account; past its claim nobody has done its command; past the  *)
(* wallet's lock the checks have passed and the wallet is as it saw it; a  *)
(* reply reports a completed command.                                      *)
InOrder(t) ==
  /\ t.pc # "idle" => t.input \in Inputs /\ Owner(t.input.account) \in registered
  /\ InFlight(t) => ViewHolds(t)
  /\ ~InFlight(t) => t.stale = {}
  /\ t.pc = "account" => t.input.op = "RESET"
  /\ Claimed(t) => CommandsFor(t.input, command) = {}
  /\ t.pc = "write" => /\ <<"wallet", t.input.account>> \notin t.stale
                       /\ Refusal(t.input, t.view) = "NONE"
  /\ t.reply.code = "OK" => /\ t.pc # "idle"
                            /\ [input |-> t.input, response |-> t.reply.response] \in command

(* Locks: two transactions past their claims have different commands, and  *)
(* two that are writing different wallets.                                 *)
Exclude(t1, t2) ==
  /\ Claimed(t1) /\ Claimed(t2) => CommandId(t1.input) # CommandId(t2.input)
  /\ t1.pc = "write" /\ t2.pc = "write" => t1.input.account # t2.input.account

(* Positions are of accounts that may trade.                               *)
MayTrade(a) == ModeOf(a) = "DEMO" \/ IsVirtual
TradesAllowed == \A p \in Positions : position[p] # NoPosition => MayTrade(AccountOf(p))

TxIInv ==
  /\ IInv /\ TradesAllowed
  /\ tx \in [Requests -> TxRecords]
  /\ \A r \in Requests : InOrder(tx[r])
  /\ \A r, q \in Requests : r # q => Exclude(tx[r], tx[q])
  /\ command \subseteq Commands /\ IsFiniteSet(command)
  /\ stream \in [Users -> Nat]
  /\ DoneOnce

-----------------------------------------------------------------------------
LEMMA InputTypes ==
  ASSUME NEW in \in Inputs
  PROVE  /\ in.op \in {"OPEN", "CLOSE", "RESET"} /\ in.account \in Accounts
         /\ in.key \in ResetKeys /\ in.c \in ClientOrderIds
         /\ in.side \in Sides /\ in.quantity \in Quantities
         /\ Owner(in.account) \in Users
         /\ PositionOf(in) \in Positions /\ PositionOf(in) \in PositionsOf(in.account)
         /\ AccountOf(PositionOf(in)) = in.account
         /\ in.op = "RESET" => in.account = <<Owner(in.account), "DEMO">>
<1>1. in \in [op : {"OPEN", "CLOSE", "RESET"}, account : Accounts, key : ResetKeys,
              c : ClientOrderIds, side : Sides, quantity : Quantities]
  BY TransactionsAssumption
<1>2. in.op = "RESET" => ModeOf(in.account) = "DEMO"
  BY TransactionsAssumption
<1> QED BY <1>1, <1>2 DEF Accounts, Owner, ModeOf, PositionOf, Positions, PositionsOf, AccountOf

(* Fields of a transaction's record.                                       *)
LEMMA RecordTypes ==
  ASSUME NEW t \in TxRecords
  PROVE  /\ t.attempt \in 0..MaxAttempts /\ t.stale \in SUBSET Rows
         /\ t.input \in Inputs \cup {<<>>} /\ t.view \in Views \cup {NoView}
         /\ t.reply \in [code : Codes, response : Responses]
BY DEF TxRecords

(* The initial states are in order.                                        *)
LEMMA TxInitInv == TxInit => TxIInv
<1> SUFFICES ASSUME TxInit PROVE TxIInv
  OBVIOUS
<1>1. IInv
  BY InitInv DEF TxInit
<1>2. TradesAllowed
  BY DEF TxInit, Init, TradesAllowed
<1> DEFINE idle == [pc |-> "idle", input |-> <<>>, attempt |-> 0, view |-> NoView, stale |-> {},
                    reply |-> [code |-> "NONE", response |-> <<>>]]
<1>3. idle \in TxRecords
  <2>1. 0 \in 0..MaxAttempts
    BY TransactionsAssumption
  <2>2. <<>> \in Responses
    BY DEF Responses
  <2>3. [code |-> "NONE", response |-> <<>>] \in [code : Codes, response : Responses]
    BY <2>2 DEF Codes
  <2> QED BY <2>1, <2>3 DEF TxRecords
<1>4. tx = [r \in Requests |-> idle] /\ command = {} /\ stream = [u \in Users |-> 0]
  BY DEF TxInit
<1>5. \A r \in Requests : InOrder(tx[r])
  BY <1>4 DEF InOrder, InFlight, Claimed
<1>6. \A r, q \in Requests : r # q => Exclude(tx[r], tx[q])
  BY <1>4 DEF Exclude, Claimed
<1>7. DoneOnce
  <2>1. AnswersAgree
    BY <1>4 DEF AnswersAgree
  <2>2. \A u \in Users : {row \in command : Owner(row.input.account) = u} = {}
    BY <1>4
  <2>3. EventPerCommand
    BY <1>4, <2>2, FS_EmptySet DEF EventPerCommand
  <2> QED BY <2>1, <2>3 DEF DoneOnce
<1> HIDE DEF idle
<1> QED BY <1>1, <1>2, <1>3, <1>4, <1>5, <1>6, <1>7, FS_EmptySet DEF TxIInv

-----------------------------------------------------------------------------
(* Steps that touch nothing but the transaction's own record.              *)

Untouched == UNCHANGED <<wallet, balance, posted, position, registered, command, stream>>

LEMMA OwnStepInv ==
  ASSUME TxIInv, NEW r \in Requests, NEW t \in TxRecords,
         tx' = [tx EXCEPT ![r] = t], Untouched, tradingEnabled' = tradingEnabled,
         InOrder(t), \A q \in Requests \ {r} : Exclude(t, tx[q])
  PROVE  TxIInv'
<1>1. /\ tx \in [Requests -> TxRecords] /\ IInv /\ TradesAllowed /\ DoneOnce
      /\ \A q \in Requests : InOrder(tx[q])
      /\ \A p, q \in Requests : p # q => Exclude(tx[p], tx[q])
      /\ command \subseteq Commands /\ IsFiniteSet(command) /\ stream \in [Users -> Nat]
  BY DEF TxIInv
<1>2. UNCHANGED <<wallet, balance, posted, position, registered, command, stream>>
  BY DEF Untouched
<1>3. IInv'
  BY <1>1, <1>2, UntouchedInv DEF IInv, TypeOK
<1>4. TradesAllowed'
  BY <1>1, <1>2 DEF TradesAllowed
<1>5. tx'[r] = t /\ \A q \in Requests \ {r} : tx'[q] = tx[q]
  BY <1>1
<1>6. ASSUME NEW q \in Requests PROVE InOrder(tx[q])'
  <2>1. InOrder(tx'[q])
    BY <1>1, <1>5
  <2> QED BY <1>2, <2>1 DEF InOrder, ViewHolds
<1>7. \A p, q \in Requests : p # q => Exclude(tx'[p], tx'[q])
  <2>1. \A q \in Requests \ {r} : Exclude(tx[q], t)
    BY DEF Exclude
  <2> QED BY <1>1, <1>5, <2>1
<1>8. DoneOnce'
  <2>1. AnswersAgree'
    <3>1. ASSUME NEW q \in Requests, tx'[q].reply.code = "OK"
          PROVE  [input |-> tx'[q].input, response |-> tx'[q].reply.response] \in command
      BY <1>2, <1>6, <3>1 DEF InOrder
    <3> QED BY <1>1, <1>2, <3>1 DEF DoneOnce, AnswersAgree
  <2>2. EventPerCommand'
    BY <1>1, <1>2 DEF DoneOnce, EventPerCommand
  <2> QED BY <2>1, <2>2 DEF DoneOnce
<1>9. tx' \in [Requests -> TxRecords]
  BY <1>1
<1> QED BY <1>1, <1>2, <1>3, <1>4, <1>6, <1>7, <1>8, <1>9 DEF TxIInv, Exclude

(* An answer ends the transaction; a successful one reports a command that *)
(* is completed.                                                           *)
LEMMA AnswerInv ==
  ASSUME TxIInv, NEW r \in Requests, tx[r].pc # "idle",
         NEW code \in Codes, NEW response \in Responses, Answer(r, code, response),
         code = "OK" => [input |-> tx[r].input, response |-> response] \in command
  PROVE  TxIInv'
<1> DEFINE t == Ended(tx[r], code, response)
<1>1. tx \in [Requests -> TxRecords] /\ tx[r] \in TxRecords /\ InOrder(tx[r])
  BY DEF TxIInv
<1>2. /\ t \in TxRecords /\ t.pc = "answered" /\ t.input = tx[r].input /\ t.stale = {}
      /\ t.reply = [code |-> code, response |-> response]
  BY <1>1 DEF Ended, TxRecords
<1>3. tx' = [tx EXCEPT ![r] = t] /\ Untouched /\ tradingEnabled' = tradingEnabled
  BY <1>1 DEF Answer, Untouched, vars, ledgerVars
<1> HIDE DEF t
<1>4. InOrder(t)
  BY <1>1, <1>2 DEF InOrder, InFlight, Claimed
<1>5. \A q \in Requests \ {r} : Exclude(t, tx[q])
  BY <1>2 DEF Exclude, Claimed
<1> QED BY <1>2, <1>3, <1>4, <1>5, OwnStepInv

(* A failure rolls back, to start over or to be answered.                  *)
LEMMA FailInv ==
  ASSUME TxIInv, NEW r \in Requests, InFlight(tx[r]),
         NEW error \in {"40001", "40P01", "P2002"}, Fail(r, error)
  PROVE  TxIInv'
<1>1. tx \in [Requests -> TxRecords] /\ tx[r] \in TxRecords /\ InOrder(tx[r])
  BY DEF TxIInv
<1>2. CASE Answer(r, error, <<>>)
  BY <1>2, AnswerInv DEF InFlight, Codes, Responses
<1>3. CASE ~Answer(r, error, <<>>)
  <2> DEFINE t == [tx[r] EXCEPT !.pc = "begin", !.attempt = @ + 1, !.view = NoView, !.stale = {}]
  <2>1. /\ tx[r].attempt < MaxAttempts
        /\ tx' = [tx EXCEPT ![r].pc = "begin", ![r].attempt = @ + 1,
                            ![r].view = NoView, ![r].stale = {}]
        /\ UNCHANGED <<vars, command, stream>>
    BY <1>3 DEF Fail
  <2>2. tx[r].attempt + 1 \in 0..MaxAttempts
    BY <1>1, <2>1, RecordTypes, TransactionsAssumption
  <2>3. /\ t \in TxRecords /\ t.pc = "begin" /\ t.input = tx[r].input /\ t.stale = {}
        /\ t.reply = tx[r].reply
    BY <1>1, <2>2 DEF TxRecords
  <2>4. tx' = [tx EXCEPT ![r] = t] /\ Untouched /\ tradingEnabled' = tradingEnabled
    BY <1>1, <2>1 DEF Untouched, vars, ledgerVars
  <2> HIDE DEF t
  <2>5. InOrder(t)
    BY <1>1, <2>3 DEF InOrder, InFlight, Claimed
  <2>6. \A q \in Requests \ {r} : Exclude(t, tx[q])
    BY <2>3 DEF Exclude, Claimed
  <2> QED BY <2>3, <2>4, <2>5, <2>6, OwnStepInv
<1> QED BY <1>2, <1>3

LEMMA SubmitInv ==
  ASSUME TxIInv, NEW r \in Requests, NEW in \in Inputs, Submit(r, in)
  PROVE  TxIInv'
<1> DEFINE t == [tx[r] EXCEPT !.pc = "begin", !.input = in, !.attempt = 1]
<1>1. tx \in [Requests -> TxRecords] /\ tx[r] \in TxRecords /\ InOrder(tx[r])
  BY DEF TxIInv
<1>2. 1 \in 0..MaxAttempts
  BY TransactionsAssumption
<1>3. /\ t \in TxRecords /\ t.pc = "begin" /\ t.input = in /\ t.stale = tx[r].stale
      /\ t.reply = tx[r].reply
  BY <1>1, <1>2 DEF TxRecords
<1>4. tx' = [tx EXCEPT ![r] = t] /\ Untouched /\ tradingEnabled' = tradingEnabled
  BY <1>1 DEF Submit, Untouched, vars, ledgerVars
<1> HIDE DEF t
<1>5. InOrder(t)
  BY <1>1, <1>3 DEF Submit, InOrder, InFlight, Claimed
<1>6. \A q \in Requests \ {r} : Exclude(t, tx[q])
  BY <1>3 DEF Exclude, Claimed
<1> QED BY <1>3, <1>4, <1>5, <1>6, OwnStepInv

(* The snapshot holds for as long as nobody commits.                       *)
LEMMA BeginInv ==
  ASSUME TxIInv, NEW r \in Requests, Begin(r)
  PROVE  TxIInv'
<1> DEFINE stage == IF tx[r].input.op = "RESET" THEN "account" ELSE "claim"
           t == [tx[r] EXCEPT !.pc = stage, !.view = Snapshot]
<1>1. tx \in [Requests -> TxRecords] /\ tx[r] \in TxRecords /\ InOrder(tx[r]) /\ tx[r].pc = "begin"
  BY DEF TxIInv, Begin
<1>2. Snapshot \in Views
  <2>1. position \in [Positions -> PositionRecords \cup {NoPosition}]
    BY DEF TxIInv, IInv, TypeOK
  <2>2. wallet \in [Accounts -> [available : Int, locked : Int]]
    BY DEF TxIInv, IInv, TypeOK, LedgerTypeOK
  <2>3. command \in SUBSET Commands /\ tradingEnabled \in SUBSET Users
    BY DEF TxIInv, IInv, TypeOK
  <2> QED BY <2>1, <2>2, <2>3 DEF Snapshot, Views
<1>3. /\ t \in TxRecords /\ t.pc = stage /\ stage \in {"account", "claim"} /\ t.view = Snapshot
      /\ t.input = tx[r].input /\ t.stale = tx[r].stale /\ t.reply = tx[r].reply
  BY <1>1, <1>2 DEF TxRecords
<1>4. tx' = [tx EXCEPT ![r] = t] /\ Untouched /\ tradingEnabled' = tradingEnabled
  BY <1>1 DEF Begin, Untouched, vars, ledgerVars
<1> HIDE DEF t
<1>5. InOrder(t)
  <2>1. t.stale = {}
    BY <1>1, <1>3 DEF InOrder, InFlight
  <2>2. ViewHolds(t)
    BY <1>2, <1>3, <2>1 DEF ViewHolds, Snapshot
  <2>3. t.pc = "account" => t.input.op = "RESET"
    BY <1>1, <1>3
  <2> QED BY <1>1, <1>3, <2>2, <2>3 DEF InOrder, InFlight, Claimed
<1>6. \A q \in Requests \ {r} : Exclude(t, tx[q])
  BY <1>3 DEF Exclude, Claimed
<1> QED BY <1>3, <1>4, <1>5, <1>6, OwnStepInv

(* A transaction that moves on within its snapshot.                        *)
LEMMA GotoInv ==
  ASSUME TxIInv, NEW r \in Requests, InFlight(tx[r]),
         NEW pc \in {"claim", "lock", "write"}, Goto(r, pc), UNCHANGED <<vars, command, stream>>,
         pc \in {"lock", "write"} =>
           /\ CommandsFor(tx[r].input, command) = {}
           /\ \A q \in Requests \ {r} :
                Claimed(tx[q]) => CommandId(tx[r].input) # CommandId(tx[q].input),
         pc = "write" =>
           /\ <<"wallet", tx[r].input.account>> \notin tx[r].stale
           /\ Refusal(tx[r].input, tx[r].view) = "NONE"
           /\ \A q \in Requests \ {r} :
                tx[q].pc = "write" => tx[r].input.account # tx[q].input.account
  PROVE  TxIInv'
<1> DEFINE t == [tx[r] EXCEPT !.pc = pc]
<1>1. tx \in [Requests -> TxRecords] /\ tx[r] \in TxRecords /\ InOrder(tx[r])
  BY DEF TxIInv
<1>2. /\ t \in TxRecords /\ t.pc = pc /\ t.input = tx[r].input /\ t.view = tx[r].view
      /\ t.stale = tx[r].stale /\ t.reply = tx[r].reply
  BY <1>1 DEF TxRecords
<1>3. tx' = [tx EXCEPT ![r] = t] /\ Untouched /\ tradingEnabled' = tradingEnabled
  BY <1>1 DEF Goto, Untouched, vars, ledgerVars
<1> HIDE DEF t
<1>4. InOrder(t)
  BY <1>1, <1>2 DEF InOrder, InFlight, Claimed, ViewHolds
<1>5. \A q \in Requests \ {r} : Exclude(t, tx[q])
  BY <1>2 DEF Exclude, Claimed
<1> QED BY <1>2, <1>3, <1>4, <1>5, OwnStepInv

(* What a transaction learns from the lock it takes or waits for.          *)
LEMMA ClaimInv ==
  ASSUME TxIInv, NEW r \in Requests, LockAccount(r) \/ Replay(r) \/ Claim(r)
  PROVE  TxIInv'
<1>1. tx[r] \in TxRecords /\ InOrder(tx[r])
  BY DEF TxIInv
<1>2. CASE LockAccount(r)
  BY <1>2, GotoInv DEF LockAccount, InFlight
<1>3. CASE Replay(r)
  <2>1. tx[r].pc = "claim" /\ ViewHolds(tx[r])
    BY <1>1, <1>3 DEF Replay, InOrder, InFlight
  <2>2. PICK row \in CommandsFor(tx[r].input, tx[r].view.command) :
          IF row.input = tx[r].input THEN Answer(r, "OK", row.response)
          ELSE Answer(r, "IDEMPOTENCY_KEY_REUSED", <<>>)
    BY <1>3 DEF Replay
  <2>3. row \in command /\ row \in Commands
    BY <2>1, <2>2 DEF CommandsFor, ViewHolds, TxIInv
  <2>4. row.response \in Responses /\ [input |-> row.input, response |-> row.response] = row
    BY <2>3 DEF Commands
  <2>5. CASE row.input = tx[r].input
    BY <2>1, <2>2, <2>3, <2>4, <2>5, AnswerInv DEF Codes
  <2>6. CASE row.input # tx[r].input
    BY <2>1, <2>2, <2>6, AnswerInv DEF Codes, Responses
  <2> QED BY <2>5, <2>6
<1>4. CASE Claim(r)
  <2>1. InFlight(tx[r])
    BY <1>4 DEF Claim, InFlight
  <2>2. CASE CommandsFor(tx[r].input, command) = {}
    <3>1. \A q \in Requests \ {r} :
            Claimed(tx[q]) => CommandId(tx[r].input) # CommandId(tx[q].input)
      BY <1>4 DEF Claim, CommandFree, Others, HoldsCommand, Claimed
    <3> QED BY <1>4, <2>1, <2>2, <3>1, GotoInv DEF Claim
  <2>3. CASE CommandsFor(tx[r].input, command) # {}
    BY <1>4, <2>1, <2>3, FailInv DEF Claim
  <2> QED BY <2>2, <2>3
<1> QED BY <1>2, <1>3, <1>4

(* Refusals are codes.                                                     *)
LEMMA RefusalCodes ==
  ASSUME NEW in \in Inputs, NEW view
  PROVE  Refusal(in, view) \in Codes \ {"OK"}
BY InputTypes DEF Refusal, Codes

LEMMA LockInv ==
  ASSUME TxIInv, NEW r \in Requests, Refuse(r) \/ LockWallet(r)
  PROVE  TxIInv'
<1>1. tx[r] \in TxRecords /\ InOrder(tx[r]) /\ tx[r].pc = "lock" /\ tx[r].input \in Inputs
  BY DEF TxIInv, Refuse, LockWallet, InOrder
<1>2. CASE Refuse(r)
  <2>1. Refusal(tx[r].input, tx[r].view) \in Codes \ {"OK"} /\ <<>> \in Responses
    BY <1>1, RefusalCodes DEF Responses
  <2> QED BY <1>1, <1>2, <2>1, AnswerInv DEF Refuse
<1>3. CASE LockWallet(r)
  <2>1. InFlight(tx[r])
    BY <1>1 DEF InFlight
  <2>2. CASE <<"wallet", tx[r].input.account>> \in tx[r].stale
    BY <1>3, <2>1, <2>2, FailInv DEF LockWallet
  <2>3. CASE <<"wallet", tx[r].input.account>> \notin tx[r].stale
    <3>1. /\ Goto(r, "write") /\ UNCHANGED <<vars, command, stream>>
          /\ Refusal(tx[r].input, tx[r].view) = "NONE"
      BY <1>3, <2>3 DEF LockWallet
    <3>2. \A q \in Requests \ {r} :
            tx[q].pc = "write" => tx[r].input.account # tx[q].input.account
      BY <1>3 DEF LockWallet, WalletFree, Others, HoldsWallet
    <3>3. /\ CommandsFor(tx[r].input, command) = {}
          /\ \A q \in Requests \ {r} :
               Claimed(tx[q]) => CommandId(tx[r].input) # CommandId(tx[q].input)
      BY <1>1 DEF InOrder, Claimed, TxIInv, Exclude
    <3> QED BY <2>1, <2>3, <3>1, <3>2, <3>3, GotoInv
  <2> QED BY <2>2, <2>3
<1> QED BY <1>2, <1>3

(* Failures nobody asked for: of serialization, of a deadlock, of the      *)
(* server.                                                                 *)
LEMMA FailuresInv ==
  ASSUME TxIInv, NEW r \in Requests,
         SerializationFailure(r) \/ \E q \in Requests : BreakDeadlock(r, q)
  PROVE  TxIInv'
<1>1. CASE SerializationFailure(r)
  BY <1>1, FailInv DEF SerializationFailure, Running, InFlight
<1>2. ASSUME NEW q \in Requests, BreakDeadlock(r, q) PROVE TxIInv'
  <2>1. InFlight(tx[r]) /\ InFlight(tx[q])
    BY <1>2 DEF BreakDeadlock, Deadlock, InFlight
  <2> QED BY <1>2, <2>1, FailInv DEF BreakDeadlock
<1> QED BY <1>1, <1>2

LEMMA EndInv ==
  ASSUME TxIInv, NEW r \in Requests, Reply(r) \/ Lose(r)
  PROVE  TxIInv'
<1> DEFINE t == IF Reply(r) THEN [tx[r] EXCEPT !.pc = "answered", !.view = NoView]
                ELSE [tx[r] EXCEPT !.pc = "lost", !.view = NoView, !.stale = {},
                                   !.reply = [code |-> "NONE", response |-> <<>>]]
<1>1. tx \in [Requests -> TxRecords] /\ tx[r] \in TxRecords /\ InOrder(tx[r])
  BY DEF TxIInv
<1>2. <<>> \in Responses
  BY DEF Responses
<1>3. /\ t \in TxRecords /\ t.pc \in {"answered", "lost"} /\ t.input = tx[r].input
      /\ t.stale = {} /\ tx[r].pc # "idle"
      /\ t.reply = tx[r].reply \/ t.reply.code = "NONE"
      /\ tx' = [tx EXCEPT ![r] = t] /\ UNCHANGED <<vars, command, stream>>
  <2>1. CASE Reply(r)
    <3>1. t = [tx[r] EXCEPT !.pc = "answered", !.view = NoView]
      BY <2>1
    <3>2. tx[r].pc \in {"committed", "refused"}
      BY <2>1 DEF Reply
    <3>3. tx[r].stale = {}
      BY <1>1, <3>2 DEF InOrder, InFlight
    <3>4. tx' = [tx EXCEPT ![r] = [tx[r] EXCEPT !.pc = "answered", !.view = NoView]]
      BY <1>1, <2>1 DEF Reply
    <3>5. tx' = [tx EXCEPT ![r] = t] /\ UNCHANGED <<vars, command, stream>>
      BY <2>1, <3>1, <3>4 DEF Reply
    <3>6. [tx[r] EXCEPT !.pc = "answered", !.view = NoView] \in TxRecords
      BY <1>1 DEF TxRecords
    <3> QED BY <1>1, <3>1, <3>2, <3>3, <3>5, <3>6 DEF TxRecords
  <2>2. CASE ~Reply(r)
    <3>1. Lose(r)
      BY <2>2
    <3>2. t = [tx[r] EXCEPT !.pc = "lost", !.view = NoView, !.stale = {},
                            !.reply = [code |-> "NONE", response |-> <<>>]]
      BY <2>2
    <3>3. [tx[r] EXCEPT !.pc = "lost", !.view = NoView, !.stale = {},
                        !.reply = [code |-> "NONE", response |-> <<>>]] \in TxRecords
      BY <1>1, <1>2 DEF TxRecords, Codes
    <3>4. tx' = [tx EXCEPT ![r] = [tx[r] EXCEPT !.pc = "lost", !.view = NoView, !.stale = {},
                            !.reply = [code |-> "NONE", response |-> <<>>]]]
      BY <1>1, <3>1 DEF Lose
    <3>5. tx' = [tx EXCEPT ![r] = t] /\ UNCHANGED <<vars, command, stream>>
      BY <3>1, <3>2, <3>4 DEF Lose
    <3> QED BY <1>1, <3>1, <3>2, <3>3, <3>5 DEF TxRecords, Lose
  <2> QED BY <2>1, <2>2
<1> HIDE DEF t
<1>4. Untouched /\ tradingEnabled' = tradingEnabled
  BY <1>3 DEF Untouched, vars, ledgerVars
<1>5. InOrder(t)
  BY <1>1, <1>3 DEF InOrder, InFlight, Claimed
<1>6. \A q \in Requests \ {r} : Exclude(t, tx[q])
  BY <1>3 DEF Exclude, Claimed
<1> QED BY <1>3, <1>4, <1>5, <1>6, OwnStepInv

-----------------------------------------------------------------------------
(* A commit: the others learn from their stale rows that their snapshots   *)
(* are behind, and whoever holds another wallet's lock does not mind.      *)
LEMMA CommittedInv ==
  ASSUME TxIInv, NEW r \in Requests, tx[r].pc = "write", NEW response \in Responses,
         NEW rows, Committed(r, rows, response),
         <<"wallet", tx[r].input.account>> \in rows,
         rows \subseteq {<<"wallet", tx[r].input.account>>}
                          \cup {<<"position", p>> : p \in PositionsOf(tx[r].input.account)},
         \A b \in Accounts \ {tx[r].input.account} : wallet'[b] = wallet[b],
         \A p \in Positions : AccountOf(p) # tx[r].input.account => position'[p] = position[p],
         registered' = registered, IInv', TradesAllowed'
  PROVE  TxIInv'
<1> DEFINE in == tx[r].input
           a == in.account
           user == Owner(a)
           new == [input |-> in, response |-> response]
           written == rows \cup {<<"command", CommandId(in)>>, <<"stream", user>>}
           done == [tx[r] EXCEPT !.pc = "committed", !.stale = {},
                                 !.reply = [code |-> "OK", response |-> response]]
           behind(q) == [tx[q] EXCEPT !.stale = @ \cup written]
<1>1. /\ tx \in [Requests -> TxRecords] /\ tx[r] \in TxRecords
      /\ \A q \in Requests : InOrder(tx[q])
      /\ \A p, q \in Requests : p # q => Exclude(tx[p], tx[q])
      /\ command \subseteq Commands /\ IsFiniteSet(command) /\ stream \in [Users -> Nat]
      /\ AnswersAgree /\ EventPerCommand
  BY DEF TxIInv, DoneOnce
<1>2. in \in Inputs /\ CommandsFor(in, command) = {}
  BY <1>1 DEF InOrder, Claimed
<1>3. /\ in.op \in {"OPEN", "CLOSE", "RESET"} /\ a \in Accounts /\ in.key \in ResetKeys
      /\ user \in Users
  BY <1>2, InputTypes
<1>4. new \in Commands /\ new \notin command /\ new.input = in
  BY <1>2 DEF Commands, CommandsFor
<1>5. /\ command' = command \cup {new}
      /\ stream' = [stream EXCEPT ![user] = @ + 1]
      /\ tx' = [q \in Requests |-> IF q = r THEN done
                                   ELSE IF InFlight(tx[q]) THEN behind(q) ELSE tx[q]]
  BY DEF Committed, Running, InFlight
<1>6. written \in SUBSET Rows
  <2>1. \A p \in PositionsOf(a) : p \in Positions
    BY <1>3 DEF PositionsOf, Positions
  <2>2. rows \subseteq Rows
    BY <1>3, <2>1 DEF Rows
  <2>3. <<"command", CommandId(in)>> \in Rows /\ <<"stream", user>> \in Rows
    BY <1>3 DEF Rows, CommandId
  <2> QED BY <2>2, <2>3
<1>7. /\ done \in TxRecords /\ done.pc = "committed" /\ done.stale = {} /\ done.input = in
      /\ done.reply = [code |-> "OK", response |-> response]
  BY <1>1 DEF TxRecords, Codes
<1>8. ASSUME NEW q \in Requests
      PROVE  /\ behind(q) \in TxRecords /\ behind(q).stale = tx[q].stale \cup written
             /\ behind(q).pc = tx[q].pc /\ behind(q).input = tx[q].input
             /\ behind(q).view = tx[q].view /\ behind(q).reply = tx[q].reply
  <2>1. tx[q] \in TxRecords
    BY <1>1
  <2>2. tx[q].stale \cup written \in SUBSET Rows
    BY <1>6, <2>1, RecordTypes
  <2> HIDE DEF written
  <2> QED BY <2>1, <2>2 DEF TxRecords
<1>9. <<"wallet", a>> \in written /\ \A b : <<"wallet", b>> \in written => b = a
  OBVIOUS
<1> HIDE DEF in, new, written, done, behind
<1>10. tx'[r] = done /\ \A q \in Requests \ {r} :
         tx'[q] = IF InFlight(tx[q]) THEN behind(q) ELSE tx[q]
  BY <1>5
<1>11. tx' \in [Requests -> TxRecords]
  BY <1>1, <1>5, <1>7, <1>8
<1>12. \A q \in Requests \ {r} : /\ tx'[q].pc = tx[q].pc /\ tx'[q].input = tx[q].input
                                 /\ tx'[q].reply = tx[q].reply
  BY <1>8, <1>10
<1>13. \A p, q \in Requests : p # q => Exclude(tx'[p], tx'[q])
  BY <1>1, <1>7, <1>10, <1>12 DEF Exclude, Claimed
<1>14. ASSUME NEW q \in Requests \ {r}, InFlight(tx[q])
       PROVE  /\ behind(q).view \in Views
              /\ behind(q).view.command \subseteq command'
              /\ behind(q).view.command # command'
              /\ <<"wallet", tx[q].input.account>> \notin behind(q).stale =>
                   /\ behind(q).view.wallet[tx[q].input.account] = wallet'[tx[q].input.account]
                   /\ \A p \in PositionsOf(tx[q].input.account) :
                        behind(q).view.position[p] = position'[p]
  <2>1. ViewHolds(tx[q]) /\ tx[q].input \in Inputs
    BY <1>1, <1>14 DEF InOrder, InFlight
  <2>2. tx[q].view.command \subseteq command /\ tx[q].view \in Views
    BY <2>1 DEF ViewHolds
  <2>3. ASSUME <<"wallet", tx[q].input.account>> \notin behind(q).stale
        PROVE  /\ behind(q).view.wallet[tx[q].input.account] = wallet'[tx[q].input.account]
               /\ \A p \in PositionsOf(tx[q].input.account) :
                    behind(q).view.position[p] = position'[p]
    <3> DEFINE b == tx[q].input.account
    <3>1. b # a /\ <<"wallet", b>> \notin tx[q].stale /\ b \in Accounts
      BY <1>8, <1>9, <2>1, <2>3, InputTypes
    <3>2. tx[q].view.wallet[b] = wallet[b] /\ wallet'[b] = wallet[b]
      BY <2>1, <3>1 DEF ViewHolds, in
    <3>3. ASSUME NEW p \in PositionsOf(b)
          PROVE  tx[q].view.position[p] = position[p] /\ position'[p] = position[p]
      <4>1. p \in Positions /\ AccountOf(p) = b
        BY <3>1 DEF PositionsOf, Positions, AccountOf
      <4> QED BY <2>1, <3>1, <4>1 DEF ViewHolds, in
    <3> QED BY <1>8, <3>2, <3>3
  <2> QED BY <1>4, <1>5, <1>8, <2>2, <2>3
<1>15. ASSUME NEW q \in Requests PROVE InOrder(tx[q])'
  <2>1. CASE q = r
    <3>1. tx'[q].pc = "committed" /\ tx'[q].stale = {} /\ tx'[q].input = in
      BY <1>7, <1>10, <2>1
    <3>2. [input |-> tx'[q].input, response |-> tx'[q].reply.response] \in command'
      BY <1>5, <1>7, <1>10, <2>1 DEF new
    <3>3. in \in Inputs /\ Owner(in.account) \in registered
      BY <1>1 DEF InOrder, in
    <3> QED BY <3>1, <3>2, <3>3 DEF InOrder, InFlight, Claimed
  <2>2. CASE q # r
    <3>1. InOrder(tx[q])
      BY <1>1
    <3>2. (InFlight(tx[q]) => ViewHolds(tx[q]))'
      <4>1. CASE InFlight(tx[q])
        <5>1. tx'[q] = behind(q) /\ behind(q).input = tx[q].input
          BY <1>8, <1>10, <2>2, <4>1
        <5> QED BY <1>14, <2>2, <4>1, <5>1 DEF ViewHolds, PositionsOf
      <4>2. CASE ~InFlight(tx[q])
        BY <1>12, <2>2, <4>2 DEF InFlight
      <4> QED BY <4>1, <4>2
    <3>3. Claimed(tx'[q]) => CommandsFor(tx'[q].input, command') = {}
      <4>1. ASSUME Claimed(tx[q]) PROVE CommandsFor(tx[q].input, command') = {}
        <5>1. CommandId(tx[q].input) # CommandId(in)
          BY <1>1, <2>2, <4>1 DEF Exclude, Claimed, in
        <5> QED BY <1>4, <1>5, <3>1, <4>1, <5>1 DEF InOrder, CommandsFor
      <4> QED BY <1>12, <2>2, <4>1 DEF Claimed
    <3>4. tx'[q].pc = "write" => /\ <<"wallet", tx'[q].input.account>> \notin tx'[q].stale
                                 /\ Refusal(tx'[q].input, tx'[q].view) = "NONE"
      <4>1. ASSUME tx[q].pc = "write"
            PROVE  /\ <<"wallet", tx[q].input.account>> \notin behind(q).stale
                   /\ Refusal(tx[q].input, tx[q].view) = "NONE"
        <5>1. tx[q].input.account # a
          BY <1>1, <2>2, <4>1 DEF Exclude, in
        <5> QED BY <1>8, <1>9, <3>1, <4>1, <5>1 DEF InOrder
      <4>2. tx[q].pc = "write" => tx'[q] = behind(q)
        BY <1>10, <2>2 DEF InFlight
      <4> QED BY <1>8, <1>12, <2>2, <4>1, <4>2
    <3>5. /\ tx'[q].pc # "idle" => tx'[q].input \in Inputs /\ Owner(tx'[q].input.account) \in registered'
          /\ ~InFlight(tx'[q]) => tx'[q].stale = {}
          /\ tx'[q].pc = "account" => tx'[q].input.op = "RESET"
          /\ tx'[q].reply.code = "OK" =>
               /\ tx'[q].pc # "idle"
               /\ [input |-> tx'[q].input, response |-> tx'[q].reply.response] \in command'
      BY <1>5, <1>10, <1>12, <2>2, <3>1 DEF InOrder, InFlight
    <3> QED BY <3>2, <3>3, <3>4, <3>5 DEF InOrder, InFlight
  <2> QED BY <2>1, <2>2
<1>16. AnswersAgree'
  <2>1. \A q \in Requests : tx'[q].reply.code = "OK" =>
          [input |-> tx'[q].input, response |-> tx'[q].reply.response] \in command'
    BY <1>15 DEF InOrder
  <2>2. \A row1, row2 \in command' :
          CommandId(row1.input) = CommandId(row2.input) => row1 = row2
    <3>1. \A row \in command : CommandId(row.input) # CommandId(in)
      BY <1>2 DEF CommandsFor
    <3> QED BY <1>1, <1>4, <1>5, <3>1 DEF AnswersAgree
  <2> QED BY <2>1, <2>2 DEF AnswersAgree, CommandId
<1>17. stream' \in [Users -> Nat] /\ EventPerCommand'
  <2>1. ASSUME NEW u \in Users
        PROVE  stream'[u] = Cardinality({row \in command' : Owner(row.input.account) = u})
    <3> DEFINE A == {row \in command : Owner(row.input.account) = u}
    <3>1. IsFiniteSet(A) /\ stream[u] = Cardinality(A)
      BY <1>1, FS_Subset DEF EventPerCommand
    <3>2. CASE u = user
      <4>1. {row \in command' : Owner(row.input.account) = u} = A \cup {new}
        BY <1>4, <1>5, <3>2
      <4>2. new \notin A
        BY <1>4
      <4>3. Cardinality(A \cup {new}) = Cardinality(A) + 1
        BY <3>1, <4>2, FS_AddElement
      <4> QED BY <1>1, <1>5, <3>1, <3>2, <4>1, <4>3
    <3>3. CASE u # user
      <4>1. {row \in command' : Owner(row.input.account) = u} = A
        BY <1>4, <1>5, <3>3
      <4> QED BY <1>1, <1>5, <3>1, <3>3, <4>1
    <3> QED BY <3>2, <3>3
  <2> QED BY <1>1, <1>3, <1>5, <2>1 DEF EventPerCommand
<1>18. command' \subseteq Commands /\ IsFiniteSet(command')
  BY <1>1, <1>4, <1>5, FS_AddElement
<1> QED BY <1>11, <1>13, <1>15, <1>16, <1>17, <1>18 DEF TxIInv, DoneOnce, Exclude

-----------------------------------------------------------------------------
(* What the last statements amount to: what the snapshot said of the       *)
(* wallet and its positions is still so, and each is the command of        *)
(* Trading that it stands for, or leaves all but the request alone.        *)

(* Everything createOrder checks, with the user as the snapshot has it.    *)
MayPlace(t, exposure) ==
  /\ Owner(t.input.account) \in t.view.tradingEnabled
  /\ MayTrade(t.input.account)
  /\ ModeOf(t.input.account) = "DEMO" => exposure \in MinimumTrade..MaximumTrade
  /\ exposure <= wallet[t.input.account].available
  /\ position[PositionOf(t.input)] = NoPosition

(* A transaction that holds the wallet's lock.                             *)
LEMMA HoldingLock ==
  ASSUME TxIInv, NEW r \in Requests, tx[r].pc = "write"
  PROVE  /\ tx[r] \in TxRecords /\ InFlight(tx[r]) /\ tx[r].input \in Inputs
         /\ Owner(tx[r].input.account) \in registered
         /\ tx[r].view \in Views
         /\ tx[r].view.wallet[tx[r].input.account] = wallet[tx[r].input.account]
         /\ \A p \in PositionsOf(tx[r].input.account) : tx[r].view.position[p] = position[p]
         /\ Refusal(tx[r].input, tx[r].view) = "NONE"
BY DEF TxIInv, InOrder, InFlight, ViewHolds

LEMMA WriteOpenIs ==
  ASSUME TxIInv, NEW r \in Requests, NEW mid \in MidPrices, WriteOpen(r, mid),
         NEW in, in = tx[r].input,
         NEW exposure, exposure = RoundCents(Quote(mid, in.side) * in.quantity)
  PROVE  \/ Answer(r, "REJECTED", <<>>) \/ Fail(r, "P2002")
         \/ /\ MayPlace(tx[r], exposure)
            /\ RefusedByDatabase(r, <<"order-open", PositionOf(in)>>,
                                 OpenJournal(in.account, exposure))
         \/ /\ MayPlace(tx[r], exposure)
            /\ Ordered(in.account, in.c, in.side, in.quantity, mid)
            /\ Committed(r, {<<"wallet", in.account>>, <<"position", PositionOf(in)>>},
                         <<"OPENED", PositionOf(in)>>)
<1> DEFINE a == in.account
           p == PositionOf(in)
<1>1. tx[r].pc = "write" /\ in.op = "OPEN"
  BY DEF WriteOpen, MayWrite
<1>2. tx[r].view.wallet[a] = wallet[a] /\ Refusal(in, tx[r].view) = "NONE"
  BY <1>1, HoldingLock
<1>3. Owner(a) \in tx[r].view.tradingEnabled /\ MayTrade(a)
  <2>1. Owner(a) \in tx[r].view.tradingEnabled
    BY <1>1, <1>2 DEF Refusal
  <2>2. ~(ModeOf(a) = "REAL" /\ ~IsVirtual)
    BY <1>1, <1>2, <2>1 DEF Refusal
  <2>3. a \in Accounts
    BY <1>1, HoldingLock, InputTypes
  <2> QED BY <2>1, <2>2, <2>3 DEF MayTrade, ModeOf, Accounts, Modes
<1> DEFINE rejected == \/ ModeOf(a) = "DEMO" /\ exposure \notin MinimumTrade..MaximumTrade
                       \/ exposure > wallet[a].available
<1>4. CASE rejected
  BY <1>2, <1>4 DEF WriteOpen
<1>5. CASE position[p] # NoPosition /\ ~rejected
  BY <1>2, <1>5 DEF WriteOpen
<1>6. CASE position[p] = NoPosition /\ ~rejected
  <2>1. exposure <= wallet[a].available
    <3>1. in.quantity \in Quantities /\ a \in Accounts
      BY <1>1, HoldingLock, InputTypes
    <3>2. exposure \in Int
      BY <3>1, QuoteNat, ExposureNat
    <3>3. wallet[a].available \in Int
      BY <3>1 DEF TxIInv, IInv, TypeOK, LedgerTypeOK
    <3> QED BY <1>6, <3>2, <3>3
  <2>2. MayPlace(tx[r], exposure)
    BY <1>3, <1>6, <2>1 DEF MayPlace
  <2>3. CASE ~RowsPositive(OpenJournal(a, exposure))
    BY <1>2, <1>6, <2>2, <2>3 DEF WriteOpen
  <2>4. CASE RowsPositive(OpenJournal(a, exposure))
    <3>1. /\ Post(<<"order-open", p>>, OpenJournal(a, exposure))
          /\ MoveWallet(a, -exposure, exposure)
          /\ position' = [position EXCEPT ![p] =
                            [status |-> "OPEN", side |-> in.side, quantity |-> in.quantity,
                             entry |-> Quote(mid, in.side), pnl |-> 0]]
          /\ Committed(r, {<<"wallet", a>>, <<"position", p>>}, <<"OPENED", p>>)
          /\ UNCHANGED <<registered, tradingEnabled>>
      BY <1>2, <1>6, <2>4 DEF WriteOpen
    <3> QED BY <1>6, <2>1, <2>2, <3>1 DEF Ordered, PositionOf
  <2> QED BY <2>3, <2>4
<1> QED BY <1>4, <1>5, <1>6

LEMMA WriteCloseIs ==
  ASSUME TxIInv, NEW r \in Requests, NEW mid \in MidPrices, WriteClose(r, mid),
         NEW p, p = PositionOf(tx[r].input),
         NEW pnl, pnl = Pnl(position[p], Quote(mid, Opposite(position[p].side)))
  PROVE  /\ p \in Positions /\ AccountOf(p) = tx[r].input.account
         /\ position[p].status = "OPEN" /\ pnl \in Int
         /\ \/ Answer(r, "LEDGER_PROJECTION_MISMATCH", <<>>) \/ Fail(r, "P2002")
            \/ /\ MayClose(p)
               /\ RefusedByDatabase(r, <<"position-close", p>>,
                                    CloseJournal(AccountOf(p), Notional(position[p]), pnl))
            \/ /\ ClosePosition(p, mid)
               /\ Committed(r, {<<"wallet", AccountOf(p)>>, <<"position", p>>}, <<"CLOSED", p, pnl>>)
<1> DEFINE in == tx[r].input
           a == in.account
           notional == Notional(position[p])
           journal == CloseJournal(a, notional, pnl)
<1>1. tx[r].pc = "write" /\ in.op = "CLOSE"
  BY DEF WriteClose, MayWrite
<1>2. /\ in \in Inputs /\ p \in Positions /\ p \in PositionsOf(a) /\ AccountOf(p) = a
      /\ a \in Accounts
  BY <1>1, HoldingLock, InputTypes
<1>3. /\ tx[r].view.wallet[a] = wallet[a] /\ tx[r].view.position[p] = position[p]
      /\ Refusal(in, tx[r].view) = "NONE"
  BY <1>1, <1>2, HoldingLock
<1>4. position \in [Positions -> PositionRecords \cup {NoPosition}]
  BY DEF TxIInv, IInv, TypeOK
<1>5. position[p].status = "OPEN" /\ position[p] \in PositionRecords
  <2>1. position[p].status \notin {"NONE", "CLOSED"}
    BY <1>1, <1>3 DEF Refusal
  <2>2. position[p] \in PositionRecords \/ position[p].status = "NONE"
    BY <1>2, <1>4 DEF NoPosition
  <2> QED BY <2>1, <2>2 DEF PositionRecords
<1>6. pnl \in Int /\ notional \in Nat
  BY <1>5, QuoteNat, PnlBounds
<1>7. MayTrade(a)
  <2>1. position[p] # NoPosition
    BY <1>5 DEF NoPosition
  <2> QED BY <1>2, <2>1 DEF TxIInv, TradesAllowed
<1> DEFINE write ==
      IF wallet[a].locked < notional THEN Answer(r, "LEDGER_PROJECTION_MISMATCH", <<>>)
      ELSE IF <<"position-close", p>> \in posted THEN Fail(r, "P2002")
      ELSE IF ~RowsPositive(journal)
      THEN RefusedByDatabase(r, <<"position-close", p>>, journal)
      ELSE /\ Post(<<"position-close", p>>, journal)
           /\ MoveWallet(a, notional + pnl, -notional)
           /\ position' = [position EXCEPT ![p] = [position[p] EXCEPT !.status = "CLOSED", !.pnl = pnl]]
           /\ Committed(r, {<<"wallet", a>>, <<"position", p>>}, <<"CLOSED", p, pnl>>)
           /\ UNCHANGED <<registered, tradingEnabled>>
<1>8. write
  BY <1>3 DEF WriteClose
<1>9. CASE wallet[a].locked < notional
  BY <1>2, <1>5, <1>6, <1>8, <1>9
<1>10. CASE ~(wallet[a].locked < notional)
  <2>1. wallet[a].locked >= notional
    <3>1. wallet[a].locked \in Int
      BY <1>2 DEF TxIInv, IInv, TypeOK, LedgerTypeOK
    <3> QED BY <1>6, <1>10, <3>1
  <2>2. MayClose(p)
    BY <1>2, <1>5, <1>7, <2>1 DEF MayClose, MayTrade
  <2>3. CASE <<"position-close", p>> \in posted \/ ~RowsPositive(journal)
    BY <1>2, <1>5, <1>6, <1>8, <1>10, <2>2, <2>3
  <2>4. CASE ~(<<"position-close", p>> \in posted) /\ RowsPositive(journal)
    <3>1. /\ Post(<<"position-close", p>>, journal)
          /\ MoveWallet(a, notional + pnl, -notional)
          /\ position' = [position EXCEPT ![p] = [position[p] EXCEPT !.status = "CLOSED", !.pnl = pnl]]
          /\ Committed(r, {<<"wallet", a>>, <<"position", p>>}, <<"CLOSED", p, pnl>>)
          /\ UNCHANGED <<registered, tradingEnabled>>
      BY <1>8, <1>10, <2>4
    <3>2. position' = [position EXCEPT ![p].status = "CLOSED", ![p].pnl = pnl]
      BY <1>2, <1>4, <1>5, <3>1
    <3> HIDE DEF journal, notional
    <3>3. ClosePosition(p, mid)
      BY <1>2, <2>2, <3>1, <3>2 DEF ClosePosition, journal, notional
    <3> QED BY <1>2, <1>5, <1>6, <3>1, <3>3
  <2> QED BY <2>3, <2>4
<1> QED BY <1>9, <1>10

LEMMA WriteResetIs ==
  ASSUME TxIInv, NEW r \in Requests, WriteReset(r),
         NEW in, in = tx[r].input,
         NEW difference, difference = DemoInitialBalance - wallet[in.account].available
  PROVE  /\ difference \in Int
         /\ \/ Answer(r, "DEMO_RESET_BLOCKED", <<>>)
            \/ Answer(r, "LEDGER_RECONCILIATION_FAILED", <<>>)
            \/ /\ \/ UNCHANGED vars
                  \/ ResetDemo(Owner(in.account), in.key)
               /\ Committed(r, {<<"wallet", in.account>>}, <<"RESET", difference>>)
<1> DEFINE a == in.account
           u == Owner(a)
<1>1. tx[r].pc = "write" /\ in.op = "RESET"
  BY DEF WriteReset, MayWrite
<1>2. in \in Inputs /\ a \in Accounts /\ a = <<u, "DEMO">> /\ u \in registered
  BY <1>1, HoldingLock, InputTypes
<1>3. /\ tx[r].view.wallet[a] = wallet[a]
      /\ \A p \in PositionsOf(a) : tx[r].view.position[p] = position[p]
      /\ Refusal(in, tx[r].view) = "NONE"
  BY <1>1, HoldingLock
<1>4. OpenPositions(a) = {}
  BY <1>1, <1>3 DEF Refusal, OpenPositions
<1>5. wallet \in [Accounts -> [available : Int, locked : Int]] /\ difference \in Int
  BY <1>2, TradingAssumption DEF TxIInv, IInv, TypeOK, LedgerTypeOK
<1>6. CASE wallet[a].locked # 0 \/ balance[Available(a)] # wallet[a].available
  BY <1>3, <1>5, <1>6 DEF WriteReset
<1>7. CASE wallet[a].locked = 0 /\ balance[Available(a)] = wallet[a].available
  <2>1. /\ IF difference = 0 THEN UNCHANGED ledgerVars
           ELSE /\ Post(<<"demo-reset", u, in.key>>, ResetJournal(a, difference))
                /\ wallet' = [wallet EXCEPT ![a].available = DemoInitialBalance]
        /\ Committed(r, {<<"wallet", a>>}, <<"RESET", difference>>)
        /\ UNCHANGED <<registered, tradingEnabled, position>>
    BY <1>3, <1>7 DEF WriteReset
  <2>2. CASE difference = 0
    BY <1>5, <2>1, <2>2 DEF vars
  <2>3. CASE difference # 0
    <3>1. DemoInitialBalance = wallet[a].available + difference
      BY <1>2, <1>5, TradingAssumption
    <3>2. MoveWallet(a, difference, 0)
      <4>1. wallet' = [wallet EXCEPT ![a] = [wallet[a] EXCEPT !.available = DemoInitialBalance]]
        BY <1>2, <1>5, <2>1, <2>3
      <4>2. [wallet[a] EXCEPT !.available = DemoInitialBalance]
              = [available |-> wallet[a].available + difference, locked |-> wallet[a].locked + 0]
        BY <1>2, <1>5, <3>1
      <4> QED BY <4>1, <4>2 DEF MoveWallet
    <3>3. ResetDemo(u, in.key)
      BY <1>2, <1>4, <1>7, <2>1, <2>3, <3>2 DEF ResetDemo
    <3> QED BY <1>5, <2>1, <3>3
  <2> QED BY <2>2, <2>3
<1> QED BY <1>6, <1>7

LEMMA RefusedInv ==
  ASSUME TxIInv, NEW r \in Requests, tx[r].pc = "write", NEW key, NEW journal,
         RefusedByDatabase(r, key, journal)
  PROVE  TxIInv'
<1> DEFINE t == [tx[r] EXCEPT !.pc = "refused", !.stale = {},
                              !.reply = [code |-> "DATABASE_CHECK", response |-> <<>>]]
<1>1. tx \in [Requests -> TxRecords] /\ tx[r] \in TxRecords /\ InOrder(tx[r])
  BY DEF TxIInv
<1>2. <<>> \in Responses
  BY DEF Responses
<1>3. /\ t \in TxRecords /\ t.pc = "refused" /\ t.stale = {} /\ t.input = tx[r].input
      /\ t.reply.code = "DATABASE_CHECK"
  BY <1>1, <1>2 DEF TxRecords, Codes
<1>4. tx' = [tx EXCEPT ![r] = t] /\ Untouched /\ tradingEnabled' = tradingEnabled
  BY <1>1 DEF RefusedByDatabase, PostRefused, Untouched
<1> HIDE DEF t
<1>5. InOrder(t)
  BY <1>1, <1>3 DEF InOrder, InFlight, Claimed
<1>6. \A q \in Requests \ {r} : Exclude(t, tx[q])
  BY <1>3 DEF Exclude, Claimed
<1> QED BY <1>3, <1>4, <1>5, <1>6, OwnStepInv

LEMMA WriteOpenInv ==
  ASSUME TxIInv, NEW r \in Requests, NEW mid \in MidPrices, WriteOpen(r, mid)
  PROVE  TxIInv'
<1> DEFINE in == tx[r].input
           a == in.account
           p == PositionOf(in)
           exposure == RoundCents(Quote(mid, in.side) * in.quantity)
<1>1. tx[r].pc = "write"
  BY DEF WriteOpen, MayWrite
<1>2. /\ a \in Accounts /\ in.c \in ClientOrderIds /\ in.side \in Sides
      /\ in.quantity \in Quantities /\ p \in Positions /\ p \in PositionsOf(a) /\ p = <<a, in.c>>
      /\ AccountOf(p) = a
  BY <1>1, HoldingLock, InputTypes DEF PositionOf
<1> HIDE DEF in, a, p, exposure
<1>3. CASE Answer(r, "REJECTED", <<>>)
  BY <1>1, <1>3, AnswerInv DEF Codes, Responses
<1>4. CASE Fail(r, "P2002")
  BY <1>1, <1>4, FailInv DEF InFlight
<1>5. CASE RefusedByDatabase(r, <<"order-open", p>>, OpenJournal(a, exposure))
  BY <1>1, <1>5, RefusedInv
<1>6. CASE /\ MayPlace(tx[r], exposure)
           /\ Ordered(a, in.c, in.side, in.quantity, mid)
           /\ Committed(r, {<<"wallet", a>>, <<"position", p>>}, <<"OPENED", p>>)
  <2>1. IInv'
    BY <1>2, <1>6, OrderedInv DEF TxIInv
  <2>2. /\ \A b \in Accounts \ {a} : wallet'[b] = wallet[b]
        /\ \A q \in Positions \ {p} : position'[q] = position[q]
        /\ registered' = registered
    <3>1. wallet \in [Accounts -> [available : Int, locked : Int]]
      BY DEF TxIInv, IInv, TypeOK, LedgerTypeOK
    <3>2. position \in [Positions -> PositionRecords \cup {NoPosition}]
      BY DEF TxIInv, IInv, TypeOK
    <3> QED BY <1>2, <1>6, <3>1, <3>2 DEF Ordered, MoveWallet
  <2>3. TradesAllowed'
    BY <1>2, <1>6, <2>2 DEF TxIInv, TradesAllowed, MayPlace, MayTrade, in, a
  <2>4. <<"OPENED", p>> \in Responses
    BY <1>2 DEF Responses
  <2>5. {<<"wallet", a>>, <<"position", p>>}
          \subseteq {<<"wallet", a>>} \cup {<<"position", q>> : q \in PositionsOf(a)}
    BY <1>2
  <2>6. \A q \in Positions : AccountOf(q) # a => position'[q] = position[q]
    BY <1>2, <2>2
  <2> QED BY <1>1, <1>6, <2>1, <2>2, <2>3, <2>4, <2>5, <2>6, CommittedInv DEF in, a
<1> QED BY <1>3, <1>4, <1>5, <1>6, WriteOpenIs DEF in, a, p, exposure

LEMMA WriteCloseInv ==
  ASSUME TxIInv, NEW r \in Requests, NEW mid \in MidPrices, WriteClose(r, mid)
  PROVE  TxIInv'
<1> DEFINE a == tx[r].input.account
           p == PositionOf(tx[r].input)
           pnl == Pnl(position[p], Quote(mid, Opposite(position[p].side)))
<1>1. tx[r].pc = "write"
  BY DEF WriteClose, MayWrite
<1>2. p \in Positions /\ p \in PositionsOf(a) /\ a \in Accounts
  BY <1>1, HoldingLock, InputTypes
<1> HIDE DEF a, p, pnl
<1>3. /\ AccountOf(p) = a /\ position[p].status = "OPEN" /\ pnl \in Int
      /\ \/ Answer(r, "LEDGER_PROJECTION_MISMATCH", <<>>) \/ Fail(r, "P2002")
         \/ RefusedByDatabase(r, <<"position-close", p>>,
                              CloseJournal(AccountOf(p), Notional(position[p]), pnl))
         \/ /\ ClosePosition(p, mid)
            /\ Committed(r, {<<"wallet", a>>, <<"position", p>>}, <<"CLOSED", p, pnl>>)
  BY WriteCloseIs DEF a, p, pnl
<1>4. CASE Answer(r, "LEDGER_PROJECTION_MISMATCH", <<>>)
  BY <1>1, <1>4, AnswerInv DEF Codes, Responses
<1>5. CASE Fail(r, "P2002")
  BY <1>1, <1>5, FailInv DEF InFlight
<1>6. CASE RefusedByDatabase(r, <<"position-close", p>>,
                             CloseJournal(AccountOf(p), Notional(position[p]), pnl))
  BY <1>1, <1>6, RefusedInv
<1>7. CASE /\ ClosePosition(p, mid)
           /\ Committed(r, {<<"wallet", a>>, <<"position", p>>}, <<"CLOSED", p, pnl>>)
  <2>1. IInv'
    BY <1>2, <1>7, ClosePositionInv DEF TxIInv
  <2>2. /\ \A b \in Accounts \ {a} : wallet'[b] = wallet[b]
        /\ \A q \in Positions \ {p} : position'[q] = position[q]
        /\ registered' = registered
    <3>1. wallet \in [Accounts -> [available : Int, locked : Int]]
      BY DEF TxIInv, IInv, TypeOK, LedgerTypeOK
    <3>2. position \in [Positions -> PositionRecords \cup {NoPosition}]
      BY DEF TxIInv, IInv, TypeOK
    <3> QED BY <1>2, <1>3, <1>7, <3>1, <3>2 DEF ClosePosition, MoveWallet
  <2>3. TradesAllowed'
    <3>1. position[p] # NoPosition
      BY <1>3 DEF NoPosition
    <3> QED BY <1>2, <2>2, <3>1 DEF TxIInv, TradesAllowed, MayTrade
  <2>4. <<"CLOSED", p, pnl>> \in Responses
    BY <1>2, <1>3 DEF Responses
  <2>5. {<<"wallet", a>>, <<"position", p>>}
          \subseteq {<<"wallet", a>>} \cup {<<"position", q>> : q \in PositionsOf(a)}
    BY <1>2
  <2>6. \A q \in Positions : AccountOf(q) # a => position'[q] = position[q]
    BY <1>3, <2>2
  <2> QED BY <1>1, <1>7, <2>1, <2>2, <2>3, <2>4, <2>5, <2>6, CommittedInv DEF a
<1> QED BY <1>3, <1>4, <1>5, <1>6, <1>7

LEMMA WriteResetInv ==
  ASSUME TxIInv, NEW r \in Requests, WriteReset(r)
  PROVE  TxIInv'
<1> DEFINE in == tx[r].input
           a == in.account
           difference == DemoInitialBalance - wallet[a].available
<1>1. tx[r].pc = "write" /\ in.op = "RESET"
  BY DEF WriteReset, MayWrite
<1>2. /\ a \in Accounts /\ in.key \in ResetKeys /\ Owner(a) \in Users
      /\ a = <<Owner(a), "DEMO">>
  BY <1>1, HoldingLock, InputTypes
<1> HIDE DEF in, a, difference
<1>3. /\ difference \in Int
      /\ \/ Answer(r, "DEMO_RESET_BLOCKED", <<>>)
         \/ Answer(r, "LEDGER_RECONCILIATION_FAILED", <<>>)
         \/ /\ UNCHANGED vars \/ ResetDemo(Owner(a), in.key)
            /\ Committed(r, {<<"wallet", a>>}, <<"RESET", difference>>)
  BY WriteResetIs DEF in, a, difference
<1>4. CASE Answer(r, "DEMO_RESET_BLOCKED", <<>>)
  BY <1>1, <1>4, AnswerInv DEF Codes, Responses
<1>5. CASE Answer(r, "LEDGER_RECONCILIATION_FAILED", <<>>)
  BY <1>1, <1>5, AnswerInv DEF Codes, Responses
<1>6. CASE /\ UNCHANGED vars \/ ResetDemo(Owner(a), in.key)
           /\ Committed(r, {<<"wallet", a>>}, <<"RESET", difference>>)
  <2>1. IInv'
    <3>1. CASE UNCHANGED vars
      BY <3>1, NextInv DEF TxIInv
    <3>2. CASE ResetDemo(Owner(a), in.key)
      BY <1>2, <3>2, ResetDemoInv DEF TxIInv
    <3> QED BY <1>6, <3>1, <3>2
  <2>2. /\ \A b \in Accounts \ {a} : wallet'[b] = wallet[b]
        /\ position' = position /\ registered' = registered
    <3>1. CASE UNCHANGED vars
      BY <3>1 DEF vars, ledgerVars
    <3>2. CASE ResetDemo(Owner(a), in.key)
      <4>1. wallet \in [Accounts -> [available : Int, locked : Int]]
        BY DEF TxIInv, IInv, TypeOK, LedgerTypeOK
      <4> QED BY <1>2, <3>2, <4>1 DEF ResetDemo, MoveWallet
    <3> QED BY <1>6, <3>1, <3>2
  <2>3. TradesAllowed'
    BY <2>2 DEF TxIInv, TradesAllowed
  <2>4. <<"RESET", difference>> \in Responses
    BY <1>3 DEF Responses
  <2>5. {<<"wallet", a>>} \subseteq {<<"wallet", a>>} \cup {<<"position", q>> : q \in PositionsOf(a)}
    OBVIOUS
  <2> QED BY <1>1, <1>6, <2>1, <2>2, <2>3, <2>4, <2>5, CommittedInv DEF in, a
<1> QED BY <1>3, <1>4, <1>5, <1>6

(* A step of somebody who has nothing in flight: a sign-up, a switch of    *)
(* trading, or none.                                                       *)
LEMMA BystanderInv ==
  ASSUME TxIInv, IInv', UNCHANGED <<command, stream, tx, position>>,
         registered \subseteq registered',
         \A a \in Accounts : Owner(a) \in registered => wallet'[a] = wallet[a]
  PROVE  TxIInv'
<1>1. TradesAllowed' /\ DoneOnce'
  BY DEF TxIInv, TradesAllowed, DoneOnce, AnswersAgree, EventPerCommand
<1>2. ASSUME NEW r \in Requests PROVE InOrder(tx[r])'
  <2>1. InOrder(tx[r])
    BY DEF TxIInv
  <2>2. (InFlight(tx[r]) => ViewHolds(tx[r]))'
    <3>1. CASE InFlight(tx[r])
      <4>1. /\ ViewHolds(tx[r]) /\ tx[r].input.account \in Accounts
            /\ Owner(tx[r].input.account) \in registered
        BY <2>1, <3>1, InputTypes DEF InOrder, InFlight
      <4>2. wallet'[tx[r].input.account] = wallet[tx[r].input.account]
        BY <4>1
      <4> QED BY <4>1, <4>2 DEF ViewHolds
    <3>2. CASE ~InFlight(tx[r])
      BY <3>2 DEF InFlight
    <3> QED BY <3>1, <3>2
  <2> QED BY <2>1, <2>2 DEF InOrder
<1> QED BY <1>1, <1>2 DEF TxIInv, Exclude

LEMMA OthersInv ==
  ASSUME TxIInv,
         \/ \E u \in Users : SignUp(u) \/ \E on \in BOOLEAN : AdminSetTrading(u, on)
         \/ UNCHANGED txVars
  PROVE  TxIInv'
<1>1. ASSUME NEW u \in Users, SignUp(u) PROVE TxIInv'
  <2>1. IInv'
    BY <1>1, RegisterInv DEF SignUp, TxIInv
  <2>2. wallet \in [Accounts -> [available : Int, locked : Int]]
    BY DEF TxIInv, IInv, TypeOK, LedgerTypeOK
  <2>3. \A a \in Accounts : Owner(a) \in registered => wallet'[a] = wallet[a]
    BY <1>1, <2>2 DEF SignUp, Register, MoveWallet, Owner
  <2> QED BY <1>1, <2>1, <2>3, BystanderInv DEF SignUp, Register
<1>2. ASSUME NEW u \in Users, NEW on \in BOOLEAN, AdminSetTrading(u, on) PROVE TxIInv'
  <2>1. IInv'
    BY <1>2, NextInv DEF AdminSetTrading, Next, TxIInv
  <2> QED BY <1>2, <2>1, BystanderInv DEF AdminSetTrading, SetTradingEnabled, ledgerVars
<1>3. ASSUME UNCHANGED txVars PROVE TxIInv'
  <2>1. IInv'
    BY <1>3, NextInv DEF txVars, TxIInv
  <2> QED BY <1>3, <2>1, BystanderInv DEF txVars, vars, ledgerVars
<1> QED BY <1>1, <1>2, <1>3

LEMMA TxNextInv == TxIInv /\ [TxNext]_txVars => TxIInv'
<1> SUFFICES ASSUME TxIInv, [TxNext]_txVars PROVE TxIInv'
  OBVIOUS
<1>1. CASE \/ \E u \in Users : SignUp(u) \/ \E on \in BOOLEAN : AdminSetTrading(u, on)
           \/ UNCHANGED txVars
  BY <1>1, OthersInv
<1>2. ASSUME NEW r \in Requests, \E in \in Inputs : Submit(r, in) PROVE TxIInv'
  BY <1>2, SubmitInv
<1>3. ASSUME NEW r \in Requests, Serve(r) PROVE TxIInv'
  <2>1. CASE Begin(r)
    BY <2>1, BeginInv
  <2>2. CASE LockAccount(r) \/ Replay(r) \/ Claim(r)
    BY <2>2, ClaimInv
  <2>3. CASE Refuse(r) \/ LockWallet(r)
    BY <2>3, LockInv
  <2>4. CASE WriteReset(r)
    BY <2>4, WriteResetInv
  <2>5. CASE \E mid \in MidPrices : WriteOpen(r, mid) \/ WriteClose(r, mid)
    BY <2>5, WriteOpenInv, WriteCloseInv
  <2>6. CASE Reply(r)
    BY <2>6, EndInv
  <2> QED BY <1>3, <2>1, <2>2, <2>3, <2>4, <2>5, <2>6 DEF Serve
<1>4. ASSUME NEW r \in Requests, Lose(r) PROVE TxIInv'
  BY <1>4, EndInv
<1>5. ASSUME NEW r \in Requests,
             SerializationFailure(r) \/ \E q \in Requests : BreakDeadlock(r, q)
      PROVE  TxIInv'
  BY <1>5, FailuresInv
<1> QED BY <1>1, <1>2, <1>3, <1>4, <1>5 DEF TxNext

(* Transactions rely on nothing that another one has changed.              *)
THEOREM TxInvariance == TxSpec => []TxIInv
BY TxInitInv, TxNextInv, PTL DEF TxSpec

-----------------------------------------------------------------------------
(* The refinement.  The instance of Trading is about the same books, so    *)
(* its operators are those of this module.                                 *)
LEMMA SameSum ==
  ASSUME NEW f, NEW S
  PROVE  Atomic!SumFunctionOnSet(f, S) = SumFunctionOnSet(f, S)
<1>1. Atomic!SumFunctionOnSet(f, S) = (CHOOSE g : IsFoldTable(g, f, S))[S]
  BY DEF Atomic!SumFunctionOnSet, Atomic!FoldFunctionOnSet, Atomic!MapThenFoldSet, IsFoldTable
<1> QED BY <1>1, SumUnfolded

LEMMA SameBalanced ==
  ASSUME NEW journal
  PROVE  Atomic!Balanced(journal) <=> Balanced(journal)
<1>1. \A S : Atomic!Cardinality(S) = Cardinality(S)
  BY DEF Atomic!Cardinality, Cardinality
<1>2. Atomic!SumFunctionOnSet(journal, DOMAIN journal) = SumFunctionOnSet(journal, DOMAIN journal)
  BY SameSum
<1> QED BY <1>1, <1>2 DEF Atomic!Balanced, Balanced

LEMMA SameNames ==
  /\ \A a : /\ Atomic!Owner(a) = Owner(a) /\ Atomic!ModeOf(a) = ModeOf(a)
            /\ Atomic!AccountOf(a) = AccountOf(a) /\ Atomic!Available(a) = Available(a)
            /\ Atomic!Locked(a) = Locked(a) /\ Atomic!Control(a) = Control(a)
            /\ Atomic!PositionsOf(a) = PositionsOf(a)
            /\ Atomic!OpenPositions(a) = OpenPositions(a)
  /\ Atomic!Accounts = Accounts /\ Atomic!Positions = Positions /\ Atomic!Sides = Sides
  /\ Atomic!NoPosition = NoPosition
<1>1. Atomic!Modes = Modes
  BY DEF Atomic!Modes, Modes
<1>2. \A a : Atomic!PositionsOf(a) = PositionsOf(a)
  BY DEF Atomic!PositionsOf, PositionsOf
<1> QED BY <1>1, <1>2 DEF
  Atomic!Owner, Owner, Atomic!ModeOf, ModeOf, Atomic!AccountOf, AccountOf, Atomic!Available,
  Available, Atomic!Locked, Locked, Atomic!Control, Control, Atomic!OpenPositions, OpenPositions,
  Atomic!Accounts, Accounts, Atomic!Positions, Positions, Atomic!Sides, Sides,
  Atomic!NoPosition, NoPosition

LEMMA SameLedger == Atomic!LedgerAccounts = LedgerAccounts
<1>1. \A m : Atomic!ChartOf(m) = ChartOf(m)
  BY SameNames
  DEF Atomic!ChartOf, ChartOf, Atomic!PlatformAccounts, PlatformAccounts, Atomic!Fees, Fees,
      Atomic!Pool, Pool, Atomic!Counterparty, Counterparty
<1> QED BY <1>1 DEF Atomic!LedgerAccounts, LedgerAccounts, Atomic!Modes, Modes

LEMMA SamePrices ==
  /\ \A x : Atomic!RoundCents(x) = RoundCents(x)
  /\ \A mid, side : Atomic!Quote(mid, side) = Quote(mid, side)
  /\ \A side : Atomic!Opposite(side) = Opposite(side)
  /\ \A pos : Atomic!Notional(pos) = Notional(pos)
  /\ \A pos, price : Atomic!Pnl(pos, price) = Pnl(pos, price)
<1>1. \A x : Atomic!RoundCents(x) = RoundCents(x)
  BY DEF Atomic!RoundCents, RoundCents
<1>2. \A pos : Atomic!Notional(pos) = Notional(pos)
  BY <1>1 DEF Atomic!Notional, Notional
<1> QED BY <1>1, <1>2 DEF Atomic!Quote, Quote, Atomic!Opposite, Opposite, Atomic!Pnl, Pnl

LEMMA SameJournals ==
  /\ \A u : Atomic!FundingJournal(u) = FundingJournal(u)
  /\ \A a, exposure : Atomic!OpenJournal(a, exposure) = OpenJournal(a, exposure)
  /\ \A a, notional, pnl : Atomic!CloseJournal(a, notional, pnl) = CloseJournal(a, notional, pnl)
  /\ \A a, difference : Atomic!ResetJournal(a, difference) = ResetJournal(a, difference)
<1>1. \A l, amount : /\ Atomic!Credit(l, amount) = Credit(l, amount)
                     /\ Atomic!Debit(l, amount) = Debit(l, amount)
  BY DEF Atomic!Credit, Credit, Atomic!Debit, Debit
<1> QED BY <1>1, SameNames DEF Atomic!FundingJournal, FundingJournal, Atomic!OpenJournal, OpenJournal,
  Atomic!CloseJournal, CloseJournal, Atomic!ResetJournal, ResetJournal, Atomic!++, ++

LEMMA SamePosting ==
  ASSUME NEW key, NEW journal
  PROVE  /\ Atomic!Post(key, journal) <=> Post(key, journal)
         /\ Atomic!PostRefused(key, journal) <=> PostRefused(key, journal)
<1>1. Atomic!RowsPositive(journal) <=> RowsPositive(journal)
  BY DEF Atomic!RowsPositive, RowsPositive
<1> QED BY <1>1, SameBalanced, SameLedger
        DEF Atomic!Post, Post, Atomic!PostRefused, PostRefused

LEMMA SameMoves ==
  ASSUME NEW a, NEW x, NEW y
  PROVE  Atomic!MoveWallet(a, x, y) <=> MoveWallet(a, x, y)
BY DEF Atomic!MoveWallet, MoveWallet

-----------------------------------------------------------------------------
(* Whose trading counts as enabled while transactions are under way.       *)
Counts(t, u) ==
  /\ t.pc \in {"claim", "lock", "write", "committed", "refused"}
  /\ t.input.op = "OPEN"
  /\ Owner(t.input.account) = u
  /\ u \in t.view.tradingEnabled

LEMMA EnabledIs ==
  /\ EffectivelyEnabled = tradingEnabled \cup {u \in Users : \E r \in Requests : Counts(tx[r], u)}
  /\ EffectivelyEnabled' =
       tradingEnabled' \cup {u \in Users : \E r \in Requests : Counts(tx'[r], u)}
BY DEF EffectivelyEnabled, Counts

LEMMA EnabledSignedUp == TxIInv => EffectivelyEnabled \subseteq registered
<1> SUFFICES ASSUME TxIInv, NEW u \in EffectivelyEnabled PROVE u \in registered
  OBVIOUS
<1>1. CASE u \in tradingEnabled
  BY <1>1 DEF TxIInv, IInv, TypeOK
<1>2. ASSUME NEW r \in Requests, Counts(tx[r], u) PROVE u \in registered
  BY <1>2 DEF TxIInv, InOrder, Counts
<1> QED BY <1>1, <1>2, EnabledIs

(* A transaction's own step is no step of Trading, or takes away a         *)
(* permission that only the transaction still had.                         *)
LEMMA OwnStepMaps ==
  ASSUME TxIInv, NEW r \in Requests, UNCHANGED vars,
         \A q \in Requests \ {r} : tx'[q] = tx[q],
         \A u \in Users : Counts(tx'[r], u) => Counts(tx[r], u) \/ u \in tradingEnabled
  PROVE  Atomic!Next \/ UNCHANGED Atomic!vars
<1>1. UNCHANGED <<wallet, balance, posted, refused, registered, tradingEnabled, position>>
  BY DEF vars, ledgerVars
<1>2. EffectivelyEnabled' \subseteq EffectivelyEnabled
  BY <1>1, EnabledIs
<1>3. CASE EffectivelyEnabled' = EffectivelyEnabled
  BY <1>1, <1>3 DEF Atomic!vars, Atomic!ledgerVars
<1>4. CASE EffectivelyEnabled' # EffectivelyEnabled
  <2>1. PICK u : u \in EffectivelyEnabled /\ u \notin EffectivelyEnabled'
    BY <1>2, <1>4
  <2>2. Counts(tx[r], u) /\ u \in Users /\ u \in registered
    BY <1>1, <2>1, EnabledIs, EnabledSignedUp
  <2>3. \A v \in EffectivelyEnabled : v # u => v \in EffectivelyEnabled'
    <3>1. \A v : Counts(tx[r], v) => v = u
      BY <2>2 DEF Counts
    <3> QED BY <1>1, <3>1, EnabledIs
  <2>4. EffectivelyEnabled' = EffectivelyEnabled \ {u}
    BY <1>2, <2>1, <2>3
  <2>5. Atomic!SetTradingEnabled(u, FALSE)
    BY <1>1, <2>2, <2>4 DEF Atomic!SetTradingEnabled, Atomic!ledgerVars
  <2> QED BY <2>2, <2>5 DEF Atomic!Next
<1> QED BY <1>3, <1>4

LEMMA AnswerMaps ==
  ASSUME TxIInv, NEW r \in Requests, NEW code, NEW response, Answer(r, code, response)
  PROVE  Atomic!Next \/ UNCHANGED Atomic!vars
<1>1. tx'[r].pc = "answered" /\ \A q \in Requests \ {r} : tx'[q] = tx[q]
  BY DEF TxIInv, Answer, Ended, TxRecords
<1>2. \A u \in Users : ~Counts(tx'[r], u)
  BY <1>1 DEF Counts
<1> QED BY <1>1, <1>2, OwnStepMaps DEF Answer

LEMMA FailMaps ==
  ASSUME TxIInv, NEW r \in Requests, NEW error, Fail(r, error)
  PROVE  Atomic!Next \/ UNCHANGED Atomic!vars
<1>1. CASE Answer(r, error, <<>>)
  BY <1>1, AnswerMaps
<1>2. CASE ~Answer(r, error, <<>>)
  <2>1. /\ tx' = [tx EXCEPT ![r].pc = "begin", ![r].attempt = @ + 1,
                            ![r].view = NoView, ![r].stale = {}]
        /\ UNCHANGED vars
    BY <1>2 DEF Fail
  <2>2. tx'[r].pc = "begin" /\ \A q \in Requests \ {r} : tx'[q] = tx[q]
    BY <2>1 DEF TxIInv, TxRecords
  <2>3. \A u \in Users : ~Counts(tx'[r], u)
    BY <2>2 DEF Counts
  <2> QED BY <2>1, <2>2, <2>3, OwnStepMaps
<1> QED BY <1>1, <1>2

LEMMA GotoMaps ==
  ASSUME TxIInv, NEW r \in Requests, NEW pc, Goto(r, pc), UNCHANGED vars,
         tx[r].pc \in {"claim", "lock", "write"} \/ tx[r].input.op = "RESET"
  PROVE  Atomic!Next \/ UNCHANGED Atomic!vars
<1>1. /\ tx'[r].pc = pc /\ tx'[r].input = tx[r].input /\ tx'[r].view = tx[r].view
      /\ \A q \in Requests \ {r} : tx'[q] = tx[q]
  BY DEF TxIInv, Goto, TxRecords
<1>2. \A u \in Users : Counts(tx'[r], u) => Counts(tx[r], u)
  BY <1>1 DEF Counts
<1> QED BY <1>1, <1>2, OwnStepMaps

LEMMA SubmitMaps ==
  ASSUME TxIInv, NEW r \in Requests, NEW in \in Inputs, Submit(r, in)
  PROVE  Atomic!Next \/ UNCHANGED Atomic!vars
<1>1. tx'[r].pc = "begin" /\ \A q \in Requests \ {r} : tx'[q] = tx[q]
  BY DEF TxIInv, Submit, TxRecords
<1>2. \A u \in Users : ~Counts(tx'[r], u)
  BY <1>1 DEF Counts
<1> QED BY <1>1, <1>2, OwnStepMaps DEF Submit

LEMMA BeginMaps ==
  ASSUME TxIInv, NEW r \in Requests, Begin(r)
  PROVE  Atomic!Next \/ UNCHANGED Atomic!vars
<1>1. tx'[r].view = Snapshot /\ \A q \in Requests \ {r} : tx'[q] = tx[q]
  BY DEF TxIInv, Begin, TxRecords
<1>2. \A u \in Users : Counts(tx'[r], u) => u \in tradingEnabled
  BY <1>1 DEF Counts, Snapshot
<1> QED BY <1>1, <1>2, OwnStepMaps DEF Begin

LEMMA EndMaps ==
  ASSUME TxIInv, NEW r \in Requests, Reply(r) \/ Lose(r)
  PROVE  Atomic!Next \/ UNCHANGED Atomic!vars
<1>1. tx'[r].pc \in {"answered", "lost"} /\ \A q \in Requests \ {r} : tx'[q] = tx[q]
  BY DEF TxIInv, Reply, Lose, TxRecords
<1>2. \A u \in Users : ~Counts(tx'[r], u)
  BY <1>1 DEF Counts
<1> QED BY <1>1, <1>2, OwnStepMaps DEF Reply, Lose

(* The claim, the refusals and the wallet's lock.                          *)
LEMMA ClaimMaps ==
  ASSUME TxIInv, NEW r \in Requests,
         LockAccount(r) \/ Replay(r) \/ Claim(r) \/ Refuse(r) \/ LockWallet(r)
  PROVE  Atomic!Next \/ UNCHANGED Atomic!vars
<1>1. CASE LockAccount(r)
  <2>1. tx[r].pc = "account" /\ Goto(r, "claim") /\ UNCHANGED vars
    BY <1>1 DEF LockAccount
  <2>2. tx[r].input.op = "RESET"
    BY <2>1 DEF TxIInv, InOrder
  <2> QED BY <2>1, <2>2, GotoMaps
<1>2. CASE Replay(r)
  <2>1. \E code, response : Answer(r, code, response)
    BY <1>2 DEF Replay
  <2> QED BY <2>1, AnswerMaps
<1>3. CASE Claim(r)
  <2>1. CASE CommandsFor(tx[r].input, command) = {}
    BY <1>3, <2>1, GotoMaps DEF Claim
  <2>2. CASE CommandsFor(tx[r].input, command) # {}
    BY <1>3, <2>2, FailMaps DEF Claim
  <2> QED BY <2>1, <2>2
<1>4. CASE Refuse(r)
  BY <1>4, AnswerMaps DEF Refuse
<1>5. CASE LockWallet(r)
  <2>1. CASE <<"wallet", tx[r].input.account>> \in tx[r].stale
    BY <1>5, <2>1, FailMaps DEF LockWallet
  <2>2. CASE <<"wallet", tx[r].input.account>> \notin tx[r].stale
    BY <1>5, <2>2, GotoMaps DEF LockWallet
  <2> QED BY <2>1, <2>2
<1> QED BY <1>1, <1>2, <1>3, <1>4, <1>5

(* Who may trade is the same before a commit, or a refusal by the          *)
(* database, as after it.                                                  *)
LEMMA CommitKeepsEnabled ==
  ASSUME TxIInv, NEW r \in Requests, tx[r].pc = "write", NEW rows, NEW response,
         Committed(r, rows, response), tradingEnabled' = tradingEnabled
  PROVE  EffectivelyEnabled' = EffectivelyEnabled
<1>1. tx \in [Requests -> TxRecords]
  BY DEF TxIInv
<1> DEFINE done == [tx[r] EXCEPT !.pc = "committed", !.stale = {},
                                 !.reply = [code |-> "OK", response |-> response]]
           written == rows \cup {<<"command", CommandId(tx[r].input)>>,
                                 <<"stream", Owner(tx[r].input.account)>>}
           behind(q) == [tx[q] EXCEPT !.stale = @ \cup written]
<1>2. /\ done.pc = "committed" /\ done.input = tx[r].input /\ done.view = tx[r].view
      /\ \A q \in Requests : /\ behind(q).pc = tx[q].pc /\ behind(q).input = tx[q].input
                             /\ behind(q).view = tx[q].view
  BY <1>1 DEF TxRecords
<1>3. tx' = [q \in Requests |-> IF q = r THEN done
                                ELSE IF Running(q) THEN behind(q) ELSE tx[q]]
  BY DEF Committed
<1> HIDE DEF done, behind
<1>4. \A q \in Requests : /\ tx'[q].input = tx[q].input /\ tx'[q].view = tx[q].view
                          /\ tx'[q].pc = IF q = r THEN "committed" ELSE tx[q].pc
  BY <1>2, <1>3
<1>5. \A q \in Requests, u \in Users : Counts(tx'[q], u) <=> Counts(tx[q], u)
  BY <1>4 DEF Counts
<1> QED BY <1>5, EnabledIs

LEMMA RefusedKeepsEnabled ==
  ASSUME TxIInv, NEW r \in Requests, tx[r].pc = "write", NEW key, NEW journal,
         RefusedByDatabase(r, key, journal)
  PROVE  EffectivelyEnabled' = EffectivelyEnabled
<1>1. /\ tx'[r].input = tx[r].input /\ tx'[r].view = tx[r].view /\ tx'[r].pc = "refused"
      /\ \A q \in Requests \ {r} : tx'[q] = tx[q]
      /\ tradingEnabled' = tradingEnabled
  BY DEF TxIInv, TxRecords, RefusedByDatabase
<1>2. \A q \in Requests, u \in Users : Counts(tx'[q], u) <=> Counts(tx[q], u)
  BY <1>1 DEF Counts
<1> QED BY <1>1, <1>2, EnabledIs

LEMMA WriteOpenMaps ==
  ASSUME TxIInv, NEW r \in Requests, NEW mid \in MidPrices, WriteOpen(r, mid)
  PROVE  Atomic!Next \/ UNCHANGED Atomic!vars
<1> DEFINE in == tx[r].input
           a == in.account
           p == PositionOf(in)
           exposure == RoundCents(Quote(mid, in.side) * in.quantity)
<1>1. tx[r].pc = "write" /\ in.op = "OPEN"
  BY DEF WriteOpen, MayWrite
<1>2. /\ a \in Accounts /\ in.c \in ClientOrderIds /\ in.side \in Sides
      /\ in.quantity \in Quantities /\ p = <<a, in.c>> /\ Owner(a) \in registered
      /\ Owner(a) \in Users
  BY <1>1, HoldingLock, InputTypes DEF PositionOf
<1>3. CASE Answer(r, "REJECTED", <<>>)
  BY <1>3, AnswerMaps
<1>4. CASE Fail(r, "P2002")
  BY <1>4, FailMaps
<1>5. ASSUME MayPlace(tx[r], exposure) PROVE Atomic!MayOrder(a, in.c, exposure)
  <2>1. Owner(a) \in EffectivelyEnabled
    BY <1>1, <1>2, <1>5, EnabledIs DEF MayPlace, Counts
  <2> HIDE DEF exposure
  <2>2. /\ MayTrade(a)
        /\ ModeOf(a) = "DEMO" => exposure \in MinimumTrade..MaximumTrade
        /\ exposure <= wallet[a].available /\ position[<<a, in.c>>] = NoPosition
    BY <1>2, <1>5 DEF MayPlace
  <2> HIDE DEF in, a
  <2> QED BY <1>2, <2>1, <2>2, SameNames DEF Atomic!MayOrder, MayTrade
<1> HIDE DEF in, a, p, exposure
<1>6. CASE /\ MayPlace(tx[r], exposure)
           /\ RefusedByDatabase(r, <<"order-open", p>>, OpenJournal(a, exposure))
  <2>1. EffectivelyEnabled' = EffectivelyEnabled
    BY <1>1, <1>6, RefusedKeepsEnabled
  <2>2. Atomic!PostRefused(<<"order-open", p>>, Atomic!OpenJournal(a, exposure))
    BY <1>6, SameJournals, SamePosting DEF RefusedByDatabase
  <2>3. Atomic!CreateOrderRefused(a, in.c, in.side, in.quantity, mid)
    BY <1>2, <1>5, <1>6, <2>1, <2>2, SamePrices
    DEF Atomic!CreateOrderRefused, exposure, RefusedByDatabase
  <2> QED BY <1>2, <2>3, SameNames DEF Atomic!Next
<1>7. CASE /\ MayPlace(tx[r], exposure)
           /\ Ordered(a, in.c, in.side, in.quantity, mid)
           /\ Committed(r, {<<"wallet", a>>, <<"position", p>>}, <<"OPENED", p>>)
  <2>1. EffectivelyEnabled' = EffectivelyEnabled
    BY <1>1, <1>7, CommitKeepsEnabled DEF Ordered
  <2>2. /\ Atomic!Post(<<"order-open", <<a, in.c>>>>, Atomic!OpenJournal(a, exposure))
        /\ Atomic!MoveWallet(a, -exposure, exposure)
    BY <1>7, SameJournals, SamePosting, SameMoves DEF Ordered, exposure
  <2>3. /\ position' = [position EXCEPT ![<<a, in.c>>] =
                          [status |-> "OPEN", side |-> in.side, quantity |-> in.quantity,
                           entry |-> Quote(mid, in.side), pnl |-> 0]]
        /\ UNCHANGED <<registered, tradingEnabled>>
    BY <1>7 DEF Ordered
  <2>4. Atomic!CreateOrder(a, in.c, in.side, in.quantity, mid)
    BY <1>5, <1>7, <2>1, <2>2, <2>3, SamePrices DEF Atomic!CreateOrder, exposure
  <2> QED BY <1>2, <2>4, SameNames DEF Atomic!Next
<1> QED BY <1>3, <1>4, <1>6, <1>7, WriteOpenIs DEF in, a, p, exposure

LEMMA WriteCloseMaps ==
  ASSUME TxIInv, NEW r \in Requests, NEW mid \in MidPrices, WriteClose(r, mid)
  PROVE  Atomic!Next \/ UNCHANGED Atomic!vars
<1> DEFINE p == PositionOf(tx[r].input)
           pnl == Pnl(position[p], Quote(mid, Opposite(position[p].side)))
<1>1. tx[r].pc = "write"
  BY DEF WriteClose, MayWrite
<1> HIDE DEF p, pnl
<1>2. /\ p \in Positions
      /\ \/ Answer(r, "LEDGER_PROJECTION_MISMATCH", <<>>) \/ Fail(r, "P2002")
         \/ /\ MayClose(p)
            /\ RefusedByDatabase(r, <<"position-close", p>>,
                                 CloseJournal(AccountOf(p), Notional(position[p]), pnl))
         \/ /\ ClosePosition(p, mid)
            /\ Committed(r, {<<"wallet", AccountOf(p)>>, <<"position", p>>}, <<"CLOSED", p, pnl>>)
  BY WriteCloseIs DEF p, pnl
<1>3. CASE Answer(r, "LEDGER_PROJECTION_MISMATCH", <<>>)
  BY <1>3, AnswerMaps
<1>4. CASE Fail(r, "P2002")
  BY <1>4, FailMaps
<1>5. MayClose(p) => Atomic!MayClose(p)
  BY SameNames, SamePrices DEF MayClose, Atomic!MayClose
<1>6. CASE /\ MayClose(p)
           /\ RefusedByDatabase(r, <<"position-close", p>>,
                                CloseJournal(AccountOf(p), Notional(position[p]), pnl))
  <2>1. EffectivelyEnabled' = EffectivelyEnabled
    BY <1>1, <1>6, RefusedKeepsEnabled
  <2>2. Atomic!PostRefused(<<"position-close", p>>,
                           Atomic!CloseJournal(AccountOf(p), Notional(position[p]), pnl))
    BY <1>6, SameJournals, SamePosting DEF RefusedByDatabase
  <2>3. Atomic!ClosePositionRefused(p, mid)
    BY <1>5, <1>6, <2>1, <2>2, SameNames, SamePrices
    DEF Atomic!ClosePositionRefused, RefusedByDatabase, pnl
  <2> QED BY <1>2, <2>3, SameNames DEF Atomic!Next
<1>7. CASE /\ ClosePosition(p, mid)
           /\ Committed(r, {<<"wallet", AccountOf(p)>>, <<"position", p>>}, <<"CLOSED", p, pnl>>)
  <2>1. EffectivelyEnabled' = EffectivelyEnabled
    BY <1>1, <1>7, CommitKeepsEnabled DEF ClosePosition
  <2>2. /\ MayClose(p)
        /\ Post(<<"position-close", p>>, CloseJournal(AccountOf(p), Notional(position[p]), pnl))
        /\ MoveWallet(AccountOf(p), Notional(position[p]) + pnl, -Notional(position[p]))
        /\ position' = [position EXCEPT ![p].status = "CLOSED", ![p].pnl = pnl]
        /\ UNCHANGED <<registered, tradingEnabled>>
    BY <1>7 DEF ClosePosition, pnl
  <2>3. /\ Atomic!Post(<<"position-close", p>>,
                       Atomic!CloseJournal(AccountOf(p), Notional(position[p]), pnl))
        /\ Atomic!MoveWallet(AccountOf(p), Notional(position[p]) + pnl, -Notional(position[p]))
    BY <2>2, SameJournals, SamePosting, SameMoves
  <2>4. Atomic!ClosePosition(p, mid)
    BY <1>5, <2>1, <2>2, <2>3, SameNames, SamePrices DEF Atomic!ClosePosition, pnl
  <2> QED BY <1>2, <2>4, SameNames DEF Atomic!Next
<1> QED BY <1>2, <1>3, <1>4, <1>6, <1>7

LEMMA ResetMaps ==
  ASSUME NEW u \in Users, NEW key \in ResetKeys, ResetDemo(u, key),
         EffectivelyEnabled' = EffectivelyEnabled
  PROVE  Atomic!Next
<1> DEFINE a == <<u, "DEMO">>
           difference == DemoInitialBalance - wallet[a].available
<1>1. /\ u \in registered /\ OpenPositions(a) = {} /\ wallet[a].locked = 0
      /\ balance[Available(a)] = wallet[a].available /\ difference # 0
      /\ Post(<<"demo-reset", u, key>>, ResetJournal(a, difference))
      /\ MoveWallet(a, difference, 0)
      /\ UNCHANGED <<registered, tradingEnabled, position>>
  BY DEF ResetDemo
<1>2. /\ Atomic!Post(<<"demo-reset", u, key>>, Atomic!ResetJournal(a, difference))
      /\ Atomic!MoveWallet(a, difference, 0)
  <2> HIDE DEF a, difference
  <2> QED BY <1>1, SameJournals, SamePosting, SameMoves
<1>3. Atomic!ResetDemo(u, key)
  BY <1>1, <1>2, SameNames DEF Atomic!ResetDemo
<1> QED BY <1>3 DEF Atomic!Next

LEMMA WriteResetMaps ==
  ASSUME TxIInv, NEW r \in Requests, WriteReset(r)
  PROVE  Atomic!Next \/ UNCHANGED Atomic!vars
<1> DEFINE in == tx[r].input
           a == in.account
           difference == DemoInitialBalance - wallet[a].available
<1>1. tx[r].pc = "write"
  BY DEF WriteReset, MayWrite
<1>2. in.key \in ResetKeys /\ Owner(a) \in Users
  BY <1>1, HoldingLock, InputTypes
<1> HIDE DEF in, a, difference
<1>3. \/ Answer(r, "DEMO_RESET_BLOCKED", <<>>)
      \/ Answer(r, "LEDGER_RECONCILIATION_FAILED", <<>>)
      \/ /\ UNCHANGED vars \/ ResetDemo(Owner(a), in.key)
         /\ Committed(r, {<<"wallet", a>>}, <<"RESET", difference>>)
  BY WriteResetIs DEF in, a, difference
<1>4. CASE \E code : Answer(r, code, <<>>)
  BY <1>4, AnswerMaps
<1>5. CASE UNCHANGED vars /\ Committed(r, {<<"wallet", a>>}, <<"RESET", difference>>)
  <2>1. EffectivelyEnabled' = EffectivelyEnabled
    BY <1>1, <1>5, CommitKeepsEnabled DEF vars
  <2> QED BY <1>5, <2>1 DEF vars, ledgerVars, Atomic!vars, Atomic!ledgerVars
<1>6. CASE /\ ResetDemo(Owner(a), in.key)
           /\ Committed(r, {<<"wallet", a>>}, <<"RESET", difference>>)
  <2>1. EffectivelyEnabled' = EffectivelyEnabled
    BY <1>1, <1>6, CommitKeepsEnabled DEF ResetDemo
  <2> QED BY <1>2, <1>6, <2>1, ResetMaps
<1> QED BY <1>3, <1>4, <1>5, <1>6

LEMMA OthersMap ==
  ASSUME TxIInv,
         \/ \E u \in Users : SignUp(u) \/ \E on \in BOOLEAN : AdminSetTrading(u, on)
         \/ UNCHANGED txVars
  PROVE  Atomic!Next \/ UNCHANGED Atomic!vars
<1>1. ASSUME NEW u \in Users, SignUp(u) PROVE Atomic!Next
  <2>1. /\ u \notin registered /\ Post(<<"demo-funding", u>>, FundingJournal(u))
        /\ MoveWallet(<<u, "DEMO">>, DemoInitialBalance, 0)
        /\ registered' = registered \cup {u} /\ tradingEnabled' = tradingEnabled \cup {u}
        /\ position' = position /\ tx' = tx
    BY <1>1 DEF SignUp, Register
  <2>2. EffectivelyEnabled' = EffectivelyEnabled \cup {u}
    BY <2>1, EnabledIs
  <2>3. Atomic!Register(u)
    BY <2>1, <2>2, SameJournals, SamePosting, SameMoves DEF Atomic!Register
  <2> QED BY <2>3 DEF Atomic!Next
<1>2. ASSUME NEW u \in Users, NEW on \in BOOLEAN, AdminSetTrading(u, on)
      PROVE  Atomic!Next \/ UNCHANGED Atomic!vars
  <2>1. /\ u \in registered /\ UNCHANGED <<wallet, balance, posted, refused, registered, position>>
        /\ tradingEnabled' = IF on THEN tradingEnabled \cup {u} ELSE tradingEnabled \ {u}
        /\ tx' = tx
    BY <1>2 DEF AdminSetTrading, SetTradingEnabled, ledgerVars
  <2>2. CASE EffectivelyEnabled' = EffectivelyEnabled
    BY <2>1, <2>2 DEF Atomic!vars, Atomic!ledgerVars
  <2>3. CASE EffectivelyEnabled' # EffectivelyEnabled
    <3>1. CASE on
      <4>1. EffectivelyEnabled' = EffectivelyEnabled \cup {u}
        BY <2>1, <3>1, EnabledIs
      <4>2. Atomic!SetTradingEnabled(u, on)
        BY <2>1, <3>1, <4>1 DEF Atomic!SetTradingEnabled, Atomic!ledgerVars
      <4> QED BY <4>2 DEF Atomic!Next
    <3>2. CASE ~on
      <4>1. EffectivelyEnabled' = EffectivelyEnabled \ {u}
        <5>1. \A v \in EffectivelyEnabled : v # u => v \in EffectivelyEnabled'
          BY <2>1, <3>2, EnabledIs
        <5>2. EffectivelyEnabled' \subseteq EffectivelyEnabled
          BY <2>1, <3>2, EnabledIs
        <5>3. u \notin EffectivelyEnabled'
          BY <2>3, <5>1, <5>2
        <5> QED BY <5>1, <5>2, <5>3
      <4>2. Atomic!SetTradingEnabled(u, on)
        BY <2>1, <3>2, <4>1 DEF Atomic!SetTradingEnabled, Atomic!ledgerVars
      <4> QED BY <4>2 DEF Atomic!Next
    <3> QED BY <3>1, <3>2
  <2> QED BY <2>2, <2>3
<1>3. ASSUME UNCHANGED txVars PROVE UNCHANGED Atomic!vars
  <2>1. UNCHANGED <<wallet, balance, posted, refused, registered, tradingEnabled, position, tx>>
    BY <1>3 DEF txVars, vars, ledgerVars
  <2>2. EffectivelyEnabled' = EffectivelyEnabled
    BY <2>1, EnabledIs
  <2> QED BY <2>1, <2>2 DEF Atomic!vars, Atomic!ledgerVars
<1> QED BY <1>1, <1>2, <1>3

LEMMA TxInitMaps == TxInit => Atomic!Init
<1> SUFFICES ASSUME TxInit PROVE Atomic!Init
  OBVIOUS
<1>1. /\ wallet = [a \in Accounts |-> [available |-> 0, locked |-> 0]]
      /\ balance = [l \in LedgerAccounts |-> 0] /\ posted = {} /\ refused = {}
      /\ registered = {} /\ tradingEnabled = {} /\ position = [p \in Positions |-> NoPosition]
  BY DEF TxInit, Init, LedgerInit
<1>2. \A r \in Requests : tx[r].pc = "idle"
  BY DEF TxInit
<1>3. EffectivelyEnabled = {}
  BY <1>1, <1>2, EnabledIs DEF Counts
<1> QED BY <1>1, <1>3, SameNames, SameLedger DEF Atomic!Init, Atomic!LedgerInit

LEMMA TxNextMaps == TxIInv /\ [TxNext]_txVars => [Atomic!Next]_Atomic!vars
<1> SUFFICES ASSUME TxIInv, [TxNext]_txVars PROVE Atomic!Next \/ UNCHANGED Atomic!vars
  OBVIOUS
<1>1. CASE \/ \E u \in Users : SignUp(u) \/ \E on \in BOOLEAN : AdminSetTrading(u, on)
           \/ UNCHANGED txVars
  BY <1>1, OthersMap
<1>2. ASSUME NEW r \in Requests, \E in \in Inputs : Submit(r, in)
      PROVE  Atomic!Next \/ UNCHANGED Atomic!vars
  BY <1>2, SubmitMaps
<1>3. ASSUME NEW r \in Requests, Serve(r) PROVE Atomic!Next \/ UNCHANGED Atomic!vars
  <2>1. CASE Begin(r)
    BY <2>1, BeginMaps
  <2>2. CASE LockAccount(r) \/ Replay(r) \/ Claim(r) \/ Refuse(r) \/ LockWallet(r)
    BY <2>2, ClaimMaps
  <2>3. CASE WriteReset(r)
    BY <2>3, WriteResetMaps
  <2>4. CASE \E mid \in MidPrices : WriteOpen(r, mid) \/ WriteClose(r, mid)
    BY <2>4, WriteOpenMaps, WriteCloseMaps
  <2>5. CASE Reply(r)
    BY <2>5, EndMaps
  <2> QED BY <1>3, <2>1, <2>2, <2>3, <2>4, <2>5 DEF Serve
<1>4. ASSUME NEW r \in Requests, Lose(r) PROVE Atomic!Next \/ UNCHANGED Atomic!vars
  BY <1>4, EndMaps
<1>5. ASSUME NEW r \in Requests,
             SerializationFailure(r) \/ \E q \in Requests : BreakDeadlock(r, q)
      PROVE  Atomic!Next \/ UNCHANGED Atomic!vars
  BY <1>5, FailMaps DEF SerializationFailure, BreakDeadlock
<1> QED BY <1>1, <1>2, <1>3, <1>4, <1>5 DEF TxNext

(* However the statements of concurrent, retried and lost requests         *)
(* interleave, money and positions move as one command at a time would     *)
(* move them: Transactions implements Trading.                             *)
THEOREM TransactionsImplementTrading == TxSpec => AtomicCommands
<1>1. TxInit => Atomic!Init
  BY TxInitMaps
<1>2. TxIInv /\ [TxNext]_txVars => [Atomic!Next]_Atomic!vars
  BY TxNextMaps
<1> QED BY <1>1, <1>2, TxInvariance, PTL DEF TxSpec, AtomicCommands, Atomic!Spec

(* Each command is done once, however often and concurrently it is sent:   *)
(* one answer for all who ask, one event for all who listen.               *)
THEOREM EachCommandOnce == TxSpec => []DoneOnce
<1>1. TxIInv => DoneOnce
  BY DEF TxIInv
<1> QED BY <1>1, TxInvariance, PTL

(* So what is true of the books after every command of Trading is true     *)
(* between any two statements of its transactions.                         *)
THEOREM InterleavedBooks ==
  TxSpec => [](BooksInOrder /\ LockedBacksPositions /\ JournalsMatchPositions)
<1>1. TxIInv => BooksInOrder /\ LockedBacksPositions /\ JournalsMatchPositions
  BY DEF TxIInv, IInv, BooksInOrder
<1> QED BY <1>1, TxInvariance, PTL

(* Every state of the interleaved transactions is well formed.             *)
THEOREM TxTypeCorrect == TxSpec => []TxTypeOK
<1>1. TxIInv => TxTypeOK
  <2> SUFFICES ASSUME TxIInv PROVE TxTypeOK
    OBVIOUS
  <2>1. ASSUME NEW r \in Requests
        PROVE  /\ tx[r].pc # "idle" => tx[r].input \in Inputs
               /\ Running(r) => tx[r].view \in Views
               /\ ~Running(r) => tx[r].stale = {}
    BY DEF TxIInv, InOrder, ViewHolds, Running, InFlight
  <2> QED BY <2>1 DEF TxIInv, TxTypeOK
<1> QED BY <1>1, TxInvariance, PTL

-----------------------------------------------------------------------------
(* What a step may do to the transactions.                                 *)
StepKind(r) ==
  \/ \E in \in Inputs : Submit(r, in)
  \/ Begin(r)
  \/ /\ InFlight(tx[r]) /\ command' = command
     /\ \E pc \in {"claim", "lock", "write"} : Goto(r, pc)
  \/ /\ tx[r].pc # "idle"
     /\ \E code \in Codes \ {"40001"} : \E response : Answer(r, code, response)
  \/ /\ InFlight(tx[r])
     /\ \E error \in {"40001", "40P01", "P2002"} :
          /\ Fail(r, error)
          /\ error = "40001" => \/ tx[r].view.command # command
                                \/ \E q \in Requests : Deadlock(q, r)
  \/ tx[r].pc = "write" /\ \E rows, response : Committed(r, rows, response)
  \/ tx[r].pc = "write" /\ \E key, journal : RefusedByDatabase(r, key, journal)
  \/ Reply(r) \/ Lose(r)

LEMMA WriteKinds ==
  ASSUME TxIInv, NEW r \in Requests,
         WriteReset(r) \/ \E mid \in MidPrices : WriteOpen(r, mid) \/ WriteClose(r, mid)
  PROVE  StepKind(r)
<1>1. tx[r].pc = "write" /\ InFlight(tx[r]) /\ "P2002" # "40001"
  BY DEF WriteReset, WriteOpen, WriteClose, MayWrite, InFlight
<1>2. CASE WriteReset(r)
  <2> DEFINE in == tx[r].input
             difference == DemoInitialBalance - wallet[in.account].available
  <2>1. \/ Answer(r, "DEMO_RESET_BLOCKED", <<>>)
        \/ Answer(r, "LEDGER_RECONCILIATION_FAILED", <<>>)
        \/ Committed(r, {<<"wallet", in.account>>}, <<"RESET", difference>>)
    BY <1>2, WriteResetIs
  <2> HIDE DEF in, difference
  <2> QED BY <1>1, <2>1 DEF StepKind, Codes
<1>3. ASSUME NEW mid \in MidPrices, WriteOpen(r, mid) PROVE StepKind(r)
  <2> DEFINE in == tx[r].input
             exposure == RoundCents(Quote(mid, in.side) * in.quantity)
  <2>1. \/ Answer(r, "REJECTED", <<>>) \/ Fail(r, "P2002")
        \/ \E key, journal : RefusedByDatabase(r, key, journal)
        \/ \E rows, response : Committed(r, rows, response)
    BY <1>3, WriteOpenIs
  <2> QED BY <1>1, <2>1 DEF StepKind, Codes
<1>4. ASSUME NEW mid \in MidPrices, WriteClose(r, mid) PROVE StepKind(r)
  <2> DEFINE p == PositionOf(tx[r].input)
             pnl == Pnl(position[p], Quote(mid, Opposite(position[p].side)))
  <2>1. \/ Answer(r, "LEDGER_PROJECTION_MISMATCH", <<>>) \/ Fail(r, "P2002")
        \/ \E key, journal : RefusedByDatabase(r, key, journal)
        \/ \E rows, response : Committed(r, rows, response)
    BY <1>4, WriteCloseIs
  <2> QED BY <1>1, <2>1 DEF StepKind, Codes
<1> QED BY <1>2, <1>3, <1>4

(* Before the last statements.                                             *)
LEMMA ReadKinds ==
  ASSUME TxIInv, NEW r \in Requests,
         LockAccount(r) \/ Replay(r) \/ Claim(r) \/ Refuse(r) \/ LockWallet(r)
  PROVE  StepKind(r)
<1>1. /\ InFlight(tx[r]) /\ tx[r].pc # "idle" /\ InOrder(tx[r]) /\ ViewHolds(tx[r])
      /\ tx[r].input \in Inputs
  BY DEF TxIInv, InOrder, InFlight, LockAccount, Replay, Claim, Refuse, LockWallet
<1>2. CASE LockAccount(r)
  BY <1>1, <1>2 DEF StepKind, LockAccount
<1>3. CASE Replay(r)
  BY <1>1, <1>3 DEF StepKind, Replay, Codes
<1>4. CASE Claim(r)
  <2>1. CASE CommandsFor(tx[r].input, command) = {}
    BY <1>1, <1>4, <2>1 DEF StepKind, Claim
  <2>2. CASE CommandsFor(tx[r].input, command) # {}
    <3>1. tx[r].view.command # command
      BY <1>4, <2>2 DEF Claim
    <3>2. PICK error \in {"40001", "P2002"} : Fail(r, error)
      BY <1>4, <2>2 DEF Claim
    <3> QED BY <1>1, <3>1, <3>2 DEF StepKind
  <2> QED BY <2>1, <2>2
<1>5. CASE Refuse(r)
  <2> DEFINE code == Refusal(tx[r].input, tx[r].view)
  <2>1. code \in Codes \ {"40001"}
    BY <1>1, InputTypes DEF Refusal, Codes
  <2>2. Answer(r, code, <<>>)
    BY <1>5 DEF Refuse
  <2> HIDE DEF code
  <2> QED BY <1>1, <2>1, <2>2 DEF StepKind
<1>6. CASE LockWallet(r)
  <2>1. CASE <<"wallet", tx[r].input.account>> \in tx[r].stale
    <3>1. tx[r].view.command # command
      BY <1>1, <2>1 DEF ViewHolds
    <3>2. Fail(r, "40001")
      BY <1>6, <2>1 DEF LockWallet
    <3> QED BY <1>1, <3>1, <3>2 DEF StepKind
  <2>2. CASE <<"wallet", tx[r].input.account>> \notin tx[r].stale
    BY <1>1, <1>6, <2>2 DEF StepKind, LockWallet
  <2> QED BY <2>1, <2>2
<1> QED BY <1>2, <1>3, <1>4, <1>5, <1>6

LEMMA StepKinds ==
  ASSUME TxIInv, [TxNext]_txVars
  PROVE  UNCHANGED <<command, tx>> \/ \E r \in Requests : StepKind(r)
<1>1. CASE \/ \E u \in Users : SignUp(u) \/ \E on \in BOOLEAN : AdminSetTrading(u, on)
           \/ UNCHANGED txVars
  BY <1>1 DEF SignUp, AdminSetTrading, txVars
<1>2. ASSUME NEW r \in Requests,
             \/ \E in \in Inputs : Submit(r, in)
             \/ Begin(r) \/ Reply(r) \/ Lose(r)
      PROVE  StepKind(r)
  BY <1>2 DEF StepKind
<1>3. ASSUME NEW r \in Requests, Serve(r) PROVE StepKind(r)
  BY <1>2, <1>3, ReadKinds, WriteKinds DEF Serve
<1>4. ASSUME NEW r \in Requests, SerializationFailure(r) PROVE StepKind(r)
  <2>1. InFlight(tx[r]) /\ tx[r].stale # {} /\ Fail(r, "40001")
    BY <1>4 DEF SerializationFailure, Running, InFlight
  <2>2. tx[r].view.command # command
    BY <2>1 DEF TxIInv, InOrder, ViewHolds
  <2> QED BY <2>1, <2>2 DEF StepKind
<1>5. ASSUME NEW r \in Requests, NEW q \in Requests, BreakDeadlock(r, q)
      PROVE  StepKind(r) \/ StepKind(q)
  <2>1. Deadlock(r, q) /\ InFlight(tx[r]) /\ InFlight(tx[q])
    BY <1>5 DEF BreakDeadlock, Deadlock, InFlight
  <2>2. CASE Fail(q, "40001")
    BY <2>1, <2>2 DEF StepKind
  <2>3. CASE Fail(r, "40P01")
    BY <2>1, <2>3 DEF StepKind
  <2> QED BY <1>5, <2>2, <2>3 DEF BreakDeadlock
<1> QED BY <1>1, <1>2, <1>3, <1>4, <1>5 DEF TxNext

-----------------------------------------------------------------------------
(* Failed attempts are owed to other requests' commits: while nobody       *)
(* resets, whoever starts over has seen more commands completed each time, *)
(* and as many requests have ended as commands are completed.              *)
NoResets(state) == \A r \in Requests : state[r].pc # "idle" => state[r].input.op # "RESET"

Owes(t) ==
  /\ t.pc = "begin" => t.attempt - 1 <= Cardinality(command)
  /\ InFlight(t) => t.attempt - 1 <= Cardinality(t.view.command)
  /\ t.reply.code # "40001"

IsDone(t) == t.pc \in {"committed", "refused", "answered", "lost"}
AllDone(state) == {r \in Requests : IsDone(state[r])}

AttemptsOwed ==
  NoResets(tx) => /\ \A r \in Requests : Owes(tx[r])
                  /\ Cardinality(command) <= Cardinality(AllDone(tx))

(* What a request asks for never changes.                                  *)
LEMMA InputsStay ==
  ASSUME TxIInv, NEW r \in Requests, StepKind(r), NEW q \in Requests, tx[q].pc # "idle"
  PROVE  tx'[q].pc # "idle" /\ tx'[q].input = tx[q].input
<1>1. tx \in [Requests -> TxRecords]
  BY DEF TxIInv
<1>2. CASE \/ Begin(r) \/ Reply(r) \/ Lose(r) \/ \E in \in Inputs : Submit(r, in)
  <2>1. CASE Begin(r)
    <3> DEFINE stage == IF tx[r].input.op = "RESET" THEN "account" ELSE "claim"
    <3>1. stage # "idle" /\ tx' = [tx EXCEPT ![r].pc = stage, ![r].view = Snapshot]
      BY <2>1 DEF Begin
    <3> HIDE DEF stage
    <3>2. CASE q = r
      <4>1. tx'[r].pc = stage /\ tx'[r].input = tx[r].input
        BY <1>1, <3>1 DEF TxRecords
      <4> QED BY <3>1, <3>2, <4>1
    <3>3. CASE q # r
      BY <1>1, <3>1, <3>3
    <3> QED BY <3>2, <3>3
  <2>2. CASE Reply(r) \/ Lose(r)
    <3>1. /\ tx'[r].pc \in {"answered", "lost"} /\ tx'[r].input = tx[r].input
          /\ \A p \in Requests \ {r} : tx'[p] = tx[p]
      BY <1>1, <2>2 DEF TxRecords, Reply, Lose
    <3> QED BY <3>1
  <2>3. ASSUME NEW in \in Inputs, Submit(r, in) PROVE r # q
    BY <2>3 DEF Submit
  <2>4. ASSUME NEW in \in Inputs, Submit(r, in) PROVE tx'[q] = tx[q]
    BY <1>1, <2>3, <2>4 DEF Submit
  <2> QED BY <1>2, <2>1, <2>2, <2>4
<1>3. CASE \E pc \in {"claim", "lock", "write"} : Goto(r, pc)
  BY <1>1, <1>3 DEF TxRecords, Goto
<1>4. ASSUME NEW code, NEW response, Answer(r, code, response)
      PROVE  tx'[q].pc # "idle" /\ tx'[q].input = tx[q].input
  BY <1>1, <1>4 DEF TxRecords, Answer, Ended
<1>5. ASSUME NEW error, Fail(r, error) PROVE tx'[q].pc # "idle" /\ tx'[q].input = tx[q].input
  <2>1. CASE Answer(r, error, <<>>)
    BY <1>4, <2>1
  <2>2. CASE ~Answer(r, error, <<>>)
    <3>1. tx' = [tx EXCEPT ![r].pc = "begin", ![r].attempt = @ + 1,
                           ![r].view = NoView, ![r].stale = {}]
      BY <1>5, <2>2 DEF Fail
    <3> QED BY <1>1, <3>1 DEF TxRecords
  <2> QED BY <2>1, <2>2
<1>6. ASSUME NEW rows, NEW response, Committed(r, rows, response)
      PROVE  tx'[q].pc # "idle" /\ tx'[q].input = tx[q].input
  BY <1>1, <1>6 DEF TxRecords, Committed
<1>7. ASSUME NEW key, NEW journal, RefusedByDatabase(r, key, journal)
      PROVE  tx'[q].pc # "idle" /\ tx'[q].input = tx[q].input
  BY <1>1, <1>7 DEF TxRecords, RefusedByDatabase
<1> QED BY <1>2, <1>3, <1>4, <1>5, <1>6, <1>7 DEF StepKind

(* An own step after which the request still owes what it should.          *)
LEMMA OwnStepOwed ==
  ASSUME TxIInv, \A q \in Requests : Owes(tx[q]),
         Cardinality(command) <= Cardinality(AllDone(tx)),
         NEW r \in Requests, command' = command, \A q \in Requests \ {r} : tx'[q] = tx[q],
         Owes(tx'[r]), IsDone(tx[r]) => IsDone(tx'[r])
  PROVE  AttemptsOwed'
<1>1. \A q \in Requests : Owes(tx[q])'
  BY DEF Owes
<1>2. AllDone(tx) \subseteq AllDone(tx') /\ AllDone(tx') \subseteq Requests
  BY DEF AllDone
<1>3. IsFiniteSet(AllDone(tx')) /\ IsFiniteSet(AllDone(tx))
  BY <1>2, FS_Subset, TransactionsAssumption
<1>4. Cardinality(AllDone(tx)) <= Cardinality(AllDone(tx'))
  BY <1>2, <1>3, FS_Subset
<1>5. Cardinality(command) \in Nat
  BY FS_CardinalityType DEF TxIInv
<1>6. Cardinality(command) <= Cardinality(AllDone(tx'))
  BY <1>3, <1>4, <1>5, FS_CardinalityType
<1> QED BY <1>1, <1>6 DEF AttemptsOwed

(* A commit pays what every attempt that fails because of it owes.         *)
LEMMA CommittedOwed ==
  ASSUME TxIInv, \A q \in Requests : Owes(tx[q]),
         Cardinality(command) <= Cardinality(AllDone(tx)),
         NEW r \in Requests, tx[r].pc = "write", NEW rows, NEW response,
         Committed(r, rows, response)
  PROVE  AttemptsOwed'
<1> DEFINE new == [input |-> tx[r].input, response |-> response]
           written == rows \cup {<<"command", CommandId(tx[r].input)>>,
                                 <<"stream", Owner(tx[r].input.account)>>}
<1>1. tx \in [Requests -> TxRecords] /\ IsFiniteSet(command) /\ command \subseteq Commands
  BY DEF TxIInv
<1>2. CommandsFor(tx[r].input, command) = {} /\ command' = command \cup {new}
  BY DEF TxIInv, InOrder, Claimed, Committed
<1>3. new \notin command
  BY <1>2 DEF CommandsFor
<1>4. /\ Cardinality(command') = Cardinality(command) + 1
      /\ Cardinality(command) \in Nat
  BY <1>1, <1>2, <1>3, FS_AddElement, FS_CardinalityType
<1>5. /\ tx'[r].pc = "committed" /\ tx'[r].reply.code = "OK"
      /\ \A q \in Requests \ {r} :
           /\ tx'[q].pc = tx[q].pc /\ tx'[q].attempt = tx[q].attempt
           /\ tx'[q].view = tx[q].view /\ tx'[q].reply = tx[q].reply
  <2>1. tx' = [q \in Requests |->
                 IF q = r THEN [tx[q] EXCEPT !.pc = "committed", !.stale = {},
                                             !.reply = [code |-> "OK", response |-> response]]
                 ELSE IF Running(q) THEN [tx[q] EXCEPT !.stale = @ \cup written]
                 ELSE tx[q]]
    BY DEF Committed
  <2> HIDE DEF written
  <2> QED BY <1>1, <2>1 DEF TxRecords
<1>6. ASSUME NEW q \in Requests PROVE Owes(tx[q])'
  <2>1. CASE q = r
    BY <1>5, <2>1 DEF Owes, InFlight
  <2>2. CASE q # r
    <3>1. tx[q].attempt \in Int
      BY <1>1, RecordTypes, TransactionsAssumption
    <3>2. Owes(tx[q])
      OBVIOUS
    <3> QED BY <1>4, <1>5, <2>2, <3>1, <3>2 DEF Owes, InFlight
  <2> QED BY <2>1, <2>2
<1>7. Cardinality(command') <= Cardinality(AllDone(tx'))
  <2>1. AllDone(tx') = AllDone(tx) \cup {r} /\ r \notin AllDone(tx)
    BY <1>5 DEF AllDone, IsDone
  <2>2. IsFiniteSet(AllDone(tx))
    BY FS_Subset, TransactionsAssumption DEF AllDone
  <2>3. Cardinality(AllDone(tx')) = Cardinality(AllDone(tx)) + 1
    BY <2>1, <2>2, FS_AddElement
  <2> QED BY <1>4, <2>2, <2>3, FS_CardinalityType
<1> QED BY <1>6, <1>7 DEF AttemptsOwed

(* A failure starts over, because fewer others have ended than there are   *)
(* attempts.                                                               *)
LEMMA FailOwed ==
  ASSUME TxIInv, NoResets(tx), \A q \in Requests : Owes(tx[q]),
         Cardinality(command) <= Cardinality(AllDone(tx)),
         Cardinality(Requests) <= MaxAttempts,
         NEW r \in Requests, InFlight(tx[r]),
         NEW error \in {"40001", "40P01", "P2002"}, Fail(r, error),
         error = "40001" => tx[r].view.command # command
  PROVE  AttemptsOwed'
<1>1. /\ tx \in [Requests -> TxRecords] /\ tx[r] \in TxRecords /\ tx[r].input.op # "RESET"
      /\ IsFiniteSet(command)
  BY DEF TxIInv, NoResets, InFlight
<1>2. CASE error # "40001"
  <2>1. Answer(r, error, <<>>)
    BY <1>1, <1>2 DEF Fail, Retryable
  <2>2. /\ tx'[r].pc = "answered" /\ tx'[r].reply.code = error
        /\ \A q \in Requests \ {r} : tx'[q] = tx[q]
    BY <1>1, <2>1 DEF Answer, Ended, TxRecords
  <2>3. Owes(tx'[r]) /\ IsDone(tx'[r]) /\ command' = command
    BY <1>2, <2>1, <2>2 DEF Owes, InFlight, IsDone, Answer
  <2> QED BY <2>2, <2>3, OwnStepOwed
<1>3. CASE error = "40001"
  <2> DEFINE seen == tx[r].view.command
             attempt == tx[r].attempt
  <2>1. /\ attempt \in Nat /\ attempt - 1 <= Cardinality(seen)
        /\ seen \subseteq command /\ seen # command
    <3>1. attempt \in Nat
      BY <1>1, RecordTypes, TransactionsAssumption
    <3>2. ViewHolds(tx[r])
      BY DEF TxIInv, InOrder
    <3> QED BY <1>3, <3>1, <3>2 DEF Owes, ViewHolds
  <2>2. /\ Cardinality(seen) \in Nat /\ Cardinality(command) \in Nat
        /\ Cardinality(seen) < Cardinality(command)
    <3>1. /\ IsFiniteSet(seen) /\ Cardinality(seen) <= Cardinality(command)
          /\ Cardinality(seen) # Cardinality(command)
      BY <1>1, <2>1, FS_Subset
    <3> QED BY <1>1, <3>1, FS_CardinalityType
  <2>3. Cardinality(AllDone(tx)) < Cardinality(Requests) /\ Cardinality(AllDone(tx)) \in Nat
    <3>1. AllDone(tx) \subseteq Requests /\ r \notin AllDone(tx)
      BY DEF AllDone, IsDone, InFlight
    <3>2. /\ IsFiniteSet(AllDone(tx)) /\ Cardinality(AllDone(tx)) <= Cardinality(Requests)
          /\ Cardinality(AllDone(tx)) # Cardinality(Requests)
      BY <3>1, FS_Subset, TransactionsAssumption
    <3> QED BY <3>2, FS_CardinalityType, TransactionsAssumption
  <2>4. Cardinality(Requests) \in Nat
    BY FS_CardinalityType, TransactionsAssumption
  <2> HIDE DEF seen, attempt
  <2>5. attempt < MaxAttempts /\ (attempt + 1) - 1 <= Cardinality(command)
    BY <2>1, <2>2, <2>3, <2>4, TransactionsAssumption
  <2>6. /\ tx' = [tx EXCEPT ![r].pc = "begin", ![r].attempt = @ + 1,
                            ![r].view = NoView, ![r].stale = {}]
        /\ command' = command
    BY <1>3, <2>5 DEF Fail, Retryable, attempt
  <2>7. /\ tx'[r].pc = "begin" /\ tx'[r].attempt = attempt + 1 /\ tx'[r].reply = tx[r].reply
        /\ \A q \in Requests \ {r} : tx'[q] = tx[q]
    BY <1>1, <2>6 DEF TxRecords, attempt
  <2>8. Owes(tx'[r]) /\ ~IsDone(tx[r])
    BY <2>5, <2>7 DEF Owes, InFlight, IsDone
  <2> QED BY <2>6, <2>7, <2>8, OwnStepOwed
<1> QED BY <1>2, <1>3

LEMMA StepOwed ==
  ASSUME TxIInv, NoResets(tx), \A q \in Requests : Owes(tx[q]),
         Cardinality(command) <= Cardinality(AllDone(tx)),
         Cardinality(Requests) <= MaxAttempts,
         NEW r \in Requests, StepKind(r)
  PROVE  AttemptsOwed'
<1>1. /\ tx \in [Requests -> TxRecords] /\ tx[r] \in TxRecords /\ Owes(tx[r])
      /\ IsFiniteSet(command) /\ Cardinality(command) \in Nat
  BY FS_CardinalityType DEF TxIInv
<1>2. ASSUME NEW in \in Inputs, Submit(r, in) PROVE AttemptsOwed'
  <2>1. /\ tx'[r].pc = "begin" /\ tx'[r].attempt = 1 /\ tx'[r].reply = tx[r].reply
        /\ \A q \in Requests \ {r} : tx'[q] = tx[q]
        /\ command' = command /\ tx[r].pc = "idle"
    BY <1>1, <1>2 DEF Submit, TxRecords
  <2>2. Owes(tx'[r]) /\ ~IsDone(tx[r])
    BY <1>1, <2>1 DEF Owes, InFlight, IsDone
  <2> QED BY <2>1, <2>2, OwnStepOwed
<1>3. CASE Begin(r)
  <2>1. /\ tx'[r].attempt = tx[r].attempt /\ tx'[r].reply = tx[r].reply
        /\ tx'[r].view.command = command /\ tx'[r].pc \in {"account", "claim"}
        /\ \A q \in Requests \ {r} : tx'[q] = tx[q]
        /\ command' = command /\ tx[r].pc = "begin"
    BY <1>1, <1>3 DEF Begin, Snapshot, TxRecords
  <2>2. Owes(tx'[r]) /\ ~IsDone(tx[r])
    BY <1>1, <2>1 DEF Owes, IsDone
  <2> QED BY <2>1, <2>2, OwnStepOwed
<1>4. ASSUME NEW pc \in {"claim", "lock", "write"}, Goto(r, pc), InFlight(tx[r]),
             command' = command
      PROVE  AttemptsOwed'
  <2>1. /\ tx'[r].pc = pc /\ tx'[r].attempt = tx[r].attempt /\ tx'[r].reply = tx[r].reply
        /\ tx'[r].view = tx[r].view /\ \A q \in Requests \ {r} : tx'[q] = tx[q]
    BY <1>1, <1>4 DEF Goto, TxRecords
  <2>2. Owes(tx'[r]) /\ ~IsDone(tx[r])
    BY <1>1, <1>4, <2>1 DEF Owes, InFlight, IsDone
  <2> QED BY <1>4, <2>1, <2>2, OwnStepOwed
<1>5. ASSUME NEW code \in Codes \ {"40001"}, NEW response, Answer(r, code, response)
      PROVE  AttemptsOwed'
  <2>1. /\ tx'[r].pc = "answered" /\ tx'[r].reply.code = code /\ command' = command
        /\ \A q \in Requests \ {r} : tx'[q] = tx[q]
    BY <1>1, <1>5 DEF Answer, Ended, TxRecords
  <2>2. Owes(tx'[r]) /\ IsDone(tx'[r])
    BY <1>5, <2>1 DEF Owes, InFlight, IsDone
  <2> QED BY <2>1, <2>2, OwnStepOwed
<1>6. ASSUME NEW error \in {"40001", "40P01", "P2002"}, Fail(r, error), InFlight(tx[r]),
             error = "40001" => \/ tx[r].view.command # command
                                \/ \E q \in Requests : Deadlock(q, r)
      PROVE  AttemptsOwed'
  <2>1. \A q \in Requests : ~Deadlock(q, r)
    BY DEF Deadlock, NoResets
  <2> QED BY <1>6, <2>1, FailOwed
<1>7. ASSUME NEW key, NEW journal, RefusedByDatabase(r, key, journal), tx[r].pc = "write"
      PROVE  AttemptsOwed'
  <2>1. /\ tx'[r].pc = "refused" /\ tx'[r].reply.code = "DATABASE_CHECK" /\ command' = command
        /\ \A q \in Requests \ {r} : tx'[q] = tx[q]
    BY <1>1, <1>7 DEF RefusedByDatabase, TxRecords
  <2>2. Owes(tx'[r]) /\ IsDone(tx'[r])
    BY <2>1 DEF Owes, InFlight, IsDone
  <2> QED BY <2>1, <2>2, OwnStepOwed
<1>8. CASE Reply(r) \/ Lose(r)
  <2>1. /\ tx'[r].pc \in {"answered", "lost"} /\ command' = command
        /\ tx'[r].reply = tx[r].reply \/ tx'[r].reply.code = "NONE"
        /\ \A q \in Requests \ {r} : tx'[q] = tx[q]
    BY <1>1, <1>8 DEF Reply, Lose, TxRecords
  <2>2. Owes(tx'[r]) /\ IsDone(tx'[r])
    BY <1>1, <2>1 DEF Owes, InFlight, IsDone
  <2> QED BY <2>1, <2>2, OwnStepOwed
<1> QED BY <1>2, <1>3, <1>4, <1>5, <1>6, <1>7, <1>8, CommittedOwed DEF StepKind

(* As many attempts as there are requests at a time are enough for each of *)
(* them (the code has three): no client sees a serialization failure while *)
(* nobody resets an account.                                               *)
THEOREM ConflictsRetried ==
  ASSUME Cardinality(Requests) <= MaxAttempts
  PROVE  TxSpec => []ConflictsAreRetriedAway
<1>1. TxInit => AttemptsOwed
  <2> SUFFICES ASSUME TxInit PROVE AttemptsOwed
    OBVIOUS
  <2>1. command = {} /\ \A r \in Requests : tx[r].pc = "idle" /\ tx[r].reply.code = "NONE"
    BY DEF TxInit
  <2>2. AllDone(tx) = {}
    BY <2>1 DEF AllDone, IsDone
  <2> QED BY <2>1, <2>2, FS_EmptySet DEF AttemptsOwed, Owes, InFlight
<1>2. AttemptsOwed /\ TxIInv /\ [TxNext]_txVars => AttemptsOwed'
  <2> SUFFICES ASSUME AttemptsOwed, TxIInv, [TxNext]_txVars PROVE AttemptsOwed'
    OBVIOUS
  <2>1. CASE UNCHANGED <<command, tx>>
    BY <2>1 DEF AttemptsOwed, NoResets, Owes, AllDone
  <2>2. ASSUME NEW r \in Requests, StepKind(r) PROVE AttemptsOwed'
    <3>1. NoResets(tx') => NoResets(tx)
      BY <2>2, InputsStay DEF NoResets
    <3>2. CASE NoResets(tx')
      BY <2>2, <3>1, <3>2, StepOwed DEF AttemptsOwed
    <3>3. CASE ~NoResets(tx')
      BY <3>3 DEF AttemptsOwed
    <3> QED BY <3>2, <3>3
  <2> QED BY <2>1, <2>2, StepKinds
<1>3. AttemptsOwed => ConflictsAreRetriedAway
  BY DEF AttemptsOwed, ConflictsAreRetriedAway, NoResets, Owes
<1> QED BY <1>1, <1>2, <1>3, TxInvariance, PTL DEF TxSpec
=============================================================================
