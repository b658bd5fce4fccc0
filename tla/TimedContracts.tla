--------------------------- MODULE TimedContracts ---------------------------
(***************************************************************************)
(* TimedContractsService: a customer stakes an amount on where the price   *)
(* of a market will be; the worker settles the contract in proportion to   *)
(* the move.  A request and a worker both wait for a price outside any     *)
(* transaction (PriceArchive), so the clock, the fee, the funds and the     *)
(* contract itself may change before what they do next, which is one       *)
(* serializable transaction and one step here.                             *)
(***************************************************************************)
EXTENDS Ledger, PriceArchive, FiniteSetsExt

CONSTANTS
  ContractIds,   \* contract ids in the order the database sorts them
  Keys,          \* Idempotency-Key of requests; clients draw them at random
  Plans,         \* what a key asks for, as functions on Keys: a key sent
                 \* again with other terms is refused
  Workers,       \* financial worker processes
  FeeRates,      \* trading.profitFeeRate, in parts of FeeScale
  FeeScale,
  StaleAfter,    \* seconds an entry price may be old: 5000 ms in the code
  Limit,         \* contracts one batch takes
  Grants,        \* what an account may be funded with
  MaxRestarts    \* bounds worker restarts

ASSUME ContractAssumption ==
  /\ ContractIds \subseteq Nat \ {0} /\ IsFiniteSet(ContractIds)
  /\ Askers = Keys \cup Workers /\ Keys \cap Workers = {}
  /\ Grants \subseteq Nat \ {0}
  /\ FeeScale \in Nat \ {0} /\ FeeRates \subseteq 0..FeeScale
  /\ StaleAfter \in Nat
  /\ \A plan \in Plans, k \in Keys :
       /\ plan[k].account \in Accounts /\ plan[k].direction \in {"UP", "DOWN"}
       /\ plan[k].stake \in Nat \ {0} /\ plan[k].fee \in FeeRates
       /\ plan[k].duration \in Nat /\ plan[k].duration > StaleAfter  \* 30 s and more
  /\ Limit \in Nat \ {0} /\ MaxRestarts \in Nat

VARIABLES
  terms,     \* the plan of this run
  contract,  \* timed_contracts with their settlements
  request,   \* since when a creation request waits for its entry price
  worker,    \* each worker's dueCursor, and what is left of its batch
  feeRate,   \* trading.profitFeeRate
  restarts   \* bounds worker restarts

contractVars == <<ledgerVars, priceVars, terms, contract, request, worker, feeRate,
                  restarts>>

NoContract == [result |-> "NONE"]
ContractRecords ==
  [result : {"PENDING", "WIN", "LOSS", "DRAW"}, key : Keys, account : Accounts,
   direction : {"UP", "DOWN"}, stake : Nat, entry : Prices, fee : FeeRates,
   entered : Times, expiry : Times, payout : Nat]

NoRequest == 0

FreshWorker == [cursor |-> 0, batch |-> {}]

-----------------------------------------------------------------------------
(* Decimal ROUND_HALF_UP of n/d, for amounts that are not negative.        *)
HalfUp(n, d) == (2 * n + d) \div (2 * d)

(* proportionalSettlement: what the stake is worth at the expiry price, in *)
(* cents; a loss stops at the stake.                                       *)
GrossReturn(c, price) ==
  LET moved == IF c.direction = "UP" THEN price ELSE 2 * c.entry - price
  IN  IF moved <= 0 THEN 0 ELSE HalfUp(c.stake * moved, c.entry)

(* The fee is a share of the profit, rounded to cents by itself.           *)
ProfitFee(c, price) ==
  LET profit == GrossReturn(c, price) - c.stake
  IN  IF profit > 0 THEN HalfUp(profit * c.fee, FeeScale) ELSE 0

Payout(c, price) == GrossReturn(c, price) - ProfitFee(c, price)

ResultAt(c, price) ==
  CASE price = c.entry                    -> "DRAW"
    [] price # c.entry
       /\ (price > c.entry) = (c.direction = "UP") -> "WIN"
    [] OTHER                              -> "LOSS"

NoLine == [l \in {} |-> 0]
CreditUnlessZero(l, amount) == IF amount = 0 THEN NoLine ELSE Credit(l, amount)

(* settleOne's lines: the stake out of the locked funds; the payout, the   *)
(* fee and the platform's gain or loss, each only when there is one.       *)
ContractJournal(c, price) ==
  LET mode == ModeOf(c.account)
  IN  Debit(Locked(c.account), c.stake)
        ++ CreditUnlessZero(Available(c.account), Payout(c, price))
        ++ CreditUnlessZero(Fees(mode), ProfitFee(c, price))
        ++ CreditUnlessZero(Counterparty(mode), c.stake - GrossReturn(c, price))

Pending(id) == contract[id].result = "PENDING"
Due(id) == Pending(id) /\ contract[id].expiry <= now
Taken(key) == \E id \in ContractIds : contract[id] # NoContract /\ contract[id].key = key

-----------------------------------------------------------------------------
ContractInit ==
  /\ LedgerInit
  /\ PriceInit
  /\ terms \in Plans
  /\ contract = [id \in ContractIds |-> NoContract]
  /\ request = [k \in Keys |-> NoRequest]
  /\ worker = [w \in Workers |-> FreshWorker]
  /\ feeRate \in FeeRates
  /\ restarts = 0

contractUnchanged == <<terms, contract, worker, feeRate, restarts>>

(* The demo grant or an approved deposit, once per account that the plan   *)
(* trades with (Trading and Funding have the whole of it).                 *)
Fund(a, grant) ==
  /\ \E k \in Keys : terms[k].account = a
  /\ Post(<<"fund", a>>, Debit(Control(ModeOf(a)), grant) ++ Credit(Available(a), grant))
  /\ MoveWallet(a, grant, 0)
  /\ UNCHANGED <<priceVars, request, contractUnchanged>>

(* An approved TRADING_FEE change.                                         *)
SetFee(rate) ==
  /\ feeRate' = rate
  /\ UNCHANGED <<ledgerVars, priceVars, terms, contract, request, worker, restarts>>

(* create, up to its await: no command of that key yet, the moment taken,  *)
(* its price asked for.                                                    *)
Submit(k) ==
  /\ request[k] = NoRequest
  /\ ~Taken(k)
  /\ now + terms[k].duration <= MaxTime
  /\ AskFor(k, now)
  /\ request' = [request EXCEPT ![k] = now]
  /\ UNCHANGED <<ledgerVars, contractUnchanged>>

(* Faulty: an entry price of any age will do.                              *)
MayOpenAtAnyAge(k) ==
  /\ ~Taken(k)
  /\ terms[k].stake <= wallet[terms[k].account].available
  /\ terms[k].fee = feeRate

(* What create's transaction checks before it writes.  The instrument's    *)
(* switches and, for real money, the customer's identity and eligibility   *)
(* only ever turn a request away, which RequestFails may do at any point.  *)
MayOpen(k) ==
  /\ ~Taken(k)
  /\ terms[k].stake <= wallet[terms[k].account].available
  /\ terms[k].fee = feeRate
  /\ now - request[k] <= StaleAfter

OpenContract(k, id) ==
  LET a     == terms[k].account
      stake == terms[k].stake
  IN  /\ Quoted(k)
      /\ MayOpen(k)
      /\ contract[id] = NoContract
      /\ Post(<<"timed-open", id>>, Debit(Available(a), stake) ++ Credit(Locked(a), stake))
      /\ MoveWallet(a, -stake, stake)
      /\ contract' = [contract EXCEPT ![id] =
           [result |-> "PENDING", key |-> k, account |-> a, stake |-> stake,
            direction |-> terms[k].direction, fee |-> feeRate,
            entry |-> asking[k].price, entered |-> request[k],
            expiry |-> request[k] + terms[k].duration, payout |-> 0]]
      /\ request' = [request EXCEPT ![k] = NoRequest]
      /\ Done(k)
      /\ UNCHANGED <<terms, worker, feeRate, restarts>>

(* The provider has no price, a check fails, the client or the server is   *)
(* gone: nothing was written.  The client may send the key again.          *)
RequestFails(k) ==
  /\ request[k] # NoRequest
  /\ request' = [request EXCEPT ![k] = NoRequest]
  /\ Done(k)
  /\ UNCHANGED <<ledgerVars, contractUnchanged>>

-----------------------------------------------------------------------------
DueAfter(cursor) ==
  LET due == {id \in ContractIds : Due(id) /\ id > cursor}
  IN  {id \in due : Cardinality({earlier \in due : earlier < id}) < Limit}

Working(w, batch, cursor) ==
  worker' = [worker EXCEPT ![w] = [cursor |-> cursor, batch |-> batch]]

(* Faulty: a batch without contracts leaves the cursor where it is.        *)
NextBatchKeepsCursor(w) ==
  /\ worker[w].batch = {}
  /\ LET batch == DueAfter(worker[w].cursor)
     IN  Working(w, batch, IF batch = {} THEN worker[w].cursor ELSE Max(batch))
  /\ UNCHANGED <<ledgerVars, priceVars, terms, contract, request, feeRate, restarts>>

(* settleDueBatch reads the next due contracts in id order; an empty batch *)
(* sends the cursor back to the start.                                     *)
NextBatch(w) ==
  /\ worker[w].batch = {}
  /\ LET batch == DueAfter(worker[w].cursor)
     IN  Working(w, batch, IF batch = {} THEN 0 ELSE Max(batch))
  /\ UNCHANGED <<ledgerVars, priceVars, terms, contract, request, feeRate, restarts>>

(* The contract a worker is at: it goes through its batch in id order.      *)
At(w) == Min(worker[w].batch)
NextInBatch(w) == Working(w, worker[w].batch \ {At(w)}, worker[w].cursor)

(* settleOne reads the candidate: still due, so its expiry's price is      *)
(* asked for; or settled meanwhile, and passed over.                       *)
Examine(w) ==
  /\ worker[w].batch # {}
  /\ asking[w] = Idle
  /\ Due(At(w))
  /\ AskFor(w, contract[At(w)].expiry)
  /\ UNCHANGED <<ledgerVars, request, contractUnchanged>>

PassOver(w) ==
  /\ worker[w].batch # {}
  /\ asking[w] = Idle
  /\ ~Due(At(w))
  /\ NextInBatch(w)
  /\ UNCHANGED <<ledgerVars, priceVars, terms, contract, request, feeRate, restarts>>

MaySettle(w) ==
  /\ Pending(At(w))
  /\ wallet[contract[At(w)].account].locked >= contract[At(w)].stake

(* Faulty: a contract that pays nothing is settled without its wallet.     *)
SettleWalletIfPaid(c, price) ==
  IF Payout(c, price) = 0 THEN UNCHANGED wallet
  ELSE MoveWallet(c.account, Payout(c, price), -c.stake)

SettleWallet(c, price) == MoveWallet(c.account, Payout(c, price), -c.stake)

Settle(w) ==
  LET id    == At(w)
      c     == contract[id]
      price == asking[w].price
  IN  /\ Quoted(w)
      /\ MaySettle(w)
      /\ Post(<<"timed-settle", id>>, ContractJournal(c, price))
      /\ SettleWallet(c, price)
      /\ contract' = [contract EXCEPT ![id].result = ResultAt(c, price),
                                      ![id].payout = Payout(c, price)]
      /\ Done(w)
      /\ NextInBatch(w)
      /\ UNCHANGED <<terms, request, feeRate, restarts>>

(* No price, a transaction that failed three times, or a contract another  *)
(* worker settled while the price was on its way: logged, and the next.    *)
SettlementFails(w) ==
  /\ asking[w] # Idle
  /\ Done(w)
  /\ NextInBatch(w)
  /\ UNCHANGED <<ledgerVars, terms, contract, request, feeRate, restarts>>

(* A worker dies and starts again: cursor and batch were in memory.        *)
Restart(w) ==
  /\ restarts < MaxRestarts
  /\ restarts' = restarts + 1
  /\ worker' = [worker EXCEPT ![w] = FreshWorker]
  /\ Done(w)
  /\ UNCHANGED <<ledgerVars, terms, contract, request, feeRate>>

LoadPrice(p) == Load(p) /\ UNCHANGED <<ledgerVars, request, contractUnchanged>>

WorkerStep(w) ==
  NextBatch(w) \/ Examine(w) \/ PassOver(w) \/ SettlementFails(w) \/ LoadPrice(w) \/ Settle(w)

ContractNext ==
  \/ Tick /\ UNCHANGED <<ledgerVars, request, contractUnchanged>>
  \/ \E a \in Accounts, grant \in Grants : Fund(a, grant)
  \/ \E rate \in FeeRates : SetFee(rate)
  \/ \E k \in Keys :
       \/ Submit(k)
       \/ LoadPrice(k)
       \/ \E id \in ContractIds : OpenContract(k, id)
       \/ RequestFails(k)
  \/ \E w \in Workers : WorkerStep(w) \/ Restart(w)

(* The worker's loop goes on as long as its process does.                  *)
ContractSpec == ContractInit /\ [][ContractNext]_contractVars
                  /\ \A w \in Workers : WF_contractVars(WorkerStep(w))

-----------------------------------------------------------------------------
ContractTypeOK ==
  /\ LedgerTypeOK
  /\ PriceTypeOK
  /\ terms \in Plans
  /\ contract \in [ContractIds -> ContractRecords \cup {NoContract}]
  /\ request \in [Keys -> Times \cup {NoRequest}]
  /\ worker \in [Workers -> [cursor : ContractIds \cup {0}, batch : SUBSET ContractIds]]
  /\ feeRate \in FeeRates

(* What an account has locked is what its pending contracts staked, however*)
(* many workers examined them and whatever they found.                     *)
Staked(id) == IF Pending(id) THEN contract[id].stake ELSE 0
ContractsOf(a) == {id \in ContractIds : contract[id] # NoContract /\ contract[id].account = a}
LockedBacksContracts ==
  \A a \in Accounts :
    wallet[a].locked = SumFunctionOnSet([id \in ContractIds |-> Staked(id)], ContractsOf(a))

(* Wallets are what the journals say, and back the pending contracts.      *)
ContractFundsInOrder == BooksInOrder /\ LockedBacksContracts

OnItsTerms(id) ==
  LET c     == contract[id]
      price == archive[Boundary(c.expiry)]
  IN  /\ c # NoContract => c.entry = archive[Boundary(c.entered)]
      /\ <<"timed-open", id>> \in posted <=> c # NoContract
      /\ <<"timed-settle", id>> \in posted <=> c # NoContract /\ c.result # "PENDING"
      /\ <<"timed-settle", id>> \in posted =>
           /\ price # Unknown
           /\ c.result = ResultAt(c, price)
           /\ c.payout = Payout(c, price)
           /\ c.payout >= 0
           /\ c.result = "LOSS" => c.payout <= c.stake

(* A contract is entered and settled at the archived prices of its own two *)
(* seconds and at the fee it was opened with, whoever fetched the prices,  *)
(* however late the worker came and whatever fee is in force by then; two  *)
(* contracts that share a second share its price.  It settles once, and    *)
(* the customer is never charged more than the stake.                      *)
SettledOnItsTerms == \A id \in ContractIds : OnItsTerms(id)

(* Nobody opens a contract whose outcome could be known: when it is        *)
(* written, its last second is not over, however long its price took.      *)
NoForeknowledge ==
  [][\A id \in ContractIds :
       contract[id] = NoContract /\ contract'[id] # NoContract =>
         /\ now < contract'[id].expiry
         /\ archive[Boundary(contract'[id].expiry)] = Unknown]_contractVars

(* A due contract is settled or examined, and then examined again: the     *)
(* cursor always comes back to it, whatever other contracts come and fail. *)
Examined(id) == \E w \in Workers : asking[w] # Idle /\ At(w) = id
DueContractsExamined ==
  \A id \in ContractIds : Due(id) ~> (~Due(id) \/ Examined(id))
=============================================================================
