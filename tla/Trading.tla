------------------------------ MODULE Trading -------------------------------
(***************************************************************************)
(* Accounts and demo trading as each committed transaction leaves them:    *)
(* sign-up (AuthService.createAccounts), the demo reset                    *)
(* (AccountsService.resetDemo), market orders and position settlement      *)
(* (TradingService).  Transactions run at serializable isolation, so here  *)
(* every command is one step; Transactions.tla takes the same commands     *)
(* apart into their statements and is shown to implement this module.      *)
(*                                                                         *)
(* orders is unique on (accountId, clientOrderId): a position is named by  *)
(* the account and the client order id that opened it.                     *)
(***************************************************************************)
EXTENDS Ledger

CONSTANTS
  ClientOrderIds,      \* ids a client gives its orders
  ResetKeys,           \* idempotency keys of demo resets: bounds their number
  Quantities,          \* order quantities, in the instrument's smallest unit
  MidPrices,           \* mid prices DemoPriceService can quote
  Spread,              \* half-spread added for BUY, taken off for SELL
  Scale,               \* price units times quantity units per cent
  MinimumTrade, MaximumTrade,  \* instrument_configs limits, in cents
  DemoInitialBalance,  \* DEMO_INITIAL_BALANCE_USD, in cents
  IsVirtual            \* COMPLIANCE_MODE = SANDBOX

ASSUME TradingAssumption ==
  /\ IsFiniteSet(ClientOrderIds)
  /\ Quantities \subseteq Nat
  /\ MidPrices \subseteq Nat
  /\ Spread \in Nat /\ \A mid \in MidPrices : Spread < mid
  /\ Scale \in Nat \ {0}
  /\ MinimumTrade \in Nat /\ MaximumTrade \in Nat
  /\ DemoInitialBalance \in Nat \ {0}
  /\ IsVirtual \in BOOLEAN

Sides == {"BUY", "SELL"}
Positions == Accounts \X ClientOrderIds
AccountOf(p) == p[1]

VARIABLES
  registered,      \* users who signed up
  tradingEnabled,  \* users.trading_enabled, as a set
  position         \* the positions table

vars == <<ledgerVars, registered, tradingEnabled, position>>

NoPosition == [status |-> "NONE"]
PositionRecords ==
  [status : {"OPEN", "CLOSED"}, side : Sides, quantity : Quantities,
   entry : Nat, pnl : Int]

-----------------------------------------------------------------------------
(* Decimal ROUND_HALF_UP to whole cents: halves go away from zero.         *)
RoundCents(x) ==
  IF x >= 0 THEN (2 * x + Scale) \div (2 * Scale)
  ELSE -((Scale - 2 * x) \div (2 * Scale))

(* DemoPriceService.quote.                                                 *)
Quote(mid, side) == IF side = "BUY" THEN mid + Spread ELSE mid - Spread

Opposite(side) == IF side = "BUY" THEN "SELL" ELSE "BUY"

(* Faulty: floors what createOrder had rounded half up.                    *)
NotionalFloored(pos) == (pos.entry * pos.quantity) \div Scale

Notional(pos) == RoundCents(pos.entry * pos.quantity)

(* Faulty: a loss is not stopped.                                          *)
PnlUnclamped(pos, price) ==
  RoundCents((IF pos.side = "BUY" THEN price - pos.entry ELSE pos.entry - price)
               * pos.quantity)

(* Profit or loss of pos at a closing price; the loss stops at what was    *)
(* locked.                                                                 *)
Pnl(pos, price) ==
  LET move == IF pos.side = "BUY" THEN price - pos.entry ELSE pos.entry - price
      pnl  == RoundCents(move * pos.quantity)
  IN  IF pnl < -Notional(pos) THEN -Notional(pos) ELSE pnl

(* Funds an open position keeps locked.                                    *)
Held(p) == IF position[p].status = "OPEN" THEN Notional(position[p]) ELSE 0

PositionsOf(a) == {a} \X ClientOrderIds
OpenPositions(a) == {p \in PositionsOf(a) : position[p].status = "OPEN"}

FundingJournal(u) ==
  Debit(Control("DEMO"), DemoInitialBalance)
    ++ Credit(Available(<<u, "DEMO">>), DemoInitialBalance)

OpenJournal(a, exposure) ==
  Debit(Available(a), exposure) ++ Credit(Locked(a), exposure)

(* closePosition's lines.  isPositive() holds for zero, so the settlement  *)
(* and profit lines are there even when their amount is zero.              *)
CloseJournal(a, notional, pnl) ==
  Debit(Locked(a), notional) ++ Credit(Available(a), notional + pnl)
    ++ Debit(Control(ModeOf(a)), pnl)

(* Raises or lowers the balance to the target.                             *)
ResetJournal(a, difference) ==
  Debit(Control(ModeOf(a)), difference) ++ Credit(Available(a), difference)

-----------------------------------------------------------------------------
Init ==
  /\ LedgerInit
  /\ registered = {}
  /\ tradingEnabled = {}
  /\ position = [p \in Positions |-> NoPosition]

(* Sign-up: both accounts, and the demo grant.                             *)
Register(u) ==
  /\ u \notin registered
  /\ Post(<<"demo-funding", u>>, FundingJournal(u))
  /\ MoveWallet(<<u, "DEMO">>, DemoInitialBalance, 0)
  /\ registered' = registered \cup {u}
  /\ tradingEnabled' = tradingEnabled \cup {u}
  /\ UNCHANGED position

(* An approved USER_CONTROLS change switches trading on or off.            *)
SetTradingEnabled(u, on) ==
  /\ u \in registered
  /\ tradingEnabled' = IF on THEN tradingEnabled \cup {u} ELSE tradingEnabled \ {u}
  /\ UNCHANGED <<ledgerVars, registered, position>>

(* Faulty: does not ask whether the wallet can pay.                        *)
MayOrderUnfunded(a, c, exposure) ==
  /\ Owner(a) \in tradingEnabled
  /\ ModeOf(a) = "DEMO" => exposure \in MinimumTrade..MaximumTrade
  /\ position[<<a, c>>] = NoPosition

(* Everything createOrder checks before it writes.                         *)
MayOrder(a, c, exposure) ==
  /\ Owner(a) \in registered
  /\ Owner(a) \in tradingEnabled
  /\ ModeOf(a) = "DEMO" \/ IsVirtual
  /\ ModeOf(a) = "DEMO" => exposure \in MinimumTrade..MaximumTrade
  /\ exposure <= wallet[a].available
  /\ position[<<a, c>>] = NoPosition

CreateOrder(a, c, side, quantity, mid) ==
  LET price    == Quote(mid, side)
      exposure == RoundCents(price * quantity)
  IN  /\ MayOrder(a, c, exposure)
      /\ Post(<<"order-open", <<a, c>>>>, OpenJournal(a, exposure))
      /\ MoveWallet(a, -exposure, exposure)
      /\ position' = [position EXCEPT ![<<a, c>>] =
                        [status |-> "OPEN", side |-> side, quantity |-> quantity,
                         entry |-> price, pnl |-> 0]]
      /\ UNCHANGED <<registered, tradingEnabled>>

CreateOrderRefused(a, c, side, quantity, mid) ==
  LET exposure == RoundCents(Quote(mid, side) * quantity)
  IN  /\ MayOrder(a, c, exposure)
      /\ PostRefused(<<"order-open", <<a, c>>>>, OpenJournal(a, exposure))
      /\ UNCHANGED <<registered, tradingEnabled, position>>

(* Everything closePosition checks before it writes.                       *)
MayClose(p) ==
  /\ position[p].status = "OPEN"
  /\ ModeOf(AccountOf(p)) = "DEMO" \/ IsVirtual
  /\ wallet[AccountOf(p)].locked >= Notional(position[p])

(* Faulty: the position stays open after its settlement.                   *)
ClosePositionStillOpen(p, mid) ==
  /\ MayClose(p)
  /\ LET a        == AccountOf(p)
         notional == Notional(position[p])
         pnl      == Pnl(position[p], Quote(mid, Opposite(position[p].side)))
     IN  /\ Post(<<"position-close", p>>, CloseJournal(a, notional, pnl))
         /\ MoveWallet(a, notional + pnl, -notional)
  /\ UNCHANGED <<registered, tradingEnabled, position>>

(* Faulty: releases from locked what it pays out, not what was locked.     *)
ClosePositionReleasesPayout(p, mid) ==
  /\ MayClose(p)
  /\ LET a        == AccountOf(p)
         notional == Notional(position[p])
         pnl      == Pnl(position[p], Quote(mid, Opposite(position[p].side)))
     IN  /\ Post(<<"position-close", p>>, CloseJournal(a, notional, pnl))
         /\ MoveWallet(a, notional + pnl, -(notional + pnl))
         /\ position' = [position EXCEPT ![p].status = "CLOSED", ![p].pnl = pnl]
  /\ UNCHANGED <<registered, tradingEnabled>>

ClosePosition(p, mid) ==
  /\ MayClose(p)
  /\ LET a        == AccountOf(p)
         notional == Notional(position[p])
         pnl      == Pnl(position[p], Quote(mid, Opposite(position[p].side)))
     IN  /\ Post(<<"position-close", p>>, CloseJournal(a, notional, pnl))
         /\ MoveWallet(a, notional + pnl, -notional)
         /\ position' = [position EXCEPT ![p].status = "CLOSED", ![p].pnl = pnl]
  /\ UNCHANGED <<registered, tradingEnabled>>

ClosePositionRefused(p, mid) ==
  /\ MayClose(p)
  /\ LET pnl == Pnl(position[p], Quote(mid, Opposite(position[p].side)))
     IN  PostRefused(<<"position-close", p>>,
                     CloseJournal(AccountOf(p), Notional(position[p]), pnl))
  /\ UNCHANGED <<registered, tradingEnabled, position>>

(* The demo account back to its initial balance, through the ledger.  A    *)
(* reset that changes nothing posts nothing.                               *)
ResetDemo(u, key) ==
  LET a          == <<u, "DEMO">>
      difference == DemoInitialBalance - wallet[a].available
  IN  /\ u \in registered
      /\ OpenPositions(a) = {}
      /\ wallet[a].locked = 0
      /\ balance[Available(a)] = wallet[a].available
      /\ difference # 0
      /\ Post(<<"demo-reset", u, key>>, ResetJournal(a, difference))
      /\ MoveWallet(a, difference, 0)
      /\ UNCHANGED <<registered, tradingEnabled, position>>

Next ==
  \/ \E u \in Users :
       \/ Register(u)
       \/ \E on \in BOOLEAN : SetTradingEnabled(u, on)
       \/ \E key \in ResetKeys : ResetDemo(u, key)
  \/ \E a \in Accounts, c \in ClientOrderIds, side \in Sides,
        quantity \in Quantities, mid \in MidPrices :
       \/ CreateOrder(a, c, side, quantity, mid)
       \/ CreateOrderRefused(a, c, side, quantity, mid)
  \/ \E p \in Positions, mid \in MidPrices :
       \/ ClosePosition(p, mid)
       \/ ClosePositionRefused(p, mid)

Spec == Init /\ [][Next]_vars

-----------------------------------------------------------------------------
TypeOK ==
  /\ LedgerTypeOK
  /\ registered \subseteq Users
  /\ tradingEnabled \subseteq registered
  /\ position \in [Positions -> PositionRecords \cup {NoPosition}]

(* What an account has locked is exactly what its open positions cost: no  *)
(* close, reset or refused command strands funds or spends them twice.     *)
LockedBacksPositions ==
  \A a \in Accounts :
    wallet[a].locked = SumFunctionOnSet([p \in Positions |-> Held(p)], PositionsOf(a))

(* A position's two journals are on the books exactly when its status says *)
(* so: a settlement is neither lost nor repeated.                          *)
JournalsMatchPositions ==
  \A p \in Positions :
    /\ <<"order-open", p>> \in posted <=> position[p].status # "NONE"
    /\ <<"position-close", p>> \in posted <=> position[p].status = "CLOSED"

(* The checks that guard against a broken projection never stop a customer:*)
(* no close of an open position fails with LEDGER_PROJECTION_MISMATCH, and *)
(* locked funds never block the reset of an account without open positions.*)
ProjectionChecksPass ==
  \A a \in Accounts :
    /\ \A p \in OpenPositions(a) : wallet[a].locked >= Notional(position[p])
    /\ OpenPositions(a) = {} => wallet[a].locked = 0

(* A settlement records the profit or loss it pays, pays it to the         *)
(* position's account alone, and takes no more than the position locked.   *)
Equity(a) == wallet[a].available + wallet[a].locked
SettlementsPayTheirPnl ==
  [][\A p \in Positions :
       position[p].status = "OPEN" /\ position'[p].status = "CLOSED" =>
         /\ position'[p].pnl >= -Notional(position[p])
         /\ \A a \in Accounts :
              Equity(a)' - Equity(a) = IF a = AccountOf(p) THEN position'[p].pnl ELSE 0]_vars
=============================================================================
