--------------------------- MODULE Trading_proofs ---------------------------
(***************************************************************************)
(* Trading's invariants, for any users, client order ids, prices and       *)
(* limits.  None of them is inductive alone: a journal keeps the books     *)
(* only when its amounts are integers on an account of the chart, a close  *)
(* posts a key that is new only while journals match positions, and it     *)
(* leaves the locked funds of the account's other positions behind only    *)
(* when locked funds were their sum.  The inductive invariant is the       *)
(* conjunction.                                                            *)
(***************************************************************************)
EXTENDS Trading, Ledger_proofs

USE TradingAssumption

-----------------------------------------------------------------------------
(* Rounding to cents keeps integers integers and naturals natural.         *)
LEMMA RoundCentsInt ==
  ASSUME NEW x \in Int
  PROVE  RoundCents(x) \in Int /\ (x >= 0 => RoundCents(x) \in Nat)
<1>1. 2 * Scale \in Nat \ {0}
  OBVIOUS
<1>2. \A n \in Nat, d \in Nat \ {0} : n \div d \in Nat
  OBVIOUS
<1>3. CASE x >= 0
  <2>1. 2 * x + Scale \in Nat
    BY <1>3
  <2>2. (2 * x + Scale) \div (2 * Scale) \in Nat
    BY <1>1, <1>2, <2>1
  <2> QED BY <1>3, <2>2 DEF RoundCents
<1>4. CASE ~(x >= 0)
  <2>1. Scale - 2 * x \in Nat
    BY <1>4
  <2>2. (Scale - 2 * x) \div (2 * Scale) \in Nat
    BY <1>1, <1>2, <2>1
  <2> QED BY <1>4, <2>2 DEF RoundCents
<1> QED BY <1>3, <1>4

(* A quote is a natural number on either side of the spread.               *)
LEMMA QuoteNat ==
  ASSUME NEW mid \in MidPrices, NEW side
  PROVE  Quote(mid, side) \in Nat
BY DEF Quote

(* The exposure of an order at a quoted price is a whole number of cents.  *)
LEMMA ExposureNat ==
  ASSUME NEW price \in Nat, NEW quantity \in Quantities
  PROVE  RoundCents(price * quantity) \in Nat
<1>1. quantity \in Nat
  OBVIOUS
<1>2. price * quantity \in Nat
  BY <1>1
<1> QED BY <1>2, RoundCentsInt

(* What a position costs, and that it can lose no more.                    *)
LEMMA PnlBounds ==
  ASSUME NEW pos \in PositionRecords, NEW price \in Nat
  PROVE  /\ Notional(pos) \in Nat
         /\ Pnl(pos, price) \in Int
         /\ Pnl(pos, price) >= -Notional(pos)
<1>1. pos.entry \in Nat /\ pos.quantity \in Quantities
  BY DEF PositionRecords
<1>2. Notional(pos) \in Nat
  BY <1>1, ExposureNat DEF Notional
<1> DEFINE move == IF pos.side = "BUY" THEN price - pos.entry ELSE pos.entry - price
<1>3. move * pos.quantity \in Int
  <2>1. pos.quantity \in Int /\ pos.entry \in Int /\ price \in Int
    <3>1. \A i \in Nat : i \in Int
      OBVIOUS
    <3>2. \A q \in Quantities : q \in Nat
      OBVIOUS
    <3> HIDE DEF move
    <3> QED BY <1>1, <3>1, <3>2, Zenon
  <2>2. \A i, j \in Int : i - j \in Int /\ i * j \in Int
    OBVIOUS
  <2>3. move \in Int
    BY <2>1, <2>2, Zenon
  <2> HIDE DEF move
  <2> QED BY <2>1, <2>2, <2>3, Zenon
<1>4. RoundCents(move * pos.quantity) \in Int
  <2> HIDE DEF move
  <2> QED BY <1>3, RoundCentsInt
<1> QED BY <1>2, <1>4 DEF Pnl

(* Whatever a row of the positions table holds locked is a natural number.*)
LEMMA RowHeldNat ==
  ASSUME NEW pos \in PositionRecords \cup {NoPosition}
  PROVE  (IF pos.status = "OPEN" THEN Notional(pos) ELSE 0) \in Nat
<1>1. CASE pos \in PositionRecords
  BY <1>1, PnlBounds
<1>2. CASE pos = NoPosition
  BY <1>2 DEF NoPosition
<1> QED BY <1>1, <1>2

(* Funds held are natural before and after a step.                         *)
LEMMA HeldNat ==
  /\ TypeOK => \A p \in Positions : Held(p) \in Nat
  /\ TypeOK' => \A p \in Positions : Held(p)' \in Nat
<1>1. ASSUME TypeOK, NEW p \in Positions PROVE Held(p) \in Nat
  <2>1. position[p] \in PositionRecords \cup {NoPosition}
    BY <1>1 DEF TypeOK
  <2> QED BY <2>1, RowHeldNat DEF Held
<1>2. ASSUME TypeOK', NEW p \in Positions PROVE Held(p)' \in Nat
  <2>1. position'[p] \in PositionRecords \cup {NoPosition}
    BY <1>2 DEF TypeOK
  <2> QED BY <2>1, RowHeldNat DEF Held
<1> QED BY <1>1, <1>2

(* An account's positions are finitely many.                               *)
LEMMA PositionsFinite ==
  ASSUME NEW a \in Accounts
  PROVE  IsFiniteSet(PositionsOf(a)) /\ PositionsOf(a) \subseteq Positions
<1>1. IsFiniteSet(PositionsOf(a))
  BY FS_Singleton, FS_Product DEF PositionsOf
<1> QED BY <1>1 DEF PositionsOf, Positions

(* A step that changes one position and moves its account's locked funds   *)
(* by as much keeps locked funds backing positions.                        *)
LEMMA BackingMoves ==
  ASSUME TypeOK, TypeOK', LockedBacksPositions, NEW p \in Positions,
         \A q \in Positions \ {p} : position'[q] = position[q],
         \A b \in Accounts \ {AccountOf(p)} : wallet'[b].locked = wallet[b].locked,
         wallet'[AccountOf(p)].locked = wallet[AccountOf(p)].locked + (Held(p)' - Held(p))
  PROVE  LockedBacksPositions'
<1> DEFINE f == [q \in Positions |-> Held(q)]
           e == [q \in Positions |-> Held(q)']
<1>1. \A q \in Positions : f[q] \in Int /\ e[q] \in Int
  <2>1. \A q \in Positions : Held(q) \in Nat /\ Held(q)' \in Nat
    BY HeldNat
  <2> QED BY <2>1
<1>2. \A q \in Positions \ {p} : e[q] = f[q]
  BY DEF Held
<1>3. \A a \in Accounts : wallet[a].locked = SumFunctionOnSet(f, PositionsOf(a))
  BY DEF LockedBacksPositions
<1>4. \A a \in Accounts : IsFiniteSet(PositionsOf(a)) /\ PositionsOf(a) \subseteq Positions
  BY PositionsFinite
<1>5. AccountOf(p) \in Accounts /\ p \in PositionsOf(AccountOf(p))
  BY DEF AccountOf, Positions, PositionsOf
<1>6. ASSUME NEW a \in Accounts
      PROVE  wallet'[a].locked = SumFunctionOnSet(e, PositionsOf(a))
  <2>1. CASE a = AccountOf(p)
    <3>1. SumFunctionOnSet(e, PositionsOf(a))
            = SumFunctionOnSet(f, PositionsOf(a)) + (e[p] - f[p])
      <4> HIDE DEF e, f
      <4> QED BY <1>1, <1>2, <1>4, <1>5, <2>1, SumChangeOne
    <3>2. e[p] = Held(p)' /\ f[p] = Held(p)
      OBVIOUS
    <3> HIDE DEF e, f
    <3> QED BY <1>3, <2>1, <3>1, <3>2
  <2>2. CASE a # AccountOf(p)
    <3>1. p \notin PositionsOf(a)
      BY <2>2 DEF PositionsOf, AccountOf
    <3>2. SumFunctionOnSet(e, PositionsOf(a)) = SumFunctionOnSet(f, PositionsOf(a))
      <4> HIDE DEF e, f
      <4> QED BY <1>1, <1>2, <1>4, <3>1, SumSame
    <3> HIDE DEF e, f
    <3> QED BY <1>3, <2>2, <3>2
  <2> QED BY <2>1, <2>2
<1>7. \A a \in Accounts : PositionsOf(a)' = PositionsOf(a)
  BY DEF PositionsOf
<1> QED BY <1>6 DEF LockedBacksPositions, PositionsOf

-----------------------------------------------------------------------------
IInv ==
  /\ TypeOK
  /\ ProjectionsReconcile
  /\ ModesConserve
  /\ NoOverdraft
  /\ LockedBacksPositions
  /\ JournalsMatchPositions

(* A step that leaves positions and locked funds alone keeps the backing.  *)
LEMMA BackingStays ==
  ASSUME LockedBacksPositions, position' = position,
         \A b \in Accounts : wallet'[b].locked = wallet[b].locked
  PROVE  LockedBacksPositions'
BY DEF LockedBacksPositions, Held, PositionsOf

(* So does one that posts another kind of journal to the journals' match.  *)
LEMMA JournalsStay ==
  ASSUME JournalsMatchPositions, position' = position,
         NEW key, posted' = posted \cup {key},
         key[1] \notin {"order-open", "position-close"}
  PROVE  JournalsMatchPositions'
<1>1. \A p : key # <<"order-open", p>> /\ key # <<"position-close", p>>
  OBVIOUS
<1> QED BY <1>1 DEF JournalsMatchPositions

(* Empty books are in order.                                               *)
LEMMA InitInv == Init => IInv
<1> SUFFICES ASSUME Init PROVE IInv
  OBVIOUS
<1> USE DEF Init, LedgerInit
<1>1. TypeOK
  BY DEF TypeOK, LedgerTypeOK
<1>2. ProjectionsReconcile
  BY AccountChart, Charts DEF ProjectionsReconcile
<1>3. ModesConserve
  <2>1. ASSUME NEW m \in Modes PROVE SumFunctionOnSet(balance, ChartOf(m)) = 0
    <3>1. IsFiniteSet(ChartOf(m)) /\ \A l \in ChartOf(m) : balance[l] = 0
      BY Charts
    <3> QED BY <3>1, SumOfZeros
  <2> QED BY <2>1 DEF ModesConserve
<1>4. NoOverdraft
  BY DEF NoOverdraft
<1>5. LockedBacksPositions
  <2>1. ASSUME NEW a \in Accounts
        PROVE  wallet[a].locked = SumFunctionOnSet([p \in Positions |-> Held(p)], PositionsOf(a))
    <3> DEFINE f == [p \in Positions |-> Held(p)]
    <3>1. IsFiniteSet(PositionsOf(a)) /\ PositionsOf(a) \subseteq Positions
      BY PositionsFinite
    <3>2. \A p \in PositionsOf(a) : f[p] = 0
      BY <3>1 DEF Held, NoPosition
    <3>3. SumFunctionOnSet(f, PositionsOf(a)) = 0
      <4> HIDE DEF f
      <4> QED BY <3>1, <3>2, SumOfZeros
    <3> QED BY <3>3
  <2> QED BY <2>1 DEF LockedBacksPositions
<1>6. JournalsMatchPositions
  BY DEF JournalsMatchPositions, NoPosition
<1> QED BY <1>1, <1>2, <1>3, <1>4, <1>5, <1>6 DEF IInv

(* Sign-up.                                                                *)
LEMMA RegisterInv ==
  ASSUME IInv, NEW u \in Users, Register(u)
  PROVE  IInv'
<1> DEFINE a == <<u, "DEMO">>
           journal == FundingJournal(u)
<1>1. a \in Accounts /\ ModeOf(a) = "DEMO" /\ DemoInitialBalance \in Int
  BY DEF Accounts, Modes, ModeOf
<1>2. /\ DOMAIN journal = {Control("DEMO"), Available(a)}
      /\ journal[Available(a)] = DemoInitialBalance
      /\ \A l \in DOMAIN journal : journal[l] \in Int
  <2>1. journal = Debit(Control("DEMO"), DemoInitialBalance)
                    ++ Credit(Available(a), DemoInitialBalance)
    BY DEF FundingJournal
  <2>2. Control("DEMO") # Available(a)
    BY DEF Control, Available
  <2> HIDE DEF a, journal
  <2>3. /\ DOMAIN journal = {Control("DEMO"), Available(a)}
        /\ journal[Control("DEMO")] = -DemoInitialBalance
        /\ journal[Available(a)] = DemoInitialBalance
    BY <2>1, <2>2 DEF Debit, Credit, ++
  <2>4. -DemoInitialBalance \in Int
    BY <1>1
  <2> QED BY <1>1, <2>3, <2>4
<1>3. /\ Post(<<"demo-funding", u>>, journal)
      /\ MoveWallet(a, DemoInitialBalance, 0)
      /\ UNCHANGED position
  BY DEF Register
<1>4. /\ Available(a) \in DOMAIN journal /\ Locked(a) \notin DOMAIN journal
      /\ DOMAIN journal \subseteq {Available(a), Locked(a)} \cup PlatformAccounts(ModeOf(a))
  BY <1>1, <1>2, DistinctLines
<1>5. LedgerTypeOK
  BY DEF IInv, TypeOK
<1> HIDE DEF a, journal
<1>6. LedgerTypeOK' /\ ProjectionsReconcile' /\ ModesConserve'
  BY <1>1, <1>2, <1>3, <1>4, <1>5, BooksKept DEF IInv
<1>7. TypeOK'
  BY <1>3, <1>6 DEF IInv, TypeOK, Register
<1>8. /\ wallet'[a].available = wallet[a].available + DemoInitialBalance
      /\ wallet'[a].locked = wallet[a].locked
      /\ \A b \in Accounts \ {a} : wallet'[b] = wallet[b]
      /\ \A b \in Accounts : wallet[b].available \in Int /\ wallet[b].locked \in Int
  BY <1>1, <1>3, <1>5, MovedWallet
<1>9. NoOverdraft'
  BY <1>8 DEF IInv, NoOverdraft
<1>10. LockedBacksPositions'
  BY <1>3, <1>8, BackingStays DEF IInv
<1>11. JournalsMatchPositions'
  BY <1>3, JournalsStay DEF IInv, Post
<1> QED BY <1>6, <1>7, <1>9, <1>10, <1>11 DEF IInv

(* Switching trading on or off, a command the database refuses, and a step *)
(* of anything else touch neither money nor positions.                     *)
LEMMA UntouchedInv ==
  ASSUME IInv, UNCHANGED <<wallet, balance, posted, position>>,
         registered' \subseteq Users, tradingEnabled' \subseteq registered'
  PROVE  IInv'
<1>1. TypeOK'
  BY DEF IInv, TypeOK, LedgerTypeOK
<1>2. ProjectionsReconcile' /\ ModesConserve' /\ NoOverdraft'
  BY DEF IInv, ProjectionsReconcile, ModesConserve, NoOverdraft
<1>3. LockedBacksPositions'
  BY BackingStays DEF IInv
<1>4. JournalsMatchPositions'
  BY DEF IInv, JournalsMatchPositions
<1> QED BY <1>1, <1>2, <1>3, <1>4 DEF IInv

(* What an order does, whoever may place it.                               *)
Ordered(a, c, side, quantity, mid) ==
  LET price    == Quote(mid, side)
      exposure == RoundCents(price * quantity)
  IN  /\ exposure <= wallet[a].available
      /\ position[<<a, c>>] = NoPosition
      /\ Post(<<"order-open", <<a, c>>>>, OpenJournal(a, exposure))
      /\ MoveWallet(a, -exposure, exposure)
      /\ position' = [position EXCEPT ![<<a, c>>] =
                        [status |-> "OPEN", side |-> side, quantity |-> quantity,
                         entry |-> price, pnl |-> 0]]
      /\ UNCHANGED <<registered, tradingEnabled>>

(* A market order: the exposure moves from available to locked, where the  *)
(* new position holds it.                                                  *)
LEMMA OrderedInv ==
  ASSUME IInv, NEW a \in Accounts, NEW c \in ClientOrderIds, NEW side \in Sides,
         NEW quantity \in Quantities, NEW mid \in MidPrices,
         Ordered(a, c, side, quantity, mid)
  PROVE  IInv'
<1> DEFINE p == <<a, c>>
           price == Quote(mid, side)
           exposure == RoundCents(price * quantity)
           journal == OpenJournal(a, exposure)
           opened == [status |-> "OPEN", side |-> side, quantity |-> quantity,
                      entry |-> price, pnl |-> 0]
<1>1. p \in Positions /\ AccountOf(p) = a /\ price \in Nat /\ exposure \in Nat
  BY QuoteNat, ExposureNat DEF Positions, AccountOf
<1>2. /\ exposure <= wallet[a].available /\ position[p] = NoPosition
      /\ Post(<<"order-open", p>>, journal)
      /\ MoveWallet(a, -exposure, exposure)
      /\ position' = [position EXCEPT ![p] = opened]
      /\ UNCHANGED <<registered, tradingEnabled>>
  BY DEF Ordered
<1>3. opened \in PositionRecords /\ opened.status = "OPEN"
  BY <1>1 DEF PositionRecords
<1>4. Notional(opened) = exposure
  BY DEF Notional
<1>5. /\ DOMAIN journal = {Available(a), Locked(a)}
      /\ journal[Available(a)] = -exposure
      /\ journal[Locked(a)] = exposure
  <2> HIDE DEF exposure
  <2>1. Available(a) # Locked(a)
    BY DistinctLines
  <2> QED BY <2>1 DEF OpenJournal, Debit, Credit, ++
<1>6. LedgerTypeOK /\ position \in [Positions -> PositionRecords \cup {NoPosition}]
  BY DEF IInv, TypeOK
<1> HIDE DEF p, price, exposure, journal, opened
<1>7. exposure \in Int /\ -exposure \in Int
  BY <1>1
<1>8. LedgerTypeOK' /\ ProjectionsReconcile' /\ ModesConserve'
  <2>1. \A l \in DOMAIN journal : journal[l] \in Int
    BY <1>5, <1>7
  <2> QED BY <1>2, <1>5, <1>6, <1>7, <2>1, BooksKept DEF IInv
<1>9. TypeOK'
  <2>1. position' \in [Positions -> PositionRecords \cup {NoPosition}]
    BY <1>2, <1>3, <1>6
  <2> QED BY <1>2, <1>8, <2>1 DEF IInv, TypeOK
<1>10. /\ wallet'[a].available = wallet[a].available + (-exposure)
       /\ wallet'[a].locked = wallet[a].locked + exposure
       /\ \A b \in Accounts \ {a} : wallet'[b] = wallet[b]
       /\ \A b \in Accounts : wallet[b].available \in Int /\ wallet[b].locked \in Int
  BY <1>2, <1>6, <1>7, MovedWallet
<1>11. NoOverdraft'
  BY <1>1, <1>2, <1>10 DEF IInv, NoOverdraft
<1>12. LockedBacksPositions'
  <2>1. /\ position'[p] = opened
        /\ \A q \in Positions \ {p} : position'[q] = position[q]
    BY <1>1, <1>2, <1>6
  <2>2. Held(p) = 0 /\ Held(p)' = exposure
    BY <1>2, <1>3, <1>4, <2>1 DEF Held, NoPosition
  <2>3. wallet'[a].locked = wallet[a].locked + (Held(p)' - Held(p))
    BY <1>7, <1>10, <2>2
  <2> QED BY <1>1, <1>9, <1>10, <2>1, <2>3, BackingMoves DEF IInv
<1>13. JournalsMatchPositions'
  <2>1. posted' = posted \cup {<<"order-open", p>>}
    BY <1>2 DEF Post
  <2>2. position'[p] = opened /\ \A q \in Positions \ {p} : position'[q] = position[q]
    BY <1>1, <1>2, <1>6
  <2>3. position[p].status = "NONE"
    BY <1>2 DEF NoPosition
  <2> QED BY <1>3, <2>1, <2>2, <2>3 DEF IInv, JournalsMatchPositions
<1> QED BY <1>8, <1>9, <1>11, <1>12, <1>13 DEF IInv

(* A settlement: what the position held becomes available again, with the  *)
(* profit or loss the control account pays or takes.                       *)
LEMMA ClosePositionInv ==
  ASSUME IInv, NEW p \in Positions, NEW mid \in MidPrices, ClosePosition(p, mid)
  PROVE  IInv'
<1> DEFINE a == AccountOf(p)
           notional == Notional(position[p])
           pnl == Pnl(position[p], Quote(mid, Opposite(position[p].side)))
           journal == CloseJournal(a, notional, pnl)
           closed == [position[p] EXCEPT !.status = "CLOSED", !.pnl = pnl]
<1>1. LedgerTypeOK /\ position \in [Positions -> PositionRecords \cup {NoPosition}]
  BY DEF IInv, TypeOK
<1>2. a \in Accounts
  BY DEF Positions, AccountOf
<1>3. position[p] \in PositionRecords /\ position[p].status = "OPEN"
  BY <1>1 DEF ClosePosition, MayClose, NoPosition
<1>4. notional \in Nat /\ pnl \in Int /\ pnl >= -notional
  BY <1>3, QuoteNat, PnlBounds
<1>5. /\ Post(<<"position-close", p>>, journal)
      /\ MoveWallet(a, notional + pnl, -notional)
      /\ position' = [position EXCEPT ![p] = closed]
      /\ UNCHANGED <<registered, tradingEnabled>>
      /\ wallet[a].locked >= notional
  BY <1>1, <1>3 DEF ClosePosition, MayClose
<1>6. closed \in PositionRecords /\ closed.status = "CLOSED"
  BY <1>3, <1>4 DEF PositionRecords
<1>7. /\ DOMAIN journal = {Locked(a), Available(a), Control(ModeOf(a))}
      /\ journal[Available(a)] = notional + pnl
      /\ journal[Locked(a)] = -notional
      /\ journal[Control(ModeOf(a))] = -pnl
  <2>1. Available(a) # Locked(a) /\ Available(a) # Control(ModeOf(a)) /\ Locked(a) # Control(ModeOf(a))
    BY <1>2, DistinctLines
  <2> HIDE DEF a, notional, pnl
  <2> QED BY <2>1 DEF CloseJournal, Debit, Credit, ++
<1> HIDE DEF a, notional, pnl, journal, closed
<1>8. notional + pnl \in Int /\ -notional \in Int /\ -pnl \in Int
  BY <1>4
<1>9. LedgerTypeOK' /\ ProjectionsReconcile' /\ ModesConserve'
  <2>1. \A l \in DOMAIN journal : journal[l] \in Int
    BY <1>7, <1>8
  <2>2. DOMAIN journal \subseteq {Available(a), Locked(a)} \cup PlatformAccounts(ModeOf(a))
    BY <1>2, <1>7, DistinctLines
  <2> QED BY <1>1, <1>2, <1>5, <1>7, <1>8, <2>1, <2>2, BooksKept DEF IInv
<1>10. TypeOK'
  <2>1. position' \in [Positions -> PositionRecords \cup {NoPosition}]
    BY <1>1, <1>5, <1>6
  <2> QED BY <1>5, <1>9, <2>1 DEF IInv, TypeOK
<1>11. /\ wallet'[a].available = wallet[a].available + (notional + pnl)
       /\ wallet'[a].locked = wallet[a].locked + (-notional)
       /\ \A b \in Accounts \ {a} : wallet'[b] = wallet[b]
       /\ \A b \in Accounts : wallet[b].available \in Int /\ wallet[b].locked \in Int
  BY <1>1, <1>2, <1>5, <1>8, MovedWallet
<1>12. NoOverdraft'
  BY <1>2, <1>4, <1>5, <1>11 DEF IInv, NoOverdraft
<1>13. position'[p] = closed /\ \A q \in Positions \ {p} : position'[q] = position[q]
  BY <1>1, <1>5
<1>14. LockedBacksPositions'
  <2>1. Held(p) = notional /\ Held(p)' = 0
    BY <1>3, <1>6, <1>13 DEF Held, notional
  <2>2. wallet'[AccountOf(p)].locked = wallet[AccountOf(p)].locked + (Held(p)' - Held(p))
    <3>1. wallet'[a].locked = wallet[a].locked + (Held(p)' - Held(p))
      BY <1>2, <1>4, <1>11, <2>1
    <3> QED BY <3>1 DEF a
  <2>3. \A b \in Accounts \ {AccountOf(p)} : wallet'[b].locked = wallet[b].locked
    BY <1>11 DEF a
  <2> QED BY <1>10, <1>13, <2>2, <2>3, BackingMoves DEF IInv
<1>15. JournalsMatchPositions'
  <2>1. posted' = posted \cup {<<"position-close", p>>}
    BY <1>5 DEF Post
  <2> QED BY <1>3, <1>6, <1>13, <2>1 DEF IInv, JournalsMatchPositions
<1> QED BY <1>9, <1>10, <1>12, <1>14, <1>15 DEF IInv

(* A demo reset, which posts the difference it read from the wallet.       *)
LEMMA ResetDemoInv ==
  ASSUME IInv, NEW u \in Users, NEW key \in ResetKeys, ResetDemo(u, key)
  PROVE  IInv'
<1> DEFINE a == <<u, "DEMO">>
           difference == DemoInitialBalance - wallet[a].available
           journal == ResetJournal(a, difference)
<1>1. a \in Accounts
  BY DEF Accounts, Modes
<1>2. LedgerTypeOK
  BY DEF IInv, TypeOK
<1>3. difference \in Int
  BY <1>1, <1>2 DEF LedgerTypeOK
<1>4. /\ Post(<<"demo-reset", u, key>>, journal)
      /\ MoveWallet(a, difference, 0)
      /\ UNCHANGED <<registered, tradingEnabled, position>>
  BY DEF ResetDemo
<1>5. /\ DOMAIN journal = {Control(ModeOf(a)), Available(a)}
      /\ journal[Control(ModeOf(a))] = -difference
      /\ journal[Available(a)] = difference
  <2>1. Available(a) # Control(ModeOf(a))
    BY <1>1, DistinctLines
  <2> HIDE DEF a, difference
  <2> QED BY <2>1 DEF ResetJournal, Debit, Credit, ++
<1>6. /\ wallet[a].available + difference = DemoInitialBalance
      /\ -difference \in Int
  BY <1>1, <1>2 DEF LedgerTypeOK
<1> HIDE DEF a, difference, journal
<1>7. Locked(a) \notin DOMAIN journal
  BY <1>1, <1>5, DistinctLines
<1>8. LedgerTypeOK' /\ ProjectionsReconcile' /\ ModesConserve'
  <2>1. \A l \in DOMAIN journal : journal[l] \in Int
    BY <1>3, <1>5, <1>6
  <2>2. DOMAIN journal \subseteq {Available(a), Locked(a)} \cup PlatformAccounts(ModeOf(a))
    BY <1>1, <1>5, DistinctLines
  <2> QED BY <1>1, <1>2, <1>3, <1>4, <1>5, <1>7, <2>1, <2>2, BooksKept DEF IInv
<1>9. TypeOK'
  BY <1>4, <1>8 DEF IInv, TypeOK
<1>10. /\ wallet'[a].available = wallet[a].available + difference
       /\ wallet'[a].locked = wallet[a].locked
       /\ \A b \in Accounts \ {a} : wallet'[b] = wallet[b]
       /\ \A b \in Accounts : wallet[b].available \in Int /\ wallet[b].locked \in Int
  BY <1>1, <1>2, <1>3, <1>4, MovedWallet
<1>11. NoOverdraft'
  BY <1>6, <1>10 DEF IInv, NoOverdraft
<1>12. LockedBacksPositions'
  BY <1>4, <1>10, BackingStays DEF IInv
<1>13. JournalsMatchPositions'
  BY <1>4, JournalsStay DEF IInv, Post
<1> QED BY <1>8, <1>9, <1>11, <1>12, <1>13 DEF IInv

(* Every step keeps the inductive invariant.                               *)
LEMMA NextInv == IInv /\ [Next]_vars => IInv'
<1> SUFFICES ASSUME IInv, [Next]_vars PROVE IInv'
  OBVIOUS
<1>1. ASSUME NEW u \in Users, Register(u) PROVE IInv'
  BY <1>1, RegisterInv
<1>2. ASSUME NEW u \in Users, NEW on \in BOOLEAN, SetTradingEnabled(u, on) PROVE IInv'
  <2>1. UNCHANGED <<wallet, balance, posted, position>>
    BY <1>2 DEF SetTradingEnabled, ledgerVars
  <2>2. registered' \subseteq Users /\ tradingEnabled' \subseteq registered'
    BY <1>2 DEF SetTradingEnabled, IInv, TypeOK
  <2> QED BY <2>1, <2>2, UntouchedInv
<1>3. ASSUME NEW u \in Users, NEW key \in ResetKeys, ResetDemo(u, key) PROVE IInv'
  BY <1>3, ResetDemoInv
<1>4. ASSUME NEW a \in Accounts, NEW c \in ClientOrderIds, NEW side \in Sides,
             NEW quantity \in Quantities, NEW mid \in MidPrices,
             \/ CreateOrder(a, c, side, quantity, mid)
             \/ CreateOrderRefused(a, c, side, quantity, mid)
      PROVE  IInv'
  <2>1. CASE CreateOrder(a, c, side, quantity, mid)
    <3>1. Ordered(a, c, side, quantity, mid)
      BY <2>1 DEF CreateOrder, MayOrder, Ordered
    <3> QED BY <3>1, OrderedInv
  <2>2. CASE CreateOrderRefused(a, c, side, quantity, mid)
    <3>1. UNCHANGED <<wallet, balance, posted, position, registered, tradingEnabled>>
      BY <2>2 DEF CreateOrderRefused, PostRefused
    <3> QED BY <3>1, UntouchedInv DEF IInv, TypeOK
  <2> QED BY <1>4, <2>1, <2>2
<1>5. ASSUME NEW p \in Positions, NEW mid \in MidPrices,
             ClosePosition(p, mid) \/ ClosePositionRefused(p, mid)
      PROVE  IInv'
  <2>1. CASE ClosePosition(p, mid)
    BY <2>1, ClosePositionInv
  <2>2. CASE ClosePositionRefused(p, mid)
    <3>1. UNCHANGED <<wallet, balance, posted, position, registered, tradingEnabled>>
      BY <2>2 DEF ClosePositionRefused, PostRefused
    <3> QED BY <3>1, UntouchedInv DEF IInv, TypeOK
  <2> QED BY <1>5, <2>1, <2>2
<1>6. CASE UNCHANGED vars
  <2>1. UNCHANGED <<wallet, balance, posted, position, registered, tradingEnabled>>
    BY <1>6 DEF vars, ledgerVars
  <2> QED BY <2>1, UntouchedInv DEF IInv, TypeOK
<1> QED BY <1>1, <1>2, <1>3, <1>4, <1>5, <1>6 DEF Next

(* Trading's inductive invariant holds throughout.                         *)
THEOREM Invariance == Spec => []IInv
BY InitInv, NextInv, PTL DEF Spec

-----------------------------------------------------------------------------
(* Every state of the books and positions is well formed.                  *)
THEOREM TypeCorrect == Spec => []TypeOK
<1>1. IInv => TypeOK
  BY DEF IInv
<1> QED BY Invariance, <1>1, PTL

(* Wallet projections are always what the posted entries add up to, modes  *)
(* neither create, lose nor lend each other money, and no sequence of      *)
(* commands overdraws a wallet.                                            *)
THEOREM BooksStayInOrder == Spec => []BooksInOrder
<1>1. IInv => BooksInOrder
  BY DEF IInv, BooksInOrder
<1> QED BY Invariance, <1>1, PTL

(* Locked funds are always exactly what the open positions cost.           *)
THEOREM LockedFundsBack == Spec => []LockedBacksPositions
<1>1. IInv => LockedBacksPositions
  BY DEF IInv
<1> QED BY Invariance, <1>1, PTL

(* Every position has its opening journal, and its closing one iff closed. *)
THEOREM JournalsMatch == Spec => []JournalsMatchPositions
<1>1. IInv => JournalsMatchPositions
  BY DEF IInv
<1> QED BY Invariance, <1>1, PTL

-----------------------------------------------------------------------------
(* One open position costs no more than its account has locked, and an     *)
(* account without open positions has nothing locked.                      *)
LEMMA ChecksPass == IInv => ProjectionChecksPass
<1> SUFFICES ASSUME IInv, NEW a \in Accounts
             PROVE  /\ \A p \in OpenPositions(a) : wallet[a].locked >= Notional(position[p])
                    /\ OpenPositions(a) = {} => wallet[a].locked = 0
  BY DEF ProjectionChecksPass
<1> DEFINE f == [p \in Positions |-> Held(p)]
<1>1. IsFiniteSet(PositionsOf(a)) /\ PositionsOf(a) \subseteq Positions
  BY PositionsFinite
<1>2. \A p \in PositionsOf(a) : f[p] = Held(p) /\ f[p] \in Nat
  BY <1>1, HeldNat DEF IInv
<1>3. wallet[a].locked = SumFunctionOnSet(f, PositionsOf(a))
  BY DEF IInv, LockedBacksPositions
<1> HIDE DEF f
<1>4. ASSUME NEW p \in OpenPositions(a) PROVE wallet[a].locked >= Notional(position[p])
  <2>1. p \in PositionsOf(a) /\ Held(p) = Notional(position[p])
    BY DEF OpenPositions, Held
  <2>2. f[p] <= SumFunctionOnSet(f, PositionsOf(a))
    BY <1>1, <1>2, <2>1, SumBounds
  <2>3. SumFunctionOnSet(f, PositionsOf(a)) \in Nat /\ f[p] \in Nat
    BY <1>1, <1>2, <2>1, SumBounds
  <2> QED BY <1>2, <1>3, <2>1, <2>2, <2>3
<1>5. ASSUME OpenPositions(a) = {} PROVE wallet[a].locked = 0
  <2>1. \A p \in PositionsOf(a) : f[p] = 0
    BY <1>2, <1>5 DEF OpenPositions, Held
  <2> QED BY <1>1, <1>3, <2>1, SumOfZeros
<1> QED BY <1>4, <1>5

(* The checks that guard against a broken projection never stop a customer.*)
THEOREM ChecksNeverStop == Spec => []ProjectionChecksPass
BY Invariance, ChecksPass, PTL

(* A settlement pays the profit or loss it records, to its account alone,  *)
(* and takes no more than the position locked.                             *)
THEOREM SettlementsPay == Spec => SettlementsPayTheirPnl
<1> DEFINE Pays ==
      \A p \in Positions :
        position[p].status = "OPEN" /\ position'[p].status = "CLOSED" =>
          /\ position'[p].pnl >= -Notional(position[p])
          /\ \A a \in Accounts :
               Equity(a)' - Equity(a) = IF a = AccountOf(p) THEN position'[p].pnl ELSE 0
<1>1. ASSUME IInv, [Next]_vars PROVE [Pays]_vars
  <2> SUFFICES ASSUME NEW p \in Positions,
                      position[p].status = "OPEN", position'[p].status = "CLOSED"
               PROVE  /\ position'[p].pnl >= -Notional(position[p])
                      /\ \A a \in Accounts :
                           Equity(a)' - Equity(a) = IF a = AccountOf(p) THEN position'[p].pnl ELSE 0
    OBVIOUS
  <2>1. LedgerTypeOK /\ position \in [Positions -> PositionRecords \cup {NoPosition}]
    BY <1>1 DEF IInv, TypeOK
  <2>2. PICK mid \in MidPrices : ClosePosition(p, mid)
    <3>1. position' # position
      OBVIOUS
    <3>2. ASSUME NEW q \in Positions, NEW mid \in MidPrices, ClosePosition(q, mid)
          PROVE  q = p
      BY <2>1, <3>2 DEF ClosePosition
    <3>3. ASSUME NEW b \in Accounts, NEW c \in ClientOrderIds, NEW side \in Sides,
                 NEW quantity \in Quantities, NEW mid \in MidPrices,
                 CreateOrder(b, c, side, quantity, mid)
          PROVE  FALSE
      <4>1. <<b, c>> \in Positions /\ position[<<b, c>>] = NoPosition
        BY <3>3 DEF CreateOrder, MayOrder, Positions
      <4>2. position'[<<b, c>>].status = "OPEN"
        BY <2>1, <3>3, <4>1 DEF CreateOrder
      <4>3. \A q \in Positions \ {<<b, c>>} : position'[q] = position[q]
        BY <2>1, <3>3, <4>1 DEF CreateOrder
      <4> QED BY <4>2, <4>3
    <3>4. PICK q \in Positions, mid \in MidPrices : ClosePosition(q, mid)
      BY <1>1, <3>1, <3>3
         DEF Next, vars, Register, SetTradingEnabled, ResetDemo, CreateOrderRefused,
             ClosePositionRefused
    <3> QED BY <3>2, <3>4
  <2> DEFINE a == AccountOf(p)
             notional == Notional(position[p])
             pnl == Pnl(position[p], Quote(mid, Opposite(position[p].side)))
  <2>3. position[p] \in PositionRecords
    BY <2>1 DEF NoPosition
  <2>4. notional \in Nat /\ pnl \in Int /\ pnl >= -notional
    BY <2>3, QuoteNat, PnlBounds
  <2>5. position'[p].pnl = pnl /\ MoveWallet(a, notional + pnl, -notional)
    BY <2>1, <2>2, <2>3 DEF ClosePosition, PositionRecords
  <2>6. a \in Accounts
    BY DEF Positions, AccountOf
  <2> HIDE DEF a, notional, pnl
  <2>7. notional + pnl \in Int /\ -notional \in Int
    BY <2>4
  <2>8. /\ wallet'[a].available = wallet[a].available + (notional + pnl)
        /\ wallet'[a].locked = wallet[a].locked + (-notional)
        /\ \A b \in Accounts \ {a} : wallet'[b] = wallet[b]
        /\ \A b \in Accounts : wallet[b].available \in Int /\ wallet[b].locked \in Int
    BY <2>1, <2>5, <2>6, <2>7, MovedWallet
  <2>9. \A b \in Accounts : Equity(b)' - Equity(b) = IF b = a THEN pnl ELSE 0
    BY <2>4, <2>6, <2>8 DEF Equity
  <2> QED BY <2>4, <2>5, <2>9 DEF a, notional
<1>2. SettlementsPayTheirPnl <=> [][Pays]_vars
  BY DEF SettlementsPayTheirPnl
<1> QED BY Invariance, <1>1, <1>2, PTL DEF Spec
=============================================================================
