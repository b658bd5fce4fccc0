---------------------------- MODULE PaperTrading ----------------------------
(***************************************************************************)
(* The web page's practice trading: cash, holdings and orders live in the  *)
(* page and are saved in localStorage after every change.  Limit orders    *)
(* wait in the page and are filled when the price on screen reaches them;  *)
(* what they will need is nowhere written, but added up from the open ones *)
(* whenever something is ordered.  Two windows share the storage and       *)
(* nothing else.                                                           *)
(*                                                                         *)
(* Quantities and prices are whole numbers; the page's are floating point, *)
(* compared with a tolerance of a thousandth of a cent.                    *)
(***************************************************************************)
EXTENDS Integers, FiniteSetsExt, SequencesExt

CONSTANTS
  TradeWindows,   \* windows the page is open in
  Coins,          \* instruments
  Prices,         \* what one may cost
  Quantities,     \* what is ordered at a time
  StartCash,      \* 100,000
  OrdersKept,     \* 100: the newest of the orders
  MaxOrders       \* bound on the orders placed

ASSUME PaperAssumption ==
  /\ Prices \subseteq Nat \ {0} /\ Quantities \subseteq Nat \ {0}
  /\ {StartCash, MaxOrders} \subseteq Nat /\ OrdersKept \in Nat \ {0}

VARIABLES
  paper,      \* window -> its DemoState
  savedPaper, \* the one in localStorage
  selected,   \* window -> the instrument on screen
  quoted,     \* window -> its price, or NoPrice
  placed      \* how many orders have been placed

paperVars == <<paper, savedPaper, selected, quoted, placed>>

NoPrice == 0
Initial == [cash |-> StartCash, holdings |-> [i \in Coins |-> 0], orders |-> <<>>]

PaperInit ==
  /\ paper = [w \in TradeWindows |-> Initial]
  /\ savedPaper = Initial
  /\ selected \in [TradeWindows -> Coins]
  /\ quoted = [w \in TradeWindows |-> NoPrice]
  /\ placed = 0

(* Orders: the filled ones matter for the length of the list only.         *)
OpenOrder(i, side, quantity, price) ==
  [status |-> "open", coin |-> i, side |-> side, quantity |-> quantity, price |-> price]
Filled == [status |-> "filled"]
OpenOrders(state) == {n \in DOMAIN state.orders : state.orders[n].status = "open"}

KeptOrders(orders) == SubSeq(orders, 1, Min({Len(orders), OrdersKept}))

(* fillOrder: the order goes to the front of the list, out of the rest.    *)
FillOrder(state, order, price, rest) ==
  LET cost == order.quantity * price
      owned == state.holdings[order.coin]
  IN  [cash |-> IF order.side = "buy" THEN state.cash - cost ELSE state.cash + cost,
       holdings |-> [state.holdings EXCEPT ![order.coin] =
                       IF order.side = "buy" THEN owned + order.quantity
                       ELSE Max({0, owned - order.quantity})],
       orders |-> KeptOrders(<<Filled>> \o rest)]

-----------------------------------------------------------------------------
(* What an order may still take, and all of the list together.             *)
CashFor(order) ==
  IF order.status = "open" /\ order.side = "buy" THEN order.quantity * order.price ELSE 0
HoldingFor(order, i) ==
  IF order.status = "open" /\ order.side = "sell" /\ order.coin = i THEN order.quantity ELSE 0

ReservedCash(state) ==
  SumFunction([n \in DOMAIN state.orders |-> CashFor(state.orders[n])])
ReservedHolding(state, i) ==
  SumFunction([n \in DOMAIN state.orders |-> HoldingFor(state.orders[n], i)])

(* Faulty: promises the same money to every order.                         *)
CoversUnreserved(state, order) ==
  IF order.side = "buy" THEN order.quantity * order.price <= state.cash
  ELSE order.quantity <= state.holdings[order.coin]

Covers(state, order) ==
  IF order.side = "buy"
  THEN order.quantity * order.price <= state.cash - ReservedCash(state)
  ELSE order.quantity <= state.holdings[order.coin] - ReservedHolding(state, order.coin)

Reached(order, price) ==
  IF order.side = "buy" THEN price <= order.price ELSE price >= order.price

(* Every change of the state is saved.                                     *)
Keep(w, state) ==
  /\ paper' = [paper EXCEPT ![w] = state]
  /\ savedPaper' = state

PlaceOrder(w) ==
  \E side \in {"buy", "sell"}, quantity \in Quantities, price \in Prices :
    LET order == OpenOrder(selected[w], side, quantity, price)
    IN  /\ placed < MaxOrders /\ placed' = placed + 1
        /\ quoted[w] # NoPrice
        /\ Covers(paper[w], order)
        /\ Keep(w, IF Reached(order, quoted[w])   \* a market order is one at the price
                   THEN FillOrder(paper[w], order, quoted[w], paper[w].orders)
                   ELSE [paper[w] EXCEPT !.orders = KeptOrders(<<order>> \o @)])
        /\ UNCHANGED <<selected, quoted>>

(* The effect of a price: the open orders it reaches, one after another,   *)
(* each found in the list by its id.  One that is filled moves to the      *)
(* front, so those behind it keep their places.                            *)
FillReached(state, i, price) ==
  LET IsDue(order) == order.status = "open" /\ order.coin = i /\ Reached(order, price)
      after[n \in 0..Len(state.orders)] ==
        IF n = 0 THEN state
        ELSE IF IsDue(state.orders[n])
             THEN FillOrder(after[n-1], state.orders[n], price, RemoveAt(after[n-1].orders, n))
             ELSE after[n-1]
  IN  after[Len(state.orders)]

PriceOnScreen(w) ==
  /\ \E price \in Prices :
       /\ quoted' = [quoted EXCEPT ![w] = price]
       /\ Keep(w, FillReached(paper[w], selected[w], price))
  /\ UNCHANGED <<selected, placed>>

(* The price of another instrument is not known yet.                       *)
Select(w) ==
  /\ \E i \in Coins \ {selected[w]} : selected' = [selected EXCEPT ![w] = i]
  /\ quoted' = [quoted EXCEPT ![w] = NoPrice]
  /\ UNCHANGED <<paper, savedPaper, placed>>

CancelOrder(w) ==
  /\ \E n \in OpenOrders(paper[w]) :
       Keep(w, [paper[w] EXCEPT !.orders = RemoveAt(@, n)])
  /\ UNCHANGED <<selected, quoted, placed>>

ResetDemo(w) == Keep(w, Initial) /\ UNCHANGED <<selected, quoted, placed>>

Reload(w) ==
  /\ paper' = [paper EXCEPT ![w] = savedPaper]
  /\ quoted' = [quoted EXCEPT ![w] = NoPrice]
  /\ UNCHANGED <<savedPaper, selected, placed>>

PaperNext ==
  \E w \in TradeWindows :
    \/ PlaceOrder(w) \/ PriceOnScreen(w) \/ Select(w)
    \/ CancelOrder(w) \/ ResetDemo(w) \/ Reload(w)

PaperSpec == PaperInit /\ [][PaperNext]_paperVars

-----------------------------------------------------------------------------
(* Whatever is ordered, filled, cancelled, pushed out of the list or       *)
(* loaded from another window's storage: the cash and the holdings cover   *)
(* all that the open orders may still take, at their worst.                *)
OrdersCovered ==
  \A w \in TradeWindows : \A state \in {paper[w], savedPaper} :
    /\ ReservedCash(state) <= state.cash
    /\ \A i \in Coins : ReservedHolding(state, i) <= state.holdings[i]
=============================================================================
