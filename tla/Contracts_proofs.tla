-------------------------- MODULE Contracts_proofs --------------------------
(***************************************************************************)
(* TimedContracts' safety, for any customers, keys, workers, prices, fees  *)
(* and times.  What is archived for a second never changes and is of a     *)
(* second that is over; a caller that waits for a price waits for the      *)
(* second its contract needs; so a contract's terms can be read back from  *)
(* the archive at any later time, and its outcome at none before.          *)
(***************************************************************************)
EXTENDS TimedContracts, Ledger_proofs, PriceArchive_proofs

USE PriceAssumption

(* A request waits for its own moment's price, a worker for the price at   *)
(* the expiry of the contract it is at.                                    *)
AskersInv ==
  /\ \A k \in Keys : asking[k] # Idle =>
       /\ request[k] # NoRequest
       /\ request[k] + terms[k].duration <= MaxTime
       /\ asking[k].second = Boundary(request[k])
  /\ \A w \in Workers : asking[w] # Idle =>
       /\ worker[w].batch # {}
       /\ contract[At(w)] # NoContract
       /\ asking[w].second = Boundary(contract[At(w)].expiry)

IInv == /\ ContractTypeOK /\ PricesInv /\ AskersInv
        /\ ContractFundsInOrder /\ SettledOnItsTerms

-----------------------------------------------------------------------------
(* The constants' types, and what a key of a run's plan asks for.          *)
LEMMA Constants ==
  /\ ContractIds \subseteq Nat \ {0} /\ IsFiniteSet(ContractIds)
  /\ Askers = Keys \cup Workers /\ Keys \cap Workers = {}
  /\ Grants \subseteq Nat \ {0}
  /\ FeeScale \in Nat \ {0} /\ FeeRates \subseteq 0..FeeScale
  /\ StaleAfter \in Nat
BY ContractAssumption

LEMMA PlanTerms ==
  ASSUME terms \in Plans, NEW k \in Keys
  PROVE  /\ terms[k].account \in Accounts /\ terms[k].direction \in {"UP", "DOWN"}
         /\ terms[k].stake \in Nat /\ terms[k].stake > 0 /\ terms[k].fee \in FeeRates
         /\ terms[k].duration \in Nat /\ terms[k].duration > StaleAfter
         /\ k \in Askers
BY ContractAssumption

(* The first and the last of some contract ids are among them.             *)
LEMMA EndsOfSet ==
  ASSUME NEW S \in SUBSET ContractIds, S # {}
  PROVE  Min(S) \in S /\ Max(S) \in S
<1> DEFINE HasEnds(T) == /\ \E x \in T : \A y \in T : x <= y
                         /\ \E x \in T : \A y \in T : x >= y
           C == {T \in SUBSET S : T # {} /\ ~HasEnds(T)}
<1>1. IsFiniteSet(S) /\ \A x \in S : x \in Nat
  BY Constants, FS_Subset
<1>2. C = {}
  <2> SUFFICES ASSUME C # {} PROVE FALSE
    OBVIOUS
  <2>1. PICK T \in C : \A U \in C : ~(U \subseteq T /\ U # T)
    <3>1. C \in SUBSET SUBSET S
      OBVIOUS
    <3> HIDE DEF C
    <3> QED BY <1>1, <3>1, MinimalSubset
  <2>2. PICK x \in T : TRUE
    OBVIOUS
  <2>3. T \ {x} \notin C
    BY <2>1, <2>2
  <2>4. CASE T = {x}
    BY <1>1, <2>1, <2>2, <2>4
  <2>5. CASE T # {x}
    <3>1. HasEnds(T \ {x})
      BY <2>1, <2>2, <2>3, <2>5
    <3>2. PICK low \in T \ {x}, high \in T \ {x} :
            \A y \in T \ {x} : low <= y /\ y <= high
      BY <3>1
    <3>3. \A y \in T : y \in Nat
      BY <1>1, <2>1
    <3>4. \E z \in T : \A y \in T : z <= y
      BY <2>2, <3>2, <3>3
    <3>5. \E z \in T : \A y \in T : z >= y
      BY <2>2, <3>2, <3>3
    <3> QED BY <2>1, <3>4, <3>5
  <2> QED BY <2>4, <2>5
<1>3. HasEnds(S)
  BY <1>2
<1> QED BY <1>3 DEF Min, Max

-----------------------------------------------------------------------------
(* Half up rounds a share of a natural amount to at most that amount.      *)
LEMMA HalfUpBounds ==
  ASSUME NEW n \in Nat, NEW d \in Nat \ {0}, NEW m \in Nat, n <= m * d
  PROVE  HalfUp(n, d) \in Nat /\ HalfUp(n, d) <= m
<1> DEFINE q == (2 * n + d) \div (2 * d)
           b == 2 * d
           a == 2 * n + d
<1>1. a \in Nat /\ b \in Nat /\ b > 0 /\ m + 1 \in Nat
  OBVIOUS
<1>2. q \in Int /\ b * q <= a /\ q >= 0
  <2> HIDE DEF a, b
  <2>1. a \div b \in Int /\ b * (a \div b) <= a /\ a \div b >= 0
    BY <1>1
  <2> QED BY <2>1 DEF a, b
<1>3. a < b * (m + 1)
  <2>1. m * d \in Nat /\ b * (m + 1) = 2 * (m * d) + 2 * d
    OBVIOUS
  <2> QED BY <2>1
<1>4. q <= m
  <2>1. q >= m + 1 => b * q >= b * (m + 1)
    <3> HIDE DEF q, b
    <3> QED BY <1>1, <1>2
  <2>2. b * q \in Int /\ b * (m + 1) \in Int /\ a \in Int
    BY <1>1, <1>2
  <2> HIDE DEF a, b, q
  <2> QED BY <1>2, <1>3, <2>1, <2>2
<1> QED BY <1>2, <1>4 DEF HalfUp

(* A settlement at a known price pays a whole number of cents, and a loser *)
(* no more than the stake.                                                 *)
LEMMA SettlementArithmetic ==
  ASSUME NEW c \in ContractRecords, NEW price \in Prices
  PROVE  /\ GrossReturn(c, price) \in Nat /\ ProfitFee(c, price) \in Nat
         /\ Payout(c, price) \in Nat
         /\ ResultAt(c, price) \in {"WIN", "LOSS", "DRAW"}
         /\ ResultAt(c, price) = "LOSS" => Payout(c, price) <= c.stake
<1>1. /\ c.stake \in Nat /\ c.entry \in Nat /\ c.entry > 0 /\ price \in Nat /\ price > 0
      /\ c.direction \in {"UP", "DOWN"} /\ c.fee \in Nat /\ c.fee <= FeeScale
      /\ FeeScale \in Nat \ {0}
  <2>1. /\ c.stake \in Nat /\ c.entry \in Prices /\ c.fee \in FeeRates
        /\ c.direction \in {"UP", "DOWN"}
    BY DEF ContractRecords
  <2>2. (\A rate \in FeeRates : rate \in 0..FeeScale) /\ FeeScale \in Nat \ {0}
    BY Constants
  <2>3. \A x \in Prices : x \in Nat /\ x > 0
    OBVIOUS
  <2>4. c.entry \in Nat /\ c.entry > 0 /\ price \in Nat /\ price > 0
    BY <2>1, <2>3
  <2>5. c.fee \in 0..FeeScale
    BY <2>1, <2>2
  <2>6. c.fee \in Nat /\ c.fee <= FeeScale
    BY <2>2, <2>5
  <2> QED BY <2>1, <2>2, <2>4, <2>6
<1> DEFINE moved == IF c.direction = "UP" THEN price ELSE 2 * c.entry - price
           gross == GrossReturn(c, price)
           profit == gross - c.stake
<1>2. moved \in Int /\ gross = IF moved <= 0 THEN 0 ELSE HalfUp(c.stake * moved, c.entry)
  <2>1. moved \in Int
    BY <1>1
  <2>2. gross = IF moved <= 0 THEN 0 ELSE HalfUp(c.stake * moved, c.entry)
    BY DEF GrossReturn
  <2> QED BY <2>1, <2>2
<1>3. gross \in Nat /\ (moved <= c.entry => gross <= c.stake)
  <2>1. CASE moved <= 0
    BY <1>1, <1>2, <2>1
  <2>2. CASE moved > 0
    <3> HIDE DEF moved, gross
    <3>1. gross = HalfUp(c.stake * moved, c.entry) /\ moved \in Nat
      BY <1>2, <2>2
    <3>2. c.stake * moved \in Nat /\ c.stake * moved <= (c.stake * moved) * c.entry
      BY <1>1, <3>1
    <3>3. gross \in Nat
      BY <1>1, <3>1, <3>2, HalfUpBounds
    <3>4. ASSUME moved <= c.entry PROVE gross <= c.stake
      <4>1. c.stake * moved <= c.stake * c.entry
        BY <1>1, <3>1, <3>4
      <4> QED BY <1>1, <3>1, <3>2, <4>1, HalfUpBounds
    <3> QED BY <3>3, <3>4
  <2> QED BY <1>2, <2>1, <2>2
<1> HIDE DEF gross
<1>4. ProfitFee(c, price) \in Nat /\ (profit > 0 => ProfitFee(c, price) <= profit)
      /\ (profit <= 0 => ProfitFee(c, price) = 0)
  <2>1. ProfitFee(c, price) = IF profit > 0 THEN HalfUp(profit * c.fee, FeeScale) ELSE 0
    BY DEF ProfitFee, gross
  <2>2. profit \in Int
    BY <1>1, <1>3
  <2>3. ASSUME profit > 0 PROVE HalfUp(profit * c.fee, FeeScale) \in 0..profit
    <3> HIDE DEF profit
    <3>1. profit \in Nat
      BY <2>2, <2>3
    <3>2. profit * c.fee \in Nat /\ profit * c.fee <= profit * FeeScale
      BY <1>1, <3>1
    <3> QED BY <1>1, <3>1, <3>2, HalfUpBounds
  <2> HIDE DEF profit
  <2> QED BY <2>1, <2>2, <2>3
<1>5. Payout(c, price) = gross - ProfitFee(c, price)
  BY DEF Payout, gross
<1>6. Payout(c, price) \in Nat /\ (moved <= c.entry => Payout(c, price) <= c.stake)
  <2> HIDE DEF moved
  <2> QED BY <1>1, <1>3, <1>4, <1>5
<1>7. ResultAt(c, price) \in {"WIN", "LOSS", "DRAW"}
  BY <1>1 DEF ResultAt
<1>8. ResultAt(c, price) = "LOSS" => moved <= c.entry
  BY <1>1 DEF ResultAt
<1> QED BY <1>3, <1>4, <1>6, <1>7, <1>8 DEF gross

-----------------------------------------------------------------------------
(* Money.  What a contract of a table reserves of an account, and the sum  *)
(* of it, however the account's contracts are picked out.                  *)
Reserve(table, id, a) ==
  IF table[id] # NoContract /\ table[id].account = a /\ table[id].result = "PENDING"
    THEN table[id].stake ELSE 0
Reserves(table, a) ==
  SumFunctionOnSet([id \in ContractIds |-> Reserve(table, id, a)], ContractIds)
ContractTable == [ContractIds -> ContractRecords \cup {NoContract}]

LEMMA ContractRow ==
  ASSUME NEW table \in ContractTable, NEW id \in ContractIds
  PROVE  /\ table[id] # NoContract <=> table[id] \in ContractRecords
         /\ table[id].result = "PENDING" => table[id] \in ContractRecords
         /\ table[id] \in ContractRecords =>
              /\ table[id].stake \in Nat /\ table[id].account \in Accounts
              /\ table[id].entered \in Times /\ table[id].expiry \in Times
              /\ table[id].entry \in Prices
         /\ \A a : Reserve(table, id, a) \in Nat
<1>1. NoContract.result = "NONE" /\ \A r \in ContractRecords : r.result # "NONE"
  BY DEF NoContract, ContractRecords
<1>2. table[id] \in ContractRecords \cup {NoContract}
  BY DEF ContractTable
<1>3. table[id] \in ContractRecords =>
        /\ table[id].stake \in Nat /\ table[id].account \in Accounts
        /\ table[id].entered \in Times /\ table[id].expiry \in Times
        /\ table[id].entry \in Prices
  BY DEF ContractRecords
<1>4. \A a : Reserve(table, id, a) \in Nat
  BY <1>2, <1>3 DEF Reserve
<1> QED BY <1>1, <1>2, <1>3, <1>4

LEMMA ReservesOfAccount ==
  ASSUME NEW table \in ContractTable, NEW a
  PROVE  SumFunctionOnSet([id \in ContractIds |->
                             IF table[id].result = "PENDING" THEN table[id].stake ELSE 0],
                          {id \in ContractIds : table[id] # NoContract /\ table[id].account = a})
           = Reserves(table, a)
<1> DEFINE f == [id \in ContractIds |->
                   IF table[id].result = "PENDING" THEN table[id].stake ELSE 0]
           S == {id \in ContractIds : table[id] # NoContract /\ table[id].account = a}
           g == [id \in ContractIds |-> Reserve(table, id, a)]
<1>1. S \in SUBSET ContractIds /\ IsFiniteSet(S) /\ IsFiniteSet(ContractIds)
  BY Constants, FS_Subset
<1>2. \A id \in ContractIds : g[id] \in Int
  BY ContractRow
<1>3. \A id \in S : f[id] = g[id]
  BY DEF Reserve
<1>4. \A id \in ContractIds \ S : g[id] = 0
  BY DEF Reserve
<1>5. \A id \in S : g[id] \in Int
  BY <1>1, <1>2
<1> HIDE DEF f, g, S
<1>6. SumFunctionOnSet(f, S) = SumFunctionOnSet(g, S)
  BY <1>1, <1>3, <1>5, SumSame
<1>7. SumFunctionOnSet(g, ContractIds) = SumFunctionOnSet(g, S)
  BY <1>1, <1>2, <1>4, SumSupport
<1> QED BY <1>6, <1>7 DEF Reserves, f, g, S

LEMMA BackingAsReserves ==
  ASSUME ContractTypeOK
  PROVE  LockedBacksContracts <=> \A a \in Accounts : wallet[a].locked = Reserves(contract, a)
<1>1. contract \in ContractTable
  BY DEF ContractTypeOK, ContractTable
<1> QED BY <1>1, ReservesOfAccount
        DEF LockedBacksContracts, Staked, Pending, ContractsOf

(* The same of the next state.                                             *)
LEMMA BackingAsReservesNext ==
  ASSUME ContractTypeOK'
  PROVE  LockedBacksContracts' <=>
           \A a \in Accounts : wallet'[a].locked = Reserves(contract', a)
<1>1. contract' \in ContractTable
  BY DEF ContractTypeOK, ContractTable
<1> QED BY <1>1, ReservesOfAccount
        DEF LockedBacksContracts, Staked, Pending, ContractsOf, Accounts

(* A step that changes one contract and, by what it reserves more or less, *)
(* what its account has locked.                                            *)
LEMMA BackingMoves ==
  ASSUME ContractTypeOK, ContractTypeOK', LockedBacksContracts,
         NEW id \in ContractIds, NEW a \in Accounts,
         \A other \in ContractIds \ {id} : contract'[other] = contract[other],
         \A b \in Accounts \ {a} : /\ wallet'[b].locked = wallet[b].locked
                                   /\ Reserve(contract', id, b) = Reserve(contract, id, b),
         wallet'[a].locked = wallet[a].locked
                               + (Reserve(contract', id, a) - Reserve(contract, id, a))
  PROVE  LockedBacksContracts'
<1>1. contract \in ContractTable /\ contract' \in ContractTable
  BY DEF ContractTypeOK, ContractTable
<1>2. ASSUME NEW b \in Accounts
      PROVE  Reserves(contract', b)
               = Reserves(contract, b) + (Reserve(contract', id, b) - Reserve(contract, id, b))
  <2> DEFINE f == [x \in ContractIds |-> Reserve(contract, x, b)]
             e == [x \in ContractIds |-> Reserve(contract', x, b)]
  <2>1. \A x \in ContractIds : f[x] \in Int /\ e[x] \in Int
    BY <1>1, ContractRow
  <2>2. \A x \in ContractIds \ {id} : e[x] = f[x]
    BY DEF Reserve
  <2>3. e[id] = Reserve(contract', id, b) /\ f[id] = Reserve(contract, id, b)
    OBVIOUS
  <2>4. IsFiniteSet(ContractIds)
    BY Constants
  <2>5. SumFunctionOnSet(e, ContractIds) = SumFunctionOnSet(f, ContractIds) + (e[id] - f[id])
    <3> HIDE DEF e, f
    <3> QED BY <2>1, <2>2, <2>4, SumChangeOne
  <2> QED BY <2>3, <2>5 DEF Reserves
<1>3. \A b \in Accounts : wallet[b].locked = Reserves(contract, b)
  BY BackingAsReserves
<1>4. \A b \in Accounts : Reserve(contract', id, b) \in Int /\ wallet[b].locked \in Int
  BY <1>1, ContractRow DEF ContractTypeOK, LedgerTypeOK
<1>5. \A b \in Accounts : wallet'[b].locked = Reserves(contract', b)
  <2>1. ASSUME NEW b \in Accounts PROVE wallet'[b].locked = Reserves(contract', b)
    <3>1. CASE b = a
      BY <1>2, <1>3, <3>1
    <3>2. CASE b # a
      <4>1. /\ wallet'[b].locked = wallet[b].locked
            /\ Reserve(contract', id, b) = Reserve(contract, id, b)
        BY <3>2
      <4> QED BY <1>2, <1>3, <1>4, <4>1
    <3> QED BY <3>1, <3>2
  <2> QED BY <2>1
<1> QED BY <1>5, BackingAsReservesNext

-----------------------------------------------------------------------------
(* A contract that stays as it is stays on its terms.                      *)
LEMMA TermsKept ==
  ASSUME ContractTypeOK, ArchiveGrows, NEW id \in ContractIds, OnItsTerms(id),
         contract'[id] = contract[id],
         <<"timed-open", id>> \in posted' <=> <<"timed-open", id>> \in posted,
         <<"timed-settle", id>> \in posted' <=> <<"timed-settle", id>> \in posted
  PROVE  OnItsTerms(id)'
<1>1. contract \in ContractTable
  BY DEF ContractTypeOK, ContractTable
<1>2. CASE contract[id] = NoContract
  BY <1>2 DEF OnItsTerms
<1>3. CASE contract[id] # NoContract
  <2> DEFINE c == contract[id]
  <2>1. /\ c.entered \in Times /\ c.expiry \in Times /\ c.entry \in Prices
        /\ Unknown \notin Prices
    BY <1>1, <1>3, ContractRow DEF Unknown
  <2>2. Boundary(c.entered) \in Seconds /\ Boundary(c.expiry) \in Seconds
    <3> HIDE DEF c
    <3> QED BY <2>1 DEF Boundary, Times, Seconds
  <2>3. archive[Boundary(c.entered)] = c.entry
    BY <1>3 DEF OnItsTerms
  <2>4. archive'[Boundary(c.entered)] = c.entry
    <3> HIDE DEF c
    <3> QED BY <2>1, <2>2, <2>3 DEF ArchiveGrows
  <2>5. CASE <<"timed-settle", id>> \in posted
    <3>1. archive[Boundary(c.expiry)] # Unknown
      BY <2>5 DEF OnItsTerms
    <3>2. archive'[Boundary(c.expiry)] = archive[Boundary(c.expiry)]
      BY <2>2, <3>1 DEF ArchiveGrows
    <3> QED BY <1>3, <2>4, <3>2 DEF OnItsTerms
  <2>6. CASE <<"timed-settle", id>> \notin posted
    BY <1>3, <2>4, <2>6 DEF OnItsTerms
  <2> QED BY <2>5, <2>6
<1> QED BY <1>2, <1>3

(* A step that moves no money and writes no contract.                      *)
LEMMA WaitingInv ==
  ASSUME IInv, UNCHANGED <<wallet, balance, posted, terms, contract>>,
         PriceTypeOK', PricesInv', ArchiveGrows,
         request' \in [Keys -> Times \cup {NoRequest}],
         worker' \in [Workers -> [cursor : ContractIds \cup {0}, batch : SUBSET ContractIds]],
         feeRate' \in FeeRates, AskersInv'
  PROVE  IInv'
<1>1. ContractTypeOK'
  BY DEF IInv, ContractTypeOK, LedgerTypeOK
<1>2. BooksInOrder'
  BY DEF IInv, ContractFundsInOrder, BooksInOrder, ProjectionsReconcile, ModesConserve,
         NoOverdraft
<1>3. LockedBacksContracts'
  BY DEF IInv, ContractFundsInOrder, LockedBacksContracts, ContractsOf, Staked, Pending
<1>4. \A id \in ContractIds : OnItsTerms(id)'
  BY TermsKept DEF IInv, SettledOnItsTerms
<1> QED BY <1>1, <1>2, <1>3, <1>4 DEF IInv, ContractFundsInOrder, SettledOnItsTerms

(* A caller's part of AskersInv.                                           *)
RequestWaits(k) ==
  asking[k] # Idle => /\ request[k] # NoRequest
                      /\ request[k] + terms[k].duration <= MaxTime
                      /\ asking[k].second = Boundary(request[k])
WorkerWaits(w) ==
  asking[w] # Idle => /\ worker[w].batch # {}
                      /\ contract[At(w)] # NoContract
                      /\ asking[w].second = Boundary(contract[At(w)].expiry)

LEMMA AskersByCaller ==
  /\ AskersInv <=> (\A k \in Keys : RequestWaits(k)) /\ (\A w \in Workers : WorkerWaits(w))
  /\ AskersInv' <=> (\A k \in Keys : RequestWaits(k)') /\ (\A w \in Workers : WorkerWaits(w)')
BY DEF AskersInv, RequestWaits, WorkerWaits

LEMMA RequestStillWaits ==
  ASSUME NEW k \in Keys, RequestWaits(k), asking'[k] = asking[k], request'[k] = request[k],
         terms' = terms
  PROVE  RequestWaits(k)'
BY DEF RequestWaits

LEMMA WorkerStillWaits ==
  ASSUME ContractTypeOK, NEW w \in Workers, WorkerWaits(w), asking'[w] = asking[w],
         worker'[w] = worker[w],
         \A id \in ContractIds : contract[id] # NoContract =>
           contract'[id] # NoContract /\ contract'[id].expiry = contract[id].expiry
  PROVE  WorkerWaits(w)'
<1>1. asking[w] # Idle => At(w) \in ContractIds
  <2>1. worker[w].batch \in SUBSET ContractIds
    BY DEF ContractTypeOK
  <2> QED BY <2>1, EndsOfSet DEF WorkerWaits, At
<1>2. At(w)' = At(w)
  BY DEF At
<1> QED BY <1>1, <1>2 DEF WorkerWaits

(* What every proof about a step starts from.                              *)
LEMMA Parts ==
  ASSUME IInv
  PROVE  /\ PriceTypeOK /\ PricesInv /\ LedgerTypeOK /\ terms \in Plans
         /\ \A k \in Keys : RequestWaits(k) /\ k \in Askers /\ k \notin Workers
         /\ \A w \in Workers : WorkerWaits(w) /\ w \in Askers /\ w \notin Keys
         /\ request \in [Keys -> Times \cup {NoRequest}]
         /\ worker \in [Workers -> [cursor : ContractIds \cup {0}, batch : SUBSET ContractIds]]
         /\ feeRate \in FeeRates /\ contract \in ContractTable /\ now \in Times
<1>1. Askers = Keys \cup Workers /\ Keys \cap Workers = {}
  BY Constants
<1> QED BY <1>1, AskersByCaller DEF IInv, ContractTypeOK, ContractTable, PriceTypeOK

LEMMA TickInv ==
  ASSUME IInv, Tick, UNCHANGED <<ledgerVars, request, contractUnchanged>>
  PROVE  IInv'
<1>1. /\ UNCHANGED <<wallet, balance, posted, terms, contract>>
      /\ UNCHANGED <<request, worker, feeRate>>
  BY DEF ledgerVars, contractUnchanged
<1>2. PriceTypeOK' /\ PricesInv' /\ ArchiveGrows /\ UNCHANGED asking
  BY Parts, TickPrices
<1>3. AskersInv'
  BY <1>1, <1>2 DEF IInv, AskersInv, At
<1> QED BY <1>1, <1>2, <1>3, Parts, WaitingInv

LEMMA SetFeeInv ==
  ASSUME IInv, NEW rate \in FeeRates, SetFee(rate)
  PROVE  IInv'
<1>1. /\ UNCHANGED <<wallet, balance, posted, terms, contract>> /\ feeRate' = rate
      /\ UNCHANGED <<request, worker, now, archive, asking>>
  BY DEF SetFee, ledgerVars, priceVars
<1>2. PriceTypeOK' /\ PricesInv' /\ ArchiveGrows
  BY <1>1, Parts DEF PriceTypeOK, PricesInv, Quoted, ArchiveGrows
<1>3. AskersInv'
  BY <1>1 DEF IInv, AskersInv, At
<1> QED BY <1>1, <1>2, <1>3, Parts, WaitingInv

LEMMA SubmitInv ==
  ASSUME IInv, NEW k \in Keys, Submit(k)
  PROVE  IInv'
<1>1. /\ UNCHANGED <<wallet, balance, posted, terms, contract>> /\ UNCHANGED <<worker, feeRate>>
      /\ AskFor(k, now) /\ now + terms[k].duration <= MaxTime
      /\ request' = [request EXCEPT ![k] = now]
  BY DEF Submit, ledgerVars, contractUnchanged
<1>2. now \in Times /\ now <= now /\ k \in Askers
  BY Parts DEF Times
<1>3. /\ PriceTypeOK' /\ PricesInv' /\ ArchiveGrows /\ asking'[k].second = Boundary(now)
      /\ \A q \in Askers \ {k} : asking'[q] = asking[q]
  BY <1>1, <1>2, Parts, AskPrices
<1>4. /\ request' \in [Keys -> Times \cup {NoRequest}] /\ request'[k] = now
      /\ \A j \in Keys \ {k} : request'[j] = request[j]
  BY <1>1, <1>2, Parts
<1>5. RequestWaits(k)'
  BY <1>1, <1>2, <1>3, <1>4 DEF RequestWaits, NoRequest, Times
<1>6. \A j \in Keys \ {k} : RequestWaits(j)'
  BY <1>1, <1>3, <1>4, Parts, RequestStillWaits
<1>7. \A w \in Workers : WorkerWaits(w)'
  <2>1. \A w \in Workers : asking'[w] = asking[w]
    BY <1>3, Parts
  <2> QED BY <1>1, <2>1, Parts, WorkerStillWaits DEF IInv
<1> QED BY <1>1, <1>3, <1>4, <1>5, <1>6, <1>7, AskersByCaller, Parts, WaitingInv

LEMMA RequestFailsInv ==
  ASSUME IInv, NEW k \in Keys, RequestFails(k)
  PROVE  IInv'
<1>1. /\ UNCHANGED <<wallet, balance, posted, terms, contract>> /\ UNCHANGED <<worker, feeRate>>
      /\ Done(k) /\ request' = [request EXCEPT ![k] = NoRequest]
  BY DEF RequestFails, ledgerVars, contractUnchanged
<1>2. /\ PriceTypeOK' /\ PricesInv' /\ ArchiveGrows /\ asking'[k] = Idle
      /\ \A q \in Askers \ {k} : asking'[q] = asking[q]
  BY <1>1, Parts, DonePrices
<1>3. /\ request' \in [Keys -> Times \cup {NoRequest}]
      /\ \A j \in Keys \ {k} : request'[j] = request[j]
  BY <1>1, Parts
<1>4. RequestWaits(k)'
  BY <1>2 DEF RequestWaits
<1>5. \A j \in Keys \ {k} : RequestWaits(j)'
  BY <1>1, <1>2, <1>3, Parts, RequestStillWaits
<1>6. \A w \in Workers : WorkerWaits(w)'
  <2>1. \A w \in Workers : asking'[w] = asking[w]
    BY <1>2, Parts
  <2> QED BY <1>1, <2>1, Parts, WorkerStillWaits DEF IInv
<1> QED BY <1>1, <1>2, <1>3, <1>4, <1>5, <1>6, AskersByCaller, Parts, WaitingInv

LEMMA LoadPriceInv ==
  ASSUME IInv, NEW p \in Askers, LoadPrice(p)
  PROVE  IInv'
<1>1. /\ UNCHANGED <<wallet, balance, posted, terms, contract>>
      /\ UNCHANGED <<request, worker, feeRate>> /\ Load(p)
  BY DEF LoadPrice, ledgerVars, contractUnchanged
<1>2. /\ PriceTypeOK' /\ PricesInv' /\ ArchiveGrows
      /\ asking[p] # Idle /\ asking'[p].second = asking[p].second
      /\ \A q \in Askers \ {p} : asking'[q] = asking[q]
  BY <1>1, Parts, LoadPrices
<1>3. \A k \in Keys : RequestWaits(k)'
  BY <1>1, <1>2, Parts DEF RequestWaits
<1>4. \A w \in Workers : WorkerWaits(w)'
  BY <1>1, <1>2, Parts DEF WorkerWaits, At
<1> QED BY <1>1, <1>2, <1>3, <1>4, AskersByCaller, Parts, WaitingInv

-----------------------------------------------------------------------------
(* A worker's step that leaves it waiting for nothing.                     *)
LEMMA WorkerMovesOn ==
  ASSUME IInv, NEW w \in Workers, UNCHANGED <<wallet, balance, posted, terms, contract>>,
         UNCHANGED <<request, feeRate>>,
         NEW r \in [cursor : ContractIds \cup {0}, batch : SUBSET ContractIds],
         worker' = [worker EXCEPT ![w] = r],
         PriceTypeOK', PricesInv', ArchiveGrows, asking'[w] = Idle,
         \A q \in Askers \ {w} : asking'[q] = asking[q]
  PROVE  IInv'
<1>1. /\ worker' \in [Workers -> [cursor : ContractIds \cup {0}, batch : SUBSET ContractIds]]
      /\ \A v \in Workers \ {w} : worker'[v] = worker[v]
  BY Parts
<1>2. \A k \in Keys : RequestWaits(k)'
  BY Parts, RequestStillWaits
<1>3. WorkerWaits(w)'
  BY DEF WorkerWaits
<1>4. \A v \in Workers \ {w} : WorkerWaits(v)'
  BY <1>1, Parts, WorkerStillWaits DEF IInv
<1> QED BY <1>1, <1>2, <1>3, <1>4, AskersByCaller, Parts, WaitingInv

(* The next worker state of a batch that is part of the contracts.         *)
LEMMA NextBatchInv ==
  ASSUME IInv, NEW w \in Workers, NextBatch(w)
  PROVE  IInv'
<1> DEFINE batch == DueAfter(worker[w].cursor)
           r == [cursor |-> IF batch = {} THEN 0 ELSE Max(batch), batch |-> batch]
<1>1. /\ UNCHANGED <<wallet, balance, posted, terms, contract>> /\ UNCHANGED <<request, feeRate>>
      /\ UNCHANGED <<now, archive, asking>> /\ worker[w].batch = {}
      /\ worker' = [worker EXCEPT ![w] = r]
  BY DEF NextBatch, Working, ledgerVars, priceVars
<1>2. batch \in SUBSET ContractIds
  BY DEF DueAfter
<1>3. r \in [cursor : ContractIds \cup {0}, batch : SUBSET ContractIds]
  <2> HIDE DEF batch
  <2> QED BY <1>2, EndsOfSet
<1> HIDE DEF r
<1>4. PriceTypeOK' /\ PricesInv' /\ ArchiveGrows
  BY <1>1, Parts DEF PriceTypeOK, PricesInv, Quoted, ArchiveGrows
<1>5. asking[w] = Idle
  BY <1>1, Parts DEF WorkerWaits
<1> QED BY <1>1, <1>3, <1>4, <1>5, WorkerMovesOn

LEMMA RestOfBatch ==
  ASSUME IInv, NEW w \in Workers
  PROVE  [cursor |-> worker[w].cursor, batch |-> worker[w].batch \ {At(w)}]
           \in [cursor : ContractIds \cup {0}, batch : SUBSET ContractIds]
<1>1. worker[w] \in [cursor : ContractIds \cup {0}, batch : SUBSET ContractIds]
  BY Parts
<1> QED BY <1>1

LEMMA PassOverInv ==
  ASSUME IInv, NEW w \in Workers, PassOver(w)
  PROVE  IInv'
<1> DEFINE r == [cursor |-> worker[w].cursor, batch |-> worker[w].batch \ {At(w)}]
<1>1. /\ UNCHANGED <<wallet, balance, posted, terms, contract>> /\ UNCHANGED <<request, feeRate>>
      /\ UNCHANGED <<now, archive, asking>> /\ asking[w] = Idle
      /\ worker' = [worker EXCEPT ![w] = r]
  BY DEF PassOver, NextInBatch, Working, ledgerVars, priceVars
<1>2. r \in [cursor : ContractIds \cup {0}, batch : SUBSET ContractIds]
  BY RestOfBatch
<1> HIDE DEF r
<1>3. PriceTypeOK' /\ PricesInv' /\ ArchiveGrows
  BY <1>1, Parts DEF PriceTypeOK, PricesInv, Quoted, ArchiveGrows
<1> QED BY <1>1, <1>2, <1>3, WorkerMovesOn

LEMMA SettlementFailsInv ==
  ASSUME IInv, NEW w \in Workers, SettlementFails(w)
  PROVE  IInv'
<1> DEFINE r == [cursor |-> worker[w].cursor, batch |-> worker[w].batch \ {At(w)}]
<1>1. /\ UNCHANGED <<wallet, balance, posted, terms, contract>> /\ UNCHANGED <<request, feeRate>>
      /\ Done(w) /\ worker' = [worker EXCEPT ![w] = r]
  BY DEF SettlementFails, NextInBatch, Working, ledgerVars
<1>2. r \in [cursor : ContractIds \cup {0}, batch : SUBSET ContractIds]
  BY RestOfBatch
<1> HIDE DEF r
<1>3. /\ PriceTypeOK' /\ PricesInv' /\ ArchiveGrows /\ asking'[w] = Idle
      /\ \A q \in Askers \ {w} : asking'[q] = asking[q]
  BY <1>1, Parts, DonePrices
<1> QED BY <1>1, <1>2, <1>3, WorkerMovesOn

LEMMA RestartInv ==
  ASSUME IInv, NEW w \in Workers, Restart(w)
  PROVE  IInv'
<1>1. /\ UNCHANGED <<wallet, balance, posted, terms, contract>> /\ UNCHANGED <<request, feeRate>>
      /\ Done(w) /\ worker' = [worker EXCEPT ![w] = FreshWorker]
  BY DEF Restart, ledgerVars
<1>2. FreshWorker \in [cursor : ContractIds \cup {0}, batch : SUBSET ContractIds]
  BY DEF FreshWorker
<1>3. /\ PriceTypeOK' /\ PricesInv' /\ ArchiveGrows /\ asking'[w] = Idle
      /\ \A q \in Askers \ {w} : asking'[q] = asking[q]
  BY <1>1, Parts, DonePrices
<1> QED BY <1>1, <1>2, <1>3, WorkerMovesOn

LEMMA ExamineInv ==
  ASSUME IInv, NEW w \in Workers, Examine(w)
  PROVE  IInv'
<1> DEFINE c == contract[At(w)]
<1>1. /\ UNCHANGED <<wallet, balance, posted, terms, contract>>
      /\ UNCHANGED <<request, worker, feeRate>> /\ worker[w].batch # {}
      /\ c.result = "PENDING" /\ c.expiry <= now /\ AskFor(w, c.expiry)
  BY DEF Examine, Due, Pending, ledgerVars, contractUnchanged
<1>2. At(w) \in ContractIds
  <2>1. worker[w].batch \in SUBSET ContractIds
    BY Parts
  <2> QED BY <1>1, <2>1, EndsOfSet DEF At
<1>3. c # NoContract /\ c.expiry \in Times
  BY <1>1, <1>2, Parts, ContractRow
<1> HIDE DEF c
<1>4. /\ PriceTypeOK' /\ PricesInv' /\ ArchiveGrows /\ asking'[w].second = Boundary(c.expiry)
      /\ \A q \in Askers \ {w} : asking'[q] = asking[q]
  BY <1>1, <1>3, Parts, AskPrices
<1>5. \A k \in Keys : RequestWaits(k)'
  BY <1>1, <1>4, Parts, RequestStillWaits
<1>6. WorkerWaits(w)'
  BY <1>1, <1>3, <1>4 DEF WorkerWaits, At, c
<1>7. \A v \in Workers \ {w} : WorkerWaits(v)'
  BY <1>1, <1>4, Parts, WorkerStillWaits DEF IInv
<1> QED BY <1>1, <1>4, <1>5, <1>6, <1>7, AskersByCaller, Parts, WaitingInv

-----------------------------------------------------------------------------
(* Money comes in, and no contract or caller moves.                        *)
LEMMA FundInv ==
  ASSUME IInv, NEW a \in Accounts, NEW grant \in Grants, Fund(a, grant)
  PROVE  IInv'
<1> DEFINE journal == Debit(Control(ModeOf(a)), grant) ++ Credit(Available(a), grant)
<1>1. /\ Post(<<"fund", a>>, journal) /\ MoveWallet(a, grant, 0)
      /\ UNCHANGED <<now, archive, asking>>
      /\ UNCHANGED <<terms, contract, request, worker, feeRate>>
  BY DEF Fund, priceVars, contractUnchanged
<1>2. grant \in Int /\ grant > 0 /\ -grant \in Int
  <2>1. grant \in Nat \ {0}
    BY Constants
  <2> QED BY <2>1
<1>3. /\ DOMAIN journal = {Available(a), Control(ModeOf(a))}
      /\ journal[Available(a)] = grant /\ journal[Control(ModeOf(a))] = -grant
  <2>1. Available(a) # Control(ModeOf(a))
    BY DistinctLines
  <2> QED BY <2>1 DEF Debit, Credit, ++
<1> HIDE DEF journal
<1>4. LedgerTypeOK /\ ProjectionsReconcile /\ ModesConserve /\ NoOverdraft
  BY Parts DEF IInv, ContractFundsInOrder, BooksInOrder
<1>5. LedgerTypeOK' /\ ProjectionsReconcile' /\ ModesConserve'
  <2>1. \A l \in DOMAIN journal : journal[l] \in Int
    BY <1>2, <1>3
  <2>2. DOMAIN journal \subseteq {Available(a), Locked(a)} \cup PlatformAccounts(ModeOf(a))
    BY <1>3, DistinctLines
  <2>3. Locked(a) \notin DOMAIN journal
    BY <1>3, DistinctLines
  <2>4. 0 \in Int
    OBVIOUS
  <2> QED BY <1>1, <1>2, <1>3, <1>4, <2>1, <2>2, <2>3, <2>4, BooksKept
<1>6. /\ wallet'[a].available = wallet[a].available + grant
      /\ wallet'[a].locked = wallet[a].locked
      /\ \A b \in Accounts \ {a} : wallet'[b] = wallet[b]
      /\ \A b \in Accounts : wallet[b].available \in Int /\ wallet[b].locked \in Int
  <2>1. 0 \in Int
    OBVIOUS
  <2>2. /\ wallet'[a].available = wallet[a].available + grant
        /\ wallet'[a].locked = wallet[a].locked + 0
        /\ \A b \in Accounts \ {a} : wallet'[b] = wallet[b]
        /\ \A b \in Accounts : wallet[b].available \in Int /\ wallet[b].locked \in Int
    BY <1>1, <1>2, <1>4, <2>1, MovedWallet
  <2> QED BY <2>2
<1>7. NoOverdraft'
  BY <1>2, <1>4, <1>6 DEF NoOverdraft
<1>8. PriceTypeOK' /\ PricesInv' /\ ArchiveGrows
  BY <1>1, Parts DEF PriceTypeOK, PricesInv, Quoted, ArchiveGrows
<1>9. ContractTypeOK'
  BY <1>1, <1>5, <1>8 DEF IInv, ContractTypeOK
<1>10. LockedBacksContracts'
  <2>1. \A b \in Accounts : wallet'[b].locked = wallet[b].locked
    BY <1>6
  <2>2. \A b \in Accounts : wallet[b].locked = Reserves(contract, b)
    BY BackingAsReserves DEF IInv, ContractFundsInOrder
  <2> QED BY <1>1, <1>9, <2>1, <2>2, BackingAsReservesNext
<1>11. \A id \in ContractIds : OnItsTerms(id)'
  <2>1. posted' = posted \cup {<<"fund", a>>}
    BY <1>1 DEF Post
  <2>2. ASSUME NEW id \in ContractIds PROVE OnItsTerms(id)'
    <3>1. <<"timed-open", id>> # <<"fund", a>> /\ <<"timed-settle", id>> # <<"fund", a>>
      OBVIOUS
    <3> QED BY <1>1, <1>8, <2>1, <3>1, TermsKept DEF IInv, SettledOnItsTerms
  <2> QED BY <2>2
<1>12. AskersInv'
  BY <1>1 DEF IInv, AskersInv, At
<1> QED BY <1>5, <1>7, <1>8, <1>9, <1>10, <1>11, <1>12
        DEF IInv, ContractFundsInOrder, BooksInOrder, SettledOnItsTerms

-----------------------------------------------------------------------------
(* A step that moves money and changes one contract.                       *)
LEMMA ContractMoves ==
  ASSUME IInv, NEW id \in ContractIds, NEW a \in Accounts,
         LedgerTypeOK', ProjectionsReconcile', ModesConserve', NoOverdraft',
         PriceTypeOK', PricesInv', ArchiveGrows, AskersInv', ContractTypeOK',
         \A other \in ContractIds \ {id} : contract'[other] = contract[other],
         \A b \in Accounts \ {a} : /\ wallet'[b].locked = wallet[b].locked
                                   /\ Reserve(contract', id, b) = Reserve(contract, id, b),
         wallet'[a].locked = wallet[a].locked
                               + (Reserve(contract', id, a) - Reserve(contract, id, a)),
         NEW kind \in {"timed-open", "timed-settle"},
         posted' = posted \cup {<<kind, id>>},
         OnItsTerms(id)'
  PROVE  IInv'
<1>1. LockedBacksContracts'
  BY BackingMoves DEF IInv, ContractFundsInOrder
<1>2. ASSUME NEW other \in ContractIds \ {id} PROVE OnItsTerms(other)'
  <2>1. <<"timed-open", other>> # <<kind, id>> /\ <<"timed-settle", other>> # <<kind, id>>
    OBVIOUS
  <2> QED BY <2>1, TermsKept DEF IInv, SettledOnItsTerms
<1>3. SettledOnItsTerms'
  BY <1>2 DEF SettledOnItsTerms
<1> QED BY <1>1, <1>3 DEF IInv, ContractFundsInOrder, BooksInOrder

LEMMA OpenContractInv ==
  ASSUME IInv, NEW k \in Keys, NEW id \in ContractIds, OpenContract(k, id)
  PROVE  IInv'
<1> DEFINE a == terms[k].account
           stake == terms[k].stake
           journal == Debit(Available(a), stake) ++ Credit(Locked(a), stake)
           r == [result |-> "PENDING", key |-> k, account |-> a, stake |-> stake,
                 direction |-> terms[k].direction, fee |-> feeRate,
                 entry |-> asking[k].price, entered |-> request[k],
                 expiry |-> request[k] + terms[k].duration, payout |-> 0]
<1>1. /\ Quoted(k) /\ MayOpen(k) /\ contract[id] = NoContract
      /\ Post(<<"timed-open", id>>, journal) /\ MoveWallet(a, -stake, stake)
      /\ contract' = [contract EXCEPT ![id] = r]
      /\ request' = [request EXCEPT ![k] = NoRequest]
      /\ Done(k) /\ UNCHANGED <<terms, worker, feeRate>>
  BY DEF OpenContract
<1>2. /\ a \in Accounts /\ terms[k].direction \in {"UP", "DOWN"} /\ stake \in Nat /\ stake > 0
      /\ terms[k].duration \in Nat /\ k \in Askers
  BY Parts, PlanTerms
<1>3. /\ request[k] \in Times /\ request[k] + terms[k].duration \in Times
      /\ asking[k].price \in Prices /\ asking[k].price = archive[Boundary(request[k])]
  <2>1. asking[k] # Idle
    BY <1>1 DEF Quoted, Idle
  <2>2. /\ request[k] # NoRequest /\ request[k] + terms[k].duration <= MaxTime
        /\ asking[k].second = Boundary(request[k])
    BY <2>1, Parts DEF RequestWaits
  <2>3. request[k] \in Times
    BY <2>2, Parts
  <2>4. request[k] + terms[k].duration \in Times
    BY <1>2, <2>2, <2>3 DEF Times
  <2>5. asking[k].price \in Prices \cup {Unknown} /\ asking[k].price # Unknown
        /\ asking[k].price = archive[asking[k].second]
    BY <1>1, <1>2, Parts DEF PriceTypeOK, PricesInv
  <2> QED BY <2>2, <2>3, <2>4, <2>5
<1>4. r \in ContractRecords /\ r.result = "PENDING"
  <2>1. feeRate \in FeeRates
    BY Parts
  <2> QED BY <1>2, <1>3, <2>1 DEF ContractRecords
<1>5. /\ DOMAIN journal = {Available(a), Locked(a)}
      /\ journal[Available(a)] = -stake /\ journal[Locked(a)] = stake
  <2> HIDE DEF a, stake
  <2>1. Available(a) # Locked(a)
    BY <1>2, DistinctLines
  <2> QED BY <2>1 DEF Debit, Credit, ++
<1>6. r.account = a /\ r.stake = stake /\ r.entry = archive[Boundary(request[k])]
      /\ r.entered = request[k]
  BY <1>3
<1>7. stake <= wallet[a].available
  BY <1>1 DEF MayOpen
<1> HIDE DEF a, stake, journal, r
<1>8. LedgerTypeOK /\ ProjectionsReconcile /\ ModesConserve /\ NoOverdraft
  BY Parts DEF IInv, ContractFundsInOrder, BooksInOrder
<1>9. stake \in Int /\ -stake \in Int
  BY <1>2
<1>10. LedgerTypeOK' /\ ProjectionsReconcile' /\ ModesConserve'
  <2>1. \A l \in DOMAIN journal : journal[l] \in Int
    BY <1>5, <1>9
  <2> QED BY <1>1, <1>2, <1>5, <1>8, <1>9, <2>1, BooksKept
<1>11. /\ wallet'[a].available = wallet[a].available + (-stake)
       /\ wallet'[a].locked = wallet[a].locked + stake
       /\ \A b \in Accounts \ {a} : wallet'[b] = wallet[b]
       /\ \A b \in Accounts : wallet[b].available \in Int /\ wallet[b].locked \in Int
  BY <1>1, <1>2, <1>8, <1>9, MovedWallet
<1>12. NoOverdraft'
  BY <1>2, <1>7, <1>8, <1>11 DEF NoOverdraft
<1>13. /\ contract' \in ContractTable /\ contract'[id] = r
       /\ \A other \in ContractIds \ {id} : contract'[other] = contract[other]
  BY <1>1, <1>4, Parts DEF ContractTable
<1>14. /\ PriceTypeOK' /\ PricesInv' /\ ArchiveGrows /\ UNCHANGED <<now, archive>>
       /\ asking'[k] = Idle /\ \A q \in Askers \ {k} : asking'[q] = asking[q]
  BY <1>1, <1>2, Parts, DonePrices
<1>15. ContractTypeOK'
  <2>1. request' \in [Keys -> Times \cup {NoRequest}]
    BY <1>1, Parts
  <2> QED BY <1>1, <1>10, <1>13, <1>14, <2>1, Parts DEF ContractTypeOK, ContractTable
<1>16. AskersInv'
  <2>1. RequestWaits(k)'
    BY <1>14 DEF RequestWaits
  <2>2. ASSUME NEW j \in Keys \ {k} PROVE RequestWaits(j)'
    <3>1. request'[j] = request[j]
      BY <1>1, Parts
    <3> QED BY <1>1, <1>14, <3>1, Parts, RequestStillWaits
  <2>3. \A w \in Workers : WorkerWaits(w)'
    <3>1. \A w \in Workers : asking'[w] = asking[w]
      BY <1>14, Parts
    <3>2. \A other \in ContractIds : contract[other] # NoContract =>
            contract'[other] # NoContract /\ contract'[other].expiry = contract[other].expiry
      BY <1>1, <1>13
    <3> QED BY <1>1, <3>1, <3>2, Parts, WorkerStillWaits DEF IInv
  <2> QED BY <2>1, <2>2, <2>3, AskersByCaller
<1>17. contract'[id] # NoContract /\ contract'[id].result = "PENDING"
  BY <1>4, <1>13, ContractRow
<1>18. /\ \A b \in Accounts \ {a} : Reserve(contract', id, b) = Reserve(contract, id, b)
       /\ Reserve(contract', id, a) = stake /\ Reserve(contract, id, a) = 0
  BY <1>1, <1>6, <1>13, <1>17 DEF Reserve
<1>19. posted' = posted \cup {<<"timed-open", id>>}
  BY <1>1 DEF Post
<1>20. OnItsTerms(id)'
  <2>1. <<"timed-settle", id>> \notin posted
    BY <1>1 DEF IInv, SettledOnItsTerms, OnItsTerms
  <2>2. <<"timed-settle", id>> # <<"timed-open", id>>
    OBVIOUS
  <2>3. <<"timed-settle", id>> \notin posted' /\ <<"timed-open", id>> \in posted'
    BY <1>19, <2>1, <2>2
  <2>4. contract'[id].entry = archive'[Boundary(contract'[id].entered)]
    BY <1>6, <1>13, <1>14
  <2> QED BY <1>17, <2>3, <2>4 DEF OnItsTerms
<1>21. wallet'[a].locked = wallet[a].locked
                              + (Reserve(contract', id, a) - Reserve(contract, id, a))
  BY <1>2, <1>11, <1>18
<1>22. \A b \in Accounts \ {a} : wallet'[b].locked = wallet[b].locked
  BY <1>11
<1> QED BY <1>2, <1>10, <1>12, <1>13, <1>14, <1>15, <1>16, <1>18, <1>19, <1>20, <1>21, <1>22,
           ContractMoves

(* What a settlement posts: whole cents, on the lines of the contract's     *)
(* account and its mode's platform accounts.                               *)
LEMMA SettlementLines ==
  ASSUME NEW c \in ContractRecords, NEW price \in Prices
  PROVE  LET journal == ContractJournal(c, price)
             a       == c.account
         IN  /\ \A l \in DOMAIN journal : journal[l] \in Int
             /\ DOMAIN journal \subseteq {Available(a), Locked(a)} \cup PlatformAccounts(ModeOf(a))
             /\ (IF Available(a) \in DOMAIN journal THEN journal[Available(a)] ELSE 0)
                  = Payout(c, price)
             /\ (IF Locked(a) \in DOMAIN journal THEN journal[Locked(a)] ELSE 0) = -c.stake
<1> DEFINE a == c.account
           m == ModeOf(a)
           paid == CreditUnlessZero(Available(a), Payout(c, price))
           fees == CreditUnlessZero(Fees(m), ProfitFee(c, price))
           rest == CreditUnlessZero(Counterparty(m), c.stake - GrossReturn(c, price))
           stake == Debit(Locked(a), c.stake)
           two == stake ++ paid
           three == two ++ fees
           journal == three ++ rest
<1>1. /\ c.stake \in Nat /\ a \in Accounts
      /\ Payout(c, price) \in Nat /\ ProfitFee(c, price) \in Nat
      /\ c.stake - GrossReturn(c, price) \in Int
  <2>1. c.stake \in Nat /\ a \in Accounts
    BY DEF ContractRecords
  <2>2. GrossReturn(c, price) \in Nat /\ ProfitFee(c, price) \in Nat /\ Payout(c, price) \in Nat
    BY SettlementArithmetic
  <2> QED BY <2>1, <2>2
<1>2. ContractJournal(c, price) = journal
  BY DEF ContractJournal
<1>3. ASSUME NEW l, NEW amount \in Int
      PROVE  /\ DOMAIN CreditUnlessZero(l, amount) = IF amount = 0 THEN {} ELSE {l}
             /\ \A x \in DOMAIN CreditUnlessZero(l, amount) : CreditUnlessZero(l, amount)[x] = amount
  BY DEF CreditUnlessZero, NoLine, Credit
<1>4. /\ Available(a) # Locked(a)
      /\ Available(a) \notin PlatformAccounts(m) /\ Locked(a) \notin PlatformAccounts(m)
      /\ Fees(m) \in PlatformAccounts(m) /\ Counterparty(m) \in PlatformAccounts(m)
  BY <1>1, DistinctLines DEF PlatformAccounts
<1>5. DOMAIN stake = {Locked(a)} /\ stake[Locked(a)] = -c.stake
  BY DEF Debit
<1>6. /\ DOMAIN paid = (IF Payout(c, price) = 0 THEN {} ELSE {Available(a)})
      /\ \A x \in DOMAIN paid : paid[x] = Payout(c, price)
      /\ DOMAIN fees \subseteq {Fees(m)} /\ \A x \in DOMAIN fees : fees[x] = ProfitFee(c, price)
      /\ DOMAIN rest \subseteq {Counterparty(m)}
      /\ \A x \in DOMAIN rest : rest[x] = c.stake - GrossReturn(c, price)
  <2>1. Payout(c, price) \in Int /\ ProfitFee(c, price) \in Int
    BY <1>1
  <2> HIDE DEF a, m
  <2> QED BY <1>1, <1>3, <2>1
<1> HIDE DEF a, m, stake, paid, fees, rest
<1>7. /\ DOMAIN two = {Locked(a)} \cup DOMAIN paid
      /\ \A x \in DOMAIN two : two[x] = IF x = Locked(a) THEN -c.stake ELSE Payout(c, price)
  <2>1. /\ DOMAIN (stake ++ paid) = DOMAIN stake \cup DOMAIN paid
        /\ \A x \in DOMAIN (stake ++ paid) :
             (stake ++ paid)[x] = IF x \in DOMAIN stake THEN stake[x] ELSE paid[x]
    BY DEF ++
  <2>2. two = stake ++ paid
    OBVIOUS
  <2> HIDE DEF two
  <2> QED BY <2>1, <2>2, <1>5, <1>6
<1> HIDE DEF two
<1>8. /\ DOMAIN three = DOMAIN two \cup DOMAIN fees
      /\ \A x \in DOMAIN three : three[x] = IF x \in DOMAIN two THEN two[x] ELSE ProfitFee(c, price)
  <2>1. /\ DOMAIN (two ++ fees) = DOMAIN two \cup DOMAIN fees
        /\ \A x \in DOMAIN (two ++ fees) :
             (two ++ fees)[x] = IF x \in DOMAIN two THEN two[x] ELSE fees[x]
    BY DEF ++
  <2>2. three = two ++ fees
    OBVIOUS
  <2> HIDE DEF three
  <2> QED BY <2>1, <2>2, <1>6
<1> HIDE DEF three
<1>9. /\ DOMAIN journal = DOMAIN three \cup DOMAIN rest
       /\ \A x \in DOMAIN journal : journal[x] = IF x \in DOMAIN three THEN three[x]
                                                 ELSE c.stake - GrossReturn(c, price)
  <2>1. /\ DOMAIN (three ++ rest) = DOMAIN three \cup DOMAIN rest
        /\ \A x \in DOMAIN (three ++ rest) :
             (three ++ rest)[x] = IF x \in DOMAIN three THEN three[x] ELSE rest[x]
    BY DEF ++
  <2>2. journal = three ++ rest
    OBVIOUS
  <2> HIDE DEF journal
  <2> QED BY <2>1, <2>2, <1>6
<1> HIDE DEF journal
<1>10. \A l \in DOMAIN journal : journal[l] \in Int
  <2>1. -c.stake \in Int /\ Payout(c, price) \in Int /\ ProfitFee(c, price) \in Int
    BY <1>1
  <2> QED BY <1>1, <1>7, <1>8, <1>9, <2>1
<1>11. DOMAIN journal \subseteq {Available(a), Locked(a)} \cup PlatformAccounts(m)
  BY <1>4, <1>6, <1>7, <1>8, <1>9
<1>12. Locked(a) \in DOMAIN journal /\ journal[Locked(a)] = -c.stake
  BY <1>7, <1>8, <1>9
<1>13. (IF Available(a) \in DOMAIN journal THEN journal[Available(a)] ELSE 0) = Payout(c, price)
  BY <1>4, <1>6, <1>7, <1>8, <1>9
<1> QED BY <1>2, <1>10, <1>11, <1>12, <1>13 DEF a, m

(* A settlement's outcome depends on the contract's terms alone.           *)
LEMMA OutcomeOfTerms ==
  ASSUME NEW c, NEW r, NEW price, r.direction = c.direction, r.entry = c.entry,
         r.stake = c.stake, r.fee = c.fee
  PROVE  ResultAt(r, price) = ResultAt(c, price) /\ Payout(r, price) = Payout(c, price)
<1>1. GrossReturn(r, price) = GrossReturn(c, price)
  BY DEF GrossReturn
<1>2. ProfitFee(r, price) = ProfitFee(c, price)
  BY <1>1 DEF ProfitFee
<1> QED BY <1>1, <1>2 DEF ResultAt, Payout

LEMMA SettleInv ==
  ASSUME IInv, NEW w \in Workers, NEW id \in ContractIds, id = At(w), Settle(w)
  PROVE  IInv'
<1> DEFINE c == contract[id]
           a == c.account
           price == asking[w].price
           result == ResultAt(c, price)
           payout == Payout(c, price)
           journal == ContractJournal(c, price)
           r == [c EXCEPT !.result = result, !.payout = payout]
           rest == [cursor |-> worker[w].cursor, batch |-> worker[w].batch \ {id}]
<1>1. /\ Quoted(w) /\ c.result = "PENDING" /\ wallet[a].locked >= c.stake
      /\ Post(<<"timed-settle", id>>, journal) /\ MoveWallet(a, payout, -c.stake)
      /\ contract' = [contract EXCEPT ![id].result = result, ![id].payout = payout]
      /\ Done(w) /\ worker' = [worker EXCEPT ![w] = rest] /\ UNCHANGED <<terms, request, feeRate>>
  BY DEF Settle, MaySettle, Pending, SettleWallet, NextInBatch, Working
<1>2. /\ c # NoContract /\ w \in Askers /\ asking[w] # Idle
      /\ asking[w].second = Boundary(c.expiry)
  <2>1. asking[w] # Idle
    BY <1>1 DEF Quoted, Idle
  <2>2. w \in Askers /\ c # NoContract /\ asking[w].second = Boundary(c.expiry)
    BY <2>1, Parts DEF WorkerWaits
  <2> QED BY <2>1, <2>2
<1>3. c \in ContractRecords /\ c.stake \in Nat /\ a \in Accounts
  BY <1>2, Parts, ContractRow
<1>4. /\ price \in Prices /\ price # Unknown /\ price = archive[Boundary(c.expiry)]
  <2>1. price \in Prices \cup {Unknown} /\ price # Unknown /\ price = archive[asking[w].second]
    BY <1>1, <1>2, Parts DEF PriceTypeOK, PricesInv
  <2> QED BY <1>2, <2>1
<1>5. /\ payout \in Nat /\ result \in {"WIN", "LOSS", "DRAW"}
      /\ result = "LOSS" => payout <= c.stake
  <2> HIDE DEF c, price
  <2> QED BY <1>3, <1>4, SettlementArithmetic
<1>6. /\ \A l \in DOMAIN journal : journal[l] \in Int
      /\ DOMAIN journal \subseteq {Available(a), Locked(a)} \cup PlatformAccounts(ModeOf(a))
      /\ (IF Available(a) \in DOMAIN journal THEN journal[Available(a)] ELSE 0) = payout
      /\ (IF Locked(a) \in DOMAIN journal THEN journal[Locked(a)] ELSE 0) = -c.stake
  <2> HIDE DEF c, price
  <2> QED BY <1>3, <1>4, SettlementLines
<1> HIDE DEF c, price, result, payout, journal
<1>7. /\ r \in ContractRecords /\ r.result = result /\ r.payout = payout /\ r.account = a
      /\ r.direction = c.direction /\ r.entry = c.entry /\ r.stake = c.stake /\ r.fee = c.fee
      /\ r.entered = c.entered /\ r.expiry = c.expiry
  BY <1>3, <1>5 DEF ContractRecords
<1>8. /\ contract' \in ContractTable /\ contract'[id] = r
      /\ \A other \in ContractIds \ {id} : contract'[other] = contract[other]
  <2>1. contract' = [contract EXCEPT ![id] = r]
    BY <1>1, <1>2, Parts DEF c, ContractTable
  <2> HIDE DEF r
  <2> QED BY <1>2, <1>7, <2>1, Parts DEF ContractTable
<1> HIDE DEF r, a
<1>9. LedgerTypeOK /\ ProjectionsReconcile /\ ModesConserve /\ NoOverdraft
  BY Parts DEF IInv, ContractFundsInOrder, BooksInOrder
<1>10. payout \in Int /\ -c.stake \in Int
  BY <1>3, <1>5
<1>11. LedgerTypeOK' /\ ProjectionsReconcile' /\ ModesConserve'
  BY <1>1, <1>3, <1>6, <1>9, <1>10, BooksKept
<1>12. /\ wallet'[a].available = wallet[a].available + payout
       /\ wallet'[a].locked = wallet[a].locked + (-c.stake)
       /\ \A b \in Accounts \ {a} : wallet'[b] = wallet[b]
       /\ \A b \in Accounts : wallet[b].available \in Int /\ wallet[b].locked \in Int
  BY <1>1, <1>3, <1>9, <1>10, MovedWallet
<1>13. NoOverdraft'
  <2>1. wallet[a].locked >= c.stake
    BY <1>1
  <2> QED BY <1>3, <1>5, <1>9, <1>12, <2>1 DEF NoOverdraft
<1>14. /\ PriceTypeOK' /\ PricesInv' /\ ArchiveGrows /\ UNCHANGED <<now, archive>>
       /\ asking'[w] = Idle /\ \A q \in Askers \ {w} : asking'[q] = asking[q]
  BY <1>1, <1>2, Parts, DonePrices
<1>15. /\ worker' \in [Workers -> [cursor : ContractIds \cup {0}, batch : SUBSET ContractIds]]
       /\ \A v \in Workers \ {w} : worker'[v] = worker[v]
  <2>1. rest \in [cursor : ContractIds \cup {0}, batch : SUBSET ContractIds]
    BY RestOfBatch
  <2> HIDE DEF rest
  <2> QED BY <1>1, <2>1, Parts
<1>16. ContractTypeOK'
  BY <1>1, <1>8, <1>11, <1>14, <1>15, Parts DEF ContractTypeOK, ContractTable
<1>17. contract'[id] # NoContract /\ contract'[id].result # "PENDING"
  BY <1>2, <1>5, <1>7, <1>8, ContractRow
<1>18. AskersInv'
  <2>1. ASSUME NEW k \in Keys PROVE RequestWaits(k)'
    BY <1>1, <1>14, Parts, RequestStillWaits
  <2>2. WorkerWaits(w)'
    BY <1>14 DEF WorkerWaits
  <2>3. ASSUME NEW v \in Workers \ {w} PROVE WorkerWaits(v)'
    <3>1. \A other \in ContractIds : contract[other] # NoContract =>
            contract'[other] # NoContract /\ contract'[other].expiry = contract[other].expiry
      BY <1>7, <1>8, <1>17 DEF c
    <3>2. asking'[v] = asking[v] /\ worker'[v] = worker[v] /\ WorkerWaits(v)
      BY <1>14, <1>15, Parts
    <3> QED BY <3>1, <3>2, WorkerStillWaits DEF IInv
  <2> QED BY <2>1, <2>2, <2>3, AskersByCaller
<1>19. /\ \A b \in Accounts \ {a} : Reserve(contract', id, b) = Reserve(contract, id, b)
       /\ Reserve(contract', id, a) = 0 /\ Reserve(contract, id, a) = c.stake
  BY <1>1, <1>2, <1>17 DEF Reserve, c, a
<1>20. posted' = posted \cup {<<"timed-settle", id>>}
  BY <1>1 DEF Post
<1>21. OnItsTerms(id)'
  <2>1. c.entry = archive[Boundary(c.entered)] /\ <<"timed-open", id>> \in posted
    BY <1>2 DEF IInv, SettledOnItsTerms, OnItsTerms, c
  <2>2. <<"timed-settle", id>> \in posted' /\ <<"timed-open", id>> \in posted'
    BY <1>20, <2>1
  <2>3. /\ contract'[id].entry = archive'[Boundary(contract'[id].entered)]
        /\ archive'[Boundary(contract'[id].expiry)] = price
    BY <1>4, <1>7, <1>8, <1>14, <2>1
  <2>4. /\ contract'[id].result = ResultAt(contract'[id], price)
        /\ contract'[id].payout = Payout(contract'[id], price)
    BY <1>7, <1>8, OutcomeOfTerms DEF result, payout
  <2>5. /\ contract'[id].payout >= 0
        /\ contract'[id].result = "LOSS" => contract'[id].payout <= contract'[id].stake
    BY <1>5, <1>7, <1>8
  <2> QED BY <1>4, <1>17, <2>2, <2>3, <2>4, <2>5 DEF OnItsTerms
<1>22. wallet'[a].locked = wallet[a].locked
                              + (Reserve(contract', id, a) - Reserve(contract, id, a))
  BY <1>3, <1>12, <1>19
<1>23. \A b \in Accounts \ {a} : wallet'[b].locked = wallet[b].locked
  BY <1>12
<1> QED BY <1>2, <1>3, <1>8, <1>11, <1>13, <1>14, <1>16, <1>18, <1>19, <1>20, <1>21, <1>22,
           <1>23, ContractMoves

-----------------------------------------------------------------------------
LEMMA InitInv == ContractInit => IInv
<1> SUFFICES ASSUME ContractInit PROVE IInv
  OBVIOUS
<1>1. /\ LedgerInit /\ PriceInit /\ terms \in Plans /\ feeRate \in FeeRates
      /\ contract = [id \in ContractIds |-> NoContract]
      /\ request = [k \in Keys |-> NoRequest] /\ worker = [w \in Workers |-> FreshWorker]
  BY DEF ContractInit
<1>2. PriceTypeOK /\ (\A t \in Seconds : archive[t] = Unknown) /\ \A p \in Askers : asking[p] = Idle
  <2>1. 1 \in Times /\ 0 \in 0..MaxTime - 1
    BY DEF Times
  <2> QED BY <1>1, <2>1 DEF PriceInit, PriceTypeOK, Idle, Seconds
<1>3. PricesInv
  BY <1>2 DEF PricesInv, Quoted, Idle
<1>4. \A id \in ContractIds : contract[id] = NoContract /\ contract[id].result = "NONE"
  BY <1>1 DEF NoContract
<1>5. ContractTypeOK
  <2>1. LedgerTypeOK
    BY <1>1 DEF LedgerInit, LedgerTypeOK
  <2> QED BY <1>1, <1>2, <2>1 DEF ContractTypeOK, FreshWorker
<1>6. AskersInv
  BY <1>2, Constants DEF AskersInv
<1>7. BooksInOrder
  <2>1. ProjectionsReconcile
    BY <1>1, AccountChart, Charts DEF LedgerInit, ProjectionsReconcile
  <2>2. ASSUME NEW m \in Modes PROVE SumFunctionOnSet(balance, ChartOf(m)) = 0
    <3>1. IsFiniteSet(ChartOf(m)) /\ \A l \in ChartOf(m) : balance[l] = 0
      BY <1>1, Charts DEF LedgerInit
    <3> QED BY <3>1, SumOfZeros
  <2>3. NoOverdraft
    BY <1>1 DEF LedgerInit, NoOverdraft
  <2> QED BY <2>1, <2>2, <2>3 DEF BooksInOrder, ModesConserve
<1>8. LockedBacksContracts
  <2>1. ASSUME NEW a \in Accounts PROVE wallet[a].locked = Reserves(contract, a)
    <3> DEFINE f == [id \in ContractIds |-> Reserve(contract, id, a)]
    <3>1. \A id \in ContractIds : f[id] = 0
      BY <1>4 DEF Reserve
    <3>2. IsFiniteSet(ContractIds)
      BY Constants
    <3>3. SumFunctionOnSet(f, ContractIds) = 0
      <4> HIDE DEF f
      <4> QED BY <3>1, <3>2, SumOfZeros
    <3>4. wallet[a].locked = 0
      BY <1>1 DEF LedgerInit
    <3> QED BY <3>3, <3>4 DEF Reserves
  <2> QED BY <1>5, <2>1, BackingAsReserves
<1>9. SettledOnItsTerms
  <2>1. posted = {}
    BY <1>1 DEF LedgerInit
  <2> QED BY <1>4, <2>1 DEF SettledOnItsTerms, OnItsTerms
<1> QED BY <1>3, <1>5, <1>6, <1>7, <1>8, <1>9 DEF IInv, ContractFundsInOrder

LEMMA WorkerStepInv ==
  ASSUME IInv, NEW w \in Workers, WorkerStep(w)
  PROVE  IInv'
<1>1. CASE NextBatch(w)
  BY <1>1, NextBatchInv
<1>2. CASE Examine(w)
  BY <1>2, ExamineInv
<1>3. CASE PassOver(w)
  BY <1>3, PassOverInv
<1>4. CASE SettlementFails(w)
  BY <1>4, SettlementFailsInv
<1>5. CASE LoadPrice(w)
  BY <1>5, Parts, LoadPriceInv
<1>6. CASE Settle(w)
  <2>1. asking[w] # Idle
    BY <1>6 DEF Settle, Quoted, Idle
  <2>2. worker[w].batch # {} /\ worker[w].batch \in SUBSET ContractIds
    BY <2>1, Parts DEF WorkerWaits
  <2>3. PICK id \in ContractIds : id = At(w)
    BY <2>2, EndsOfSet DEF At
  <2> QED BY <1>6, <2>3, SettleInv
<1> QED BY <1>1, <1>2, <1>3, <1>4, <1>5, <1>6 DEF WorkerStep

LEMMA NextInv == IInv /\ [ContractNext]_contractVars => IInv'
<1> SUFFICES ASSUME IInv, [ContractNext]_contractVars PROVE IInv'
  OBVIOUS
<1>1. ASSUME Tick /\ UNCHANGED <<ledgerVars, request, contractUnchanged>> PROVE IInv'
  BY <1>1, TickInv
<1>2. ASSUME NEW a \in Accounts, NEW grant \in Grants, Fund(a, grant) PROVE IInv'
  BY <1>2, FundInv
<1>3. ASSUME NEW rate \in FeeRates, SetFee(rate) PROVE IInv'
  BY <1>3, SetFeeInv
<1>4. ASSUME NEW k \in Keys,
             \/ Submit(k) \/ LoadPrice(k) \/ RequestFails(k)
             \/ \E id \in ContractIds : OpenContract(k, id)
      PROVE  IInv'
  BY <1>4, Parts, SubmitInv, LoadPriceInv, RequestFailsInv, OpenContractInv
<1>5. ASSUME NEW w \in Workers, WorkerStep(w) \/ Restart(w) PROVE IInv'
  BY <1>5, WorkerStepInv, RestartInv
<1>6. CASE UNCHANGED contractVars
  <2>1. /\ UNCHANGED <<wallet, balance, posted, terms, contract>>
        /\ UNCHANGED <<request, worker, feeRate, now, archive, asking>>
    BY <1>6 DEF contractVars, ledgerVars, priceVars
  <2>2. PriceTypeOK' /\ PricesInv' /\ ArchiveGrows
    BY <2>1, Parts DEF PriceTypeOK, PricesInv, Quoted, ArchiveGrows
  <2>3. AskersInv'
    BY <2>1 DEF IInv, AskersInv, At
  <2> QED BY <2>1, <2>2, <2>3, Parts, WaitingInv
<1> QED BY <1>1, <1>2, <1>3, <1>4, <1>5, <1>6 DEF ContractNext

(* Timed contracts' inductive invariant holds throughout.                  *)
THEOREM Invariance == ContractSpec => []IInv
BY InitInv, NextInv, PTL DEF ContractSpec

-----------------------------------------------------------------------------
(* Contracts, requests, workers, prices and the books are well formed, and *)
(* every settlement pays a whole number of cents.                          *)
THEOREM TypesHold == ContractSpec => []ContractTypeOK
<1>1. IInv => ContractTypeOK
  BY DEF IInv
<1> QED BY Invariance, <1>1, PTL

(* Wallets are always what the journals say, modes conserve their money,   *)
(* nothing is overdrawn, and what an account has locked is what its        *)
(* pending contracts staked.                                               *)
THEOREM StakesBacked == ContractSpec => []ContractFundsInOrder
<1>1. IInv => ContractFundsInOrder
  BY DEF IInv
<1> QED BY Invariance, <1>1, PTL

(* Every contract is entered and settled once, at the archived prices of   *)
(* its own two seconds and at its own fee, and costs at most its stake.    *)
THEOREM TermsHonoured == ContractSpec => []SettledOnItsTerms
<1>1. IInv => SettledOnItsTerms
  BY DEF IInv
<1> QED BY Invariance, <1>1, PTL

(* No contract is ever opened when the price it settles at could be known. *)
THEOREM OutcomeUnknown == ContractSpec => NoForeknowledge
<1> DEFINE Blind ==
      \A id \in ContractIds :
        contract[id] = NoContract /\ contract'[id] # NoContract =>
          /\ now < contract'[id].expiry
          /\ archive[Boundary(contract'[id].expiry)] = Unknown
<1>1. ASSUME IInv, [ContractNext]_contractVars PROVE [Blind]_contractVars
  <2> SUFFICES ASSUME NEW id \in ContractIds,
                      contract[id] = NoContract, contract'[id] # NoContract
               PROVE  /\ now < contract'[id].expiry
                      /\ archive[Boundary(contract'[id].expiry)] = Unknown
    OBVIOUS
  <2>1. contract' # contract
    OBVIOUS
  <2>2. ASSUME NEW w \in Workers, Settle(w) PROVE FALSE
    <3>1. contract[At(w)].result = "PENDING" /\ NoContract.result = "NONE"
      BY <2>2 DEF Settle, MaySettle, Pending, NoContract
    <3>2. id # At(w)
      BY <3>1
    <3>3. contract'[id] = contract[id]
      BY <1>1, <2>2, <3>2, Parts DEF Settle, ContractTable
    <3> QED BY <3>3
  <2>3. ASSUME NEW w \in Workers, WorkerStep(w) \/ Restart(w) PROVE FALSE
    <3>1. ~NextBatch(w) /\ ~PassOver(w) /\ ~SettlementFails(w) /\ ~Restart(w)
      BY <2>1 DEF NextBatch, PassOver, SettlementFails, Restart
    <3>2. ~Examine(w) /\ ~LoadPrice(w)
      BY <2>1 DEF Examine, LoadPrice, contractUnchanged
    <3> QED BY <2>2, <2>3, <3>1, <3>2 DEF WorkerStep
  <2>4. PICK k \in Keys, j \in ContractIds : OpenContract(k, j)
    <3>1. /\ ~(Tick /\ UNCHANGED <<ledgerVars, request, contractUnchanged>>)
          /\ \A a, grant : ~Fund(a, grant)
          /\ \A rate : ~SetFee(rate)
          /\ \A k : ~Submit(k) /\ ~LoadPrice(k) /\ ~RequestFails(k)
      BY <2>1 DEF Fund, SetFee, Submit, LoadPrice, RequestFails, contractUnchanged
    <3>2. ContractNext
      BY <1>1, <2>1 DEF contractVars
    <3> QED BY <2>3, <3>1, <3>2 DEF ContractNext
  <2> DEFINE expiry == request[k] + terms[k].duration
  <2>5. j = id /\ contract'[id].expiry = expiry
    BY <1>1, <2>4, Parts DEF OpenContract, ContractTable
  <2>6. asking[k] # Idle /\ now - request[k] <= StaleAfter
    BY <2>4 DEF OpenContract, MayOpen, Quoted, Idle
  <2>7. request[k] \in Times /\ expiry <= MaxTime
    BY <1>1, <2>6, Parts DEF RequestWaits
  <2>8. /\ terms[k].duration \in Nat /\ terms[k].duration > StaleAfter
        /\ StaleAfter \in Nat /\ now \in Nat /\ request[k] \in Nat /\ request[k] >= 1
    BY <1>1, <2>7, Parts, PlanTerms, Constants DEF Times
  <2>9. now < expiry /\ expiry - 1 \in Seconds /\ ~(expiry - 1 < now)
    BY <2>6, <2>7, <2>8 DEF Seconds
  <2>10. archive[expiry - 1] = Unknown
    BY <1>1, <2>9, Parts DEF PricesInv
  <2> QED BY <2>5, <2>9, <2>10 DEF Boundary
<1>2. NoForeknowledge <=> [][Blind]_contractVars
  BY DEF NoForeknowledge
<1> QED BY Invariance, <1>1, <1>2, PTL DEF ContractSpec
=============================================================================
