-------------------------- MODULE Predictions_proofs -------------------------
(***************************************************************************)
(* Predictions' safety, for any customers, stakes, questions, prices and   *)
(* times.  A settler that comes back with a price has the one archived for *)
(* its question's expiry; whether a question is still open says whether    *)
(* its stakes are pending, so whoever resolves it first resolves all of    *)
(* them, and every other way to resolve it is closed from then on.         *)
(***************************************************************************)
EXTENDS Predictions, Ledger_proofs, PriceArchive_proofs

USE PriceAssumption

(* A settler that awaits a price awaits the one at its question's expiry.  *)
Awaits(p) ==
  asking[p] # Idle => /\ settling[p] \in Questions
                      /\ question[settling[p]] # NoQuestion
                      /\ asking[p].second = Boundary(question[settling[p]].expires)
SettlersInv == \A p \in Settlers : Awaits(p)

(* A settled question keeps the outcome its archived price gives.          *)
OutcomeKept(q) ==
  question[q].status = "SETTLED" =>
    /\ archive[Boundary(question[q].expires)] # Unknown
    /\ question[q].outcome = OutcomeAt(archive[Boundary(question[q].expires)])
OutcomesInv == \A q \in Questions : OutcomeKept(q)

(* Which journals of a stake are posted, and what its row and its          *)
(* question's row say.                                                     *)
OpenKey(s)   == <<"prediction-open", s>>
SettleKey(s) == <<"prediction-settle", s>>
RefundKey(s) == <<"prediction-refund", s>>
Traced(s) ==
  LET r == question[bets[s].question]
  IN  /\ OpenKey(s) \in posted <=> Placed(s)
      /\ ~Placed(s) => SettleKey(s) \notin posted /\ RefundKey(s) \notin posted
      /\ Placed(s) =>
           /\ r # NoQuestion
           /\ r.status = "OPEN" <=> stake[s].result = "PENDING"
           /\ SettleKey(s) \in posted <=> r.status = "SETTLED"
           /\ RefundKey(s) \in posted <=> r.status = "CANCELLED"
TracesInv == \A s \in StakeIds : Traced(s)

IInv == /\ PredictionTypeOK /\ PricesInv /\ SettlersInv
        /\ OutcomesInv /\ TracesInv /\ StakesInOrder

-----------------------------------------------------------------------------
(* The constants' types, and what a stake of a run asks for.               *)
LEMMA Constants ==
  /\ StakeIds \subseteq Nat /\ IsFiniteSet(StakeIds)
  /\ Questions \subseteq Nat /\ Askers = Settlers
  /\ Horizon \in Nat /\ RetryAfter \in Nat /\ GiveUpAfter \in Nat
  /\ Creators \subseteq Users /\ Grants \subseteq Nat \ {0}
BY PredictionAssumption

LEMMA BetTypes ==
  ASSUME bets \in Bets, NEW s \in StakeIds
  PROVE  /\ bets[s].account \in Accounts /\ bets[s].question \in Questions
         /\ bets[s].side \in Sidings /\ bets[s].amount \in Nat /\ bets[s].amount > 0
BY PredictionAssumption

(* What stakes amount to: a natural number, none of them exceeds it, and a *)
(* set of stakes amounts to what its parts do.                             *)
LEMMA AmountIsNat ==
  ASSUME bets \in Bets, NEW S \in SUBSET StakeIds
  PROVE  /\ IsFiniteSet(S) /\ Amount(S) \in Nat
         /\ \A s \in S : bets[s].amount <= Amount(S)
<1> DEFINE f == [s \in StakeIds |-> bets[s].amount]
<1>1. IsFiniteSet(S) /\ \A s \in S : f[s] \in Nat /\ f[s] = bets[s].amount
  <2>1. IsFiniteSet(S)
    BY Constants, FS_Subset
  <2>2. \A s \in S : bets[s].amount \in Nat
    BY BetTypes
  <2> QED BY <2>1, <2>2
<1> HIDE DEF f
<1>2. SumFunctionOnSet(f, S) \in Nat /\ \A s \in S : f[s] <= SumFunctionOnSet(f, S)
  BY <1>1, SumBounds
<1> QED BY <1>1, <1>2 DEF Amount, f

LEMMA AmountParts ==
  ASSUME bets \in Bets, NEW S \in SUBSET StakeIds, NEW T \in SUBSET S
  PROVE  Amount(S) = Amount(T) + Amount(S \ T)
<1> DEFINE f == [s \in StakeIds |-> bets[s].amount]
<1>1. IsFiniteSet(S) /\ \A s \in S : f[s] \in Int
  <2>1. \A s \in S : bets[s].amount \in Int
    BY BetTypes
  <2> QED BY <2>1, AmountIsNat
<1> HIDE DEF f
<1>2. SumFunctionOnSet(f, S) = SumFunctionOnSet(f, T) + SumFunctionOnSet(f, S \ T)
  BY <1>1, SumParts
<1> QED BY <1>2 DEF Amount, f

LEMMA AmountWith ==
  ASSUME bets \in Bets, NEW S \in SUBSET StakeIds, NEW s \in StakeIds \ S
  PROVE  Amount(S \cup {s}) = Amount(S) + bets[s].amount
<1> DEFINE f == [x \in StakeIds |-> bets[x].amount]
           R == S \cup {s}
<1>1. /\ IsFiniteSet(R) /\ s \in R /\ R \ {s} = S
      /\ \A x \in R : f[x] \in Int
      /\ f[s] = bets[s].amount
  <2>1. R \in SUBSET StakeIds
    OBVIOUS
  <2>2. \A x \in R : bets[x].amount \in Int
    BY <2>1, BetTypes
  <2> QED BY <2>1, <2>2, AmountIsNat
<1> HIDE DEF f, R
<1>2. SumFunctionOnSet(f, R) = f[s] + SumFunctionOnSet(f, R \ {s})
  BY <1>1, SumTakeOut
<1>3. SumFunctionOnSet(f, S) \in Int
  BY <1>1, AmountIsNat DEF Amount, f
<1>4. f[s] \in Int
  BY <1>1
<1> QED BY <1>1, <1>2, <1>3, <1>4 DEF Amount, f, R

(* Every share of a pool is a natural number of cents.                     *)
LEMMA BaseIsNat ==
  ASSUME bets \in Bets, NEW S \in SUBSET StakeIds, NEW outcome, NEW s \in OnSide(S, outcome)
  PROVE  Base(S, outcome, s) \in Nat
<1> DEFINE winners == OnSide(S, outcome)
           x == Amount(S \ winners)
           y == bets[s].amount
           d == Amount(winners)
<1>1. winners \in SUBSET StakeIds /\ S \ winners \in SUBSET StakeIds
  BY DEF OnSide
<1>2. x \in Nat /\ d \in Nat /\ y \in Nat /\ y > 0 /\ y <= d
  BY <1>1, AmountIsNat, BetTypes
<1>3. Base(S, outcome, s) = (x * y) \div d
  BY DEF Base, Shared
<1> HIDE DEF x, y, d
<1>4. x * y \in Nat /\ d > 0
  BY <1>2
<1>5. (x * y) \div d \in Nat
  BY <1>2, <1>4
<1> QED BY <1>3, <1>5

LEMMA AllocationIsNat ==
  ASSUME bets \in Bets, NEW S \in SUBSET StakeIds, NEW outcome, NEW s \in S
  PROVE  Allocation(S, outcome)[s] \in Nat
<1>1. bets[s].amount \in Nat /\ Extra(S, outcome, s) \in Nat
  BY BetTypes DEF Extra
<1>2. s \in OnSide(S, outcome) => Base(S, outcome, s) \in Nat
  BY BaseIsNat
<1> QED BY <1>1, <1>2 DEF Allocation

-----------------------------------------------------------------------------
(* Stakes and questions, by their tables: the state before or after a step *)
(* gives the table.                                                        *)
PendingOf(table, a) ==
  {s \in StakeIds : table[s].result = "PENDING" /\ bets[s].account = a}
StakedOn(table, q) == {s \in StakeIds : table[s].result # NoStake /\ bets[s].question = q}
PoolsOf(row, S) ==
  /\ \A m \in Modes, side \in Sidings :
       row.pool[m][side] = Amount(OnSide(InMode(S, m), side))
  /\ row.participants = Cardinality({bets[s].account : s \in S})
  /\ \A s, t \in S : bets[s].account = bets[t].account => bets[s].side = bets[t].side

LEMMA ByTables ==
  /\ LockedBacksStakes <=> \A a \in Accounts : wallet[a].locked = Amount(PendingOf(stake, a))
  /\ \A q : StakesOn(q) = StakedOn(stake, q)
  /\ PoolsMatchStakes <=>
       \A q \in Questions : question[q] # NoQuestion => PoolsOf(question[q], StakedOn(stake, q))
BY DEF LockedBacksStakes, PendingOf, StakesOn, StakedOn, Placed, PoolsMatchStakes, PoolsOf

LEMMA ByTablesNext ==
  ASSUME bets' = bets
  PROVE  /\ LockedBacksStakes' <=>
              \A a \in Accounts : wallet'[a].locked = Amount(PendingOf(stake', a))
         /\ PoolsMatchStakes' <=>
              \A q \in Questions :
                question'[q] # NoQuestion => PoolsOf(question'[q], StakedOn(stake', q))
<1>1. \A S : Amount(S)' = Amount(S)
  BY DEF Amount
<1>2. LockedBacksStakes' <=> \A a \in Accounts : wallet'[a].locked = Amount(PendingOf(stake', a))
  BY DEF LockedBacksStakes, PendingOf, Amount, Accounts
<1>3. PoolsMatchStakes' <=>
        \A q \in Questions :
          question'[q] # NoQuestion => PoolsOf(question'[q], StakedOn(stake', q))
  BY DEF PoolsMatchStakes, PoolsOf, StakesOn, StakedOn, Placed, OnSide, InMode, Amount
<1> QED BY <1>2, <1>3

QuestionTable == [Questions -> QuestionRecords \cup {NoQuestion}]

LEMMA QuestionRow ==
  ASSUME NEW table \in QuestionTable, NEW q \in Questions
  PROVE  /\ table[q] # NoQuestion <=> table[q] \in QuestionRecords
         /\ table[q].status \in {"OPEN", "SETTLED", "CANCELLED"} <=> table[q] # NoQuestion
         /\ table[q] # NoQuestion =>
              table[q].expires \in Times /\ Boundary(table[q].expires) \in Seconds
<1>1. NoQuestion.status = "NONE" /\ \A r \in QuestionRecords : r.status # "NONE"
  BY DEF NoQuestion, QuestionRecords
<1>2. table[q] \in QuestionRecords \cup {NoQuestion}
  BY DEF QuestionTable
<1>3. \A r \in QuestionRecords :
        /\ r.status \in {"OPEN", "SETTLED", "CANCELLED"}
        /\ r.expires \in Times
  BY DEF QuestionRecords
<1>4. \A t \in Times : Boundary(t) \in Seconds
  BY DEF Times, Boundary, Seconds
<1> QED BY <1>1, <1>2, <1>3, <1>4

(* What every proof about a step starts from.                              *)
LEMMA Parts ==
  ASSUME IInv
  PROVE  /\ LedgerTypeOK /\ PriceTypeOK /\ PricesInv /\ bets \in Bets /\ now \in Times
         /\ question \in QuestionTable
         /\ stake \in [StakeIds -> [result : {NoStake, "PENDING", "WON", "LOST", "REFUNDED"},
                                    payout : Nat]]
         /\ generating \in Times \cup {None}
         /\ settling \in [Settlers -> Questions \cup {None}]
         /\ \A p \in Settlers : p \in Askers /\ Awaits(p)
         /\ ProjectionsReconcile /\ ModesConserve /\ NoOverdraft
         /\ \A a \in Accounts : wallet[a].locked = Amount(PendingOf(stake, a))
         /\ \A q \in Questions :
              /\ OutcomeKept(q)
              /\ question[q] # NoQuestion => PoolsOf(question[q], StakedOn(stake, q))
         /\ \A s \in StakeIds : Traced(s)
<1>1. /\ \A a \in Accounts : wallet[a].locked = Amount(PendingOf(stake, a))
      /\ \A q \in Questions : question[q] # NoQuestion => PoolsOf(question[q], StakedOn(stake, q))
  BY ByTables DEF IInv, StakesInOrder
<1>2. /\ LedgerTypeOK /\ PriceTypeOK /\ PricesInv /\ bets \in Bets /\ now \in Times
      /\ question \in QuestionTable
      /\ stake \in [StakeIds -> [result : {NoStake, "PENDING", "WON", "LOST", "REFUNDED"},
                                 payout : Nat]]
      /\ generating \in Times \cup {None}
      /\ settling \in [Settlers -> Questions \cup {None}]
  BY DEF IInv, PredictionTypeOK, PriceTypeOK, QuestionTable
<1>3. ProjectionsReconcile /\ ModesConserve /\ NoOverdraft
  BY DEF IInv, StakesInOrder, BooksInOrder
<1>4. \A p \in Settlers : p \in Askers /\ Awaits(p)
  BY Constants DEF IInv, SettlersInv
<1> QED BY <1>1, <1>2, <1>3, <1>4 DEF IInv, OutcomesInv, TracesInv

-----------------------------------------------------------------------------
(* A question may be added, and one that is there keeps its expiry.        *)
QuestionsPersist ==
  \A q \in Questions : question[q] # NoQuestion =>
    question'[q] # NoQuestion /\ question'[q].expires = question[q].expires

(* A settler that still awaits what it awaited, or nothing any more.       *)
LEMMA StillAwaits ==
  ASSUME NEW p \in Settlers, Awaits(p), QuestionsPersist,
         \/ asking'[p] = Idle
         \/ /\ settling'[p] = settling[p] /\ asking[p] # Idle
            /\ asking'[p].second = asking[p].second
         \/ settling'[p] = settling[p] /\ asking'[p] = asking[p]
  PROVE  Awaits(p)'
BY DEF Awaits, QuestionsPersist

(* A question whose outcome stands.                                        *)
LEMMA OutcomeStands ==
  ASSUME NEW q \in Questions, question \in QuestionTable, OutcomeKept(q), ArchiveGrows,
         question'[q].status = "SETTLED" =>
           /\ question[q].status = "SETTLED"
           /\ question'[q].expires = question[q].expires
           /\ question'[q].outcome = question[q].outcome
  PROVE  OutcomeKept(q)'
<1> SUFFICES ASSUME question'[q].status = "SETTLED"
             PROVE  /\ archive'[Boundary(question'[q].expires)] # Unknown
                    /\ question'[q].outcome = OutcomeAt(archive'[Boundary(question'[q].expires)])
  BY DEF OutcomeKept, OutcomeAt
<1>1. question[q].status = "SETTLED" /\ Boundary(question[q].expires) \in Seconds
  BY QuestionRow
<1>2. archive[Boundary(question[q].expires)] # Unknown
  BY <1>1 DEF OutcomeKept
<1>3. archive'[Boundary(question[q].expires)] = archive[Boundary(question[q].expires)]
  BY <1>1, <1>2 DEF ArchiveGrows
<1> QED BY <1>1, <1>2, <1>3 DEF OutcomeKept, OutcomeAt

(* A step that moves no money and touches no stake: a question may be      *)
(* added, with empty pools, or wait for another attempt.                   *)
LEMMA QuietInv ==
  ASSUME IInv, UNCHANGED <<wallet, balance, posted, bets, stake>>,
         question' \in QuestionTable,
         \A q \in Questions :
           \/ question'[q] = question[q]
           \/ /\ question[q] # NoQuestion
              /\ question'[q].status = question[q].status
              /\ question'[q].expires = question[q].expires
              /\ question'[q].outcome = question[q].outcome
              /\ question'[q].pool = question[q].pool
              /\ question'[q].participants = question[q].participants
           \/ /\ question[q] = NoQuestion
              /\ question'[q].status = "OPEN"
              /\ question'[q].pool = [m \in Modes |-> [side \in Sidings |-> 0]]
              /\ question'[q].participants = 0,
         PriceTypeOK', PricesInv', ArchiveGrows,
         generating' \in Times \cup {None},
         settling' \in [Settlers -> Questions \cup {None}],
         \A p \in Settlers : Awaits(p)'
  PROVE  IInv'
<1>1. PredictionTypeOK'
  BY Parts DEF PredictionTypeOK, LedgerTypeOK, QuestionTable
<1>2. SettlersInv'
  BY DEF SettlersInv
<1>3. \A q \in Questions :
        question'[q].status # question[q].status =>
          question[q] = NoQuestion /\ question'[q].status = "OPEN"
  OBVIOUS
<1>4. ASSUME NEW q \in Questions PROVE OutcomeKept(q)'
  <2>1. question'[q].status = "SETTLED" =>
           /\ question[q].status = "SETTLED"
           /\ question'[q].expires = question[q].expires
           /\ question'[q].outcome = question[q].outcome
    OBVIOUS
  <2> QED BY <2>1, Parts, OutcomeStands
<1>5. \A q \in Questions : question[q] # NoQuestion =>
        question'[q] # NoQuestion /\ question'[q].status = question[q].status
  <2> SUFFICES ASSUME NEW q \in Questions, question[q] # NoQuestion
               PROVE  question'[q] # NoQuestion /\ question'[q].status = question[q].status
    OBVIOUS
  <2>1. question'[q].status = question[q].status
    BY <1>3
  <2>2. question[q].status \in {"OPEN", "SETTLED", "CANCELLED"}
    BY Parts, QuestionRow
  <2> QED BY <2>1, <2>2, QuestionRow
<1>6. ASSUME NEW s \in StakeIds PROVE Traced(s)'
  <2>1. bets[s].question \in Questions /\ Traced(s)
    BY Parts, BetTypes
  <2> QED BY <1>5, <2>1 DEF Traced, Placed, OpenKey, SettleKey, RefundKey
<1>7. BooksInOrder'
  BY Parts DEF BooksInOrder, ProjectionsReconcile, ModesConserve, NoOverdraft
<1>8. LockedBacksStakes'
  BY Parts, ByTablesNext
<1>9. ASSUME NEW q \in Questions, question'[q] # NoQuestion
      PROVE  PoolsOf(question'[q], StakedOn(stake', q))
  <2>1. CASE question[q] # NoQuestion
    <3>1. PoolsOf(question[q], StakedOn(stake, q))
      BY <2>1, Parts
    <3> QED BY <2>1, <3>1 DEF PoolsOf
  <2>2. CASE question[q] = NoQuestion
    <3>1. StakedOn(stake, q) = {}
      BY <2>2, Parts DEF StakedOn, Traced, Placed
    <3>2. /\ question'[q].pool = [m \in Modes |-> [side \in Sidings |-> 0]]
          /\ question'[q].participants = 0
      BY <1>9, <2>2
    <3>3. Amount({}) = 0
      BY SumEmpty DEF Amount
    <3>4. \A m, side : OnSide(InMode({}, m), side) = {}
      BY DEF OnSide, InMode
    <3>5. {bets[s].account : s \in {}} = {}
      OBVIOUS
    <3>6. Cardinality({}) = 0
      BY FS_EmptySet
    <3>7. PoolsOf(question'[q], {})
      <4>1. \A m \in Modes, side \in Sidings : question'[q].pool[m][side] = 0
        BY <3>2
      <4>2. \A m \in Modes, side \in Sidings : Amount(OnSide(InMode({}, m), side)) = 0
        BY <3>3, <3>4
      <4> QED BY <3>2, <3>5, <3>6, <4>1, <4>2 DEF PoolsOf
    <3> QED BY <3>1, <3>7
  <2> QED BY <2>1, <2>2
<1>10. PoolsMatchStakes'
  BY <1>9, ByTablesNext
<1> QED BY <1>1, <1>2, <1>4, <1>6, <1>7, <1>8, <1>10
        DEF IInv, OutcomesInv, TracesInv, StakesInOrder

-----------------------------------------------------------------------------
(* The steps that move no money.                                           *)

(* A step that leaves prices and settlers alone.                           *)
LEMMA SettlersUndisturbed ==
  ASSUME IInv, UNCHANGED <<now, archive, asking, settling>>, QuestionsPersist
  PROVE  /\ PriceTypeOK' /\ PricesInv' /\ ArchiveGrows
         /\ settling' \in [Settlers -> Questions \cup {None}]
         /\ \A p \in Settlers : Awaits(p)'
<1>1. PriceTypeOK' /\ PricesInv' /\ ArchiveGrows
  BY Parts, SamePrices
<1>2. \A p \in Settlers : asking'[p] = asking[p] /\ settling'[p] = settling[p]
  OBVIOUS
<1> QED BY <1>1, <1>2, Parts, StillAwaits

(* A step that ends a settler's wait.                                      *)
LEMMA SettlerDone ==
  ASSUME IInv, NEW p \in Settlers, Done(p), settling' = [settling EXCEPT ![p] = None],
         QuestionsPersist
  PROVE  /\ PriceTypeOK' /\ PricesInv' /\ ArchiveGrows /\ UNCHANGED <<now, archive>>
         /\ settling' \in [Settlers -> Questions \cup {None}]
         /\ \A r \in Settlers : Awaits(r)'
<1>1. /\ PriceTypeOK' /\ PricesInv' /\ ArchiveGrows /\ UNCHANGED <<now, archive>>
      /\ asking'[p] = Idle /\ \A r \in Askers \ {p} : asking'[r] = asking[r]
  BY Parts, DonePrices
<1>2. /\ settling' \in [Settlers -> Questions \cup {None}]
      /\ \A r \in Settlers \ {p} : settling'[r] = settling[r] /\ asking'[r] = asking[r]
  BY <1>1, Parts
<1>3. Awaits(p)'
  BY <1>1 DEF Awaits
<1>4. \A r \in Settlers \ {p} : Awaits(r)'
  BY <1>2, Parts, StillAwaits
<1> QED BY <1>1, <1>2, <1>3, <1>4

LEMMA SameQuestions ==
  ASSUME question' = question
  PROVE  QuestionsPersist
BY DEF QuestionsPersist

LEMMA PredictionTickInv ==
  ASSUME IInv, Tick, UNCHANGED <<ledgerVars, predictionVars>>
  PROVE  IInv'
<1>1. UNCHANGED <<wallet, balance, posted, bets, stake, question, generating, settling>>
  BY DEF ledgerVars, predictionVars
<1>2. PriceTypeOK' /\ PricesInv' /\ ArchiveGrows /\ UNCHANGED asking
  BY Parts, TickPrices
<1>3. \A p \in Settlers : Awaits(p)'
  BY <1>1, <1>2, Parts, SameQuestions, StillAwaits
<1> QED BY <1>1, <1>2, <1>3, Parts, QuietInv

(* A question that is added is there with empty pools.                     *)
LEMMA QuestionAdded ==
  ASSUME IInv, NEW q \in Questions, NEW creator \in Creators \cup {Platform},
         NEW at \in Times \cup {None}, AddQuestion(q, creator, at), EarlyEnough
  PROVE  /\ question' \in QuestionTable /\ QuestionsPersist
         /\ question[q] = NoQuestion /\ question'[q].status = "OPEN"
         /\ question'[q].pool = [m \in Modes |-> [side \in Sidings |-> 0]]
         /\ question'[q].participants = 0
         /\ \A r \in Questions \ {q} : question'[r] = question[r]
<1> DEFINE row == [status |-> "OPEN", creator |-> creator, at |-> at, expires |-> now + Horizon,
                   next |-> None, outcome |-> "NONE", participants |-> 0,
                   pool |-> [m \in Modes |-> [side \in Sidings |-> 0]]]
<1>1. question[q] = NoQuestion /\ question' = [question EXCEPT ![q] = row]
  BY DEF AddQuestion
<1>2. now + Horizon \in Times
  <2>1. /\ now \in Nat /\ now >= 1 /\ now + Horizon + GiveUpAfter <= MaxTime
        /\ Horizon \in Nat /\ GiveUpAfter \in Nat /\ MaxTime \in Nat
    BY Parts, Constants DEF EarlyEnough, Times
  <2> QED BY <2>1 DEF Times
<1>3. row \in QuestionRecords
  BY <1>2 DEF QuestionRecords, None
<1>4. question'[q] = row /\ \A r \in Questions \ {q} : question'[r] = question[r]
  BY <1>1, Parts DEF QuestionTable
<1>5. /\ row.status = "OPEN" /\ row.participants = 0
      /\ row.pool = [m \in Modes |-> [side \in Sidings |-> 0]]
  OBVIOUS
<1> HIDE DEF row
<1>6. question' \in QuestionTable
  BY <1>1, <1>3, Parts DEF QuestionTable
<1>7. QuestionsPersist
  BY <1>1, <1>4 DEF QuestionsPersist
<1> QED BY <1>1, <1>4, <1>5, <1>6, <1>7

LEMMA CreateQuestionInv ==
  ASSUME IInv, NEW u \in Creators, NEW q \in Questions, CreateQuestion(u, q)
  PROVE  IInv'
<1>1. /\ UNCHANGED <<wallet, balance, posted, bets, stake, generating, settling>>
      /\ UNCHANGED <<now, archive, asking>>
      /\ EarlyEnough /\ AddQuestion(q, u, None)
  BY DEF CreateQuestion, ledgerVars, priceVars
<1>2. /\ question' \in QuestionTable /\ QuestionsPersist
      /\ question[q] = NoQuestion /\ question'[q].status = "OPEN"
      /\ question'[q].pool = [m \in Modes |-> [side \in Sidings |-> 0]]
      /\ question'[q].participants = 0
      /\ \A r \in Questions \ {q} : question'[r] = question[r]
  BY <1>1, QuestionAdded
<1>3. /\ PriceTypeOK' /\ PricesInv' /\ ArchiveGrows
      /\ settling' \in [Settlers -> Questions \cup {None}]
      /\ \A p \in Settlers : Awaits(p)'
  BY <1>1, <1>2, SettlersUndisturbed
<1> QED BY <1>1, <1>2, <1>3, Parts, QuietInv

LEMMA StartGenerationInv ==
  ASSUME IInv, StartGeneration
  PROVE  IInv'
<1>1. /\ UNCHANGED <<wallet, balance, posted, bets, stake, question, settling>>
      /\ UNCHANGED <<now, archive, asking>> /\ generating' = now
  BY DEF StartGeneration, ledgerVars, priceVars
<1>2. /\ PriceTypeOK' /\ PricesInv' /\ ArchiveGrows
      /\ settling' \in [Settlers -> Questions \cup {None}]
      /\ \A p \in Settlers : Awaits(p)'
  BY <1>1, SameQuestions, SettlersUndisturbed
<1> QED BY <1>1, <1>2, Parts, QuietInv

LEMMA GenerateQuestionInv ==
  ASSUME IInv, NEW q \in Questions, GenerateQuestion(q)
  PROVE  IInv'
<1>1. /\ UNCHANGED <<wallet, balance, posted, bets, stake, settling>>
      /\ UNCHANGED <<now, archive, asking>> /\ generating' = None
  BY DEF GenerateQuestion, ledgerVars, priceVars
<1>2. CASE question' = question
  <2>1. /\ PriceTypeOK' /\ PricesInv' /\ ArchiveGrows
        /\ settling' \in [Settlers -> Questions \cup {None}]
        /\ \A p \in Settlers : Awaits(p)'
    BY <1>1, <1>2, SameQuestions, SettlersUndisturbed
  <2> QED BY <1>1, <1>2, <2>1, Parts, QuietInv
<1>3. CASE EarlyEnough /\ AddQuestion(q, Platform, generating)
  <2>1. /\ question' \in QuestionTable /\ QuestionsPersist
        /\ question[q] = NoQuestion /\ question'[q].status = "OPEN"
        /\ question'[q].pool = [m \in Modes |-> [side \in Sidings |-> 0]]
        /\ question'[q].participants = 0
        /\ \A r \in Questions \ {q} : question'[r] = question[r]
    BY <1>3, Parts, QuestionAdded
  <2>2. /\ PriceTypeOK' /\ PricesInv' /\ ArchiveGrows
        /\ settling' \in [Settlers -> Questions \cup {None}]
        /\ \A p \in Settlers : Awaits(p)'
    BY <1>1, <2>1, SettlersUndisturbed
  <2> QED BY <1>1, <2>1, <2>2, Parts, QuietInv
<1> QED BY <1>2, <1>3 DEF GenerateQuestion

(* Reading the due questions and passing over one change the batch only.   *)
LEMMA BatchInv ==
  ASSUME IInv,
         UNCHANGED <<wallet, balance, posted, now, archive, asking,
                     question, bets, stake, generating, settling>>
  PROVE  IInv'
<1>1. /\ PriceTypeOK' /\ PricesInv' /\ ArchiveGrows
      /\ settling' \in [Settlers -> Questions \cup {None}]
      /\ \A p \in Settlers : Awaits(p)'
  BY SameQuestions, SettlersUndisturbed
<1> QED BY <1>1, Parts, QuietInv

LEMMA BeginSettlementInv ==
  ASSUME IInv, NEW p \in Settlers, NEW q \in Questions, BeginSettlement(p, q)
  PROVE  IInv'
<1>1. /\ UNCHANGED <<wallet, balance, posted, bets, stake, question, generating>>
      /\ Open(q) /\ Expired(q) /\ AskFor(p, question[q].expires)
      /\ settling' = [settling EXCEPT ![p] = q]
  BY DEF BeginSettlement, ledgerVars
<1>2. question[q] # NoQuestion /\ question[q].expires \in Times /\ question[q].expires <= now
  BY <1>1, Parts, QuestionRow DEF Open, Expired
<1>3. /\ PriceTypeOK' /\ PricesInv' /\ ArchiveGrows
      /\ asking'[p].second = Boundary(question[q].expires)
      /\ \A r \in Askers \ {p} : asking'[r] = asking[r]
  <2> DEFINE t == question[q].expires
  <2>1. t \in Times /\ t <= now /\ AskFor(p, t)
    BY <1>1, <1>2
  <2> HIDE DEF t
  <2>2. /\ PriceTypeOK' /\ PricesInv' /\ ArchiveGrows /\ asking'[p].second = Boundary(t)
        /\ \A r \in Askers \ {p} : asking'[r] = asking[r]
    BY <2>1, Parts, AskPrices
  <2> QED BY <2>2 DEF t
<1>4. /\ settling' \in [Settlers -> Questions \cup {None}] /\ settling'[p] = q
      /\ \A r \in Settlers \ {p} : settling'[r] = settling[r] /\ asking'[r] = asking[r]
  BY <1>1, <1>3, Parts
<1>5. Awaits(p)'
  BY <1>1, <1>2, <1>3, <1>4 DEF Awaits, Boundary
<1>6. \A r \in Settlers \ {p} : Awaits(r)'
  BY <1>1, <1>4, Parts, SameQuestions, StillAwaits
<1> QED BY <1>1, <1>3, <1>4, <1>5, <1>6, Parts, QuietInv

LEMMA AwaitPriceInv ==
  ASSUME IInv, NEW p \in Settlers, AwaitPrice(p)
  PROVE  IInv'
<1>1. /\ UNCHANGED <<wallet, balance, posted, bets, stake, question, generating, settling>>
      /\ Load(p)
  BY DEF AwaitPrice, ledgerVars, predictionVars
<1>2. /\ PriceTypeOK' /\ PricesInv' /\ ArchiveGrows
      /\ asking[p] # Idle /\ asking'[p].second = asking[p].second
      /\ \A r \in Askers \ {p} : asking'[r] = asking[r]
  BY <1>1, Parts, LoadPrices
<1>3. Awaits(p)'
  BY <1>1, <1>2, Parts, SameQuestions, StillAwaits
<1>4. \A r \in Settlers \ {p} : Awaits(r)'
  BY <1>1, <1>2, Parts, SameQuestions, StillAwaits
<1> QED BY <1>1, <1>2, <1>3, <1>4, Parts, QuietInv

(* The end of an attempt that resolved nothing.                            *)
LEMMA AttemptOverInv ==
  ASSUME IInv, NEW p \in Settlers, Done(p), settling' = [settling EXCEPT ![p] = None],
         UNCHANGED <<wallet, balance, posted, bets, stake, generating>>,
         question' = question \/ (settling[p] \in Questions /\ Backoff(p, settling[p]))
  PROVE  IInv'
<1> DEFINE q == settling[p]
           row == [question[q] EXCEPT !.next = now + RetryAfter]
<1>1. CASE question' = question
  <2>1. /\ PriceTypeOK' /\ PricesInv' /\ ArchiveGrows
        /\ settling' \in [Settlers -> Questions \cup {None}]
        /\ \A r \in Settlers : Awaits(r)'
    BY <1>1, SameQuestions, SettlerDone
  <2> QED BY <1>1, <2>1, Parts, QuietInv
<1>2. CASE q \in Questions /\ Open(q) /\ question' = [question EXCEPT ![q] = row]
  <2>1. question[q] \in QuestionRecords /\ question[q] # NoQuestion
    BY <1>2, Parts, QuestionRow DEF Open
  <2>2. row \in QuestionRecords /\ now + RetryAfter \in Nat
    <3>1. now + RetryAfter \in Nat
      BY Parts, Constants DEF Times
    <3> QED BY <2>1, <3>1 DEF QuestionRecords
  <2>3. /\ row.status = question[q].status /\ row.expires = question[q].expires
        /\ row.outcome = question[q].outcome /\ row.pool = question[q].pool
        /\ row.participants = question[q].participants
    BY <2>1 DEF QuestionRecords
  <2> HIDE DEF row
  <2>4. /\ question' \in QuestionTable /\ question'[q] = row
        /\ \A r \in Questions \ {q} : question'[r] = question[r]
    BY <1>2, <2>2, Parts DEF QuestionTable
  <2>5. QuestionsPersist
    <3>1. row # NoQuestion
      BY <2>2, <2>4, <1>2, QuestionRow
    <3> QED BY <2>3, <2>4, <3>1 DEF QuestionsPersist
  <2>6. /\ PriceTypeOK' /\ PricesInv' /\ ArchiveGrows
        /\ settling' \in [Settlers -> Questions \cup {None}]
        /\ \A r \in Settlers : Awaits(r)'
    BY <2>5, SettlerDone
  <2>7. \A r \in Questions :
           \/ question'[r] = question[r]
           \/ /\ question[r] # NoQuestion
              /\ question'[r].status = question[r].status
              /\ question'[r].expires = question[r].expires
              /\ question'[r].outcome = question[r].outcome
              /\ question'[r].pool = question[r].pool
              /\ question'[r].participants = question[r].participants
    BY <2>1, <2>3, <2>4
  <2> HIDE DEF q
  <2> QED BY <2>4, <2>6, <2>7, Parts, QuietInv
<1>3. ASSUME q \in Questions, Backoff(p, q)
      PROVE  question' = question \/ (Open(q) /\ question' = [question EXCEPT ![q] = row])
  BY <1>3 DEF Backoff
<1> QED BY <1>1, <1>2, <1>3

(* A settler that asks has a question.                                     *)
LEMMA SettlersQuestion ==
  ASSUME IInv, NEW p \in Settlers, asking[p].step \in {"ASKED", "FETCHED", "QUOTED"}
  PROVE  /\ asking[p] # Idle /\ settling[p] \in Questions
         /\ question[settling[p]] # NoQuestion
         /\ asking[p].second = Boundary(question[settling[p]].expires)
<1>1. asking[p] # Idle
  BY DEF Idle
<1> QED BY <1>1, Parts DEF Awaits

LEMMA SettlementRefusedInv ==
  ASSUME IInv, NEW p \in Settlers, SettlementRefused(p)
  PROVE  IInv'
<1>1. /\ UNCHANGED <<wallet, balance, posted, bets, stake, generating>>
      /\ Quoted(p) /\ Backoff(p, settling[p])
      /\ Done(p) /\ settling' = [settling EXCEPT ![p] = None]
  BY DEF SettlementRefused, PostEachRefused, Finished, predictionRest
<1>2. settling[p] \in Questions
  BY <1>1, SettlersQuestion DEF Quoted
<1> QED BY <1>1, <1>2, AttemptOverInv

LEMMA SettledMeanwhileInv ==
  ASSUME IInv, NEW p \in Settlers, SettledMeanwhile(p)
  PROVE  IInv'
<1>1. /\ UNCHANGED <<wallet, balance, posted, bets, stake, generating, question>>
      /\ Done(p) /\ settling' = [settling EXCEPT ![p] = None]
  BY DEF SettledMeanwhile, Finished, ledgerVars
<1> QED BY <1>1, AttemptOverInv

LEMMA PriceUnavailableInv ==
  ASSUME IInv, NEW p \in Settlers, PriceUnavailable(p)
  PROVE  IInv'
<1>1. /\ UNCHANGED <<wallet, balance, posted, bets, stake, generating>>
      /\ asking[p].step \in {"ASKED", "FETCHED"} /\ Backoff(p, settling[p])
      /\ Done(p) /\ settling' = [settling EXCEPT ![p] = None]
  BY DEF PriceUnavailable, PriceFailed, Finished, ledgerVars, predictionRest
<1>2. settling[p] \in Questions
  BY <1>1, SettlersQuestion
<1> QED BY <1>1, <1>2, AttemptOverInv

LEMMA GiveUpTooLateInv ==
  ASSUME IInv, GiveUpTooLate
  PROVE  IInv'
<1>1. /\ UNCHANGED <<wallet, balance, posted, bets, stake, generating, question>>
      /\ "worker" \in Settlers /\ Done("worker")
      /\ settling' = [settling EXCEPT !["worker"] = None]
  BY DEF GiveUpTooLate, ledgerVars, Settlers
<1> QED BY <1>1, AttemptOverInv

-----------------------------------------------------------------------------
(* Funding an account, and placing a stake.                                *)

LEMMA PredictionFundInv ==
  ASSUME IInv, NEW a \in Accounts, NEW grant \in Grants, Fund(a, grant)
  PROVE  IInv'
<1> DEFINE journal == Debit(Control(ModeOf(a)), grant) ++ Credit(Available(a), grant)
<1>1. /\ UNCHANGED <<now, archive, asking, question, bets, stake, generating, settling>>
      /\ Post(<<"fund", a>>, journal) /\ MoveWallet(a, grant, 0)
  BY DEF Fund, priceVars, predictionVars
<1>2. grant \in Nat /\ grant > 0 /\ 0 \in Int
  BY Constants
<1>3. /\ \A l \in DOMAIN journal : journal[l] \in Int
      /\ DOMAIN journal \subseteq {Available(a), Locked(a)} \cup PlatformAccounts(ModeOf(a))
      /\ (IF Available(a) \in DOMAIN journal THEN journal[Available(a)] ELSE 0) = grant
      /\ (IF Locked(a) \in DOMAIN journal THEN journal[Locked(a)] ELSE 0) = 0
  BY <1>2, DistinctLines DEF Debit, Credit, ++
<1> HIDE DEF journal
<1>4. LedgerTypeOK' /\ ProjectionsReconcile' /\ ModesConserve'
  BY <1>1, <1>2, <1>3, Parts, BooksKept
<1>5. /\ wallet'[a].available = wallet[a].available + grant
      /\ wallet'[a].locked = wallet[a].locked + 0
      /\ \A b \in Accounts \ {a} : wallet'[b] = wallet[b]
      /\ \A b \in Accounts : wallet[b].available \in Int /\ wallet[b].locked \in Int
  BY <1>1, <1>2, Parts, MovedWallet
<1>6. \A b \in Accounts : wallet'[b].locked = wallet[b].locked
  BY <1>5
<1>7. NoOverdraft'
  BY <1>2, <1>5, <1>6, Parts DEF NoOverdraft
<1>8. /\ PriceTypeOK' /\ PricesInv' /\ ArchiveGrows
      /\ settling' \in [Settlers -> Questions \cup {None}]
      /\ \A p \in Settlers : Awaits(p)'
  BY <1>1, SameQuestions, SettlersUndisturbed
<1>9. \A s : /\ OpenKey(s) \in posted' <=> OpenKey(s) \in posted
             /\ SettleKey(s) \in posted' <=> SettleKey(s) \in posted
             /\ RefundKey(s) \in posted' <=> RefundKey(s) \in posted
  BY <1>1 DEF Post, OpenKey, SettleKey, RefundKey
<1>10. \A s \in StakeIds : Traced(s)'
  BY <1>1, <1>9, Parts DEF Traced, Placed, OpenKey, SettleKey, RefundKey
<1>11. \A q \in Questions : OutcomeKept(q)'
  BY <1>1, Parts DEF OutcomeKept, OutcomeAt
<1>12. LockedBacksStakes' /\ PoolsMatchStakes'
  BY <1>1, <1>6, Parts, ByTablesNext
<1>13. PredictionTypeOK'
  BY <1>1, <1>4, <1>8, Parts DEF PredictionTypeOK, QuestionTable
<1> QED BY <1>4, <1>7, <1>8, <1>10, <1>11, <1>12, <1>13
        DEF IInv, SettlersInv, OutcomesInv, TracesInv, StakesInOrder, BooksInOrder

(* One stake more in a question's pools.                                   *)
LEMMA PoolsWithStake ==
  ASSUME IInv, NEW s \in StakeIds, NEW S \in SUBSET StakeIds, s \notin S,
         NEW row \in QuestionRecords, PoolsOf(row, S),
         \A t \in S : bets[t].account = bets[s].account => bets[t].side = bets[s].side,
         NEW new \in QuestionRecords,
         \A m \in Modes, side \in Sidings :
           new.pool[m][side] =
             IF m = ModeOf(bets[s].account) /\ side = bets[s].side
               THEN row.pool[m][side] + bets[s].amount ELSE row.pool[m][side],
         new.participants = row.participants
           + (IF \A t \in S : bets[t].account # bets[s].account THEN 1 ELSE 0)
  PROVE  PoolsOf(new, S \cup {s})
<1> DEFINE T == S \cup {s}
<1>1. T \in SUBSET StakeIds /\ bets \in Bets /\ IsFiniteSet(S)
  BY Parts, AmountIsNat
<1>2. ASSUME NEW m \in Modes, NEW side \in Sidings
      PROVE  new.pool[m][side] = Amount(OnSide(InMode(T, m), side))
  <2> DEFINE old == OnSide(InMode(S, m), side)
  <2>1. old \in SUBSET StakeIds /\ s \notin old
    BY DEF OnSide, InMode
  <2>2. row.pool[m][side] = Amount(old)
    BY DEF PoolsOf
  <2>3. CASE m = ModeOf(bets[s].account) /\ side = bets[s].side
    <3>1. OnSide(InMode(T, m), side) = old \cup {s}
      BY <2>3 DEF OnSide, InMode
    <3> HIDE DEF old
    <3>2. Amount(old \cup {s}) = Amount(old) + bets[s].amount
      BY <1>1, <2>1, AmountWith
    <3> QED BY <2>2, <2>3, <3>1, <3>2
  <2>4. CASE ~(m = ModeOf(bets[s].account) /\ side = bets[s].side)
    <3>1. OnSide(InMode(T, m), side) = old
      BY <2>4 DEF OnSide, InMode
    <3> QED BY <2>2, <2>4, <3>1
  <2> QED BY <2>3, <2>4
<1>3. new.participants = Cardinality({bets[t].account : t \in T})
  <2> DEFINE A == {bets[t].account : t \in S}
  <2>1. IsFiniteSet(A)
    <3> DEFINE f == [t \in S |-> bets[t].account]
    <3>1. f \in Surjection(S, A)
      BY DEF Surjection
    <3> HIDE DEF f, A
    <3> QED BY <1>1, <3>1, FS_Surjection
  <2>2. {bets[t].account : t \in T} = A \cup {bets[s].account}
    OBVIOUS
  <2>3. row.participants = Cardinality(A)
    BY DEF PoolsOf
  <2>4. (\A t \in S : bets[t].account # bets[s].account) <=> bets[s].account \notin A
    OBVIOUS
  <2>5. Cardinality(A) \in Nat
    <3> HIDE DEF A
    <3> QED BY <2>1, FS_CardinalityType
  <2>6. CASE bets[s].account \in A
    <3>1. A \cup {bets[s].account} = A
      BY <2>6
    <3>2. ~(\A t \in S : bets[t].account # bets[s].account)
      BY <2>4, <2>6
    <3>3. new.participants = row.participants + 0
      BY <3>2
    <3>4. {bets[t].account : t \in T} = A
      <4> HIDE DEF A
      <4> QED BY <2>2, <3>1
    <3>5. new.participants = Cardinality(A)
      <4> HIDE DEF A
      <4> QED BY <2>3, <2>5, <3>3
    <3> QED BY <3>4, <3>5
  <2>7. CASE bets[s].account \notin A
    <3>1. new.participants = row.participants + 1
      BY <2>4, <2>7
    <3> HIDE DEF A
    <3>2. Cardinality(A \cup {bets[s].account}) = Cardinality(A) + 1
      BY <2>1, <2>7, FS_AddElement
    <3> QED BY <2>2, <2>3, <2>5, <3>1, <3>2
  <2> QED BY <2>6, <2>7
<1>4. \A t, u \in T : bets[t].account = bets[u].account => bets[t].side = bets[u].side
  BY DEF PoolsOf
<1> QED BY <1>2, <1>3, <1>4 DEF PoolsOf

(* A stake recorded in its question's row.                                 *)
StakeRecorded(new, row, m, side, amount, more) ==
  new = [row EXCEPT !.pool[m][side] = @ + amount, !.participants = @ + more]

LEMMA RowWithStake ==
  ASSUME NEW row \in QuestionRecords, NEW m \in Modes, NEW side \in Sidings,
         NEW amount \in Nat, NEW more \in {0, 1}, NEW new,
         StakeRecorded(new, row, m, side, amount, more)
  PROVE  /\ new \in QuestionRecords
         /\ new.status = row.status /\ new.expires = row.expires /\ new.outcome = row.outcome
         /\ new.participants = row.participants + more
         /\ \A n \in Modes, other \in Sidings :
              new.pool[n][other] = IF n = m /\ other = side THEN row.pool[n][other] + amount
                                   ELSE row.pool[n][other]
<1> USE DEF StakeRecorded
<1>1. row.pool \in [Modes -> [Sidings -> Nat]] /\ row.participants \in Nat
  BY DEF QuestionRecords
<1> DEFINE pool == [row.pool EXCEPT ![m][side] = @ + amount]
<1>2. new = [row EXCEPT !.pool = pool, !.participants = row.participants + more]
  BY DEF QuestionRecords
<1>3. /\ pool \in [Modes -> [Sidings -> Nat]]
      /\ \A n \in Modes, other \in Sidings :
           pool[n][other] = IF n = m /\ other = side THEN row.pool[n][other] + amount
                            ELSE row.pool[n][other]
  BY <1>1
<1>4. row.participants + more \in Nat
  BY <1>1
<1> HIDE DEF pool
<1>5. new.pool = pool /\ new.participants = row.participants + more
  BY <1>2 DEF QuestionRecords
<1>6. new.status = row.status /\ new.expires = row.expires /\ new.outcome = row.outcome
  BY <1>2 DEF QuestionRecords
<1>7. new \in QuestionRecords
  BY <1>2, <1>3, <1>4 DEF QuestionRecords
<1> QED BY <1>3, <1>5, <1>6, <1>7

LEMMA PlaceInv ==
  ASSUME IInv, NEW s \in StakeIds, Place(s)
  PROVE  IInv'
<1> DEFINE a == bets[s].account
           q == bets[s].question
           amount == bets[s].amount
           journal == Debit(Available(a), amount) ++ Credit(Locked(a), amount)
           S == StakedOn(stake, q)
           more == IF \A t \in S : bets[t].account # a THEN 1 ELSE 0
           row == question[q]
           new == [row EXCEPT !.pool[ModeOf(a)][bets[s].side] = @ + amount,
                              !.participants = @ + more]
<1>1. /\ ~Placed(s) /\ Open(q) /\ amount <= wallet[a].available
      /\ \A t \in S : bets[t].account = a => bets[t].side = bets[s].side
      /\ Post(OpenKey(s), journal) /\ MoveWallet(a, -amount, amount)
      /\ stake' = [stake EXCEPT ![s].result = "PENDING"]
      /\ UNCHANGED <<now, archive, asking, bets, generating, settling>>
  BY DEF Place, MayStake, OpenKey, StakesOn, StakedOn, Placed, priceVars
<1>2. question' = [question EXCEPT ![q] = new]
  <2>1. (\A t \in StakesOn(q) : bets[t].account # a) <=> \A t \in S : bets[t].account # a
    BY DEF StakesOn, StakedOn, Placed
  <2> QED BY <2>1 DEF Place
<1>3. /\ a \in Accounts /\ q \in Questions /\ bets[s].side \in Sidings
      /\ amount \in Nat /\ amount > 0 /\ ModeOf(a) \in Modes
      /\ -amount \in Int /\ amount \in Int /\ bets \in Bets
  BY Parts, BetTypes, AccountChart
<1>4. row \in QuestionRecords /\ row # NoQuestion /\ row.status = "OPEN"
  BY <1>1, <1>3, Parts, QuestionRow DEF Open
<1>5. /\ new \in QuestionRecords
      /\ new.status = row.status /\ new.expires = row.expires /\ new.outcome = row.outcome
      /\ new.participants = row.participants + more
      /\ \A m \in Modes, side \in Sidings :
           new.pool[m][side] = IF m = ModeOf(a) /\ side = bets[s].side
                                 THEN row.pool[m][side] + amount ELSE row.pool[m][side]
  <2>1. more \in {0, 1}
    OBVIOUS
  <2> DEFINE m == ModeOf(a)
             side == bets[s].side
  <2>2. StakeRecorded(new, row, m, side, amount, more)
    BY DEF StakeRecorded
  <2>3. m \in Modes /\ side \in Sidings
    BY <1>3
  <2> HIDE DEF row, a, amount, more, new, m, side
  <2>4. /\ new \in QuestionRecords
        /\ new.status = row.status /\ new.expires = row.expires /\ new.outcome = row.outcome
        /\ new.participants = row.participants + more
        /\ \A n \in Modes, other \in Sidings :
             new.pool[n][other] = IF n = m /\ other = side THEN row.pool[n][other] + amount
                                  ELSE row.pool[n][other]
    BY <1>3, <1>4, <2>1, <2>2, <2>3, RowWithStake
  <2> QED BY <2>4 DEF m, side
<1>6. /\ \A l \in DOMAIN journal : journal[l] \in Int
      /\ DOMAIN journal \subseteq {Available(a), Locked(a)} \cup PlatformAccounts(ModeOf(a))
      /\ (IF Available(a) \in DOMAIN journal THEN journal[Available(a)] ELSE 0) = -amount
      /\ (IF Locked(a) \in DOMAIN journal THEN journal[Locked(a)] ELSE 0) = amount
  <2> HIDE DEF a, amount
  <2> QED BY <1>3, DistinctLines DEF Debit, Credit, ++
<1> HIDE DEF journal
<1>7. LedgerTypeOK' /\ ProjectionsReconcile' /\ ModesConserve'
  <2> HIDE DEF a, amount
  <2> QED BY <1>1, <1>3, <1>6, Parts, BooksKept
<1>8. /\ wallet'[a].available = wallet[a].available + (-amount)
      /\ wallet'[a].locked = wallet[a].locked + amount
      /\ \A b \in Accounts \ {a} : wallet'[b] = wallet[b]
      /\ \A b \in Accounts : wallet[b].available \in Int /\ wallet[b].locked \in Int
  <2> HIDE DEF a, amount
  <2> QED BY <1>1, <1>3, Parts, MovedWallet
<1>9. NoOverdraft'
  <2> HIDE DEF a, amount
  <2>1. ASSUME NEW b \in Accounts PROVE wallet'[b].available >= 0 /\ wallet'[b].locked >= 0
    <3>1. wallet[b].available >= 0 /\ wallet[b].locked >= 0
      BY Parts DEF NoOverdraft
    <3> QED BY <1>1, <1>3, <1>8, <3>1
  <2> QED BY <2>1 DEF NoOverdraft, Accounts
<1> HIDE DEF new
<1>10. /\ question' \in QuestionTable /\ question'[q] = new
       /\ \A r \in Questions \ {q} : question'[r] = question[r]
       /\ new # NoQuestion
  <2> HIDE DEF q
  <2>1. question' \in QuestionTable /\ question'[q] = new
    BY <1>2, <1>3, <1>5, Parts DEF QuestionTable
  <2> QED BY <1>2, <1>3, <1>5, <2>1, Parts, QuestionRow DEF QuestionTable
<1>11. /\ stake' \in [StakeIds -> [result : {NoStake, "PENDING", "WON", "LOST", "REFUNDED"},
                                   payout : Nat]]
       /\ stake'[s].result = "PENDING"
       /\ \A t \in StakeIds \ {s} : stake'[t] = stake[t]
  BY <1>1, Parts
<1>12. QuestionsPersist
  BY <1>4, <1>5, <1>10 DEF QuestionsPersist
<1>13. /\ PriceTypeOK' /\ PricesInv' /\ ArchiveGrows
       /\ settling' \in [Settlers -> Questions \cup {None}]
       /\ \A p \in Settlers : Awaits(p)'
  BY <1>1, <1>12, SettlersUndisturbed
<1>14. \A r \in Questions : OutcomeKept(r)'
  <2>1. ASSUME NEW r \in Questions PROVE OutcomeKept(r)'
    <3>1. CASE r = q
      BY <1>4, <1>5, <1>10, <3>1 DEF OutcomeKept
    <3>2. CASE r # q
      <4>1. question'[r] = question[r]
        BY <1>10, <3>2
      <4> QED BY <4>1, <1>13, Parts, OutcomeStands
    <3> QED BY <3>1, <3>2
  <2> QED BY <2>1
<1>15. /\ posted' = posted \cup {OpenKey(s)}
       /\ \A t : /\ OpenKey(t) \in posted' <=> OpenKey(t) \in posted \/ t = s
                 /\ SettleKey(t) \in posted' <=> SettleKey(t) \in posted
                 /\ RefundKey(t) \in posted' <=> RefundKey(t) \in posted
  BY <1>1 DEF Post, OpenKey, SettleKey, RefundKey
<1>16. \A r \in Questions : question[r] # NoQuestion =>
         question'[r] # NoQuestion /\ question'[r].status = question[r].status
  BY <1>5, <1>10
<1>17. ASSUME NEW t \in StakeIds PROVE Traced(t)'
  <2>1. Traced(t) /\ bets[t].question \in Questions
    BY <1>3, Parts, BetTypes
  <2>2. CASE t = s
    <3>1. Traced(s) /\ stake[s].result = NoStake
      BY <1>1, <2>1, <2>2 DEF Placed
    <3>2. SettleKey(s) \notin posted' /\ RefundKey(s) \notin posted' /\ OpenKey(s) \in posted'
      BY <1>1, <1>15, <3>1 DEF Traced
    <3>3. question'[bets[s].question].status = "OPEN" /\ question'[bets[s].question] # NoQuestion
      BY <1>4, <1>5, <1>10
    <3>4. stake'[s].result = "PENDING" /\ "PENDING" # NoStake
      BY <1>11 DEF NoStake
    <3> QED BY <1>1, <2>2, <3>2, <3>3, <3>4
            DEF Traced, Placed, OpenKey, SettleKey, RefundKey
  <2>3. CASE t # s
    <3>1. stake'[t] = stake[t]
      BY <1>11, <2>3
    <3> HIDE DEF q, a
    <3> QED BY <1>1, <1>15, <1>16, <2>1, <2>3, <3>1
            DEF Traced, Placed, OpenKey, SettleKey, RefundKey
  <2> QED BY <2>2, <2>3
<1>18. ASSUME NEW b \in Accounts PROVE wallet'[b].locked = Amount(PendingOf(stake', b))
  <2>1. wallet[b].locked = Amount(PendingOf(stake, b)) /\ s \notin PendingOf(stake, b)
    BY <1>1, Parts DEF PendingOf, Placed, NoStake
  <2>2. CASE b = a
    <3>1. PendingOf(stake', b) = PendingOf(stake, b) \cup {s}
      BY <1>11, <2>2 DEF PendingOf
    <3>2. PendingOf(stake, b) \in SUBSET StakeIds
      BY DEF PendingOf
    <3>3. Amount(PendingOf(stake, b) \cup {s}) = Amount(PendingOf(stake, b)) + amount
      BY <1>3, <2>1, <3>2, AmountWith
    <3> QED BY <1>8, <2>1, <2>2, <3>1, <3>3
  <2>3. CASE b # a
    <3>1. PendingOf(stake', b) = PendingOf(stake, b)
      BY <1>11, <2>3, <2>1 DEF PendingOf
    <3>2. wallet'[b] = wallet[b]
      BY <1>8, <2>3
    <3> QED BY <2>1, <3>1, <3>2
  <2> QED BY <2>2, <2>3
<1>19. ASSUME NEW r \in Questions, question'[r] # NoQuestion
       PROVE  PoolsOf(question'[r], StakedOn(stake', r))
  <2>1. CASE r = q
    <3>1. StakedOn(stake', q) = S \cup {s}
      BY <1>11 DEF StakedOn, NoStake
    <3>2. S \in SUBSET StakeIds /\ s \notin S
      BY <1>1 DEF StakedOn, Placed
    <3>3. PoolsOf(row, S)
      BY <1>3, <1>4, Parts
    <3>4. PoolsOf(new, S \cup {s})
      <4> HIDE DEF S, row
      <4> QED BY <1>1, <1>4, <1>5, <3>2, <3>3, PoolsWithStake
    <3> QED BY <1>10, <2>1, <3>1, <3>4
  <2>2. CASE r # q
    <3>1. StakedOn(stake', r) = StakedOn(stake, r)
      BY <1>1, <1>11, <2>2 DEF StakedOn, Placed
    <3>2. question'[r] = question[r]
      BY <1>10, <2>2
    <3> QED BY <1>19, <3>1, <3>2, Parts
  <2> QED BY <2>1, <2>2
<1>20. LockedBacksStakes' /\ PoolsMatchStakes'
  BY <1>1, <1>18, <1>19, ByTablesNext
<1>21. PredictionTypeOK'
  BY <1>1, <1>7, <1>10, <1>11, <1>13, Parts DEF PredictionTypeOK, QuestionTable
<1> QED BY <1>7, <1>9, <1>13, <1>14, <1>17, <1>20, <1>21
        DEF IInv, SettlersInv, OutcomesInv, TracesInv, StakesInOrder, BooksInOrder

-----------------------------------------------------------------------------
(* Resolving a question: paying all its stakes.                            *)
Mine(S, a) == {s \in S : bets[s].account = a}
PaidJournals(kind, S, payout) ==
  [key \in {<<kind, s>> : s \in S} |-> StakeJournal(key[2], payout[key[2]])]

(* What paying one stake puts on the customers' ledger accounts.           *)
LEMMA StakeLines ==
  ASSUME bets \in Bets, NEW s \in StakeIds, NEW payout \in Nat
  PROVE  /\ OverOneAccount(StakeJournal(s, payout))
         /\ \A b \in Accounts :
              /\ Entry(StakeJournal(s, payout), Available(b))
                   = IF bets[s].account = b THEN payout ELSE 0
              /\ Entry(StakeJournal(s, payout), Locked(b))
                   = IF bets[s].account = b THEN -bets[s].amount ELSE 0
<1> DEFINE a == bets[s].account
           amount == bets[s].amount
           difference == payout - amount
           lines == Debit(Locked(a), amount) ++ Credit(Available(a), payout)
           extra == Debit(Pool(ModeOf(a)), difference)
           journal == StakeJournal(s, payout)
<1>1. a \in Accounts /\ amount \in Nat /\ difference \in Int
  BY BetTypes
<1>2. journal = IF difference = 0 THEN lines ELSE lines ++ extra
  BY DEF StakeJournal
<1>3. Pool(ModeOf(a)) \in PlatformAccounts(ModeOf(a))
  BY DEF PlatformAccounts
<1>4. \A b \in Accounts : /\ Available(b) # Pool(ModeOf(a)) /\ Locked(b) # Pool(ModeOf(a))
                          /\ \A c \in Accounts : /\ Available(b) # Locked(c)
                                                 /\ Available(b) = Available(c) => b = c
                                                 /\ Locked(b) = Locked(c) => b = c
  BY DEF Available, Locked, Pool
<1> HIDE DEF a, amount, difference, journal
<1>5. /\ DOMAIN lines = {Locked(a), Available(a)}
      /\ lines[Locked(a)] = -amount /\ lines[Available(a)] = payout
  BY <1>1, <1>4 DEF Debit, Credit, ++
<1>6. DOMAIN extra = {Pool(ModeOf(a))} /\ extra[Pool(ModeOf(a))] = -difference
  BY DEF Debit
<1> HIDE DEF lines, extra
<1>7. /\ DOMAIN journal \subseteq {Locked(a), Available(a), Pool(ModeOf(a))}
      /\ Locked(a) \in DOMAIN journal /\ journal[Locked(a)] = -amount
      /\ Available(a) \in DOMAIN journal /\ journal[Available(a)] = payout
      /\ Pool(ModeOf(a)) \in DOMAIN journal => journal[Pool(ModeOf(a))] = -difference
  BY <1>1, <1>2, <1>4, <1>5, <1>6 DEF ++
<1>8. OverOneAccount(journal)
  BY <1>1, <1>3, <1>7 DEF OverOneAccount
<1>9. ASSUME NEW b \in Accounts
      PROVE  /\ Entry(journal, Available(b)) = IF a = b THEN payout ELSE 0
             /\ Entry(journal, Locked(b)) = IF a = b THEN -amount ELSE 0
  BY <1>1, <1>4, <1>7 DEF Entry
<1> QED BY <1>8, <1>9 DEF journal, a, amount

(* What paying several puts there, added up.                               *)
LEMMA EntriesOfStakes ==
  ASSUME bets \in Bets, NEW S \in SUBSET StakeIds, NEW payout, \A s \in S : payout[s] \in Nat,
         NEW kind, NEW b \in Accounts
  PROVE  /\ EntriesOf(PaidJournals(kind, S, payout), Available(b))
              = SumFunctionOnSet(payout, Mine(S, b))
         /\ EntriesOf(PaidJournals(kind, S, payout), Locked(b)) = -Amount(Mine(S, b))
<1> DEFINE keys == {<<kind, s>> : s \in S}
           journals == PaidJournals(kind, S, payout)
           name == [s \in S |-> <<kind, s>>]
           M == Mine(S, b)
<1>1. IsFiniteSet(S) /\ M \in SUBSET S /\ M \in SUBSET StakeIds /\ IsFiniteSet(M)
  <2>1. M \in SUBSET S /\ M \in SUBSET StakeIds
    BY DEF Mine
  <2> HIDE DEF M
  <2> QED BY <2>1, AmountIsNat
<1>2. AreNames(name, keys, S)
  BY DEF AreNames
<1>3. \A s \in S : journals[name[s]] = StakeJournal(s, payout[s])
  BY DEF PaidJournals
<1>4. DOMAIN journals = keys
  BY DEF PaidJournals
<1> HIDE DEF journals, keys, name
<1>5. EntriesOf(journals, Available(b)) = SumFunctionOnSet(payout, M)
  <2> DEFINE f == [key \in keys |-> Entry(journals[key], Available(b))]
             e == [s \in S |-> IF bets[s].account = b THEN payout[s] ELSE 0]
  <2>1. EntriesOf(journals, Available(b)) = SumFunctionOnSet(f, keys)
    BY <1>4 DEF EntriesOf
  <2>2. \A s \in S : e[s] \in Int /\ f[name[s]] = e[s]
    <3>1. \A s \in S : name[s] \in keys
      BY <1>2 DEF AreNames
    <3>2. \A s \in S : Entry(journals[name[s]], Available(b)) = e[s]
      BY <1>3, StakeLines
    <3>3. \A s \in S : e[s] \in Int
      OBVIOUS
    <3> HIDE DEF e
    <3> QED BY <3>1, <3>2, <3>3
  <2>3. \A s \in S \ M : e[s] = 0
    BY DEF Mine
  <2>4. \A s \in M : e[s] = payout[s] /\ payout[s] \in Int
    BY DEF Mine
  <2> HIDE DEF e, f, M
  <2>5. SumFunctionOnSet(f, keys) = SumFunctionOnSet(e, S)
    BY <1>1, <1>2, <2>2, SumRenamed
  <2>6. SumFunctionOnSet(e, S) = SumFunctionOnSet(e, M)
    BY <1>1, <2>2, <2>3, SumSupport
  <2>7. SumFunctionOnSet(e, M) = SumFunctionOnSet(payout, M)
    BY <1>1, <2>4, SumSame
  <2> QED BY <2>1, <2>5, <2>6, <2>7
<1>6. EntriesOf(journals, Locked(b)) = -Amount(M)
  <2> DEFINE f == [key \in keys |-> Entry(journals[key], Locked(b))]
             e == [s \in S |-> IF bets[s].account = b THEN -bets[s].amount ELSE 0]
             g == [s \in StakeIds |-> bets[s].amount]
             zero == [s \in S |-> 0]
  <2>1. EntriesOf(journals, Locked(b)) = SumFunctionOnSet(f, keys)
    BY <1>4 DEF EntriesOf
  <2>2. \A s \in S : e[s] \in Int /\ f[name[s]] = e[s]
    <3>1. \A s \in S : name[s] \in keys
      BY <1>2 DEF AreNames
    <3>2. \A s \in S : Entry(journals[name[s]], Locked(b)) = e[s]
      BY <1>3, StakeLines
    <3>3. \A s \in S : e[s] \in Int
      BY BetTypes
    <3> HIDE DEF e
    <3> QED BY <3>1, <3>2, <3>3
  <2>3. \A s \in S \ M : e[s] = 0
    BY DEF Mine
  <2>4. \A s \in M : e[s] \in Int /\ g[s] \in Int /\ zero[s] = 0 /\ zero[s] = e[s] + g[s]
    <3>1. \A s \in M : s \in S /\ bets[s].account = b /\ bets[s].amount \in Int
      BY BetTypes DEF Mine
    <3> HIDE DEF M
    <3> QED BY <3>1
  <2>5. Amount(M) = SumFunctionOnSet(g, M) /\ Amount(M) \in Nat
    <3> HIDE DEF M
    <3>1. Amount(M) \in Nat
      BY <1>1, AmountIsNat
    <3> QED BY <3>1 DEF Amount
  <2> HIDE DEF e, f, g, zero, M
  <2>6. SumFunctionOnSet(f, keys) = SumFunctionOnSet(e, S)
    BY <1>1, <1>2, <2>2, SumRenamed
  <2>7. SumFunctionOnSet(e, S) = SumFunctionOnSet(e, M)
    BY <1>1, <2>2, <2>3, SumSupport
  <2>8. SumFunctionOnSet(zero, M) = SumFunctionOnSet(e, M) + SumFunctionOnSet(g, M)
    BY <1>1, <2>4, SumPlus
  <2>9. SumFunctionOnSet(zero, M) = 0
    BY <1>1, <2>4, SumOfZeros
  <2>10. SumFunctionOnSet(e, M) \in Int
    BY <1>1, <2>4, SumInt
  <2> QED BY <2>1, <2>5, <2>6, <2>7, <2>8, <2>9, <2>10
<1> QED BY <1>5, <1>6 DEF journals

(* Paying stakes whose funds are locked keeps the books.                   *)
LEMMA PaidBooks ==
  ASSUME IInv, NEW S \in SUBSET StakeIds, NEW payout, \A s \in S : payout[s] \in Nat,
         NEW kind, PostEach(PaidJournals(kind, S, payout)), PayStakes(S, payout),
         FundsLocked(S)
  PROVE  /\ LedgerTypeOK' /\ ProjectionsReconcile' /\ ModesConserve' /\ NoOverdraft'
         /\ \A a \in Accounts : wallet'[a].locked = wallet[a].locked - Amount(Mine(S, a))
<1> DEFINE journals == PaidJournals(kind, S, payout)
<1>1. \A a \in Accounts :
        /\ EntriesOf(journals, Available(a)) = SumFunctionOnSet(payout, Mine(S, a))
        /\ EntriesOf(journals, Locked(a)) = -Amount(Mine(S, a))
  BY Parts, EntriesOfStakes
<1>2. \A a \in Accounts : /\ SumFunctionOnSet(payout, Mine(S, a)) \in Nat
                          /\ Amount(Mine(S, a)) \in Nat
                          /\ wallet[a].available \in Int /\ wallet[a].locked \in Int
  <2> SUFFICES ASSUME NEW a \in Accounts
               PROVE  /\ SumFunctionOnSet(payout, Mine(S, a)) \in Nat
                      /\ Amount(Mine(S, a)) \in Nat
                      /\ wallet[a].available \in Int /\ wallet[a].locked \in Int
    OBVIOUS
  <2> DEFINE M == Mine(S, a)
  <2>1. M \in SUBSET StakeIds /\ \A s \in M : payout[s] \in Nat
    BY DEF Mine
  <2> HIDE DEF M
  <2>2. Amount(M) \in Nat /\ IsFiniteSet(M)
    BY <2>1, Parts, AmountIsNat
  <2>3. SumFunctionOnSet(payout, M) \in Nat
    BY <2>1, <2>2, SumBounds
  <2>4. wallet[a].available \in Int /\ wallet[a].locked \in Int
    BY Parts DEF LedgerTypeOK
  <2> QED BY <2>2, <2>3, <2>4 DEF M
<1>3. /\ wallet' = [a \in Accounts |->
           [available |-> wallet[a].available + SumFunctionOnSet(payout, Mine(S, a)),
            locked    |-> wallet[a].locked - Amount(Mine(S, a))]]
      /\ \A a \in Accounts : wallet[a].locked >= Amount(Mine(S, a))
  BY DEF PayStakes, FundsLocked, Mine
<1>4. \A a \in Accounts :
        /\ wallet'[a].available = wallet[a].available + SumFunctionOnSet(payout, Mine(S, a))
        /\ wallet'[a].locked = wallet[a].locked - Amount(Mine(S, a))
  BY <1>3
<1>5. wallet' \in [Accounts -> [available : Int, locked : Int]]
  BY <1>2, <1>3
<1>6. \A a \in Accounts :
        /\ wallet'[a].available = wallet[a].available + EntriesOf(journals, Available(a))
        /\ wallet'[a].locked = wallet[a].locked + EntriesOf(journals, Locked(a))
  BY <1>1, <1>2, <1>4
<1>7. /\ IsFiniteSet(DOMAIN journals)
      /\ \A key \in DOMAIN journals : OverOneAccount(journals[key])
  <2>1. DOMAIN journals = {<<kind, s>> : s \in S}
    BY DEF PaidJournals
  <2>2. IsFiniteSet({<<kind, s>> : s \in S})
    <3> DEFINE f == [s \in S |-> <<kind, s>>]
               keys == {<<kind, s>> : s \in S}
    <3>1. f \in Surjection(S, keys) /\ IsFiniteSet(S)
      BY Parts, AmountIsNat DEF Surjection
    <3> HIDE DEF f, keys
    <3>2. IsFiniteSet(keys)
      BY <3>1, FS_Surjection
    <3> QED BY <3>2 DEF keys
  <2>3. ASSUME NEW s \in S PROVE OverOneAccount(journals[<<kind, s>>])
    <3>1. journals[<<kind, s>>] = StakeJournal(s, payout[s])
      BY DEF PaidJournals
    <3> QED BY <3>1, Parts, StakeLines
  <2> QED BY <2>1, <2>2, <2>3
<1> HIDE DEF journals
<1>8. LedgerTypeOK' /\ ProjectionsReconcile' /\ ModesConserve'
  <2>1. PostEach(journals)
    BY DEF journals
  <2> QED BY <1>5, <1>6, <1>7, <2>1, Parts, BooksKeptByEach
<1>9. NoOverdraft'
  <2>1. ASSUME NEW a \in Accounts PROVE wallet'[a].available >= 0 /\ wallet'[a].locked >= 0
    <3>1. wallet[a].available >= 0
      BY Parts DEF NoOverdraft
    <3> QED BY <1>2, <1>3, <1>4, <3>1
  <2> QED BY <2>1 DEF NoOverdraft, Accounts
<1> QED BY <1>4, <1>8, <1>9

(* A question's row replaced by one with the same expiry.                  *)
LEMMA RowReplaced ==
  ASSUME question \in QuestionTable, NEW q \in Questions, question[q] # NoQuestion,
         NEW row \in QuestionRecords, row.expires = question[q].expires,
         question' = [question EXCEPT ![q] = row]
  PROVE  /\ question' \in QuestionTable /\ question'[q] = row /\ row # NoQuestion
         /\ \A r \in Questions \ {q} : question'[r] = question[r]
         /\ QuestionsPersist
<1>1. /\ question' \in QuestionTable /\ question'[q] = row
      /\ \A r \in Questions \ {q} : question'[r] = question[r]
  BY DEF QuestionTable
<1>2. row # NoQuestion
  BY <1>1, QuestionRow
<1> QED BY <1>1, <1>2 DEF QuestionsPersist

(* A question that was open is resolved, one way or the other, and all its *)
(* stakes with it.                                                         *)
LEMMA ResolveInv ==
  ASSUME IInv, NEW q \in Questions, Open(q),
         NEW S, S = StakedOn(stake, q),
         NEW payout, \A s \in S : payout[s] \in Nat,
         NEW status \in {"SETTLED", "CANCELLED"}, NEW kind,
         kind = IF status = "SETTLED" THEN "prediction-settle" ELSE "prediction-refund",
         PostEach(PaidJournals(kind, S, payout)), PayStakes(S, payout), FundsLocked(S),
         NEW row \in QuestionRecords, question' = [question EXCEPT ![q] = row],
         row.status = status, row.expires = question[q].expires,
         row.pool = question[q].pool, row.participants = question[q].participants,
         status = "SETTLED" =>
           /\ archive[Boundary(row.expires)] # Unknown
           /\ row.outcome = OutcomeAt(archive[Boundary(row.expires)]),
         stake' \in [StakeIds -> [result : {NoStake, "PENDING", "WON", "LOST", "REFUNDED"},
                                  payout : Nat]],
         \A s \in S : stake'[s].result \in {"WON", "LOST", "REFUNDED"},
         \A s \in StakeIds \ S : stake'[s] = stake[s],
         UNCHANGED <<bets, generating, now, archive>>,
         PriceTypeOK', PricesInv', ArchiveGrows,
         settling' \in [Settlers -> Questions \cup {None}],
         \A p \in Settlers : Awaits(p)'
  PROVE  IInv'
<1>1. question[q] # NoQuestion
  BY Parts, QuestionRow DEF Open
<1>2. /\ question' \in QuestionTable /\ question'[q] = row /\ row # NoQuestion
      /\ \A r \in Questions \ {q} : question'[r] = question[r]
  BY <1>1, Parts, RowReplaced
<1>3. S \in SUBSET StakeIds /\ \A s \in S : bets[s].question = q /\ Placed(s)
  BY DEF StakedOn, Placed
<1>4. \A s \in S : stake[s].result = "PENDING"
  BY <1>3, Parts DEF Traced, Open
<1>5. /\ LedgerTypeOK' /\ ProjectionsReconcile' /\ ModesConserve' /\ NoOverdraft'
      /\ \A a \in Accounts : wallet'[a].locked = wallet[a].locked - Amount(Mine(S, a))
  BY <1>3, PaidBooks
<1>6. ASSUME NEW a \in Accounts PROVE wallet'[a].locked = Amount(PendingOf(stake', a))
  <2> DEFINE P == PendingOf(stake, a)
             M == Mine(S, a)
  <2>1. P \in SUBSET StakeIds /\ M \in SUBSET P
    BY <1>3, <1>4 DEF PendingOf, Mine
  <2>2. PendingOf(stake', a) = P \ M
    <3>1. \A s \in StakeIds : s \in S => stake'[s].result # "PENDING"
      OBVIOUS
    <3>2. \A s \in StakeIds : s \notin S => stake'[s] = stake[s]
      OBVIOUS
    <3> QED BY <3>1, <3>2 DEF PendingOf, Mine
  <2>3. wallet[a].locked = Amount(P)
    BY Parts
  <2> HIDE DEF P, M
  <2>4. Amount(P) = Amount(M) + Amount(P \ M)
    BY <2>1, Parts, AmountParts
  <2>5. Amount(M) \in Nat /\ Amount(P \ M) \in Nat
    <3>1. M \in SUBSET StakeIds /\ P \ M \in SUBSET StakeIds
      BY <2>1
    <3> QED BY <3>1, Parts, AmountIsNat
  <2>6. wallet'[a].locked = wallet[a].locked - Amount(M)
    BY <1>5 DEF M
  <2> QED BY <2>2, <2>3, <2>4, <2>5, <2>6
<1>7. \A s \in StakeIds : (stake'[s].result # NoStake) <=> (stake[s].result # NoStake)
  BY <1>3, <1>4 DEF NoStake
<1>8. ASSUME NEW r \in Questions, question'[r] # NoQuestion
      PROVE  PoolsOf(question'[r], StakedOn(stake', r))
  <2>1. StakedOn(stake', r) = StakedOn(stake, r)
    BY <1>7 DEF StakedOn
  <2>2. CASE r = q
    <3>1. PoolsOf(question[q], StakedOn(stake, q))
      BY <1>1, Parts
    <3>2. PoolsOf(row, StakedOn(stake, q))
      BY <3>1 DEF PoolsOf
    <3> QED BY <1>2, <2>1, <2>2, <3>2
  <2>3. CASE r # q
    BY <1>2, <1>8, <2>1, <2>3, Parts
  <2> QED BY <2>2, <2>3
<1>9. LockedBacksStakes' /\ PoolsMatchStakes'
  BY <1>6, <1>8, ByTablesNext
<1>10. ASSUME NEW r \in Questions PROVE OutcomeKept(r)'
  <2>1. CASE r = q
    BY <1>2, <2>1 DEF OutcomeKept, OutcomeAt
  <2>2. CASE r # q
    <3>1. question'[r] = question[r]
      BY <1>2, <2>2
    <3> QED BY <3>1, Parts, OutcomeStands
  <2> QED BY <2>1, <2>2
<1>11. posted' = posted \cup {<<kind, s>> : s \in S}
  BY DEF PostEach, PaidJournals
<1>12. \A s : /\ OpenKey(s) \in posted' <=> OpenKey(s) \in posted
              /\ SettleKey(s) \in posted' <=>
                   SettleKey(s) \in posted \/ (status = "SETTLED" /\ s \in S)
              /\ RefundKey(s) \in posted' <=>
                   RefundKey(s) \in posted \/ (status = "CANCELLED" /\ s \in S)
  BY <1>11 DEF OpenKey, SettleKey, RefundKey
<1>13. ASSUME NEW s \in StakeIds PROVE Traced(s)'
  <2>1. Traced(s) /\ bets[s].question \in Questions
    BY Parts, BetTypes
  <2>2. Placed(s)' <=> Placed(s)
    BY <1>7 DEF Placed
  <2>3. CASE s \in S
    <3>1. bets[s].question = q /\ Placed(s) /\ question[q].status = "OPEN"
      BY <1>3, <2>3 DEF Open
    <3>2. SettleKey(s) \notin posted /\ RefundKey(s) \notin posted /\ OpenKey(s) \in posted
      BY <2>1, <3>1 DEF Traced
    <3>3. question'[bets'[s].question] = row /\ stake'[s].result # "PENDING"
      BY <1>2, <2>3, <3>1
    <3>4. /\ SettleKey(s) \in posted' <=> row.status = "SETTLED"
          /\ RefundKey(s) \in posted' <=> row.status = "CANCELLED"
          /\ OpenKey(s) \in posted'
      BY <1>12, <2>3, <3>2
    <3> QED BY <1>2, <2>2, <3>1, <3>3, <3>4 DEF Traced, OpenKey, SettleKey, RefundKey
  <2>4. CASE s \notin S
    <3>1. stake'[s] = stake[s]
      BY <2>4
    <3>2. Placed(s) => bets[s].question # q
      BY <2>4 DEF StakedOn, Placed
    <3>3. Placed(s) => question'[bets[s].question] = question[bets[s].question]
      BY <1>2, <2>1, <3>2
    <3> QED BY <1>12, <2>1, <2>2, <2>4, <3>1, <3>3 DEF Traced, OpenKey, SettleKey, RefundKey
  <2> QED BY <2>3, <2>4
<1>14. PredictionTypeOK'
  BY <1>2, <1>5, Parts DEF PredictionTypeOK, QuestionTable
<1> QED BY <1>5, <1>9, <1>10, <1>13, <1>14
        DEF IInv, SettlersInv, OutcomesInv, TracesInv, StakesInOrder, BooksInOrder

(* cancel's half of a step: the rows and journals of a cancelled question. *)
LEMMA RefundedRow ==
  ASSUME IInv, NEW q \in Questions, Open(q),
         NEW row, row = [question[q] EXCEPT !.status = "CANCELLED"]
  PROVE  /\ row \in QuestionRecords /\ row.status = "CANCELLED"
         /\ row.expires = question[q].expires /\ row.pool = question[q].pool
         /\ row.participants = question[q].participants
         /\ question[q] # NoQuestion
<1>1. question[q] # NoQuestion
  BY Parts, QuestionRow DEF Open
<1>2. question[q] \in QuestionRecords
  BY <1>1, Parts, QuestionRow
<1> QED BY <1>1, <1>2 DEF QuestionRecords

LEMMA RefundInv ==
  ASSUME IInv, NEW q \in Questions, RefundStakes(q),
         UNCHANGED <<bets, generating, now, archive>>,
         PriceTypeOK', PricesInv', ArchiveGrows,
         settling' \in [Settlers -> Questions \cup {None}],
         \A p \in Settlers : Awaits(p)'
  PROVE  IInv'
<1> DEFINE S == StakedOn(stake, q)
           payout == [s \in S |-> bets[s].amount]
           status == "CANCELLED"
           kind == "prediction-refund"
           row == [question[q] EXCEPT !.status = "CANCELLED"]
<1>1. Open(q)
  BY DEF RefundStakes
<1>2. {s \in StakesOn(q) : stake[s].result = "PENDING"} = S
  <2>1. \A s \in S : s \in StakeIds /\ bets[s].question = q /\ Placed(s)
    BY DEF StakedOn, Placed
  <2>2. \A s \in S : stake[s].result = "PENDING"
    BY <1>1, <2>1, Parts DEF Traced, Open
  <2>3. StakesOn(q) = S
    BY ByTables
  <2> QED BY <2>2, <2>3
<1>3. /\ FundsLocked(S) /\ PostEach(RefundJournals(S)) /\ PayStakes(S, payout)
      /\ stake' = [s \in StakeIds |->
           IF s \in S THEN [result |-> "REFUNDED", payout |-> bets[s].amount] ELSE stake[s]]
      /\ question' = [question EXCEPT ![q] = row]
  <2>1. question' = [question EXCEPT ![q].status = "CANCELLED"]
    BY DEF RefundStakes
  <2>2. question' = [question EXCEPT ![q] = row]
    BY <2>1, Parts DEF QuestionTable
  <2> HIDE DEF S
  <2> QED BY <1>2, <2>2 DEF RefundStakes
<1>4. S \in SUBSET StakeIds /\ \A s \in S : bets[s].amount \in Nat
  <2>1. S \in SUBSET StakeIds
    BY DEF StakedOn
  <2> HIDE DEF S
  <2> QED BY <2>1, Parts, BetTypes
<1>5. /\ row \in QuestionRecords /\ row.status = "CANCELLED"
      /\ row.expires = question[q].expires /\ row.pool = question[q].pool
      /\ row.participants = question[q].participants
  BY <1>1, RefundedRow
<1> HIDE DEF row
<1>6. RefundJournals(S) = PaidJournals(kind, S, payout)
  <2>1. \A s \in S : payout[s] = bets[s].amount
    OBVIOUS
  <2> HIDE DEF S, payout
  <2> QED BY <2>1 DEF RefundJournals, PaidJournals
<1>7. \A s \in S : payout[s] \in Nat
  BY <1>4
<1>8. /\ stake' \in [StakeIds -> [result : {NoStake, "PENDING", "WON", "LOST", "REFUNDED"},
                                  payout : Nat]]
      /\ \A s \in S : stake'[s].result \in {"WON", "LOST", "REFUNDED"}
      /\ \A s \in StakeIds \ S : stake'[s] = stake[s]
  <2> HIDE DEF S
  <2> QED BY <1>3, <1>4, Parts
<1>9. /\ S = StakedOn(stake, q)
      /\ status \in {"SETTLED", "CANCELLED"} /\ row.status = status
      /\ kind = IF status = "SETTLED" THEN "prediction-settle" ELSE "prediction-refund"
      /\ status = "SETTLED" =>
           /\ archive[Boundary(row.expires)] # Unknown
           /\ row.outcome = OutcomeAt(archive[Boundary(row.expires)])
  BY <1>5
<1>10. PostEach(PaidJournals(kind, S, payout))
  BY <1>3, <1>6
<1> HIDE DEF S, payout, status, kind
<1> QED BY <1>1, <1>3, <1>5, <1>7, <1>8, <1>9, <1>10, ResolveInv

LEMMA RefundPersists ==
  ASSUME IInv, NEW q \in Questions, RefundStakes(q)
  PROVE  QuestionsPersist
<1> DEFINE row == [question[q] EXCEPT !.status = "CANCELLED"]
<1>1. Open(q) /\ question' = [question EXCEPT ![q] = row]
  <2>1. Open(q) /\ question' = [question EXCEPT ![q].status = "CANCELLED"]
    BY DEF RefundStakes
  <2> QED BY <2>1, Parts DEF QuestionTable
<1>2. /\ row \in QuestionRecords /\ row.expires = question[q].expires
      /\ question[q] # NoQuestion
  BY <1>1, RefundedRow
<1> HIDE DEF row
<1> QED BY <1>1, <1>2, Parts, RowReplaced

LEMMA CancelInv ==
  ASSUME IInv, NEW q \in Questions, Cancel(q)
  PROVE  IInv'
<1>1. RefundStakes(q) /\ UNCHANGED <<bets, generating, now, archive, asking, settling>>
  BY DEF Cancel, predictionRest, priceVars
<1>2. /\ PriceTypeOK' /\ PricesInv' /\ ArchiveGrows
      /\ settling' \in [Settlers -> Questions \cup {None}]
      /\ \A p \in Settlers : Awaits(p)'
  BY <1>1, RefundPersists, SettlersUndisturbed
<1> QED BY <1>1, <1>2, RefundInv

LEMMA GiveUpInv ==
  ASSUME IInv, GiveUp
  PROVE  IInv'
<1>1. /\ "worker" \in Settlers /\ asking["worker"].step \in {"ASKED", "FETCHED"}
      /\ RefundStakes(settling["worker"]) /\ Done("worker")
      /\ settling' = [settling EXCEPT !["worker"] = None]
      /\ UNCHANGED <<bets, generating>>
  BY DEF GiveUp, PriceFailed, Finished, predictionRest, Settlers
<1>2. settling["worker"] \in Questions
  BY <1>1, SettlersQuestion
<1>3. /\ PriceTypeOK' /\ PricesInv' /\ ArchiveGrows /\ UNCHANGED <<now, archive>>
      /\ settling' \in [Settlers -> Questions \cup {None}]
      /\ \A p \in Settlers : Awaits(p)'
  BY <1>1, <1>2, RefundPersists, SettlerDone
<1> QED BY <1>1, <1>2, <1>3, RefundInv

LEMMA SettleQuestionInv ==
  ASSUME IInv, NEW p \in Settlers, SettleQuestion(p)
  PROVE  IInv'
<1> DEFINE q == settling[p]
           outcome == OutcomeAt(asking[p].price)
           S == StakedOn(stake, q)
           payout == [s \in S |-> PayoutOf(q, outcome, s)]
           status == "SETTLED"
           kind == "prediction-settle"
           row == [question[q] EXCEPT !.status = "SETTLED", !.outcome = outcome, !.next = None]
<1>1. S = StakesOn(q)
  BY ByTables
<1>2. /\ Quoted(p) /\ Open(q) /\ FundsLocked(S) /\ PostEach(SettlementJournals(q, outcome))
      /\ PayStakes(S, payout)
      /\ stake' = [s \in StakeIds |->
           IF s \in S THEN [result |-> ResultOf(q, outcome, s), payout |-> payout[s]]
           ELSE stake[s]]
      /\ Done(p) /\ settling' = [settling EXCEPT ![p] = None]
      /\ UNCHANGED <<bets, generating>>
  <2> HIDE DEF S
  <2> QED BY <1>1 DEF SettleQuestion, MaySettle, Finished, predictionRest
<1>3. /\ q \in Questions /\ question[q] # NoQuestion
      /\ asking[p].second = Boundary(question[q].expires)
      /\ asking[p].price # Unknown /\ asking[p].price = archive[asking[p].second]
  BY <1>2, Parts, SettlersQuestion DEF Quoted, PricesInv
<1>4. question[q] \in QuestionRecords
  <2> HIDE DEF q
  <2> QED BY <1>3, Parts, QuestionRow
<1>5. question' = [question EXCEPT ![q] = row]
  <2>1. question' = [question EXCEPT ![q].status = "SETTLED", ![q].outcome = outcome,
                                     ![q].next = None]
    BY DEF SettleQuestion
  <2> HIDE DEF q, outcome
  <2> QED BY <1>3, <2>1, Parts DEF QuestionTable
<1>6. outcome \in Sidings
  BY DEF OutcomeAt, Sidings
<1> HIDE DEF q
<1>7. /\ row \in QuestionRecords /\ row.status = status /\ row.outcome = outcome
      /\ row.expires = question[q].expires /\ row.pool = question[q].pool
      /\ row.participants = question[q].participants
  <2> HIDE DEF outcome
  <2> QED BY <1>4, <1>6 DEF QuestionRecords, None
<1>8. S \in SUBSET StakeIds
  BY DEF StakedOn
<1>9. \A s \in S : payout[s] \in Nat
  <2> SUFFICES ASSUME NEW s \in S PROVE PayoutOf(q, outcome, s) \in Nat
    OBVIOUS
  <2> DEFINE m == ModeOf(bets[s].account)
             T == InMode(S, m)
  <2>1. T \in SUBSET StakeIds /\ s \in T
    BY <1>8 DEF InMode
  <2>2. PayoutOf(q, outcome, s) = Allocation(T, outcome)[s]
    BY <1>1 DEF PayoutOf
  <2> HIDE DEF T, outcome
  <2> QED BY <2>1, <2>2, Parts, AllocationIsNat
<1> HIDE DEF row
<1>10. SettlementJournals(q, outcome) = PaidJournals(kind, S, payout)
  <2>1. \A s \in S : payout[s] = PayoutOf(q, outcome, s)
    OBVIOUS
  <2> HIDE DEF S, payout, outcome
  <2> QED BY <1>1, <2>1 DEF SettlementJournals, PaidJournals
<1>11. \A s \in S : ResultOf(q, outcome, s) \in {"WON", "LOST", "REFUNDED"}
  BY DEF ResultOf
<1>12. /\ stake' \in [StakeIds -> [result : {NoStake, "PENDING", "WON", "LOST", "REFUNDED"},
                                   payout : Nat]]
       /\ \A s \in S : stake'[s].result \in {"WON", "LOST", "REFUNDED"}
       /\ \A s \in StakeIds \ S : stake'[s] = stake[s]
  <2> HIDE DEF S, payout, outcome
  <2> QED BY <1>2, <1>8, <1>9, <1>11, Parts
<1>13. QuestionsPersist
  BY <1>3, <1>5, <1>7, Parts, RowReplaced
<1>14. /\ PriceTypeOK' /\ PricesInv' /\ ArchiveGrows /\ UNCHANGED <<now, archive>>
       /\ settling' \in [Settlers -> Questions \cup {None}]
       /\ \A r \in Settlers : Awaits(r)'
  BY <1>2, <1>13, SettlerDone
<1>15. /\ S = StakedOn(stake, q)
       /\ status \in {"SETTLED", "CANCELLED"}
       /\ kind = IF status = "SETTLED" THEN "prediction-settle" ELSE "prediction-refund"
  OBVIOUS
<1>16. /\ archive[Boundary(row.expires)] # Unknown
       /\ row.outcome = OutcomeAt(archive[Boundary(row.expires)])
  BY <1>3, <1>7
<1>17. PostEach(PaidJournals(kind, S, payout))
  BY <1>2, <1>10
<1> HIDE DEF S, payout, status, kind, outcome
<1> QED BY <1>2, <1>3, <1>5, <1>7, <1>9, <1>12, <1>14, <1>15, <1>16, <1>17, ResolveInv

-----------------------------------------------------------------------------
LEMMA InitInv == PredictionInit => IInv
<1> SUFFICES ASSUME PredictionInit PROVE IInv
  OBVIOUS
<1>1. /\ LedgerInit /\ PriceInit /\ bets \in Bets /\ generating = None
      /\ question = [q \in Questions |-> NoQuestion]
      /\ stake = [s \in StakeIds |-> [result |-> NoStake, payout |-> 0]]
      /\ settling = [p \in Settlers |-> None]
  BY DEF PredictionInit
<1>2. PriceTypeOK /\ (\A t \in Seconds : archive[t] = Unknown) /\ \A p \in Askers : asking[p] = Idle
  <2>1. 1 \in Times /\ 0 \in 0..MaxTime - 1
    BY DEF Times
  <2> QED BY <1>1, <2>1 DEF PriceInit, PriceTypeOK, Idle, Seconds
<1>3. PricesInv
  BY <1>2 DEF PricesInv, Quoted, Idle
<1>4. SettlersInv
  BY <1>2, Constants DEF SettlersInv, Awaits
<1>5. \A q \in Questions : question[q] = NoQuestion /\ question[q].status = "NONE"
  BY <1>1 DEF NoQuestion
<1>6. \A s \in StakeIds : ~Placed(s) /\ stake[s].result # "PENDING"
  BY <1>1 DEF Placed, NoStake
<1>7. PredictionTypeOK
  <2>1. LedgerTypeOK
    BY <1>1 DEF LedgerInit, LedgerTypeOK
  <2> QED BY <1>1, <1>2, <2>1 DEF PredictionTypeOK
<1>8. OutcomesInv
  BY <1>5 DEF OutcomesInv, OutcomeKept
<1>9. TracesInv
  <2>1. posted = {}
    BY <1>1 DEF LedgerInit
  <2> QED BY <1>6, <2>1 DEF TracesInv, Traced
<1>10. BooksInOrder
  <2>1. ProjectionsReconcile
    BY <1>1, AccountChart, Charts DEF LedgerInit, ProjectionsReconcile
  <2>2. ASSUME NEW m \in Modes PROVE SumFunctionOnSet(balance, ChartOf(m)) = 0
    <3>1. IsFiniteSet(ChartOf(m)) /\ \A l \in ChartOf(m) : balance[l] = 0
      BY <1>1, Charts DEF LedgerInit
    <3> QED BY <3>1, SumOfZeros
  <2>3. NoOverdraft
    BY <1>1 DEF LedgerInit, NoOverdraft
  <2> QED BY <2>1, <2>2, <2>3 DEF BooksInOrder, ModesConserve
<1>11. LockedBacksStakes
  <2>1. \A a \in Accounts : PendingOf(stake, a) = {}
    BY <1>6 DEF PendingOf
  <2>2. Amount({}) = 0
    BY SumEmpty DEF Amount
  <2>3. \A a \in Accounts : wallet[a].locked = 0
    BY <1>1 DEF LedgerInit
  <2> QED BY <2>1, <2>2, <2>3, ByTables
<1>12. PoolsMatchStakes
  BY <1>5 DEF PoolsMatchStakes
<1> QED BY <1>3, <1>4, <1>7, <1>8, <1>9, <1>10, <1>11, <1>12 DEF IInv, StakesInOrder

LEMMA SettlerStepInv ==
  ASSUME IInv, NEW p \in Settlers,
         \/ AwaitPrice(p) \/ SettleQuestion(p) \/ SettlementRefused(p)
         \/ SettledMeanwhile(p) \/ PriceUnavailable(p)
  PROVE  IInv'
BY AwaitPriceInv, SettleQuestionInv, SettlementRefusedInv, SettledMeanwhileInv,
   PriceUnavailableInv

LEMMA WorkerQuestionsInv ==
  ASSUME IInv, \/ NextQuestions \/ WorkerBegins \/ PassOverQuestion \/ GiveUp \/ GiveUpTooLate
  PROVE  IInv'
<1>1. CASE NextQuestions \/ PassOverQuestion
  <2>1. UNCHANGED <<wallet, balance, posted, now, archive, asking,
                    question, bets, stake, generating, settling>>
    BY <1>1 DEF NextQuestions, PassOverQuestion, ledgerVars, priceVars
  <2> QED BY <2>1, BatchInv
<1>2. CASE WorkerBegins
  <2>1. PICK q \in Questions : BeginSettlement("worker", q)
    BY <1>2 DEF WorkerBegins
  <2>2. "worker" \in Settlers
    BY DEF Settlers
  <2> QED BY <2>1, <2>2, BeginSettlementInv
<1>3. CASE GiveUp
  BY <1>3, GiveUpInv
<1>4. CASE GiveUpTooLate
  BY <1>4, GiveUpTooLateInv
<1> QED BY <1>1, <1>2, <1>3, <1>4

LEMMA NextInv == IInv /\ [PredictionNext]_allVars => IInv'
<1> SUFFICES ASSUME IInv, [PredictionNext]_allVars PROVE IInv'
  OBVIOUS
<1>1. ASSUME Tick, UNCHANGED <<ledgerVars, predictionVars>> PROVE IInv'
  BY <1>1, PredictionTickInv
<1>2. ASSUME NEW a \in Accounts, NEW grant \in Grants, Fund(a, grant) PROVE IInv'
  BY <1>2, PredictionFundInv
<1>3. ASSUME NEW u \in Creators, NEW q \in Questions, CreateQuestion(u, q) PROVE IInv'
  BY <1>3, CreateQuestionInv
<1>4. ASSUME StartGeneration PROVE IInv'
  BY <1>4, StartGenerationInv
<1>5. ASSUME NEW s \in StakeIds, Place(s) PROVE IInv'
  BY <1>5, PlaceInv
<1>6. ASSUME NEW q \in Questions, GenerateQuestion(q) \/ OperatorBegins(q) \/ Cancel(q)
      PROVE  IInv'
  <2>1. "operator" \in Settlers
    BY DEF Settlers
  <2> QED BY <1>6, <2>1, GenerateQuestionInv, BeginSettlementInv, CancelInv DEF OperatorBegins
<1>7. ASSUME \/ NextQuestions \/ WorkerBegins \/ PassOverQuestion \/ GiveUp \/ GiveUpTooLate
      PROVE  IInv'
  BY <1>7, WorkerQuestionsInv
<1>8. ASSUME NEW p \in Settlers,
             \/ AwaitPrice(p) \/ SettleQuestion(p) \/ SettlementRefused(p)
             \/ SettledMeanwhile(p) \/ PriceUnavailable(p)
      PROVE  IInv'
  BY <1>8, SettlerStepInv
<1>9. CASE UNCHANGED allVars
  <2>1. UNCHANGED <<wallet, balance, posted, now, archive, asking,
                    question, bets, stake, generating, settling>>
    BY <1>9 DEF allVars, ledgerVars, priceVars, predictionVars
  <2> QED BY <2>1, BatchInv
<1> QED BY <1>1, <1>2, <1>3, <1>4, <1>5, <1>6, <1>7, <1>8, <1>9 DEF PredictionNext

(* Predictions' inductive invariant holds throughout.                      *)
THEOREM Invariance == PredictionSpec => []IInv
BY InitInv, NextInv, PTL DEF PredictionSpec

-----------------------------------------------------------------------------
(* Wallets are always what the journals say, modes conserve their money    *)
(* however many stakes a settlement pays at once, nothing is overdrawn,    *)
(* what an account has locked is what its pending stakes amount to, and a  *)
(* question's pools and head count are those of its stakes.                *)
THEOREM PoolsBacked == PredictionSpec => []StakesInOrder
<1>1. IInv => StakesInOrder
  BY DEF IInv
<1> QED BY Invariance, <1>1, PTL

(* A question is settled or cancelled and never both, whichever of worker, *)
(* operator and cancellation comes first, and settled at the price kept    *)
(* for its expiry.                                                         *)
THEOREM OneResolution == PredictionSpec => []ResolvedOnce
<1>1. ASSUME IInv PROVE ResolvedOnce
  <2> SUFFICES ASSUME NEW s \in StakeIds
               PROVE  LET q == question[bets[s].question]
                      IN  /\ OpenKey(s) \in posted <=> Placed(s)
                          /\ Placed(s) =>
                               /\ q.status = "OPEN" <=> stake[s].result = "PENDING"
                               /\ SettleKey(s) \in posted <=> q.status = "SETTLED"
                               /\ RefundKey(s) \in posted <=> q.status = "CANCELLED"
                               /\ q.status = "SETTLED" =>
                                    q.outcome = OutcomeAt(archive[Boundary(q.expires)])
    BY DEF ResolvedOnce, OpenKey, SettleKey, RefundKey
  <2>1. bets[s].question \in Questions /\ Traced(s) /\ OutcomeKept(bets[s].question)
    BY <1>1, Parts, BetTypes
  <2> QED BY <2>1 DEF Traced, OutcomeKept
<1>2. IInv => ResolvedOnce
  BY <1>1
<1> QED BY Invariance, <1>2, PTL

-----------------------------------------------------------------------------
(* The pool.  Each stake of a strict order has its own number of stakes    *)
(* ahead of it, so exactly as many as one likes come first.                *)
IsStrictOrder(ahead, W) ==
  /\ \A s \in W : ahead[s] \in SUBSET W /\ s \notin ahead[s]
  /\ \A s, t \in W : s # t =>
       \/ s \in ahead[t] /\ ahead[s] \subseteq ahead[t]
       \/ t \in ahead[s] /\ ahead[t] \subseteq ahead[s]

LEMMA FirstInOrder ==
  ASSUME NEW W, IsFiniteSet(W), NEW ahead, IsStrictOrder(ahead, W),
         NEW n \in Nat, n <= Cardinality(W)
  PROVE  Cardinality({s \in W : Cardinality(ahead[s]) < n}) = n
<1> DEFINE rank == [s \in W |-> Cardinality(ahead[s])]
           c == Cardinality(W)
           F == {s \in W : Cardinality(ahead[s]) < n}
<1>1. c \in Nat
  BY FS_CardinalityType
<1>2. ASSUME NEW s \in W, NEW U, U \in SUBSET W, ahead[s] \subseteq U, s \in U
      PROVE  Cardinality(ahead[s]) \in Nat /\ Cardinality(U) \in Nat
             /\ Cardinality(ahead[s]) < Cardinality(U)
  <2>1. IsFiniteSet(U)
    BY <1>2, FS_Subset
  <2>2. ahead[s] \in SUBSET (U \ {s})
    BY <1>2 DEF IsStrictOrder
  <2>3. IsFiniteSet(U \ {s}) /\ Cardinality(U \ {s}) = Cardinality(U) - 1
    BY <1>2, <2>1, FS_RemoveElement
  <2>4. IsFiniteSet(ahead[s]) /\ Cardinality(ahead[s]) <= Cardinality(U \ {s})
    BY <2>2, <2>3, FS_Subset
  <2>5. Cardinality(ahead[s]) \in Nat /\ Cardinality(U) \in Nat
    BY <2>1, <2>4, FS_CardinalityType
  <2> QED BY <2>3, <2>4, <2>5
<1>3. \A s \in W : Cardinality(ahead[s]) \in 0..c - 1
  <2> SUFFICES ASSUME NEW s \in W PROVE Cardinality(ahead[s]) \in 0..c - 1
    OBVIOUS
  <2>1. ahead[s] \subseteq W
    BY DEF IsStrictOrder
  <2>2. Cardinality(ahead[s]) \in Nat /\ Cardinality(ahead[s]) < c
    BY <1>2, <2>1
  <2> QED BY <1>1, <2>2
<1>4. ASSUME NEW s \in W, NEW t \in W, s # t
      PROVE  Cardinality(ahead[s]) # Cardinality(ahead[t])
  <2>1. ahead[s] \in SUBSET W /\ ahead[t] \in SUBSET W
    BY DEF IsStrictOrder
  <2>2. CASE s \in ahead[t] /\ ahead[s] \subseteq ahead[t]
    BY <1>2, <2>1, <2>2
  <2>3. CASE t \in ahead[s] /\ ahead[t] \subseteq ahead[s]
    BY <1>2, <2>1, <2>3
  <2> QED BY <1>4, <2>2, <2>3 DEF IsStrictOrder
<1>5. rank \in Injection(W, 0..c - 1)
  <2>1. rank \in [W -> 0..c - 1]
    BY <1>3
  <2>2. \A s, t \in W : rank[s] = rank[t] => s = t
    BY <1>4
  <2> HIDE DEF rank, c
  <2> QED BY <2>1, <2>2 DEF Injection, IsInjective
<1>6. IsFiniteSet(0..c - 1) /\ Cardinality(0..c - 1) = c
  <2> HIDE DEF c
  <2>1. c - 1 \in Int /\ (IF 0 > c - 1 THEN 0 ELSE (c - 1) - 0 + 1) = c
    BY <1>1
  <2> QED BY <2>1, FS_Interval
<1>7. rank \in Surjection(W, 0..c - 1)
  <2> HIDE DEF rank
  <2> QED BY <1>5, <1>6, FS_Injection
<1>8. \A i \in 0..c - 1 : \E s \in W : Cardinality(ahead[s]) = i
  BY <1>7 DEF Surjection
<1> DEFINE r == [s \in F |-> Cardinality(ahead[s])]
<1>9. r \in Bijection(F, 0..n - 1)
  <2>1. \A s \in F : Cardinality(ahead[s]) \in 0..n - 1
    BY <1>3
  <2>2. r \in [F -> 0..n - 1]
    <3> HIDE DEF F
    <3> QED BY <2>1
  <2>3. \A s, t \in F : r[s] = r[t] => s = t
    BY <1>4
  <2>4. \A i \in 0..n - 1 : \E s \in F : r[s] = i
    <3> SUFFICES ASSUME NEW i \in 0..n - 1 PROVE \E s \in F : r[s] = i
      OBVIOUS
    <3>1. i \in 0..c - 1 /\ i < n
      BY <1>1
    <3>2. PICK s \in W : Cardinality(ahead[s]) = i
      BY <1>8, <3>1
    <3>3. s \in F
      BY <3>1, <3>2
    <3> QED BY <3>2, <3>3
  <2> HIDE DEF r, F
  <2>5. r \in Injection(F, 0..n - 1)
    BY <2>2, <2>3 DEF Injection, IsInjective
  <2>6. r \in Surjection(F, 0..n - 1)
    BY <2>2, <2>4 DEF Surjection
  <2> QED BY <2>5, <2>6 DEF Bijection
<1>10. IsFiniteSet(F)
  BY FS_Subset
<1>11. IsFiniteSet(0..n - 1) /\ Cardinality(0..n - 1) = n
  BY FS_Interval
<1> HIDE DEF r, F
<1>12. ExistsBijection(F, 0..n - 1)
  BY <1>9 DEF ExistsBijection
<1>13. Cardinality(0..n - 1) = Cardinality(F)
  BY <1>10, <1>12, FS_Bijection
<1> QED BY <1>11, <1>13 DEF F

(* The cents left over are no more than the winners, if any.               *)
LEMMA FewLeftOver ==
  ASSUME bets \in Bets, NEW S \in SUBSET StakeIds, NEW outcome, OnSide(S, outcome) # {}
  PROVE  /\ LeftOver(S, outcome) \in Nat
         /\ LeftOver(S, outcome) <= Cardinality(OnSide(S, outcome))
<1> DEFINE W == OnSide(S, outcome)
           A == Amount(S \ W)
           D == Amount(W)
           amount == [s \in StakeIds |-> bets[s].amount]
           base == [s \in W |-> Base(S, outcome, s)]
           remainder == [s \in W |-> Remainder(S, outcome, s)]
           shared == [s \in W |-> A * bets[s].amount]
           scaled == [s \in W |-> D * Base(S, outcome, s)]
           n == Cardinality(W)
           B == SumFunctionOnSet(base, W)
           R == SumFunctionOnSet(remainder, W)
<1>1. W \in SUBSET StakeIds /\ S \ W \in SUBSET StakeIds /\ W # {}
  BY DEF OnSide
<1>2. /\ A \in Nat /\ D \in Nat /\ IsFiniteSet(W) /\ n \in Nat
      /\ \A s \in W : bets[s].amount \in Nat /\ bets[s].amount > 0 /\ bets[s].amount <= D
  <2> HIDE DEF W
  <2>1. IsFiniteSet(W) /\ A \in Nat /\ D \in Nat /\ \A s \in W : bets[s].amount <= D
    BY <1>1, AmountIsNat
  <2>2. n \in Nat
    BY <2>1, FS_CardinalityType
  <2> QED BY <1>1, <2>1, <2>2, BetTypes
<1>3. D > 0
  <2>1. PICK s \in W : TRUE
    BY <1>1
  <2> HIDE DEF D, W
  <2> QED BY <1>2, <2>1
<1>4. \A s \in W : /\ Base(S, outcome, s) = (A * bets[s].amount) \div D
                   /\ Remainder(S, outcome, s) = (A * bets[s].amount) % D
  BY DEF Base, Remainder, Shared
<1> HIDE DEF W, A, D
<1>5. ASSUME NEW s \in W
      PROVE  /\ Base(S, outcome, s) \in Nat /\ Remainder(S, outcome, s) \in 0..D - 1
             /\ A * bets[s].amount \in Nat /\ D * Base(S, outcome, s) \in Nat
             /\ A * bets[s].amount = D * Base(S, outcome, s) + Remainder(S, outcome, s)
  <2> DEFINE x == A * bets[s].amount
  <2>1. x \in Nat
    <3>1. bets[s].amount \in Nat
      BY <1>2
    <3>2. \A i, j \in Nat : i * j \in Nat
      OBVIOUS
    <3> QED BY <1>2, <3>1, <3>2
  <2>2. Base(S, outcome, s) = x \div D /\ Remainder(S, outcome, s) = x % D
    BY <1>4
  <2> HIDE DEF x
  <2>3. x \div D \in Nat
    BY <1>2, <1>3, <2>1
  <2>4. x % D \in 0..D - 1
    BY <1>2, <1>3, <2>1
  <2>5. x = D * (x \div D) + (x % D)
    BY ONLY <1>2, <1>3, <2>1, SMTT(30)
  <2>6. D * (x \div D) \in Nat
    BY <1>2, <2>3
  <2>7. x \in Nat /\ x = D * Base(S, outcome, s) + Remainder(S, outcome, s)
    BY <2>1, <2>2, <2>5
  <2> QED BY <2>2, <2>3, <2>4, <2>6, <2>7 DEF x
<1>6. SumFunctionOnSet(shared, W) = SumFunctionOnSet(scaled, W) + R
  <2>1. \A s \in W : /\ scaled[s] \in Int /\ remainder[s] \in Int
                     /\ shared[s] = scaled[s] + remainder[s]
    BY <1>5
  <2> HIDE DEF shared, scaled, remainder
  <2> QED BY <1>2, <2>1, SumPlus
<1>7. SumFunctionOnSet(scaled, W) = D * B /\ B \in Nat
  <2>1. \A s \in W : base[s] \in Nat /\ scaled[s] = D * base[s]
    BY <1>5
  <2> HIDE DEF scaled, base
  <2>2. SumFunctionOnSet(scaled, W) = D * SumFunctionOnSet(base, W)
    BY <1>2, <2>1, SumTimes
  <2>3. SumFunctionOnSet(base, W) \in Nat
    BY <1>2, <2>1, SumBounds
  <2> QED BY <2>2, <2>3 DEF base
<1>8. SumFunctionOnSet(shared, W) = A * D
  <2>1. \A s \in W : amount[s] \in Int /\ shared[s] = A * amount[s]
    BY <1>1, <1>2
  <2>2. D = SumFunctionOnSet(amount, W)
    BY DEF D, Amount
  <2> HIDE DEF shared, amount
  <2>3. SumFunctionOnSet(shared, W) = A * SumFunctionOnSet(amount, W)
    BY <1>2, <2>1, SumTimes
  <2> QED BY <2>2, <2>3
<1>9. R \in 0..(D - 1) * n
  <2>1. D - 1 \in Nat /\ \A s \in W : remainder[s] \in 0..D - 1
    BY <1>2, <1>3, <1>5
  <2> HIDE DEF remainder
  <2> QED BY <1>2, <2>1, SumAtMost
<1>10. LeftOver(S, outcome) = A - B
  BY DEF LeftOver, W, A
<1> HIDE DEF B, R, n, shared, scaled
<1>11. A * D = D * B + R
  BY <1>6, <1>7, <1>8
<1> DEFINE L == A - B
<1>12. L \in Int /\ L * D = R
  <2>1. A * D = D * A /\ D * (A - B) = D * A - D * B /\ D * A \in Int /\ D * B \in Int
    BY <1>2, <1>7
  <2>2. (A - B) * D = D * (A - B)
    BY <1>2, <1>7
  <2>3. R \in Int
    BY <1>9
  <2> QED BY <1>2, <1>7, <1>11, <2>1, <2>2, <2>3
<1> HIDE DEF L
<1>13. L >= 0
  <2>1. L <= -1 => L * D <= -D
    BY <1>2, <1>3, <1>12
  <2> QED BY <1>2, <1>3, <1>9, <1>12, <2>1
<1>14. L <= n
  <2>1. L >= n + 1 => L * D >= (n + 1) * D
    BY <1>2, <1>3, <1>12
  <2>2. (n + 1) * D = n * D + D /\ (D - 1) * n = n * D - n /\ n * D \in Nat
    BY <1>2
  <2>3. R \in Int /\ R <= (D - 1) * n
    BY <1>9
  <2>4. n + 1 \in Nat /\ (n + 1) * D \in Nat
    BY <1>2, <2>2
  <2> QED BY <1>2, <1>3, <1>12, <2>1, <2>2, <2>3, <2>4
<1> QED BY <1>10, <1>12, <1>13, <1>14 DEF L, n, W

(* Every cent left over goes to somebody.                                  *)
LEMMA ExtrasGiven ==
  ASSUME bets \in Bets, NEW S \in SUBSET StakeIds, NEW outcome, OnSide(S, outcome) # {}
  PROVE  SumFunctionOnSet([s \in OnSide(S, outcome) |-> Extra(S, outcome, s)],
                          OnSide(S, outcome)) = LeftOver(S, outcome)
<1> DEFINE W == OnSide(S, outcome)
           n == LeftOver(S, outcome)
           ahead == [s \in W |-> {t \in W : Before(S, outcome, t, s)}]
           F == {s \in W : Cardinality(ahead[s]) < n}
           extra == [s \in W |-> Extra(S, outcome, s)]
<1>1. W \in SUBSET StakeIds /\ IsFiniteSet(W)
  <2>1. W \in SUBSET StakeIds
    BY DEF OnSide
  <2> HIDE DEF W
  <2> QED BY <2>1, AmountIsNat
<1>2. \A s \in W : s \in Nat /\ Remainder(S, outcome, s) \in Int
  <2> SUFFICES ASSUME NEW s \in W PROVE s \in Nat /\ Remainder(S, outcome, s) \in Int
    OBVIOUS
  <2> DEFINE x == Amount(S \ W) * bets[s].amount
             D == Amount(W)
  <2>1. s \in Nat /\ bets[s].amount \in Nat /\ bets[s].amount > 0
    BY <1>1, Constants, BetTypes
  <2>2. Amount(S \ W) \in Nat /\ D \in Nat /\ bets[s].amount <= D
    <3>1. S \ W \in SUBSET StakeIds
      OBVIOUS
    <3> HIDE DEF W
    <3> QED BY <1>1, <3>1, AmountIsNat
  <2>3. x \in Nat
    <3>1. \A i, j \in Nat : i * j \in Nat
      OBVIOUS
    <3> QED BY <2>1, <2>2, <3>1
  <2>4. Remainder(S, outcome, s) = x % D
    BY DEF Remainder, Shared
  <2> HIDE DEF x, D
  <2>5. x % D \in Int
    BY <2>1, <2>2, <2>3
  <2> QED BY <2>1, <2>4, <2>5
<1>3. IsStrictOrder(ahead, W)
  <2> HIDE DEF W
  <2>1. \A s \in W : ahead[s] \in SUBSET W /\ s \notin ahead[s]
    BY <1>2 DEF Before
  <2>2. ASSUME NEW s \in W, NEW t \in W, s # t, Before(S, outcome, s, t)
        PROVE  s \in ahead[t] /\ ahead[s] \subseteq ahead[t]
    BY <1>2, <2>2 DEF Before
  <2>3. \A s, t \in W : s # t => Before(S, outcome, s, t) \/ Before(S, outcome, t, s)
    BY <1>2 DEF Before
  <2> HIDE DEF ahead
  <2> QED BY <2>1, <2>2, <2>3 DEF IsStrictOrder
<1>4. n \in Nat /\ n <= Cardinality(W)
  BY FewLeftOver
<1>5. Cardinality(F) = n
  <2> HIDE DEF W, n, ahead
  <2> QED BY <1>1, <1>3, <1>4, FirstInOrder
<1>6. F \in SUBSET W /\ \A s \in W : extra[s] = IF s \in F THEN 1 ELSE 0
  BY DEF Extra
<1>7. SumFunctionOnSet(extra, W) = Cardinality(F)
  <2> HIDE DEF extra, F, W
  <2> QED BY <1>1, <1>6, SumCounts
<1> QED BY <1>5, <1>7

(* What a pool pays is what was staked in it.                              *)
LEMMA AllPaid ==
  ASSUME bets \in Bets, NEW S \in SUBSET StakeIds, NEW outcome
  PROVE  SumFunctionOnSet(Allocation(S, outcome), S) = Amount(S)
<1> DEFINE W == OnSide(S, outcome)
           paid == Allocation(S, outcome)
           amount == [s \in StakeIds |-> bets[s].amount]
           base == [s \in W |-> Base(S, outcome, s)]
           extra == [s \in W |-> Extra(S, outcome, s)]
           gain == [s \in W |-> Base(S, outcome, s) + Extra(S, outcome, s)]
<1>1. /\ W \in SUBSET S /\ W \in SUBSET StakeIds /\ S \ W \in SUBSET StakeIds
      /\ IsFiniteSet(S) /\ IsFiniteSet(W) /\ IsFiniteSet(S \ W)
      /\ Amount(W) \in Nat /\ Amount(S \ W) \in Nat
  <2>1. W \in SUBSET S
    BY DEF OnSide
  <2> HIDE DEF W
  <2> QED BY <2>1, AmountIsNat
<1>2. \A s \in S : amount[s] \in Nat /\ amount[s] = bets[s].amount
  BY BetTypes
<1>3. CASE W = {}
  <2>1. \A s \in S : paid[s] = amount[s] /\ amount[s] \in Int
    BY <1>2, <1>3 DEF Allocation
  <2> HIDE DEF paid, amount
  <2>2. SumFunctionOnSet(paid, S) = SumFunctionOnSet(amount, S)
    BY <1>1, <2>1, SumSame
  <2> QED BY <2>2 DEF Amount, paid, amount
<1>4. CASE W # {}
  <2>1. \A s \in W : /\ base[s] \in Nat /\ extra[s] \in Nat
                     /\ gain[s] = base[s] + extra[s]
                     /\ paid[s] = amount[s] + gain[s]
    <3> SUFFICES ASSUME NEW s \in W
                 PROVE  /\ Base(S, outcome, s) \in Nat /\ Extra(S, outcome, s) \in Nat
                        /\ paid[s] = amount[s] + (Base(S, outcome, s) + Extra(S, outcome, s))
      OBVIOUS
    <3>1. Extra(S, outcome, s) \in Nat
      BY DEF Extra
    <3>2. Base(S, outcome, s) \in Nat
      BY BaseIsNat
    <3>3. s \in S /\ bets[s].amount \in Nat /\ amount[s] = bets[s].amount
      BY <1>1, <1>2
    <3>4. paid[s] = bets[s].amount + Base(S, outcome, s) + Extra(S, outcome, s)
      BY <1>4, <3>3 DEF Allocation
    <3> QED BY <3>1, <3>2, <3>3, <3>4
  <2>2. \A s \in S \ W : paid[s] = 0
    BY <1>4 DEF Allocation
  <2>3. SumFunctionOnSet(extra, W) = LeftOver(S, outcome)
    BY <1>4, ExtrasGiven
  <2>4. LeftOver(S, outcome) = Amount(S \ W) - SumFunctionOnSet(base, W)
    BY DEF LeftOver
  <2>5. Amount(W) = SumFunctionOnSet(amount, W)
    BY DEF Amount
  <2>6. \A s \in W : amount[s] \in Int /\ gain[s] \in Int /\ paid[s] \in Int
    <3>1. \A s \in W : amount[s] \in Nat
      BY <1>1, <1>2
    <3> HIDE DEF amount, gain, paid, base, extra
    <3> QED BY <2>1, <3>1
  <2>7. \A s \in S : paid[s] \in Int
    <3>1. \A s \in S : s \in W \/ s \in S \ W
      OBVIOUS
    <3>2. 0 \in Int
      OBVIOUS
    <3> HIDE DEF W, paid
    <3> QED BY ONLY <2>2, <2>6, <3>1, <3>2
  <2> HIDE DEF W, paid, amount, base, extra, gain
  <2>8. SumFunctionOnSet(paid, S) = SumFunctionOnSet(paid, W) + SumFunctionOnSet(paid, S \ W)
    BY <1>1, <2>7, SumParts
  <2>9. SumFunctionOnSet(paid, S \ W) = 0
    BY <1>1, <2>2, SumOfZeros
  <2>10. SumFunctionOnSet(paid, W) = SumFunctionOnSet(amount, W) + SumFunctionOnSet(gain, W)
    BY <1>1, <2>1, <2>6, SumPlus
  <2>11. SumFunctionOnSet(gain, W) = SumFunctionOnSet(base, W) + SumFunctionOnSet(extra, W)
    <3>1. \A s \in W : base[s] \in Int /\ extra[s] \in Int
      BY <2>1
    <3> QED BY <1>1, <2>1, <3>1, SumPlus
  <2>12. SumFunctionOnSet(base, W) \in Nat
    BY <1>1, <2>1, SumBounds
  <2>13. Amount(S) = Amount(W) + Amount(S \ W)
    BY <1>1, AmountParts
  <2>14. SumFunctionOnSet(paid, S) = Amount(S)
    BY <1>1, <2>3, <2>4, <2>5, <2>8, <2>9, <2>10, <2>11, <2>12, <2>13
  <2> QED BY <2>14 DEF paid
<1> QED BY <1>3, <1>4

(* Whichever way a question would go now, each of its pools pays exactly   *)
(* what was staked in it, no winner gets less than the stake, and equal    *)
(* winners are within a cent of each other.                                *)
THEOREM PoolsPaidInFull == PredictionSpec => []PoolPaysOut
<1>1. ASSUME IInv PROVE PoolPaysOut
  <2> SUFFICES ASSUME NEW q \in Questions, NEW m \in Modes, NEW outcome \in Sidings
               PROVE  LET S       == InMode(StakesOn(q), m)
                          winners == OnSide(S, outcome)
                          paid    == Allocation(S, outcome)
                      IN  /\ SumFunctionOnSet(paid, S) = Amount(S)
                          /\ \A s \in winners : paid[s] >= bets[s].amount
                          /\ \A s, t \in winners :
                               bets[s].amount = bets[t].amount => paid[s] - paid[t] \in {-1, 0, 1}
    BY DEF PoolPaysOut
  <2> DEFINE S == InMode(StakesOn(q), m)
             W == OnSide(S, outcome)
             paid == Allocation(S, outcome)
  <2>1. S \in SUBSET StakeIds /\ bets \in Bets /\ W \in SUBSET S
    BY <1>1, Parts DEF InMode, StakesOn, OnSide
  <2>2. SumFunctionOnSet(paid, S) = Amount(S)
    <3> HIDE DEF S
    <3> QED BY <2>1, AllPaid
  <2>3. ASSUME NEW s \in W
        PROVE  /\ bets[s].amount \in Nat /\ Base(S, outcome, s) \in Nat
               /\ Extra(S, outcome, s) \in {0, 1}
               /\ paid[s] = bets[s].amount + Base(S, outcome, s) + Extra(S, outcome, s)
    <3> HIDE DEF S
    <3>1. bets[s].amount \in Nat /\ Base(S, outcome, s) \in Nat
      BY <2>1, BetTypes, BaseIsNat
    <3>2. Extra(S, outcome, s) \in {0, 1}
      BY DEF Extra
    <3>3. paid[s] = bets[s].amount + Base(S, outcome, s) + Extra(S, outcome, s)
      BY <2>1 DEF Allocation
    <3> QED BY <3>1, <3>2, <3>3
  <2>4. \A s, t \in W : bets[s].amount = bets[t].amount => Base(S, outcome, s) = Base(S, outcome, t)
    BY DEF Base, Shared
  <2> HIDE DEF S, W, paid
  <2>5. \A s \in W : paid[s] >= bets[s].amount
    BY <2>3
  <2>6. \A s, t \in W : bets[s].amount = bets[t].amount => paid[s] - paid[t] \in {-1, 0, 1}
    <3> SUFFICES ASSUME NEW s \in W, NEW t \in W, bets[s].amount = bets[t].amount
                 PROVE  paid[s] - paid[t] \in {-1, 0, 1}
      OBVIOUS
    <3> DEFINE b == Base(S, outcome, s)
               x == Extra(S, outcome, s)
               y == Extra(S, outcome, t)
               k == bets[s].amount
    <3>1. /\ k \in Nat /\ b \in Nat /\ x \in {0, 1} /\ y \in {0, 1}
          /\ paid[s] = k + b + x /\ paid[t] = k + b + y
      BY <2>3, <2>4
    <3> HIDE DEF b, x, y, k
    <3> QED BY <3>1
  <2> QED BY <2>2, <2>5, <2>6 DEF S, W, paid
<1>2. IInv => PoolPaysOut
  BY <1>1
<1> QED BY Invariance, <1>2, PTL
=============================================================================
