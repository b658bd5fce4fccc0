---------------------------- MODULE Predictions -----------------------------
(***************************************************************************)
(* PredictionService and its pool: customers stake on the answer to a      *)
(* question about a price; when the question expires, the losing stakes    *)
(* are shared among the winning ones.  A settlement, by the worker or      *)
(* retried by an operator, awaits the price outside its transaction;       *)
(* meanwhile the other one or a cancellation may have resolved the         *)
(* question.                                                               *)
(*                                                                         *)
(* A stake is named by its idempotency key.  One market and one of the     *)
(* platform's question templates are modelled.                             *)
(***************************************************************************)
EXTENDS Ledger, PriceArchive, Sequences, SequencesExt

CONSTANTS
  Questions,    \* question ids
  StakeIds,     \* idempotency keys of stakes, in the order of their rows' ids
  Bets,         \* what each key stakes: functions on StakeIds
  Target,       \* targetPrice, of an ABOVE question
  Horizon,      \* time from a question's creation to its expiry
  Hour,         \* length of the bucket that names a platform question
  RetryAfter,   \* backoff after a failed settlement: 60 s in the code
  GiveUpAfter,  \* time after which a question without price is cancelled: 24 h
  MaxOpen,      \* open questions a creator may have: 5 in the code
  Capacity,     \* stakes a question takes: 500 in the code
  BatchLimit,   \* questions one batch takes
  Creators,     \* customers who ask questions
  Grants        \* what an account may be funded with

Sidings == {"YES", "NO"}
Settlers == {"worker", "operator"}
Platform == "platform"

ASSUME PredictionAssumption ==
  /\ StakeIds \subseteq Nat /\ IsFiniteSet(StakeIds)
  /\ Questions \subseteq Nat /\ IsFiniteSet(Questions)
  /\ Askers = Settlers
  /\ \A bet \in Bets, s \in StakeIds :
       /\ bet[s].account \in Accounts /\ bet[s].question \in Questions
       /\ bet[s].side \in Sidings /\ bet[s].amount \in Nat \ {0}
  /\ Target \in Nat /\ Horizon \in Nat /\ Hour \in Nat \ {0}
  /\ RetryAfter \in Nat \ {0} /\ GiveUpAfter \in Nat
  /\ MaxOpen \in Nat /\ Capacity \in Nat /\ BatchLimit \in Nat \ {0}
  /\ Creators \subseteq Users /\ Grants \subseteq Nat \ {0}

VARIABLES
  question,    \* prediction_questions
  bets,        \* the stakes customers place in this run
  stake,       \* prediction_positions
  generating,  \* the worker's questionGeneration: its moment, or none
  batch,       \* what is left of the worker's settlement batch
  settling     \* the question each settler awaits a price for

predictionVars == <<question, bets, stake, generating, batch, settling>>
allVars == <<ledgerVars, priceVars, predictionVars>>

NoQuestion == [status |-> "NONE"]
NoStake == "NONE"
None == 0

(* Questions are numbered from one, so that None is no question and no     *)
(* moment.                                                                 *)
Open(q) == question[q].status = "OPEN"
Expired(q) == question[q].expires <= now
Placed(s) == stake[s].result # NoStake
StakesOn(q) == {s \in StakeIds : Placed(s) /\ bets[s].question = q}
InMode(S, m) == {s \in S : ModeOf(bets[s].account) = m}
OnSide(S, side) == {s \in S : bets[s].side = side}
Amount(S) == SumFunctionOnSet([s \in StakeIds |-> bets[s].amount], S)

-----------------------------------------------------------------------------
(* predictionOutcome, of an ABOVE question: equality is a NO.              *)
OutcomeAt(price) == IF price > Target THEN "YES" ELSE "NO"

(* allocatePredictionPool, for the stakes S of one mode.  Integer cents:   *)
(* each winner's share of the losing pool rounded down, and the cents left *)
(* over one by one to the largest remainders, equal ones in id order.      *)
Shared(S, outcome, s) == Amount(S \ OnSide(S, outcome)) * bets[s].amount
Base(S, outcome, s) == Shared(S, outcome, s) \div Amount(OnSide(S, outcome))
Remainder(S, outcome, s) == Shared(S, outcome, s) % Amount(OnSide(S, outcome))

LeftOver(S, outcome) ==
  LET winners == OnSide(S, outcome)
  IN  Amount(S \ winners)
        - SumFunctionOnSet([s \in winners |-> Base(S, outcome, s)], winners)

Before(S, outcome, s, t) ==
  \/ Remainder(S, outcome, s) > Remainder(S, outcome, t)
  \/ Remainder(S, outcome, s) = Remainder(S, outcome, t) /\ s < t

Extra(S, outcome, s) ==
  LET ahead == {t \in OnSide(S, outcome) : Before(S, outcome, t, s)}
  IN  IF Cardinality(ahead) < LeftOver(S, outcome) THEN 1 ELSE 0

(* Faulty: the cents left over go to nobody.                               *)
AllocationRoundedDown(S, outcome) ==
  LET winners == OnSide(S, outcome)
  IN  [s \in S |-> IF winners = {} THEN bets[s].amount
                   ELSE IF s \in winners THEN bets[s].amount + Base(S, outcome, s)
                   ELSE 0]

Allocation(S, outcome) ==
  LET winners == OnSide(S, outcome)
  IN  [s \in S |-> IF winners = {} THEN bets[s].amount
                   ELSE IF s \in winners
                     THEN bets[s].amount + Base(S, outcome, s) + Extra(S, outcome, s)
                   ELSE 0]

(* What settleOne pays for each stake of a question: a pool per mode.      *)
PayoutOf(q, outcome, s) ==
  Allocation(InMode(StakesOn(q), ModeOf(bets[s].account)), outcome)[s]

(* isPositive() holds for zero, so the payout line is there for a losing   *)
(* stake as well; the pool's line only when there is a difference.         *)
StakeJournal(s, payout) ==
  LET a          == bets[s].account
      difference == payout - bets[s].amount
      lines      == Debit(Locked(a), bets[s].amount) ++ Credit(Available(a), payout)
  IN  IF difference = 0 THEN lines ELSE lines ++ Debit(Pool(ModeOf(a)), difference)

ResultOf(q, outcome, s) ==
  IF OnSide(InMode(StakesOn(q), ModeOf(bets[s].account)), outcome) = {} THEN "REFUNDED"
  ELSE IF bets[s].side = outcome THEN "WON" ELSE "LOST"

SettlementJournals(q, outcome) ==
  [key \in {<<"prediction-settle", s>> : s \in StakesOn(q)} |->
     StakeJournal(key[2], PayoutOf(q, outcome, key[2]))]

RefundJournals(S) ==
  [key \in {<<"prediction-refund", s>> : s \in S} |->
     StakeJournal(key[2], bets[key[2]].amount)]

(* The wallets of the stakes S, each paid what payout says.                *)
PayStakes(S, payout) ==
  LET mine(a) == {s \in S : bets[s].account = a}
  IN  wallet' = [a \in Accounts |->
        [available |-> wallet[a].available + SumFunctionOnSet(payout, mine(a)),
         locked    |-> wallet[a].locked - Amount(mine(a))]]

(* lockWallet's projection against each stake in turn.                     *)
FundsLocked(S) ==
  \A a \in Accounts : wallet[a].locked >= Amount({s \in S : bets[s].account = a})

-----------------------------------------------------------------------------
PredictionInit ==
  /\ LedgerInit
  /\ PriceInit
  /\ question = [q \in Questions |-> NoQuestion]
  /\ bets \in Bets
  /\ stake = [s \in StakeIds |-> [result |-> NoStake, payout |-> 0]]
  /\ generating = None
  /\ batch = <<>>
  /\ settling = [p \in Settlers |-> None]

(* The demo grant or an approved deposit, once per account that has stakes *)
(* to place (Trading and Funding have the whole of it).  Bound: before the *)
(* first question; an account may well have no funds.                      *)
Fund(a, grant) ==
  /\ \E s \in StakeIds : bets[s].account = a
  /\ \A q \in Questions : question[q] = NoQuestion
  /\ Post(<<"fund", a>>, Debit(Control(ModeOf(a)), grant) ++ Credit(Available(a), grant))
  /\ MoveWallet(a, grant, 0)
  /\ UNCHANGED <<priceVars, predictionVars>>

OpenBy(creator) == {q \in Questions : Open(q) /\ question[q].creator = creator}

(* Ids are taken in order: which is which does not matter.  Bound: early   *)
(* enough for the run to see the question given up.                        *)
EarlyEnough == now + Horizon + GiveUpAfter <= MaxTime

AddQuestion(q, creator, at) ==
  /\ question[q] = NoQuestion
  /\ \A p \in Questions : p < q => question[p] # NoQuestion
  /\ question' = [question EXCEPT ![q] =
       [status |-> "OPEN", creator |-> creator, at |-> at, expires |-> now + Horizon,
        next |-> None, outcome |-> "NONE", participants |-> 0,
        pool |-> [m \in Modes |-> [side \in Sidings |-> 0]]]]

(* create, for a customer.  The first count leaves expired questions out,  *)
(* the one under the user's row lock counts them: that one decides.  A     *)
(* creator who is restricted, or whose terms are refused, creates nothing. *)
CreateQuestion(u, q) ==
  /\ EarlyEnough
  /\ Cardinality(OpenBy(u)) < MaxOpen
  /\ AddQuestion(q, u, None)
  /\ UNCHANGED <<ledgerVars, priceVars, bets, stake, generating, batch, settling>>

(* systemTemplateKey: the hour of the generation names its question.       *)
Bucket(t) == t \div Hour
Generated(t) == \E q \in Questions : /\ question[q] # NoQuestion
                                     /\ question[q].creator = Platform
                                     /\ Bucket(question[q].at) = Bucket(t)

(* ensurePlatformQuestions up to its price lookup.  The loop starts no     *)
(* second generation while one is under way.                               *)
StartGeneration ==
  /\ EarlyEnough
  /\ generating = None
  /\ \A q \in OpenBy(Platform) : Expired(q)
  /\ ~Generated(now)
  /\ generating' = now
  /\ UNCHANGED <<ledgerVars, priceVars, question, bets, stake, batch, settling>>

(* create, for the platform: unless a question has that key by now.        *)
GenerateQuestion(q) ==
  /\ generating # None
  /\ generating' = None
  /\ IF Generated(generating) \/ ~EarlyEnough
       THEN UNCHANGED question
       ELSE AddQuestion(q, Platform, generating)
  /\ UNCHANGED <<ledgerVars, priceVars, bets, stake, batch, settling>>

(* What place checks before it writes.  The limits of the amount, the      *)
(* instrument's switches and the customer's eligibility only refuse.       *)
MayStake(s) ==
  LET bet == bets[s]
      own == {t \in StakesOn(bet.question) : bets[t].account = bet.account}
  IN  /\ ~Placed(s)
      /\ Open(bet.question) /\ ~Expired(bet.question)
      /\ \A t \in own : bets[t].side = bet.side
      /\ Cardinality(StakesOn(bet.question)) < Capacity
      /\ bet.amount <= wallet[bet.account].available

Place(s) ==
  LET a     == bets[s].account
      q     == bets[s].question
      first == \A t \in StakesOn(q) : bets[t].account # a
  IN  /\ MayStake(s)
      /\ Post(<<"prediction-open", s>>,
              Debit(Available(a), bets[s].amount) ++ Credit(Locked(a), bets[s].amount))
      /\ MoveWallet(a, -bets[s].amount, bets[s].amount)
      /\ stake' = [stake EXCEPT ![s].result = "PENDING"]
      /\ question' = [question EXCEPT
           ![q].pool[ModeOf(a)][bets[s].side] = @ + bets[s].amount,
           ![q].participants = @ + (IF first THEN 1 ELSE 0)]
      /\ UNCHANGED <<priceVars, bets,
                     generating, batch, settling>>

-----------------------------------------------------------------------------
predictionRest == <<bets, generating>>

(* settleDueBatch: expired questions whose backoff is over, oldest first.  *)
NextQuestions ==
  LET due   == {q \in Questions : Open(q) /\ Expired(q) /\ question[q].next <= now}
      older(p, q) == \/ question[p].expires < question[q].expires
                     \/ question[p].expires = question[q].expires /\ p < q
      all   == SetToSortSeq(due, older)
  IN  /\ batch = <<>>
      /\ due # {}
      /\ batch' = SubSeq(all, 1, IF Len(all) < BatchLimit THEN Len(all) ELSE BatchLimit)
      /\ UNCHANGED <<ledgerVars, priceVars, question, bets, stake, generating, settling>>

(* settleOne reads the candidate and asks for its expiry's price.          *)
BeginSettlement(p, q) ==
  /\ Open(q) /\ Expired(q)
  /\ AskFor(p, question[q].expires)
  /\ settling' = [settling EXCEPT ![p] = q]
  /\ UNCHANGED <<ledgerVars, question, bets, stake, generating, batch>>

WorkerBegins ==
  /\ batch # <<>>
  /\ \E q \in Questions : q = Head(batch) /\ BeginSettlement("worker", q)

(* retrySettlement.                                                        *)
OperatorBegins(q) == BeginSettlement("operator", q)

(* The worker's next question was resolved since the batch was read.       *)
PassOverQuestion ==
  /\ batch # <<>>
  /\ asking["worker"] = Idle
  /\ ~Open(Head(batch))
  /\ batch' = Tail(batch)
  /\ UNCHANGED <<ledgerVars, priceVars, question, bets, stake, generating, settling>>

AwaitPrice(p) == Load(p) /\ UNCHANGED <<ledgerVars, predictionVars>>

(* A settler is through with its question; the worker goes to the next.    *)
Finished(p) ==
  /\ Done(p)
  /\ settling' = [settling EXCEPT ![p] = None]
  /\ batch' = IF p = "worker" THEN Tail(batch) ELSE batch

(* Faulty: does not look again at the question it has locked.              *)
MaySettleBlindly(q, outcome) == FundsLocked(StakesOn(q))

MaySettle(q, outcome) == Open(q) /\ FundsLocked(StakesOn(q))

SettleQuestion(p) ==
  LET q       == settling[p]
      outcome == OutcomeAt(asking[p].price)
      S       == StakesOn(q)
      payout  == [s \in S |-> PayoutOf(q, outcome, s)]
  IN  /\ Quoted(p)
      /\ MaySettle(q, outcome)
      /\ PostEach(SettlementJournals(q, outcome))
      /\ PayStakes(S, payout)
      /\ stake' = [s \in StakeIds |->
           IF s \in S THEN [result |-> ResultOf(q, outcome, s), payout |-> payout[s]]
           ELSE stake[s]]
      /\ question' = [question EXCEPT ![q].status = "SETTLED", ![q].outcome = outcome,
                                      ![q].next = None]
      /\ Finished(p)
      /\ UNCHANGED predictionRest

(* catch: the question waits for its next attempt, if it is still open.    *)
Backoff(p, q) ==
  question' = IF p = "worker" /\ Open(q)
                THEN [question EXCEPT ![q].next = now + RetryAfter] ELSE question

(* A losing stake's zero payout line aborts the settlement.                *)
SettlementRefused(p) ==
  LET q == settling[p]
  IN  /\ Quoted(p)
      /\ MaySettle(q, OutcomeAt(asking[p].price))
      /\ PostEachRefused(SettlementJournals(q, OutcomeAt(asking[p].price)))
      /\ Backoff(p, q)
      /\ Finished(p)
      /\ UNCHANGED <<predictionRest, stake>>

(* Resolved by the other settler or cancelled while the price was awaited. *)
SettledMeanwhile(p) ==
  /\ Quoted(p)
  /\ ~Open(settling[p])
  /\ Finished(p)
  /\ UNCHANGED <<ledgerVars, question, bets, stake, generating>>

(* Faulty: forgets the stakes placed with real money.                      *)
RefundStakesOfDemo(q) ==
  LET pending == {s \in StakesOn(q) : stake[s].result = "PENDING"}
      S       == InMode(pending, "DEMO")
  IN  /\ Open(q)
      /\ FundsLocked(S)
      /\ PostEach(RefundJournals(S))
      /\ PayStakes(S, [s \in S |-> bets[s].amount])
      /\ stake' = [s \in StakeIds |->
           IF s \in pending THEN [result |-> "REFUNDED", payout |-> bets[s].amount] ELSE stake[s]]
      /\ question' = [question EXCEPT ![q].status = "CANCELLED"]

(* cancel, by an operator or by the worker that gave up on the price.      *)
RefundStakes(q) ==
  LET S == {s \in StakesOn(q) : stake[s].result = "PENDING"}
  IN  /\ Open(q)
      /\ FundsLocked(S)
      /\ PostEach(RefundJournals(S))
      /\ PayStakes(S, [s \in S |-> bets[s].amount])
      /\ stake' = [s \in StakeIds |->
           IF s \in S THEN [result |-> "REFUNDED", payout |-> bets[s].amount] ELSE stake[s]]
      /\ question' = [question EXCEPT ![q].status = "CANCELLED"]

Cancel(q) ==
  /\ RefundStakes(q)
  /\ UNCHANGED <<predictionRest, priceVars, batch, settling>>

(* No price for a settler.  An operator is told; the worker lets the       *)
(* question wait or, a day after its expiry, refunds it.                   *)
PriceFailed(p) == asking[p].step \in {"ASKED", "FETCHED"}
Hopeless(q) == now - question[q].expires >= GiveUpAfter

PriceUnavailable(p) ==
  /\ PriceFailed(p)
  /\ p = "worker" => ~Hopeless(settling[p])
  /\ Backoff(p, settling[p])
  /\ Finished(p)
  /\ UNCHANGED <<ledgerVars, predictionRest, stake>>

GiveUp ==
  /\ PriceFailed("worker")
  /\ Hopeless(settling["worker"])
  /\ RefundStakes(settling["worker"])
  /\ Finished("worker")
  /\ UNCHANGED predictionRest

(* The question to give up was resolved meanwhile: a cancelled one is left *)
(* as it is, a settled one makes cancel throw out of the batch.            *)
GiveUpTooLate ==
  LET q == settling["worker"]
  IN  /\ PriceFailed("worker")
      /\ Hopeless(q)
      /\ ~Open(q)
      /\ Done("worker")
      /\ settling' = [settling EXCEPT !["worker"] = None]
      /\ batch' = IF question[q].status = "SETTLED" THEN <<>> ELSE Tail(batch)
      /\ UNCHANGED <<ledgerVars, question, bets, stake, generating>>

PredictionNext ==
  \/ Tick /\ UNCHANGED <<ledgerVars, predictionVars>>
  \/ \E a \in Accounts, grant \in Grants : Fund(a, grant)
  \/ \E u \in Creators, q \in Questions : CreateQuestion(u, q)
  \/ StartGeneration
  \/ \E s \in StakeIds : Place(s)
  \/ \E q \in Questions : GenerateQuestion(q) \/ OperatorBegins(q) \/ Cancel(q)
  \/ NextQuestions \/ WorkerBegins \/ PassOverQuestion \/ GiveUp \/ GiveUpTooLate
  \/ \E p \in Settlers : \/ AwaitPrice(p) \/ SettleQuestion(p) \/ SettlementRefused(p)
                         \/ SettledMeanwhile(p) \/ PriceUnavailable(p)

PredictionSpec == PredictionInit /\ [][PredictionNext]_allVars

-----------------------------------------------------------------------------
QuestionRecords ==
  [status : {"OPEN", "SETTLED", "CANCELLED"}, creator : Creators \cup {Platform},
   at : Times \cup {None}, expires : Times, next : Nat, outcome : Sidings \cup {"NONE"},
   participants : Nat, pool : [Modes -> [Sidings -> Nat]]]

(* The worker's batch is left out: what a sort returns is not typed here.  *)
PredictionTypeOK ==
  /\ LedgerTypeOK /\ PriceTypeOK
  /\ question \in [Questions -> QuestionRecords \cup {NoQuestion}]
  /\ bets \in Bets
  /\ stake \in [StakeIds -> [result : {NoStake, "PENDING", "WON", "LOST", "REFUNDED"},
                             payout : Nat]]
  /\ generating \in Times \cup {None}
  /\ settling \in [Settlers -> Questions \cup {None}]

(* What an account has locked is what its pending stakes amount to,        *)
(* however they were resolved before.                                      *)
LockedBacksStakes ==
  \A a \in Accounts :
    wallet[a].locked =
      Amount({s \in StakeIds : stake[s].result = "PENDING" /\ bets[s].account = a})

(* The pools and the head count a question shows are those of its stakes,  *)
(* and nobody has stakes on both sides of one in the same account.         *)
PoolsMatchStakes ==
  \A q \in Questions : question[q] # NoQuestion =>
    /\ \A m \in Modes, side \in Sidings :
         question[q].pool[m][side] = Amount(OnSide(InMode(StakesOn(q), m), side))
    /\ question[q].participants = Cardinality({bets[s].account : s \in StakesOn(q)})
    /\ \A s, t \in StakesOn(q) : bets[s].account = bets[t].account => bets[s].side = bets[t].side

(* Wallets, stakes and pools agree with each other and with the journals.  *)
StakesInOrder == BooksInOrder /\ LockedBacksStakes /\ PoolsMatchStakes

(* Every cent is paid out: whichever way a question would go now, what     *)
(* each of its pools pays is what was staked in it, no winner gets less    *)
(* than the stake, and equal winners are within a cent of each other.      *)
PoolPaysOut ==
  \A q \in Questions, m \in Modes, outcome \in Sidings :
    LET S       == InMode(StakesOn(q), m)
        winners == OnSide(S, outcome)
        paid    == Allocation(S, outcome)
    IN  /\ SumFunctionOnSet(paid, S) = Amount(S)
        /\ \A s \in winners : paid[s] >= bets[s].amount
        /\ \A s, t \in winners :
             bets[s].amount = bets[t].amount => paid[s] - paid[t] \in {-1, 0, 1}

(* A question is resolved once, whoever comes first of worker, operator    *)
(* and cancellation: a stake is settled or refunded and never both, as its *)
(* question says, and at the price archived for the question's expiry.     *)
ResolvedOnce ==
  \A s \in StakeIds :
    LET q == question[bets[s].question]
    IN  /\ <<"prediction-open", s>> \in posted <=> Placed(s)
        /\ Placed(s) =>
             /\ q.status = "OPEN" <=> stake[s].result = "PENDING"
             /\ <<"prediction-settle", s>> \in posted <=> q.status = "SETTLED"
             /\ <<"prediction-refund", s>> \in posted <=> q.status = "CANCELLED"
             /\ q.status = "SETTLED" => q.outcome = OutcomeAt(archive[Boundary(q.expires)])

(* docs/PREDICTIONS.md: the pool is shared among the winning stakes.  No   *)
(* settlement that has its price is turned away by the database.           *)
ContestedPoolsSettle == \A s \in StakeIds : <<"prediction-settle", s>> \notin refused
=============================================================================
