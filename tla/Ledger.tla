------------------------------- MODULE Ledger -------------------------------
(***************************************************************************)
(* The double-entry ledger and the wallet projections kept beside it:      *)
(* LedgerService (database/ledger.service.ts) and the constraints the      *)
(* migrations put under it.  Every component that moves money extends this *)
(* module and posts through it.                                            *)
(*                                                                         *)
(* Money is an integer number of cents.  A journal is a function from the  *)
(* ledger accounts it touches to a signed amount, credits positive: the    *)
(* code allows one line per ledger account, so nothing is lost.            *)
(***************************************************************************)
EXTENDS Integers, FiniteSets, Functions

CONSTANT Users

ASSUME UsersAssumption == IsFiniteSet(Users)

Modes == {"DEMO", "REAL"}

(* accounts is unique on (userId, mode), and sign-up creates both.         *)
Accounts == Users \X Modes
Owner(a) == a[1]
ModeOf(a) == a[2]

(* The chart of accounts.  The control account is PV:DEMO:FUNDING for DEMO *)
(* and PV:CASH_CLEARING for REAL.                                          *)
Available(a) == <<"AVAILABLE", a>>
Locked(a)    == <<"LOCKED", a>>
Control(m)   == <<"CONTROL", m>>

(* The platform's other accounts, opened by the settlement that first      *)
(* needs them: PROFIT_FEES, PREDICTION POOL, and COUNTERPARTY_PNL, which   *)
(* only REAL has.                                                          *)
Fees(m)         == <<"PROFIT_FEES", m>>
Pool(m)         == <<"POOL", m>>
Counterparty(m) == IF m = "REAL" THEN <<"COUNTERPARTY_PNL", m>> ELSE Control(m)

PlatformAccounts(m) == {Control(m), Fees(m), Pool(m), Counterparty(m)}

ChartOf(m) == {Available(<<u, m>>) : u \in Users}
                \cup {Locked(<<u, m>>) : u \in Users} \cup PlatformAccounts(m)
LedgerAccounts == UNION {ChartOf(m) : m \in Modes}

-----------------------------------------------------------------------------
VARIABLES
  wallet,   \* the wallets table: [available, locked] projections per account
  balance,  \* credits minus debits of the rows posted to each ledger account
  posted,   \* ledger_transactions.idempotency_key (unique)
  refused   \* history: journals the service accepted and the database refused

ledgerVars == <<wallet, balance, posted, refused>>

LedgerInit ==
  /\ wallet = [a \in Accounts |-> [available |-> 0, locked |-> 0]]
  /\ balance = [l \in LedgerAccounts |-> 0]
  /\ posted = {}
  /\ refused = {}

-----------------------------------------------------------------------------
(* Journals of one line, and the lines of two journals together.           *)
Credit(l, amount) == [line \in {l} |-> amount]
Debit(l, amount)  == [line \in {l} |-> -amount]
journal1 ++ journal2 ==
  [l \in DOMAIN journal1 \cup DOMAIN journal2 |->
     IF l \in DOMAIN journal1 THEN journal1[l] ELSE journal2[l]]

(* assertBalanced.  Decimal.isPositive() holds for zero, so its test of    *)
(* each amount turns no line of these journals away.                       *)
Balanced(journal) ==
  /\ Cardinality(DOMAIN journal) >= 2
  /\ SumFunctionOnSet(journal, DOMAIN journal) = 0

(* CHECK ledger_entries_amount_positive.                                   *)
RowsPositive(journal) == \A l \in DOMAIN journal : journal[l] # 0

(* post, inside a transaction that goes on to commit.                      *)
Post(key, journal) ==
  /\ key \notin posted
  /\ Balanced(journal)
  /\ RowsPositive(journal)
  /\ posted' = posted \cup {key}
  /\ balance' = [l \in LedgerAccounts |->
                   IF l \in DOMAIN journal THEN balance[l] + journal[l]
                   ELSE balance[l]]
  /\ UNCHANGED refused

(* post, when a zero line gets past assertBalanced: the CHECK aborts the   *)
(* transaction, which leaves nothing behind.                               *)
PostRefused(key, journal) ==
  /\ key \notin posted
  /\ Balanced(journal)
  /\ ~RowsPositive(journal)
  /\ refused' = refused \cup {key}
  /\ UNCHANGED <<wallet, balance, posted>>

(* What the journals of one transaction put on a ledger account together.  *)
Entry(journal, l) == IF l \in DOMAIN journal THEN journal[l] ELSE 0
EntriesOf(journals, l) ==
  SumFunctionOnSet([key \in DOMAIN journals |-> Entry(journals[key], l)], DOMAIN journals)

(* post, once for each key of journals, in a transaction that commits.     *)
PostEach(journals) ==
  /\ DOMAIN journals \cap posted = {}
  /\ \A key \in DOMAIN journals : Balanced(journals[key]) /\ RowsPositive(journals[key])
  /\ posted' = posted \cup DOMAIN journals
  /\ balance' = [l \in LedgerAccounts |-> balance[l] + EntriesOf(journals, l)]
  /\ UNCHANGED refused

(* The same, when one of them has a zero line.                             *)
PostEachRefused(journals) ==
  /\ DOMAIN journals \cap posted = {}
  /\ \A key \in DOMAIN journals : Balanced(journals[key])
  /\ \E key \in DOMAIN journals : ~RowsPositive(journals[key])
  /\ refused' = refused \cup {key \in DOMAIN journals : ~RowsPositive(journals[key])}
  /\ UNCHANGED <<wallet, balance, posted>>

(* wallet.update, both projections at once.                                *)
MoveWallet(a, toAvailable, toLocked) ==
  wallet' = [wallet EXCEPT ![a] =
               [available |-> @.available + toAvailable,
                locked    |-> @.locked + toLocked]]

-----------------------------------------------------------------------------
LedgerTypeOK ==
  /\ wallet \in [Accounts -> [available : Int, locked : Int]]
  /\ balance \in [LedgerAccounts -> Int]

(* DATABASE_DESIGN.md: a projection is what the posted entries add up to.  *)
(* The services update the two in separate statements of a transaction.    *)
ProjectionsReconcile ==
  \A a \in Accounts : /\ wallet[a].available = balance[Available(a)]
                      /\ wallet[a].locked = balance[Locked(a)]

(* No mode creates, loses or lends money: the entries of each mode's chart *)
(* of accounts add up to zero.                                             *)
ModesConserve ==
  \A m \in Modes : SumFunctionOnSet(balance, ChartOf(m)) = 0

(* The services' own checks keep the projections non-negative; the CHECK   *)
(* constraints on wallets, which this model leaves out, never have to.     *)
NoOverdraft ==
  \A a \in Accounts : wallet[a].available >= 0 /\ wallet[a].locked >= 0

(* All three at once, for the modules that build on this one.              *)
BooksInOrder == ProjectionsReconcile /\ ModesConserve /\ NoOverdraft

(* DATABASE_DESIGN.md: "The posting service validates: ... all amounts are *)
(* positive decimal values", so no row is left for the database to refuse. *)
AcceptedLinesPositive == refused = {}
=============================================================================
