# Zettax in TLA+

Zettax (the packages say PrimeVest) is a trading platform: customers sign up, get a
demo account and a real account, trade at quoted prices, buy timed contracts, stake
on predictions, deposit and withdraw Bangladeshi taka through mobile-money agents,
and operators review what involves money. This directory specifies what its backend
does to balances, requests, positions and credentials under concurrency, retries and
crashes, and what its clients make of late, lost and overtaking answers. Paths below
are relative to `src/apps/backend/src/` unless they start with `src/`.

Modules are checked with TLC on small instances and, where marked, proved with
TLAPS for every value of the constants.

## 1. Inventory

### Components, their state and their operations

| component | code | state it keeps | operations that change it | module |
|---|---|---|---|---|
| Ledger | `database/ledger.service.ts`, integrity migrations | chart of accounts, journals, entries, wallet projections | `post`, `ensureAccountLedgerAccounts`, `lockWallet` | Ledger |
| Demo trading | `trading/trading.service.ts`, `demo-price.service.ts` | orders, executions, positions | `createOrder`, `closePosition` | Trading |
| Accounts | `accounts/accounts.service.ts`, `auth.service.ts: createAccounts` | accounts, demo grants | sign-up, `resetDemo` | Trading |
| Idempotent commands | `database/idempotency.service.ts` | `idempotency_commands` | `claim`, `complete` | Transactions |
| Outbox | `database/outbox.service.ts` | `outbox_events`, `account_event_streams.last_sequence` | `enqueue`, `enqueueAccount` | Transactions |
| Outbox publisher | `database/outbox-publisher.service.ts`, `workers/financial-worker.ts` | claim leases, attempts, publication marks | claim, dispatch, mark, retry | OutboxPublisher |
| Account event stream | `accounts/account-events.service.ts`, `account-realtime.gateway.ts`, the app's `account_realtime_client.dart` | per-connection and per-app cursors | snapshot, poll, recover, receive | AccountStream |
| Funding | `funding/funding.service.ts`, `funding.state.ts`, `conversion-rates.ts` | deposit and withdrawal requests, payment methods, rates | create, verify, credit, reject, review, approve, process, pay, complete, release | Funding |
| Evidence | `funding/evidence.service.ts` | `evidence_files`, stored objects | upload, claim, clean up | Funding, Readiness |
| Timed contracts | `timed-contracts/*` | contracts, settlement cursor, archived prices | create, settle due batch | TimedContracts, PriceArchive |
| Predictions | `prediction/prediction.service.ts`, `pool.ts` | questions, stakes, pools | create, generate, place, settle, cancel, give up | Predictions, PriceArchive |
| Sessions | `auth/auth.service.ts` | refresh tokens, families, failed logins | register, login, Google sign-in, refresh, logout, revoke, change password | Sessions |
| Verification codes | `verification/verification.service.ts` | authenticator secrets, emailed codes, attempts | set up, send, enrol, consume | Verification |
| Maker-checker changes | `operations/changes.module.ts` | `admin_changes` and the records they target | request, review | Changes |
| Operators' sign-in | `admin/admin.module.ts`, `admin/security.module.ts` | step-up sessions, security keys, challenges | login, confirm, register, verify | AdminKeys |
| Control readiness | `operations/control.service.ts`, `operations.module.ts` | treasury statements, release approvals | submit, review, sign, revoke | Readiness |
| Market data | `markets/*`, the web page's chart | cached and sampled quotes, provider connections | polling, subscription, merging | Charts, MarketStreams, SampledPrices |
| Community | `community/*` | posts, comments, reactions, shares | create, comment, react, share | Community |
| Pending commands | `src/apps/web/app/predictions`, the app's funding and contract repositories | a stored command with its key | confirm, send, retry, forget | PendingCommands |
| Browser pages | `src/apps/admin/app/page.tsx`, `src/apps/web/app/predictions` | lists, cursors | load, act, poll notices | Pages, Notices |
| Practice trading | `src/apps/web/app/demo/page.tsx` | cash, holdings and orders in localStorage | order, fill, cancel, reset | PaperTrading |
| Mobile screens | `src/apps/mobile/lib` | presentation | calls of the above | none |

### How they interact

* Every money operation is one database transaction that claims an idempotency key
  or locks its request row, locks the wallet, posts a journal through the ledger,
  moves the wallet projection in a separate statement, updates its own row, and
  enqueues an outbox event with the user's next account sequence number. The
  isolation level is SERIALIZABLE; a serialization failure is retried up to three
  attempts.
* The financial worker is another process. It settles contracts and predictions in
  batches and publishes outbox events; several may run.
* Contracts and predictions take their prices from one archive of one-second prices,
  which is asked outside any transaction.
* The realtime gateway polls the account events of connected sockets; a client that
  sees a gap asks for recovery from its last sequence.
* Administrators act through the same database: an approved change switches
  trading, deposits or withdrawals of a user, a market or a payment method, or changes
  the fee or an operator's permissions.
* Evidence lives in object storage, outside any transaction.
* Clients keep a command until they know its outcome, and their requests overtake
  each other.

### What is hard

1. *Concurrency in the database.* Two commands on one wallet; a reset that locks the
   account row first and the wallet second while an order does the reverse; two
   requests inserting one key; handlers outside a transaction that look first and write
   later. All of it is invisible to the unit tests, which mock the transaction client.
2. *Two writes of one fact.* Journal and projection, request status and journal,
   exposure when opened and notional when closed, object and evidence row, counter and
   rows.
3. *An await between reading and using.* A price, a password hash, a token signature, a
   permission read by a guard: what was read may be stale when it is used.
4. *Retries and losses.* A client that lost the answer retries; a worker dies
   between dispatching and marking; a page is closed while it sends.
5. *Independent people.* Deposits, withdrawals and administrative changes want two
   different operators along every path through the statuses.
6. *Rounding and zero.* Half-up cents in prices, rates and pools; amounts that round
   to zero.
7. *Time.* Staleness windows, leases, seven-day evidence, settlement that must
   eventually reach every contract.

`PROJECT.json` lists the hazards at the lines where they bite, with the property that
watches each, or why none does.

### What makes each component correct

* Ledger: projections equal posted entries; every mode's accounts sum to zero; no
  balance is negative.
* Trading and accounts: locked funds are exactly what open positions cost; a
  position's journals are posted exactly when its status says so; a settlement pays
  its profit or loss to its owner only; a reset neither invents nor strands money.
* Idempotent commands: one key, one effect, one answer; every request ends.
* Outbox and events: an event per committed command, without gaps; at-least-once
  delivery; a client that recovers converges and skips nothing.
* Funding: locked funds are exactly the undecided withdrawals; cash is exactly the
  credited deposits less the paid withdrawals; a request is settled or released,
  never both; independent operators; one file, one request.
* Contracts: each is entered and settled once, at the archived prices of its own two
  seconds; its outcome is unknown when it is opened; nothing due is skipped for ever.
* Predictions: a question is resolved once; its pool pays out exactly what was staked;
  locked funds are the unresolved stakes.
* Sessions and codes: a replayed token ends its family whatever races with it;
  a code serves once, within its attempts and its time.
* Changes: what is applied was approved by somebody else, for the record they saw, by
  people who could still ask for it.
* Operators' keys: a challenge serves one answer, and only the step-up session it was
  made for.
* Readiness: a file is evidence of one thing; a bank account keeps its category.
* Clients: a confirmed command is carried out at most once under its key, and a deposit
  or withdrawal of unknown outcome is kept as long as the app runs; a page never goes back
  to an older list and comes to show the newest; each settlement is announced; a chart
  catches up with the price.
* Market data: one provider connection per feed and gateway process; one sample per
  quarter and process (one per quarter is what the documentation asks, see Findings).
* Community and practice trading: a counter is its rows; reservations are covered.

## 2. Modules

```
Ledger ── Ledger_proofs ──┬─ Trading_proofs ── Transactions_proofs
   │      (with lemmas    ├─ Funding_proofs
   │       about sums)    ├─ Contracts_proofs ────┐
   │                      ├─ Predictions_proofs ──┴─ PriceArchive_proofs
   │                      └─ Services_proofs
   ├── Trading ── Transactions      (implements Trading: INSTANCE ... WITH)
   ├── Funding
   ├── TimedContracts ──┬── PriceArchive
   └── Predictions ─────┘
Sessions  Verification  Changes  AdminKeys  Readiness  AccountStream
OutboxPublisher  PendingCommands  Pages  Notices  Charts  MarketStreams
SampledPrices  Community  PaperTrading
          (all but Charts, whose only claim is a liveness one: Services_proofs)
MCTrading, MCTransactions, MCFunding, MCContracts, MCPredictions, MCStream,
MCReadiness, MCPendingCommands, MCSampled, MCServices: instances for TLC
```

Each definition's lines are in `PROJECT.json` under `map`. Operators marked *Faulty*
are deliberately wrong variants of the definition that follows them; no specification
uses them, and each property has one that breaks it.

### Money

**Ledger** (`LedgerService`, its migrations). `wallet` is the wallets table,
`balance[l]` is credits minus debits of the rows posted to a ledger account, `posted`
holds the unique idempotency keys of journals. A journal is a function from ledger
accounts to signed cents. `Post` is `LedgerService.post` with `assertBalanced`, and
`PostEach` several posts in one transaction;
`MoveWallet` is the separate update of the projection, so a component that moved one
and not the other would break `ProjectionsReconcile`. The service's balance check uses
`Decimal.isPositive()`, which holds for zero, while the database has a CHECK on
positive amounts: `PostRefused` is a journal that passes the first and fails the
second. The platform's fee, pool and counterparty accounts are in the chart.

**Trading** extends it with sign-up, demo reset, orders, positions and the trading
switch, each command one step: the abstract statement of what those services do.
Prices, notionals and profits are integers with the code's half-up rounding.

**Transactions** takes the same commands apart: submit, first read (the snapshot), row
locks, the idempotency claim, refusals decided on the snapshot, the writes with the
commit, the reply. `tx[r].stale` is the set of rows committed by others since `r`'s
snapshot, which is what makes a later lock or update fail with 40001. A reset and a
trading command can deadlock, and the two sides of it fail with different error codes,
one retried and one not. A request can be lost at any point. Its refinement mapping
(`Atomic`) implements `Trading!Spec`; the only mapped variable is `tradingEnabled`: an
order that read the switch before it was turned off counts as placed before, until its
answer is on its way (`pc` is `"committed"`, or `"refused"` where the database refused a
journal, which Trading says of an order placed while the switch is on).

**Funding** extends Ledger with both request lifecycles and evidence files. Handlers
lock the request's row first and run at SERIALIZABLE, so a handler is a step; evidence
is stored and removed outside any transaction, so object and row change in separate
steps and a crash is a second step that never comes. `isVirtual` selects sandbox mode,
where checks of independence, identity and evidence are relaxed in the service but the
database's CHECK constraints and the evidence trigger still apply; the model keeps the
two layers apart for that reason. `open` is the set of everything administrators have
switched on.

**PriceArchive** is `ContractPriceService`: a second's price is looked up, fetched from
the external provider if nobody has stored it, and archived by whoever inserts first.
Each of these is a step of an asker, so two of them may fetch different prices for one
second. **TimedContracts** and **Predictions** extend it with Ledger. A contract request
waits for its entry price while the clock, the fee and the wallet move on; a worker pages
through due contracts with its cursor, and may restart. A question is resolved by the
worker, by an operator's retry or by a cancellation, each after an await of its own;
`Allocation` is the pool's division in whole cents with its largest-remainder rule.

### Credentials and operators

**Sessions** is `AuthService` for one customer, with an await between what a request
reads and what it writes, and the conditional updates that are meant to notice.
**Verification** does the same for authenticator set-up and emailed codes.
**AdminKeys** takes the operators' `verify` handler apart statement by statement: it runs
without a transaction. **Changes** separates the guard's reading of permissions from the
handler, so that a change of roles can come between. **Readiness** separates the look at
a file or a statement from the insert that rests on it.

### Events, clients and the rest

**OutboxPublisher** is `publishBatch` in the worker processes. `row` is the
outbox table: state, who claimed it, whether the two-minute lease still runs, whether
the next attempt is due. `worker[w]` is the batch a worker is in: events left, the one
being dispatched, its outcome. A worker runs one batch at a time, so its name stands for
the batch's random token; tokens of dead batches become `"ORPHAN"`. A dispatch may reach
the receiver and still report a failure; recording a success may fail in the database,
in which case the catch block records a failure. The attempt counter only sets the
length of a delay, and is left out with the clock.

**AccountStream** has both ends of the account event stream: server handlers that read
before they send, packets in order on a connection that may drop with them, and an app
that persists before it shows and may handle several recoveries at a time.
**PendingCommands** is the client side of idempotency for three clients, chosen at the
start; the server is reduced to what an answer can be. **Pages** covers the console's
request queues, its moderation of predictions and the predictions page: loads are
numbered, and an answer to any but the newest is dropped. **Notices** is the polled
cursor of settlements that windows share in localStorage. **Charts** follows one price
through provider, caches, fetch, event stream and the page's merge; **MarketStreams** the
shared provider connections of one gateway process; **SampledPrices** the quarter-hourly
sampling passes. The deployment runs the API twice (`backend` and `backend-b`) behind a
proxy that sends a request to either, so what these services hold in memory is per
process: `cache[b]` and `pending[b]` of Charts, `busy[r]` and `attempted` of
SampledPrices, the map of streams (one gateway, with the customers connected to it).
The processes share the database only. **Community** keeps counters beside rows under the
retries of serializable transactions. **PaperTrading** is the web page's practice account.

**MCTrading** takes Trading's commands or Transactions' statements: `part` is chosen at
the start. The commands get every price and quantity; the statements are there for
`EveryRequestEnds`, with two requests.

**MCServices** composes fifteen of these for one run. They share no state: `part` is
chosen at the start and only that part takes steps, the others rest in one initial
state, and fairness is asked of the chosen part alone. The run therefore explores each
part as a run of its own would, with its own bounds.

## 3. What each run shows

| run | cfg | bounds | shows |
|---|---|---|---|
| trading | MCTrading | 1 user, 2 order ids, 2 resets, quantities 1-2, 4 prices; 2 requests out of 6 inputs | books, locked funds, journals, settlements, resets; every request ends |
| zero_lines | MCZeroLines | as above, no virtual mode | *violated*: see Findings |
| transactions | MCTransactions | 3 requests out of 6 inputs | interleavings implement Trading (`AtomicCommands`); a key is done once, with one event per command; three attempts suffice |
| funding | MCFunding | 1 user, 2 operators, 1 deposit, 2 withdrawals, 2 rates, 1 file, real and sandbox mode | books, locked funds, cash, journals, independence, evidence, quoted credit |
| contracts | MCContracts | 2 keys, 2 workers, 2 contracts, 4 seconds, 2 prices, 2 fees, 1 restart | locked funds, terms and prices, no foreknowledge, nothing skipped |
| predictions | MCPredictions | 2 users, 2 questions, 3 stakes, 3 seconds, 2 prices | locked funds, pools to the cent, one resolution |
| prediction_settlement | MCContestedPools | as above | *violated*: see Findings |
| services | MCServices | fifteen parts, below | 19 properties of the parts |
| stream_gaps | MCStream | 4 events, 1 drop | *violated*: see Findings |
| treasury_category | MCReadiness | 2 statements of one account | *violated*: see Findings |
| discarded_outcomes | MCPendingCommands | the funding client, 1 window, 2 commands | *violated*: see Findings |
| sampled_twice | MCSampledTwice | 2 processes, 2 instruments | *violated*: see Findings |

The parts of `services`:

| part | bounds | properties |
|---|---|---|
| Sessions | 2 sessions, 3 calls under way | `ReuseEndsTheFamily` |
| Verification | 3 requests under way | `EmailCodeServesOnce` |
| Changes | 3 operators with different permissions, 2 changes | `AppliedAsRequested` |
| Readiness | 2 signers, one of whom reviews, 2 rows, 1 file, 2 posts under way | `EvidenceIsSingleUse` |
| AccountStream | 4 events, a poll and 2 recoveries at a time, 1 drop | `NothingLeftOut`, `CatchesUp` |
| OutboxPublisher | 2 workers, 2 events, batches of 2 | `AtLeastOnce`, `LeaseIsExclusive`, `EveryEventIsTried` |
| PendingCommands | 3 kinds of client, 2 windows, 2 commands | `PendingCommandsKept` |
| Pages | 3 kinds of page, 2 loads under way | `ListsNeverGoBack`, `PagesShowTheLatest` |
| Notices | 2 windows | `SettlementsAnnounced` |
| MarketStreams | 2 sockets, 2 keys, 3 streams | `OneConnectionPerFeed` |
| Charts | 2 processes, 2 fetches, polls and events that overtake each other | `ChartsCatchUp` |
| AdminKeys | 2 security keys | `ChallengesServeOnce` |
| Community | 1 member, 2 requests under way, 2 attempts | `CountersMatchRows` |
| PaperTrading | 2 windows, 2 coins | `OrdersCovered` |
| SampledPrices | 1 instrument, 2 processes with 2 passes and 1 restart each | `OneSamplePerProcess` |

Why the bounds are enough for what they are asked:

* *One user.* Accounts interact only through the platform's accounts, which one user's
  DEMO and REAL accounts already share per mode; the proofs hold for any number.
  Predictions take two, because a pool has winners and losers.
* *Prices and spread.* `MidPrices` of MCTrading contain a price whose move rounds to
  nothing, one whose loss exceeds the notional and ordinary gains and losses;
  `Scale` 10 makes half cents occur. The spread is larger in relation to the price
  than the demo provider's (4 basis points), so that the loss clamp is exercised.
* *Two resets, two order ids.* One more reset or order than is needed to reuse funds
  that an earlier one released.
* *Three requests.* The inputs include one order sent twice under one key, the same
  order under another key, the key on another order, two closes of one position and a
  reset: every pair that conflicts, and a third to interfere. Two suffice for
  deadlock.
* *Two operators.* The independence rules never need a third person; with two, every
  rule that is not enforced shows up as one person acting twice. Changes take three: a
  maker, a reviewer, and one who changes the maker's role.
* *Two withdrawals, one deposit* at two rates: funds that cover both, one, or neither
  request; releasing one while the other still locks. The amounts stay inside the
  method's limits, which only filter inputs. `SandboxBound` restricts only sandbox
  mode, where operators need not differ: one withdrawal at a time, rates that stay and
  switches on.
* *Two keys, two workers, two contracts.* The two plans of MCContracts put both
  contracts on one account or on one of each mode; prices 2 and 5 make a winner, a
  loser, a draw and a rounded share. Four seconds let one contract expire while the
  other is requested, and a request's price come too late. Batches of one make the
  cursor move past each contract and back.
* *Three stakes.* Two winners who share an odd pool; a customer who changes sides with
  another question under way; a stake in each mode on one question. One price is above
  the target and one equals it.
* *Two workers, two events*: an overtaken lease, and a batch that ends with an event still
  to do. The batch limit covers both events, since a smaller one lets a failing older
  event hold back a younger one unless delays are compared with batch times, which a
  model without clocks cannot do.
* *The clients.* Every race there is between two: the load that is overtaken and the
  one that overtakes, the window that stores and the one that reads, the poll and the
  recovery. One dropped connection shows what state outlives a connection.
* *Two signers of releases*, of whom `OneOfThemSigns` lets one sign and submit and the
  other review: a file that serves two rows of its owner, or a row and a statement, is what
  can go wrong, and nobody attaches another's file. Any number who do both is left to the
  proof.
* *Two processes* of the API, where state is per process: each may overtake the other, and
  restart within. Prices, fetches and instruments interact within a process only.
* Clocks, ids, keys, rows and restarts are the only counters. `MaxTime`, `MaxRestarts`,
  `MaxTries` and the sets of ids bound them.

Symmetry is used in `transactions` and `funding`, over keys, files, references, operators
and request ids, none of which a property names; these runs check no liveness. Deadlock
is checked in `trading`, `transactions` and `funding`, where an administrator can always
act. The other runs have clocks and inputs that end, so the model, like the system, comes
to rest.

**Fairness.** Each liveness property rests on what keeps running without anybody's will:

* `TxSpec`: weak fairness of `Serve(r)`, the server executing the statements of a request
  it has begun, and of `BreakDeadlock`, PostgreSQL's deadlock detector (a deadlocked pair
  stays deadlocked until it is broken, so weak fairness is what the detector gives).
* `ContractSpec`: weak fairness of each worker's steps, the `while` of
  `workers/financial-worker.ts`. A fetch or a settlement that fails is one of these steps,
  so no success of the provider is assumed.
* `StreamFairness`: the socket reconnects, the server's interval polls, handlers finish
  and packets of a live connection arrive.
* `PublisherFairness`: workers loop and leases and delays run out; strong fairness of
  dispatching each event: a worker may die any number of times, but not each time between
  claiming that event and reaching it. It does not assume that a dispatch ever succeeds:
  the dispatcher installed today always refuses.
* `PagesFairness` and `ChartFairness`: timers fire, requests are answered or fail,
  answers arrive, caches expire.

Nothing is assumed of customers, operators or failures: `Lose`, `Restart` and
`SettlementFails` are never required and never excluded. The other modules make no
liveness claims and state no fairness.

## 4. Findings

**A zero line passes the service and fails in the database** (run `zero_lines`).
`docs/DATABASE_DESIGN.md:30` says the posting service validates that all amounts are
positive. `assertBalanced` (`database/ledger.service.ts:224`) tests `isPositive()`,
which decimal.js answers true for +0. `closePosition` always adds a settlement line and
a profit or loss line, whatever they amount to; when a position's profit rounds to zero
cents the CHECK on `ledger_entries` aborts the transaction and the close fails. Demo
prices move by at most 15 basis points around the base with a 4 basis point spread, so
the profit of a position of a few dollars rounds to zero at many of the quotes it meets;
each close at such a quote fails, and meanwhile its funds cannot be reset away.

**A contested question cannot be settled** (run `prediction_settlement`).
`docs/PREDICTIONS.md:27` promises the losing stakes to the winners. `settleOne`
(`prediction/prediction.service.ts:1150`) posts a payout line when `payout.isPositive()`,
which is again true for the zero of a losing stake; the CHECK refuses the line, the
settlement rolls back, at every attempt of worker and operator, and the stakes stay
locked. Only a question without stakes on both sides in one mode settles.

**A lost recovery stops all later ones** (run `stream_gaps`). `docs/API_CONTRACT.md:82`
has clients request `account:recover` after a gap. `_requestRecovery`
(`src/apps/mobile/lib/core/account/account_realtime_client.dart:247`) does nothing while
one is under way, and only its acknowledgement ends it. A connection that drops before
the acknowledgement leaves it under way for ever: the app ignores every gap from then on.

**One bank account in two categories** (run `treasury_category`).
`docs/funding-admin-operations.md:43` says customer funds and reserve capital cannot share
an account. `submitTreasury` (`operations/operations.module.ts:387`) reads the account's
newest statement and inserts its own without a lock; two first statements submitted
together find none and are both recorded.

**A command of unknown outcome is discarded** (run `discarded_outcomes`).
`docs/funding-admin-operations.md:33` says a later refusal must not discard an earlier
uncertain outcome. `_send` (`src/apps/mobile/lib/core/funding/funding_repository.dart:67`)
marks a command as uncertain when a request fails; if the app is killed while it waits,
nothing marks it. The retry meets a closed gate before the look-up of the first request,
and the app forgets a deposit or withdrawal that exists.

**A quarter is sampled by each process** (run `sampled_twice`).
`docs/SAMPLED_MARKET_PRICES.md:5` says that the backend samples each symbol at most once
per 15-minute bucket, and counts the provider's daily quota by that. `poll`
(`markets/sampled-price.service.ts:87`) looks for a sample of the quarter and stores one
after the provider's answer; `busy` and `attemptedBuckets` (lines 44-45), which keep a
pass from overtaking another, are fields of one process, and the API runs as two. Both
may find no sample, ask and store; the unique key is on instrument and moment, which two
processes seldom share. What does hold, and is proved, is one sample per process.

## 5. What is proved

`Ledger_proofs` begins with the community operator `SumFunctionOnSet`: a sum can be taken
apart at any index, changes by as much as one of its terms, depends on its terms only,
bounds natural terms, and is at most the sum over a set its index set is mapped into one
to one. The library defines the operator by recursion over an arbitrary choice; the
lemmas use the existence of minimal subsets instead of induction over data.

It then proves `BooksKept`: any step that posts a balanced journal whose lines
touch one account and its mode's platform accounts, and moves that account's wallet by
the same amounts, keeps the ledger typed, reconciled and conserved. `BooksKeptByEach` is
the same for a transaction that posts several journals. Each component's proof supplies
its journals to one of them.

`PriceArchive_proofs` proves what contracts and predictions both rely on: what is archived
never changes, and `PricesInv`: what is archived, asked for or quoted is of a second that
is over, and a quote is what the archive keeps.

`Trading_proofs` proves, for any constants that satisfy `UsersAssumption` and
`TradingAssumption`, every safety property the `trading` run checks. The inductive invariant
`IInv` is the conjunction of type correctness, the three ledger facts, the locked-funds
equation and the journal equation. They lean on each other:

* every sum needs the types: a lemma about sums applies to integers only, and that a
  notional is a natural number comes from the type of positions and of prices;
* `LockedBacksPositions` is what bounds a position's notional by the account's locked
  funds (a term by its sum), and with it `ProjectionChecksPass` and the locked half of
  `NoOverdraft`, which no check on `wallet` alone gives after other positions closed;
* `JournalsMatchPositions` says that a position's keys are unused while its status is
  `NONE`, so that an opening leaves no closing journal behind it.

One lemma per action shows that it keeps `IInv`; `NextInv` combines them, `Invariance`
is the temporal theorem, and the rest follow: `ChecksNeverStop` (no close of an open
position ever meets `LEDGER_PROJECTION_MISMATCH`) from the bound of a term by its sum,
`SettlementsPay` (an action property) from `IInv` and the definition of a close.

`Transactions_proofs` proves the refinement and every safety property the `transactions`
run checks, for any requests, inputs, users, prices and number of attempts, resets
included. `TxIInv` holds Trading's `IInv` and what a transaction may rely on:

* `ViewHolds`: a snapshot lacks only commands completed since, and its account's wallet
  and positions are those of the tables unless the wallet's row is stale;
* `InOrder`: past its claim nobody has done a request's command; at its writes the wallet's
  row is not stale and the refusals decided on the snapshot have passed;
* `Exclude`: of two requests past their claims the commands differ, of two that are writing
  the wallets.

So a commit meets the wallet and positions it has read, which makes it Trading's command of
the same name (`TransactionsImplementTrading`, action by action), keeps the books between
any two statements (`InterleavedBooks`) and leaves a key done once (`EachCommandOnce`).
The proof found the mapping of `tradingEnabled` false at one point: an order the database
refused stopped counting in the step that refused it. The model now has the state in
between, where the transaction has failed and its answer is not sent.

`ConflictsRetried` is about any number of requests not above `MaxAttempts`. Its invariant
`AttemptsOwed` counts: whoever starts over has seen one more command completed each time,
and as many requests have ended as commands are completed, so a request that has failed
in each of its attempts would be one more than there are. A reset spoils the count, since a
deadlock spends an attempt without a commit; the property is about trading commands.

`Funding_proofs` proves every property the `funding` run checks, without its bounds and
its constraint: any customers, operators, methods, amounts, rates and files, both modes.
`IInv` has four parts, each with its own lemmas, so that an action is split into what it
does to money, reviews, evidence and quotes. Three facts strengthen the checked ones:

* `ReviewsStarted`: a withdrawal past review has a reviewer, and one that is processing an
  approver. The independence of the last step compares a person with the one recorded
  several steps earlier, and is only as strong as that somebody is recorded;
* `EvidenceRecorded`: what a request refers to is a row that is claimed, by it, so a
  second claim of the row is refused before any request refers to it;
* `QuotesRecorded`: a deposit's dollar amount is its taka at its own recorded rate, which
  is what makes the credit independent of the rate in force.

`Contracts_proofs` proves the safety of `contracts`: `StakesBacked`, `TermsHonoured` and
`OutcomeUnknown`, for any keys, workers, fees, prices and any length of time. Beside `PricesInv`, by which a
contract's terms can be read back from the archive at any time (`TermsKept`), it needs
`AskersInv`: a caller that waits for a price waits for the second its contract needs,
whatever other workers have done with the contract since.

`OutcomeUnknown` follows from `PricesInv` and the staleness check: a contract's last second
is at or after `now` when it is opened. `HalfUpBounds` and `SettlementArithmetic` are the
rounding: a settlement pays a natural number of cents, and a loser at most the stake.

`Predictions_proofs` proves every property of `predictions`, for any customers, stakes,
questions, prices and times. Besides `PricesInv` its invariant has:

* `SettlersInv`: a settler that waits for a price waits for its question's expiry, however
  long ago the question was resolved by another;
* `OutcomesInv`: a settled question keeps the outcome its archived price gives;
* `TracesInv`: a stake is pending exactly while its question is open, and its journals say
  how the question was resolved. It is what lets a settlement post a journal for every
  stake at once: none of their keys is used, and all their funds are still locked.

`PoolsPaidInFull` needs no invariant but the types. The remainders of the winners' rounded
shares add up to a multiple of the winning pool; what rounding left over is that multiple,
and as each remainder is less than the pool there is a winner for each cent
(`FewLeftOver`); the cents go one each to the first in a strict order (`FirstInOrder`,
`ExtrasGiven`), so that all of the pool is paid (`AllPaid`).

`Services_proofs` proves every safety property of the `services` run, one section to a
part, for any number of requests, keys, windows, workers or events. What each inductive
invariant adds to the property and the types:

* Sessions (`ReuseEndsSessions`): of a live session only older tokens have been presented,
  and a refresh has read a version that is not above the row's;
* Changes (`ChangesAppliedAsRequested`): little more than the records' fields; the property
  follows from the guards of approval read together with what the maker was shown;
* OutboxPublisher (`PublishedWasDelivered`, `LeasesExclude`): an outcome "taken" is of a
  delivered event, and a claimed event is due, else the end of a delay would be a change
  inside a lease;
* AccountStream (`NoEventLeftOut`): each event the app counts as received is shown, waits to
  be shown, or lies in a recovery under way; nothing is on its way before the app subscribes;
* Verification (`EmailCodeUsedOnce`): a code was drawn for one purpose, wherever it is known;
  what is about to be consumed was mailed; what was used is off the row;
* AdminKeys (`KeysServeOnce`): a consumed challenge is held by one request, and no accepted
  count is above the recorded one;
* Readiness (`EvidenceUsedOnce`): a row's file is claimed by that row, and only office gates
  go without a file;
* Community (`CountersRight`): a transaction that no commit came between still sees the rows
  as they are;
* MarketStreams (`FeedsConnectedOnce`): a stream in the map has its key's customers and is
  connected or has its timer set, one outside rests. Joining, leaving and closing are lemmas
  on whole maps, because a socket that changes its key does two of them in one step;
* SampledPrices (`ProcessesSampleOnce`), for each process: its `busy` keeps its passes apart,
  a pass asks only for what its process has not stored, and questions are counted against
  its restarts; nothing relates two processes, which is why the claim is per process;
* PendingCommands (`CommandsKept`): nothing unconfirmed is anywhere, and as long as the
  funding app was not killed its window sends what is in the slot;
* Pages (`ListsOnlyGoForward`): the newest load was asked after the answer on the screen
  came;
* Notices (`SettlementsTold`): no cursor, in a window, in storage or in a poll under way, has
  passed a settlement that was not announced;
* PaperTrading (`OpenOrdersCovered`): an order due at a price is filled by what it reserved.
  The orders kept after a fill are mapped one to one into those before it, which bounds
  their reservation; the price goes through the list place by place, and those behind the
  place reached have not moved.

The assumptions are as weak as the code: prices exceed the half-spread, the demo grant
is positive, the sets of ids, requests and members are finite, a reset is of a demo account,
a client has a window, a contract lasts longer than an entry price may be old (30 seconds
against 5), and values that stand for the absence of one ("NONE", the office record) are
not among those they are told apart from. Quantities may be zero; the ledger's CHECK then
refuses the journal.

**Only model-checked.** The liveness properties (`EveryRequestEnds`,
`DueContractsExamined`, `CatchesUp`, `EveryEventIsTried`, `PagesShowTheLatest`,
`ChartsCatchUp`): the provers reach neither fairness nor ENABLED. What a recursive
definition computes for every input stays out of the theorems as well, the provers having
no induction over data; what they need of one is proved by a least counterexample among
the numbers. Every invariant and action property a passing run checks is a theorem.

## 6. What is not modelled, and why

Checks that only refuse. Feature flags, eligibility, readiness gates and verification
codes are reasons why a step is not taken, where the step would be legal without them.

Processes. Of the realtime gateway's map of provider connections one process is modelled:
`OneConnectionPerFeed` is about it and the customers connected to it, and two processes
have a connection each.

Clocks. The look at the clock that admits a contract (`timed-contracts.service.ts:206`) and
the commit of its transaction are one step. Wall-clock time appears as seconds in the contracts and predictions, bounded by
`MaxTime`, and elsewhere as a nondeterministic expiry. Sessions do not expire; the retry
delays of the outbox are "later", which is why a full batch of failing older events that
are due again at once cannot be told from a slow one. Pages assume that the timers of the
moderation and prediction lists are longer than an answer takes.

External code. PostgreSQL: its row locks, snapshots, serialization failures and deadlock
detector are modelled from what the code relies on. The price provider may fail and may
answer one question twice differently. Object storage and socket.io acknowledgements are
as unreliable as the code treats them, except that a storage provider that fails for one
object for ever is left out: the cleanup pass stops at it and retries it first each minute,
so nothing younger is removed until an operator intervenes. Signatures of security keys
are their library's.

Left out of modelled components:

* *Ledger and funding*: currencies (every wallet is in USD since migration
  `20260923070000_usd_customer_wallets`); the append-only triggers, which forbid what no
  code here attempts; payment-method limits, which are constants that nothing later
  depends on. Identities are approved by no code in the backend except the change that
  is modelled; the setting of a user's login switch outside it is external.
* *Contracts*: the settlement of contracts of the former fixed-payout model, which no code
  creates; listings. The worker's three batches are in three modules, not in one cycle.
* *Predictions*: restrictions of creators, reports, notifications, markets other than one,
  a mismatch of price sources, the BELOW condition, which mirrors the modelled one.
* *Sessions and verification*: devices and risk flags. Authenticator codes are modelled, but
  the property is about emailed ones.
* *Changes*: updates of payment methods and of the fee without a reviewing step of their
  own are modelled as the changes that carry them.
* *Readiness*: the sum over gates, signers and balances, which is arithmetic on what counts.
* *Community*: replies, which move one more counter in the same way, listings, broadcasts,
  more than one post.
* *Clients*: further pages of a list, forms and layout, the mobile screens, the console's
  other areas. Practice trading computes in whole numbers where the page uses floating
  point.
* *Market data*: the providers' formats and candles drawn from samples, which only read.

## 7. Plan

Done: Ledger, Trading, Transactions, Funding, OutboxPublisher; AccountStream,
PriceArchive, TimedContracts, Predictions; Sessions, Verification, Changes, Readiness,
AdminKeys; the clients, market data and community; proofs of all their safety properties,
and that Transactions implements Trading.

What would add most from here:

1. **Platform**: Trading, Funding, TimedContracts and Predictions over one ledger: an
   account's locked funds are the sum of all four kinds of reservation, and a demo reset
   is blocked by each.
2. Proofs about the first of these: the sum of the reservations as one invariant.
3. One cycle of the financial worker with its three batches, where a slow batch holds back
   the others.
4. The fixed-payout contracts and creator restrictions, if they come back into use.

Recursive definitions stay out of modules with theorems.
