# A TLA+ verification of the betting exchange

The program is a peer-to-peer betting exchange. Users stake simulated money on
the outcomes of a market about a match; orders on opposite outcomes are matched
first in, first out; the matched stakes go into the market's escrow; when a
result is confirmed the winner of each pair gets both stakes, less the streamer's
commission. It is a TypeScript program over PostgreSQL. A use case is one or
several READ COMMITTED transactions (`uow.run`, `src/src/infra/db/uow.ts`), so the
interesting behaviour lies in what a transaction reads without a lock and what
others commit before it uses it. Paths below are relative to `src/src/`.

## 1. The system

| component | state | operations | interacts with | modelled in |
|---|---|---|---|---|
| betting (`application/betting`) | `bet_orders`, `match_allocations` | place an order, match it inline, cancel it, release unmatched stakes | market (unlocked read), ledger, advisory lock | `Exchange`, `LockLadder` |
| matching plan (`domain/matching`, `domain/betting/self-funding.ts`) | none: a pure loop | plan the allocations of an incoming order | called by betting | `Fifo`, `FifoMatching`, `Economics` |
| market life (`domain/catalog`, `application/catalog`) | `markets.status`, `closes_at` | open, suspend, close, cancel, void, sweep of expired markets | closing releases unmatched stakes | `Exchange` |
| results (`application/results`) | `market_results` | propose, confirm, dispute, supersede | read by settlement | `MarketResults` |
| settlement (`application/settlement`) | `settlement_runs`, allocation status | settle a confirmed result, void a market | ledger, orders, market, advisory lock | `Exchange`, `MarketResults`, `LockLadder` |
| ledger and wallets (`infra/db/ledger.ts`) | `ledger_transactions`, `ledger_entries`, `wallets` | post a balanced transaction once per idempotency key | every money operation | `Exchange` (balances), `CreditRequests` (the unique key), `LockLadder` (lock order) |
| simulated credit and idempotency (`application/wallet`, `application/shared`, `platform/http`) | `idempotency_keys`, ledger | credit under a daily cap, once per key, and replay the response | wraps the financial routes | `Credits`, `CreditRequests` |
| stake limits (`application/compliance`) | `rg_limits` | lower a limit at once, raise it after a cooling-off time | placement checks it | `StakeLimits` |
| account status (`application/compliance`, `application/identity`) | `users.status`, `self_exclusions`, tokens | verify, self-exclude, suspend, restore | every use case checks it | `Accounts` |
| logins, sessions, rate limiter | `login_attempts`, `sessions`, `rate_limit_buckets`, `users.password_hash` | log in, reset and change the password, revoke | compliance (status) | `Logins` |
| transactions and locks (`infra/db/uow.ts`, `locks.ts`) | row and advisory locks | commit, roll back, abort a deadlock's victim, retry | everything above | `LockLadder` |
| reconciliation (`infra/db/reconcile-queries.ts`) | none: queries over the books | report the invariants that do not hold | reads the books | `Reconciliation` |

What is hard, and what makes each part correct:

* **Stale reads.** Placement and the market's transitions read the market with a
  plain `SELECT` and act on it later. Correct means: whatever overlaps, a wallet's
  locked money is exactly what the user's open orders wait for.
* **Commit order.** Orders are ranked by the clock at the start of the placement
  but enter the book when it commits. Correct means: matching is complete (no two
  orders that could be paired both wait) and respects that rank.
* **Two locks that do not exclude each other.** Placement, settlement and voiding
  take the market's advisory lock; closing, suspending and cancelling take row
  locks. Correct means: no stake is released or paid twice.
* **Many small amounts.** A stake is split over several allocations, each with its
  own rounded commission. Correct means: escrow holds both sides of every active
  allocation, settlement empties it, no unit of money appears or is lost, and a
  win returns what the odds promise.
* **Partial histories.** An order can be matched in part and cancelled, a market
  closed after settlement began, a result void. Correct means: each balance is
  explained by the user's own bets.
* **Writes by id.** A result, an account's status and a limit, like a market's
  status, are checked on one read and overwritten later. Correct means: two
  administrators stand behind whatever a market is settled on, it is settled once,
  and an exclusion or a lowered limit is not undone.
* **Several transactions for one request.** An idempotent request claims its key,
  runs its handler and stores its response in a transaction each; a login counts
  failures in one and records its own in another, and what a transaction revokes is
  chosen before what it commits is seen. Correct means: nothing is credited
  twice or answered wrongly, and what slips past a limit or a revocation is bounded.
* **Deadlock.** The transactions take wallets, orders and the market's locks in
  orders of their own. Correct means: a deadlock always has a member that is tried
  again, nobody waits for ever, and a plan stays valid until its commit.

## 2. Modules

| module | what it is |
|---|---|
| `Totals` | the sum of a finite function of amounts, as the cardinality of its set of units: no recursion, so it can be proved about |
| `Economics` | the arithmetic of a market's profile: scaling, what profiles are accepted, what a pair promises and returns |
| `Fifo` | what first-in-first-out matching pairs, stated without a loop |
| `FifoMatching` | the loop of `domain/matching/plan.ts`, an iteration per step, with its self-funding check |
| `Exchange` | one market: orders, allocations, wallets, escrow, the market's status, and every transaction that changes them |
| `ExchangeClaims` | statements of comments and reconciliation checks that `Exchange` refutes |
| `Reconciliation` | the queries that audit the books, over the state of `Exchange` |
| `MarketResults` | the results of one market: who proposes, confirms, disputes and replaces them, and what settlement makes of the confirmed one |
| `LockLadder` | every lock of the transactions that move stakes, deadlock, its victim and the retry |
| `Credits` | what a financial route promises: the abstract specification of an idempotent credit |
| `CreditRequests` | the code that keeps that promise, statement by statement, with failures between its transactions; shown to implement `Credits` |
| `StakeLimits` | a player's daily stake limit, its deferred raise, and the placements checked against it |
| `Accounts` | the status of one account and everything that overwrites it |
| `Logins` | rate limit, lockout, password and sessions of one account |
| `MCExchange`, `MCMarketResults`, `MCFifoMatching`, `MCLockLadder`, `MCCreditRequests`, `MCStakeLimits`, `MCAccounts`, `MCLogins` | the small instances TLC checks |
| `TotalsProofs`, `ExchangeProofs`, `LoopProofs`, `ResultsProofs`, `CreditProofs`, `LimitProofs`, `LoginProofs`, `LadderProofs` | theorems and proofs |

`Exchange` uses `Fifo` for its plan, `Economics` for what a pair returns and
`Totals` for its sums; `FifoMatching` ties `Fifo` to the loop in the code.
`MarketResults` and `LockLadder` look at two aspects of the same transactions that
would multiply the states of `Exchange` without adding to its properties: the life
of a result, of which `Exchange` has what its settlement reads, and the locks,
of which `Exchange` has those that decide what a transaction reads. The other
modules touch the exchange only through what a placement is refused for.

In every module an action is what a transaction does between two points at which
it reads something without a lock that another transaction can change before it
is used. What lies between two such points is one step: under READ COMMITTED
nothing of it is visible before the commit, and the rows it depends on are locked.
Operators marked "Mutant" are plausible mistakes, each next to the definition it
would replace; no specification uses them.

### `Exchange` and the code

| variable | code |
|---|---|
| `status`, `expired` | `markets.status`, whether the clock passed `closes_at` |
| `result`, `run` | the market's current `market_results` row and its `settlement_runs` row |
| `order` | `bet_orders`, in `created_at` order; a placement in flight is `PLACING`, one rolled back `ABORTED` |
| `alloc` | `match_allocations` |
| `available`, `locked` | `wallets.available_minor`, `wallets.locked_minor` |
| `escrow`, `payable` | balances of `MARKET_ESCROW` and `STREAMER_PAYABLE` |
| `tx` | the market transaction each worker (admin request or sweep) is in, with what it has read |

| action | code |
|---|---|
| `PlaceBegin` | `PlaceOrder`: the unlocked read of the market and the checks on it |
| `PlaceCommit` | the wallet's row lock, the reservation, the order's row, the advisory lock, and `matchIncomingOrder`, up to the commit |
| `PlaceAbort`, `MarketTxAbort` | a rollback: a failed check, an error, a crash |
| `CancelOrder` | `CancelOrder`, whose first read locks the order's row |
| `AdminTransition`, `SweepList`, `SweepTransition` | the transition endpoint and the closing sweep, up to the check on the unlocked read |
| `TransitionUpdate`, `TransitionCommit` | the unconditional update (which locks the row), the scan of the open orders, then the release of those still open, and the commit |
| `SettleBegin`, `SettleCommit`, `SettleVoidResult` | `SettleMarket` under the advisory lock, with and without a winner |
| `VoidBegin`, `VoidCommit` | `VoidMarket` |
| `ProposeResult`, `ConfirmResult` | what settlement sees of the result's life |
| `ClosingTimePasses` | the clock |

`CancelOrder` reads the market after locking the order; a concurrent close would
have to wait for that row to release the order, so the step can be taken at its read.

Abstractions: every market has the odds of a profile that can be created, and the
self-funding check is left out, because `NeverRefused` (a run and a theorem about
`FifoMatching`) shows that it always passes; account status, limits and the stake bounds only
refuse a placement, which `PlaceAbort` covers; the currency is one; the audit rows are
left out. Settlement's `listActiveByMarketId` and `findAllByMarketId` see the state at
the commit because the advisory lock keeps placements out and no open order is left.
That the steps which read under a lock may be taken in one is itself a matter of
`LockLadder`: what a placement, a closing or a settlement has read stays true until its commit
(`PlansStayValidHolds`, `SettlementHasAllHolds`).
The platform's fee of a profile is charged by no settlement in the code, and so by none here.

`Reconciliation` has the queries INV-05 to INV-09, INV-12 and INV-13 as sets of
offending rows over these variables, taken in one state, and `Failures` as the
report. The queries over single ledger entries (INV-01 to INV-04, INV-10,
INV-14, INV-15) and the one about triggers (INV-11) are left out, as `Exchange`
has balances and no entries. The alert about a failed check changes none of this.

### `MarketResults` and the code

`results` is the table `market_results` for one market, in insertion order; `run`
its `settlement_runs` row; `request` what each request in flight has read. Every
use case of `application/results` is a read (`ProposeRead`, `ConfirmRead`,
`DisputeRead`, `ResolveRead`: the unlocked select and every check on it) and a
commit (`ProposeCommit`, ...: the write by id, whatever the row is by then).
`ConfirmCommit` repeats the check for another confirmed result because the
partial unique index does. `SettleRead` and `SettleCommit` are `SettleMarket` as
the results see it, under the advisory lock; the book and the money are in
`Exchange`. `TransitionWrites` lets the market's status be overwritten at any time,
which allows more than the transitions of `Exchange` do. `assertResumable` lets a failed
run be resumed, but nothing calls `markFailed`, so a run has no such status here.
An administrator with an order on the market is refused everything but a dispute
(R-10); `Admins` are the others.

### `FifoMatching`, `Economics` and the code

A step is an iteration of `planMatching`: `Skip` when nothing is left of the
incoming order, else `Pair` with the smaller of the two amounts, recorded if it is
positive, and refused if the pair cannot pay its odds. `Economics` has `mulBps`,
`scaleByRatio`, the validation of a profile and `isSelfFunding` with their
divisions rounding down. All orders of a market have the odds of its profile.

### `LockLadder` and the code

`Steps` names the lock steps of the five kinds of transaction in the order the
code takes them: a placement takes its wallet, the advisory lock, the rows of the
opposing book (`FOR UPDATE`) and two wallets per pairing; a cancellation its order
and the wallet; a closing the market's row, the open orders' rows and their
wallets; settling and voiding the advisory lock, then what a closing takes, then every
order's row and the wallets they pay. A step first reads what it needs
(`Enter`: a scan is in sequence order, and keeps only the rows that are still open once it
holds them) and then `Acquire`s lock by lock; a commit or a refusal releases all of them.
`Victim` is PostgreSQL aborting any member of a cycle; only a placement starts again
(`PLACE_ORDER_TX_OPTIONS`, three attempts), the others fail for good. The amounts
are left out: a placement's plan is any prefix of the book, with the last order or the
incoming one left with a rest or not. That a run of a settled market is not settled again is
`settled`. The wallets of one posting are taken in ascending user order, as
`ledger.ts` does; nothing orders the wallets of two postings, or of two markets.

### `CreditRequests`, `Credits` and the code

A request is `TryCreate` (the key's row, or `Lookup` of the response stored under
it), the crediting transaction — `Sum` of the day's credits, `Lock` of the wallet,
`Find` of an earlier posting, `Insert` against the unique index, `Commit` — and
`Respond`, which stores the response. `Fail` may end a request before any of these;
what it had committed stays. `Credits` says the same in two actions: a key pays
once, in one step, and is answered only when it has paid. A client may send
anything again at any time, and two users may choose the same key. Every request falls on one day.

### `StakeLimits`, `Accounts`, `Logins` and the code

`StakeLimits` has the row for `STAKE`/`DAY` of `rg_limits`: `UpdateRead` and `UpdateCommit` are
`UpdateLimitUseCase` with its unlocked read, `PlaceLock`, `Check` and `Reserve` what a placement
does with the wallet locked. A day is both the period and the cooling-off time. The rows for a week,
a month and a single bet follow the same rule. A limit that the code lists by default is not stored,
and only stored limits are enforced. `RaiseWaits` says when the limit in force may rise: when a raise has
waited its day, or by the write of a request that read the row before others changed it, and then no higher than
what was in force when it read. This is what a lowering can be lost to.

`Accounts` has a read and a commit for verification, change of address,
self-exclusion, suspension and restoration; `tokens` are the mailed verification
tokens with their expiry. `admin-update-user-status.ts`, which could set any status,
is called by no route and left out.

`Logins` has the rate limiter's one-statement counter (`Receive`), then the transactions of
a login: `Count` the recent failures, `Verify` the password, `Record` the attempt,
`CreateSession`. Failures and admissions are kept as how many happened so many ticks ago.
A transaction that sets the password is two steps. `ResetPassword` or `ChangePassword` is its last
two updates: the hash and, with the account's row locked by then, the revocation of the
sessions that are committed, less the one kept. `write` holds what it revoked until `CommitPassword`, or
until `FailPassword` lets them live on. In between logins still verify the old password and open sessions
that the revocation has not seen. At the commit every session there is becomes *stale*: opened by a login that
verified a password which has been replaced; so does what logins in flight have verified. A change may keep
a session that is stale already, as it was authorised and its old password verified earlier, before
a reset. `RevokeOthers`, `EndSession` and `ExpireSeen` are the other ends of sessions. `late`
counts the logins that the rate limit let pass during the last such transaction that committed.

## 3. What is checked

| run | instance | shows |
|---|---|---|
| `core` | `Exchange`: two bettors with 2 units and the streamer with 1, stakes 1 and 2, 3 placements, 1 worker | the type invariant; `LockedBacksOpenOrders`; `OrdersAccountForStakes`; `WalletExplained`; `BookNeverCrossed`; `CleanCounterparties` (R-01, R-02); `TimePriority` |
| `race` | `Exchange`: two bettors, 2 placements, 2 workers | `LockedBacksOpenOrders`, `EscrowBacksActive`, `Conservation`, `WalletExplained`, `ReportIsExact` while two administrators, sweeps and settlements overlap |
| `fifo_matching` | amounts 0..5, up to 4 resting orders, 60 profiles of which the accepted ones are used | `LoopIsFifo`, `NeverRefused`, `ReturnsThePromise` |
| `results` | 2 administrators, 2 concurrent requests, 3 rows, 1 outcome or none | `FourEyes`, `ResultNeverLost`, `SettledOnce` |
| `credits` | 2 users, 3 keys one of which they share, 2 handlers, cap 2 | the refinement `CreditsAsPromised`; `BalanceIsLedger` (INV-03), `CapOvershoot`, `RepliesAreTrue`; liveness: `RequestsEnd`, `RetriesAnswered` |
| `limits` | limits 1 and 3, stakes 1 and 2, 3 requests, 3 days | `StakeStillFits`, `LastWordCounts`, `RaiseWaits` |
| `logins` | 2 logins in flight, rate 2 per 2 ticks, 2 failures per 3 ticks, 1 more login while a password is written | `RateBound`, `LockoutBound`, `StaleSessionsBound`; liveness: `LockoutEnds` |
| `locks` | 1 market, 3 resting orders of 2 users and one that can match them, 2 connections, 3 attempts | `PlansStayValid`, `CyclesNeedPlacement`, `CyclesNeedWallet`; liveness: `TransactionsEnd` |
| `claim_stranded`, `claim_voided` | two bettors, unit stakes, 1 worker | two statements of the repository that the market does not keep |
| `claim_exclusion` | 2 tokens, exclusions of a day, two days or for ever, 1 request, 4 days | one that the account does not keep |
| `claim_key` | the instance of `credits` | one that the idempotency key does not keep |

### Bounds

Three orders are what partial matching, an order left waiting between two others and a placement
overtaken by a later one need; the streamer among the users can try to bet on their own market. Two
workers are what two transitions on one stale read, or a close during a settlement, need. The
commission is 50%, so that a stake of 1 has its commission rounded away and a stake of 2 has not. In
`results` three rows are a dispute resolved twice, by two requests that both read it as disputed;
one outcome and the void result are enough since no rule compares the winners of two results. In
`fifo_matching` four resting orders have one that is taken whole, one partly, one empty and one
passed over, and the amounts leave a remainder in every division. In `credits` two handlers are the
two requests that pass the cap with the same sum, and the shared key and the key sent with two
amounts the two ways a key is reused. In `limits` three requests are a raise, a lowering and a
placement between them. In `logins` the window is shorter than the lockout, as in the code, and two
logins in flight are what passes the lockout together; one login that passes the rate limit between the
revocation and its commit is what takes the stale sessions beyond those two and the one kept, and the bound is reached. In `locks` two connections make every cycle
of two; the resting orders of one bettor on both sides of nobody else's make the wallet's order
differ from the orders'. The bettors, the outcomes, the workers and the requests are interchangeable
where a run declares symmetry (no liveness property is checked under it); `TimePriority` is a
property of single steps that treats them alike. What the theorems of section 4 state does not
depend on any of these.

Deadlock of the model is not checked where the system really stops: a market that is settled or void
with its placements used up, a loop at its end, the last row of results, the last day of an account.

### Fairness

* `CreditRequests`: weak fairness of each handler's next step (a request that runs gets
  on) and strong fairness of `Lock` (PostgreSQL grants a row's lock in the order of
  the requests for it, so nobody is overtaken for ever). Failures are not fair: they need
  not happen.
* `Logins`: weak fairness of the clock and of each login's next step. The lockout must end
  although the account may be tried again for ever, and no fairness makes an attempt stop.
* `LockLadder`: weak fairness of what a transaction does between locks, strong
  fairness of `Acquire` for the same reason as above, and weak fairness of the deadlock
  detector (`deadlock_timeout` starts it again and again).
* None elsewhere: `closeMarkets` (wired, and so modelled) and `sweepFailedSettlementRuns` are called
  by nothing in the repository and administrators need not act, so that no liveness of
  a market's life can be stated.

### Findings

Each is a run expected to be violated, in which the code does something else than
a text of the repository says.

* `NoStrandedStake`: a placement that read the market while it was open commits
  after the closing transaction's scan; its stake stays locked on a closed book
  until settlement or voiding releases it.
* `VoidEmptiesEscrow`: the general transition endpoint can void a market, and it
  refunds nothing; only the void endpoint does.
* `ExclusionHolds`: a player who is excluded can be suspended, and the restoration of a suspended
  account makes it `ACTIVE` without looking at its exclusion.
* `FailedKeyIsFree`: a handler that fails leaves its key claimed, and every retry
  is answered `SERVICE_BUSY`, for ever.

The models show more that a maintainer should know, none of it against the
properties that hold:

* Two placements that both read the open market can commit after its settlement and be
  matched with each other: their allocations stay `ACTIVE` and their stakes
  in the escrow of a `SETTLED` market for good. `ReportIsExact` is about this: of all
  the reconciliation checks modelled only INV-07 can ever fail, exactly for markets that reached a
  final status, by this way or by `VoidEmptiesEscrow`'s, with bets nobody was paid for.
* Settling a result without a winner leaves the run `IN_PROGRESS` (`run.ts:121`) and the
  market in settlement; the comment at `run.ts:161-163` holds such a row to be unreachable.
* Two transitions checked against one status are both applied (`market-state.ts:104`
  is asked about a status that is no longer there).
* A market of three outcomes (`create-market.ts:53` admits them; `domain/catalog/market-type.ts:4` supports two) can pair two
  losing orders, and its settlement rolls back whenever it is tried.
* A confirmation that read a result before its dispute committed confirms it
  afterwards (against `dispute.ts:34-35`), and settlement then pays it. Two proposals, or two
  resolutions of one dispute, may leave a market with several current results; only
  one of them can be confirmed.
* The cap on credits is summed before the wallet is locked, so that concurrent requests
  pass it, against `simulated-credit.ts:49-52`; `CapOvershoot` says by how much.
* Of two users who choose the same key, the second is answered with success although
  only the first was credited: `Find` looks for the key in the whole ledger. `RepliesAreTrue` therefore promises
  a posting under the key, and not one for the user.
* A lowered limit can be lost to a concurrent write that read the row before
  (`application/compliance/limits.ts:86`), against its comment at line 74, by which a raise defers a day;
  `RaiseWaits` says how high the limit can get.
* Of two exclusions in flight, a shorter one that commits last replaces the end of the longer one, against
  `self-exclude.ts:36` ("never lowers the protection, only raises it"). `ExclusionHolds` is about the account's status
  and does not show this; nothing that is modelled reads the end.
* A change or a reset of the password does not revoke the sessions opened, with the old one, between
  its revocation and its commit, nor those of logins that verified the old one before, against
  `change-password.ts:34` ("Revokes every other session on success"). `StaleSessionsBound` says how many there can be.
* The order of locks that `ledger.ts:259-260` and `match.ts:41-44` describe
  holds within one posting, not across the postings of a transaction, so that placements do deadlock; they are
  retried. Of a cycle of transactions over two markets, the victim may be a closing or a
  settlement, which is not.
* `self-funding.ts:20-22` describes a check without division, while the code
  rounds down, which is laxer; no profile that can be created reaches the difference.
* The bet form estimates returns at fixed odds of 1.8 whatever the profile, and makes a new
  idempotency key for each submission, so that a user's second click is not a retry.
* The repeated-pairing signal R-04 joins only the allocations of the order at hand, hence of one market,
  while its threshold counts markets.

The safety properties of the passing runs hold in spite of them: money and
book stay consistent in every interleaving, which is the main result.

## 4. What is proved

All theorems are about every value of the constants that satisfies the named assumption
of the module (`ExchangeAssumption`, `FifoMatchingAssumption`, `CreditRequestsAssumption`, ...): any
users, outcomes, stakes, commission, number of placements, workers, handlers or rows.
Every safety property that a passing run checks is proved.

**Types** (`ExchangeProofs`). `TypeOK` is inductive as it stands: it includes that an available
balance, an order's parts and an allocation's amount are naturals, so its proof
shows that no operation overdraws an available balance and that matching never
takes more of an order than it has.

**The book** (`ExchangeProofs`): `CleanCounterpartiesHold`, `BookIsNeverCrossed`,
`TimePriorityHolds`. Call a step *quiet* if no order gains unmatched stake or becomes
open, and no pair is added; every step but the commit of a placement is quiet
(`QuietStep`), and a quiet step preserves them all. For the commit of a placement, the
facts about the plan (`FifoBounds`, `FifoInOrder`, `FifoComplete`) say that either the
incoming order is exhausted or every order it could be paired with is, and that an order
is reached only when those ahead of it are. `CleanCounterparties` is strengthened by the
fact that the streamer owns no stored order.

**The money** (`ExchangeProofs`). The inductive invariant is `MoneyInv`. Beside the properties
themselves (`LockedInv`, `EscrowInv`, `AccountInv`, `Conservation`, `WalletInv`) it needs:

* `PlacingWhole`: a placement in flight has nothing matched or released, so that its
  commit starts from the whole stake;
* `PairedOnce`: two orders are paired at most once, so that the set of allocations
  does not merge two that look alike;
* `SettledKnown`: once an allocation is settled the result has the winner it was
  settled for, and keeps it; without it, what a wallet was paid could be explained by one winner and
  recomputed with another.

The sums are over all rows from 1 to `MaxOrders`, those not there yet counting nothing, so that a
placement changes a sum's terms and never its domain. All releases, of a
cancellation, a closing, a settlement or a voiding, are one lemma (`Freed(R)`: the orders
of a set `R` give their unmatched stakes back). The commit of a placement is compared
row by row with what the plan takes; who is paid what by a settlement is a sum over
allocations grouped by winner (`TotalGroup`). `OrdersAccountForStakes`, `WalletExplained`
and the others follow from `MoneyInv`. `ReportIsExact` follows from it too: every
query's rows are empty by one of its parts, and INV-07's are empty exactly when
nothing is active, since the escrow is twice what is.

**Totals and plans** (`TotalsProofs`). `TotalSplit`, `TotalSum`, `TotalReindex`,
`TotalPad`, `TotalGroup` by counting units; `FifoSum`: what is taken from the resting orders
adds up to what the incoming order gets.

**The loop** (`LoopProofs`). `LoopIsFifoHolds`: the loop's state after `next - 1` iterations is the plan for
the part of the book it has passed (`Passed`), an invariant of the loop and so an induction over the book
that the prover does not have to make. `NeverRefusedHolds` and
`ReturnsThePromiseHolds` are arithmetic about rounding down, by way of the acceptance rule;
the bound on what is returned adds up over the pairings planned so far (`Paid`).

**Results** (`ResultsProofs`). `Typed` adds to `TypeOK` that a request names a row there is and an
administrator. `ResultNeverLost` is inductive over it. `FourEyes` is not: the row is
confirmed by a request that checked it earlier, so `EyesOK` says of a confirmation in flight
that its actor is not the proposer, and of a settlement in flight, or done, that its row
has a confirmer, which a dispute does not take away. `SettledOnce` needs `OneSettlement`: the
advisory lock keeps the check on the run true until the commit.

**Credits** (`CreditProofs`). `CreditInv` adds to the types that whoever is about to commit a key is
alone with it (`Reserved`), and that whoever is about to answer, or has answered, found the key paid
(`PaidFirst`, `AnswersPaid`). `CreditsAsPromisedHolds` is the refinement: a `Commit` is the abstract
`Pay`, a `Respond` the abstract `Answer`, everything else a stutter. `CapOvershoot` is strengthened
by `CapInv`, which counts the amounts that requests past the check have yet to post as if they were
credited: of these all but one were not seen by the check of the last.

**Limits** (`LimitProofs`). `LimitInv` adds to the properties that whoever checks or reserves holds the
wallet's lock (`LockHeld`) and is covered by the balance read under it (`Covered`), so that
nothing is staked between a check and its reservation; that no day to come has stakes (`NoFuture`), which is
why a stake still fits when it is posted after midnight; and that both values of the row are
at most what was asked for last (`WordKept`). `RaiseWaits` is shown action by action from it.

**Logins** (`LoginProofs`). The rate limit's bound is not inductive: `RateInv` splits the time of a window
where the current one started, and what lies on either side is at most the limit,
since the count covers the part since then and the part before only loses ticks. The
laws of such parts (`SpanSplit`, `SpanShifted`, `SpanHappened`) come from those of totals. `FailInv`
counts, beside the failures, the logins that have passed the lockout and are not
recorded yet. `SessionInv` counts, beside the stale sessions, the stale logins in flight: they are no more
than the slots, those let pass late and the session kept. As any session opened since the
revocation becomes stale at the commit, it bounds these too while `write` is open, whatever they verify: they and the
logins in flight are no more than the slots and the late ones so far (`LateBound`).

**Locks** (`LadderProofs`). `IInv` has a part for each transaction by itself and four that relate two.
By itself (`Lawful`) a transaction *has* a lock if it holds it or is acquiring it. What it has is of the kinds
of the steps it has entered and in its own market; once past the step for its market, its order or
the orders it found, it has them (`Secures`); a placement or a closing wants rows that come after all it holds
(`Ascends`). A step of another transaction cannot change any of this, and when a transaction enters a step
whatever it had it holds, so that its own steps are few cases (`EnterKeepsLaw`, `AcquireKeepsLaw`).
Between two transactions:

* `PlansStayValid` itself: an order leaves the book only by the hand of who holds its row, or of a settlement,
  which holds both locks of the market (`OpenChanges`);
* `RefundsStayValid`: the same for a cancellation that found its order open;
* `FinalsNotOpen` and `FinalsHaveAll`: a settlement past the market's row has a market that is not open, and once it has
  the rows of the open orders it has all of them, as every placement that could add one needs the advisory lock;
* `FinalsAlone`: hence no cancellation that found its order open is under way while a settlement
  is past the open orders.

`CyclesNeedWallet`: were nobody waiting for a wallet, whoever is waited for would be waiting for an
order's row and hold one; on one market that is a placement and a closing at most, or a settlement
alone (`BookShared`), and the two take the rows in the same order. `CyclesNeedPlacement`: without a
placement whoever is waited for is a cancellation, or the one transaction that holds the market's
row. A cancellation that waits has no wallet, so that one holds a wallet which a cancellation wants,
while it wants the order of that cancellation: it is then a settlement past the open orders, against
`FinalsAlone`. That a closing cannot be in its place is due to its last step being the wallets.
`SomebodyGoesOnHolds` is the part of `TransactionsEnd` that is no liveness: when finitely many
transactions run, one of them does not wait or there is a cycle to break. `IInv` was checked by TLC
on the instance of `locks` and, in random walks, with three connections and two markets.

Only model-checked: liveness (`RequestsEnd`, `RetriesAnswered`, `LockoutEnds`, `TransactionsEnd`),
which is out of the prover's reach, as it rests on fairness and so on when actions are enabled.
`Accounts` has no theorem, since the one statement made of it does not hold. No module declares a
recursive operator.

## 5. Not modelled

* **Settlement sweeper.** It retries failed runs, a status nothing writes, and nothing calls it: its
  states cannot be reached.
* **Catalog administration.** Games, tournaments, matches, streamers and market types are reference rows edited one
  at a time; what matters of them to the exchange, the profiles that can be created, is `Economics`.
* **Second factor and reset tokens.** The codes are checked and consumed by the
  same read-then-write pattern as verification tokens; `Accounts` has that pattern, and `Logins`
  takes a valid reset as given. No route redeems a recovery code.
* **Weekly, monthly and per-bet limits.** The same rule over another period.
* **Several markets.** `Exchange` has one; wallets are the only state markets share, and a posting changes a
  wallet under its row's lock. `LockLadder` takes a set of markets.
* **Risk rules, alerts, audit, dashboards.** They read the state modelled here and change none of it. The alert about an administrator who
  bet on the market (R-10) is written in the transaction its own refusal rolls back, so it is never kept.
* **HTTP surface, user interface, configuration, scripts.** They hold no state of the
  exchange; the user interface is a large part of the repository's source.
