------------------------------ MODULE Exchange ------------------------------
(***************************************************************************)
(* One betting market of the exchange: its order book, the wallets of the  *)
(* users who bet on it, the escrow that backs the matched stakes, and the   *)
(* transactions that change them (placement with inline FIFO matching,      *)
(* cancellation, the market's own transitions, settlement and voiding).     *)
(*                                                                          *)
(* Every use case runs in one READ COMMITTED transaction.  A transaction is *)
(* split here at each row it reads without locking: what it read is kept    *)
(* and used at commit, when it may be stale.  A use case that reads only    *)
(* rows it locks is a single step.  Nothing is visible before the commit.   *)
(*                                                                          *)
(* An order's position in `order` is its rank by created_at, which the code *)
(* takes from the clock when the placement starts, not when it commits.     *)
(***************************************************************************)
EXTENDS Integers, Sequences, FiniteSets, Totals, Fifo, Economics

CONSTANTS
    Users,          \* the accounts that hold a wallet
    Streamer,       \* the user who runs the market, who may hold a wallet
    Outcomes,       \* the market's outcomes
    Stakes,         \* the stakes the economic profile admits, in minor units
    Funding,        \* each user's available balance to begin with
    CommissionBps,  \* the streamer's commission, in basis points
    Workers,        \* concurrent admin requests and sweeps
    MaxOrders       \* bound: placements started

ASSUME ExchangeAssumption ==
    /\ IsFiniteSet(Users)
    /\ IsFiniteSet(Outcomes) /\ Cardinality(Outcomes) >= 2
    /\ Stakes \subseteq Nat \ {0}
    /\ Funding \in [Users -> Nat]
    /\ CommissionBps \in 0 .. 10000
    /\ MaxOrders \in Nat

VARIABLES
    status,     \* markets.status
    expired,    \* whether the clock has passed markets.closes_at
    result,     \* the market's current result row
    run,        \* the market's settlement_runs row
    order,      \* bet_orders, and the placements still in flight
    alloc,      \* match_allocations
    available,  \* wallets.available_minor
    locked,     \* wallets.locked_minor
    escrow,     \* balance of MARKET_ESCROW
    payable,    \* balance of STREAMER_PAYABLE
    tx          \* the market transaction each worker is in

money == <<available, locked, escrow, payable>>
vars == <<status, expired, result, run, order, alloc, money, tx>>
-----------------------------------------------------------------------------
(* Rows *)

MarketStatus == {"DRAFT", "OPEN", "SUSPENDED", "CLOSED", "SETTLING",
                 "SETTLED", "CANCELLED", "VOID"}

\* PLACING and ABORTED are not stored: a placement in flight, and one that
\* rolled back.
OrderStatus == {"PLACING", "ABORTED", "OPEN", "MATCHED", "CANCELLED",
                "SETTLED", "VOIDED"}

BetOrder == [user : Users, outcome : Outcomes, requested : Stakes,
             matched : Nat, unmatched : Nat, released : Nat,
             status : OrderStatus]

\* a is the incoming order, b the resting order it was paired with.
Allocation == [a : 1 .. MaxOrders, b : 1 .. MaxOrders, amount : Nat,
               status : {"ACTIVE", "SETTLED", "VOIDED"}]

\* No winning outcome: the result of a match that gives none.
NoWinner == "no winner"

Result == [status : {"NONE", "PROPOSED", "CONFIRMED"},
           winner : Outcomes \cup {NoWinner}]

\* The steps of a market transaction: listed by the sweep, transition checked,
\* market row updated and so locked, settlement or void holding the advisory
\* lock.
Step == {"idle", "listed", "checked", "updated", "settling", "voiding"}

MarketTx == [step : Step, seen : MarketStatus, to : MarketStatus,
             scan : SUBSET (1 .. MaxOrders)]

Idle == [step |-> "idle", seen |-> "DRAFT", to |-> "DRAFT", scan |-> {}]

Stored(o) == order[o].status \notin {"PLACING", "ABORTED"}

OpenOrders == {o \in DOMAIN order : order[o].status = "OPEN"}

Active == {x \in alloc : x.status = "ACTIVE"}

Init ==
    /\ status = "DRAFT"
    /\ expired = FALSE
    /\ result = [status |-> "NONE", winner |-> NoWinner]
    /\ run = "NONE"
    /\ order = <<>>
    /\ alloc = {}
    /\ available = Funding
    /\ locked = [u \in Users |-> 0]
    /\ escrow = 0
    /\ payable = 0
    /\ tx = [w \in Workers |-> Idle]
-----------------------------------------------------------------------------
(* Locks *)

\* The market's advisory lock: placement's matching, settlement and void
\* take it; the transitions of the market do not.
AdvisoryFree == \A w \in Workers : tx[w].step \notin {"settling", "voiding"}

\* The lock on the market row, held from its UPDATE to the commit.
MarketRowFree(w) == \A v \in Workers \ {w} : tx[v].step # "updated"
-----------------------------------------------------------------------------
(* Placement *)

AcceptingOrders == status = "OPEN" /\ ~expired

\* The placement reads the market, without a lock, and passes its checks.
PlaceBegin(u, c, m) ==
    /\ Len(order) < MaxOrders
    /\ AcceptingOrders
    /\ order' = Append(order,
                       [user |-> u, outcome |-> c, requested |-> m,
                        matched |-> 0, unmatched |-> m, released |-> 0,
                        status |-> "PLACING"])
    /\ UNCHANGED <<status, expired, result, run, alloc, money, tx>>

\* Mutant: only the orders created before the incoming one are scanned.
EarlierResting(o) ==
    {r \in OpenOrders : /\ r < o
                        /\ order[r].outcome # order[o].outcome
                        /\ order[r].user # order[o].user
                        /\ order[r].unmatched > 0}

\* Mutant: the scan leaves out the filter on the outcome.
AnyOutcomeResting(o) ==
    {r \in OpenOrders : /\ r # o
                        /\ order[r].user # order[o].user
                        /\ order[r].unmatched > 0}

\* The orders the incoming order can be paired with.
Resting(o) ==
    {r \in OpenOrders : /\ order[r].outcome # order[o].outcome
                        /\ order[r].user # order[o].user
                        /\ order[r].unmatched > 0}

Book(o) == [r \in Resting(o) |-> order[r].unmatched]

Fill(ord, m) ==
    [ord EXCEPT !.matched = @ + m, !.unmatched = @ - m,
                !.status = IF ord.unmatched = m THEN "MATCHED" ELSE "OPEN"]

\* The wallet's row is locked and must hold the stake.
Placeable(o) ==
    /\ order[o].status = "PLACING"
    /\ available[order[o].user] >= order[o].requested

\* The stake is reserved, the order stored and matched against the book, all
\* under the wallet's row lock and the advisory lock.
PlaceCommit(o) ==
    LET user == order[o].user
        stake == order[o].requested
        plan == FifoPlan(order[o].unmatched, Book(o))
        filled == FifoFilled(order[o].unmatched, Book(o))
        paired == {r \in Resting(o) : plan[r] > 0}
        taken(u) == Total([r \in {q \in paired : order[q].user = u} |-> plan[r]])
    IN  /\ Placeable(o)
        /\ user # Streamer
        /\ AdvisoryFree
        /\ order' = [k \in DOMAIN order |->
                        IF k = o THEN Fill(order[o], filled)
                        ELSE IF k \in paired THEN Fill(order[k], plan[k])
                        ELSE order[k]]
        /\ alloc' = alloc \cup {[a |-> o, b |-> r, amount |-> plan[r],
                                 status |-> "ACTIVE"] : r \in paired}
        /\ available' = [available EXCEPT ![user] = @ - stake]
        /\ locked' = [u \in Users |-> IF u = user
                                      THEN locked[u] + stake - filled
                                      ELSE locked[u] - taken(u)]
        /\ escrow' = escrow + 2 * filled
        /\ UNCHANGED <<status, expired, result, run, payable, tx>>

\* The placement rolls back: one of its checks fails, or the process or the
\* connection does.
PlaceAbort(o) ==
    /\ order[o].status = "PLACING"
    /\ order' = [order EXCEPT ![o].status = "ABORTED"]
    /\ UNCHANGED <<status, expired, result, run, alloc, money, tx>>
-----------------------------------------------------------------------------
(* Release of unmatched stakes *)

\* Mutant: what was matched is released again.
WholeReleased(ord) ==
    [ord EXCEPT !.unmatched = 0, !.released = ord.requested,
                !.status = "CANCELLED"]

Cancelled(ord) ==
    [ord EXCEPT !.unmatched = 0, !.released = @ + ord.unmatched,
                !.status = "CANCELLED"]

\* Mutant: the requested stake is paid back, not its unmatched part.
RequestedTo(u, R) ==
    Total([o \in {q \in R : order[q].user = u} |-> order[o].requested])

ReleasedTo(u, R) ==
    Total([o \in {q \in R : order[q].user = u} |-> order[o].unmatched])

\* The owner cancels what is left of an order.  The order's row is locked
\* before the market is read, so this is one step.
CancelOrder(o) ==
    /\ order[o].status = "OPEN"
    /\ status \in {"OPEN", "SUSPENDED"}
    /\ order' = [order EXCEPT ![o] = Cancelled(@)]
    /\ available' = [available EXCEPT ![order[o].user] = @ + order[o].unmatched]
    /\ locked' = [locked EXCEPT ![order[o].user] = @ - order[o].unmatched]
    /\ UNCHANGED <<status, expired, result, run, alloc, escrow, payable, tx>>
-----------------------------------------------------------------------------
(* Market transitions *)

\* The transition rules that a caller of the transition use case can satisfy;
\* the edges into and out of SETTLING need inputs no caller passes.
CanTransition(from, to, actor) ==
    \/ from = "DRAFT" /\ to = "OPEN" /\ actor = "ADMIN" /\ ~expired
    \/ from = "DRAFT" /\ to = "CANCELLED" /\ actor = "ADMIN"
    \/ from = "OPEN" /\ to = "SUSPENDED"
    \/ from = "OPEN" /\ to = "CLOSED" /\ (expired \/ actor = "ADMIN")
    \/ from = "SUSPENDED" /\ to = "OPEN" /\ actor = "ADMIN" /\ ~expired
    \/ from = "SUSPENDED" /\ to = "CLOSED"
    \/ from \in {"SUSPENDED", "CLOSED"} /\ to = "VOID" /\ actor = "ADMIN"

Begin(w, t) == tx' = [tx EXCEPT ![w] = t]

\* An administrator asks for a transition; the market is read without a lock.
AdminTransition(w, to) ==
    /\ tx[w].step = "idle"
    /\ CanTransition(status, to, "ADMIN")
    /\ Begin(w, [Idle EXCEPT !.step = "checked", !.to = to])
    /\ UNCHANGED <<status, expired, result, run, order, alloc, money>>

\* The sweep lists the market among the open ones past their closing time.
SweepList(w) ==
    /\ tx[w].step = "idle"
    /\ status = "OPEN" /\ expired
    /\ Begin(w, [Idle EXCEPT !.step = "listed"])
    /\ UNCHANGED <<status, expired, result, run, order, alloc, money>>

\* The sweep then transitions it in a transaction of its own, which reads it
\* again; a failure is swallowed.
SweepTransition(w) ==
    /\ tx[w].step = "listed"
    /\ IF CanTransition(status, "CLOSED", "SYSTEM")
       THEN Begin(w, [Idle EXCEPT !.step = "checked", !.to = "CLOSED"])
       ELSE Begin(w, Idle)
    /\ UNCHANGED <<status, expired, result, run, order, alloc, money>>

\* The market row is updated by id, whatever its status is by now, and a
\* closing transaction scans the open orders it is to release.
TransitionUpdate(w) ==
    /\ tx[w].step = "checked"
    /\ MarketRowFree(w)
    /\ Begin(w, [tx[w] EXCEPT !.step = "updated",
                              !.scan = IF tx[w].to = "CLOSED"
                                       THEN OpenOrders ELSE {}])
    /\ UNCHANGED <<status, expired, result, run, order, alloc, money>>

\* The orders of set R are cancelled and their unmatched stakes released.
ReleaseUnmatched(R) ==
    /\ order' = [o \in DOMAIN order |->
                    IF o \in R THEN Cancelled(order[o]) ELSE order[o]]
    /\ available' = [u \in Users |-> available[u] + ReleasedTo(u, R)]
    /\ locked' = [u \in Users |-> locked[u] - ReleasedTo(u, R)]

\* Of the orders scanned, those still open when their rows are locked.
TransitionCommit(w) ==
    /\ tx[w].step = "updated"
    /\ status' = tx[w].to
    /\ ReleaseUnmatched(tx[w].scan \cap OpenOrders)
    /\ Begin(w, Idle)
    /\ UNCHANGED <<expired, result, run, alloc, escrow, payable>>
-----------------------------------------------------------------------------
(* Settlement *)

Commission(m) == MulBps(m, CommissionBps)

WinnerReturn(m) == ReturnOf(m, CommissionBps)

\* The side of an allocation that backed the winning outcome, if any did.
WinningSides(x) ==
    {o \in {x.a, x.b} : order[o].outcome = result.winner}

\* Mutant: the loser is paid.
LostBy(u, x) == \E o \in {x.a, x.b} \ WinningSides(x) : order[o].user = u

WonBy(u, x) == \E o \in WinningSides(x) : order[o].user = u

\* Settlement takes the advisory lock and reads the market, its confirmed
\* result and its run.
SettleBegin(w) ==
    /\ tx[w].step = "idle"
    /\ AdvisoryFree
    /\ status \in {"CLOSED", "SETTLING"}
    /\ result.status = "CONFIRMED"
    /\ run = "NONE"
    /\ Begin(w, [Idle EXCEPT !.step = "settling", !.seen = status])
    /\ UNCHANGED <<status, expired, result, run, order, alloc, money>>

\* A confirmed result without a winner: the unmatched stakes are released and
\* the transaction commits with the run in progress.
SettleVoidResult(w) ==
    /\ tx[w].step = "settling"
    /\ MarketRowFree(w)
    /\ result.winner = NoWinner
    /\ ReleaseUnmatched(OpenOrders)
    /\ run' = "IN_PROGRESS"
    /\ status' = IF tx[w].seen = "CLOSED" THEN "SETTLING" ELSE status
    /\ Begin(w, Idle)
    /\ UNCHANGED <<expired, result, alloc, escrow, payable>>

WonTotal(u) ==
    Total([x \in {y \in Active : WonBy(u, y)} |-> WinnerReturn(x.amount)])

Fees == Total([x \in Active |-> Commission(x.amount)])

\* What settlement takes out of the escrow: returns and commission.
PaidOut ==
    Total([x \in Active |-> WinnerReturn(x.amount) + Commission(x.amount)])

\* The orders after a settlement or a void: what is open is cancelled and what
\* is matched reaches its final status.
FinalizedOrders(final) ==
    [o \in DOMAIN order |->
        CASE order[o].status = "OPEN" -> Cancelled(order[o])
          [] order[o].status = "MATCHED" -> [order[o] EXCEPT !.status = final]
          [] OTHER -> order[o]]

\* Active allocations reach their final status.
FinalizedAllocations(final) ==
    {[x EXCEPT !.status = IF @ = "ACTIVE" THEN final ELSE @] : x \in alloc}

\* A confirmed result with a winner: every active allocation is paid, the
\* escrow must come to zero, and the run and the market are finished.
SettleCommit(w) ==
    /\ tx[w].step = "settling"
    /\ MarketRowFree(w)
    /\ result.winner # NoWinner
    /\ \A x \in Active : WinningSides(x) # {}
    /\ escrow = PaidOut
    /\ order' = FinalizedOrders("SETTLED")
    /\ alloc' = FinalizedAllocations("SETTLED")
    /\ available' = [u \in Users |->
                        available[u] + ReleasedTo(u, OpenOrders) + WonTotal(u)]
    /\ locked' = [u \in Users |-> locked[u] - ReleasedTo(u, OpenOrders)]
    /\ escrow' = escrow - PaidOut
    /\ payable' = payable + Fees
    /\ run' = "COMPLETED"
    /\ status' = "SETTLED"
    /\ Begin(w, Idle)
    /\ UNCHANGED <<expired, result>>
-----------------------------------------------------------------------------
(* Voiding *)

\* The match was not played: the advisory lock is taken and the market read.
VoidBegin(w) ==
    /\ tx[w].step = "idle"
    /\ AdvisoryFree
    /\ CanTransition(status, "VOID", "ADMIN")
    /\ Begin(w, [Idle EXCEPT !.step = "voiding"])
    /\ UNCHANGED <<status, expired, result, run, order, alloc, money>>

\* Mutant: only the incoming side is refunded.
OneParty(x) == {order[x.a].user}

Parties(x) == {order[x.a].user, order[x.b].user}

RefundTotal(u) ==
    Total([x \in {y \in Active : u \in Parties(y)} |-> x.amount])

\* Every unmatched stake is released and every active allocation refunded to
\* both of its sides.
VoidCommit(w) ==
    /\ tx[w].step = "voiding"
    /\ MarketRowFree(w)
    /\ order' = FinalizedOrders("VOIDED")
    /\ alloc' = FinalizedAllocations("VOIDED")
    /\ available' = [u \in Users |->
                        available[u] + ReleasedTo(u, OpenOrders) + RefundTotal(u)]
    /\ locked' = [u \in Users |-> locked[u] - ReleasedTo(u, OpenOrders)]
    /\ escrow' = escrow - Total([x \in Active |-> 2 * x.amount])
    /\ status' = "VOID"
    /\ Begin(w, Idle)
    /\ UNCHANGED <<expired, result, run, payable>>

\* A market transaction rolls back.
MarketTxAbort(w) ==
    /\ tx[w].step # "idle"
    /\ Begin(w, Idle)
    /\ UNCHANGED <<status, expired, result, run, order, alloc, money>>
-----------------------------------------------------------------------------
(* The result, as settlement sees it, and the clock *)

ProposeResult(v) ==
    /\ status = "CLOSED"
    /\ result.status = "NONE"
    /\ result' = [status |-> "PROPOSED", winner |-> v]
    /\ UNCHANGED <<status, expired, run, order, alloc, money, tx>>

ConfirmResult ==
    /\ result.status = "PROPOSED"
    /\ result' = [result EXCEPT !.status = "CONFIRMED"]
    /\ UNCHANGED <<status, expired, run, order, alloc, money, tx>>

ClosingTimePasses ==
    /\ ~expired
    /\ expired' = TRUE
    /\ UNCHANGED <<status, result, run, order, alloc, money, tx>>

Bettor ==
    \/ \E u \in Users, c \in Outcomes, m \in Stakes : PlaceBegin(u, c, m)
    \/ \E o \in DOMAIN order : PlaceCommit(o) \/ PlaceAbort(o) \/ CancelOrder(o)

Transition(w) ==
    \/ \E to \in MarketStatus : AdminTransition(w, to)
    \/ SweepList(w) \/ SweepTransition(w)
    \/ TransitionUpdate(w) \/ TransitionCommit(w)

Settlement(w) ==
    \/ SettleBegin(w) \/ SettleCommit(w) \/ SettleVoidResult(w)
    \/ VoidBegin(w) \/ VoidCommit(w)

Next ==
    \/ Bettor
    \/ \E w \in Workers : Transition(w) \/ Settlement(w) \/ MarketTxAbort(w)
    \/ \E v \in Outcomes \cup {NoWinner} : ProposeResult(v)
    \/ ConfirmResult
    \/ ClosingTimePasses

Spec == Init /\ [][Next]_vars
-----------------------------------------------------------------------------
(* Properties *)

TypeOK ==
    /\ status \in MarketStatus
    /\ expired \in BOOLEAN
    /\ result \in Result
    /\ run \in {"NONE", "IN_PROGRESS", "COMPLETED"}
    /\ order \in Seq(BetOrder) /\ Len(order) =< MaxOrders
    /\ alloc \subseteq Allocation /\ IsFiniteSet(alloc)
    /\ \A x \in alloc : {x.a, x.b} \subseteq DOMAIN order
    /\ available \in [Users -> Nat]
    /\ locked \in [Users -> Int]
    /\ escrow \in Int
    /\ payable \in Nat
    /\ tx \in [Workers -> MarketTx]

OrdersOf(u) == {o \in DOMAIN order : Stored(o) /\ order[o].user = u}

Sides(o) == {x \in alloc : o \in {x.a, x.b}}

\* A user's locked balance is what the user's open orders still wait to match:
\* no stake is locked for nothing and no open order is unbacked, whatever
\* placements, cancellations, closings and settlements overlap.
LockedBacksOpenOrders ==
    \A u \in Users :
        locked[u] = Total([o \in OrdersOf(u) \cap OpenOrders |-> order[o].unmatched])

\* INV-06 of the reconciliation: the market's escrow holds both sides of its
\* active allocations and nothing else.
EscrowBacksActive == escrow = Total([x \in Active |-> 2 * x.amount])

\* No unit of money is made or lost by any sequence of bets, cancellations,
\* settlements and refunds: wallets, escrow and commission add up to what the
\* users brought.
Conservation ==
    Total(available) + Total(locked) + escrow + payable = Total(Funding)

\* INV-08 and INV-09: every stored order's stake is split between what its
\* allocations matched, what still waits and what was released.
OrdersAccountForStakes ==
    \A o \in DOMAIN order : Stored(o) =>
        /\ order[o].requested =
               order[o].matched + order[o].unmatched + order[o].released
        /\ order[o].matched = Total([x \in Sides(o) |-> x.amount])

\* What allocation x has paid back to user u.
Returned(u, x) ==
    CASE x.status = "SETTLED" /\ (\E o \in {x.a, x.b} : /\ order[o].user = u
                                     /\ order[o].outcome = result.winner)
            -> 2 * x.amount - Commission(x.amount)
      [] x.status = "VOIDED" /\ (\E o \in {x.a, x.b} : order[o].user = u)
            -> x.amount
      [] OTHER -> 0

\* Every balance is explained by the user's own bets: the funds brought, less
\* the stakes not released, plus one return for each allocation won or
\* refunded.  Nobody is paid twice, or for another's bet, and a partly matched
\* order that was cancelled is still paid for its matched part.
WalletExplained ==
    \A u \in Users :
        available[u] + Total([o \in OrdersOf(u) |-> order[o].requested])
            = Funding[u]
                + Total([o \in OrdersOf(u) |-> order[o].released])
                + Total([x \in alloc |-> Returned(u, x)])

\* Self-matching, a bet by the streamer and a pair backing one same outcome
\* are excluded from every allocation (rules R-01 and R-02).
CleanCounterparties ==
    \A x \in alloc :
        /\ order[x.a].user # order[x.b].user
        /\ order[x.a].outcome # order[x.b].outcome
        /\ Streamer \notin {order[x.a].user, order[x.b].user}

\* Matching is complete: no two orders that could be paired are ever both left
\* waiting, even when a placement commits after a later one.
BookNeverCrossed ==
    \A p, q \in OpenOrders :
        \/ order[p].user = order[q].user
        \/ order[p].outcome = order[q].outcome
        \/ order[p].unmatched = 0
        \/ order[q].unmatched = 0

\* First in, first out: an order is paired only if no earlier order that could
\* have been paired instead is left waiting.
TimePriority ==
    [][\A x \in alloc' : (\A y \in alloc : <<y.a, y.b>> # <<x.a, x.b>>) =>
            \A r \in Resting(x.a) : r < x.b => order'[r].unmatched = 0]_vars
=============================================================================
