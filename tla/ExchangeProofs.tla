--------------------------- MODULE ExchangeProofs ---------------------------
(***************************************************************************)
(* Theorems of the exchange, for any number of users, outcomes, stakes,    *)
(* workers and orders, with their proofs: its rows are well formed and no  *)
(* wallet is negative; matching pairs whom it may, leaves no pair behind   *)
(* and keeps time priority; what is locked backs the open orders, the      *)
(* escrow backs the active allocations, every order accounts for its       *)
(* stake, every balance is explained by the user's own bets, and no unit   *)
(* is made or lost.                                                        *)
(***************************************************************************)
EXTENDS Exchange, Reconciliation, TotalsProofs, SequenceTheorems

USE DEF money

-----------------------------------------------------------------------------
(* Rows *)

\* A stake is a positive amount.
LEMMA StakeType == \A m \in Stakes : m \in Nat /\ m > 0
  BY ExchangeAssumption

\* A function over 1 .. n is a sequence of length n.
LEMMA FunctionIsSeq ==
    ASSUME NEW S, NEW n \in Nat, NEW f \in [1 .. n -> S]
    PROVE  f \in Seq(S) /\ Len(f) = n /\ DOMAIN f = 1 .. n
<1>1. f \in Seq(S)
  OBVIOUS
<1>2. QED
  BY <1>1, LenProperties

\* The image of a finite set under a function is finite.
LEMMA ImageFinite ==
    ASSUME NEW S, IsFiniteSet(S), NEW T, NEW f \in [S -> T]
    PROVE  IsFiniteSet({f[x] : x \in S})
<1>1. f \in Surjection(S, {f[x] : x \in S})
  BY DEF Surjection
<1>2. QED
  BY <1>1, FS_Surjection

\* The orders of a market are finitely many rows.
LEMMA OrderRows ==
    ASSUME TypeOK
    PROVE  /\ Len(order) \in Nat /\ Len(order) =< MaxOrders
           /\ DOMAIN order = 1 .. Len(order)
           /\ IsFiniteSet(DOMAIN order)
           /\ \A o \in DOMAIN order : order[o] \in BetOrder
<1>1. /\ Len(order) \in Nat
      /\ DOMAIN order = 1 .. Len(order)
      /\ order \in [1 .. Len(order) -> BetOrder]
  BY LenProperties DEF TypeOK
<1>2. IsFiniteSet(1 .. Len(order))
  BY <1>1, FS_Interval
<1>3. QED
  BY <1>1, <1>2 DEF TypeOK

\* What is released to a user is an amount.
LEMMA ReleasedType ==
    ASSUME TypeOK, NEW u, NEW R, R \subseteq DOMAIN order
    PROVE  ReleasedTo(u, R) \in Nat
<1> DEFINE S == {q \in R : order[q].user = u}
           f == [o \in S |-> order[o].unmatched]
<1>1. IsFiniteSet(S)
  BY OrderRows, FS_Subset
<1>2. f \in AmountsOver(S)
  BY OrderRows DEF AmountsOver, BetOrder
<1>3. QED
  BY <1>1, <1>2, TotalType DEF ReleasedTo

\* The commission on an amount is an amount, and no more than it.
LEMMA CommissionType ==
    ASSUME NEW m \in Nat
    PROVE  /\ Commission(m) \in Nat /\ Commission(m) =< m
           /\ WinnerReturn(m) \in Nat
           /\ WinnerReturn(m) + Commission(m) = 2 * m
<1>1. CommissionBps \in 0 .. 10000
  BY ExchangeAssumption
<1>2. m * CommissionBps \in Nat /\ m * CommissionBps =< m * 10000
  BY <1>1
<1>3. Commission(m) \in Nat /\ Commission(m) =< m
  BY <1>2 DEF Commission, MulBps, ScaleByRatio
<1>4. QED
  BY <1>3 DEF WinnerReturn, ReturnOf, Commission

\* The resting orders of an incoming one form a book.
LEMMA RestingBook ==
    ASSUME TypeOK, NEW o
    PROVE  /\ IsBook(Book(o), Len(order))
           /\ DOMAIN Book(o) = Resting(o)
           /\ Resting(o) \subseteq OpenOrders
           /\ \A r \in Resting(o) : Book(o)[r] = order[r].unmatched
<1>1. Resting(o) \subseteq OpenOrders /\ Resting(o) \subseteq DOMAIN order
  BY DEF Resting, OpenOrders
<1>2. QED
  BY <1>1, OrderRows DEF IsBook, Book, AmountsOver, BetOrder

\* The plan of a placement is made of amounts within what the orders have.
LEMMA PlacementPlan ==
    ASSUME TypeOK, NEW o \in DOMAIN order
    PROVE  LET plan == FifoPlan(order[o].unmatched, Book(o))
               filled == FifoFilled(order[o].unmatched, Book(o))
           IN  /\ plan \in [Resting(o) -> Nat]
               /\ \A r \in Resting(o) : plan[r] =< order[r].unmatched
               /\ filled \in Nat /\ filled =< order[o].unmatched
               /\ order[o].requested \in Nat
<1>1. order[o].requested \in Nat
  BY OrderRows, StakeType DEF BetOrder
<1>2. order[o].unmatched \in Nat
  BY OrderRows DEF BetOrder
<1>3. IsBook(Book(o), Len(order)) /\ DOMAIN Book(o) = Resting(o)
  BY RestingBook
<1>4. /\ FifoPlan(order[o].unmatched, Book(o)) \in AmountsOver(Resting(o))
      /\ \A r \in Resting(o) : FifoPlan(order[o].unmatched, Book(o))[r] =< Book(o)[r]
      /\ FifoFilled(order[o].unmatched, Book(o)) \in Nat
      /\ FifoFilled(order[o].unmatched, Book(o)) =< order[o].unmatched
  BY <1>2, <1>3, FifoBounds
<1>5. \A r \in Resting(o) : Book(o)[r] = order[r].unmatched
  BY RestingBook
<1>6. QED
  BY <1>1, <1>4, <1>5 DEF AmountsOver
-----------------------------------------------------------------------------
(* Types *)

\* An order with new amounts and a new status is an order.
LEMMA FillUpdate ==
    ASSUME NEW ord \in BetOrder, NEW m \in Nat, NEW n \in Nat, NEW k \in OrderStatus
    PROVE  [ord EXCEPT !.matched = m, !.unmatched = n, !.status = k] \in BetOrder
  BY DEF BetOrder

LEMMA CancelUpdate ==
    ASSUME NEW ord \in BetOrder, NEW m \in Nat, NEW n \in Nat, NEW k \in OrderStatus
    PROVE  [ord EXCEPT !.unmatched = m, !.released = n, !.status = k] \in BetOrder
  BY DEF BetOrder

LEMMA StatusUpdate ==
    ASSUME NEW ord \in BetOrder, NEW k \in OrderStatus
    PROVE  [ord EXCEPT !.status = k] \in BetOrder
  BY DEF BetOrder

\* A cancelled order is still an order: nothing waits and the rest is released.
LEMMA CancelledOrder ==
    ASSUME NEW ord \in BetOrder
    PROVE  LET c == Cancelled(ord)
           IN  /\ c \in BetOrder
               /\ c.user = ord.user /\ c.outcome = ord.outcome
               /\ c.requested = ord.requested /\ c.matched = ord.matched
               /\ c.unmatched = 0 /\ c.released = ord.released + ord.unmatched
               /\ c.status = "CANCELLED"
<1>1. ord.released + ord.unmatched \in Nat /\ 0 \in Nat
  BY DEF BetOrder
<1>2. "CANCELLED" \in OrderStatus
  BY DEF OrderStatus
<1>3. Cancelled(ord) \in BetOrder
  BY <1>1, <1>2, CancelUpdate DEF Cancelled
<1>4. QED
  BY <1>3 DEF Cancelled, BetOrder

\* An order filled by no more than it has unmatched is an order.
LEMMA FilledOrder ==
    ASSUME NEW ord \in BetOrder, NEW m \in Nat, m =< ord.unmatched
    PROVE  LET f == Fill(ord, m)
           IN  /\ f \in BetOrder
               /\ f.user = ord.user /\ f.outcome = ord.outcome
               /\ f.requested = ord.requested /\ f.released = ord.released
               /\ f.matched = ord.matched + m /\ f.unmatched = ord.unmatched - m
               /\ f.status = IF ord.unmatched = m THEN "MATCHED" ELSE "OPEN"
<1>1. ord.matched + m \in Nat /\ ord.unmatched - m \in Nat
  BY DEF BetOrder
<1>2. (IF ord.unmatched = m THEN "MATCHED" ELSE "OPEN") \in OrderStatus
  BY DEF OrderStatus
<1>3. Fill(ord, m) \in BetOrder
  BY <1>1, <1>2, FillUpdate DEF Fill
<1>4. QED
  BY <1>3 DEF Fill, BetOrder

\* What the placement of an order and its matching leave is well-typed.
LEMMA PlaceCommitType ==
    ASSUME TypeOK, NEW o \in DOMAIN order, PlaceCommit(o)
    PROVE  TypeOK'
<1> DEFINE user == order[o].user
           stake == order[o].requested
           plan == FifoPlan(order[o].unmatched, Book(o))
           filled == FifoFilled(order[o].unmatched, Book(o))
           paired == {r \in Resting(o) : plan[r] > 0}
           pair(r) == [a |-> o, b |-> r, amount |-> plan[r], status |-> "ACTIVE"]
           taken(u) == Total([r \in {q \in paired : order[q].user = u} |-> plan[r]])
<1>1. /\ plan \in [Resting(o) -> Nat]
      /\ \A r \in Resting(o) : plan[r] =< order[r].unmatched
      /\ filled \in Nat /\ filled =< order[o].unmatched
      /\ stake \in Nat
  BY PlacementPlan
<1>2. /\ Len(order) \in Nat /\ Len(order) =< MaxOrders
      /\ DOMAIN order = 1 .. Len(order)
      /\ IsFiniteSet(DOMAIN order)
      /\ \A k \in DOMAIN order : order[k] \in BetOrder
  BY OrderRows
<1>3. Resting(o) \subseteq DOMAIN order /\ paired \subseteq DOMAIN order
  BY DEF Resting, OpenOrders
<1>4. /\ order' \in Seq(BetOrder) /\ Len(order') = Len(order)
      /\ DOMAIN order' = DOMAIN order
  <2>1. Fill(order[o], filled) \in BetOrder
    BY <1>1, <1>2, FilledOrder
  <2>2. \A r \in paired : Fill(order[r], plan[r]) \in BetOrder
    BY <1>1, <1>2, <1>3, FilledOrder
  <2>3. order' = [k \in DOMAIN order |->
                    IF k = o THEN Fill(order[o], filled)
                    ELSE IF k \in paired THEN Fill(order[k], plan[k])
                    ELSE order[k]]
    BY DEF PlaceCommit
  <2>4. order' \in [1 .. Len(order) -> BetOrder]
    BY <1>2, <2>1, <2>2, <2>3
  <2>5. QED
    BY <1>2, <2>4, FunctionIsSeq
<1>5. /\ alloc' \subseteq Allocation /\ IsFiniteSet(alloc')
      /\ \A x \in alloc' : {x.a, x.b} \subseteq DOMAIN order'
  <2> DEFINE new == {pair(r) : r \in paired}
  <2>1. alloc' = alloc \cup new
    BY DEF PlaceCommit
  <2>2. \A r \in paired : pair(r) \in Allocation
    BY <1>1, <1>2, <1>3, ExchangeAssumption DEF Allocation
  <2>3. IsFiniteSet(new)
    <3> DEFINE f == [r \in paired |-> pair(r)]
    <3>1. f \in [paired -> Allocation] /\ new = {f[r] : r \in paired}
      BY <2>2
    <3>2. IsFiniteSet(paired)
      BY <1>2, <1>3, FS_Subset
    <3> HIDE DEF f, paired, new
    <3>3. QED
      BY <3>1, <3>2, ImageFinite
  <2>4. IsFiniteSet(alloc')
    BY <2>1, <2>3, FS_Union DEF TypeOK
  <2>5. QED
    BY <1>3, <1>4, <2>1, <2>2, <2>4 DEF TypeOK
<1>6. /\ available' \in [Users -> Nat] /\ locked' \in [Users -> Int]
      /\ escrow' \in Int
  <2>1. user \in Users
    BY <1>2 DEF BetOrder
  <2>2. ASSUME NEW u \in Users PROVE taken(u) \in Nat
    <3> DEFINE S == {q \in paired : order[q].user = u}
    <3>1. IsFiniteSet(S)
      BY <1>2, <1>3, FS_Subset
    <3>2. [r \in S |-> plan[r]] \in AmountsOver(S)
      BY <1>1 DEF AmountsOver
    <3>3. QED
      BY <3>1, <3>2, TotalType
  <2>3. available' = [available EXCEPT ![user] = @ - stake] /\ available[user] >= stake
    BY DEF PlaceCommit, Placeable
  <2>4. locked' = [u \in Users |-> IF u = user THEN locked[u] + stake - filled
                                    ELSE locked[u] - taken(u)]
    BY DEF PlaceCommit
  <2>5. escrow' = escrow + 2 * filled
    BY DEF PlaceCommit
  <2>6. available' \in [Users -> Nat]
    BY <1>1, <2>1, <2>3 DEF TypeOK
  <2>7. locked' \in [Users -> Int]
    <3> HIDE DEF user, stake, filled, taken
    <3>1. \A u \in Users : locked[u] \in Int /\ stake \in Int /\ filled \in Int
      BY <1>1 DEF TypeOK
    <3>2. QED
      BY <3>1, <2>2, <2>4
  <2>8. QED
    BY <1>1, <2>5, <2>6, <2>7 DEF TypeOK
<1>7. UNCHANGED <<status, expired, result, run, payable, tx>>
  BY DEF PlaceCommit
<1>8. QED
  BY <1>2, <1>4, <1>5, <1>6, <1>7 DEF TypeOK, Allocation, MarketTx

\* A new placement is one more order.
LEMMA PlaceBeginType ==
    ASSUME TypeOK, NEW u \in Users, NEW c \in Outcomes, NEW m \in Stakes,
           PlaceBegin(u, c, m)
    PROVE  TypeOK'
<1> DEFINE ord == [user |-> u, outcome |-> c, requested |-> m, matched |-> 0,
                   unmatched |-> m, released |-> 0, status |-> "PLACING"]
<1>1. ord \in BetOrder
  BY StakeType DEF BetOrder, OrderStatus
<1>2. order' = Append(order, ord) /\ Len(order) < MaxOrders
  BY DEF PlaceBegin
<1>3. order \in Seq(BetOrder)
  BY DEF TypeOK
<1>4. /\ order' \in Seq(BetOrder) /\ Len(order') = Len(order) + 1
      /\ DOMAIN order' = 1 .. Len(order) + 1
  <2> HIDE DEF ord
  <2>1. QED
    BY <1>1, <1>2, <1>3, AppendProperties, LenProperties
<1>5. Len(order') =< MaxOrders /\ DOMAIN order \subseteq DOMAIN order'
  BY <1>2, <1>4, OrderRows, ExchangeAssumption
<1>6. UNCHANGED <<status, expired, result, run, alloc, money, tx>>
  BY DEF PlaceBegin
<1>7. QED
  BY <1>4, <1>5, <1>6 DEF TypeOK, Allocation, MarketTx

\* Updating one row of the orders leaves the same orders.
LEMMA OneRowUpdated ==
    ASSUME TypeOK, NEW o \in DOMAIN order, NEW ord \in BetOrder,
           order' = [order EXCEPT ![o] = ord]
    PROVE  /\ order' \in Seq(BetOrder) /\ Len(order') = Len(order)
           /\ DOMAIN order' = DOMAIN order
<1>1. /\ Len(order) \in Nat /\ DOMAIN order = 1 .. Len(order)
      /\ \A k \in DOMAIN order : order[k] \in BetOrder
  BY OrderRows
<1>2. order' = [k \in 1 .. Len(order) |-> IF k = o THEN ord ELSE order[k]]
  BY <1>1
<1>3. order' \in [1 .. Len(order) -> BetOrder]
  BY <1>1, <1>2
<1>4. QED
  BY <1>1, <1>3, FunctionIsSeq

\* A placement that rolls back is one of the same orders.
LEMMA PlaceAbortType ==
    ASSUME TypeOK, NEW o \in DOMAIN order, PlaceAbort(o)
    PROVE  TypeOK'
<1>1. order' = [order EXCEPT ![o] = [order[o] EXCEPT !.status = "ABORTED"]]
  BY DEF PlaceAbort
<1>2. [order[o] EXCEPT !.status = "ABORTED"] \in BetOrder
  BY OrderRows, StatusUpdate DEF OrderStatus
<1>3. /\ order' \in Seq(BetOrder) /\ Len(order') = Len(order)
      /\ DOMAIN order' = DOMAIN order
  BY <1>1, <1>2, OneRowUpdated
<1>4. UNCHANGED <<status, expired, result, run, alloc, money, tx>>
  BY DEF PlaceAbort
<1>5. QED
  BY <1>3, <1>4 DEF TypeOK, Allocation, MarketTx

LEMMA CancelOrderType ==
    ASSUME TypeOK, NEW o \in DOMAIN order, CancelOrder(o)
    PROVE  TypeOK'
<1>1. /\ order' = [order EXCEPT ![o] = Cancelled(order[o])]
      /\ available' = [available EXCEPT ![order[o].user] = @ + order[o].unmatched]
      /\ locked' = [locked EXCEPT ![order[o].user] = @ - order[o].unmatched]
  BY DEF CancelOrder
<1>2. /\ order[o] \in BetOrder /\ Cancelled(order[o]) \in BetOrder
      /\ order[o].user \in Users /\ order[o].unmatched \in Nat
  BY OrderRows, CancelledOrder DEF BetOrder
<1>3. /\ order' \in Seq(BetOrder) /\ Len(order') = Len(order)
      /\ DOMAIN order' = DOMAIN order
  BY <1>1, <1>2, OneRowUpdated
<1>4. available' \in [Users -> Nat] /\ locked' \in [Users -> Int]
  BY <1>1, <1>2 DEF TypeOK
<1>5. UNCHANGED <<status, expired, result, run, alloc, escrow, payable, tx>>
  BY DEF CancelOrder
<1>6. QED
  BY <1>3, <1>4, <1>5 DEF TypeOK, Allocation, MarketTx

\* A release leaves the same orders, some of them cancelled.
LEMMA ReleaseType ==
    ASSUME TypeOK, NEW R, R \subseteq DOMAIN order, ReleaseUnmatched(R)
    PROVE  /\ order' \in Seq(BetOrder) /\ Len(order') = Len(order)
           /\ DOMAIN order' = DOMAIN order
           /\ available' \in [Users -> Nat] /\ locked' \in [Users -> Int]
<1>1. /\ order' = [o \in DOMAIN order |->
                    IF o \in R THEN Cancelled(order[o]) ELSE order[o]]
      /\ available' = [u \in Users |-> available[u] + ReleasedTo(u, R)]
      /\ locked' = [u \in Users |-> locked[u] - ReleasedTo(u, R)]
  BY DEF ReleaseUnmatched
<1>2. \A o \in DOMAIN order : Cancelled(order[o]) \in BetOrder
  BY OrderRows, CancelledOrder
<1>3. /\ order' \in Seq(BetOrder) /\ Len(order') = Len(order)
      /\ DOMAIN order' = DOMAIN order
  BY <1>1, <1>2, OrderRows, FunctionIsSeq
<1>4. \A u \in Users : ReleasedTo(u, R) \in Nat
  BY ReleasedType
<1>5. available' \in [Users -> Nat] /\ locked' \in [Users -> Int]
  BY <1>1, <1>4 DEF TypeOK
<1>6. QED
  BY <1>3, <1>5

\* A worker's new transaction state keeps every worker's well-typed.
LEMMA BeginType ==
    ASSUME TypeOK, NEW w \in Workers, NEW t \in MarketTx, Begin(w, t)
    PROVE  tx' \in [Workers -> MarketTx]
  BY DEF TypeOK, Begin

LEMMA IdleType == Idle \in MarketTx
  BY DEF Idle, MarketTx, Step, MarketStatus

\* The fields of a transaction that the steps set.
LEMMA TxUpdate ==
    ASSUME NEW t \in MarketTx, NEW k \in Step, NEW v \in MarketStatus,
           NEW S, S \subseteq 1 .. MaxOrders
    PROVE  /\ [t EXCEPT !.step = k] \in MarketTx
           /\ [t EXCEPT !.step = k, !.to = v] \in MarketTx
           /\ [t EXCEPT !.step = k, !.seen = v] \in MarketTx
           /\ [t EXCEPT !.step = k, !.scan = S] \in MarketTx
  BY DEF MarketTx

LEMMA TransitionType ==
    ASSUME TypeOK, NEW w \in Workers, Transition(w)
    PROVE  TypeOK'
<1>1. \A k \in Step, v \in MarketStatus, t \in MarketTx :
         /\ [t EXCEPT !.step = k] \in MarketTx
         /\ [t EXCEPT !.step = k, !.to = v] \in MarketTx
  BY TxUpdate
<1>2. OpenOrders \subseteq DOMAIN order /\ OpenOrders \subseteq 1 .. MaxOrders
  BY OrderRows, ExchangeAssumption DEF OpenOrders
<1>3. ASSUME NEW to \in MarketStatus, AdminTransition(w, to) PROVE TypeOK'
  <2>1. [Idle EXCEPT !.step = "checked", !.to = to] \in MarketTx
    BY <1>1, IdleType DEF Step
  <2>2. tx' \in [Workers -> MarketTx]
    BY <1>3, <2>1, BeginType DEF AdminTransition
  <2>3. QED
    BY <1>3, <2>2 DEF AdminTransition, TypeOK, Allocation
<1>4. ASSUME SweepList(w) PROVE TypeOK'
  <2>1. [Idle EXCEPT !.step = "listed"] \in MarketTx
    BY <1>1, IdleType DEF Step, MarketStatus
  <2>2. tx' \in [Workers -> MarketTx]
    BY <1>4, <2>1, BeginType DEF SweepList
  <2>3. QED
    BY <1>4, <2>2 DEF SweepList, TypeOK, Allocation
<1>5. ASSUME SweepTransition(w) PROVE TypeOK'
  <2>1. [Idle EXCEPT !.step = "checked", !.to = "CLOSED"] \in MarketTx
    BY <1>1, IdleType DEF Step, MarketStatus
  <2>2. tx' \in [Workers -> MarketTx]
    BY <1>5, <2>1, IdleType, BeginType DEF SweepTransition
  <2>3. QED
    BY <1>5, <2>2 DEF SweepTransition, TypeOK, Allocation
<1>6. ASSUME TransitionUpdate(w) PROVE TypeOK'
  <2> DEFINE S == IF tx[w].to = "CLOSED" THEN OpenOrders ELSE {}
  <2>1. tx[w] \in MarketTx /\ S \subseteq 1 .. MaxOrders
    BY <1>2 DEF TypeOK
  <2>2. [tx[w] EXCEPT !.step = "updated", !.scan = S] \in MarketTx
    BY <2>1, TxUpdate DEF Step, MarketStatus
  <2>3. tx' \in [Workers -> MarketTx]
    BY <1>6, <2>2, BeginType DEF TransitionUpdate
  <2>4. QED
    BY <1>6, <2>3 DEF TransitionUpdate, TypeOK, Allocation
<1>7. ASSUME TransitionCommit(w) PROVE TypeOK'
  <2>1. tx[w].scan \cap OpenOrders \subseteq DOMAIN order
    BY <1>2
  <2>2. /\ order' \in Seq(BetOrder) /\ Len(order') = Len(order)
        /\ DOMAIN order' = DOMAIN order
        /\ available' \in [Users -> Nat] /\ locked' \in [Users -> Int]
    BY <1>7, <2>1, ReleaseType DEF TransitionCommit
  <2>3. tx' \in [Workers -> MarketTx]
    BY <1>7, IdleType, BeginType DEF TransitionCommit
  <2>4. status' \in MarketStatus
    BY <1>7 DEF TransitionCommit, TypeOK, MarketTx
  <2>5. QED
    BY <1>7, <2>2, <2>3, <2>4 DEF TransitionCommit, TypeOK, Allocation
<1>8. QED
  BY <1>3, <1>4, <1>5, <1>6, <1>7 DEF Transition

\* The allocations of a market are finitely many rows, and the amounts paid
\* for any of them add up.
LEMMA AllocationRows ==
    ASSUME TypeOK
    PROVE  /\ IsFiniteSet(alloc) /\ IsFiniteSet(Active) /\ Active \subseteq alloc
           /\ \A x \in alloc : /\ x.amount \in Nat
                               /\ x.a \in DOMAIN order /\ x.b \in DOMAIN order
<1>1. IsFiniteSet(alloc) /\ Active \subseteq alloc
  BY DEF TypeOK, Active
<1>2. \A x \in alloc : x.amount \in Nat /\ x.a \in DOMAIN order /\ x.b \in DOMAIN order
  BY DEF TypeOK, Allocation
<1>3. QED
  BY <1>1, <1>2, FS_Subset

\* The total of amounts over some of the allocations is an amount.
LEMMA PaidType ==
    ASSUME TypeOK, NEW S, S \subseteq alloc, NEW f \in [S -> Nat]
    PROVE  Total(f) \in Nat
  BY AllocationRows, FS_Subset, TotalType DEF AmountsOver

\* Finishing every open and matched order leaves the same orders.
LEMMA FinishedOrders ==
    ASSUME TypeOK, NEW k \in OrderStatus,
           order' = [o \in DOMAIN order |->
                        CASE order[o].status = "OPEN" -> Cancelled(order[o])
                          [] order[o].status = "MATCHED" ->
                                [order[o] EXCEPT !.status = k]
                          [] OTHER -> order[o]]
    PROVE  /\ order' \in Seq(BetOrder) /\ Len(order') = Len(order)
           /\ DOMAIN order' = DOMAIN order
<1>1. ASSUME NEW o \in DOMAIN order
      PROVE  /\ Cancelled(order[o]) \in BetOrder
             /\ [order[o] EXCEPT !.status = k] \in BetOrder
             /\ order[o] \in BetOrder
  BY OrderRows, CancelledOrder, StatusUpdate
<1>2. order' \in [1 .. Len(order) -> BetOrder]
  <2> DEFINE c(o) == Cancelled(order[o])
             d(o) == [order[o] EXCEPT !.status = k]
  <2>1. DOMAIN order = 1 .. Len(order)
    BY OrderRows
  <2>2. /\ \A o \in DOMAIN order : c(o) \in BetOrder /\ d(o) \in BetOrder /\ order[o] \in BetOrder
        /\ order' = [o \in DOMAIN order |->
                        CASE order[o].status = "OPEN" -> c(o)
                          [] order[o].status = "MATCHED" -> d(o)
                          [] OTHER -> order[o]]
    BY <1>1
  <2> HIDE DEF c, d
  <2>3. QED
    BY <2>1, <2>2
<1>3. QED
  BY <1>2, OrderRows, FunctionIsSeq

\* Finishing the active allocations leaves the same allocations.
LEMMA FinishedAllocations ==
    ASSUME TypeOK, NEW k \in {"SETTLED", "VOIDED"},
           alloc' = {[x EXCEPT !.status = IF @ = "ACTIVE" THEN k ELSE @] : x \in alloc}
    PROVE  /\ alloc' \subseteq Allocation /\ IsFiniteSet(alloc')
           /\ \A y \in alloc' : \E x \in alloc :
                  y.a = x.a /\ y.b = x.b /\ y.amount = x.amount
<1> DEFINE fin(x) == [x EXCEPT !.status = IF x.status = "ACTIVE" THEN k ELSE x.status]
           f == [x \in alloc |-> fin(x)]
<1>1. \A x \in alloc : /\ fin(x) \in Allocation
                       /\ fin(x).a = x.a /\ fin(x).b = x.b /\ fin(x).amount = x.amount
  BY DEF TypeOK, Allocation
<1>2. alloc' = {fin(x) : x \in alloc}
  OBVIOUS
<1>3. IsFiniteSet(alloc')
  <2>1. f \in [alloc -> Allocation] /\ alloc' = {f[x] : x \in alloc}
    BY <1>1, <1>2
  <2>2. PICK g \in [alloc -> Allocation] : alloc' = {g[x] : x \in alloc}
    BY <2>1
  <2>3. IsFiniteSet(alloc)
    BY DEF TypeOK
  <2>4. IsFiniteSet({g[x] : x \in alloc})
    BY <2>3, ImageFinite
  <2>5. QED
    BY <2>2, <2>4
<1>4. QED
  <2> HIDE DEF fin
  <2>1. QED
    BY <1>1, <1>2, <1>3

LEMMA SettlementType ==
    ASSUME TypeOK, NEW w \in Workers, Settlement(w)
    PROVE  TypeOK'
<1>1. OpenOrders \subseteq DOMAIN order
  BY DEF OpenOrders
<1>2. \A u \in Users : ReleasedTo(u, OpenOrders) \in Nat
  BY <1>1, ReleasedType
<1>3. \A x \in alloc : /\ x.amount \in Nat
                       /\ WinnerReturn(x.amount) \in Nat
                       /\ Commission(x.amount) \in Nat
  BY AllocationRows, CommissionType
<1>4. Active \subseteq alloc
  BY AllocationRows
<1>5. ASSUME SettleBegin(w) PROVE TypeOK'
  <2>1. [Idle EXCEPT !.step = "settling", !.seen = status] \in MarketTx
    BY TxUpdate, IdleType DEF TypeOK, Step
  <2>2. tx' \in [Workers -> MarketTx]
    BY <1>5, <2>1, BeginType DEF SettleBegin
  <2>3. QED
    BY <1>5, <2>2 DEF SettleBegin, TypeOK, Allocation
<1>6. ASSUME SettleVoidResult(w) PROVE TypeOK'
  <2>1. /\ order' \in Seq(BetOrder) /\ Len(order') = Len(order)
        /\ DOMAIN order' = DOMAIN order
        /\ available' \in [Users -> Nat] /\ locked' \in [Users -> Int]
    BY <1>1, <1>6, ReleaseType DEF SettleVoidResult
  <2>2. tx' \in [Workers -> MarketTx]
    BY <1>6, IdleType, BeginType DEF SettleVoidResult
  <2>3. status' \in MarketStatus
    BY <1>6 DEF SettleVoidResult, TypeOK, MarketStatus
  <2>4. QED
    BY <1>6, <2>1, <2>2, <2>3 DEF SettleVoidResult, TypeOK, Allocation
<1>7. ASSUME SettleCommit(w) PROVE TypeOK'
  <2>1. \A u \in Users : WonTotal(u) \in Nat
    <3> DEFINE S(u) == {y \in Active : WonBy(u, y)}
    <3>1. \A u \in Users : /\ S(u) \subseteq alloc
                           /\ [x \in S(u) |-> WinnerReturn(x.amount)] \in [S(u) -> Nat]
      BY <1>3, <1>4
    <3>2. QED
      BY <3>1, PaidType DEF WonTotal
  <2>2. PaidOut \in Nat
    <3> DEFINE f == [x \in Active |-> WinnerReturn(x.amount) + Commission(x.amount)]
    <3>1. f \in [Active -> Nat]
      BY <1>3, <1>4
    <3>2. QED
      BY <3>1, <1>4, PaidType DEF PaidOut
  <2>3. Fees \in Nat
    <3> DEFINE f == [x \in Active |-> Commission(x.amount)]
    <3>1. f \in [Active -> Nat]
      BY <1>3, <1>4
    <3>2. QED
      BY <3>1, <1>4, PaidType DEF Fees
  <2>4. /\ available' = [u \in Users |->
                            available[u] + ReleasedTo(u, OpenOrders) + WonTotal(u)]
        /\ locked' = [u \in Users |-> locked[u] - ReleasedTo(u, OpenOrders)]
        /\ escrow' = escrow - PaidOut
        /\ payable' = payable + Fees
    BY <1>7 DEF SettleCommit
  <2>5. available' \in [Users -> Nat] /\ locked' \in [Users -> Int]
        /\ escrow' \in Int /\ payable' \in Nat
    BY <1>2, <2>1, <2>2, <2>3, <2>4 DEF TypeOK
  <2>6. /\ order' \in Seq(BetOrder) /\ Len(order') = Len(order)
        /\ DOMAIN order' = DOMAIN order
    BY <1>7, FinishedOrders DEF SettleCommit, FinalizedOrders, OrderStatus
  <2>7. /\ alloc' \subseteq Allocation /\ IsFiniteSet(alloc')
        /\ \A x \in alloc' : {x.a, x.b} \subseteq DOMAIN order'
    BY <1>7, <2>6, FinishedAllocations, AllocationRows DEF SettleCommit, FinalizedAllocations
  <2>8. tx' \in [Workers -> MarketTx]
    BY <1>7, IdleType, BeginType DEF SettleCommit
  <2>9. UNCHANGED <<expired, result>> /\ run' = "COMPLETED" /\ status' = "SETTLED"
    BY <1>7 DEF SettleCommit
  <2>10. QED
    BY <2>5, <2>6, <2>7, <2>8, <2>9 DEF TypeOK, MarketStatus
<1>8. ASSUME VoidBegin(w) PROVE TypeOK'
  <2>1. [Idle EXCEPT !.step = "voiding"] \in MarketTx
    BY TxUpdate, IdleType DEF Step, MarketStatus
  <2>2. tx' \in [Workers -> MarketTx]
    BY <1>8, <2>1, BeginType DEF VoidBegin
  <2>3. QED
    BY <1>8, <2>2 DEF VoidBegin, TypeOK, Allocation
<1>9. ASSUME VoidCommit(w) PROVE TypeOK'
  <2> DEFINE paid == Total([x \in Active |-> 2 * x.amount])
  <2>1. \A u \in Users : RefundTotal(u) \in Nat
    <3> DEFINE S(u) == {y \in Active : u \in Parties(y)}
    <3>1. \A u \in Users : S(u) \subseteq alloc /\ [x \in S(u) |-> x.amount] \in [S(u) -> Nat]
      BY <1>3, <1>4
    <3>2. QED
      BY <3>1, PaidType DEF RefundTotal
  <2>2. paid \in Nat
    <3> DEFINE f == [x \in Active |-> 2 * x.amount]
    <3>1. f \in [Active -> Nat]
      BY <1>3, <1>4
    <3>2. QED
      BY <3>1, <1>4, PaidType
  <2>3. /\ available' = [u \in Users |->
                            available[u] + ReleasedTo(u, OpenOrders) + RefundTotal(u)]
        /\ locked' = [u \in Users |-> locked[u] - ReleasedTo(u, OpenOrders)]
        /\ escrow' = escrow - paid
    BY <1>9 DEF VoidCommit
  <2>4. available' \in [Users -> Nat] /\ locked' \in [Users -> Int] /\ escrow' \in Int
    <3> HIDE DEF paid
    <3>1. QED
      BY <1>2, <2>1, <2>2, <2>3 DEF TypeOK
  <2>5. /\ order' \in Seq(BetOrder) /\ Len(order') = Len(order)
        /\ DOMAIN order' = DOMAIN order
    BY <1>9, FinishedOrders DEF VoidCommit, FinalizedOrders, OrderStatus
  <2>6. /\ alloc' \subseteq Allocation /\ IsFiniteSet(alloc')
        /\ \A x \in alloc' : {x.a, x.b} \subseteq DOMAIN order'
    BY <1>9, <2>5, FinishedAllocations, AllocationRows DEF VoidCommit, FinalizedAllocations
  <2>7. tx' \in [Workers -> MarketTx]
    BY <1>9, IdleType, BeginType DEF VoidCommit
  <2>8. UNCHANGED <<expired, result, run, payable>> /\ status' = "VOID"
    BY <1>9 DEF VoidCommit
  <2>9. QED
    BY <2>4, <2>5, <2>6, <2>7, <2>8 DEF TypeOK, MarketStatus
<1>10. QED
  BY <1>5, <1>6, <1>7, <1>8, <1>9 DEF Settlement

LEMMA InitType == Init => TypeOK
<1>1. Funding \in [Users -> Nat] /\ MaxOrders \in Nat
  BY ExchangeAssumption
<1>2. <<>> \in Seq(BetOrder) /\ Len(<<>>) = 0 /\ IsFiniteSet({})
  BY FS_EmptySet
<1>3. ASSUME Init PROVE TypeOK
  <2>1. order \in Seq(BetOrder) /\ Len(order) =< MaxOrders
    BY <1>1, <1>2, <1>3 DEF Init
  <2>2. /\ alloc \subseteq Allocation /\ IsFiniteSet(alloc)
        /\ \A x \in alloc : {x.a, x.b} \subseteq DOMAIN order
    BY <1>2, <1>3 DEF Init
  <2>3. /\ available \in [Users -> Nat] /\ locked \in [Users -> Int]
        /\ escrow \in Int /\ payable \in Nat
    BY <1>1, <1>3 DEF Init
  <2>4. result \in Result
    BY <1>3 DEF Init, Result
  <2>5. tx \in [Workers -> MarketTx]
    BY <1>3, IdleType DEF Init
  <2>6. QED
    BY <1>3, <2>1, <2>2, <2>3, <2>4, <2>5 DEF Init, TypeOK, MarketStatus
<1>4. QED
  BY <1>3

LEMMA NextType ==
    ASSUME TypeOK, [Next]_vars
    PROVE  TypeOK'
<1>1. ASSUME Bettor PROVE TypeOK'
  BY <1>1, PlaceBeginType, PlaceCommitType, PlaceAbortType, CancelOrderType
     DEF Bettor
<1>2. ASSUME NEW w \in Workers, MarketTxAbort(w) PROVE TypeOK'
  <2>1. tx' \in [Workers -> MarketTx]
    BY <1>2, IdleType, BeginType DEF MarketTxAbort
  <2>2. QED
    BY <1>2, <2>1 DEF MarketTxAbort, TypeOK, Allocation
<1>3. ASSUME NEW v \in Outcomes \cup {NoWinner}, ProposeResult(v) PROVE TypeOK'
  BY <1>3 DEF ProposeResult, TypeOK, Result, Allocation, MarketTx
<1>4. ASSUME ConfirmResult PROVE TypeOK'
  <2>1. result' \in Result
    BY <1>4 DEF ConfirmResult, TypeOK, Result
  <2>2. QED
    BY <1>4, <2>1 DEF ConfirmResult, TypeOK, Allocation, MarketTx
<1>5. ASSUME ClosingTimePasses PROVE TypeOK'
  BY <1>5 DEF ClosingTimePasses, TypeOK, Allocation, MarketTx
<1>6. ASSUME UNCHANGED vars PROVE TypeOK'
  BY <1>6 DEF vars, TypeOK, Allocation, MarketTx
<1>7. QED
  BY <1>1, <1>2, <1>3, <1>4, <1>5, <1>6, TransitionType, SettlementType DEF Next

\* Every row and balance keeps its type, and no available balance or
\* commission account ever goes below zero, whatever the transactions do.
THEOREM TypeCorrect == Spec => []TypeOK
<1>1. Init => TypeOK
  BY InitType
<1>2. TypeOK /\ [Next]_vars => TypeOK'
  BY NextType
<1>3. QED
  BY <1>1, <1>2, PTL DEF Spec

-----------------------------------------------------------------------------
(* What a step does to the book *)

\* Two lemmas say what a step can do to the rows of the book: QuietStep for
\* every step but the commit of a placement, PlaceStep for that one.  The
\* invariants follow from them without another look at the actions.

\* Order o keeps its identity and what it has matched, and what is taken from
\* its unmatched stake is released; it may leave the book but not enter it.
QuietOrder(o) ==
    /\ o \in DOMAIN order'
    /\ order'[o].user = order[o].user
    /\ order'[o].outcome = order[o].outcome
    /\ order'[o].requested = order[o].requested
    /\ order'[o].matched = order[o].matched
    /\ order'[o].unmatched + order'[o].released = order[o].unmatched + order[o].released
    /\ order'[o].status = "OPEN" => order'[o] = order[o]
    /\ Stored(o)' <=> Stored(o)
    /\ order'[o].status = "PLACING" => order'[o] = order[o]

QuietOrders ==
    /\ \A o \in DOMAIN order : QuietOrder(o)
    /\ \A o \in DOMAIN order' \ DOMAIN order :
          /\ order'[o].status = "PLACING"
          /\ order'[o].matched = 0 /\ order'[o].released = 0
          /\ order'[o].unmatched = order'[o].requested

\* Allocations are neither added nor dropped, and keep their sides and amounts.
QuietAllocations ==
    /\ \A y \in alloc' : \E x \in alloc : y.a = x.a /\ y.b = x.b /\ y.amount = x.amount
    /\ \A x \in alloc : \E y \in alloc' : y.a = x.a /\ y.b = x.b /\ y.amount = x.amount

\* An order that is released is quiet.
LEMMA QuietCancelled ==
    ASSUME TypeOK, NEW o \in DOMAIN order, o \in DOMAIN order', Stored(o),
           order'[o] = Cancelled(order[o])
    PROVE  QuietOrder(o)
<1>1. order[o] \in BetOrder
  BY OrderRows
<1>2. /\ order'[o].user = order[o].user /\ order'[o].outcome = order[o].outcome
      /\ order'[o].requested = order[o].requested
      /\ order'[o].matched = order[o].matched
      /\ order'[o].unmatched = 0
      /\ order'[o].released = order[o].released + order[o].unmatched
      /\ order'[o].status = "CANCELLED"
  BY <1>1, CancelledOrder
<1>3. order[o].unmatched \in Nat /\ order[o].released \in Nat
  BY <1>1 DEF BetOrder
<1>4. QED
  BY <1>2, <1>3 DEF QuietOrder, Stored

\* So is one that only changes status, within the stored or the unstored ones.
LEMMA QuietStatus ==
    ASSUME TypeOK, NEW o \in DOMAIN order, o \in DOMAIN order', NEW k \in OrderStatus,
           order'[o] = [order[o] EXCEPT !.status = k],
           k \notin {"OPEN", "PLACING"},
           k = "ABORTED" <=> ~Stored(o)
    PROVE  QuietOrder(o)
<1>1. order[o] \in BetOrder
  BY OrderRows
<1>2. /\ order'[o].user = order[o].user /\ order'[o].outcome = order[o].outcome
      /\ order'[o].requested = order[o].requested
      /\ order'[o].matched = order[o].matched
      /\ order'[o].unmatched = order[o].unmatched
      /\ order'[o].released = order[o].released
      /\ order'[o].status = k
  BY <1>1 DEF BetOrder
<1>3. QED
  BY <1>2 DEF QuietOrder, Stored

LEMMA QuietSame ==
    ASSUME NEW o \in DOMAIN order, o \in DOMAIN order', order'[o] = order[o]
    PROVE  QuietOrder(o)
  BY DEF QuietOrder, Stored

\* A release of open orders is quiet.
LEMMA QuietRelease ==
    ASSUME TypeOK, NEW R, R \subseteq OpenOrders, ReleaseUnmatched(R)
    PROVE  QuietOrders
<1>1. DOMAIN order' = DOMAIN order
  BY ReleaseType DEF OpenOrders
<1>2. ASSUME NEW o \in DOMAIN order PROVE QuietOrder(o)
  <2>1. o \in R => Stored(o) /\ order'[o] = Cancelled(order[o])
    BY DEF ReleaseUnmatched, OpenOrders, Stored
  <2>2. o \notin R => order'[o] = order[o]
    BY DEF ReleaseUnmatched
  <2>3. QED
    BY <1>1, <2>1, <2>2, QuietCancelled, QuietSame
<1>3. QED
  BY <1>1, <1>2 DEF QuietOrders

\* So is finishing every open and matched order.
LEMMA QuietFinish ==
    ASSUME TypeOK, NEW k \in {"SETTLED", "VOIDED"},
           order' = [o \in DOMAIN order |->
                        CASE order[o].status = "OPEN" -> Cancelled(order[o])
                          [] order[o].status = "MATCHED" ->
                                [order[o] EXCEPT !.status = k]
                          [] OTHER -> order[o]]
    PROVE  QuietOrders
<1>1. DOMAIN order' = DOMAIN order
  OBVIOUS
<1>2. ASSUME NEW o \in DOMAIN order PROVE QuietOrder(o)
  <2>1. CASE order[o].status = "OPEN"
    BY <1>1, <2>1, QuietCancelled DEF Stored
  <2>2. CASE order[o].status = "MATCHED"
    BY <1>1, <2>2, QuietStatus DEF Stored, OrderStatus
  <2>3. CASE order[o].status \notin {"OPEN", "MATCHED"}
    BY <1>1, <2>3, QuietSame
  <2>4. QED
    BY <2>1, <2>2, <2>3
<1>3. QED
  BY <1>1, <1>2 DEF QuietOrders

LEMMA QuietFinishAllocations ==
    ASSUME TypeOK, NEW k \in {"SETTLED", "VOIDED"},
           alloc' = {[x EXCEPT !.status = IF @ = "ACTIVE" THEN k ELSE @] : x \in alloc}
    PROVE  QuietAllocations
<1> DEFINE fin(x) == [x EXCEPT !.status = IF x.status = "ACTIVE" THEN k ELSE x.status]
<1>1. \A x \in alloc : fin(x).a = x.a /\ fin(x).b = x.b /\ fin(x).amount = x.amount
  BY DEF TypeOK, Allocation
<1>2. alloc' = {fin(x) : x \in alloc}
  OBVIOUS
<1> HIDE DEF fin
<1>3. QED
  BY <1>1, <1>2 DEF QuietAllocations

\* The only step that pairs orders or puts one on the book.
Placement == \E o \in DOMAIN order : PlaceCommit(o)

LEMMA QuietUnchanged == ASSUME UNCHANGED order PROVE QuietOrders
  BY QuietSame DEF QuietOrders

LEMMA QuietBettor ==
    ASSUME TypeOK, Bettor, ~Placement
    PROVE  QuietOrders /\ UNCHANGED alloc
<1>1. ASSUME NEW u \in Users, NEW c \in Outcomes, NEW m \in Stakes, PlaceBegin(u, c, m)
      PROVE  QuietOrders /\ UNCHANGED alloc
  <2> DEFINE ord == [user |-> u, outcome |-> c, requested |-> m, matched |-> 0,
                     unmatched |-> m, released |-> 0, status |-> "PLACING"]
  <2>1. ord \in BetOrder
    BY StakeType DEF BetOrder, OrderStatus
  <2>2. order' = Append(order, ord) /\ order \in Seq(BetOrder)
    BY <1>1 DEF PlaceBegin, TypeOK
  <2>3. /\ DOMAIN order = 1 .. Len(order) /\ DOMAIN order' = 1 .. Len(order) + 1
        /\ \A o \in DOMAIN order : order'[o] = order[o]
        /\ order'[Len(order) + 1] = ord
        /\ Len(order) \in Nat
    <3> HIDE DEF ord
    <3>1. QED
      BY <2>1, <2>2, AppendProperties, LenProperties
  <2>4. \A o \in DOMAIN order : QuietOrder(o)
    BY <2>3, QuietSame
  <2>5. \A o \in DOMAIN order' \ DOMAIN order : order'[o] = ord
    BY <2>3
  <2>6. QED
    BY <1>1, <2>4, <2>5 DEF QuietOrders, PlaceBegin
<1>2. ASSUME NEW o \in DOMAIN order, PlaceAbort(o)
      PROVE  QuietOrders /\ UNCHANGED alloc
  <2>1. /\ order[o].status = "PLACING"
        /\ order' = [order EXCEPT ![o] = [order[o] EXCEPT !.status = "ABORTED"]]
        /\ UNCHANGED alloc
    BY <1>2 DEF PlaceAbort
  <2>2. QuietOrder(o)
    BY <2>1, QuietStatus DEF Stored, OrderStatus
  <2>3. \A k \in DOMAIN order \ {o} : QuietOrder(k)
    BY <2>1, QuietSame
  <2>4. QED
    BY <2>1, <2>2, <2>3 DEF QuietOrders
<1>3. ASSUME NEW o \in DOMAIN order, CancelOrder(o)
      PROVE  QuietOrders /\ UNCHANGED alloc
  <2>1. /\ order[o].status = "OPEN"
        /\ order' = [order EXCEPT ![o] = Cancelled(order[o])]
        /\ UNCHANGED alloc
    BY <1>3 DEF CancelOrder
  <2>2. QuietOrder(o)
    BY <2>1, QuietCancelled DEF Stored
  <2>3. \A k \in DOMAIN order \ {o} : QuietOrder(k)
    BY <2>1, QuietSame
  <2>4. QED
    BY <2>1, <2>2, <2>3 DEF QuietOrders
<1>4. QED
  BY <1>1, <1>2, <1>3 DEF Bettor, Placement

LEMMA QuietTransition ==
    ASSUME TypeOK, NEW w \in Workers, Transition(w)
    PROVE  QuietOrders /\ UNCHANGED alloc
<1>1. ASSUME TransitionCommit(w) PROVE QuietOrders /\ UNCHANGED alloc
  <2>1. tx[w].scan \cap OpenOrders \subseteq OpenOrders
    OBVIOUS
  <2>2. QED
    BY <1>1, <2>1, QuietRelease DEF TransitionCommit
<1>2. ASSUME ~TransitionCommit(w) PROVE UNCHANGED <<order, alloc>>
  BY <1>2 DEF Transition, AdminTransition, SweepList, SweepTransition, TransitionUpdate
<1>3. QED
  BY <1>1, <1>2, QuietUnchanged

LEMMA QuietSettlement ==
    ASSUME TypeOK, NEW w \in Workers, Settlement(w)
    PROVE  QuietOrders /\ QuietAllocations
<1>1. ASSUME SettleVoidResult(w) PROVE QuietOrders /\ QuietAllocations
  <2>1. QuietOrders
    BY <1>1, QuietRelease DEF SettleVoidResult
  <2>2. QED
    BY <1>1, <2>1 DEF SettleVoidResult, QuietAllocations
<1>2. ASSUME SettleCommit(w) PROVE QuietOrders /\ QuietAllocations
  <2>1. QuietOrders
    BY <1>2, QuietFinish DEF SettleCommit, FinalizedOrders
  <2>2. QuietAllocations
    BY <1>2, QuietFinishAllocations DEF SettleCommit, FinalizedAllocations
  <2>3. QED
    BY <2>1, <2>2
<1>3. ASSUME VoidCommit(w) PROVE QuietOrders /\ QuietAllocations
  <2>1. QuietOrders
    BY <1>3, QuietFinish DEF VoidCommit, FinalizedOrders
  <2>2. QuietAllocations
    BY <1>3, QuietFinishAllocations DEF VoidCommit, FinalizedAllocations
  <2>3. QED
    BY <2>1, <2>2
<1>4. ASSUME SettleBegin(w) \/ VoidBegin(w) PROVE QuietOrders /\ QuietAllocations
  <2>1. UNCHANGED <<order, alloc>>
    BY <1>4 DEF SettleBegin, VoidBegin
  <2>2. QED
    BY <2>1, QuietUnchanged DEF QuietAllocations
<1>5. QED
  BY <1>1, <1>2, <1>3, <1>4 DEF Settlement

\* Every step but the commit of a placement is quiet.
LEMMA QuietStep ==
    ASSUME TypeOK, [Next]_vars, ~Placement
    PROVE  QuietOrders /\ QuietAllocations
<1>1. ASSUME Bettor PROVE QuietOrders /\ QuietAllocations
  BY <1>1, QuietBettor DEF QuietAllocations
<1>2. ASSUME NEW w \in Workers, Transition(w) PROVE QuietOrders /\ QuietAllocations
  BY <1>2, QuietTransition DEF QuietAllocations
<1>3. ASSUME \/ \E w \in Workers : MarketTxAbort(w)
             \/ \E v \in Outcomes \cup {NoWinner} : ProposeResult(v)
             \/ ConfirmResult \/ ClosingTimePasses \/ UNCHANGED vars
      PROVE  QuietOrders /\ QuietAllocations
  <2>1. UNCHANGED <<order, alloc>>
    BY <1>3 DEF MarketTxAbort, ProposeResult, ConfirmResult, ClosingTimePasses, vars
  <2>2. QED
    BY <2>1, QuietUnchanged DEF QuietAllocations
<1>4. QED
  BY <1>1, <1>2, <1>3, QuietSettlement DEF Next

-----------------------------------------------------------------------------
(* The commit of a placement *)

PlanOf(o) == FifoPlan(order[o].unmatched, Book(o))

FilledOf(o) == FifoFilled(order[o].unmatched, Book(o))

Paired(o) == {r \in Resting(o) : PlanOf(o)[r] > 0}

PairOf(o, r) == [a |-> o, b |-> r, amount |-> PlanOf(o)[r], status |-> "ACTIVE"]

\* Order k, matched for m, keeps its identity; the rest of it waits.
FilledBy(k, m) ==
    /\ order'[k].user = order[k].user
    /\ order'[k].outcome = order[k].outcome
    /\ order'[k].requested = order[k].requested
    /\ order'[k].released = order[k].released
    /\ order'[k].matched = order[k].matched + m
    /\ order'[k].unmatched = order[k].unmatched - m
    /\ order'[k].status = IF order[k].unmatched = m THEN "MATCHED" ELSE "OPEN"

\* What the commit of a placement does to the rows of the book.
LEMMA PlaceStep ==
    ASSUME TypeOK, NEW o \in DOMAIN order, PlaceCommit(o)
    PROVE  /\ DOMAIN order' = DOMAIN order
           /\ ~Stored(o) /\ order[o].status = "PLACING" /\ order[o].user # Streamer
           /\ o \notin Resting(o)
           /\ Paired(o) \subseteq Resting(o) /\ Resting(o) \subseteq OpenOrders
           /\ OpenOrders \subseteq DOMAIN order
           /\ FilledOf(o) \in Nat /\ FilledOf(o) =< order[o].unmatched
           /\ \A r \in Resting(o) : /\ PlanOf(o)[r] \in Nat
                                    /\ PlanOf(o)[r] =< order[r].unmatched
           /\ FilledBy(o, FilledOf(o))
           /\ \A r \in Paired(o) : FilledBy(r, PlanOf(o)[r])
           /\ \A k \in DOMAIN order : k # o /\ k \notin Paired(o) => order'[k] = order[k]
           /\ alloc' = alloc \cup {PairOf(o, r) : r \in Paired(o)}
<1>1. /\ PlanOf(o) \in [Resting(o) -> Nat]
      /\ \A r \in Resting(o) : PlanOf(o)[r] =< order[r].unmatched
      /\ FilledOf(o) \in Nat /\ FilledOf(o) =< order[o].unmatched
  BY PlacementPlan DEF PlanOf, FilledOf
<1>2. /\ Paired(o) \subseteq Resting(o) /\ Resting(o) \subseteq OpenOrders
      /\ OpenOrders \subseteq DOMAIN order
  BY DEF Paired, Resting, OpenOrders
<1>3. /\ order[o].status = "PLACING" /\ order[o].user # Streamer /\ ~Stored(o)
      /\ o \notin Resting(o)
  BY DEF PlaceCommit, Placeable, Stored, Resting
<1>4. /\ order' = [k \in DOMAIN order |->
                    IF k = o THEN Fill(order[o], FilledOf(o))
                    ELSE IF k \in Paired(o) THEN Fill(order[k], PlanOf(o)[k])
                    ELSE order[k]]
      /\ alloc' = alloc \cup {PairOf(o, r) : r \in Paired(o)}
  BY DEF PlaceCommit, PlanOf, FilledOf, Paired, PairOf
<1>5. /\ DOMAIN order' = DOMAIN order
      /\ order'[o] = Fill(order[o], FilledOf(o))
      /\ \A r \in Paired(o) : order'[r] = Fill(order[r], PlanOf(o)[r])
      /\ \A k \in DOMAIN order : k # o /\ k \notin Paired(o) => order'[k] = order[k]
  BY <1>2, <1>3, <1>4
<1>6. FilledBy(o, FilledOf(o))
  <2>1. order[o] \in BetOrder
    BY OrderRows
  <2>2. QED
    BY <1>1, <1>5, <2>1, FilledOrder DEF FilledBy
<1>7. ASSUME NEW r \in Paired(o) PROVE FilledBy(r, PlanOf(o)[r])
  <2>1. order[r] \in BetOrder /\ PlanOf(o)[r] \in Nat /\ PlanOf(o)[r] =< order[r].unmatched
    BY <1>1, <1>2, OrderRows
  <2>2. order'[r] = Fill(order[r], PlanOf(o)[r])
    BY <1>5
  <2>3. QED
    BY <2>1, <2>2, FilledOrder DEF FilledBy
<1>8. QED
  BY <1>1, <1>2, <1>3, <1>4, <1>5, <1>6, <1>7

\* No order loses its user or its outcome in any step.
LEMMA SameParties ==
    ASSUME TypeOK, [Next]_vars, NEW k \in DOMAIN order
    PROVE  /\ k \in DOMAIN order'
           /\ order'[k].user = order[k].user /\ order'[k].outcome = order[k].outcome
           /\ Stored(k) => Stored(k)'
<1>1. CASE ~Placement
  BY <1>1, QuietStep DEF QuietOrders, QuietOrder
<1>2. ASSUME NEW o \in DOMAIN order, PlaceCommit(o)
      PROVE  /\ k \in DOMAIN order'
             /\ order'[k].user = order[k].user /\ order'[k].outcome = order[k].outcome
             /\ Stored(k) => Stored(k)'
  BY <1>2, PlaceStep DEF FilledBy, Stored
<1>3. QED
  BY <1>1, <1>2 DEF Placement
-----------------------------------------------------------------------------
(* Who may be paired with whom *)

\* A stored order is not the streamer's, and only stored orders are paired.
StoredOrdersAreClean ==
    /\ \A o \in DOMAIN order : Stored(o) => order[o].user # Streamer
    /\ \A x \in alloc : Stored(x.a) /\ Stored(x.b)

CleanInv == TypeOK /\ StoredOrdersAreClean /\ CleanCounterparties

LEMMA CleanStep ==
    ASSUME CleanInv, [Next]_vars
    PROVE  StoredOrdersAreClean' /\ CleanCounterparties'
<1> USE DEF CleanInv
<1>1. \A x \in alloc : /\ x.a \in DOMAIN order /\ x.b \in DOMAIN order
                       /\ Stored(x.a) /\ Stored(x.b)
                       /\ order[x.a].user # order[x.b].user
                       /\ order[x.a].outcome # order[x.b].outcome
                       /\ Streamer \notin {order[x.a].user, order[x.b].user}
  BY AllocationRows DEF StoredOrdersAreClean, CleanCounterparties
<1>2. ASSUME NEW x \in alloc
      PROVE  /\ Stored(x.a)' /\ Stored(x.b)'
             /\ order'[x.a].user # order'[x.b].user
             /\ order'[x.a].outcome # order'[x.b].outcome
             /\ Streamer \notin {order'[x.a].user, order'[x.b].user}
  BY <1>1, SameParties
<1>3. CASE ~Placement
  <2>1. QuietOrders /\ QuietAllocations
    BY <1>3, QuietStep
  <2>2. ASSUME NEW k \in DOMAIN order', Stored(k)' PROVE order'[k].user # Streamer
    BY <2>1, <2>2 DEF QuietOrders, QuietOrder, Stored, StoredOrdersAreClean
  <2>3. ASSUME NEW y \in alloc'
        PROVE  /\ Stored(y.a)' /\ Stored(y.b)'
               /\ order'[y.a].user # order'[y.b].user
               /\ order'[y.a].outcome # order'[y.b].outcome
               /\ Streamer \notin {order'[y.a].user, order'[y.b].user}
    <3>1. PICK x \in alloc : y.a = x.a /\ y.b = x.b
      BY <2>1 DEF QuietAllocations
    <3>2. QED
      BY <1>2, <3>1 DEF Stored
  <2>4. QED
    BY <2>2, <2>3 DEF StoredOrdersAreClean, CleanCounterparties
<1>4. ASSUME NEW o \in DOMAIN order, PlaceCommit(o)
      PROVE  StoredOrdersAreClean' /\ CleanCounterparties'
  <2>1. /\ DOMAIN order' = DOMAIN order /\ order[o].user # Streamer
        /\ Paired(o) \subseteq Resting(o) /\ Resting(o) \subseteq OpenOrders
        /\ OpenOrders \subseteq DOMAIN order
        /\ FilledBy(o, FilledOf(o))
        /\ \A r \in Paired(o) : FilledBy(r, PlanOf(o)[r])
        /\ \A k \in DOMAIN order : k # o /\ k \notin Paired(o) => order'[k] = order[k]
        /\ alloc' = alloc \cup {PairOf(o, r) : r \in Paired(o)}
    BY <1>4, PlaceStep
  <2>2. \A k \in Paired(o) : Stored(k)
    BY <2>1 DEF OpenOrders, Stored
  <2>3. ASSUME NEW k \in DOMAIN order', Stored(k)' PROVE order'[k].user # Streamer
    BY <2>1, <2>2, <2>3 DEF FilledBy, Stored, StoredOrdersAreClean
  <2>4. ASSUME NEW r \in Paired(o)
        PROVE  /\ Stored(o)' /\ Stored(r)'
               /\ order'[o].user # order'[r].user
               /\ order'[o].outcome # order'[r].outcome
               /\ Streamer \notin {order'[o].user, order'[r].user}
    <3>1. order[r].user # order[o].user /\ order[r].outcome # order[o].outcome
      BY <2>1 DEF Resting
    <3>2. order[r].user # Streamer
      BY <2>1, <2>2 DEF StoredOrdersAreClean
    <3>3. QED
      BY <2>1, <3>1, <3>2 DEF FilledBy, Stored
  <2>5. \A r : PairOf(o, r).a = o /\ PairOf(o, r).b = r
    BY DEF PairOf
  <2>6. StoredOrdersAreClean'
    BY <1>2, <2>1, <2>3, <2>4, <2>5 DEF StoredOrdersAreClean, Stored
  <2>7. CleanCounterparties'
    BY <1>2, <2>1, <2>4, <2>5 DEF CleanCounterparties
  <2>8. QED
    BY <2>6, <2>7
<1>5. QED
  BY <1>3, <1>4 DEF Placement

\* No allocation ever pairs a user with themselves, two bets on one outcome, or
\* a bet of the streamer.
THEOREM CleanCounterpartiesHold == Spec => []CleanCounterparties
<1>1. Init => CleanInv
  BY InitType DEF Init, CleanInv, StoredOrdersAreClean, CleanCounterparties
<1>2. CleanInv /\ [Next]_vars => CleanInv'
  BY NextType, CleanStep DEF CleanInv
<1>3. CleanInv => CleanCounterparties
  BY DEF CleanInv
<1>4. QED
  BY <1>1, <1>2, <1>3, PTL DEF Spec

-----------------------------------------------------------------------------
(* Matching is complete and keeps time priority *)

\* If an order that could be paired keeps waiting, the incoming one does not.
LEMMA WaitingExhausts ==
    ASSUME TypeOK, NEW o \in DOMAIN order, NEW r \in Resting(o),
           PlanOf(o)[r] # order[r].unmatched
    PROVE  FilledOf(o) = order[o].unmatched
<1>1. /\ IsBook(Book(o), Len(order)) /\ DOMAIN Book(o) = Resting(o)
      /\ Book(o)[r] = order[r].unmatched
  BY RestingBook
<1>2. order[o].unmatched \in Nat
  BY OrderRows DEF BetOrder
<1>3. QED
  BY <1>1, <1>2, FifoComplete DEF PlanOf, FilledOf

\* An order is paired only once those before it that could be are exhausted.
LEMMA PairedInOrder ==
    ASSUME TypeOK, NEW o \in DOMAIN order, NEW b \in Paired(o),
           NEW r \in Resting(o), r < b
    PROVE  PlanOf(o)[r] = order[r].unmatched
<1>1. /\ IsBook(Book(o), Len(order)) /\ DOMAIN Book(o) = Resting(o)
      /\ Book(o)[r] = order[r].unmatched
  BY RestingBook
<1>2. order[o].unmatched \in Nat
  BY OrderRows DEF BetOrder
<1>3. b \in Resting(o) /\ PlanOf(o)[b] > 0
  BY DEF Paired
<1>4. QED
  BY <1>1, <1>2, <1>3, FifoInOrder DEF PlanOf

LEMMA NeverCrossedStep ==
    ASSUME TypeOK, BookNeverCrossed, [Next]_vars
    PROVE  BookNeverCrossed'
<1>1. CASE ~Placement
  <2>1. QuietOrders
    BY <1>1, QuietStep
  <2>2. ASSUME NEW k \in DOMAIN order', order'[k].status = "OPEN"
        PROVE  k \in OpenOrders /\ order'[k] = order[k]
    BY <2>1, <2>2 DEF QuietOrders, QuietOrder, OpenOrders
  <2>3. QED
    BY <2>2 DEF BookNeverCrossed, OpenOrders
<1>2. ASSUME NEW o \in DOMAIN order, PlaceCommit(o) PROVE BookNeverCrossed'
  <2> DEFINE Pass(p, q) == \/ order[p].user = order[q].user
                           \/ order[p].outcome = order[q].outcome
                           \/ order[p].unmatched = 0
                           \/ order[q].unmatched = 0
  <2>1. /\ DOMAIN order' = DOMAIN order /\ o \notin Resting(o) /\ ~Stored(o)
        /\ Paired(o) \subseteq Resting(o) /\ Resting(o) \subseteq OpenOrders
        /\ FilledOf(o) \in Nat /\ FilledOf(o) =< order[o].unmatched
        /\ FilledBy(o, FilledOf(o))
        /\ \A r \in Paired(o) : FilledBy(r, PlanOf(o)[r])
        /\ \A k \in DOMAIN order : k # o /\ k \notin Paired(o) => order'[k] = order[k]
        /\ \A r \in Resting(o) : /\ PlanOf(o)[r] \in Nat
                                 /\ PlanOf(o)[r] =< order[r].unmatched
    BY <1>2, PlaceStep
  <2>2. \A k \in DOMAIN order : order[k].unmatched \in Nat
    BY OrderRows DEF BetOrder
  <2>3. \A k \in DOMAIN order : /\ order'[k].user = order[k].user
                                /\ order'[k].outcome = order[k].outcome
    BY <2>1 DEF FilledBy
  <2>4. ASSUME NEW k \in OpenOrders', k # o
        PROVE  /\ k \in OpenOrders
               /\ order[k].unmatched = 0 => order'[k].unmatched = 0
    <3>1. k \in DOMAIN order /\ order'[k].status = "OPEN"
      BY <2>1 DEF OpenOrders
    <3>2. CASE k \in Paired(o)
      BY <2>1, <2>2, <3>1, <3>2 DEF FilledBy, Paired
    <3>3. CASE k \notin Paired(o)
      BY <2>1, <2>4, <3>1, <3>3 DEF OpenOrders
    <3>4. QED
      BY <3>2, <3>3
  <2>5. ASSUME NEW k \in OpenOrders', k # o
        PROVE  \/ order'[k].user = order'[o].user
               \/ order'[k].outcome = order'[o].outcome
               \/ order'[k].unmatched = 0
               \/ order'[o].unmatched = 0
    <3>1. k \in OpenOrders /\ k \in DOMAIN order
      BY <2>4, <2>5 DEF OpenOrders
    <3>2. CASE k \notin Resting(o)
      <4>1. \/ order[k].outcome = order[o].outcome \/ order[k].user = order[o].user
            \/ ~(order[k].unmatched > 0)
        BY <3>1, <3>2 DEF Resting
      <4>2. QED
        BY <2>2, <2>3, <2>4, <2>5, <3>1, <4>1
    <3>3. CASE k \in Resting(o)
      <4>1. CASE PlanOf(o)[k] = order[k].unmatched
        <5>1. order[k].unmatched > 0
          BY <3>3 DEF Resting
        <5>2. k \in Paired(o)
          BY <3>3, <4>1, <5>1 DEF Paired
        <5>3. order'[k].unmatched = 0
          BY <2>1, <2>2, <3>1, <4>1, <5>2 DEF FilledBy
        <5>4. QED
          BY <5>3
      <4>2. CASE PlanOf(o)[k] # order[k].unmatched
        <5>1. FilledOf(o) = order[o].unmatched
          BY <3>3, <4>2, WaitingExhausts
        <5>2. order'[o].unmatched = 0
          BY <2>1, <2>2, <5>1 DEF FilledBy
        <5>3. QED
          BY <5>2
      <4>3. QED
        BY <4>1, <4>2
    <3>4. QED
      BY <3>2, <3>3
  <2>6. ASSUME NEW p \in OpenOrders', NEW q \in OpenOrders'
        PROVE  \/ order'[p].user = order'[q].user
               \/ order'[p].outcome = order'[q].outcome
               \/ order'[p].unmatched = 0
               \/ order'[q].unmatched = 0
    <3>1. CASE p = o \/ q = o
      BY <2>5, <3>1
    <3>2. CASE p # o /\ q # o
      <4>1. p \in OpenOrders /\ q \in OpenOrders
        BY <2>4, <3>2
      <4>2. p \in DOMAIN order /\ q \in DOMAIN order
        BY <4>1 DEF OpenOrders
      <4>3. QED
        BY <2>3, <2>4, <3>2, <4>1, <4>2 DEF BookNeverCrossed
    <3>3. QED
      BY <3>1, <3>2
  <2>7. QED
    BY <2>6 DEF BookNeverCrossed
<1>3. QED
  BY <1>1, <1>2 DEF Placement

\* Two orders that could be paired are never both left waiting, in whatever
\* order their placements and the market's transitions commit.
THEOREM BookIsNeverCrossed == Spec => []BookNeverCrossed
<1>1. Init => TypeOK /\ BookNeverCrossed
  BY InitType DEF Init, BookNeverCrossed, OpenOrders
<1>2. TypeOK /\ BookNeverCrossed /\ [Next]_vars => TypeOK' /\ BookNeverCrossed'
  BY NextType, NeverCrossedStep
<1>3. QED
  BY <1>1, <1>2, PTL DEF Spec

\* The pairs that a step adds are first in, first out.
LEMMA PriorityStep ==
    ASSUME TypeOK, [Next]_vars
    PROVE  \A x \in alloc' : (\A y \in alloc : <<y.a, y.b>> # <<x.a, x.b>>) =>
               \A r \in Resting(x.a) : r < x.b => order'[r].unmatched = 0
<1> SUFFICES ASSUME NEW x \in alloc', \A y \in alloc : <<y.a, y.b>> # <<x.a, x.b>>,
                    NEW r \in Resting(x.a), r < x.b
             PROVE  order'[r].unmatched = 0
  OBVIOUS
<1>1. CASE ~Placement
  BY <1>1, QuietStep DEF QuietAllocations
<1>2. ASSUME NEW o \in DOMAIN order, PlaceCommit(o) PROVE order'[r].unmatched = 0
  <2>1. /\ Resting(o) \subseteq OpenOrders /\ OpenOrders \subseteq DOMAIN order
        /\ \A k \in Paired(o) : FilledBy(k, PlanOf(o)[k])
        /\ alloc' = alloc \cup {PairOf(o, k) : k \in Paired(o)}
    BY <1>2, PlaceStep
  <2>2. PICK b \in Paired(o) : x = PairOf(o, b)
    BY <2>1
  <2>3. x.a = o /\ x.b = b
    BY <2>2 DEF PairOf
  <2>4. PlanOf(o)[r] = order[r].unmatched
    BY <2>3, PairedInOrder
  <2>5. r \in Paired(o)
    BY <2>3, <2>4 DEF Resting, Paired
  <2>6. order[r].unmatched \in Nat
    BY <2>1, <2>3, OrderRows DEF BetOrder
  <2>7. QED
    BY <2>1, <2>4, <2>5, <2>6 DEF FilledBy
<1>3. QED
  BY <1>1, <1>2 DEF Placement

\* An order is paired only if every earlier order that could have been paired
\* instead is exhausted: time priority by created_at, not by commit.
THEOREM TimePriorityHolds == Spec => TimePriority
<1>1. TypeOK /\ TypeOK' /\ [Next]_vars =>
        [\A x \in alloc' : (\A y \in alloc : <<y.a, y.b>> # <<x.a, x.b>>) =>
            \A r \in Resting(x.a) : r < x.b => order'[r].unmatched = 0]_vars
  BY PriorityStep
<1>2. QED
  BY <1>1, TypeCorrect, PTL DEF Spec, TimePriority

-----------------------------------------------------------------------------
(* Totals *)

\* Totals over some orders are taken over all the rows there can be, and totals
\* over some allocations over all of them, an amount that does not count being
\* zero.  A step is then compared with the state before it row by row, and the
\* laws of totals do the rest.

\* What two amounts lose, two others gain.
LEMMA TotalMoves ==
    ASSUME NEW D, IsFiniteSet(D),
           NEW f \in AmountsOver(D), NEW g \in AmountsOver(D),
           NEW h \in AmountsOver(D), NEW k \in AmountsOver(D),
           \A x \in D : f[x] + g[x] = h[x] + k[x]
    PROVE  Total(f) + Total(g) = Total(h) + Total(k)
<1> DEFINE s == [x \in D |-> f[x] + g[x]]
<1>1. \A x \in D : f[x] \in Nat /\ g[x] \in Nat
  BY DEF AmountsOver
<1>2. s \in AmountsOver(D) /\ \A x \in D : s[x] = f[x] + g[x] /\ s[x] = h[x] + k[x]
  BY <1>1 DEF AmountsOver
<1> HIDE DEF s
<1>3. Total(s) = Total(f) + Total(g)
  BY <1>2, TotalSum
<1>4. Total(s) = Total(h) + Total(k)
  BY <1>2, TotalSum
<1>5. QED
  BY <1>3, <1>4

LEMMA TotalPays ==
    ASSUME NEW D, IsFiniteSet(D),
           NEW f \in AmountsOver(D), NEW g \in AmountsOver(D),
           NEW h \in AmountsOver(D), NEW k \in AmountsOver(D), NEW m \in AmountsOver(D),
           \A x \in D : f[x] + g[x] = h[x] + k[x] + m[x]
    PROVE  Total(f) + Total(g) = Total(h) + Total(k) + Total(m)
<1> DEFINE s == [x \in D |-> k[x] + m[x]]
<1>1. \A x \in D : f[x] \in Nat /\ g[x] \in Nat /\ h[x] \in Nat /\ k[x] \in Nat /\ m[x] \in Nat
  BY DEF AmountsOver
<1>2. s \in AmountsOver(D) /\ \A x \in D : s[x] = k[x] + m[x] /\ f[x] + g[x] = h[x] + s[x]
  BY <1>1 DEF AmountsOver
<1> HIDE DEF s
<1>3. Total(s) = Total(k) + Total(m)
  BY <1>2, TotalSum
<1>4. Total(f) + Total(g) = Total(h) + Total(s)
  BY <1>2, TotalMoves
<1>5. Total(h) \in Nat /\ Total(k) \in Nat /\ Total(m) \in Nat
  BY TotalType
<1>6. QED
  BY <1>3, <1>4, <1>5

\* A single amount among zeros.
LEMMA TotalOne ==
    ASSUME NEW D, NEW o \in D, NEW n \in Nat
    PROVE  Total([x \in D |-> IF x = o THEN n ELSE 0]) = n
<1> DEFINE f == [x \in {o} |-> n]
<1>1. f \in AmountsOver({o}) /\ {o} \subseteq D
  BY DEF AmountsOver
<1>2. Total([x \in D |-> IF x \in {o} THEN f[x] ELSE 0]) = Total(f)
  BY <1>1, TotalPad
<1>3. [x \in D |-> IF x \in {o} THEN f[x] ELSE 0] = [x \in D |-> IF x = o THEN n ELSE 0]
  OBVIOUS
<1>4. QED
  BY <1>2, <1>3, TotalSingle

-----------------------------------------------------------------------------
(* Amounts of the orders *)

\* The rows that orders can have.
Rows == 1 .. MaxOrders

LEMMA RowsFinite == IsFiniteSet(Rows)
  BY ExchangeAssumption, FS_Interval DEF Rows

LEMMA OrdersInRows ==
    ASSUME TypeOK
    PROVE  /\ DOMAIN order \subseteq Rows /\ OpenOrders \subseteq DOMAIN order
           /\ \A o \in DOMAIN order : /\ order[o].user \in Users
                                      /\ order[o].requested \in Nat
                                      /\ order[o].matched \in Nat
                                      /\ order[o].unmatched \in Nat
                                      /\ order[o].released \in Nat
<1>1. DOMAIN order \subseteq Rows
  BY OrderRows, ExchangeAssumption DEF Rows
<1>2. OpenOrders \subseteq DOMAIN order
  BY DEF OpenOrders
<1>3. QED
  BY <1>1, <1>2, OrderRows, StakeType DEF BetOrder

\* What user u's open orders wait to match.
Waits(u) == [o \in Rows |-> IF o \in OpenOrders /\ order[o].user = u
                            THEN order[o].unmatched ELSE 0]

\* What a release of the orders R frees for user u.
Frees(u, R) == [o \in Rows |-> IF o \in R /\ order[o].user = u
                               THEN order[o].unmatched ELSE 0]

LEMMA WaitsTotal ==
    ASSUME TypeOK, NEW u
    PROVE  /\ Waits(u) \in AmountsOver(Rows) /\ Total(Waits(u)) \in Nat
           /\ Total([o \in OrdersOf(u) \cap OpenOrders |-> order[o].unmatched])
                = Total(Waits(u))
<1> DEFINE S == OrdersOf(u) \cap OpenOrders
           f == [o \in S |-> order[o].unmatched]
<1>1. Waits(u) \in AmountsOver(Rows)
  BY OrdersInRows DEF Waits, AmountsOver
<1>2. S \subseteq Rows /\ f \in AmountsOver(S)
  BY OrdersInRows DEF AmountsOver, OrdersOf
<1>3. \A o : o \in S <=> o \in OpenOrders /\ order[o].user = u
  BY DEF OrdersOf, OpenOrders, Stored
<1>4. [o \in Rows |-> IF o \in S THEN f[o] ELSE 0] = Waits(u)
  BY <1>3 DEF Waits
<1>5. Total(f) = Total(Waits(u))
  <2> HIDE DEF S, f
  <2>1. Total([o \in Rows |-> IF o \in S THEN f[o] ELSE 0]) = Total(f)
    BY <1>2, TotalPad
  <2>2. QED
    BY <1>4, <2>1
<1>6. Total(Waits(u)) \in Nat
  BY <1>1, RowsFinite, TotalType
<1>7. QED
  BY <1>1, <1>5, <1>6

\* The same of the state after a step.
LEMMA WaitsNext ==
    ASSUME TypeOK', NEW u
    PROVE  Waits(u)' \in AmountsOver(Rows) /\ Total(Waits(u)') \in Nat
<1>1. order' \in Seq(BetOrder)
  BY DEF TypeOK
<1>2. \A o \in DOMAIN order' : order'[o] \in BetOrder
  BY <1>1
<1>3. \A o \in OpenOrders' : order'[o].unmatched \in Nat
  BY <1>2 DEF OpenOrders, BetOrder
<1>4. Waits(u)' \in AmountsOver(Rows)
  BY <1>3 DEF Waits, AmountsOver, Rows
<1>5. QED
  BY <1>4, RowsFinite, TotalType

LEMMA FreesTotal ==
    ASSUME TypeOK, NEW u, NEW R, R \subseteq DOMAIN order
    PROVE  /\ Frees(u, R) \in AmountsOver(Rows)
           /\ ReleasedTo(u, R) = Total(Frees(u, R)) /\ ReleasedTo(u, R) \in Nat
<1> DEFINE S == {q \in R : order[q].user = u}
           f == [o \in S |-> order[o].unmatched]
<1>1. Frees(u, R) \in AmountsOver(Rows)
  BY OrdersInRows DEF Frees, AmountsOver
<1>2. S \subseteq Rows /\ f \in AmountsOver(S)
  BY OrdersInRows DEF AmountsOver
<1>3. [o \in Rows |-> IF o \in S THEN f[o] ELSE 0] = Frees(u, R)
  BY DEF Frees
<1>4. Total(f) = Total(Frees(u, R))
  <2> HIDE DEF S, f
  <2>1. Total([o \in Rows |-> IF o \in S THEN f[o] ELSE 0]) = Total(f)
    BY <1>2, TotalPad
  <2>2. QED
    BY <1>3, <2>1
<1>5. QED
  BY <1>1, <1>4, ReleasedType DEF ReleasedTo

LEMMA ReleasedNone ==
    ASSUME NEW u
    PROVE  ReleasedTo(u, {}) = 0
<1> DEFINE S == {q \in {} : order[q].user = u}
           f == [o \in S |-> order[o].unmatched]
<1>1. f \in AmountsOver(S) /\ \A o \in S : f[o] = 0
  BY DEF AmountsOver
<1>2. Total(f) = 0
  BY <1>1, TotalZero
<1>3. QED
  BY <1>2 DEF ReleasedTo

LEMMA ReleasedOne ==
    ASSUME TypeOK, NEW u, NEW o \in DOMAIN order
    PROVE  ReleasedTo(u, {o}) = IF order[o].user = u THEN order[o].unmatched ELSE 0
<1>0. order[o].unmatched \in Nat /\ o \in Rows
  BY OrdersInRows
<1>1. CASE order[o].user = u
  <2>1. Frees(u, {o}) = [x \in Rows |-> IF x = o THEN order[o].unmatched ELSE 0]
    BY <1>1 DEF Frees
  <2>2. QED
    BY <1>0, <1>1, <2>1, FreesTotal, TotalOne
<1>2. CASE order[o].user # u
  <2>1. \A x \in Rows : Frees(u, {o})[x] = 0
    BY <1>2 DEF Frees
  <2>2. Total(Frees(u, {o})) = 0
    BY <2>1, FreesTotal, TotalZero
  <2>3. QED
    BY <1>2, <2>2, FreesTotal
<1>3. QED
  BY <1>1, <1>2

-----------------------------------------------------------------------------
(* What a step does to the money *)

\* The orders R leave the book, with what they waited for released; no order
\* enters it.
Freed(R) ==
    /\ R \subseteq OpenOrders
    /\ QuietOrders
    /\ \A o \in DOMAIN order : o \in OpenOrders' <=> o \in OpenOrders /\ o \notin R
    /\ \A o \in R : /\ order'[o].unmatched = 0
                    /\ order'[o].released = order[o].released + order[o].unmatched
    /\ \A o \in DOMAIN order \ R : order'[o].released = order[o].released
    /\ locked' = [u \in Users |-> locked[u] - ReleasedTo(u, R)]

\* Nothing but the release of R is paid.
Unpaid(R) ==
    /\ available' = [u \in Users |-> available[u] + ReleasedTo(u, R)]
    /\ UNCHANGED <<alloc, escrow, payable>>

LEMMA FreedRelease ==
    ASSUME TypeOK, NEW R, R \subseteq OpenOrders, ReleaseUnmatched(R)
    PROVE  Freed(R)
<1>1. QuietOrders
  BY QuietRelease
<1>2. \A o \in DOMAIN order : /\ o \in R => order'[o] = Cancelled(order[o])
                              /\ o \notin R => order'[o] = order[o]
  BY DEF ReleaseUnmatched
<1>3. \A o \in DOMAIN order : /\ Cancelled(order[o]).status = "CANCELLED"
                              /\ Cancelled(order[o]).unmatched = 0
                              /\ Cancelled(order[o]).released
                                   = order[o].released + order[o].unmatched
  BY OrderRows, CancelledOrder
<1>4. DOMAIN order' = DOMAIN order
  BY DEF ReleaseUnmatched
<1>5. QED
  BY <1>1, <1>2, <1>3, <1>4, OrdersInRows DEF Freed, ReleaseUnmatched, OpenOrders

LEMMA FreedNothing ==
    ASSUME TypeOK, QuietOrders, UNCHANGED locked,
           \A o \in DOMAIN order : /\ o \in OpenOrders' <=> o \in OpenOrders
                                   /\ order'[o].released = order[o].released
    PROVE  Freed({})
<1>1. locked = [u \in Users |-> locked[u]] /\ \A u \in Users : locked[u] \in Int
  BY DEF TypeOK
<1>2. \A u \in Users : locked[u] - ReleasedTo(u, {}) = locked[u]
  BY <1>1, ReleasedNone
<1>3. locked' = [u \in Users |-> locked[u] - ReleasedTo(u, {})]
  BY <1>1, <1>2
<1>4. QED
  BY <1>3 DEF Freed

LEMMA UnpaidNothing ==
    ASSUME TypeOK, UNCHANGED <<available, alloc, escrow, payable>>
    PROVE  Unpaid({})
<1>1. available = [u \in Users |-> available[u]] /\ \A u \in Users : available[u] \in Int
  BY DEF TypeOK
<1>2. \A u \in Users : available[u] + ReleasedTo(u, {}) = available[u]
  BY <1>1, ReleasedNone
<1>3. available' = [u \in Users |-> available[u] + ReleasedTo(u, {})]
  BY <1>1, <1>2
<1>4. QED
  BY <1>3 DEF Unpaid

LEMMA FreedFinish ==
    ASSUME TypeOK, NEW k \in {"SETTLED", "VOIDED"}, order' = FinalizedOrders(k),
           locked' = [u \in Users |-> locked[u] - ReleasedTo(u, OpenOrders)]
    PROVE  Freed(OpenOrders)
<1>1. QuietOrders
  BY QuietFinish DEF FinalizedOrders
<1>2. /\ DOMAIN order' = DOMAIN order
      /\ \A o \in DOMAIN order :
            /\ order[o].status = "OPEN" => order'[o] = Cancelled(order[o])
            /\ order[o].status = "MATCHED" => order'[o] = [order[o] EXCEPT !.status = k]
            /\ order[o].status \notin {"OPEN", "MATCHED"} => order'[o] = order[o]
  BY DEF FinalizedOrders
<1>3. \A o \in DOMAIN order : /\ Cancelled(order[o]).status = "CANCELLED"
                              /\ Cancelled(order[o]).unmatched = 0
                              /\ Cancelled(order[o]).released
                                   = order[o].released + order[o].unmatched
                              /\ [order[o] EXCEPT !.status = k].status = k
                              /\ [order[o] EXCEPT !.status = k].released
                                   = order[o].released
  <2>1. ASSUME NEW ord \in BetOrder
        PROVE  /\ [ord EXCEPT !.status = k].status = k
               /\ [ord EXCEPT !.status = k].released = ord.released
    BY DEF BetOrder
  <2>2. QED
    BY <2>1, OrderRows, CancelledOrder
<1>4. QED
  BY <1>1, <1>2, <1>3, OrdersInRows DEF Freed, OpenOrders

\* Every step but the commit of a placement only releases, or else settles or
\* voids the market.
MoneyMoves ==
    \E R \in SUBSET OpenOrders :
       /\ Freed(R)
       /\ \/ Unpaid(R)
          \/ R = OpenOrders /\ \E w \in Workers : SettleCommit(w) \/ VoidCommit(w)

LEMMA StillMoney ==
    ASSUME TypeOK, UNCHANGED <<order, alloc, money>>
    PROVE  MoneyMoves
<1>1. Freed({})
  BY QuietUnchanged, FreedNothing DEF OpenOrders
<1>2. Unpaid({})
  BY UnpaidNothing
<1>3. QED
  BY <1>1, <1>2 DEF MoneyMoves

LEMMA MoneyBettor ==
    ASSUME TypeOK, Bettor, ~Placement
    PROVE  MoneyMoves
<1>0. QuietOrders
  BY QuietBettor
<1>1. ASSUME NEW u \in Users, NEW c \in Outcomes, NEW m \in Stakes, PlaceBegin(u, c, m)
      PROVE  MoneyMoves
  <2>1. UNCHANGED <<alloc, money>>
    BY <1>1 DEF PlaceBegin
  <2>2. \A o \in DOMAIN order : o \in DOMAIN order' /\ order'[o] = order[o]
    <3> DEFINE ord == [user |-> u, outcome |-> c, requested |-> m, matched |-> 0,
                       unmatched |-> m, released |-> 0, status |-> "PLACING"]
    <3>1. ord \in BetOrder
      BY StakeType DEF BetOrder, OrderStatus
    <3>2. order' = Append(order, ord) /\ order \in Seq(BetOrder)
      BY <1>1 DEF PlaceBegin, TypeOK
    <3> HIDE DEF ord
    <3>3. QED
      BY <3>1, <3>2, AppendProperties, LenProperties
  <2>3. Freed({})
    BY <1>0, <2>1, <2>2, FreedNothing DEF OpenOrders
  <2>4. QED
    BY <2>1, <2>3, UnpaidNothing DEF MoneyMoves
<1>2. ASSUME NEW o \in DOMAIN order, PlaceAbort(o) PROVE MoneyMoves
  <2>1. /\ order[o].status = "PLACING" /\ UNCHANGED <<alloc, money>>
        /\ order' = [order EXCEPT ![o] = [order[o] EXCEPT !.status = "ABORTED"]]
    BY <1>2 DEF PlaceAbort
  <2>2. /\ [order[o] EXCEPT !.status = "ABORTED"].status = "ABORTED"
        /\ [order[o] EXCEPT !.status = "ABORTED"].released = order[o].released
    BY OrderRows DEF BetOrder
  <2>3. Freed({})
    BY <1>0, <2>1, <2>2, FreedNothing DEF OpenOrders
  <2>4. QED
    BY <2>1, <2>3, UnpaidNothing DEF MoneyMoves
<1>3. ASSUME NEW o \in DOMAIN order, CancelOrder(o) PROVE MoneyMoves
  <2>1. /\ order[o].status = "OPEN" /\ UNCHANGED <<alloc, escrow, payable>>
        /\ order' = [order EXCEPT ![o] = Cancelled(order[o])]
        /\ available' = [available EXCEPT ![order[o].user] = @ + order[o].unmatched]
        /\ locked' = [locked EXCEPT ![order[o].user] = @ - order[o].unmatched]
    BY <1>3 DEF CancelOrder
  <2>2. \A u \in Users : /\ available[u] \in Nat /\ locked[u] \in Int
                         /\ ReleasedTo(u, {o}) = IF order[o].user = u
                                                 THEN order[o].unmatched ELSE 0
    BY ReleasedOne DEF TypeOK
  <2>3. order[o].user \in Users /\ order[o].unmatched \in Nat
    BY OrdersInRows
  <2>4. /\ available' = [u \in Users |-> available[u] + ReleasedTo(u, {o})]
        /\ locked' = [u \in Users |-> locked[u] - ReleasedTo(u, {o})]
    <3>1. available \in [Users -> Nat] /\ locked \in [Users -> Int]
      BY DEF TypeOK
    <3> DEFINE a(u) == IF u = order[o].user THEN available[u] + order[o].unmatched
                       ELSE available[u]
               l(u) == IF u = order[o].user THEN locked[u] - order[o].unmatched
                       ELSE locked[u]
    <3>2. available' = [u \in Users |-> a(u)] /\ locked' = [u \in Users |-> l(u)]
      BY <2>1, <2>3, <3>1
    <3>3. \A u \in Users : /\ a(u) = available[u] + ReleasedTo(u, {o})
                           /\ l(u) = locked[u] - ReleasedTo(u, {o})
      <4>1. ASSUME NEW u \in Users, u = order[o].user
            PROVE  /\ a(u) = available[u] + ReleasedTo(u, {o})
                   /\ l(u) = locked[u] - ReleasedTo(u, {o})
        BY <2>2, <4>1
      <4>2. ASSUME NEW u \in Users, u # order[o].user
            PROVE  /\ a(u) = available[u] + ReleasedTo(u, {o})
                   /\ l(u) = locked[u] - ReleasedTo(u, {o})
        <5>1. ReleasedTo(u, {o}) = 0
          BY <2>2, <4>2
        <5>2. available[u] \in Nat /\ locked[u] \in Int
          BY <2>2
        <5>3. QED
          BY <4>2, <5>1, <5>2
      <4>3. QED
        BY <4>1, <4>2, Zenon
    <3> HIDE DEF a, l
    <3>4. QED
      BY <3>2, <3>3
  <2>5. /\ {o} \subseteq OpenOrders /\ DOMAIN order' = DOMAIN order
        /\ order'[o] = Cancelled(order[o])
        /\ \A k \in DOMAIN order : k # o => order'[k] = order[k]
    BY <2>1 DEF OpenOrders
  <2>6. /\ Cancelled(order[o]).status = "CANCELLED"
        /\ Cancelled(order[o]).unmatched = 0
        /\ Cancelled(order[o]).released = order[o].released + order[o].unmatched
    BY OrderRows, CancelledOrder
  <2>7. Freed({o})
    BY <1>0, <2>4, <2>5, <2>6 DEF Freed, OpenOrders
  <2>8. QED
    BY <2>1, <2>4, <2>5, <2>7 DEF MoneyMoves, Unpaid
<1>4. QED
  BY <1>1, <1>2, <1>3 DEF Bettor, Placement

LEMMA MoneyWorker ==
    ASSUME TypeOK, NEW w \in Workers, Transition(w) \/ Settlement(w) \/ MarketTxAbort(w)
    PROVE  MoneyMoves
<1>1. ASSUME TransitionCommit(w) PROVE MoneyMoves
  <2> DEFINE R == tx[w].scan \cap OpenOrders
  <2>1. R \subseteq OpenOrders /\ ReleaseUnmatched(R) /\ UNCHANGED <<alloc, escrow, payable>>
    BY <1>1 DEF TransitionCommit
  <2> HIDE DEF R
  <2>2. Freed(R)
    BY <2>1, FreedRelease
  <2>3. Unpaid(R)
    BY <2>1 DEF Unpaid, ReleaseUnmatched
  <2>4. QED
    BY <2>1, <2>2, <2>3 DEF MoneyMoves
<1>2. ASSUME SettleVoidResult(w) PROVE MoneyMoves
  <2>1. ReleaseUnmatched(OpenOrders) /\ UNCHANGED <<alloc, escrow, payable>>
    BY <1>2 DEF SettleVoidResult
  <2>2. Freed(OpenOrders)
    BY <2>1, FreedRelease
  <2>3. Unpaid(OpenOrders)
    BY <2>1 DEF Unpaid, ReleaseUnmatched
  <2>4. QED
    BY <2>2, <2>3 DEF MoneyMoves
<1>3. ASSUME SettleCommit(w) PROVE MoneyMoves
  <2>1. /\ order' = FinalizedOrders("SETTLED")
        /\ locked' = [u \in Users |-> locked[u] - ReleasedTo(u, OpenOrders)]
    BY <1>3 DEF SettleCommit
  <2>2. QED
    BY <1>3, <2>1, FreedFinish DEF MoneyMoves
<1>4. ASSUME VoidCommit(w) PROVE MoneyMoves
  <2>1. /\ order' = FinalizedOrders("VOIDED")
        /\ locked' = [u \in Users |-> locked[u] - ReleasedTo(u, OpenOrders)]
    BY <1>4 DEF VoidCommit
  <2>2. QED
    BY <1>4, <2>1, FreedFinish DEF MoneyMoves
<1>5. ASSUME \/ MarketTxAbort(w) \/ SettleBegin(w) \/ VoidBegin(w)
             \/ \E to \in MarketStatus : AdminTransition(w, to)
             \/ SweepList(w) \/ SweepTransition(w) \/ TransitionUpdate(w)
      PROVE  MoneyMoves
  <2>1. UNCHANGED <<order, alloc, money>>
    BY <1>5 DEF MarketTxAbort, SettleBegin, VoidBegin, AdminTransition, SweepList,
                SweepTransition, TransitionUpdate
  <2>2. QED
    BY <2>1, StillMoney
<1>6. QED
  BY <1>1, <1>2, <1>3, <1>4, <1>5 DEF Transition, Settlement

LEMMA QuietMoney ==
    ASSUME TypeOK, [Next]_vars, ~Placement
    PROVE  MoneyMoves
<1>1. ASSUME \/ \E v \in Outcomes \cup {NoWinner} : ProposeResult(v)
             \/ ConfirmResult \/ ClosingTimePasses \/ UNCHANGED vars
      PROVE  MoneyMoves
  <2>1. UNCHANGED <<order, alloc, money>>
    BY <1>1 DEF ProposeResult, ConfirmResult, ClosingTimePasses, vars
  <2>2. QED
    BY <2>1, StillMoney
<1>2. QED
  BY <1>1, MoneyBettor, MoneyWorker DEF Next

-----------------------------------------------------------------------------
(* What is locked *)

\* A placement in flight has matched nothing and released nothing.
PlacingWhole ==
    \A o \in DOMAIN order : order[o].status = "PLACING" =>
        /\ order[o].matched = 0 /\ order[o].released = 0
        /\ order[o].unmatched = order[o].requested

LockedInv == \A u \in Users : locked[u] = Total(Waits(u))

LEMMA WholeStep ==
    ASSUME TypeOK, PlacingWhole, [Next]_vars
    PROVE  PlacingWhole'
<1>1. CASE ~Placement
  BY <1>1, QuietStep DEF QuietOrders, QuietOrder, PlacingWhole
<1>2. ASSUME NEW o \in DOMAIN order, PlaceCommit(o) PROVE PlacingWhole'
  BY <1>2, PlaceStep DEF FilledBy, PlacingWhole
<1>3. QED
  BY <1>1, <1>2 DEF Placement

\* The amounts a placement moves.
Stake(o) == order[o].requested

\* What the placement of o takes from the open orders of user u.
TakenFrom(u, o) == Total([r \in {q \in Paired(o) : order[q].user = u} |-> PlanOf(o)[r]])

Takes(u, o) == [r \in Rows |-> IF r \in Paired(o) /\ order[r].user = u
                               THEN PlanOf(o)[r] ELSE 0]

LEMMA TakesTotal ==
    ASSUME TypeOK, NEW o \in DOMAIN order, PlaceCommit(o), NEW u
    PROVE  /\ Takes(u, o) \in AmountsOver(Rows)
           /\ TakenFrom(u, o) = Total(Takes(u, o)) /\ TakenFrom(u, o) \in Nat
<1> DEFINE S == {q \in Paired(o) : order[q].user = u}
           f == [r \in S |-> PlanOf(o)[r]]
<1>1. /\ Paired(o) \subseteq Resting(o) /\ Paired(o) \subseteq Rows
      /\ \A r \in Paired(o) : PlanOf(o)[r] \in Nat
  BY PlaceStep, OrdersInRows
<1>2. Takes(u, o) \in AmountsOver(Rows)
  BY <1>1 DEF Takes, AmountsOver
<1>3. S \subseteq Rows /\ f \in AmountsOver(S)
  BY <1>1 DEF AmountsOver
<1>4. [r \in Rows |-> IF r \in S THEN f[r] ELSE 0] = Takes(u, o)
  BY DEF Takes
<1>5. Total(f) = Total(Takes(u, o))
  <2> HIDE DEF S, f
  <2>1. Total([r \in Rows |-> IF r \in S THEN f[r] ELSE 0]) = Total(f)
    BY <1>3, TotalPad
  <2>2. QED
    BY <1>4, <2>1
<1>6. Total(Takes(u, o)) \in Nat
  BY <1>2, RowsFinite, TotalType
<1>7. QED
  BY <1>2, <1>5, <1>6 DEF TakenFrom

\* A placement moves its stake from available to locked, and what is paired
\* from locked to the escrow.
LEMMA PlaceMoney ==
    ASSUME TypeOK, NEW o \in DOMAIN order, PlaceCommit(o)
    PROVE  /\ order[o].user \in Users /\ Stake(o) \in Nat
           /\ available' = [available EXCEPT ![order[o].user] = @ - Stake(o)]
           /\ available[order[o].user] >= Stake(o)
           /\ locked' = [u \in Users |-> IF u = order[o].user
                                         THEN locked[u] + Stake(o) - FilledOf(o)
                                         ELSE locked[u] - TakenFrom(u, o)]
           /\ escrow' = escrow + 2 * FilledOf(o)
           /\ UNCHANGED <<payable, result>>
  BY OrdersInRows DEF PlaceCommit, Placeable, Stake, FilledOf, TakenFrom, Paired, PlanOf

LEMMA LockedPlace ==
    ASSUME TypeOK, PlacingWhole, LockedInv, NEW o \in DOMAIN order, PlaceCommit(o)
    PROVE  LockedInv'
<1>1. /\ DOMAIN order' = DOMAIN order
      /\ ~Stored(o) /\ order[o].status = "PLACING"
      /\ Paired(o) \subseteq Resting(o) /\ Resting(o) \subseteq OpenOrders
      /\ OpenOrders \subseteq DOMAIN order
      /\ FilledOf(o) \in Nat /\ FilledOf(o) =< order[o].unmatched
      /\ \A r \in Paired(o) : PlanOf(o)[r] \in Nat /\ PlanOf(o)[r] =< order[r].unmatched
      /\ FilledBy(o, FilledOf(o))
      /\ \A r \in Paired(o) : FilledBy(r, PlanOf(o)[r])
      /\ \A k \in DOMAIN order : k # o /\ k \notin Paired(o) => order'[k] = order[k]
  BY PlaceStep
<1>2. \A k \in DOMAIN order : order[k].unmatched \in Nat
  BY OrdersInRows
<1>3. TypeOK' /\ DOMAIN order \subseteq Rows /\ o \notin OpenOrders
  BY <1>1, NextType, OrdersInRows DEF Next, Bettor, OpenOrders
<1>4. \A r \in Paired(o) : order[r].user # order[o].user /\ r # o
  BY <1>1 DEF Resting
<1>5. order[o].unmatched = Stake(o)
  BY <1>1 DEF PlacingWhole, Stake
<1>6. \A u : /\ Waits(u) \in AmountsOver(Rows) /\ Total(Waits(u)) \in Nat
             /\ Waits(u)' \in AmountsOver(Rows)
  BY <1>3, WaitsTotal, WaitsNext
<1>7. ASSUME NEW u \in Users, u = order[o].user
      PROVE  Total(Waits(u)') = Total(Waits(u)) + (Stake(o) - FilledOf(o))
  <2> DEFINE one == [x \in Rows |-> IF x = o THEN Stake(o) - FilledOf(o) ELSE 0]
  <2>1. Stake(o) - FilledOf(o) \in Nat
    BY <1>1, <1>2, <1>5
  <2>2. one \in AmountsOver(Rows)
    BY <2>1 DEF AmountsOver
  <2>3. Total(one) = Stake(o) - FilledOf(o)
    BY <1>3, <2>1, TotalOne
  <2>4. ASSUME NEW k \in Rows PROVE Waits(u)'[k] = Waits(u)[k] + one[k]
    <3>1. CASE k = o
      <4>1. Waits(u)[k] = 0 /\ one[k] = Stake(o) - FilledOf(o)
        BY <1>3, <3>1 DEF Waits
      <4>2. Waits(u)'[k] = Stake(o) - FilledOf(o)
        BY <1>1, <1>2, <1>5, <1>7, <3>1 DEF Waits, FilledBy, OpenOrders, Rows
      <4>3. QED
        BY <2>1, <4>1, <4>2
    <3>2. CASE k # o
      <4>1. one[k] = 0
        BY <3>2
      <4>2. Waits(u)'[k] = Waits(u)[k]
        <5>1. CASE k \in Paired(o)
          BY <1>1, <1>4, <1>7, <5>1 DEF Waits, FilledBy, Rows
        <5>2. CASE k \notin Paired(o)
          BY <1>1, <3>2, <5>2 DEF Waits, OpenOrders, Rows
        <5>3. QED
          BY <5>1, <5>2
      <4>3. Waits(u)[k] \in Nat
        BY <1>6 DEF AmountsOver
      <4>4. QED
        BY <4>1, <4>2, <4>3
    <3>3. QED
      BY <3>1, <3>2
  <2> HIDE DEF one
  <2>5. Total(Waits(u)') = Total(Waits(u)) + Total(one)
    BY <1>6, <2>2, <2>4, RowsFinite, TotalSum
  <2>6. QED
    BY <2>3, <2>5
<1>8. ASSUME NEW u \in Users, u # order[o].user
      PROVE  Total(Waits(u)) = Total(Waits(u)') + TakenFrom(u, o)
  <2>1. ASSUME NEW k \in Rows PROVE Waits(u)[k] = Waits(u)'[k] + Takes(u, o)[k]
    <3>1. CASE k \in Paired(o)
      <4>1. k \in OpenOrders /\ k \in DOMAIN order /\ order[k].unmatched \in Nat
        BY <1>1, <1>2, <3>1
      <4>2. CASE order[k].user = u
        <5>1. Waits(u)[k] = order[k].unmatched /\ Takes(u, o)[k] = PlanOf(o)[k]
          BY <3>1, <4>1, <4>2 DEF Waits, Takes
        <5>2. Waits(u)'[k] = order[k].unmatched - PlanOf(o)[k]
          BY <1>1, <3>1, <4>1, <4>2 DEF Waits, FilledBy, OpenOrders, Rows
        <5>3. QED
          BY <1>1, <3>1, <4>1, <5>1, <5>2
      <4>3. CASE order[k].user # u
        BY <1>1, <3>1, <4>3 DEF Waits, Takes, FilledBy, Rows
      <4>4. QED
        BY <4>2, <4>3
    <3>2. CASE k = o
      <4>1. Waits(u)[k] = 0 /\ Takes(u, o)[k] = 0
        BY <1>4, <1>8, <3>2 DEF Waits, Takes
      <4>2. Waits(u)'[k] = 0
        BY <1>1, <1>8, <3>2 DEF Waits, FilledBy, Rows
      <4>3. QED
        BY <4>1, <4>2
    <3>3. CASE k # o /\ k \notin Paired(o)
      <4>1. Takes(u, o)[k] = 0 /\ Waits(u)'[k] = Waits(u)[k]
        BY <1>1, <3>3 DEF Waits, Takes, OpenOrders, Rows
      <4>2. Waits(u)[k] \in Nat
        BY <1>6 DEF AmountsOver
      <4>3. QED
        BY <4>1, <4>2
    <3>4. QED
      BY <3>1, <3>2, <3>3
  <2>2. Takes(u, o) \in AmountsOver(Rows) /\ TakenFrom(u, o) = Total(Takes(u, o))
    BY TakesTotal
  <2>3. Total(Waits(u)) = Total(Waits(u)') + Total(Takes(u, o))
    BY <1>6, <2>1, <2>2, RowsFinite, TotalSum
  <2>4. QED
    BY <2>2, <2>3
<1>9. ASSUME NEW u \in Users PROVE locked'[u] = Total(Waits(u)')
  <2>1. /\ locked'[u] = IF u = order[o].user THEN locked[u] + Stake(o) - FilledOf(o)
                        ELSE locked[u] - TakenFrom(u, o)
        /\ Stake(o) \in Nat /\ TakenFrom(u, o) \in Nat /\ locked[u] = Total(Waits(u))
    BY PlaceMoney, TakesTotal DEF LockedInv
  <2>2. Total(Waits(u)') \in Nat /\ Total(Waits(u)) \in Nat
    BY <1>6, RowsFinite, TotalType
  <2>3. QED
    BY <1>1, <1>7, <1>8, <2>1, <2>2
<1>10. QED
  BY <1>9 DEF LockedInv

LEMMA LockedQuiet ==
    ASSUME TypeOK, TypeOK', LockedInv, NEW R, Freed(R)
    PROVE  LockedInv'
<1>1. R \subseteq DOMAIN order /\ DOMAIN order \subseteq Rows
  BY OrdersInRows DEF Freed
<1>2. \A u : /\ Waits(u) \in AmountsOver(Rows) /\ Frees(u, R) \in AmountsOver(Rows)
             /\ Waits(u)' \in AmountsOver(Rows)
             /\ ReleasedTo(u, R) = Total(Frees(u, R))
  BY <1>1, WaitsTotal, WaitsNext, FreesTotal
<1>3. ASSUME NEW u, NEW k \in Rows
      PROVE  Waits(u)[k] = Waits(u)'[k] + Frees(u, R)[k]
  <2>1. Waits(u)[k] \in Nat
    BY <1>2 DEF AmountsOver
  <2>2. CASE k \in R
    <3>1. k \in OpenOrders /\ k \notin OpenOrders'
      BY <1>1, <2>2 DEF Freed
    <3>2. Waits(u)[k] = Frees(u, R)[k] /\ Waits(u)'[k] = 0
      BY <2>2, <3>1 DEF Waits, Frees, Rows
    <3>3. QED
      BY <2>1, <3>2
  <2>3. CASE k \notin R
    <3>1. Frees(u, R)[k] = 0
      BY <2>3 DEF Frees
    <3>2. k \in OpenOrders' <=> k \in OpenOrders
      BY <2>3 DEF Freed, QuietOrders, OpenOrders
    <3>3. k \in OpenOrders => order'[k] = order[k]
      BY <1>1, <3>2 DEF Freed, QuietOrders, QuietOrder, OpenOrders
    <3>4. Waits(u)'[k] = Waits(u)[k]
      BY <3>2, <3>3 DEF Waits, Rows
    <3>5. QED
      BY <2>1, <3>1, <3>4
  <2>4. QED
    BY <2>2, <2>3
<1>4. \A u : Total(Waits(u)) = Total(Waits(u)') + Total(Frees(u, R))
  BY <1>2, <1>3, RowsFinite, TotalSum
<1>5. ASSUME NEW u \in Users PROVE locked'[u] = Total(Waits(u)')
  <2>1. locked'[u] = locked[u] - ReleasedTo(u, R) /\ locked[u] = Total(Waits(u))
    BY DEF Freed, LockedInv
  <2>2. Total(Waits(u)') \in Nat /\ Total(Frees(u, R)) \in Nat
    BY <1>2, RowsFinite, TotalType
  <2>3. QED
    BY <1>2, <1>4, <2>1, <2>2
<1>6. QED
  BY <1>5 DEF LockedInv

LEMMA LockedStep ==
    ASSUME TypeOK, PlacingWhole, LockedInv, [Next]_vars
    PROVE  LockedInv'
<1>1. CASE ~Placement
  <2>1. PICK R : Freed(R)
    BY <1>1, QuietMoney DEF MoneyMoves
  <2>2. QED
    BY <2>1, NextType, LockedQuiet
<1>2. QED
  BY <1>1, LockedPlace DEF Placement

-----------------------------------------------------------------------------
(* Amounts of the allocations *)

\* Two orders are paired at most once.
PairedOnce == \A x, y \in alloc : x.a = y.a /\ x.b = y.b => x = y

\* An allocation after a settlement or a void.
Finish(x, k) == [x EXCEPT !.status = IF x.status = "ACTIVE" THEN k ELSE x.status]

LEMMA FinishedRow ==
    ASSUME NEW x \in Allocation, NEW k \in {"SETTLED", "VOIDED"}
    PROVE  /\ Finish(x, k) \in Allocation
           /\ Finish(x, k).a = x.a /\ Finish(x, k).b = x.b
           /\ Finish(x, k).amount = x.amount
           /\ x.status = "ACTIVE" => Finish(x, k).status = k
           /\ x.status # "ACTIVE" => Finish(x, k).status = x.status
  BY DEF Finish, Allocation

LEMMA FinishedRows ==
    ASSUME TypeOK, NEW k \in {"SETTLED", "VOIDED"}, alloc' = FinalizedAllocations(k)
    PROVE  /\ alloc' = {Finish(x, k) : x \in alloc}
           /\ \A x \in alloc :
                 /\ Finish(x, k) \in alloc'
                 /\ Finish(x, k).a = x.a /\ Finish(x, k).b = x.b
                 /\ Finish(x, k).amount = x.amount
                 /\ x.status = "ACTIVE" => Finish(x, k).status = k
                 /\ x.status # "ACTIVE" => Finish(x, k).status = x.status
<1>1. alloc' = {Finish(x, k) : x \in alloc}
  BY DEF FinalizedAllocations, Finish
<1>2. \A x \in alloc : x \in Allocation
  BY DEF TypeOK
<1>3. QED
  BY <1>1, <1>2, FinishedRow

LEMMA FinishedTotal ==
    ASSUME TypeOK, PairedOnce, NEW k \in {"SETTLED", "VOIDED"},
           alloc' = FinalizedAllocations(k), NEW f \in AmountsOver(alloc')
    PROVE  Total(f) = Total([x \in alloc |-> f[Finish(x, k)]])
<1> DEFINE g == [x \in alloc |-> Finish(x, k)]
<1>1. /\ alloc' = {Finish(x, k) : x \in alloc}
      /\ \A x \in alloc : /\ Finish(x, k) \in alloc'
                          /\ Finish(x, k).a = x.a /\ Finish(x, k).b = x.b
  BY FinishedRows
<1>2. \A x, y \in alloc : Finish(x, k) = Finish(y, k) => x = y
  BY <1>1 DEF PairedOnce
<1>3. g \in Bijection(alloc, alloc')
  BY <1>1, <1>2 DEF Bijection, Injection, Surjection, IsInjective
<1>4. IsFiniteSet(alloc) /\ \A x \in alloc : g[x] = Finish(x, k)
  BY DEF TypeOK
<1> HIDE DEF g
<1>5. Total([x \in alloc |-> f[g[x]]]) = Total(f)
  BY <1>3, <1>4, TotalReindex
<1>6. [x \in alloc |-> f[g[x]]] = [x \in alloc |-> f[Finish(x, k)]]
  BY <1>4
<1>7. QED
  BY <1>5, <1>6

\* The allocations that the placement of o adds are new.
LEMMA NewRows ==
    ASSUME TypeOK, StoredOrdersAreClean, NEW o \in DOMAIN order, PlaceCommit(o)
    PROVE  /\ alloc' = alloc \cup {PairOf(o, r) : r \in Paired(o)}
           /\ \A x \in alloc : x.a # o /\ x.b # o
           /\ \A r : /\ PairOf(o, r).a = o /\ PairOf(o, r).b = r
                     /\ PairOf(o, r).amount = PlanOf(o)[r]
                     /\ PairOf(o, r).status = "ACTIVE"
           /\ \A r : PairOf(o, r) \notin alloc
           /\ IsFiniteSet(Paired(o)) /\ \A r \in Paired(o) : PlanOf(o)[r] \in Nat
<1>1. /\ alloc' = alloc \cup {PairOf(o, r) : r \in Paired(o)} /\ ~Stored(o)
      /\ Paired(o) \subseteq DOMAIN order
      /\ \A r \in Paired(o) : PlanOf(o)[r] \in Nat
  BY PlaceStep
<1>2. \A x \in alloc : x.a # o /\ x.b # o
  BY <1>1 DEF StoredOrdersAreClean
<1>3. \A r : /\ PairOf(o, r).a = o /\ PairOf(o, r).b = r
             /\ PairOf(o, r).amount = PlanOf(o)[r]
             /\ PairOf(o, r).status = "ACTIVE"
  BY DEF PairOf
<1>4. IsFiniteSet(Paired(o))
  BY <1>1, OrderRows, FS_Subset
<1>5. QED
  BY <1>1, <1>2, <1>3, <1>4

LEMMA GrownTotal ==
    ASSUME TypeOK, StoredOrdersAreClean, NEW o \in DOMAIN order, PlaceCommit(o),
           NEW f \in AmountsOver(alloc')
    PROVE  /\ [x \in alloc |-> f[x]] \in AmountsOver(alloc)
           /\ [r \in Paired(o) |-> f[PairOf(o, r)]] \in AmountsOver(Paired(o))
           /\ Total(f) = Total([x \in alloc |-> f[x]])
                           + Total([r \in Paired(o) |-> f[PairOf(o, r)]])
<1> DEFINE New == {PairOf(o, r) : r \in Paired(o)}
           g == [r \in Paired(o) |-> PairOf(o, r)]
           h == [x \in New |-> f[x]]
<1>1. /\ alloc' = alloc \cup New /\ alloc \cap New = {}
      /\ \A r : PairOf(o, r).b = r
      /\ IsFiniteSet(Paired(o))
  BY NewRows
<1>2. IsFiniteSet(alloc')
  BY NextType DEF TypeOK, Next, Bettor
<1>3. Total(f) = Total([x \in alloc |-> f[x]]) + Total(h)
  BY <1>1, <1>2, TotalSplit
<1>4. /\ [x \in alloc |-> f[x]] \in AmountsOver(alloc) /\ h \in AmountsOver(New)
      /\ [r \in Paired(o) |-> f[PairOf(o, r)]] \in AmountsOver(Paired(o))
  BY <1>1 DEF AmountsOver
<1>5. g \in Bijection(Paired(o), New)
  BY <1>1 DEF Bijection, Injection, Surjection, IsInjective
<1>6. Total([r \in Paired(o) |-> h[g[r]]]) = Total(h)
  <2> HIDE DEF g, h, New
  <2>1. QED
    BY <1>1, <1>4, <1>5, TotalReindex
<1>7. [r \in Paired(o) |-> h[g[r]]] = [r \in Paired(o) |-> f[PairOf(o, r)]]
  OBVIOUS
<1>8. QED
  BY <1>3, <1>4, <1>6, <1>7

\* The new allocations take together what the incoming order is filled with.
LEMMA FilledTotal ==
    ASSUME TypeOK, NEW o \in DOMAIN order, PlaceCommit(o)
    PROVE  /\ [r \in Paired(o) |-> PlanOf(o)[r]] \in AmountsOver(Paired(o))
           /\ Total([r \in Paired(o) |-> PlanOf(o)[r]]) = FilledOf(o)
<1> DEFINE f == [r \in Paired(o) |-> PlanOf(o)[r]]
<1>1. IsBook(Book(o), Len(order)) /\ DOMAIN Book(o) = Resting(o)
  BY RestingBook
<1>2. order[o].unmatched \in Nat
  BY OrdersInRows
<1>3. PlanOf(o) \in AmountsOver(Resting(o)) /\ Total(PlanOf(o)) = FilledOf(o)
  BY <1>1, <1>2, FifoBounds, FifoSum DEF PlanOf, FilledOf
<1>4. Paired(o) \subseteq Resting(o) /\ f \in AmountsOver(Paired(o))
  BY <1>3 DEF Paired, AmountsOver
<1>5. \A r \in Resting(o) : PlanOf(o)[r] = IF r \in Paired(o) THEN f[r] ELSE 0
  BY <1>3 DEF Paired, AmountsOver
<1>6. PlanOf(o) = [r \in Resting(o) |-> IF r \in Paired(o) THEN f[r] ELSE 0]
  <2>1. PlanOf(o) = [r \in Resting(o) |-> PlanOf(o)[r]]
    BY <1>3 DEF AmountsOver
  <2> HIDE DEF f
  <2>2. QED
    BY <1>5, <2>1
<1> HIDE DEF f
<1>7. Total([r \in Resting(o) |-> IF r \in Paired(o) THEN f[r] ELSE 0]) = Total(f)
  BY <1>4, TotalPad
<1> QED
  BY <1>3, <1>4, <1>6, <1>7 DEF f

LEMMA PairedOnceStep ==
    ASSUME CleanInv, PairedOnce, [Next]_vars
    PROVE  PairedOnce'
<1>1. ASSUME NEW o \in DOMAIN order, PlaceCommit(o) PROVE PairedOnce'
  BY <1>1, NewRows DEF CleanInv, PairedOnce
<1>2. ASSUME NEW k \in {"SETTLED", "VOIDED"}, alloc' = FinalizedAllocations(k)
      PROVE  PairedOnce'
  BY <1>2, FinishedRows DEF CleanInv, PairedOnce
<1>3. CASE UNCHANGED alloc
  BY <1>3 DEF PairedOnce
<1>4. CASE ~Placement
  <2>1. MoneyMoves
    BY <1>4, QuietMoney DEF CleanInv
  <2>2. \/ UNCHANGED alloc
        \/ alloc' = FinalizedAllocations("SETTLED")
        \/ alloc' = FinalizedAllocations("VOIDED")
    BY <2>1 DEF MoneyMoves, Unpaid, SettleCommit, VoidCommit
  <2>3. QED
    BY <1>2, <1>3, <2>2
<1>5. QED
  BY <1>1, <1>4 DEF Placement

-----------------------------------------------------------------------------
(* The escrow *)

\* What the escrow holds for each allocation.
Held == [x \in alloc |-> IF x.status = "ACTIVE" THEN 2 * x.amount ELSE 0]

EscrowInv == escrow = Total(Held)

LEMMA HeldTotal ==
    ASSUME TypeOK
    PROVE  /\ Held \in AmountsOver(alloc) /\ Total(Held) \in Nat
           /\ Total([x \in Active |-> 2 * x.amount]) = Total(Held)
<1> DEFINE f == [x \in Active |-> 2 * x.amount]
<1>1. IsFiniteSet(alloc) /\ Active \subseteq alloc /\ \A x \in alloc : x.amount \in Nat
  BY AllocationRows
<1>2. Held \in AmountsOver(alloc) /\ f \in AmountsOver(Active)
  BY <1>1 DEF Held, AmountsOver
<1>3. [x \in alloc |-> IF x \in Active THEN f[x] ELSE 0] = Held
  BY DEF Active, Held
<1>4. Total(f) = Total(Held)
  <2> HIDE DEF f
  <2>1. QED
    BY <1>1, <1>2, <1>3, TotalPad
<1>5. QED
  BY <1>1, <1>2, <1>4, TotalType

\* No active allocation is left by a settlement or a void.
LEMMA NothingHeld ==
    ASSUME TypeOK, NEW k \in {"SETTLED", "VOIDED"}, alloc' = FinalizedAllocations(k)
    PROVE  Total(Held') = 0
<1>1. \A y \in alloc' : y.status # "ACTIVE"
  BY FinishedRows
<1>2. Held' \in AmountsOver(alloc') /\ \A y \in alloc' : Held'[y] = 0
  BY <1>1 DEF Held, AmountsOver
<1>3. QED
  BY <1>2, TotalZero

\* What settlement pays for an allocation is what the escrow holds for it.
LEMMA PaidOutIsHeld ==
    ASSUME TypeOK
    PROVE  PaidOut = Total(Held)
<1>1. \A x \in Active : x.amount \in Nat
  BY AllocationRows
<1>2. \A x \in Active : WinnerReturn(x.amount) + Commission(x.amount) = 2 * x.amount
  BY <1>1, CommissionType
<1>3. [x \in Active |-> WinnerReturn(x.amount) + Commission(x.amount)]
        = [x \in Active |-> 2 * x.amount]
  BY <1>2
<1>4. QED
  BY <1>3, HeldTotal DEF PaidOut

LEMMA EscrowPlace ==
    ASSUME CleanInv, EscrowInv, NEW o \in DOMAIN order, PlaceCommit(o)
    PROVE  EscrowInv'
<1> DEFINE f == [r \in Paired(o) |-> PlanOf(o)[r]]
           h == [r \in Paired(o) |-> Held'[PairOf(o, r)]]
<1>1. /\ alloc' = alloc \cup {PairOf(o, r) : r \in Paired(o)}
      /\ \A r : PairOf(o, r).amount = PlanOf(o)[r] /\ PairOf(o, r).status = "ACTIVE"
      /\ IsFiniteSet(Paired(o)) /\ \A r \in Paired(o) : PlanOf(o)[r] \in Nat
  BY NewRows DEF CleanInv
<1>2. \A x \in alloc' : x.amount \in Nat
  BY <1>1, AllocationRows DEF CleanInv
<1>3. Held' \in AmountsOver(alloc')
  BY <1>2 DEF Held, AmountsOver
<1>4. Total(Held') = Total([x \in alloc |-> Held'[x]]) + Total(h)
      /\ h \in AmountsOver(Paired(o))
  BY <1>3, GrownTotal DEF CleanInv
<1>5. [x \in alloc |-> Held'[x]] = Held
  BY <1>1 DEF Held
<1>6. \A r \in Paired(o) : h[r] = f[r] + f[r]
  <2>1. ASSUME NEW r \in Paired(o) PROVE Held'[PairOf(o, r)] = 2 * PlanOf(o)[r]
    BY <1>1 DEF Held
  <2>2. QED
    BY <1>1, <2>1
<1>7. f \in AmountsOver(Paired(o)) /\ Total(f) = FilledOf(o)
  BY FilledTotal DEF CleanInv
<1> HIDE DEF f, h
<1>8. Total(h) = Total(f) + Total(f)
  BY <1>1, <1>4, <1>6, <1>7, TotalSum
<1>9. escrow' = escrow + 2 * FilledOf(o) /\ FilledOf(o) \in Nat
  BY PlaceMoney, PlaceStep DEF CleanInv
<1>10. Total(Held) \in Nat /\ escrow = Total(Held)
  BY HeldTotal DEF CleanInv, EscrowInv
<1>11. Total(Held') = escrow + (FilledOf(o) + FilledOf(o))
  BY <1>4, <1>5, <1>7, <1>8, <1>10
<1>12. QED
  BY <1>9, <1>10, <1>11 DEF EscrowInv

LEMMA EscrowStep ==
    ASSUME CleanInv, EscrowInv, [Next]_vars
    PROVE  EscrowInv'
<1>1. TypeOK
  BY DEF CleanInv
<1>2. ASSUME NEW w \in Workers, SettleCommit(w) PROVE EscrowInv'
  <2>1. escrow' = escrow - PaidOut /\ alloc' = FinalizedAllocations("SETTLED")
    BY <1>2 DEF SettleCommit
  <2>2. PaidOut = escrow /\ escrow \in Nat
    BY <1>1, PaidOutIsHeld, HeldTotal DEF EscrowInv
  <2>3. Total(Held') = 0
    BY <1>1, <2>1, NothingHeld
  <2>4. QED
    BY <2>1, <2>2, <2>3 DEF EscrowInv
<1>3. ASSUME NEW w \in Workers, VoidCommit(w) PROVE EscrowInv'
  <2>1. /\ escrow' = escrow - Total([x \in Active |-> 2 * x.amount])
        /\ alloc' = FinalizedAllocations("VOIDED")
    BY <1>3 DEF VoidCommit
  <2>2. Total([x \in Active |-> 2 * x.amount]) = escrow /\ escrow \in Nat
    BY <1>1, HeldTotal DEF EscrowInv
  <2>3. Total(Held') = 0
    BY <1>1, <2>1, NothingHeld
  <2>4. QED
    BY <2>1, <2>2, <2>3 DEF EscrowInv
<1>4. CASE UNCHANGED <<alloc, escrow>>
  BY <1>4 DEF EscrowInv, Held
<1>5. CASE ~Placement
  BY <1>1, <1>2, <1>3, <1>4, <1>5, QuietMoney DEF MoneyMoves, Unpaid
<1>6. QED
  BY <1>5, EscrowPlace DEF Placement

-----------------------------------------------------------------------------
(* The stakes of the orders *)

\* What each allocation has matched of order o.
Shares(o) == [x \in alloc |-> IF o \in {x.a, x.b} THEN x.amount ELSE 0]

AccountInv ==
    \A o \in DOMAIN order : Stored(o) =>
        /\ order[o].requested =
               order[o].matched + order[o].unmatched + order[o].released
        /\ order[o].matched = Total(Shares(o))

LEMMA SharesTotal ==
    ASSUME TypeOK, NEW o
    PROVE  /\ Shares(o) \in AmountsOver(alloc) /\ Total(Shares(o)) \in Nat
           /\ Total([x \in Sides(o) |-> x.amount]) = Total(Shares(o))
<1> DEFINE f == [x \in Sides(o) |-> x.amount]
<1>1. IsFiniteSet(alloc) /\ Sides(o) \subseteq alloc /\ \A x \in alloc : x.amount \in Nat
  BY AllocationRows DEF Sides
<1>2. Shares(o) \in AmountsOver(alloc) /\ f \in AmountsOver(Sides(o))
  BY <1>1 DEF Shares, AmountsOver
<1>3. [x \in alloc |-> IF x \in Sides(o) THEN f[x] ELSE 0] = Shares(o)
  BY DEF Sides, Shares
<1>4. Total(f) = Total(Shares(o))
  <2> HIDE DEF f
  <2>1. QED
    BY <1>1, <1>2, <1>3, TotalPad
<1>5. QED
  BY <1>1, <1>2, <1>4, TotalType

LEMMA SharesNext ==
    ASSUME TypeOK', NEW o
    PROVE  Shares(o)' \in AmountsOver(alloc')
<1>1. \A x \in alloc' : x.amount \in Nat
  BY DEF TypeOK, Allocation
<1>2. QED
  BY <1>1 DEF Shares, AmountsOver

\* Settlement and voiding change the status of the allocations, not what they
\* have matched.
LEMMA SharesQuiet ==
    ASSUME TypeOK, TypeOK', PairedOnce, NEW o,
           \/ UNCHANGED alloc
           \/ \E k \in {"SETTLED", "VOIDED"} : alloc' = FinalizedAllocations(k)
    PROVE  Total(Shares(o)') = Total(Shares(o))
<1>1. ASSUME NEW k \in {"SETTLED", "VOIDED"}, alloc' = FinalizedAllocations(k)
      PROVE  Total(Shares(o)') = Total(Shares(o))
  <2>1. Total(Shares(o)') = Total([x \in alloc |-> Shares(o)'[Finish(x, k)]])
    BY <1>1, SharesNext, FinishedTotal
  <2>2. \A x \in alloc : /\ Finish(x, k) \in alloc'
                         /\ Finish(x, k).a = x.a /\ Finish(x, k).b = x.b
                         /\ Finish(x, k).amount = x.amount
    BY <1>1, FinishedRows
  <2>3. \A x \in alloc : Shares(o)'[Finish(x, k)] = Shares(o)[x]
    BY <2>2 DEF Shares
  <2>4. [x \in alloc |-> Shares(o)'[Finish(x, k)]] = Shares(o)
    BY <2>3 DEF Shares
  <2>5. QED
    BY <2>1, <2>4
<1>2. CASE UNCHANGED alloc
  BY <1>2 DEF Shares
<1>3. QED
  BY <1>1, <1>2

\* The allocations in a step that is not the commit of a placement.
LEMMA QuietRows ==
    ASSUME TypeOK, [Next]_vars, ~Placement
    PROVE  \/ UNCHANGED alloc
           \/ \E k \in {"SETTLED", "VOIDED"} : alloc' = FinalizedAllocations(k)
  BY QuietMoney DEF MoneyMoves, Unpaid, SettleCommit, VoidCommit

LEMMA AccountQuiet ==
    ASSUME TypeOK, PairedOnce, AccountInv, [Next]_vars, ~Placement
    PROVE  AccountInv'
<1>1. TypeOK' /\ QuietOrders
  BY NextType, QuietStep
<1>2. ASSUME NEW o \in DOMAIN order', Stored(o)'
      PROVE  /\ order'[o].requested =
                    order'[o].matched + order'[o].unmatched + order'[o].released
             /\ order'[o].matched = Total(Shares(o)')
  <2>1. o \in DOMAIN order /\ Stored(o) /\ QuietOrder(o)
    BY <1>1, <1>2 DEF QuietOrders, QuietOrder, Stored
  <2>2. /\ order'[o].requested = order[o].requested
        /\ order'[o].matched = order[o].matched
        /\ order'[o].unmatched + order'[o].released = order[o].unmatched + order[o].released
    BY <2>1 DEF QuietOrder
  <2>3. /\ order[o].matched \in Nat /\ order[o].unmatched \in Nat /\ order[o].released \in Nat
        /\ order'[o].unmatched \in Nat /\ order'[o].released \in Nat
    <3>1. order'[o] \in BetOrder
      BY <1>1, <1>2 DEF TypeOK
    <3>2. QED
      BY <2>1, <3>1, OrdersInRows DEF BetOrder
  <2>4. Total(Shares(o)') = Total(Shares(o))
    BY <1>1, QuietRows, SharesQuiet
  <2>5. /\ order[o].requested =
               order[o].matched + order[o].unmatched + order[o].released
        /\ order[o].matched = Total(Shares(o))
    BY <2>1 DEF AccountInv
  <2>6. QED
    BY <2>2, <2>3, <2>4, <2>5
<1>3. QED
  BY <1>2 DEF AccountInv

\* What the placement of o adds to the shares of order k.
LEMMA SharesPlace ==
    ASSUME CleanInv, NEW o \in DOMAIN order, PlaceCommit(o), NEW k
    PROVE  /\ k # o => Total(Shares(k)') = Total(Shares(k))
                          + Total([r \in Paired(o) |-> IF r = k THEN PlanOf(o)[r] ELSE 0])
           /\ Total(Shares(o)') = FilledOf(o)
<1>1. /\ \A x \in alloc : x.a # o /\ x.b # o /\ x \in alloc'
      /\ \A r \in Paired(o) : PairOf(o, r) \in alloc'
      /\ \A r : /\ PairOf(o, r).a = o /\ PairOf(o, r).b = r
                /\ PairOf(o, r).amount = PlanOf(o)[r]
  BY NewRows DEF CleanInv
<1>2. TypeOK'
  BY NextType DEF CleanInv, Next, Bettor
<1>3. ASSUME NEW j
      PROVE  /\ Total(Shares(j)')
                   = Total([x \in alloc |-> Shares(j)'[x]])
                       + Total([r \in Paired(o) |-> Shares(j)'[PairOf(o, r)]])
             /\ [x \in alloc |-> Shares(j)'[x]] = Shares(j)
             /\ \A r \in Paired(o) : Shares(j)'[PairOf(o, r)]
                                        = IF j \in {o, r} THEN PlanOf(o)[r] ELSE 0
  <2>1. Total(Shares(j)') = Total([x \in alloc |-> Shares(j)'[x]])
                              + Total([r \in Paired(o) |-> Shares(j)'[PairOf(o, r)]])
    BY <1>2, SharesNext, GrownTotal DEF CleanInv
  <2>2. [x \in alloc |-> Shares(j)'[x]] = Shares(j)
    BY <1>1 DEF Shares
  <2>3. \A r \in Paired(o) : Shares(j)'[PairOf(o, r)]
                                = IF j \in {o, r} THEN PlanOf(o)[r] ELSE 0
    BY <1>1 DEF Shares
  <2>4. QED
    BY <2>1, <2>2, <2>3
<1>4. ASSUME k # o
      PROVE  Total(Shares(k)') = Total(Shares(k))
                + Total([r \in Paired(o) |-> IF r = k THEN PlanOf(o)[r] ELSE 0])
  <2>1. \A r \in Paired(o) : Shares(k)'[PairOf(o, r)] = IF r = k THEN PlanOf(o)[r] ELSE 0
    BY <1>3, <1>4
  <2>2. [r \in Paired(o) |-> Shares(k)'[PairOf(o, r)]]
          = [r \in Paired(o) |-> IF r = k THEN PlanOf(o)[r] ELSE 0]
    BY <2>1
  <2>3. QED
    BY <1>3, <2>2
<1>5. Total(Shares(o)') = FilledOf(o)
  <2>1. [r \in Paired(o) |-> Shares(o)'[PairOf(o, r)]] = [r \in Paired(o) |-> PlanOf(o)[r]]
    BY <1>3
  <2>2. Shares(o) \in AmountsOver(alloc) /\ \A x \in alloc : Shares(o)[x] = 0
    BY <1>1, SharesTotal DEF CleanInv, Shares
  <2>3. Total(Shares(o)) = 0
    BY <2>2, TotalZero
  <2>4. Total([r \in Paired(o) |-> PlanOf(o)[r]]) = FilledOf(o) /\ FilledOf(o) \in Nat
    BY FilledTotal, PlaceStep DEF CleanInv
  <2>5. Total(Shares(o)') = Total(Shares(o))
                              + Total([r \in Paired(o) |-> PlanOf(o)[r]])
    <3>1. /\ Total(Shares(o)')
               = Total([x \in alloc |-> Shares(o)'[x]])
                   + Total([r \in Paired(o) |-> Shares(o)'[PairOf(o, r)]])
          /\ [x \in alloc |-> Shares(o)'[x]] = Shares(o)
      BY <1>3
    <3>2. QED
      BY <2>1, <3>1, Zenon
  <2>6. QED
    BY <2>3, <2>4, <2>5
<1>6. QED
  BY <1>4, <1>5

LEMMA AccountPlace ==
    ASSUME CleanInv, PlacingWhole, AccountInv, NEW o \in DOMAIN order, PlaceCommit(o)
    PROVE  AccountInv'
<1>1. /\ DOMAIN order' = DOMAIN order
      /\ ~Stored(o) /\ order[o].status = "PLACING"
      /\ Paired(o) \subseteq Resting(o) /\ Resting(o) \subseteq OpenOrders
      /\ OpenOrders \subseteq DOMAIN order
      /\ FilledOf(o) \in Nat /\ FilledOf(o) =< order[o].unmatched
      /\ \A r \in Paired(o) : PlanOf(o)[r] \in Nat
      /\ FilledBy(o, FilledOf(o))
      /\ \A r \in Paired(o) : FilledBy(r, PlanOf(o)[r])
      /\ \A k \in DOMAIN order : k # o /\ k \notin Paired(o) => order'[k] = order[k]
  BY PlaceStep DEF CleanInv
<1>2. /\ \A k \in DOMAIN order : /\ order[k].matched \in Nat /\ order[k].unmatched \in Nat
                                 /\ order[k].released \in Nat
      /\ \A k : Total(Shares(k)) \in Nat
  BY OrdersInRows, SharesTotal DEF CleanInv
<1>3. ASSUME NEW k \in DOMAIN order', Stored(k)'
      PROVE  /\ order'[k].requested =
                    order'[k].matched + order'[k].unmatched + order'[k].released
             /\ order'[k].matched = Total(Shares(k)')
  <2>1. CASE k = o
    <3>1. Total(Shares(o)') = FilledOf(o)
      BY SharesPlace
    <3>2. QED
      BY <1>1, <1>2, <2>1, <3>1 DEF PlacingWhole, FilledBy
  <2>2. CASE k \in Paired(o)
    <3>1. k \in DOMAIN order /\ k # o /\ Stored(k)
      BY <1>1, <2>2 DEF OpenOrders, Stored, Resting
    <3>2. /\ order[k].requested =
                 order[k].matched + order[k].unmatched + order[k].released
          /\ order[k].matched = Total(Shares(k))
      BY <3>1 DEF AccountInv
    <3>3. [r \in Paired(o) |-> IF r = k THEN PlanOf(o)[r] ELSE 0]
            = [r \in Paired(o) |-> IF r = k THEN PlanOf(o)[k] ELSE 0]
      OBVIOUS
    <3>4. Total([r \in Paired(o) |-> IF r = k THEN PlanOf(o)[k] ELSE 0]) = PlanOf(o)[k]
      BY <1>1, <2>2, TotalOne
    <3>5. Total(Shares(k)') = Total(Shares(k)) + PlanOf(o)[k]
      BY <3>1, <3>3, <3>4, SharesPlace
    <3>6. QED
      BY <1>1, <1>2, <2>2, <3>1, <3>2, <3>5 DEF FilledBy
  <2>3. CASE k # o /\ k \notin Paired(o)
    <3>1. k \in DOMAIN order /\ order'[k] = order[k] /\ Stored(k)
      BY <1>1, <1>3, <2>3 DEF Stored
    <3> DEFINE f == [r \in Paired(o) |-> IF r = k THEN PlanOf(o)[r] ELSE 0]
    <3>2. f \in AmountsOver(Paired(o)) /\ \A r \in Paired(o) : f[r] = 0
      BY <2>3 DEF AmountsOver
    <3>3. Total(f) = 0
      BY <3>2, TotalZero
    <3>4. Total(Shares(k)') = Total(Shares(k)) + 0
      BY <2>3, <3>3, SharesPlace
    <3> HIDE DEF f
    <3>5. QED
      BY <1>2, <3>1, <3>4 DEF AccountInv
  <2>4. QED
    BY <2>1, <2>2, <2>3
<1>4. QED
  BY <1>3 DEF AccountInv

LEMMA AccountStep ==
    ASSUME CleanInv, PlacingWhole, PairedOnce, AccountInv, [Next]_vars
    PROVE  AccountInv'
<1>1. CASE ~Placement
  BY <1>1, AccountQuiet DEF CleanInv
<1>2. QED
  BY <1>1, AccountPlace DEF Placement

-----------------------------------------------------------------------------
(* All the money there is *)

LEMMA LockedAmounts ==
    ASSUME TypeOK, LockedInv
    PROVE  locked \in AmountsOver(Users)
<1>1. \A u \in Users : locked[u] \in Nat
  BY WaitsTotal DEF LockedInv
<1>2. QED
  BY <1>1 DEF TypeOK, AmountsOver

LEMMA LockedAmountsNext ==
    ASSUME TypeOK', LockedInv'
    PROVE  locked' \in AmountsOver(Users)
<1>1. \A u \in Users : locked'[u] \in Nat
  BY WaitsNext DEF LockedInv
<1>2. QED
  BY <1>1 DEF TypeOK, AmountsOver

LEMMA UsersFinite == IsFiniteSet(Users) /\ Funding \in AmountsOver(Users)
  BY ExchangeAssumption DEF AmountsOver

\* Amounts of the active allocations, shared out among the users.
LEMMA ActiveGroup ==
    ASSUME TypeOK, NEW f \in AmountsOver(Active), NEW g \in [Active -> Users]
    PROVE  /\ [u \in Users |-> Total([x \in {y \in Active : g[y] = u} |-> f[x]])]
                \in AmountsOver(Users)
           /\ Total([u \in Users |-> Total([x \in {y \in Active : g[y] = u} |-> f[x]])])
                = Total(f)
<1>1. IsFiniteSet(Active) /\ IsFiniteSet(Users)
  BY AllocationRows, UsersFinite
<1>2. QED
  BY <1>1, TotalGroup

\* Every active allocation pays its return to one user, who won it.
LEMMA WonSum ==
    ASSUME CleanInv, \A x \in Active : WinningSides(x) # {}
    PROVE  /\ [u \in Users |-> WonTotal(u)] \in AmountsOver(Users)
           /\ [x \in Active |-> WinnerReturn(x.amount)] \in AmountsOver(Active)
           /\ Total([u \in Users |-> WonTotal(u)])
                = Total([x \in Active |-> WinnerReturn(x.amount)])
<1> DEFINE f == [x \in Active |-> WinnerReturn(x.amount)]
           win(x) == CHOOSE o \in WinningSides(x) : TRUE
           g == [x \in Active |-> order[win(x)].user]
           Won(u) == {y \in Active : WonBy(u, y)}
<1>1. /\ IsFiniteSet(Active) /\ Active \subseteq alloc
      /\ \A x \in Active : /\ x.amount \in Nat
                           /\ x.a \in DOMAIN order /\ x.b \in DOMAIN order
                           /\ order[x.a].outcome # order[x.b].outcome
  BY AllocationRows, FS_Subset DEF CleanInv, CleanCounterparties, Active
<1>2. f \in AmountsOver(Active)
  BY <1>1, CommissionType DEF AmountsOver
<1>3. ASSUME NEW x \in Active
      PROVE  /\ win(x) \in WinningSides(x) /\ win(x) \in DOMAIN order
             /\ \A o \in WinningSides(x) : o = win(x)
  <2>1. WinningSides(x) # {}
    BY <1>3
  <2>2. win(x) \in WinningSides(x)
    BY <2>1
  <2> HIDE DEF win
  <2>3. \A o, p \in WinningSides(x) : o = p
    BY <1>1 DEF WinningSides
  <2>4. QED
    BY <1>1, <2>2, <2>3 DEF WinningSides
<1>4. g \in [Active -> Users]
  <2> HIDE DEF win
  <2>1. \A x \in Active : order[win(x)].user \in Users
    BY <1>3, OrdersInRows DEF CleanInv
  <2>2. QED
    BY <2>1
<1>5. ASSUME NEW u PROVE {y \in Active : g[y] = u} = Won(u)
  <2> HIDE DEF win
  <2>1. \A y \in Active : g[y] = u <=> WonBy(u, y)
    BY <1>3 DEF WonBy
  <2>2. QED
    BY <2>1
<1>6. /\ [u \in Users |-> Total([x \in {y \in Active : g[y] = u} |-> f[x]])]
           \in AmountsOver(Users)
      /\ Total([u \in Users |-> Total([x \in {y \in Active : g[y] = u} |-> f[x]])])
           = Total(f)
  <2> HIDE DEF f, g
  <2>1. QED
    BY <1>1, <1>2, <1>4, UsersFinite, TotalGroup
<1>7. ASSUME NEW u \in Users
      PROVE  Total([x \in {y \in Active : g[y] = u} |-> f[x]]) = WonTotal(u)
  <2>1. [x \in Won(u) |-> f[x]] = [x \in Won(u) |-> WinnerReturn(x.amount)]
    OBVIOUS
  <2>2. QED
    BY <1>5, <2>1 DEF WonTotal
<1>8. [u \in Users |-> Total([x \in {y \in Active : g[y] = u} |-> f[x]])]
        = [u \in Users |-> WonTotal(u)]
  <2> HIDE DEF f, g
  <2>1. QED
    BY <1>7
<1>9. QED
  BY <1>2, <1>6, <1>8

\* What settlement takes from the escrow is what the winners get and the fees.
LEMMA PaidOutSum ==
    ASSUME CleanInv, \A x \in Active : WinningSides(x) # {}
    PROVE  /\ PaidOut = Total([u \in Users |-> WonTotal(u)]) + Fees
           /\ Fees \in Nat /\ Total([u \in Users |-> WonTotal(u)]) \in Nat
<1> DEFINE w == [x \in Active |-> WinnerReturn(x.amount)]
           c == [x \in Active |-> Commission(x.amount)]
           p == [x \in Active |-> WinnerReturn(x.amount) + Commission(x.amount)]
<1>1. IsFiniteSet(Active) /\ \A x \in Active : x.amount \in Nat
  BY AllocationRows, FS_Subset DEF CleanInv, Active
<1>2. \A x \in Active : WinnerReturn(x.amount) \in Nat /\ Commission(x.amount) \in Nat
  BY <1>1, CommissionType
<1>3. w \in AmountsOver(Active) /\ c \in AmountsOver(Active) /\ p \in AmountsOver(Active)
  BY <1>2 DEF AmountsOver
<1>4. \A x \in Active : p[x] = w[x] + c[x]
  OBVIOUS
<1>5. Total(p) = Total(w) + Total(c) /\ Total(w) \in Nat /\ Total(c) \in Nat
  <2> HIDE DEF p, w, c
  <2>1. QED
    BY <1>1, <1>3, <1>4, TotalSum, TotalType
<1>6. QED
  BY <1>5, WonSum DEF PaidOut, Fees

\* Voiding pays every active allocation back to its two users.
LEMMA RefundSum ==
    ASSUME CleanInv
    PROVE  /\ [u \in Users |-> RefundTotal(u)] \in AmountsOver(Users)
           /\ Total([u \in Users |-> RefundTotal(u)])
                = Total([x \in Active |-> 2 * x.amount])
<1> DEFINE f == [x \in Active |-> x.amount]
           d == [x \in Active |-> 2 * x.amount]
           ga == [x \in Active |-> order[x.a].user]
           gb == [x \in Active |-> order[x.b].user]
           A(u) == {y \in Active : ga[y] = u}
           B(u) == {y \in Active : gb[y] = u}
           sa == [u \in Users |-> Total([x \in {y \in Active : ga[y] = u} |-> f[x]])]
           sb == [u \in Users |-> Total([x \in {y \in Active : gb[y] = u} |-> f[x]])]
<1>1. /\ IsFiniteSet(Active) /\ Active \subseteq alloc
      /\ \A x \in Active : /\ x.amount \in Nat
                           /\ order[x.a].user \in Users /\ order[x.b].user \in Users
                           /\ order[x.a].user # order[x.b].user
  BY AllocationRows, OrdersInRows, FS_Subset DEF CleanInv, CleanCounterparties, Active
<1>2. f \in AmountsOver(Active) /\ d \in AmountsOver(Active)
      /\ \A x \in Active : d[x] = f[x] + f[x]
  BY <1>1 DEF AmountsOver
<1>3. ga \in [Active -> Users] /\ gb \in [Active -> Users]
  BY <1>1
<1>4. /\ sa \in AmountsOver(Users) /\ Total(sa) = Total(f)
      /\ sb \in AmountsOver(Users) /\ Total(sb) = Total(f)
  <2>0. f \in AmountsOver(Active) /\ TypeOK
    BY <1>2 DEF CleanInv
  <2> HIDE DEF f, ga, gb
  <2>1. sa \in AmountsOver(Users) /\ Total(sa) = Total(f)
    BY <2>0, <1>3, ActiveGroup
  <2>2. sb \in AmountsOver(Users) /\ Total(sb) = Total(f)
    BY <2>0, <1>3, ActiveGroup
  <2> HIDE DEF sa, sb
  <2>3. QED
    BY <2>1, <2>2
<1>5. ASSUME NEW u \in Users PROVE RefundTotal(u) = sa[u] + sb[u]
  <2> DEFINE P == {y \in Active : u \in Parties(y)}
             h == [x \in P |-> x.amount]
  <2>1. P = A(u) \cup B(u) /\ A(u) \cap B(u) = {}
    BY <1>1 DEF Parties
  <2>2. IsFiniteSet(P) /\ h \in AmountsOver(P)
    BY <1>1, FS_Subset DEF AmountsOver
  <2>3. /\ [x \in A(u) |-> h[x]] = [x \in A(u) |-> f[x]]
        /\ [x \in B(u) |-> h[x]] = [x \in B(u) |-> f[x]]
    BY <2>1
  <2>4. Total(h) = Total([x \in A(u) |-> h[x]]) + Total([x \in B(u) |-> h[x]])
    <3> HIDE DEF P, h, A, B
    <3>1. QED
      BY <2>1, <2>2, TotalSplit
  <2>5. sa[u] = Total([x \in A(u) |-> f[x]]) /\ sb[u] = Total([x \in B(u) |-> f[x]])
    OBVIOUS
  <2>6. RefundTotal(u) = Total(h)
    BY DEF RefundTotal
  <2> HIDE DEF h, P, A, B, f, sa, sb
  <2>7. QED
    BY <2>3, <2>4, <2>5, <2>6
<1>6. \A u \in Users : sa[u] \in Nat /\ sb[u] \in Nat
  BY <1>4 DEF AmountsOver
<1> DEFINE r == [u \in Users |-> RefundTotal(u)]
<1> HIDE DEF sa, sb, f, d
<1>7. r \in AmountsOver(Users) /\ \A u \in Users : r[u] = sa[u] + sb[u]
  BY <1>5, <1>6 DEF AmountsOver
<1> HIDE DEF r
<1>8. Total(r) = Total(f) + Total(f)
  BY <1>4, <1>7, UsersFinite, TotalSum
<1>9. Total(d) = Total(f) + Total(f)
  BY <1>1, <1>2, TotalSum
<1>10. QED
  BY <1>7, <1>8, <1>9 DEF r, d

LEMMA BalanceTypes ==
    ASSUME TypeOK, TypeOK', LockedInv, LockedInv', EscrowInv
    PROVE  /\ available \in AmountsOver(Users) /\ available' \in AmountsOver(Users)
           /\ locked \in AmountsOver(Users) /\ locked' \in AmountsOver(Users)
           /\ Total(available) \in Nat /\ Total(available') \in Nat
           /\ Total(locked) \in Nat /\ Total(locked') \in Nat
           /\ escrow \in Nat /\ payable \in Nat
           /\ Total(Funding) \in Nat
<1>1. available \in AmountsOver(Users) /\ available' \in AmountsOver(Users)
  BY DEF TypeOK, AmountsOver
<1>2. locked \in AmountsOver(Users) /\ locked' \in AmountsOver(Users)
  BY LockedAmounts, LockedAmountsNext
<1>3. escrow \in Nat /\ payable \in Nat
  BY HeldTotal DEF EscrowInv, TypeOK
<1>4. QED
  BY <1>1, <1>2, <1>3, UsersFinite, TotalType

\* A step that pays no one but releases keeps what each user has.
LEMMA ConservationUnpaid ==
    ASSUME TypeOK, TypeOK', LockedInv, LockedInv', EscrowInv, Conservation,
           NEW R \in SUBSET OpenOrders, Freed(R), Unpaid(R)
    PROVE  Conservation'
<1>1. \A u \in Users : ReleasedTo(u, R) \in Nat /\ available[u] \in Int /\ locked[u] \in Int
  BY FreesTotal, OrdersInRows DEF TypeOK
<1>2. \A u \in Users : available[u] + locked[u] = available'[u] + locked'[u]
  BY <1>1 DEF Freed, Unpaid
<1>3. Total(available) + Total(locked) = Total(available') + Total(locked')
  BY <1>2, BalanceTypes, UsersFinite, TotalMoves
<1>4. escrow' = escrow /\ payable' = payable
  BY DEF Unpaid
<1>5. QED
  BY <1>3, <1>4, BalanceTypes DEF Conservation

\* What the escrow loses the users and the commission account gain.
LEMMA ConservationSettle ==
    ASSUME CleanInv, TypeOK', LockedInv, LockedInv', EscrowInv, Conservation,
           Freed(OpenOrders), NEW w \in Workers, SettleCommit(w)
    PROVE  Conservation'
<1> DEFINE won == [u \in Users |-> WonTotal(u)]
<1>1. /\ \A x \in Active : WinningSides(x) # {}
      /\ available' = [u \in Users |->
                          available[u] + ReleasedTo(u, OpenOrders) + WonTotal(u)]
      /\ escrow' = escrow - PaidOut /\ payable' = payable + Fees
  BY DEF SettleCommit
<1>2. won \in AmountsOver(Users)
  BY <1>1, WonSum
<1>3. \A u \in Users : /\ ReleasedTo(u, OpenOrders) \in Nat
                       /\ available[u] \in Int /\ locked[u] \in Int /\ won[u] \in Nat
  BY <1>2, FreesTotal, OrdersInRows DEF CleanInv, TypeOK, AmountsOver
<1>4. \A u \in Users : available'[u] + locked'[u] = available[u] + locked[u] + won[u]
  BY <1>1, <1>3 DEF Freed
<1>5. PaidOut = Total(won) + Fees /\ Fees \in Nat /\ Total(won) \in Nat
  BY <1>1, PaidOutSum
<1> HIDE DEF won
<1>6. Total(available') + Total(locked') = Total(available) + Total(locked) + Total(won)
  BY <1>2, <1>4, BalanceTypes, UsersFinite, TotalPays DEF CleanInv
<1>7. /\ Total(available) \in Nat /\ Total(locked) \in Nat
      /\ Total(available') \in Nat /\ Total(locked') \in Nat
      /\ escrow \in Nat /\ payable \in Nat
  BY BalanceTypes DEF CleanInv
<1>8. Total(available) + Total(locked) + escrow + payable = Total(Funding)
  BY DEF Conservation
<1>9. escrow' + payable' = escrow + payable - Total(won)
  BY <1>1, <1>5, <1>7
<1>10. escrow' \in Int /\ payable' \in Int
  BY DEF TypeOK
<1>11. Total(available') + Total(locked') + escrow' + payable' = Total(Funding)
  BY <1>5, <1>6, <1>7, <1>8, <1>9, <1>10
<1>12. QED
  BY <1>11 DEF Conservation

LEMMA ConservationVoid ==
    ASSUME CleanInv, TypeOK', LockedInv, LockedInv', EscrowInv, Conservation,
           Freed(OpenOrders), NEW w \in Workers, VoidCommit(w)
    PROVE  Conservation'
<1> DEFINE back == [u \in Users |-> RefundTotal(u)]
<1>1. /\ available' = [u \in Users |->
                          available[u] + ReleasedTo(u, OpenOrders) + RefundTotal(u)]
      /\ escrow' = escrow - Total([x \in Active |-> 2 * x.amount])
      /\ payable' = payable
  BY DEF VoidCommit
<1>2. back \in AmountsOver(Users) /\ Total(back) = Total([x \in Active |-> 2 * x.amount])
  BY RefundSum
<1>3. \A u \in Users : /\ ReleasedTo(u, OpenOrders) \in Nat
                       /\ available[u] \in Int /\ locked[u] \in Int /\ back[u] \in Nat
  BY <1>2, FreesTotal, OrdersInRows DEF CleanInv, TypeOK, AmountsOver
<1>4. \A u \in Users : available'[u] + locked'[u] = available[u] + locked[u] + back[u]
  BY <1>1, <1>3 DEF Freed
<1> HIDE DEF back
<1>5. Total(back) \in Nat /\ escrow' = escrow - Total(back)
  BY <1>1, <1>2, UsersFinite, TotalType
<1>6. Total(available') + Total(locked') = Total(available) + Total(locked) + Total(back)
  BY <1>2, <1>4, BalanceTypes, UsersFinite, TotalPays DEF CleanInv
<1>7. /\ Total(available) \in Nat /\ Total(locked) \in Nat
      /\ Total(available') \in Nat /\ Total(locked') \in Nat
      /\ escrow \in Nat /\ payable \in Nat
  BY BalanceTypes DEF CleanInv
<1>8. Total(available) + Total(locked) + escrow + payable = Total(Funding)
  BY DEF Conservation
<1>9. Total(available') + Total(locked') + escrow' + payable' = Total(Funding)
  BY <1>1, <1>5, <1>6, <1>7, <1>8
<1>10. QED
  BY <1>9 DEF Conservation

\* What a placement takes from each user for the escrow.
Given(o) == [u \in Users |-> IF u = order[o].user THEN FilledOf(o) ELSE TakenFrom(u, o)]

LEMMA GivenSum ==
    ASSUME CleanInv, NEW o \in DOMAIN order, PlaceCommit(o)
    PROVE  Given(o) \in AmountsOver(Users) /\ Total(Given(o)) = FilledOf(o) + FilledOf(o)
<1> DEFINE f == [r \in Paired(o) |-> PlanOf(o)[r]]
           g == [r \in Paired(o) |-> order[r].user]
           one == [u \in Users |-> IF u = order[o].user THEN FilledOf(o) ELSE 0]
           all == [u \in Users |-> TakenFrom(u, o)]
<1>1. /\ IsFiniteSet(Paired(o)) /\ Paired(o) \subseteq DOMAIN order
      /\ FilledOf(o) \in Nat /\ order[o].user \in Users
      /\ \A r \in Paired(o) : order[r].user # order[o].user
  BY NewRows, PlaceStep, OrdersInRows DEF CleanInv, Resting
<1>2. f \in AmountsOver(Paired(o)) /\ Total(f) = FilledOf(o)
  BY FilledTotal DEF CleanInv
<1>3. g \in [Paired(o) -> Users]
  BY <1>1, OrdersInRows DEF CleanInv
<1>4. /\ [u \in Users |-> Total([r \in {q \in Paired(o) : g[q] = u} |-> f[r]])]
           \in AmountsOver(Users)
      /\ Total([u \in Users |-> Total([r \in {q \in Paired(o) : g[q] = u} |-> f[r]])])
           = Total(f)
  <2> HIDE DEF f, g
  <2>1. QED
    BY <1>1, <1>2, <1>3, UsersFinite, TotalGroup
<1>5. [u \in Users |-> Total([r \in {q \in Paired(o) : g[q] = u} |-> f[r]])] = all
  <2>1. ASSUME NEW u \in Users
        PROVE  Total([r \in {q \in Paired(o) : g[q] = u} |-> f[r]]) = TakenFrom(u, o)
    <3>1. {q \in Paired(o) : g[q] = u} = {q \in Paired(o) : order[q].user = u}
      OBVIOUS
    <3>2. [r \in {q \in Paired(o) : order[q].user = u} |-> f[r]]
            = [r \in {q \in Paired(o) : order[q].user = u} |-> PlanOf(o)[r]]
      OBVIOUS
    <3>3. QED
      BY <3>1, <3>2 DEF TakenFrom
  <2> HIDE DEF f, g
  <2>2. QED
    BY <2>1
<1>6. all \in AmountsOver(Users) /\ Total(all) = FilledOf(o)
  BY <1>2, <1>4, <1>5
<1>7. one \in AmountsOver(Users) /\ Total(one) = FilledOf(o)
  BY <1>1, TotalOne DEF AmountsOver
<1>8. TakenFrom(order[o].user, o) = 0
  <2> DEFINE S == {q \in Paired(o) : order[q].user = order[o].user}
             h == [r \in S |-> PlanOf(o)[r]]
  <2>1. h \in AmountsOver(S) /\ \A r \in S : h[r] = 0
    BY <1>1 DEF AmountsOver
  <2>2. Total(h) = 0
    BY <2>1, TotalZero
  <2>3. QED
    BY <2>2 DEF TakenFrom
<1>9. \A u \in Users : Given(o)[u] = all[u] + one[u] /\ Given(o)[u] \in Nat
  <2>1. \A u \in Users : all[u] = TakenFrom(u, o) /\ all[u] \in Nat
    BY <1>6 DEF AmountsOver
  <2>2. QED
    BY <1>1, <1>8, <2>1 DEF Given
<1>10. Given(o) \in AmountsOver(Users)
  BY <1>9 DEF Given, AmountsOver
<1> HIDE DEF all, one
<1>11. Total(Given(o)) = Total(all) + Total(one)
  BY <1>6, <1>7, <1>9, <1>10, UsersFinite, TotalSum
<1>12. QED
  BY <1>6, <1>7, <1>10, <1>11

LEMMA ConservationPlace ==
    ASSUME CleanInv, TypeOK', LockedInv, LockedInv', EscrowInv, Conservation,
           NEW o \in DOMAIN order, PlaceCommit(o)
    PROVE  Conservation'
<1>1. /\ order[o].user \in Users /\ Stake(o) \in Nat
      /\ available' = [available EXCEPT ![order[o].user] = @ - Stake(o)]
      /\ locked' = [u \in Users |-> IF u = order[o].user
                                    THEN locked[u] + Stake(o) - FilledOf(o)
                                    ELSE locked[u] - TakenFrom(u, o)]
      /\ escrow' = escrow + 2 * FilledOf(o)
      /\ payable' = payable
  BY PlaceMoney DEF CleanInv
<1>2. /\ available \in [Users -> Nat]
      /\ \A u \in Users : /\ available[u] \in Int /\ locked[u] \in Int
                          /\ TakenFrom(u, o) \in Nat
      /\ FilledOf(o) \in Nat
  BY PlaceStep, TakesTotal DEF CleanInv, TypeOK
<1>3. ASSUME NEW u \in Users
      PROVE  available[u] + locked[u] = available'[u] + locked'[u] + Given(o)[u]
  <2>1. CASE u = order[o].user
    <3>1. /\ available'[u] = available[u] - Stake(o)
          /\ locked'[u] = locked[u] + Stake(o) - FilledOf(o) /\ Given(o)[u] = FilledOf(o)
      BY <1>1, <1>2, <2>1 DEF Given
    <3>2. QED
      BY <1>1, <1>2, <3>1
  <2>2. CASE u # order[o].user
    <3>1. /\ available'[u] = available[u]
          /\ locked'[u] = locked[u] - TakenFrom(u, o) /\ Given(o)[u] = TakenFrom(u, o)
      BY <1>1, <1>2, <2>2 DEF Given
    <3>2. QED
      BY <1>2, <3>1
  <2>3. QED
    BY <2>1, <2>2
<1>4. Total(available) + Total(locked)
        = Total(available') + Total(locked') + Total(Given(o))
  BY <1>3, GivenSum, BalanceTypes, UsersFinite, TotalPays DEF CleanInv
<1>5. Total(Given(o)) = FilledOf(o) + FilledOf(o)
  BY GivenSum
<1>6. /\ Total(available) \in Nat /\ Total(locked) \in Nat
      /\ Total(available') \in Nat /\ Total(locked') \in Nat
      /\ escrow \in Nat /\ payable \in Nat
  BY BalanceTypes DEF CleanInv
<1>7. Total(available) + Total(locked) + escrow + payable = Total(Funding)
  BY DEF Conservation
<1>8. Total(available') + Total(locked') + escrow' + payable' = Total(Funding)
  BY <1>1, <1>2, <1>4, <1>5, <1>6, <1>7
<1>9. QED
  BY <1>8 DEF Conservation

LEMMA ConservationStep ==
    ASSUME CleanInv, PlacingWhole, LockedInv, EscrowInv, Conservation, [Next]_vars
    PROVE  Conservation'
<1>1. TypeOK /\ TypeOK' /\ LockedInv'
  BY NextType, LockedStep DEF CleanInv
<1>2. CASE ~Placement
  <2>1. PICK R \in SUBSET OpenOrders :
           /\ Freed(R)
           /\ \/ Unpaid(R)
              \/ R = OpenOrders /\ \E w \in Workers : SettleCommit(w) \/ VoidCommit(w)
    BY <1>1, <1>2, QuietMoney DEF MoneyMoves
  <2>2. QED
    BY <1>1, <2>1, ConservationUnpaid, ConservationSettle, ConservationVoid
<1>3. QED
  BY <1>1, <1>2, ConservationPlace DEF Placement

-----------------------------------------------------------------------------
(* What explains a wallet *)

\* A confirmed result is final, settlement runs under one, and only settlement
\* settles allocations.
SettledKnown ==
    /\ \A x \in alloc : x.status = "SETTLED" => result.status = "CONFIRMED"
    /\ \A w \in Workers : tx[w].step = "settling" => result.status = "CONFIRMED"

LEMMA ResultKept ==
    ASSUME TypeOK, [Next]_vars
    PROVE  /\ result.status = "CONFIRMED" => result' = result
           /\ UNCHANGED result \/ UNCHANGED <<order, alloc, tx>>
<1>1. CASE Bettor \/ ClosingTimePasses \/ UNCHANGED vars
  BY <1>1 DEF Bettor, PlaceBegin, PlaceCommit, PlaceAbort, CancelOrder, ClosingTimePasses, vars
<1>2. CASE \E w \in Workers : Transition(w) \/ Settlement(w) \/ MarketTxAbort(w)
  BY <1>2 DEF Transition, Settlement, AdminTransition, SweepList, SweepTransition,
              TransitionUpdate, TransitionCommit, SettleBegin, SettleCommit,
              SettleVoidResult, VoidBegin, VoidCommit, MarketTxAbort
<1>3. CASE \E v \in Outcomes \cup {NoWinner} : ProposeResult(v)
  BY <1>3 DEF ProposeResult
<1>4. CASE ConfirmResult
  BY <1>4 DEF ConfirmResult
<1>5. QED
  BY <1>1, <1>2, <1>3, <1>4 DEF Next

LEMMA SettlingTx ==
    ASSUME TypeOK, [Next]_vars, NEW w \in Workers, tx'[w].step = "settling"
    PROVE  tx[w].step = "settling" \/ result.status = "CONFIRMED"
<1>0. tx \in [Workers -> MarketTx] /\ \A v \in Workers : tx[v] \in MarketTx
  BY DEF TypeOK
<1>1. CASE UNCHANGED tx
  BY <1>1
<1>2. ASSUME NEW v \in Workers, NEW t \in MarketTx, Begin(v, t),
             t.step # "settling" \/ result.status = "CONFIRMED"
      PROVE  tx[w].step = "settling" \/ result.status = "CONFIRMED"
  BY <1>0, <1>2 DEF Begin
<1>3. /\ Idle \in MarketTx /\ Idle.step = "idle"
      /\ \A k \in Step, m \in MarketStatus :
            /\ [Idle EXCEPT !.step = k] \in MarketTx
            /\ [Idle EXCEPT !.step = k].step = k
            /\ [Idle EXCEPT !.step = k, !.to = m] \in MarketTx
            /\ [Idle EXCEPT !.step = k, !.to = m].step = k
  BY DEF Idle, MarketTx, Step, MarketStatus
<1>4. ASSUME NEW v \in Workers, Transition(v) \/ MarketTxAbort(v)
      PROVE  tx[w].step = "settling" \/ result.status = "CONFIRMED"
  <2>1. CASE \E to \in MarketStatus : AdminTransition(v, to)
    BY <1>2, <1>3, <2>1 DEF AdminTransition, Step
  <2>2. CASE SweepList(v) \/ SweepTransition(v) \/ TransitionCommit(v) \/ MarketTxAbort(v)
    BY <1>2, <1>3, <2>2 DEF SweepList, SweepTransition, TransitionCommit, MarketTxAbort,
                            Step, MarketStatus
  <2>3. CASE TransitionUpdate(v)
    <3> DEFINE s == IF tx[v].to = "CLOSED" THEN OpenOrders ELSE {}
               t == [tx[v] EXCEPT !.step = "updated", !.scan = s]
    <3>1. Begin(v, t)
      BY <2>3 DEF TransitionUpdate
    <3>2. t.step = "updated"
      BY <1>0 DEF MarketTx
    <3> HIDE DEF t
    <3>3. QED
      BY <1>0, <3>1, <3>2 DEF Begin
  <2>4. QED
    BY <1>4, <2>1, <2>2, <2>3 DEF Transition
<1>5. ASSUME NEW v \in Workers, Settlement(v)
      PROVE  tx[w].step = "settling" \/ result.status = "CONFIRMED"
  <2>1. CASE SettleBegin(v)
    BY <2>1 DEF SettleBegin
  <2>2. CASE SettleCommit(v) \/ SettleVoidResult(v) \/ VoidCommit(v)
    <3>1. Begin(v, Idle)
      BY <2>2 DEF SettleCommit, SettleVoidResult, VoidCommit
    <3>2. QED
      BY <1>2, <1>3, <3>1
  <2>3. CASE VoidBegin(v)
    <3> DEFINE t == [Idle EXCEPT !.step = "voiding"]
    <3>1. Begin(v, t)
      BY <2>3 DEF VoidBegin
    <3>2. t \in MarketTx /\ t.step = "voiding"
      BY DEF Idle, MarketTx, Step, MarketStatus
    <3> HIDE DEF t
    <3>3. QED
      BY <1>2, <3>1, <3>2
  <2>4. QED
    BY <1>5, <2>1, <2>2, <2>3 DEF Settlement
<1>6. CASE \/ Bettor \/ \E v \in Outcomes \cup {NoWinner} : ProposeResult(v)
           \/ ConfirmResult \/ ClosingTimePasses \/ UNCHANGED vars
  BY <1>1, <1>6 DEF Bettor, PlaceBegin, PlaceCommit, PlaceAbort, CancelOrder,
                    ProposeResult, ConfirmResult, ClosingTimePasses, vars
<1>7. QED
  BY <1>4, <1>5, <1>6 DEF Next

LEMMA SettledStep ==
    ASSUME CleanInv, SettledKnown, [Next]_vars
    PROVE  SettledKnown'
<1>1. TypeOK
  BY DEF CleanInv
<1>2. ASSUME NEW w \in Workers, tx'[w].step = "settling" PROVE result'.status = "CONFIRMED"
  BY <1>1, <1>2, SettlingTx, ResultKept DEF SettledKnown
<1>3. ASSUME NEW y \in alloc', y.status = "SETTLED" PROVE result.status = "CONFIRMED"
  <2>1. ASSUME NEW o \in DOMAIN order, PlaceCommit(o) PROVE y \in alloc
    BY <1>3, <2>1, NewRows DEF CleanInv
  <2>2. ASSUME NEW k \in {"SETTLED", "VOIDED"}, alloc' = FinalizedAllocations(k),
               k = "SETTLED" => result.status = "CONFIRMED"
        PROVE  result.status = "CONFIRMED"
    <3>1. PICK x \in alloc : y = Finish(x, k)
      BY <1>1, <2>2, FinishedRows
    <3>2. x.status = "ACTIVE" => y.status = k
      BY <1>1, <2>2, <3>1, FinishedRows
    <3>3. x.status # "ACTIVE" => y.status = x.status
      BY <1>1, <2>2, <3>1, FinishedRows
    <3>4. QED
      BY <1>3, <2>2, <3>2, <3>3 DEF SettledKnown
  <2>3. CASE ~Placement
    <3>1. CASE UNCHANGED alloc
      BY <1>3, <3>1 DEF SettledKnown
    <3>2. ASSUME NEW w \in Workers, SettleCommit(w) PROVE result.status = "CONFIRMED"
      BY <3>2 DEF SettleCommit, SettledKnown
    <3>3. ASSUME NEW w \in Workers, VoidCommit(w) PROVE result.status = "CONFIRMED"
      BY <2>2, <3>3 DEF VoidCommit
    <3>4. QED
      BY <1>1, <2>3, <3>1, <3>2, <3>3, QuietMoney DEF MoneyMoves, Unpaid
  <2>4. QED
    BY <1>3, <2>1, <2>3 DEF Placement, SettledKnown
<1>4. QED
  BY <1>1, <1>2, <1>3, ResultKept DEF SettledKnown

\* What user u's orders asked for, what was released of them, and what the
\* allocations have returned to u.
Asks(u) == [o \in Rows |-> IF o \in OrdersOf(u) THEN order[o].requested ELSE 0]

GotBack(u) == [o \in Rows |-> IF o \in OrdersOf(u) THEN order[o].released ELSE 0]

Returns(u) == [x \in alloc |-> Returned(u, x)]

WalletInv ==
    \A u \in Users :
        available[u] + Total(Asks(u)) = Funding[u] + Total(GotBack(u)) + Total(Returns(u))

LEMMA AsksTotal ==
    ASSUME TypeOK, NEW u
    PROVE  /\ Asks(u) \in AmountsOver(Rows) /\ Total(Asks(u)) \in Nat
           /\ GotBack(u) \in AmountsOver(Rows) /\ Total(GotBack(u)) \in Nat
           /\ Total([o \in OrdersOf(u) |-> order[o].requested]) = Total(Asks(u))
           /\ Total([o \in OrdersOf(u) |-> order[o].released]) = Total(GotBack(u))
<1> DEFINE f == [o \in OrdersOf(u) |-> order[o].requested]
           g == [o \in OrdersOf(u) |-> order[o].released]
<1>1. OrdersOf(u) \subseteq Rows /\ OrdersOf(u) \subseteq DOMAIN order
  BY OrdersInRows DEF OrdersOf
<1>2. /\ f \in AmountsOver(OrdersOf(u)) /\ g \in AmountsOver(OrdersOf(u))
      /\ Asks(u) \in AmountsOver(Rows) /\ GotBack(u) \in AmountsOver(Rows)
  BY <1>1, OrdersInRows DEF Asks, GotBack, AmountsOver
<1>3. /\ [o \in Rows |-> IF o \in OrdersOf(u) THEN f[o] ELSE 0] = Asks(u)
      /\ [o \in Rows |-> IF o \in OrdersOf(u) THEN g[o] ELSE 0] = GotBack(u)
  BY DEF Asks, GotBack
<1>4. Total(f) = Total(Asks(u))
  <2> HIDE DEF f, g
  <2>1. Total([o \in Rows |-> IF o \in OrdersOf(u) THEN f[o] ELSE 0]) = Total(f)
    BY <1>1, <1>2, TotalPad
  <2>2. QED
    BY <1>3, <2>1
<1>5. Total(g) = Total(GotBack(u))
  <2> HIDE DEF f, g
  <2>1. Total([o \in Rows |-> IF o \in OrdersOf(u) THEN g[o] ELSE 0]) = Total(g)
    BY <1>1, <1>2, TotalPad
  <2>2. QED
    BY <1>3, <2>1
<1>6. QED
  BY <1>2, <1>4, <1>5, RowsFinite, TotalType

LEMMA AsksNext ==
    ASSUME TypeOK', NEW u
    PROVE  /\ Asks(u)' \in AmountsOver(Rows) /\ Total(Asks(u)') \in Nat
           /\ GotBack(u)' \in AmountsOver(Rows) /\ Total(GotBack(u)') \in Nat
<1>1. \A o \in OrdersOf(u)' : order'[o] \in BetOrder
  BY DEF TypeOK, OrdersOf
<1>2. \A o \in OrdersOf(u)' : order'[o].requested \in Nat /\ order'[o].released \in Nat
  BY <1>1, StakeType DEF BetOrder
<1>3. Asks(u)' \in AmountsOver(Rows) /\ GotBack(u)' \in AmountsOver(Rows)
  BY <1>2 DEF Asks, GotBack, AmountsOver, Rows
<1>4. QED
  BY <1>3, RowsFinite, TotalType

\* Who an allocation returns to, and how much.
LEMMA ReturnedAmount ==
    ASSUME NEW u, NEW x
    PROVE  /\ x.status = "ACTIVE" => Returned(u, x) = 0
           /\ x.status = "SETTLED" =>
                 Returned(u, x) = IF \E o \in {x.a, x.b} : /\ order[o].user = u
                                                           /\ order[o].outcome = result.winner
                                  THEN 2 * x.amount - Commission(x.amount) ELSE 0
           /\ x.status = "VOIDED" =>
                 Returned(u, x) = IF \E o \in {x.a, x.b} : order[o].user = u
                                  THEN x.amount ELSE 0
  BY DEF Returned

\* What a side of an allocation gets back when it wins.
LEMMA ReturnType ==
    ASSUME NEW m \in Nat
    PROVE  /\ 2 * m - Commission(m) \in Nat
           /\ WinnerReturn(m) = 2 * m - Commission(m)
<1>1. /\ Commission(m) \in Nat /\ Commission(m) =< m
      /\ WinnerReturn(m) \in Nat /\ WinnerReturn(m) + Commission(m) = 2 * m
  BY CommissionType
<1>2. QED
  BY <1>1

LEMMA ReturnsTotal ==
    ASSUME TypeOK, NEW u
    PROVE  Returns(u) \in AmountsOver(alloc) /\ Total(Returns(u)) \in Nat
<1>1. /\ IsFiniteSet(alloc)
      /\ \A x \in alloc : x.amount \in Nat /\ x.status \in {"ACTIVE", "SETTLED", "VOIDED"}
  BY AllocationRows DEF TypeOK, Allocation
<1>2. \A x \in alloc : 2 * x.amount - Commission(x.amount) \in Nat
  BY <1>1, ReturnType
<1>3. \A x \in alloc : Returned(u, x) \in Nat
  BY <1>1, <1>2, ReturnedAmount
<1>4. QED
  BY <1>1, <1>3, TotalType DEF Returns, AmountsOver

LEMMA ReturnsNext ==
    ASSUME TypeOK', NEW u
    PROVE  /\ Returns(u)' \in AmountsOver(alloc') /\ Total(Returns(u)') \in Nat
           /\ \A x \in alloc' : Returns(u)'[x] = Returned(u, x)'
<1>1. /\ IsFiniteSet(alloc')
      /\ \A x \in alloc' : x.amount \in Nat /\ x.status \in {"ACTIVE", "SETTLED", "VOIDED"}
  BY DEF TypeOK, Allocation
<1>2. \A x \in alloc' : 2 * x.amount - Commission(x.amount) \in Nat
  BY <1>1, ReturnType
<1>3. \A x \in alloc' : Returned(u, x)' \in Nat
  BY <1>1, <1>2 DEF Returned
<1>4. QED
  BY <1>1, <1>3, TotalType DEF Returns, AmountsOver

\* What an allocation has returned does not change while its row does not.
LEMMA ReturnedKept ==
    ASSUME TypeOK, SettledKnown, [Next]_vars, NEW u, NEW x \in alloc
    PROVE  Returned(u, x)' = Returned(u, x)
<1>1. /\ x.a \in DOMAIN order /\ x.b \in DOMAIN order
      /\ x.status \in {"ACTIVE", "SETTLED", "VOIDED"}
  BY AllocationRows DEF TypeOK, Allocation
<1>2. /\ order'[x.a].user = order[x.a].user /\ order'[x.a].outcome = order[x.a].outcome
      /\ order'[x.b].user = order[x.b].user /\ order'[x.b].outcome = order[x.b].outcome
  BY <1>1, SameParties
<1>3. x.status = "SETTLED" => result' = result
  BY ResultKept DEF SettledKnown
<1>4. CASE x.status = "ACTIVE"
  BY <1>4 DEF Returned
<1>5. CASE x.status = "SETTLED"
  BY <1>2, <1>3, <1>5 DEF Returned
<1>6. CASE x.status = "VOIDED"
  BY <1>2, <1>6 DEF Returned
<1>7. QED
  BY <1>1, <1>4, <1>5, <1>6

\* A step that releases the orders R asks for nothing new and gives back what
\* they waited to match.
LEMMA WalletOrders ==
    ASSUME TypeOK, TypeOK', NEW u, NEW R, Freed(R)
    PROVE  /\ Total(Asks(u)') = Total(Asks(u))
           /\ Total(GotBack(u)') = Total(GotBack(u)) + ReleasedTo(u, R)
<1>1. R \subseteq OpenOrders /\ R \subseteq DOMAIN order /\ QuietOrders
  BY OrdersInRows DEF Freed
<1>2. \A k : k \in OrdersOf(u)' <=> k \in OrdersOf(u)
  BY <1>1 DEF QuietOrders, QuietOrder, OrdersOf, Stored
<1>3. \A k \in OrdersOf(u) : k \in DOMAIN order
  BY DEF OrdersOf
<1>4. ASSUME NEW k \in Rows
      PROVE  Asks(u)'[k] = Asks(u)[k] /\ GotBack(u)'[k] = GotBack(u)[k] + Frees(u, R)[k]
  <2>1. Asks(u)'[k] = Asks(u)[k]
    BY <1>1, <1>2, <1>3 DEF Asks, Rows, QuietOrders, QuietOrder
  <2>2. GotBack(u)[k] \in Nat
    BY AsksTotal DEF AmountsOver
  <2>3. CASE k \in R
    <3>1. k \in OrdersOf(u) <=> order[k].user = u
      BY <1>1, <2>3 DEF OrdersOf, OpenOrders, Stored
    <3>2. order'[k].released = order[k].released + order[k].unmatched
      BY <2>3 DEF Freed
    <3>3. CASE order[k].user = u
      <4>1. GotBack(u)[k] = order[k].released /\ Frees(u, R)[k] = order[k].unmatched
        BY <2>3, <3>1, <3>3 DEF GotBack, Frees
      <4>2. GotBack(u)'[k] = order'[k].released
        BY <1>2, <3>1, <3>3 DEF GotBack, Rows
      <4>3. QED
        BY <2>1, <3>2, <4>1, <4>2
    <3>4. CASE order[k].user # u
      <4>1. GotBack(u)[k] = 0 /\ Frees(u, R)[k] = 0
        BY <3>1, <3>4 DEF GotBack, Frees
      <4>2. GotBack(u)'[k] = 0
        BY <1>2, <3>1, <3>4 DEF GotBack, Rows
      <4>3. QED
        BY <2>1, <4>1, <4>2
    <3>5. QED
      BY <2>1, <3>3, <3>4
  <2>4. CASE k \notin R
    <3>1. k \in DOMAIN order => order'[k].released = order[k].released
      BY <2>4 DEF Freed
    <3>2. GotBack(u)'[k] = GotBack(u)[k]
      BY <1>2, <1>3, <3>1 DEF GotBack, Rows
    <3>3. Frees(u, R)[k] = 0
      BY <2>4 DEF Frees
    <3>4. QED
      BY <2>1, <2>2, <3>2, <3>3
  <2>5. QED
    BY <2>3, <2>4
<1>5. Asks(u)' = Asks(u)
  BY <1>4 DEF Asks, Rows
<1>6. Total(GotBack(u)') = Total(GotBack(u)) + Total(Frees(u, R))
  <2>1. /\ GotBack(u) \in AmountsOver(Rows) /\ GotBack(u)' \in AmountsOver(Rows)
        /\ Frees(u, R) \in AmountsOver(Rows)
    BY <1>1, AsksTotal, AsksNext, FreesTotal
  <2>2. QED
    BY <1>4, <2>1, RowsFinite, TotalSum
<1>7. QED
  BY <1>1, <1>5, <1>6, FreesTotal

\* A step that returns pay[x] for every allocation x as it finishes them.
LEMMA ReturnsFinish ==
    ASSUME TypeOK, TypeOK', PairedOnce, NEW u, NEW k \in {"SETTLED", "VOIDED"},
           alloc' = FinalizedAllocations(k), NEW pay \in AmountsOver(alloc),
           \A x \in alloc : Returned(u, Finish(x, k))' = Returned(u, x) + pay[x]
    PROVE  Total(Returns(u)') = Total(Returns(u)) + Total(pay)
<1> DEFINE f == [x \in alloc |-> Returns(u)'[Finish(x, k)]]
<1>1. Total(Returns(u)') = Total(f)
  BY ReturnsNext, FinishedTotal
<1>2. \A x \in alloc : Finish(x, k) \in alloc'
  BY FinishedRows
<1>3. \A x \in alloc : f[x] = Returned(u, Finish(x, k))'
  BY <1>2, ReturnsNext
<1>4. \A x \in alloc : Returns(u)[x] = Returned(u, x)
  BY DEF Returns
<1>5. \A x \in alloc : Returns(u)[x] \in Nat /\ pay[x] \in Nat
  BY ReturnsTotal DEF AmountsOver
<1>6. f \in AmountsOver(alloc) /\ \A x \in alloc : f[x] = Returns(u)[x] + pay[x]
  BY <1>3, <1>4, <1>5 DEF AmountsOver
<1> HIDE DEF f
<1>7. Total(f) = Total(Returns(u)) + Total(pay)
  BY <1>6, ReturnsTotal, AllocationRows, TotalSum
<1>8. QED
  BY <1>1, <1>7

LEMMA WalletTypes ==
    ASSUME TypeOK, NEW u \in Users
    PROVE  /\ available[u] \in Nat /\ Funding[u] \in Nat
           /\ Total(Asks(u)) \in Nat /\ Total(GotBack(u)) \in Nat
           /\ Total(Returns(u)) \in Nat
<1>1. available[u] \in Nat /\ Funding[u] \in Nat
  BY ExchangeAssumption DEF TypeOK
<1>2. QED
  BY <1>1, AsksTotal, ReturnsTotal

LEMMA WalletUnpaid ==
    ASSUME TypeOK, TypeOK', SettledKnown, WalletInv, [Next]_vars,
           NEW R \in SUBSET OpenOrders, Freed(R), Unpaid(R)
    PROVE  WalletInv'
<1>1. ASSUME NEW u \in Users
      PROVE  available'[u] + Total(Asks(u)') = Funding[u] + Total(GotBack(u)')
                                                 + Total(Returns(u)')
  <2>1. available'[u] = available[u] + ReleasedTo(u, R) /\ alloc' = alloc
    BY DEF Unpaid
  <2>2. Returns(u)' = Returns(u)
    BY <2>1, ReturnedKept DEF Returns
  <2>3. /\ Total(Asks(u)') = Total(Asks(u))
        /\ Total(GotBack(u)') = Total(GotBack(u)) + ReleasedTo(u, R)
    BY WalletOrders
  <2>4. ReleasedTo(u, R) \in Nat
    BY FreesTotal, OrdersInRows
  <2>5. available[u] + Total(Asks(u)) = Funding[u] + Total(GotBack(u)) + Total(Returns(u))
    BY DEF WalletInv
  <2>6. QED
    BY <2>1, <2>2, <2>3, <2>4, <2>5, WalletTypes
<1>2. QED
  BY <1>1 DEF WalletInv

\* A step that finishes the allocations and pays each user what they return.
LEMMA WalletPaid ==
    ASSUME TypeOK, TypeOK', WalletInv, Freed(OpenOrders), NEW u \in Users, NEW p \in Nat,
           available'[u] = available[u] + ReleasedTo(u, OpenOrders) + p,
           Total(Returns(u)') = Total(Returns(u)) + p
    PROVE  available'[u] + Total(Asks(u)') = Funding[u] + Total(GotBack(u)')
                                               + Total(Returns(u)')
<1>1. /\ Total(Asks(u)') = Total(Asks(u))
      /\ Total(GotBack(u)') = Total(GotBack(u)) + ReleasedTo(u, OpenOrders)
  BY WalletOrders
<1>2. ReleasedTo(u, OpenOrders) \in Nat
  BY FreesTotal, OrdersInRows
<1>3. available[u] + Total(Asks(u)) = Funding[u] + Total(GotBack(u)) + Total(Returns(u))
  BY DEF WalletInv
<1>4. QED
  BY <1>1, <1>2, <1>3, WalletTypes

LEMMA WalletSettle ==
    ASSUME TypeOK, TypeOK', PairedOnce, SettledKnown, WalletInv, [Next]_vars,
           Freed(OpenOrders), NEW w \in Workers, SettleCommit(w)
    PROVE  WalletInv'
<1>1. /\ alloc' = FinalizedAllocations("SETTLED") /\ result' = result
      /\ available' = [u \in Users |->
                          available[u] + ReleasedTo(u, OpenOrders) + WonTotal(u)]
  BY DEF SettleCommit
<1>2. ASSUME NEW u \in Users
      PROVE  available'[u] + Total(Asks(u)') = Funding[u] + Total(GotBack(u)')
                                                 + Total(Returns(u)')
  <2> DEFINE Won == {y \in Active : WonBy(u, y)}
             f == [x \in Won |-> WinnerReturn(x.amount)]
             pay == [x \in alloc |-> IF x \in Won THEN f[x] ELSE 0]
  <2>1. \A x \in alloc : /\ x.amount \in Nat /\ x.a \in DOMAIN order /\ x.b \in DOMAIN order
                         /\ x.status \in {"ACTIVE", "SETTLED", "VOIDED"}
    BY AllocationRows DEF TypeOK, Allocation
  <2>2. Won \subseteq alloc /\ f \in AmountsOver(Won)
    BY <2>1, CommissionType DEF AmountsOver, Active
  <2>3. pay \in AmountsOver(alloc) /\ Total(pay) = WonTotal(u)
    <3>1. pay \in AmountsOver(alloc)
      BY <2>2 DEF AmountsOver
    <3>2. Total(f) = WonTotal(u)
      BY DEF WonTotal
    <3> HIDE DEF f, Won
    <3>3. Total(pay) = Total(f)
      BY <2>2, TotalPad
    <3>4. QED
      BY <3>1, <3>2, <3>3
  <2>4. ASSUME NEW x \in alloc
        PROVE  Returned(u, Finish(x, "SETTLED"))' = Returned(u, x) + pay[x]
    <3>1. /\ Finish(x, "SETTLED").a = x.a /\ Finish(x, "SETTLED").b = x.b
          /\ Finish(x, "SETTLED").amount = x.amount
          /\ x.status = "ACTIVE" => Finish(x, "SETTLED").status = "SETTLED"
      BY <1>1, FinishedRows
    <3>2. /\ order'[x.a].user = order[x.a].user /\ order'[x.a].outcome = order[x.a].outcome
          /\ order'[x.b].user = order[x.b].user /\ order'[x.b].outcome = order[x.b].outcome
      BY <2>1, SameParties
    <3>3. CASE x.status = "ACTIVE"
      <4>1. Returned(u, x) = 0
        BY <3>3, ReturnedAmount
      <4>2. x \in Won <=> \E o \in {x.a, x.b} : /\ order[o].user = u
                                                /\ order[o].outcome = result.winner
        BY <3>3 DEF WonBy, WinningSides, Active
      <4>3. Returned(u, Finish(x, "SETTLED"))'
              = IF x \in Won THEN 2 * x.amount - Commission(x.amount) ELSE 0
        <5>1. x \in Won <=> \E o \in {x.a, x.b} : /\ order'[o].user = u
                                                  /\ order'[o].outcome = result'.winner
          BY <1>1, <3>2, <4>2
        <5> HIDE DEF Won, pay, f
        <5>2. ASSUME NEW y, y.a = x.a, y.b = x.b, y.amount = x.amount, y.status = "SETTLED"
              PROVE  Returned(u, y)' = IF x \in Won THEN 2 * x.amount - Commission(x.amount)
                                       ELSE 0
          BY <5>1, <5>2 DEF Returned
        <5>3. QED
          BY <3>1, <3>3, <5>2
      <4>4. pay[x] = IF x \in Won THEN 2 * x.amount - Commission(x.amount) ELSE 0
        BY <2>1, ReturnType
      <4>5. pay[x] \in Nat
        BY <2>3 DEF AmountsOver
      <4> HIDE DEF pay, Won
      <4>6. QED
        BY <4>1, <4>3, <4>4, <4>5
    <3>4. CASE x.status # "ACTIVE"
      <4>1. Finish(x, "SETTLED") = x
        BY <3>4 DEF Finish, TypeOK, Allocation
      <4>2. Returned(u, x)' = Returned(u, x)
        BY ReturnedKept
      <4>3. pay[x] = 0
        BY <3>4 DEF Active
      <4>4. Returned(u, x) \in Nat
        BY ReturnsTotal DEF Returns, AmountsOver
      <4> HIDE DEF pay
      <4>5. QED
        BY <4>1, <4>2, <4>3, <4>4
    <3>5. QED
      BY <3>3, <3>4
  <2> HIDE DEF pay
  <2>5. Total(Returns(u)') = Total(Returns(u)) + WonTotal(u)
    BY <1>1, <2>3, <2>4, ReturnsFinish
  <2>6. available'[u] = available[u] + ReleasedTo(u, OpenOrders) + WonTotal(u)
    BY <1>1
  <2>7. WonTotal(u) \in Nat
    BY <2>3, AllocationRows, TotalType
  <2>8. QED
    BY <2>5, <2>6, <2>7, WalletPaid
<1>3. QED
  BY <1>2 DEF WalletInv

LEMMA WalletVoid ==
    ASSUME TypeOK, TypeOK', PairedOnce, SettledKnown, WalletInv, [Next]_vars,
           Freed(OpenOrders), NEW w \in Workers, VoidCommit(w)
    PROVE  WalletInv'
<1>1. /\ alloc' = FinalizedAllocations("VOIDED")
      /\ available' = [u \in Users |->
                          available[u] + ReleasedTo(u, OpenOrders) + RefundTotal(u)]
  BY DEF VoidCommit
<1>2. ASSUME NEW u \in Users
      PROVE  available'[u] + Total(Asks(u)') = Funding[u] + Total(GotBack(u)')
                                                 + Total(Returns(u)')
  <2> DEFINE Back == {y \in Active : u \in Parties(y)}
             f == [x \in Back |-> x.amount]
             pay == [x \in alloc |-> IF x \in Back THEN f[x] ELSE 0]
  <2>1. \A x \in alloc : /\ x.amount \in Nat /\ x.a \in DOMAIN order /\ x.b \in DOMAIN order
                         /\ x.status \in {"ACTIVE", "SETTLED", "VOIDED"}
    BY AllocationRows DEF TypeOK, Allocation
  <2>2. Back \subseteq alloc /\ f \in AmountsOver(Back)
    BY <2>1 DEF AmountsOver, Active
  <2>3. pay \in AmountsOver(alloc) /\ Total(pay) = RefundTotal(u)
    <3>1. pay \in AmountsOver(alloc)
      BY <2>2 DEF AmountsOver
    <3>2. Total(f) = RefundTotal(u)
      BY DEF RefundTotal
    <3> HIDE DEF f, Back
    <3>3. Total(pay) = Total(f)
      BY <2>2, TotalPad
    <3>4. QED
      BY <3>1, <3>2, <3>3
  <2>4. ASSUME NEW x \in alloc
        PROVE  Returned(u, Finish(x, "VOIDED"))' = Returned(u, x) + pay[x]
    <3>1. /\ Finish(x, "VOIDED").a = x.a /\ Finish(x, "VOIDED").b = x.b
          /\ Finish(x, "VOIDED").amount = x.amount
          /\ x.status = "ACTIVE" => Finish(x, "VOIDED").status = "VOIDED"
      BY <1>1, FinishedRows
    <3>2. order'[x.a].user = order[x.a].user /\ order'[x.b].user = order[x.b].user
      BY <2>1, SameParties
    <3>3. CASE x.status = "ACTIVE"
      <4>1. Returned(u, x) = 0
        BY <3>3, ReturnedAmount
      <4>2. x \in Back <=> \E o \in {x.a, x.b} : order'[o].user = u
        BY <3>2, <3>3 DEF Parties, Active
      <4>3. Returned(u, Finish(x, "VOIDED"))' = IF x \in Back THEN x.amount ELSE 0
        <5> HIDE DEF Back
        <5>1. QED
          BY <3>1, <3>3, <4>2 DEF Returned
      <4>4. pay[x] = IF x \in Back THEN x.amount ELSE 0
        BY <2>1
      <4>5. pay[x] \in Nat
        BY <2>3 DEF AmountsOver
      <4> HIDE DEF pay, Back
      <4>6. QED
        BY <4>1, <4>3, <4>4, <4>5
    <3>4. CASE x.status # "ACTIVE"
      <4>1. Finish(x, "VOIDED") = x
        BY <3>4 DEF Finish, TypeOK, Allocation
      <4>2. Returned(u, x)' = Returned(u, x)
        BY ReturnedKept
      <4>3. pay[x] = 0
        BY <3>4 DEF Active
      <4>4. Returned(u, x) \in Nat
        BY ReturnsTotal DEF Returns, AmountsOver
      <4> HIDE DEF pay
      <4>5. QED
        BY <4>1, <4>2, <4>3, <4>4
    <3>5. QED
      BY <3>3, <3>4
  <2> HIDE DEF pay
  <2>5. Total(Returns(u)') = Total(Returns(u)) + RefundTotal(u)
    BY <1>1, <2>3, <2>4, ReturnsFinish
  <2>6. available'[u] = available[u] + ReleasedTo(u, OpenOrders) + RefundTotal(u)
    BY <1>1
  <2>7. RefundTotal(u) \in Nat
    BY <2>3, AllocationRows, TotalType
  <2>8. QED
    BY <2>5, <2>6, <2>7, WalletPaid
<1>3. QED
  BY <1>2 DEF WalletInv

\* New allocations have returned nothing.
LEMMA ReturnsPlace ==
    ASSUME CleanInv, SettledKnown, [Next]_vars, NEW o \in DOMAIN order, PlaceCommit(o), NEW u
    PROVE  Total(Returns(u)') = Total(Returns(u))
<1> DEFINE h == [r \in Paired(o) |-> Returns(u)'[PairOf(o, r)]]
<1>1. TypeOK /\ TypeOK'
  BY NextType DEF CleanInv
<1>2. /\ \A x \in alloc : x \in alloc'
      /\ \A r \in Paired(o) : PairOf(o, r) \in alloc' /\ PairOf(o, r).status = "ACTIVE"
  BY NewRows DEF CleanInv
<1>3. Total(Returns(u)') = Total([x \in alloc |-> Returns(u)'[x]]) + Total(h)
      /\ h \in AmountsOver(Paired(o))
  BY <1>1, ReturnsNext, GrownTotal DEF CleanInv
<1>4. [x \in alloc |-> Returns(u)'[x]] = Returns(u)
  BY <1>1, <1>2, ReturnedKept, ReturnsNext DEF Returns
<1>5. ASSUME NEW y \in alloc', y.status = "ACTIVE" PROVE Returns(u)'[y] = 0
  BY <1>1, <1>5, ReturnsNext DEF Returned
<1>6. \A r \in Paired(o) : h[r] = 0
  BY <1>2, <1>5
<1> HIDE DEF h
<1>7. Total(h) = 0
  BY <1>3, <1>6, TotalZero
<1>8. Total(Returns(u)) \in Nat
  BY <1>1, ReturnsTotal
<1>9. QED
  BY <1>3, <1>4, <1>7, <1>8

LEMMA WalletPlace ==
    ASSUME CleanInv, PlacingWhole, SettledKnown, WalletInv, [Next]_vars,
           NEW o \in DOMAIN order, PlaceCommit(o)
    PROVE  WalletInv'
<1>1. /\ DOMAIN order' = DOMAIN order
      /\ ~Stored(o) /\ order[o].status = "PLACING" /\ order[o].unmatched \in Nat
      /\ Paired(o) \subseteq OpenOrders /\ OpenOrders \subseteq DOMAIN order
      /\ FilledBy(o, FilledOf(o))
      /\ \A r \in Paired(o) : FilledBy(r, PlanOf(o)[r])
      /\ \A k \in DOMAIN order : k # o /\ k \notin Paired(o) => order'[k] = order[k]
  BY PlaceStep, OrdersInRows DEF CleanInv
<1>2. TypeOK /\ TypeOK' /\ o \in Rows
  BY NextType, OrdersInRows DEF CleanInv
<1>3. \A k \in DOMAIN order :
         /\ order'[k].user = order[k].user /\ order'[k].requested = order[k].requested
         /\ order'[k].released = order[k].released
         /\ Stored(k)' <=> Stored(k) \/ k = o
  <2>1. ASSUME NEW k \in Paired(o)
        PROVE  /\ order'[k].user = order[k].user /\ order'[k].requested = order[k].requested
               /\ order'[k].released = order[k].released
               /\ Stored(k)' /\ Stored(k)
    BY <1>1, <2>1 DEF FilledBy, Stored, OpenOrders
  <2>2. /\ order'[o].user = order[o].user /\ order'[o].requested = order[o].requested
        /\ order'[o].released = order[o].released /\ Stored(o)'
    BY <1>1 DEF FilledBy, Stored
  <2>3. \A k \in DOMAIN order : k # o /\ k \notin Paired(o) => Stored(k)' <=> Stored(k)
    BY <1>1 DEF Stored
  <2>4. QED
    BY <1>1, <2>1, <2>2, <2>3
<1>4. ASSUME NEW u
      PROVE  \A k : k \in OrdersOf(u)'
                      <=> k \in OrdersOf(u) \/ (k = o /\ order[o].user = u)
  BY <1>1, <1>3 DEF OrdersOf
<1>5. order[o].released = 0 /\ order[o].requested = Stake(o)
  BY <1>1 DEF PlacingWhole, Stake
<1>6. ASSUME NEW u PROVE GotBack(u)' = GotBack(u)
  <2>1. ASSUME NEW k \in Rows PROVE GotBack(u)'[k] = GotBack(u)[k]
    <3>1. CASE k = o
      <4>1. GotBack(u)[k] = 0
        BY <1>1, <3>1 DEF GotBack, OrdersOf
      <4>2. GotBack(u)'[k] = 0
        BY <1>3, <1>5, <3>1 DEF GotBack, OrdersOf, Rows
      <4>3. QED
        BY <4>1, <4>2
    <3>2. CASE k # o
      BY <1>3, <1>4, <3>2 DEF GotBack, OrdersOf, Rows
    <3>3. QED
      BY <3>1, <3>2
  <2>2. QED
    BY <2>1 DEF GotBack, Rows
<1>7. ASSUME NEW u, u # order[o].user PROVE Asks(u)' = Asks(u)
  <2>1. ASSUME NEW k \in Rows PROVE Asks(u)'[k] = Asks(u)[k]
    BY <1>3, <1>4, <1>7 DEF Asks, OrdersOf, Rows
  <2>2. QED
    BY <2>1 DEF Asks, Rows
<1>8. ASSUME NEW u, u = order[o].user
      PROVE  Total(Asks(u)') = Total(Asks(u)) + Stake(o)
  <2> DEFINE one == [k \in Rows |-> IF k = o THEN Stake(o) ELSE 0]
  <2>1. Stake(o) \in Nat
    BY PlaceMoney DEF CleanInv
  <2>2. one \in AmountsOver(Rows) /\ Total(one) = Stake(o)
    BY <1>2, <2>1, TotalOne DEF AmountsOver
  <2>3. Asks(u) \in AmountsOver(Rows) /\ Asks(u)' \in AmountsOver(Rows)
    BY <1>2, AsksTotal, AsksNext
  <2>4. ASSUME NEW k \in Rows PROVE Asks(u)'[k] = Asks(u)[k] + one[k]
    <3>1. CASE k = o
      <4>1. Asks(u)[k] = 0
        BY <1>1, <3>1 DEF Asks, OrdersOf
      <4>2. Asks(u)'[k] = Stake(o)
        BY <1>3, <1>4, <1>5, <1>8, <3>1 DEF Asks, Rows
      <4>3. QED
        BY <2>1, <3>1, <4>1, <4>2
    <3>2. CASE k # o
      <4>1. Asks(u)'[k] = Asks(u)[k]
        BY <1>3, <1>4, <3>2 DEF Asks, OrdersOf, Rows
      <4>2. Asks(u)[k] \in Nat
        BY <2>3 DEF AmountsOver
      <4>3. QED
        BY <3>2, <4>1, <4>2
    <3>3. QED
      BY <3>1, <3>2
  <2> HIDE DEF one
  <2>5. Total(Asks(u)') = Total(Asks(u)) + Total(one)
    BY <2>2, <2>3, <2>4, RowsFinite, TotalSum
  <2>6. QED
    BY <2>2, <2>5
<1>9. ASSUME NEW u \in Users
      PROVE  available'[u] + Total(Asks(u)') = Funding[u] + Total(GotBack(u)')
                                                 + Total(Returns(u)')
  <2>1. /\ available \in [Users -> Nat] /\ Stake(o) \in Nat
        /\ available' = [available EXCEPT ![order[o].user] = @ - Stake(o)]
    BY <1>2, PlaceMoney DEF TypeOK
  <2>2. Total(Returns(u)') = Total(Returns(u)) /\ GotBack(u)' = GotBack(u)
    BY <1>6, ReturnsPlace
  <2>3. available[u] + Total(Asks(u)) = Funding[u] + Total(GotBack(u)) + Total(Returns(u))
    BY DEF WalletInv
  <2>4. CASE u = order[o].user
    <3>1. available'[u] = available[u] - Stake(o)
      BY <2>1, <2>4
    <3>2. QED
      BY <1>2, <1>8, <2>1, <2>2, <2>3, <2>4, <3>1, WalletTypes
  <2>5. CASE u # order[o].user
    <3>1. available'[u] = available[u]
      BY <2>1, <2>5
    <3>2. QED
      BY <1>7, <2>2, <2>3, <2>5, <3>1
  <2>6. QED
    BY <2>4, <2>5
<1>10. QED
  BY <1>9 DEF WalletInv

LEMMA WalletStep ==
    ASSUME CleanInv, PlacingWhole, PairedOnce, SettledKnown, WalletInv, [Next]_vars
    PROVE  WalletInv'
<1>1. TypeOK /\ TypeOK'
  BY NextType DEF CleanInv
<1>2. CASE ~Placement
  <2>1. PICK R \in SUBSET OpenOrders :
           /\ Freed(R)
           /\ \/ Unpaid(R)
              \/ R = OpenOrders /\ \E w \in Workers : SettleCommit(w) \/ VoidCommit(w)
    BY <1>1, <1>2, QuietMoney DEF MoneyMoves
  <2>2. QED
    BY <1>1, <2>1, WalletUnpaid, WalletSettle, WalletVoid
<1>3. QED
  BY <1>2, WalletPlace DEF Placement

-----------------------------------------------------------------------------
(* The theorems *)

\* Everything the steps above need, and keep.
MoneyInv ==
    /\ CleanInv /\ PlacingWhole /\ PairedOnce /\ SettledKnown
    /\ LockedInv /\ EscrowInv /\ AccountInv /\ Conservation /\ WalletInv

LEMMA MoneyInit == ASSUME Init PROVE MoneyInv
<1>1. CleanInv
  BY InitType DEF CleanInv, StoredOrdersAreClean, CleanCounterparties, Init
<1>2. /\ order = <<>> /\ DOMAIN order = {} /\ alloc = {} /\ available = Funding
      /\ locked = [u \in Users |-> 0] /\ escrow = 0 /\ payable = 0
      /\ tx = [w \in Workers |-> Idle] /\ OpenOrders = {}
  BY DEF Init, OpenOrders
<1>3. PlacingWhole /\ PairedOnce /\ AccountInv
  BY <1>2 DEF PlacingWhole, PairedOnce, AccountInv
<1>4. SettledKnown
  BY <1>2 DEF SettledKnown, Idle
<1>5. ASSUME NEW D, NEW f \in AmountsOver(D), \A x \in D : f[x] = 0 PROVE Total(f) = 0
  BY <1>5, TotalZero
<1>6. LockedInv
  <2>1. \A u : Waits(u) \in AmountsOver(Rows) /\ \A k \in Rows : Waits(u)[k] = 0
    BY <1>2 DEF Waits, AmountsOver
  <2>2. QED
    BY <1>2, <1>5, <2>1 DEF LockedInv
<1>7. EscrowInv
  <2>1. Held \in AmountsOver({}) /\ \A x \in {} : Held[x] = 0
    BY <1>2 DEF Held, AmountsOver
  <2>2. QED
    BY <1>2, <1>5, <2>1 DEF EscrowInv
<1>8. Conservation
  <2>1. locked \in AmountsOver(Users) /\ \A u \in Users : locked[u] = 0
    BY <1>2 DEF AmountsOver
  <2>2. Total(locked) = 0
    BY <1>5, <2>1
  <2>3. Total(Funding) \in Nat
    BY UsersFinite, TotalType
  <2>4. QED
    BY <1>2, <2>2, <2>3 DEF Conservation
<1>9. WalletInv
  <2>1. ASSUME NEW u
        PROVE  /\ Asks(u) \in AmountsOver(Rows) /\ \A k \in Rows : Asks(u)[k] = 0
               /\ GotBack(u) \in AmountsOver(Rows) /\ \A k \in Rows : GotBack(u)[k] = 0
               /\ Returns(u) \in AmountsOver({}) /\ \A x \in {} : Returns(u)[x] = 0
    BY <1>2 DEF Asks, GotBack, Returns, OrdersOf, AmountsOver
  <2>2. \A u : Total(Asks(u)) = 0 /\ Total(GotBack(u)) = 0 /\ Total(Returns(u)) = 0
    BY <1>5, <2>1
  <2>3. \A u \in Users : Funding[u] \in Nat
    BY ExchangeAssumption
  <2>4. QED
    BY <1>2, <2>2, <2>3 DEF WalletInv
<1>10. QED
  BY <1>1, <1>3, <1>4, <1>6, <1>7, <1>8, <1>9 DEF MoneyInv

LEMMA MoneyStep == ASSUME MoneyInv, [Next]_vars PROVE MoneyInv'
<1>1. CleanInv'
  BY CleanStep, NextType DEF MoneyInv, CleanInv
<1>2. PlacingWhole' /\ PairedOnce' /\ SettledKnown'
  BY WholeStep, PairedOnceStep, SettledStep DEF MoneyInv, CleanInv
<1>3. LockedInv' /\ EscrowInv'
  BY LockedStep, EscrowStep DEF MoneyInv, CleanInv
<1>4. AccountInv' /\ Conservation' /\ WalletInv'
  BY AccountStep, ConservationStep, WalletStep DEF MoneyInv
<1>5. QED
  BY <1>1, <1>2, <1>3, <1>4 DEF MoneyInv

\* What the books of the exchange rest on: every total is kept by every step.
THEOREM MoneyInvariant == Spec => []MoneyInv
<1>1. Init => MoneyInv
  BY MoneyInit
<1>2. MoneyInv /\ [Next]_vars => MoneyInv'
  BY MoneyStep
<1>3. QED
  BY <1>1, <1>2, PTL DEF Spec

\* A user's locked balance is what the user's open orders still wait to match,
\* whatever placements, cancellations, closings and settlements overlap
\* (wallets.locked_minor against bet_orders.unmatched_minor).
THEOREM LockedBacksOpenOrdersHolds == Spec => []LockedBacksOpenOrders
<1>1. MoneyInv => LockedBacksOpenOrders
  BY WaitsTotal DEF MoneyInv, CleanInv, LockedInv, LockedBacksOpenOrders
<1>2. QED
  BY <1>1, MoneyInvariant, PTL

\* The escrow holds both sides of the active allocations and nothing else
\* (INV-06 of the reconciliation).
THEOREM EscrowBacksActiveHolds == Spec => []EscrowBacksActive
<1>1. MoneyInv => EscrowBacksActive
  BY HeldTotal DEF MoneyInv, CleanInv, EscrowInv, EscrowBacksActive
<1>2. QED
  BY <1>1, MoneyInvariant, PTL

\* Every stored order's stake is split between what its allocations matched,
\* what still waits and what was released (INV-08 and INV-09).
THEOREM OrdersAccountForStakesHolds == Spec => []OrdersAccountForStakes
<1>1. MoneyInv => OrdersAccountForStakes
  BY SharesTotal DEF MoneyInv, CleanInv, AccountInv, OrdersAccountForStakes
<1>2. QED
  BY <1>1, MoneyInvariant, PTL

\* No sequence of bets, cancellations, settlements and refunds makes or loses
\* a unit of money: wallets, escrow and commission add up to the funding.
THEOREM ConservationHolds == Spec => []Conservation
<1>1. MoneyInv => Conservation
  BY DEF MoneyInv
<1>2. QED
  BY <1>1, MoneyInvariant, PTL

\* Every available balance is the funds brought, less the stakes not released,
\* plus one return for each allocation won or refunded: nobody is paid twice or
\* for another's bet by placement, release, settlement or void.
THEOREM WalletExplainedHolds == Spec => []WalletExplained
<1>1. MoneyInv => WalletExplained
  BY AsksTotal DEF MoneyInv, CleanInv, WalletInv, WalletExplained, Returns
<1>2. QED
  BY <1>1, MoneyInvariant, PTL

-----------------------------------------------------------------------------
(* What the reconciliation reports *)

\* Only what is paired with something is allocated.
SomethingAllocated == \A x \in alloc : x.amount > 0

LEMMA AllocatedStep ==
    ASSUME CleanInv, SomethingAllocated, [Next]_vars
    PROVE  SomethingAllocated'
<1>1. ASSUME NEW o \in DOMAIN order, PlaceCommit(o) PROVE SomethingAllocated'
  <2>1. /\ alloc' = alloc \cup {PairOf(o, r) : r \in Paired(o)}
        /\ \A r : PairOf(o, r).amount = PlanOf(o)[r]
    BY <1>1, NewRows DEF CleanInv
  <2>2. \A r \in Paired(o) : PlanOf(o)[r] > 0
    BY DEF Paired
  <2>3. ASSUME NEW y \in alloc' PROVE y.amount > 0
    <3>1. CASE y \in alloc
      BY <3>1 DEF SomethingAllocated
    <3>2. ASSUME NEW r \in Paired(o), y = PairOf(o, r) PROVE y.amount > 0
      BY <2>1, <2>2, <3>2
    <3>3. QED
      BY <2>1, <3>1, <3>2
  <2>4. QED
    BY <2>3 DEF SomethingAllocated
<1>2. CASE ~Placement
  <2>1. QuietAllocations
    BY <1>2, QuietStep DEF CleanInv
  <2>2. QED
    BY <2>1 DEF QuietAllocations, SomethingAllocated
<1>3. QED
  BY <1>1, <1>2 DEF Placement

LEMMA EscrowTells ==
    ASSUME CleanInv, EscrowInv, SomethingAllocated
    PROVE  /\ escrow = 2 * ActiveTotal
           /\ escrow # 0 <=> Active # {}
<1> DEFINE f == [x \in Active |-> x.amount]
           d == [x \in Active |-> 2 * x.amount]
<1>1. IsFiniteSet(Active) /\ \A x \in Active : x.amount \in Nat /\ x.amount > 0
  BY AllocationRows DEF CleanInv, SomethingAllocated
<1>2. /\ f \in AmountsOver(Active) /\ d \in AmountsOver(Active)
      /\ \A x \in Active : d[x] = f[x] + f[x]
  BY <1>1 DEF AmountsOver
<1>3. escrow = Total(d) /\ ActiveTotal = Total(f)
  BY HeldTotal DEF CleanInv, EscrowInv, ActiveTotal
<1>4. Total(f) \in Nat /\ Total(d) = Total(f) + Total(f)
  <2> HIDE DEF f, d
  <2>1. QED
    BY <1>1, <1>2, TotalSum, TotalType
<1>5. ASSUME Active = {} PROVE Total(f) = 0
  <2> HIDE DEF f
  <2>1. QED
    BY <1>2, <1>5, TotalZero
<1>6. ASSUME NEW x \in Active PROVE Total(f) > 0
  <2>1. [y \in {x} |-> f[y]] = [y \in {x} |-> x.amount]
    OBVIOUS
  <2>2. Total([y \in {x} |-> x.amount]) = x.amount /\ x.amount > 0 /\ x.amount \in Nat
    BY <1>1, TotalSingle
  <2> HIDE DEF f
  <2>3. Total([y \in {x} |-> f[y]]) =< Total(f)
    BY <1>1, <1>2, TotalPart
  <2>4. QED
    BY <1>4, <2>1, <2>2, <2>3
<1> HIDE DEF f, d
<1>7. QED
  BY <1>3, <1>4, <1>5, <1>6

\* The two sides of the allocations of an order never overlap.
LEMMA AllocatedBothSides ==
    ASSUME CleanInv, NEW o
    PROVE  Total([x \in Sides(o) |-> x.amount]) = AllocatedAs("a", o) + AllocatedAs("b", o)
<1> DEFINE S == {y \in alloc : y.a = o}
           T == {y \in alloc : y.b = o}
           f == [x \in Sides(o) |-> x.amount]
<1>1. Sides(o) = S \cup T /\ S \cap T = {}
  BY DEF Sides, CleanInv, CleanCounterparties
<1>2. IsFiniteSet(Sides(o)) /\ f \in AmountsOver(Sides(o))
  BY AllocationRows, FS_Subset DEF CleanInv, Sides, AmountsOver
<1>3. /\ [x \in S |-> f[x]] = [x \in S |-> x.amount]
      /\ [x \in T |-> f[x]] = [x \in T |-> x.amount]
  BY <1>1
<1>4. Total(f) = Total([x \in S |-> f[x]]) + Total([x \in T |-> f[x]])
  <2> HIDE DEF S, T, f
  <2>1. QED
    BY <1>1, <1>2, TotalSplit
<1>5. QED
  BY <1>3, <1>4 DEF AllocatedAs

LEMMA ReportStands ==
    ASSUME MoneyInv, SomethingAllocated
    PROVE  ReportIsExact
<1>1. Overdrawn = {}
  <2>1. \A u \in Users : available[u] >= 0 /\ locked[u] >= 0
    BY LockedAmounts DEF MoneyInv, CleanInv, TypeOK, AmountsOver
  <2>2. \A u \in Users : available[u] \in Int /\ locked[u] \in Int
    BY DEF MoneyInv, CleanInv, TypeOK
  <2>3. QED
    BY <2>1, <2>2 DEF Overdrawn
<1>2. escrow = 2 * ActiveTotal /\ (escrow # 0 <=> Active # {})
  BY EscrowTells DEF MoneyInv
<1>3. UnbalancedOrders = {}
  BY DEF MoneyInv, AccountInv, UnbalancedOrders
<1>4. MismatchedOrders = {}
  <2>1. \A o \in DOMAIN order : Stored(o) =>
           order[o].matched = AllocatedAs("a", o) + AllocatedAs("b", o)
    BY AllocatedBothSides, SharesTotal DEF MoneyInv, CleanInv, AccountInv
  <2>2. QED
    BY <2>1 DEF MismatchedOrders
<1>5. ~(payable < 0)
  BY DEF MoneyInv, CleanInv, TypeOK
<1>6. Internal = Total(Funding)
  BY DEF MoneyInv, Conservation, Internal
<1>7. DOMAIN Finds = {"INV05", "INV06", "INV07", "INV08", "INV09", "INV12", "INV13"}
  BY DEF Finds
<1>8. /\ ~Finds["INV05"] /\ ~Finds["INV06"] /\ ~Finds["INV08"]
      /\ ~Finds["INV09"] /\ ~Finds["INV12"] /\ ~Finds["INV13"]
      /\ Finds["INV07"] <=> status \in {"SETTLED", "VOID"} /\ Active # {}
  BY <1>1, <1>2, <1>3, <1>4, <1>5, <1>6 DEF Finds
<1>9. QED
  BY <1>7, <1>8, Zenon DEF Failures, ReportIsExact

\* The reconciliation finds nothing in any interleaving, unless a market
\* reached a final status with bets nobody was paid for; then INV-07 says so
\* (reconcile-queries.ts).
THEOREM ReportIsExactHolds == Spec => []ReportIsExact
<1>1. Init => MoneyInv /\ SomethingAllocated
  BY MoneyInit DEF Init, SomethingAllocated
<1>2. MoneyInv /\ SomethingAllocated /\ [Next]_vars
        => MoneyInv' /\ SomethingAllocated'
  BY MoneyStep, AllocatedStep DEF MoneyInv
<1>3. MoneyInv /\ SomethingAllocated => ReportIsExact
  BY ReportStands
<1>4. QED
  BY <1>1, <1>2, <1>3, PTL DEF Spec
=============================================================================
