------------------------------ MODULE LockLadder ------------------------------
(***************************************************************************)
(* The locks of the transactions that move stakes: placement with its      *)
(* matching, cancellation, the closing of a market, its settlement and its *)
(* voiding.  A transaction acquires locks step by step and keeps them to   *)
(* its end.  What it acquires next follows from what it has read, and it   *)
(* sees what others have committed.  PostgreSQL ends a cycle of waiting    *)
(* transactions by aborting one of them; only placement is tried again.    *)
(*                                                                         *)
(* The amounts are left out: how many resting orders a placement matches   *)
(* and which of the orders stay open is chosen freely.                     *)
(***************************************************************************)
EXTENDS Integers, SequencesExt

CONSTANTS
    Users,      \* the wallets' owners, numbered in the order of their ids
    Markets,
    Orders,     \* the orders there can be; seq is their order of creation
    Standing,   \* the orders that are open to begin with
    Txns,       \* the connections that transactions run on
    Attempts    \* attempts of PLACE_ORDER_TX_OPTIONS

Nobody == "nobody"

ASSUME LockLadderAssumption ==
    /\ Users \subseteq Nat
    /\ IsFiniteSet(Orders)
    /\ Orders \subseteq [seq : Nat, user : Users, market : Markets, outcome : {"yes", "no"}]
    /\ \A o, p \in Orders : o.seq = p.seq => o = p
    /\ Standing \subseteq Orders
    /\ Nobody \notin Txns
    /\ Attempts \in Nat \ {0}

VARIABLES
    placed,     \* the orders whose placement has committed
    open,       \* those of them that are OPEN
    status,     \* each market's status
    settled,    \* the markets that have a completed settlement run
    pairs,      \* each market's active allocations, in their sequence
    holder,     \* the transaction that holds each lock
    txn         \* what each connection runs

vars == <<placed, open, status, settled, pairs, holder, txn>>
-----------------------------------------------------------------------------
(* Locks *)

Advisory(m) == [kind |-> "advisory", market |-> m]
Row(m) == [kind |-> "row", market |-> m]
Wallet(u) == [kind |-> "wallet", user |-> u]
OrderRow(o) == [kind |-> "order", order |-> o]

Locks ==
    {Advisory(m) : m \in Markets} \cup {Row(m) : m \in Markets}
        \cup {Wallet(u) : u \in Users} \cup {OrderRow(o) : o \in Orders}

\* The i-th of the orders S is the one that i - 1 of them precede.
InOrder(S) ==
    [i \in 1..Cardinality(S) |->
        CHOOSE o \in S : Cardinality({p \in S : p.seq < o.seq}) = i - 1]

\* The rows of the orders s.
RowsOf(s) == [i \in 1..Len(s) |-> OrderRow(s[i])]

\* The wallets of one posting for two users, in ascending order.
Both(u, v) ==
    IF u = v THEN <<Wallet(u)>> ELSE <<Wallet(IF u < v THEN u ELSE v), Wallet(IF u < v THEN v ELSE u)>>

\* The wallets of one posting for each of the orders s.
Owners(s) == [i \in 1..Len(s) |-> Wallet(s[i].user)]
-----------------------------------------------------------------------------
(* What a transaction does, as steps that each acquire a sequence of locks *)

\* Mutant: a cancellation locks the wallet before the order.
WalletFirst(op) ==
    CASE op = "place"  -> <<"wallet", "advisory", "book", "match">>
      [] op = "cancel" -> <<"wallet", "order", "refund">>
      [] op = "close"  -> <<"row", "open", "release">>
      [] OTHER         -> <<"advisory", "row", "open", "release", "rows", "pay">>

\* Voiding differs from settling in whom it pays.
Steps(op) ==
    CASE op = "place"  -> <<"wallet", "advisory", "book", "match">>
      [] op = "cancel" -> <<"order", "refund">>
      [] op = "close"  -> <<"row", "open", "release">>
      [] OTHER         -> <<"advisory", "row", "open", "release", "rows", "pay">>

Idle == [op |-> "idle"]

\* The n-th attempt to do op to o, an order or a market.
Attempt(op, o, n) ==
    [op |-> op, on |-> o, attempt |-> n,
     left |-> Steps(op), need |-> <<>>, found |-> <<>>]

MarketOf(x) == IF x.op \in {"place", "cancel"} THEN x.on.market ELSE x.on

\* The status of the market and of the order are read without a lock, but for
\* the order of a cancellation.
Refuses(x, s) ==
    CASE s = "wallet"                  -> status[MarketOf(x)] # "OPEN"
      [] s = "refund"                  -> x.on \notin open \/ status[MarketOf(x)] # "OPEN"
      [] s = "row" /\ x.op = "close"   -> status[MarketOf(x)] # "OPEN"
      [] s = "row" /\ x.op = "settle"  -> status[MarketOf(x)] # "CLOSED" \/ MarketOf(x) \in settled
      [] s = "row" /\ x.op = "void"    -> status[MarketOf(x)] # "CLOSED"
      [] OTHER                         -> FALSE

\* The open orders that the incoming order o can be matched with.
Resting(o) ==
    {p \in open : p.market = o.market /\ p.outcome # o.outcome /\ p.user # o.user}

\* Mutant: the book is scanned from its end.
LastFirst(o) == Reverse(InOrder(Resting(o)))

Book(o) == InOrder(Resting(o))

In(m, S) == {o \in S : o.market = m}

\* Mutant: the rows that changed while the scan waited are kept.
Stale(s) == s

\* What a scan returns once it has the rows: those that are open still.
Live(s) == InOrder(Range(s) \cap open)

\* The orders that the step s of x works on; a plan is a part of the book.
Found(x, s) ==
    CASE s = "book"    -> {Book(x.on)}
      [] s = "open"    -> {InOrder(In(MarketOf(x), open))}
      [] s = "rows"    -> {InOrder(In(MarketOf(x), placed))}
      [] s = "match"   -> {SubSeq(Live(x.found), 1, n) : n \in 0..Len(Live(x.found))}
      [] s = "release" -> {Live(x.found)}
      [] OTHER         -> {<<>>}

Winners(m, c) ==
    [i \in 1..Len(pairs[m]) |->
        IF pairs[m][i][1].outcome = c THEN pairs[m][i][1] ELSE pairs[m][i][2]]

\* The locks that the step s of x acquires, one after the other, for the orders f.
Needs(x, s, f) ==
    CASE s = "wallet"   -> {<<Wallet(x.on.user)>>}
      [] s = "refund"   -> {<<Wallet(x.on.user)>>}
      [] s = "order"    -> {<<OrderRow(x.on)>>}
      [] s = "advisory" -> {<<Advisory(MarketOf(x))>>}
      [] s = "row"      -> {<<Row(MarketOf(x))>>}
      [] s \in {"book", "open", "rows"} -> {RowsOf(f)}
      [] s = "match"    -> {FlattenSeq([i \in 1..Len(f) |-> Both(x.on.user, f[i].user)])}
      [] s = "release"  -> {Owners(f)}
      [] s = "pay" /\ x.op = "settle" -> {Owners(Winners(MarketOf(x), c)) : c \in {"yes", "no"}}
      [] OTHER -> {FlattenSeq([i \in 1..Len(pairs[MarketOf(x)]) |->
                      Both(pairs[MarketOf(x)][i][1].user, pairs[MarketOf(x)][i][2].user)])}
-----------------------------------------------------------------------------
(* Transactions *)

Init ==
    /\ placed = Standing
    /\ open = Standing
    /\ status = [m \in Markets |-> "OPEN"]
    /\ settled = {}
    /\ pairs = [m \in Markets |-> <<>>]
    /\ holder = [k \in Locks |-> Nobody]
    /\ txn = [t \in Txns |-> Idle]

Placing(o) == \E t \in Txns : txn[t] # Idle /\ txn[t].op = "place" /\ txn[t].on = o

\* An order is placed once and cancelled by its owner; markets are closed,
\* settled and voided by their administrators.
Requests ==
    {[op |-> "place", on |-> o] : o \in {p \in Orders \ placed : ~ Placing(p)}}
        \cup {[op |-> "cancel", on |-> o] : o \in placed}
        \cup {[op |-> p, on |-> m] : p \in {"close", "settle", "void"}, m \in Markets}

Begin(t) ==
    /\ txn[t] = Idle
    /\ \E q \in Requests : txn' = [txn EXCEPT ![t] = Attempt(q.op, q.on, 1)]
    /\ UNCHANGED <<placed, open, status, settled, pairs, holder>>

Released(t) == [k \in Locks |-> IF holder[k] = t THEN Nobody ELSE holder[k]]

Running(t) == txn[t] # Idle

\* The transaction has the lock that it needs next, or gets it.
Acquire(t) ==
    /\ Running(t)
    /\ txn[t].need # <<>>
    /\ holder[Head(txn[t].need)] \in {Nobody, t}
    /\ holder' = [holder EXCEPT ![Head(txn[t].need)] = t]
    /\ txn' = [txn EXCEPT ![t].need = Tail(@)]
    /\ UNCHANGED <<placed, open, status, settled, pairs>>

AtStep(t) == Running(t) /\ txn[t].need = <<>> /\ txn[t].left # <<>>

Enter(t) ==
    LET x == txn[t] IN
    /\ AtStep(t)
    /\ ~ Refuses(x, Head(x.left))
    /\ \E f \in Found(x, Head(x.left)) : \E n \in Needs(x, Head(x.left), f) :
          txn' = [txn EXCEPT ![t] = [x EXCEPT !.left = Tail(@), !.need = n, !.found = f]]
    /\ UNCHANGED <<placed, open, status, settled, pairs, holder>>

Finish(t) ==
    /\ holder' = Released(t)
    /\ txn' = [txn EXCEPT ![t] = Idle]

\* A precondition fails and the transaction rolls back.
Refuse(t) ==
    /\ AtStep(t)
    /\ Refuses(txn[t], Head(txn[t].left))
    /\ Finish(t)
    /\ UNCHANGED <<placed, open, status, settled, pairs>>

Done(t, op) ==
    /\ Running(t)
    /\ txn[t].op = op
    /\ txn[t].need = <<>>
    /\ txn[t].left = <<>>
    /\ Finish(t)

\* The orders that can be open after x has matched those of its plan: the
\* incoming one or the last of the plan may have a rest.
Rests(x) == SUBSET ({x.on} \cup {o \in Range(x.found) : o = Last(x.found)})

CommitPlacement(t) ==
    LET x == txn[t] IN
    /\ Done(t, "place")
    /\ placed' = placed \cup {x.on}
    /\ \E r \in Rests(x) : open' = (open \ Range(x.found)) \cup r
    /\ pairs' = [pairs EXCEPT ![MarketOf(x)] =
                    @ \o [i \in 1..Len(x.found) |-> <<x.on, x.found[i]>>]]
    /\ UNCHANGED <<status, settled>>

CommitCancellation(t) ==
    /\ Done(t, "cancel")
    /\ open' = open \ {txn[t].on}
    /\ UNCHANGED <<placed, status, settled, pairs>>

CommitClosing(t) ==
    /\ Done(t, "close")
    /\ open' = open \ Range(txn[t].found)
    /\ status' = [status EXCEPT ![txn[t].on] = "CLOSED"]
    /\ UNCHANGED <<placed, settled, pairs>>

\* The market and its orders reach their final status together.
CommitOutcome(t, op, final) ==
    LET m == txn[t].on IN
    /\ Done(t, op)
    /\ open' = open \ In(m, open)
    /\ status' = [status EXCEPT ![m] = final]
    /\ pairs' = [pairs EXCEPT ![m] = <<>>]
    /\ UNCHANGED placed

CommitSettlement(t) == CommitOutcome(t, "settle", "SETTLED") /\ settled' = settled \cup {txn[t].on}

CommitVoiding(t) == CommitOutcome(t, "void", "VOID") /\ UNCHANGED settled
-----------------------------------------------------------------------------
(* Deadlock *)

Waits(t) == Running(t) /\ txn[t].need # <<>> /\ holder[Head(txn[t].need)] \notin {Nobody, t}

\* Everyone in D waits for a lock that someone in D holds.
Stuck(D) == D # {} /\ \A t \in D : Waits(t) /\ holder[Head(txn[t].need)] \in D

Cycle(D) == Stuck(D) /\ \A E \in SUBSET D : Stuck(E) => E = D

\* Mutant: an attempt that was aborted does not count.
SameAttempt(x) == x.attempt

\* Mutant: the attempts of a retry are counted from zero.
Recounted(x) == 0

NextAttempt(x) == x.attempt + 1

\* Every member of a cycle may be the one that PostgreSQL aborts.
Victim(t) ==
    LET x == txn[t] IN
    /\ \E D \in SUBSET Txns : t \in D /\ Cycle(D)
    /\ holder' = Released(t)
    /\ txn' = [txn EXCEPT ![t] =
                  IF x.op = "place" /\ x.attempt < Attempts
                  THEN Attempt(x.op, x.on, NextAttempt(x))
                  ELSE Idle]
    /\ UNCHANGED <<placed, open, status, settled, pairs>>

Commit(t) ==
    \/ CommitPlacement(t) \/ CommitCancellation(t) \/ CommitClosing(t)
    \/ CommitSettlement(t) \/ CommitVoiding(t)

Next == \E t \in Txns : Begin(t) \/ Acquire(t) \/ Enter(t) \/ Refuse(t) \/ Commit(t) \/ Victim(t)

\* A transaction that can go on does, PostgreSQL grants a lock in the order of
\* the requests for it, and it looks for deadlocks again and again.
Fairness ==
    \A t \in Txns :
        /\ WF_vars(Enter(t) \/ Refuse(t) \/ Commit(t))
        /\ SF_vars(Acquire(t))
        /\ WF_vars(\E s \in Txns : Victim(s))

Spec == Init /\ [][Next]_vars /\ Fairness
-----------------------------------------------------------------------------
(* Properties *)

Op == {"place", "cancel", "close", "settle", "void"}

IsRun(x) ==
    /\ x.op \in Op
    /\ x.on \in (IF x.op \in {"place", "cancel"} THEN Orders ELSE Markets)
    /\ x.attempt \in 1..Attempts
    /\ Range(x.left) \subseteq Range(Steps(x.op))
    /\ Range(x.need) \subseteq Locks
    /\ Range(x.found) \subseteq placed

TypeOK ==
    /\ open \subseteq placed
    /\ placed \subseteq Orders
    /\ status \in [Markets -> {"OPEN", "CLOSED", "SETTLED", "VOID"}]
    /\ settled \subseteq Markets
    /\ \A m \in Markets : \A p \in Range(pairs[m]) : p \in In(m, placed) \X In(m, placed)
    /\ holder \in [Locks -> Txns \cup {Nobody}]
    /\ \A t \in Txns : txn[t] = Idle \/ IsRun(txn[t])

\* What a transaction read while it acquired the rows is true until it commits:
\* the orders that it matches or releases stay open (book.ts, order-repository.ts).
PlansStayValid ==
    \A t \in Txns :
        Running(t) /\ txn[t].left = <<>> /\ txn[t].op \in {"place", "close"} =>
            Range(txn[t].found) \subseteq open

\* Transactions on one market deadlock only when a placement, which alone is
\* tried again, is among them (place-order.ts, release-unmatched.ts, run.ts).
CyclesNeedPlacement ==
    \A D \in SUBSET Txns :
        Stuck(D) /\ (\A s, t \in D : MarketOf(txn[s]) = MarketOf(txn[t])) =>
            \E t \in D : txn[t].op = "place"

\* The rows of the orders and of the market are never what a deadlock is made
\* of alone: someone in it waits for a wallet.
CyclesNeedWallet ==
    \A D \in SUBSET Txns :
        Stuck(D) => \E t \in D : Head(txn[t].need).kind = "wallet"

\* Every transaction comes to an end, since the aborted placement tries again
\* a bounded number of times (uow.ts).
TransactionsEnd == \A t \in Txns : Running(t) ~> ~ Running(t)
=============================================================================
