---------------------------- MODULE CreditRequests ----------------------------
(***************************************************************************)
(* Requests for simulated credit as the HTTP route serves them.  A request *)
(* claims its idempotency key, credits the wallet and stores the response  *)
(* in a transaction each; whoever finds the key claimed looks its response *)
(* up instead.  A request may fail after any of its steps, and the client  *)
(* may send it again at any time, with the same key or another one.        *)
(*                                                                         *)
(* The crediting transaction is modelled statement by statement: it sums   *)
(* the day's credits, then locks the wallet, then looks for an earlier     *)
(* posting under the key, then inserts its own.  What it writes is visible *)
(* to others when it commits; the locks it has are the wallet's row and    *)
(* the key's entry in the unique index of the ledger.                      *)
(***************************************************************************)
EXTENDS Integers, FiniteSets, Totals

CONSTANTS
    Users,      \* the clients, each with a wallet
    Keys,       \* the idempotency keys they choose from
    Amounts,    \* the amounts they ask for
    Requests,   \* the requests they send: a user, a key and an amount
    Handlers,   \* requests that the server can have in flight
    DailyCap    \* dailyCapMinor

Nobody == "nobody"

ASSUME CreditRequestsAssumption ==
    /\ Amounts \subseteq Nat \ {0}
    /\ Requests \subseteq [user : Users, key : Keys, amount : Amounts]
    /\ DailyCap \in Nat
    /\ Nobody \notin Handlers
    /\ IsFiniteSet(Handlers) /\ Handlers # {}

VARIABLES
    rows,       \* idempotency_keys
    ledger,     \* the committed FAUCET transactions
    wallet,     \* wallets.available_minor
    lock,       \* the handler that has the wallet's row locked
    handler,    \* each request in flight: its step and what it was sent
    reply       \* how the handler's last request ended

vars == <<rows, ledger, wallet, lock, handler, reply>>
-----------------------------------------------------------------------------
(* Rows and requests *)

KeyRow == [user : Users, key : Keys, amount : Amounts, answered : BOOLEAN]

Posting == [key : Keys, user : Users, amount : Amounts]

Step == {"create", "lookup", "sum", "lock", "find", "insert", "replay", "commit", "respond"}

Busy == [step : Step, user : Users, key : Keys, amount : Amounts]

Idle == [step |-> "idle"]

\* Success is the stored response or the one about to be; refused stands for
\* LIMIT_EXCEEDED, SERVICE_BUSY and IDEMPOTENCY_KEY_REUSE.
Reply == {"none", "success", "refused", "failed"}

Init ==
    /\ rows = {}
    /\ ledger = {}
    /\ wallet = [u \in Users |-> 0]
    /\ lock = [u \in Users |-> Nobody]
    /\ handler = [h \in Handlers |-> Idle]
    /\ reply = [h \in Handlers |-> "none"]

At(h, s) == handler[h].step = s

GoTo(h, s) == handler' = [handler EXCEPT ![h].step = s]

End(h, r) ==
    /\ handler' = [handler EXCEPT ![h] = Idle]
    /\ reply' = [reply EXCEPT ![h] = r]

\* Mutant: a failed transaction keeps the lock it has.
KeptAfter(h) == lock

\* The locks that are left when the transaction of h ends.
LocksAfter(h) == [u \in Users |-> IF lock[u] = h THEN Nobody ELSE lock[u]]
-----------------------------------------------------------------------------
(* The idempotency key *)

RowOf(u, k) == {r \in rows : r.user = u /\ r.key = k}

\* A client sends a request; the rate limit and the session let it pass.
Receive(h, q) ==
    /\ handler[h] = Idle
    /\ handler' = [handler EXCEPT ![h] = [step |-> "create", user |-> q.user, key |-> q.key,
                                          amount |-> q.amount]]
    /\ reply' = [reply EXCEPT ![h] = "none"]
    /\ UNCHANGED <<rows, ledger, wallet, lock>>

\* The primary key decides which of several requests claims the key.
TryCreate(h) ==
    LET q == handler[h] IN
    /\ At(h, "create")
    /\ IF RowOf(q.user, q.key) = {}
       THEN /\ rows' = rows \cup {[user |-> q.user, key |-> q.key, amount |-> q.amount,
                                   answered |-> FALSE]}
            /\ GoTo(h, "sum")
       ELSE /\ GoTo(h, "lookup")
            /\ UNCHANGED rows
    /\ UNCHANGED <<ledger, wallet, lock, reply>>

\* Mutant: the test for a stored response is inverted.
InvertedReplay(r) == IF r.answered THEN "refused" ELSE "success"

\* What a request that lost the key is told, given the key's row.
Replay(r) == IF r.answered THEN "success" ELSE "refused"

Lookup(h) ==
    /\ At(h, "lookup")
    /\ \E r \in RowOf(handler[h].user, handler[h].key) :
          End(h, IF r.amount # handler[h].amount THEN "refused" ELSE Replay(r))
    /\ UNCHANGED <<rows, ledger, wallet, lock>>

\* The rows once the response of u and k is stored.
Answered(u, k) ==
    {[r EXCEPT !.answered = r.answered \/ (r.user = u /\ r.key = k)] : r \in rows}

Respond(h) ==
    /\ At(h, "respond")
    /\ rows' = Answered(handler[h].user, handler[h].key)
    /\ End(h, "success")
    /\ UNCHANGED <<ledger, wallet, lock>>
-----------------------------------------------------------------------------
(* The credit *)

\* Every request of the model falls on the same day.
CreditedToday(u) == Total([c \in {p \in ledger : p.user = u} |-> c.amount])

\* Mutant: the day's credits are not counted.
ExceedsAlone(u, a) == a > DailyCap

ExceedsCap(u, a) == CreditedToday(u) + a > DailyCap

\* The cap is checked before any lock is taken.
Sum(h) ==
    /\ At(h, "sum")
    /\ IF ExceedsCap(handler[h].user, handler[h].amount)
       THEN End(h, "refused")
       ELSE GoTo(h, "lock") /\ UNCHANGED reply
    /\ UNCHANGED <<rows, ledger, wallet, lock>>

Lock(h) ==
    /\ At(h, "lock")
    /\ lock[handler[h].user] = Nobody
    /\ lock' = [lock EXCEPT ![handler[h].user] = h]
    /\ GoTo(h, "find")
    /\ UNCHANGED <<rows, ledger, wallet, reply>>

\* Mutant: the ledger has no unique key.
Untaken(k) == FALSE

Taken(k) == \E p \in ledger : p.key = k

\* A posting under this key, another user's too, is taken for this one.
Find(h) ==
    /\ At(h, "find")
    /\ GoTo(h, IF Taken(handler[h].key) THEN "replay" ELSE "insert")
    /\ UNCHANGED <<rows, ledger, wallet, lock, reply>>

\* Some transaction has inserted the key and has not ended.
Inserting(k) == \E g \in Handlers : At(g, "commit") /\ handler[g].key = k

\* The unique index makes the insertion wait for that transaction, and fail
\* when it commits.
Insert(h) ==
    LET q == handler[h] IN
    /\ At(h, "insert")
    /\ ~ Inserting(q.key)
    /\ IF Taken(q.key)
       THEN /\ End(h, "failed")
            /\ lock' = LocksAfter(h)
       ELSE /\ GoTo(h, "commit")
            /\ UNCHANGED <<lock, reply>>
    /\ UNCHANGED <<rows, ledger, wallet>>

\* Mutant: the entries have each other's sign.
Debited(q) == [wallet EXCEPT ![q.user] = @ - q.amount]

\* The wallet with the entry of the user's account applied to it.
Credited(q) == [wallet EXCEPT ![q.user] = @ + q.amount]

Commit(h) ==
    LET q == handler[h] IN
    /\ At(h, "commit")
    /\ ledger' = ledger \cup {[key |-> q.key, user |-> q.user, amount |-> q.amount]}
    /\ wallet' = Credited(q)
    /\ lock' = LocksAfter(h)
    /\ GoTo(h, "respond")
    /\ UNCHANGED <<rows, reply>>

\* The transaction that found the key taken commits an audit event.
CommitReplay(h) ==
    /\ At(h, "replay")
    /\ lock' = LocksAfter(h)
    /\ GoTo(h, "respond")
    /\ UNCHANGED <<rows, ledger, wallet, reply>>
-----------------------------------------------------------------------------
(* The environment *)

\* The server stops, the database refuses or the account is no longer active:
\* the transaction is rolled back and what has been committed stays.
Fail(h) ==
    /\ handler[h] # Idle
    /\ End(h, "failed")
    /\ lock' = LocksAfter(h)
    /\ UNCHANGED <<rows, ledger, wallet>>

Serve(h) ==
    \/ TryCreate(h) \/ Lookup(h) \/ Sum(h) \/ Lock(h) \/ Find(h)
    \/ Insert(h) \/ Commit(h) \/ CommitReplay(h) \/ Respond(h)

Next ==
    \/ \E h \in Handlers, q \in Requests : Receive(h, q)
    \/ \E h \in Handlers : Serve(h) \/ Fail(h)

\* A request that runs gets on; PostgreSQL grants a row's lock in the order of
\* the requests for it, so that nobody waits for ever for a lock that is freed.
Fairness == \A h \in Handlers : WF_vars(Serve(h)) /\ SF_vars(Lock(h))

Spec == Init /\ [][Next]_vars /\ Fairness
-----------------------------------------------------------------------------
(* Properties *)

TypeOK ==
    /\ rows \subseteq KeyRow
    /\ ledger \subseteq Posting
    /\ wallet \in [Users -> Nat]
    /\ lock \in [Users -> Handlers \cup {Nobody}]
    /\ handler \in [Handlers -> Busy \cup {Idle}]
    /\ reply \in [Handlers -> Reply]

\* The promise, kept by the committed rows of the three tables.
Promise == INSTANCE Credits WITH
    credits <- ledger,
    balance <- wallet,
    answered <- {<<r.user, r.key>> : r \in {s \in rows : s.answered}}

\* Retries, concurrent duplicates and failures between the three transactions
\* never pay a key twice, change a wallet without a posting or answer a request
\* whose key has not paid (withHttpIdempotency, RULE-G05, INV-15).
CreditsAsPromised == Promise!Spec

\* The wallet that the ledger writes is the total of its postings (INV-03).
BalanceIsLedger == \A u \in Users : wallet[u] = CreditedToday(u)

\* A client is told of success only when a posting under its key is there,
\* though the posting and the response are written in different transactions.
RepliesAreTrue ==
    [][\A h \in Handlers : reply'[h] = "success" /\ reply[h] # "success" =>
           \E p \in ledger : p.key = handler[h].key]_vars

\* The cap is summed before the wallet is locked, so that every other request
\* in flight may pass it with the same sum; no more than that can.
CapOvershoot ==
    \A u \in Users, m \in Amounts : (\A a \in Amounts : a <= m) =>
        CreditedToday(u) <= DailyCap + (Cardinality(Handlers) - 1) * m

\* Every request comes to an end, whoever fails holding the lock it waits for.
RequestsEnd == \A h \in Handlers : At(h, "create") ~> handler[h] = Idle

\* A retry of a request whose response is stored is answered with it, unless
\* the retry fails itself.
RetriesAnswered ==
    \A h \in Handlers :
        (At(h, "create") /\ \E r \in rows : r.answered /\ r.user = handler[h].user
                               /\ r.key = handler[h].key /\ r.amount = handler[h].amount)
        ~> reply[h] \in {"success", "failed"}
-----------------------------------------------------------------------------
(* What the comments claim *)

\* idempotency.ts:27-29: a failed attempt rolls the key back, "so a failed
\* attempt is never cached and a retry starts fresh": a key without a response
\* belongs to a request in flight.
FailedKeyIsFree ==
    \A r \in rows : r.answered \/ \E h \in Handlers :
        handler[h] # Idle /\ handler[h].user = r.user /\ handler[h].key = r.key
=============================================================================
